------------------------------ MODULE MCStores ------------------------------
(***************************************************************************)
(* The files that several omg processes write, for TLC.  They are          *)
(* independent of each other: a behaviour is one of one store, and the     *)
(* variables of the others keep their initial values.                      *)
(***************************************************************************)
EXTENDS RuntimeStore, DatabaseSync, SelfUpdate, HistoryLog, UsageStats

CONSTANTS p1, p2, v1, v2

VARIABLE store   \* the one that is looked at

storesVars == <<store, storeVars, syncVars, updateVars, historyVars, usageVars>>

StoresInit ==
  /\ StoreInit /\ SyncInit /\ UpdateInit /\ HistoryInit /\ UsageInit
  /\ store \in {"runtimes", "databases", "binaries", "history", "usage"}
  /\ store # "runtimes" => manager = "plain"
  /\ store # "databases" => live = [f \in DbFiles |-> First]
  /\ store # "binaries" => binary[1] = Shipped

StoresNext ==
  /\ UNCHANGED store
  /\ \/ store = "runtimes" /\ StoreNext
        /\ UNCHANGED <<syncVars, updateVars, historyVars, usageVars>>
     \/ store = "databases" /\ SyncNext
        /\ UNCHANGED <<storeVars, updateVars, historyVars, usageVars>>
     \/ store = "binaries" /\ UpdateNext
        /\ UNCHANGED <<storeVars, syncVars, historyVars, usageVars>>
     \/ store = "history" /\ HistoryNext
        /\ UNCHANGED <<storeVars, syncVars, updateVars, usageVars>>
     \/ store = "usage" /\ UsageNext
        /\ UNCHANGED <<storeVars, syncVars, updateVars, historyVars>>

StoresSpec == StoresInit /\ [][StoresNext]_storesVars
=============================================================================
