----------------------------- MODULE SelfUpdate -----------------------------
(***************************************************************************)
(* `omg self-update` (cli/self_update.rs) replaces the pair omgd and omg.  *)
(* Each process copies both old binaries, stages both new ones next to     *)
(* them, renames the daemon and then the command into place, and restores  *)
(* both copies when a replacement fails.  A kill may come anywhere.        *)
(*                                                                         *)
(* The version of a binary is the process that installed it.  The copies   *)
(* are temporary files: they go when the call returns, except one that     *)
(* could not be restored, and they stay when the process is killed.        *)
(***************************************************************************)
EXTENDS Naturals

CONSTANTS Updaters,   \* processes
          Shipped,    \* the version at the start
          Missing     \* no binary, no process

ASSUME UpdateConstants == Shipped \notin Updaters /\ Missing \notin Updaters \cup {Shipped}

VARIABLES
  binary,      \* omgd and omg as they are installed
  updateLock,  \* holder of .omg-self-update.lock
  updater,     \* per process: control point and binary to work on
  copy,        \* per process: copies of the old binaries
  trouble,     \* per process: a step of the recovery failed
  owner,       \* the last process that took the lock
  found,       \* what it found
  answer       \* what the user was told

updateVars == <<binary, updateLock, updater, copy, trouble, owner, found, answer>>

Pair == 1..2   \* omgd, omg: the order of the array destinations
BinaryVersions == Updaters \cup {Shipped, Missing}
NoCopies == [b \in Pair |-> Missing]
UpdatePoints == {"idle", "copy", "stage", "replace", "recover", "done"}

Turn(p, point, b) == updater' = [updater EXCEPT ![p] = [at |-> point, binary |-> b]]
Working(p, point) == updater[p].at = point
Unlocked(p) == updateLock' = IF updateLock = p THEN Missing ELSE updateLock

\* omgd may never have been installed.
UpdateInit ==
  /\ binary \in {[b \in Pair |-> IF b = 1 THEN daemon ELSE Shipped] :
                   daemon \in {Shipped, Missing}}
  /\ updateLock = Missing
  /\ updater = [p \in Updaters |-> [at |-> "idle", binary |-> 0]]
  /\ copy = [p \in Updaters |-> NoCopies] /\ trouble = [p \in Updaters |-> FALSE]
  /\ owner = Missing /\ found = binary /\ answer = "none"

\* try_lock, after the download, its verification and the probe of both new
\* binaries; a process that does not get the lock ends.
LockUpdate(p) ==
  /\ Working(p, "idle") /\ updateLock = Missing
  /\ updateLock' = p /\ owner' = p /\ found' = binary /\ answer' = "none"
  /\ Turn(p, "copy", 1)
  /\ UNCHANGED <<binary, copy, trouble>>

\* An error before the first replacement leaves the pair as it was.
GiveUpUpdate(p) ==
  /\ updater[p].at \in {"copy", "stage"}
  /\ copy' = [copy EXCEPT ![p] = NoCopies] /\ answer' = "failed"
  /\ Unlocked(p) /\ Turn(p, "done", 0)
  /\ UNCHANGED <<binary, trouble, owner, found>>

CopyOld(p) ==
  LET b == updater[p].binary IN
  /\ Working(p, "copy") /\ (b = 2 => binary[b] # Missing)
  /\ copy' = [copy EXCEPT ![p][b] = binary[b]]
  /\ IF b = 2 THEN Turn(p, "stage", 0) ELSE Turn(p, "copy", b + 1)
  /\ UNCHANGED <<binary, updateLock, trouble, owner, found, answer>>

StageNew(p) ==
  /\ Working(p, "stage") /\ Turn(p, "replace", 1)
  /\ UNCHANGED <<binary, updateLock, copy, trouble, owner, found, answer>>

\* persist_update_binary; both done
ReplaceBinary(p) ==
  LET b == updater[p].binary IN
  /\ Working(p, "replace") /\ b <= 2
  /\ binary' = [binary EXCEPT ![b] = p] /\ Turn(p, "replace", b + 1)
  /\ UNCHANGED <<updateLock, copy, trouble, owner, found, answer>>

\* The rename fails, or the sync of the directory after it.
ReplaceFails(p) ==
  LET b == updater[p].binary IN
  /\ Working(p, "replace") /\ b <= 2
  /\ UNCHANGED binary \/ binary' = [binary EXCEPT ![b] = p]
  /\ Turn(p, "recover", 1)
  /\ UNCHANGED <<updateLock, copy, trouble, owner, found, answer>>

Updated(p) ==
  /\ Working(p, "replace") /\ updater[p].binary = 3
  /\ answer' = "ok" /\ copy' = [copy EXCEPT ![p] = NoCopies]
  /\ Unlocked(p) /\ Turn(p, "done", 0)
  /\ UNCHANGED <<binary, trouble, owner, found>>

\* Mutation: a first binary that had no predecessor is not removed.
RecoverFailedOnly(p) ==
  LET b == updater[p].binary IN
  /\ Working(p, "recover") /\ b <= 2
  /\ binary' = IF b = 2 \/ copy[p][b] # Missing THEN [binary EXCEPT ![b] = copy[p][b]] ELSE binary
  /\ copy' = [copy EXCEPT ![p][b] = Missing]
  /\ Turn(p, "recover", b + 1)
  /\ UNCHANGED <<updateLock, trouble, owner, found, answer>>

\* Mutation: a copy is dropped although it could not be restored.
RecoverAndDrop(p) ==
  LET b == updater[p].binary IN
  /\ Working(p, "recover") /\ b <= 2
  /\ \/ binary' = [binary EXCEPT ![b] = copy[p][b]] /\ UNCHANGED trouble
     \/ trouble' = [trouble EXCEPT ![p] = TRUE] /\ UNCHANGED binary
  /\ copy' = [copy EXCEPT ![p][b] = Missing]
  /\ Turn(p, "recover", b + 1)
  /\ UNCHANGED <<updateLock, owner, found, answer>>

\* Every binary is restored from its copy, or removed if there was none; a copy
\* that cannot be restored is kept.
RecoverBinary(p) ==
  LET b == updater[p].binary IN
  /\ Working(p, "recover") /\ b <= 2
  /\ \/ /\ binary' = [binary EXCEPT ![b] = copy[p][b]]
        /\ copy' = [copy EXCEPT ![p][b] = Missing]
        /\ \/ UNCHANGED trouble
           \/ trouble' = [trouble EXCEPT ![p] = TRUE]
     \/ trouble' = [trouble EXCEPT ![p] = TRUE] /\ UNCHANGED <<binary, copy>>
  /\ Turn(p, "recover", b + 1)
  /\ UNCHANGED <<updateLock, owner, found, answer>>

Recovered(p) ==
  /\ Working(p, "recover") /\ updater[p].binary = 3
  /\ answer' = IF trouble[p] THEN "attention" ELSE "failed"
  /\ Unlocked(p) /\ Turn(p, "done", 0)
  /\ UNCHANGED <<binary, copy, trouble, owner, found>>

UpdateKilled(p) ==
  /\ updater[p].at \notin {"idle", "done"} /\ answer' = "killed"
  /\ Unlocked(p) /\ Turn(p, "done", 0)
  /\ UNCHANGED <<binary, copy, trouble, owner, found>>

-----------------------------------------------------------------------------
UpdateNext ==
  \E p \in Updaters :
    \/ LockUpdate(p) \/ GiveUpUpdate(p) \/ CopyOld(p) \/ StageNew(p)
    \/ ReplaceBinary(p) \/ ReplaceFails(p) \/ Updated(p)
    \/ RecoverBinary(p) \/ Recovered(p) \/ UpdateKilled(p)

UpdateSpec == UpdateInit /\ [][UpdateNext]_updateVars

-----------------------------------------------------------------------------
(* Properties.                                                             *)

\* Every variable has its type.
UpdateTypeOK ==
  /\ binary \in [Pair -> BinaryVersions] /\ updateLock \in Updaters \cup {Missing}
  /\ updater \in [Updaters -> [at : UpdatePoints, binary : 0..3]]
  /\ copy \in [Updaters -> [Pair -> BinaryVersions]] /\ trouble \in [Updaters -> BOOLEAN]
  /\ owner \in Updaters \cup {Missing} /\ found \in [Pair -> BinaryVersions]
  /\ answer \in {"none", "ok", "failed", "attention", "killed"}

\* Once a replacement has begun, the binaries the update found are installed, or
\* still there as copies, until both new ones are in place: a recovery that
\* fails and a kill included (install_update_pair_with).
OldPairRecoverable ==
  \/ owner = Missing \/ \A b \in Pair : binary[b] = owner
  \/ \A b \in Pair : found[b] \in {Missing, binary[b], copy[owner][b]}

\* "never claim success with only one binary installed": success means both are
\* new, an ordinary failure that both are as they were found.
UpdateState ==
  IF owner = Missing \/ binary = found THEN "before"
  ELSE IF \A b \in Pair : binary[b] = owner THEN "after" ELSE "between"
Update == INSTANCE AllOrNothing WITH state <- UpdateState, report <- answer
UpdateAllOrNothing == Update!Spec
=============================================================================
