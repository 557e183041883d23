------------------------ MODULE DaemonCatalogProofs -------------------------
(***************************************************************************)
(* Proofs about the daemon catalogue, for every set of clients, every      *)
(* backend and every value of the bounds, in three layers.                 *)
(*                                                                         *)
(* Type correctness comes first.  On it rests the lock discipline, and what*)
(* it gives: a cache never holds a value of a generation that is no longer *)
(* published (Discipline).  On top of that, the order in which databases   *)
(* are observed, read, published and cached (Fresh), from which the index  *)
(* is never torn, the caches are exact and every healed answer is fresh.   *)
(***************************************************************************)
EXTENDS DaemonCatalog, TLAPS

USE CatalogConstants

-----------------------------------------------------------------------------
(* Type correctness.                                                       *)

LEMMA ZeroTypes ==
  /\ Zero \in Version /\ NoAnswer \in [ver : Version, via : Vias]
  /\ NoBuild \in Build /\ NoLocals \in [gen : Nat, ver : Version, sub : Subs]
  /\ EmptyCache \in [Subs -> SUBSET Entry]
  /\ \A k : SubOf(k) \in Subs
BY DEF Zero, Version, NoAnswer, Vias, NoBuild, Build, NoLocals, Subs, EmptyCache,
       Entry, SubOf

\* How a request or a maintenance stage ends keeps the actors' types.
LEMMA FinishType ==
  ASSUME ActorType, NEW a \in Actors, NEW v \in Version, NEW via \in Vias,
         Finish(a, v, via)
  PROVE  ActorType'
<1>1. CASE a = Worker
  BY <1>1, ZeroTypes DEF ActorType, Finish, Goto, PCs, AllKinds, Actors
<1>2. CASE a # Worker
  <2>1. a \in Clients BY <1>2 DEF Actors
  <2>2. [ver |-> v, via |-> via] \in [ver : Version, via : Vias] OBVIOUS
  <2>3. pc' = [pc EXCEPT ![a] = "idle"] /\ loc' = [loc EXCEPT ![a] = NoLocals]
        /\ answer' = [answer EXCEPT ![a] = [ver |-> v, via |-> via]]
        /\ UNCHANGED <<kind, began>>
    BY <1>2 DEF Finish, Goto
  <2>. QED BY <2>1, <2>2, <2>3, ZeroTypes DEF ActorType, PCs
<1>. QED BY <1>1, <1>2

LEMMA InitType == Init => TypeOK
<1>. SUFFICES ASSUME Init PROVE TypeOK OBVIOUS
<1>1. CatalogType BY ZeroTypes DEF Init, CatalogType, Published
<1>2. StoreType BY ZeroTypes DEF Init, StoreType
<1>3. ActorType BY ZeroTypes DEF Init, ActorType, PCs, AllKinds
<1>4. FlagType BY DEF Init, FlagType
<1>5. SpentType BY DEF Init, SpentType
<1>. QED BY <1>1, <1>2, <1>3, <1>4, <1>5 DEF TypeOK

\* Every step keeps every variable in its type.
LEMMA StepType == TypeOK /\ [Next]_vars => TypeOK'
<1>. SUFFICES ASSUME TypeOK, [Next]_vars PROVE TypeOK' OBVIOUS
<1>1. ASSUME DatabasesChange PROVE TypeOK'
  <2>1. StoreType' /\ ActorType' /\ FlagType' /\ SpentType'
    BY <1>1 DEF TypeOK, StoreType, ActorType, FlagType, SpentType, DatabasesChange,
         catalogVars, cacheVars, actorVars
  <2>2. CatalogType'
    BY <1>1 DEF TypeOK, CatalogType, DatabasesChange, catalogVars, cacheVars,
         actorVars, Version
  <2>. QED BY <2>1, <2>2 DEF TypeOK
<1>2. ASSUME ExpirePersisted PROVE TypeOK'
  <2>1. CatalogType' /\ ActorType' /\ FlagType' /\ SpentType'
    BY <1>2 DEF TypeOK, CatalogType, ActorType, FlagType, SpentType, ExpirePersisted,
         catalogVars, cacheVars, actorVars
  <2>2. StoreType'
    BY <1>2 DEF TypeOK, StoreType, ExpirePersisted, catalogVars, cacheVars, actorVars
  <2>. QED BY <2>1, <2>2 DEF TypeOK
<1>3. ASSUME DebounceElapses PROVE TypeOK'
  <2>1. CatalogType' /\ StoreType' /\ ActorType' /\ SpentType'
    BY <1>3 DEF TypeOK, CatalogType, StoreType, ActorType, SpentType,
         DebounceElapses, catalogVars, cacheVars, actorVars
  <2>2. FlagType'
    BY <1>3 DEF TypeOK, FlagType, DebounceElapses, cacheVars
  <2>. QED BY <2>1, <2>2 DEF TypeOK
<1>4. ASSUME Crash PROVE TypeOK'
  <2>1. CatalogType'
    BY <1>4, ZeroTypes DEF TypeOK, CatalogType, Crash, catalogVars, cacheVars,
         actorVars, Published
  <2>2. StoreType'
    <3>1. {[s EXCEPT !.orphan = TRUE] : s \in persisted} \in SUBSET Snapshot
      BY DEF TypeOK, StoreType, Snapshot
    <3>. QED BY <1>4, <3>1, ZeroTypes DEF TypeOK, StoreType, Crash
  <2>3. ActorType'
    BY <1>4, ZeroTypes DEF TypeOK, ActorType, Crash, catalogVars, cacheVars,
         actorVars, PCs
  <2>4. FlagType'
    BY <1>4 DEF TypeOK, FlagType, Crash, catalogVars, cacheVars, actorVars
  <2>5. SpentType'
    BY <1>4 DEF TypeOK, SpentType, Crash, catalogVars, cacheVars, actorVars
  <2>. QED BY <2>1, <2>2, <2>3, <2>4, <2>5 DEF TypeOK
<1>5. ASSUME StartLoad PROVE TypeOK'
  <2>1. StoreType' /\ ActorType' /\ FlagType' /\ SpentType'
    BY <1>5 DEF TypeOK, StoreType, ActorType, FlagType, SpentType, StartLoad,
         catalogVars, cacheVars, actorVars
  <2>2. CatalogType'
    BY <1>5, ZeroTypes DEF TypeOK, CatalogType, StartLoad, catalogVars, cacheVars,
         actorVars, Build
  <2>. QED BY <2>1, <2>2 DEF TypeOK
<1>6. ASSUME StartServe PROVE TypeOK'
  <2>1. StoreType' /\ ActorType' /\ FlagType' /\ SpentType'
    BY <1>6 DEF TypeOK, StoreType, ActorType, FlagType, SpentType, StartServe,
         catalogVars, cacheVars, actorVars
  <2>2. CatalogType'
    BY <1>6, ZeroTypes DEF TypeOK, CatalogType, StartServe, catalogVars, cacheVars,
         actorVars, Build, Published
  <2>. QED BY <2>1, <2>2 DEF TypeOK
<1>7. ASSUME StartFails PROVE TypeOK'
  <2>1. StoreType' /\ ActorType' /\ FlagType' /\ SpentType'
    BY <1>7 DEF TypeOK, StoreType, ActorType, FlagType, SpentType, StartFails,
         catalogVars, cacheVars, actorVars
  <2>2. CatalogType'
    BY <1>7, ZeroTypes DEF TypeOK, CatalogType, StartFails, catalogVars, cacheVars,
         actorVars
  <2>. QED BY <2>1, <2>2 DEF TypeOK
<1>8. ASSUME BeginMaintenance PROVE TypeOK'
  <2>1. CatalogType' /\ StoreType' /\ FlagType'
    BY <1>8 DEF TypeOK, CatalogType, StoreType, FlagType, BeginMaintenance,
         catalogVars, cacheVars, actorVars
  <2>2. ActorType'
    <3>1. [NoLocals EXCEPT !.gen = index.gen] \in [gen : Nat, ver : Version, sub : Subs]
      BY ZeroTypes DEF TypeOK, CatalogType, ActorType, Actors, Published, NoLocals
    <3>. QED BY <1>8, <3>1 DEF TypeOK, ActorType, BeginMaintenance, Goto, PCs,
         Actors, AllKinds
  <2>3. SpentType'
    BY <1>8 DEF TypeOK, SpentType, BeginMaintenance, catalogVars, cacheVars, actorVars
  <2>. QED BY <2>1, <2>2, <2>3 DEF TypeOK
<1>9. ASSUME StatusCounts PROVE TypeOK'
  <2>1. CatalogType' /\ StoreType' /\ FlagType' /\ SpentType'
    BY <1>9 DEF TypeOK, CatalogType, StoreType, FlagType, SpentType, StatusCounts,
         catalogVars, cacheVars, actorVars
  <2>2. ActorType'
    <3>1. CASE Finish(Worker, Zero, "error")
      BY <3>1, FinishType, ZeroTypes DEF TypeOK, Actors, Vias
    <3>2. CASE loc' = [loc EXCEPT ![Worker].ver = disk] /\ Goto(Worker, "fast")
               /\ UNCHANGED <<kind, began, answer>>
      <4>1. [loc[Worker] EXCEPT !.ver = disk] \in [gen : Nat, ver : Version, sub : Subs]
        BY DEF TypeOK, CatalogType, ActorType, Actors
      <4>. QED BY <3>2, <4>1 DEF TypeOK, ActorType, Goto, PCs, Actors
    <3>. QED BY <1>9, <3>1, <3>2 DEF StatusCounts
  <2>. QED BY <2>1, <2>2 DEF TypeOK
<1>10. ASSUME WriteFastStatus PROVE TypeOK'
  <2>1. CatalogType' /\ FlagType' /\ SpentType'
    BY <1>10 DEF TypeOK, CatalogType, FlagType, SpentType, WriteFastStatus,
         catalogVars, cacheVars, actorVars
  <2>2. StoreType'
    <3>1. loc[Worker].ver \in Version BY DEF TypeOK, ActorType, Actors
    <3>. QED BY <1>10, <3>1 DEF TypeOK, StoreType, WriteFastStatus
  <2>3. ActorType'
    <3>1. CASE Finish(Worker, Zero, "error")
      BY <3>1, FinishType, ZeroTypes DEF TypeOK, Actors, Vias
    <3>2. CASE Goto(Worker, "scan") /\ UNCHANGED <<kind, loc, began, answer>>
      BY <3>2 DEF TypeOK, ActorType, Goto, PCs, Actors
    <3>. QED BY <1>10, <3>1, <3>2 DEF WriteFastStatus
  <2>. QED BY <2>1, <2>2, <2>3 DEF TypeOK
<1>11. ASSUME ScanSecurity PROVE TypeOK'
  <2>1. CatalogType' /\ StoreType' /\ FlagType' /\ SpentType'
    BY <1>11 DEF TypeOK, CatalogType, StoreType, FlagType, SpentType, ScanSecurity,
         catalogVars, cacheVars, actorVars
  <2>2. ActorType'
    <3>1. CASE Finish(Worker, Zero, "error")
      BY <3>1, FinishType, ZeroTypes DEF TypeOK, Actors, Vias
    <3>2. CASE Goto(Worker, "guard") /\ UNCHANGED <<kind, loc, began, answer>>
      BY <3>2 DEF TypeOK, ActorType, Goto, PCs, Actors
    <3>. QED BY <1>11, <3>1, <3>2 DEF ScanSecurity
  <2>. QED BY <2>1, <2>2 DEF TypeOK
<1>12. ASSUME PersistStatus PROVE TypeOK'
  <2>1. CatalogType' /\ FlagType' /\ SpentType'
    BY <1>12 DEF TypeOK, CatalogType, FlagType, SpentType, PersistStatus,
         catalogVars, cacheVars, actorVars
  <2>2. StoreType'
    <3>1. [ver |-> loc[Worker].ver, orphan |-> FALSE] \in Snapshot
      BY DEF TypeOK, ActorType, Actors, Snapshot
    <3>. QED BY <1>12, <3>1 DEF TypeOK, StoreType, PersistStatus
  <2>3. ActorType'
    BY <1>12 DEF TypeOK, ActorType, PersistStatus, catalogVars, cacheVars, actorVars,
         Goto, PCs, Actors
  <2>. QED BY <2>1, <2>2, <2>3 DEF TypeOK
<1>13. ASSUME DropList PROVE TypeOK'
  <2>1. CatalogType' /\ FlagType' /\ SpentType'
    BY <1>13 DEF TypeOK, CatalogType, FlagType, SpentType, DropList, catalogVars,
         cacheVars, actorVars
  <2>2. StoreType'
    BY <1>13 DEF TypeOK, StoreType, DropList, catalogVars, cacheVars, actorVars, Subs
  <2>3. ActorType'
    BY <1>13 DEF TypeOK, ActorType, DropList, catalogVars, cacheVars, actorVars,
         Goto, PCs, Actors
  <2>. QED BY <2>1, <2>2, <2>3 DEF TypeOK
<1>14. ASSUME InsertStatus PROVE TypeOK'
  <2>1. FlagType' /\ SpentType'
    BY <1>14 DEF TypeOK, FlagType, SpentType, InsertStatus, catalogVars, cacheVars,
         actorVars
  <2>2. CatalogType'
    BY <1>14 DEF TypeOK, CatalogType, InsertStatus, catalogVars, cacheVars, actorVars
  <2>3. StoreType'
    <3>1. Mine(Worker) \in SUBSET Entry
      BY DEF TypeOK, ActorType, Actors, Mine, Entry
    <3>. QED BY <1>14, <3>1 DEF TypeOK, StoreType, InsertStatus, Subs
  <2>4. ActorType'
    BY <1>14, FinishType, ZeroTypes DEF TypeOK, InsertStatus, Actors, Vias
  <2>. QED BY <2>1, <2>2, <2>3, <2>4 DEF TypeOK
<1>15. ASSUME NativeTaskEnds PROVE TypeOK'
  <2>1. StoreType' /\ ActorType' /\ FlagType' /\ SpentType'
    BY <1>15 DEF TypeOK, StoreType, ActorType, FlagType, SpentType, NativeTaskEnds,
         catalogVars, cacheVars, actorVars
  <2>2. CatalogType'
    BY <1>15 DEF TypeOK, CatalogType, NativeTaskEnds, catalogVars, cacheVars, actorVars
  <2>. QED BY <2>1, <2>2 DEF TypeOK
<1>16. ASSUME Quiescent PROVE TypeOK'
  <2>1. CatalogType'
    BY <1>16 DEF TypeOK, CatalogType, Quiescent, catalogVars, cacheVars, actorVars, vars
  <2>2. StoreType'
    BY <1>16 DEF TypeOK, StoreType, Quiescent, catalogVars, cacheVars, actorVars, vars
  <2>3. ActorType'
    BY <1>16 DEF TypeOK, ActorType, Quiescent, catalogVars, cacheVars, actorVars, vars
  <2>4. FlagType'
    BY <1>16 DEF TypeOK, FlagType, Quiescent, catalogVars, cacheVars, actorVars, vars
  <2>5. SpentType'
    BY <1>16 DEF TypeOK, SpentType, Quiescent, catalogVars, cacheVars, actorVars, vars
  <2>. QED BY <2>1, <2>2, <2>3, <2>4, <2>5 DEF TypeOK
<1>17. ASSUME NEW s \in Subs, Expire(s) PROVE TypeOK'
  <2>1. CatalogType' /\ ActorType' /\ FlagType' /\ SpentType'
    BY <1>17 DEF TypeOK, CatalogType, ActorType, FlagType, SpentType, Expire,
         catalogVars, cacheVars, actorVars
  <2>2. StoreType'
    BY <1>17 DEF TypeOK, StoreType, Expire, catalogVars, cacheVars, actorVars
  <2>. QED BY <2>1, <2>2 DEF TypeOK
<1>18. ASSUME NEW c \in Clients, NEW k \in Kinds, Begin(c, k) PROVE TypeOK'
  <2>1. CatalogType' /\ StoreType' /\ FlagType'
    BY <1>18 DEF TypeOK, CatalogType, StoreType, FlagType, Begin, catalogVars,
         cacheVars, actorVars
  <2>2. ActorType'
    <3>1. /\ kind' = [kind EXCEPT ![c] = k] /\ began' = [began EXCEPT ![c] = disk]
          /\ answer' = [answer EXCEPT ![c] = NoAnswer] /\ UNCHANGED loc
          /\ \E p \in PCs : pc' = [pc EXCEPT ![c] = p]
      BY <1>18 DEF Begin, Goto, PCs
    <3>2. k \in AllKinds /\ disk \in Version BY DEF TypeOK, CatalogType
    <3>. QED BY <3>1, <3>2, ZeroTypes DEF TypeOK, ActorType, Actors
  <2>3. SpentType'
    BY <1>18 DEF TypeOK, SpentType, Begin, catalogVars, cacheVars, actorVars
  <2>. QED BY <2>1, <2>2, <2>3 DEF TypeOK
<1>19. ASSUME NEW c \in Clients, Observe(c) PROVE TypeOK'
  <2>1. CatalogType' /\ StoreType' /\ FlagType' /\ SpentType'
    BY <1>19 DEF TypeOK, CatalogType, StoreType, FlagType, SpentType, Observe,
         catalogVars, cacheVars, actorVars
  <2>2. ActorType'
    <3>1. [loc[c] EXCEPT !.ver = disk] \in [gen : Nat, ver : Version, sub : Subs]
      BY <1>19 DEF TypeOK, CatalogType, ActorType, Actors
    <3>. QED BY <1>19, <3>1 DEF TypeOK, ActorType, Observe, Goto, PCs, Actors, AllKinds
  <2>. QED BY <2>1, <2>2 DEF TypeOK
<1>20. ASSUME NEW c \in Clients, Compare(c) PROVE TypeOK'
  <2>1. StoreType' /\ FlagType' /\ SpentType'
    BY <1>20 DEF TypeOK, StoreType, FlagType, SpentType, Compare, catalogVars,
         cacheVars, actorVars
  <2>2. CatalogType'
    BY <1>20 DEF TypeOK, CatalogType, Compare, catalogVars, cacheVars, actorVars,
         Unlocked
  <2>3. ActorType'
    BY <1>20, ZeroTypes DEF TypeOK, ActorType, Compare, catalogVars, cacheVars,
         actorVars, Goto, PCs, Actors
  <2>. QED BY <2>1, <2>2, <2>3 DEF TypeOK
<1>21. ASSUME NEW c \in Clients, Lock(c) PROVE TypeOK'
  <2>1. StoreType' /\ FlagType' /\ SpentType'
    BY <1>21 DEF TypeOK, StoreType, FlagType, SpentType, Lock, catalogVars,
         cacheVars, actorVars
  <2>2. CatalogType'
    BY <1>21 DEF TypeOK, CatalogType, Lock, catalogVars, cacheVars, actorVars
  <2>3. ActorType'
    BY <1>21 DEF TypeOK, ActorType, Lock, catalogVars, cacheVars, actorVars, Goto,
         PCs, Actors
  <2>. QED BY <2>1, <2>2, <2>3 DEF TypeOK
<1>22. ASSUME NEW c \in Clients, ObserveGeneration(c) PROVE TypeOK'
  <2>1. CatalogType' /\ StoreType' /\ FlagType' /\ SpentType'
    BY <1>22 DEF TypeOK, CatalogType, StoreType, FlagType, SpentType,
         ObserveGeneration, catalogVars, cacheVars, actorVars
  <2>2. ActorType'
    <3>1. [loc[c] EXCEPT !.gen = index.gen] \in [gen : Nat, ver : Version, sub : Subs]
      BY <1>22 DEF TypeOK, CatalogType, ActorType, Actors, Published
    <3>. QED BY <1>22, <3>1 DEF TypeOK, ActorType, ObserveGeneration, Goto, PCs,
         Actors, AllKinds
  <2>. QED BY <2>1, <2>2 DEF TypeOK
<1>23. ASSUME NEW c \in Clients, Coalesce(c) PROVE TypeOK'
  <2>1. StoreType' /\ FlagType' /\ SpentType'
    BY <1>23 DEF TypeOK, StoreType, FlagType, SpentType, Coalesce, catalogVars,
         cacheVars, actorVars
  <2>2. CatalogType'
    BY <1>23 DEF TypeOK, CatalogType, Coalesce, catalogVars, cacheVars, actorVars
  <2>3. ActorType'
    <3>1. index.lo \in Version BY DEF TypeOK, CatalogType, Published
    <3>. QED BY <1>23, <3>1, FinishType DEF TypeOK, Coalesce, Actors, Vias
  <2>. QED BY <2>1, <2>2, <2>3 DEF TypeOK
<1>24. ASSUME NEW c \in Clients, Decide(c) PROVE TypeOK'
  <2>1. CatalogType' /\ StoreType' /\ FlagType' /\ SpentType'
    BY <1>24 DEF TypeOK, CatalogType, StoreType, FlagType, SpentType, Decide,
         catalogVars, cacheVars, actorVars
  <2>2. ActorType'
    BY <1>24 DEF TypeOK, ActorType, Decide, catalogVars, cacheVars, actorVars, Goto,
         PCs, Actors
  <2>. QED BY <2>1, <2>2 DEF TypeOK
<1>25. ASSUME NEW c \in Clients, Debounced(c) PROVE TypeOK'
  <2>1. StoreType' /\ FlagType' /\ SpentType'
    BY <1>25 DEF TypeOK, StoreType, FlagType, SpentType, Debounced, catalogVars,
         cacheVars, actorVars
  <2>2. CatalogType'
    BY <1>25 DEF TypeOK, CatalogType, Debounced, catalogVars, cacheVars, actorVars
  <2>3. ActorType'
    <3>1. index.lo \in Version BY DEF TypeOK, CatalogType, Published
    <3>. QED BY <1>25, <3>1, FinishType DEF TypeOK, Debounced, Actors, Vias
  <2>. QED BY <2>1, <2>2, <2>3 DEF TypeOK
<1>26. ASSUME NEW c \in Clients, RecordCompletion(c) PROVE TypeOK'
  <2>1. StoreType' /\ SpentType'
    BY <1>26 DEF TypeOK, StoreType, SpentType, RecordCompletion, catalogVars,
         cacheVars, actorVars
  <2>2. CatalogType'
    BY <1>26 DEF TypeOK, CatalogType, RecordCompletion, catalogVars, cacheVars,
         actorVars
  <2>3. ActorType'
    <3>1. loc[c].ver \in Version BY DEF TypeOK, ActorType, Actors
    <3>. QED BY <1>26, <3>1, FinishType DEF TypeOK, RecordCompletion, Actors, Vias
  <2>4. FlagType'
    BY <1>26 DEF TypeOK, FlagType, RecordCompletion, cacheVars
  <2>. QED BY <2>1, <2>2, <2>3, <2>4 DEF TypeOK
<1>27. ASSUME NEW c \in Clients, ObserveEpoch(c) PROVE TypeOK'
  <2>1. StoreType' /\ FlagType' /\ SpentType'
    BY <1>27 DEF TypeOK, StoreType, FlagType, SpentType, ObserveEpoch, catalogVars,
         cacheVars, actorVars
  <2>2. CatalogType'
    BY <1>27 DEF TypeOK, CatalogType, ObserveEpoch, catalogVars, cacheVars,
         actorVars, NoBuild, Zero, Build, Version
  <2>3. ActorType'
    BY <1>27 DEF TypeOK, ActorType, ObserveEpoch, catalogVars, cacheVars, actorVars,
         Goto, PCs, Actors
  <2>. QED BY <2>1, <2>2, <2>3 DEF TypeOK
<1>28. ASSUME NEW c \in Clients, LoadStart(c) PROVE TypeOK'
  <2>1. StoreType' /\ FlagType' /\ SpentType'
    BY <1>28 DEF TypeOK, StoreType, FlagType, SpentType, LoadStart, catalogVars,
         cacheVars, actorVars
  <2>2. CatalogType'
    BY <1>28 DEF TypeOK, CatalogType, LoadStart, catalogVars, cacheVars, actorVars,
         NoBuild, Zero, Build, Version
  <2>3. ActorType'
    BY <1>28 DEF TypeOK, ActorType, LoadStart, catalogVars, cacheVars, actorVars,
         Goto, PCs, Actors
  <2>. QED BY <2>1, <2>2, <2>3 DEF TypeOK
<1>29. ASSUME NEW c \in Clients, LoadEnd(c) PROVE TypeOK'
  <2>1. StoreType' /\ FlagType' /\ SpentType'
    BY <1>29 DEF TypeOK, StoreType, FlagType, SpentType, LoadEnd, catalogVars,
         cacheVars, actorVars
  <2>2. CatalogType'
    BY <1>29 DEF TypeOK, CatalogType, LoadEnd, catalogVars, cacheVars, actorVars,
         NoBuild, Zero, Build, Version
  <2>3. ActorType'
    BY <1>29 DEF TypeOK, ActorType, LoadEnd, catalogVars, cacheVars, actorVars, Goto,
         PCs, Actors
  <2>. QED BY <2>1, <2>2, <2>3 DEF TypeOK
<1>30. ASSUME NEW c \in Clients, LoadRetry(c) PROVE TypeOK'
  <2>1. StoreType' /\ FlagType' /\ SpentType'
    BY <1>30 DEF TypeOK, StoreType, FlagType, SpentType, LoadRetry, catalogVars,
         cacheVars, actorVars
  <2>2. CatalogType'
    BY <1>30 DEF TypeOK, CatalogType, LoadRetry, catalogVars, cacheVars, actorVars,
         NoBuild, Zero, Build, Version
  <2>3. ActorType'
    BY <1>30 DEF TypeOK, ActorType, LoadRetry, catalogVars, cacheVars, actorVars,
         Goto, PCs, Actors
  <2>. QED BY <2>1, <2>2, <2>3 DEF TypeOK
<1>31. ASSUME NEW c \in Clients, SwapBackends(c) PROVE TypeOK'
  <2>1. CatalogType' /\ StoreType' /\ FlagType' /\ SpentType'
    BY <1>31 DEF TypeOK, CatalogType, StoreType, FlagType, SpentType, SwapBackends,
         catalogVars, cacheVars, actorVars
  <2>2. ActorType'
    BY <1>31 DEF TypeOK, ActorType, SwapBackends, catalogVars, cacheVars, actorVars,
         Goto, PCs, Actors
  <2>. QED BY <2>1, <2>2 DEF TypeOK
<1>32. ASSUME NEW c \in Clients, Recheck(c) PROVE TypeOK'
  <2>1. CatalogType' /\ StoreType' /\ FlagType' /\ SpentType'
    BY <1>32 DEF TypeOK, CatalogType, StoreType, FlagType, SpentType, Recheck,
         catalogVars, cacheVars, actorVars
  <2>2. ActorType'
    BY <1>32 DEF TypeOK, ActorType, Recheck, catalogVars, cacheVars, actorVars, Goto,
         PCs, Actors
  <2>. QED BY <2>1, <2>2 DEF TypeOK
<1>33. ASSUME NEW c \in Clients, Publish(c) PROVE TypeOK'
  <2>1. StoreType' /\ FlagType' /\ SpentType'
    BY <1>33 DEF TypeOK, StoreType, FlagType, SpentType, Publish, catalogVars,
         cacheVars, actorVars
  <2>2. CatalogType'
    BY <1>33 DEF TypeOK, CatalogType, Publish, catalogVars, cacheVars, actorVars,
         Build, Published
  <2>3. ActorType'
    BY <1>33 DEF TypeOK, ActorType, Publish, catalogVars, cacheVars, actorVars, Goto,
         PCs, Actors
  <2>. QED BY <2>1, <2>2, <2>3 DEF TypeOK
<1>34. ASSUME NEW c \in Clients, ClearCaches(c) PROVE TypeOK'
  <2>1. CatalogType' /\ FlagType' /\ SpentType'
    BY <1>34 DEF TypeOK, CatalogType, FlagType, SpentType, ClearCaches, catalogVars,
         cacheVars, actorVars
  <2>2. StoreType'
    BY <1>34, ZeroTypes DEF TypeOK, StoreType, ClearCaches, catalogVars, cacheVars,
         actorVars
  <2>3. ActorType'
    BY <1>34 DEF TypeOK, ActorType, ClearCaches, catalogVars, cacheVars, actorVars,
         Goto, PCs, Actors
  <2>. QED BY <2>1, <2>2, <2>3 DEF TypeOK
<1>35. ASSUME NEW c \in Clients, InvalidateStatus(c) PROVE TypeOK'
  <2>1. FlagType' /\ SpentType'
    BY <1>35 DEF TypeOK, FlagType, SpentType, InvalidateStatus, catalogVars,
         cacheVars, actorVars
  <2>2. CatalogType'
    BY <1>35, ZeroTypes DEF TypeOK, CatalogType, InvalidateStatus, catalogVars,
         cacheVars, actorVars
  <2>3. StoreType'
    <3>1. {[s EXCEPT !.orphan = TRUE] : s \in persisted} \in SUBSET Snapshot
      BY DEF TypeOK, StoreType, Snapshot
    <3>. QED BY <1>35, <3>1 DEF TypeOK, StoreType, InvalidateStatus
  <2>4. ActorType'
    <3>1. [NoLocals EXCEPT !.ver = index.lo] \in [gen : Nat, ver : Version, sub : Subs]
      BY ZeroTypes DEF TypeOK, CatalogType, ActorType, Actors, Published, NoLocals
    <3>. QED BY <1>35, <3>1 DEF TypeOK, ActorType, InvalidateStatus, Goto, PCs,
         Actors, AllKinds
  <2>. QED BY <2>1, <2>2, <2>3, <2>4 DEF TypeOK
<1>36. ASSUME NEW c \in Clients, BuildFails(c) PROVE TypeOK'
  <2>1. StoreType' /\ FlagType' /\ SpentType'
    BY <1>36 DEF TypeOK, StoreType, FlagType, SpentType, BuildFails, catalogVars,
         cacheVars, actorVars
  <2>2. CatalogType'
    BY <1>36, ZeroTypes DEF TypeOK, CatalogType, BuildFails, catalogVars, cacheVars,
         actorVars
  <2>3. ActorType'
    BY <1>36, FinishType, ZeroTypes DEF TypeOK, BuildFails, Actors, Vias
  <2>. QED BY <2>1, <2>2, <2>3 DEF TypeOK
<1>37. ASSUME NEW c \in Clients, LookupHit(c) PROVE TypeOK'
  <2>1. CatalogType' /\ StoreType' /\ FlagType' /\ SpentType'
    BY <1>37 DEF TypeOK, CatalogType, StoreType, FlagType, SpentType, LookupHit,
         catalogVars, cacheVars, actorVars
  <2>2. ActorType'
    <3>1. PICK s \in Subs : \E e \in cache[s] : Finish(c, e.ver, "cache")
      BY <1>37, ZeroTypes DEF LookupHit, Subs
    <3>0. PICK e \in cache[s] : Finish(c, e.ver, "cache")
      BY <3>1
    <3>2. e.ver \in Version BY DEF TypeOK, StoreType, Entry
    <3>. QED BY <3>0, <3>2, FinishType DEF TypeOK, Actors, Vias
  <2>. QED BY <2>1, <2>2 DEF TypeOK
<1>38. ASSUME NEW c \in Clients, LookupMiss(c) PROVE TypeOK'
  <2>1. CatalogType' /\ StoreType' /\ FlagType' /\ SpentType'
    BY <1>38 DEF TypeOK, CatalogType, StoreType, FlagType, SpentType, LookupMiss,
         catalogVars, cacheVars, actorVars
  <2>2. ActorType'
    BY <1>38 DEF TypeOK, ActorType, LookupMiss, catalogVars, cacheVars, actorVars,
         Goto, PCs, Actors
  <2>. QED BY <2>1, <2>2 DEF TypeOK
<1>39. ASSUME NEW c \in Clients, CacheClear(c) PROVE TypeOK'
  <2>1. CatalogType' /\ FlagType' /\ SpentType'
    BY <1>39 DEF TypeOK, CatalogType, FlagType, SpentType, CacheClear, catalogVars,
         cacheVars, actorVars
  <2>2. StoreType'
    BY <1>39, ZeroTypes DEF TypeOK, StoreType, CacheClear, catalogVars, cacheVars,
         actorVars
  <2>3. ActorType'
    BY <1>39, FinishType, ZeroTypes DEF TypeOK, CacheClear, Actors, Vias
  <2>. QED BY <2>1, <2>2, <2>3 DEF TypeOK
<1>40. ASSUME NEW c \in Clients, PersistedHit(c) PROVE TypeOK'
  <2>1. CatalogType' /\ StoreType' /\ FlagType' /\ SpentType'
    BY <1>40 DEF TypeOK, CatalogType, StoreType, FlagType, SpentType, PersistedHit,
         catalogVars, cacheVars, actorVars
  <2>2. ActorType'
    <3>1. PICK s \in persisted : Finish(c, s.ver,
         IF s.orphan THEN "orphan" ELSE "persisted")
      BY <1>40 DEF PersistedHit
    <3>2. s.ver \in Version BY DEF TypeOK, StoreType, Snapshot
    <3>3. (IF s.orphan THEN "orphan" ELSE "persisted") \in Vias BY DEF Vias
    <3>. QED BY <3>1, <3>2, <3>3, FinishType DEF TypeOK, Actors
  <2>. QED BY <2>1, <2>2 DEF TypeOK
<1>41. ASSUME NEW c \in Clients, PersistedMiss(c) PROVE TypeOK'
  <2>1. CatalogType' /\ StoreType' /\ FlagType' /\ SpentType'
    BY <1>41 DEF TypeOK, CatalogType, StoreType, FlagType, SpentType, PersistedMiss,
         catalogVars, cacheVars, actorVars
  <2>2. ActorType'
    BY <1>41 DEF TypeOK, ActorType, PersistedMiss, catalogVars, cacheVars, actorVars,
         Goto, PCs, Actors
  <2>. QED BY <2>1, <2>2 DEF TypeOK
<1>42. ASSUME NEW c \in Clients, TimeOut(c) PROVE TypeOK'
  <2>1. StoreType' /\ FlagType' /\ SpentType'
    BY <1>42 DEF TypeOK, StoreType, FlagType, SpentType, TimeOut, catalogVars,
         cacheVars, actorVars
  <2>2. CatalogType'
    BY <1>42, ZeroTypes DEF TypeOK, CatalogType, TimeOut, catalogVars, cacheVars,
         actorVars, Unlocked
  <2>3. ActorType'
    BY <1>42, FinishType, ZeroTypes DEF TypeOK, TimeOut, Actors, Vias
  <2>. QED BY <2>1, <2>2, <2>3 DEF TypeOK
<1>43. ASSUME NEW a \in Actors, TakeSnapshot(a) PROVE TypeOK'
  <2>1. CatalogType' /\ StoreType' /\ FlagType' /\ SpentType'
    BY <1>43 DEF TypeOK, CatalogType, StoreType, FlagType, SpentType, TakeSnapshot,
         catalogVars, cacheVars, actorVars
  <2>2. ActorType'
    <3>1. [gen |-> index.gen, ver |-> index.lo, sub |-> SubOf(kind[a])]
            \in [gen : Nat, ver : Version, sub : Subs]
      BY ZeroTypes DEF TypeOK, CatalogType, Published
    <3>. QED BY <1>43, <3>1 DEF TypeOK, ActorType, TakeSnapshot, Goto, PCs
  <2>. QED BY <2>1, <2>2 DEF TypeOK
<1>44. ASSUME NEW a \in Actors, ReadBackend(a) PROVE TypeOK'
  <2>1. CatalogType' /\ StoreType' /\ FlagType' /\ SpentType'
    BY <1>44 DEF TypeOK, CatalogType, StoreType, FlagType, SpentType, ReadBackend,
         catalogVars, cacheVars, actorVars
  <2>2. ActorType'
    <3>1. CASE Finish(a, disk, "live")
      BY <3>1, FinishType DEF TypeOK, CatalogType, Vias
    <3>2. ASSUME NEW s \in Subs,
                 loc' = [loc EXCEPT ![a] = [gen |-> @.gen, ver |-> disk, sub |-> s]],
                 Goto(a, "guard"), UNCHANGED <<kind, began, answer>>
          PROVE  ActorType'
      <4>1. [gen |-> loc[a].gen, ver |-> disk, sub |-> s] \in [gen : Nat,
           ver : Version, sub : Subs]
        BY DEF TypeOK, CatalogType, ActorType
      <4>. QED BY <3>2, <4>1 DEF TypeOK, ActorType, Goto, PCs
    <3>3. {"info", "miss"} \subseteq Subs /\ SubOf(kind[a]) \in Subs
      BY ZeroTypes DEF Subs
    <3>. QED BY <1>44, <3>1, <3>2, <3>3 DEF ReadBackend
  <2>. QED BY <2>1, <2>2 DEF TypeOK
<1>45. ASSUME NEW a \in Actors, BackendFails(a) PROVE TypeOK'
  <2>1. CatalogType' /\ StoreType' /\ FlagType' /\ SpentType'
    BY <1>45 DEF TypeOK, CatalogType, StoreType, FlagType, SpentType, BackendFails,
         catalogVars, cacheVars, actorVars
  <2>2. ActorType'
    BY <1>45, FinishType, ZeroTypes DEF TypeOK, BackendFails, Actors, Vias
  <2>. QED BY <2>1, <2>2 DEF TypeOK
<1>46. ASSUME NEW a \in Actors, Enter(a) PROVE TypeOK'
  <2>1. StoreType' /\ FlagType' /\ SpentType'
    BY <1>46 DEF TypeOK, StoreType, FlagType, SpentType, Enter, catalogVars,
         cacheVars, actorVars
  <2>2. CatalogType'
    BY <1>46 DEF TypeOK, CatalogType, Enter, catalogVars, cacheVars, actorVars
  <2>3. ActorType'
    BY <1>46 DEF TypeOK, ActorType, Enter, catalogVars, cacheVars, actorVars, Goto,
         PCs, Actors
  <2>. QED BY <2>1, <2>2, <2>3 DEF TypeOK
<1>47. ASSUME NEW a \in Actors, Refused(a) PROVE TypeOK'
  <2>1. CatalogType' /\ StoreType' /\ FlagType' /\ SpentType'
    BY <1>47 DEF TypeOK, CatalogType, StoreType, FlagType, SpentType, Refused,
         catalogVars, cacheVars, actorVars
  <2>2. ActorType'
    <3>1. loc[a].ver \in Version BY DEF TypeOK, ActorType
    <3>. QED BY <1>47, <3>1, FinishType DEF TypeOK, Refused, Vias
  <2>. QED BY <2>1, <2>2 DEF TypeOK
<1>48. ASSUME NEW a \in Actors, Insert(a) PROVE TypeOK'
  <2>1. FlagType' /\ SpentType'
    BY <1>48 DEF TypeOK, FlagType, SpentType, Insert, catalogVars, cacheVars, actorVars
  <2>2. CatalogType'
    BY <1>48 DEF TypeOK, CatalogType, Insert, catalogVars, cacheVars, actorVars
  <2>3. StoreType'
    <3>1. Mine(a) \in SUBSET Entry /\ loc[a].sub \in Subs
      BY DEF TypeOK, ActorType, Mine, Entry
    <3>. QED BY <1>48, <3>1 DEF TypeOK, StoreType, Insert, Subs
  <2>4. ActorType'
    <3>1. loc[a].ver \in Version BY DEF TypeOK, ActorType
    <3>. QED BY <1>48, <3>1, FinishType DEF TypeOK, Insert, Vias
  <2>. QED BY <2>1, <2>2, <2>3, <2>4 DEF TypeOK
<1>49. ASSUME NEW a \in Actors, InsertCount(a) PROVE TypeOK'
  <2>1. CatalogType' /\ FlagType' /\ SpentType'
    BY <1>49 DEF TypeOK, CatalogType, FlagType, SpentType, InsertCount, catalogVars,
         cacheVars, actorVars
  <2>2. StoreType'
    <3>1. Mine(a) \in SUBSET Entry /\ loc[a].sub \in Subs
      BY DEF TypeOK, ActorType, Mine, Entry
    <3>. QED BY <1>49, <3>1 DEF TypeOK, StoreType, InsertCount, Subs
  <2>3. ActorType'
    BY <1>49 DEF TypeOK, ActorType, InsertCount, catalogVars, cacheVars, actorVars,
         Goto, PCs, Actors
  <2>. QED BY <2>1, <2>2, <2>3 DEF TypeOK
<1>50. ASSUME NEW a \in Actors, InsertList(a) PROVE TypeOK'
  <2>1. FlagType' /\ SpentType'
    BY <1>50 DEF TypeOK, FlagType, SpentType, InsertList, catalogVars, cacheVars,
         actorVars
  <2>2. CatalogType'
    BY <1>50 DEF TypeOK, CatalogType, InsertList, catalogVars, cacheVars, actorVars
  <2>3. StoreType'
    <3>1. Mine(a) \in SUBSET Entry /\ loc[a].sub \in Subs
      BY DEF TypeOK, ActorType, Mine, Entry
    <3>. QED BY <1>50, <3>1 DEF TypeOK, StoreType, InsertList, Subs
  <2>4. ActorType'
    <3>1. loc[a].ver \in Version BY DEF TypeOK, ActorType
    <3>. QED BY <1>50, <3>1, FinishType DEF TypeOK, InsertList, Vias
  <2>. QED BY <2>1, <2>2, <2>3, <2>4 DEF TypeOK
<1>51. CASE UNCHANGED vars
  BY <1>51 DEF TypeOK, CatalogType, StoreType, ActorType, FlagType, SpentType,
     vars, catalogVars, cacheVars, actorVars
<1>. QED
  BY <1>1, <1>2, <1>3, <1>4, <1>5, <1>6, <1>7, <1>8, <1>9, <1>10, <1>11, <1>12,
       <1>13, <1>14, <1>15, <1>16, <1>17, <1>18, <1>19, <1>20, <1>21, <1>22, <1>23,
       <1>24, <1>25, <1>26, <1>27, <1>28, <1>29, <1>30, <1>31, <1>32, <1>33, <1>34,
       <1>35, <1>36, <1>37, <1>38, <1>39, <1>40, <1>41, <1>42, <1>43, <1>44, <1>45,
       <1>46, <1>47, <1>48, <1>49, <1>50, <1>51
  DEF Next, Environment, Handle, Refresh, Rebuild, Read, Maintain, Actors

\* Type correctness of every reachable state; in particular the DNF load is
\* never attempted more than three times (handlers.rs, load_observed_index).
THEOREM TypeCorrect == Spec => []TypeOK
BY InitType, StepType, PTL DEF Spec

-----------------------------------------------------------------------------
(* The lock discipline.                                                    *)

HIDE CatalogConstants

\* Control points at which a request holds refresh_lock.
Holding == {"decide", "swap", "epoch", "load", "read", "backends", "recheck",
            "publish", "clear", "invalidate"}

\* Control points inside the action of with_current_index.
Inserting == {"insert", "insertCount", "insertList", "dropList", "insertStatus"}

LockInv == \A c \in Clients : pc[c] \in Holding => refreshLock = c

WriterInv == /\ \A c \in Clients : pc[c] \in {"clear", "invalidate"} <=> writer = c
             /\ writer # Free => readers = {}

ReaderInv == /\ \A a \in Actors : a \in readers <=> pc[a] \in Inserting
             /\ \A a \in readers : loc[a].gen = index.gen

DownInv == daemon # "up" =>
  /\ \A a \in Actors : pc[a] = "idle" /\ loc[a] = NoLocals
  /\ cache = EmptyCache /\ readers = {}

GenInv == \A a \in Actors : loc[a].gen <= index.gen

Discipline ==
  LockInv /\ WriterInv /\ ReaderInv /\ DownInv /\ GenInv /\ CachesCurrent

\* An actor that replaces its locals by ones of a published generation.
LEMMA LocGen ==
  ASSUME TypeOK, GenInv, NEW a \in Actors, NEW l, l.gen \in Nat, l.gen <= index.gen,
         loc' = [loc EXCEPT ![a] = l], index' = index
  PROVE  GenInv'
BY DEF GenInv, TypeOK, ActorType, CatalogType, Published

LEMMA FinishGen ==
  ASSUME TypeOK, GenInv, NEW a \in Actors, NEW v, NEW via, Finish(a, v, via),
         index' = index
  PROVE  GenInv'
<1>1. loc' = [loc EXCEPT ![a] = NoLocals] BY DEF Finish
<1>2. NoLocals.gen = 0 /\ index.gen \in Nat
  BY DEF NoLocals, TypeOK, CatalogType, Published
<1>3. NoLocals.gen \in Nat /\ NoLocals.gen <= index.gen BY <1>2
<1>. QED BY <1>1, <1>3, LocGen

LEMMA StepDiscipline == TypeOK /\ Discipline /\ [Next]_vars => Discipline'
<1>. SUFFICES ASSUME TypeOK, Discipline, [Next]_vars PROVE Discipline' OBVIOUS
<1>1. ASSUME DatabasesChange PROVE Discipline'
  <2>1. LockInv' /\ WriterInv' /\ ReaderInv' /\ DownInv' /\ GenInv' /\ CachesCurrent'
    BY <1>1 DEF Discipline, LockInv, WriterInv, ReaderInv, DownInv, GenInv,
       CachesCurrent, DatabasesChange, catalogVars, cacheVars, actorVars
  <2>. QED BY <2>1 DEF Discipline
<1>2. ASSUME ExpirePersisted PROVE Discipline'
  <2>1. LockInv' /\ WriterInv' /\ ReaderInv' /\ DownInv' /\ GenInv' /\ CachesCurrent'
    BY <1>2 DEF Discipline, LockInv, WriterInv, ReaderInv, DownInv, GenInv,
       CachesCurrent, ExpirePersisted, catalogVars, actorVars
  <2>. QED BY <2>1 DEF Discipline
<1>3. ASSUME DebounceElapses PROVE Discipline'
  <2>1. LockInv' /\ WriterInv' /\ ReaderInv' /\ DownInv' /\ GenInv' /\ CachesCurrent'
    BY <1>3 DEF Discipline, LockInv, WriterInv, ReaderInv, DownInv, GenInv,
       CachesCurrent, DebounceElapses, cacheVars, actorVars
  <2>. QED BY <2>1 DEF Discipline
<1>4. ASSUME Crash PROVE Discipline'
  <2>1. LockInv'
    BY <1>4 DEF TypeOK, ActorType, Actors, Discipline, LockInv, Holding, Crash
  <2>2. WriterInv'
    BY <1>4, CatalogConstants DEF WriterInv, Crash, Actors
  <2>3. ReaderInv'
    BY <1>4 DEF TypeOK, ActorType, Actors, Discipline, ReaderInv, Inserting,
       CatalogType, Crash
  <2>4. DownInv'
    BY <1>4 DEF TypeOK, ActorType, Actors, Discipline, DownInv, Crash
  <2>5. GenInv'
    BY <1>4 DEF TypeOK, ActorType, Actors, Discipline, GenInv, NoLocals, Crash
  <2>6. CachesCurrent'
    BY <1>4 DEF TypeOK, ActorType, Actors, Discipline, StoreType, CachesCurrent,
       EmptyCache, Crash
  <2>. QED BY <2>1, <2>2, <2>3, <2>4, <2>5, <2>6 DEF Discipline
<1>5. ASSUME StartLoad PROVE Discipline'
  <2>1. LockInv' /\ WriterInv' /\ ReaderInv' /\ GenInv' /\ CachesCurrent'
    BY <1>5 DEF Discipline, LockInv, WriterInv, ReaderInv, GenInv, CachesCurrent,
       StartLoad, cacheVars, actorVars
  <2>2. DownInv'
    BY <1>5 DEF TypeOK, ActorType, Actors, Discipline, DownInv, StartLoad,
       cacheVars, actorVars
  <2>. QED BY <2>1, <2>2 DEF Discipline
<1>6. ASSUME StartServe PROVE Discipline'
  <2>1. LockInv' /\ WriterInv'
    BY <1>6 DEF Discipline, LockInv, WriterInv, StartServe, cacheVars, actorVars
  <2>2. ReaderInv'
    BY <1>6 DEF TypeOK, ActorType, Actors, Discipline, ReaderInv, Inserting,
       CatalogType, DownInv, StartServe, cacheVars, actorVars
  <2>3. DownInv'
    BY <1>6 DEF TypeOK, ActorType, Actors, Discipline, DownInv, StartServe,
       cacheVars, actorVars
  <2>4. GenInv'
    BY <1>6 DEF TypeOK, ActorType, Actors, Discipline, GenInv, DownInv, NoLocals,
       StartServe, cacheVars, actorVars
  <2>5. CachesCurrent'
    BY <1>6 DEF TypeOK, ActorType, Actors, Discipline, StoreType, CachesCurrent,
       EmptyCache, DownInv, StartServe, cacheVars, actorVars
  <2>. QED BY <2>1, <2>2, <2>3, <2>4, <2>5 DEF Discipline
<1>7. ASSUME StartFails PROVE Discipline'
  <2>1. LockInv' /\ WriterInv' /\ ReaderInv' /\ GenInv' /\ CachesCurrent'
    BY <1>7 DEF Discipline, LockInv, WriterInv, ReaderInv, GenInv, CachesCurrent,
       StartFails, cacheVars, actorVars
  <2>2. DownInv'
    BY <1>7 DEF TypeOK, ActorType, Actors, Discipline, DownInv, StartFails,
       cacheVars, actorVars
  <2>. QED BY <2>1, <2>2 DEF Discipline
<1>8. ASSUME BeginMaintenance PROVE Discipline'
  <2>1. LockInv'
    BY <1>8 DEF TypeOK, ActorType, Actors, Discipline, LockInv, Holding,
       BeginMaintenance, Goto, catalogVars, cacheVars
  <2>2. WriterInv'
    BY <1>8 DEF TypeOK, ActorType, Actors, Discipline, WriterInv,
       BeginMaintenance, Goto, catalogVars, cacheVars
  <2>3. ReaderInv'
    BY <1>8 DEF TypeOK, ActorType, Actors, Discipline, ReaderInv, Inserting,
       CatalogType, BeginMaintenance, Goto, catalogVars, cacheVars
  <2>4. DownInv'
    BY <1>8 DEF TypeOK, ActorType, Actors, Discipline, DownInv, BeginMaintenance,
       Goto, catalogVars, cacheVars
  <2>5. GenInv'
    <3>1. /\ index.gen \in Nat /\ [NoLocals EXCEPT !.gen = index.gen].gen \in Nat
          /\ [NoLocals EXCEPT !.gen = index.gen].gen <= index.gen
      BY DEF Discipline, GenInv, TypeOK, CatalogType, ActorType, Published, NoLocals,
           Zero, Actors
    <3>2. loc' = [loc EXCEPT ![Worker] = [NoLocals EXCEPT !.gen = index.gen]] /\ index' = index
      BY <1>8 DEF BeginMaintenance, catalogVars
    <3>. QED BY <3>1, <3>2, LocGen DEF Discipline, Actors
  <2>6. CachesCurrent'
    BY <1>8 DEF TypeOK, ActorType, Actors, Discipline, StoreType, CachesCurrent,
       EmptyCache, BeginMaintenance, Goto, catalogVars, cacheVars
  <2>. QED BY <2>1, <2>2, <2>3, <2>4, <2>5, <2>6 DEF Discipline
<1>9. ASSUME StatusCounts PROVE Discipline'
  <2>1. LockInv'
    BY <1>9 DEF TypeOK, ActorType, Actors, Discipline, LockInv, Holding,
       StatusCounts, Finish, Goto, catalogVars, cacheVars
  <2>2. WriterInv'
    BY <1>9 DEF TypeOK, ActorType, Actors, Discipline, WriterInv, StatusCounts,
       Finish, Goto, catalogVars, cacheVars
  <2>3. ReaderInv'
    BY <1>9 DEF TypeOK, ActorType, Actors, Discipline, ReaderInv, Inserting,
       CatalogType, StatusCounts, Finish, Goto, catalogVars, cacheVars
  <2>4. DownInv'
    BY <1>9 DEF TypeOK, ActorType, Actors, Discipline, DownInv, StatusCounts,
       Finish, Goto, catalogVars, cacheVars
  <2>5. GenInv'
    <3>1. index' = index BY <1>9 DEF StatusCounts, catalogVars
    <3>2. ASSUME NEW v, NEW via, Finish(Worker, v, via) PROVE GenInv'
      BY <3>1, <3>2, FinishGen DEF Discipline, Actors
    <3>3. ASSUME loc' = [loc EXCEPT ![Worker].ver = disk] PROVE GenInv'
      BY <3>1, <3>3 DEF Discipline, GenInv, TypeOK, ActorType, Actors
    <3>. QED BY <1>9, <3>2, <3>3 DEF StatusCounts
  <2>6. CachesCurrent'
    BY <1>9 DEF TypeOK, ActorType, Actors, Discipline, StoreType, CachesCurrent,
       EmptyCache, StatusCounts, Finish, Goto, catalogVars, cacheVars
  <2>. QED BY <2>1, <2>2, <2>3, <2>4, <2>5, <2>6 DEF Discipline
<1>10. ASSUME WriteFastStatus PROVE Discipline'
  <2>1. LockInv'
    BY <1>10 DEF TypeOK, ActorType, Actors, Discipline, LockInv, Holding,
       WriteFastStatus, Finish, Goto, IsCurrent, catalogVars
  <2>2. WriterInv'
    BY <1>10 DEF TypeOK, ActorType, Actors, Discipline, WriterInv,
       WriteFastStatus, Finish, Goto, IsCurrent, catalogVars
  <2>3. ReaderInv'
    BY <1>10 DEF TypeOK, ActorType, Actors, Discipline, ReaderInv, Inserting,
       CatalogType, WriteFastStatus, Finish, Goto, IsCurrent, catalogVars
  <2>4. DownInv'
    BY <1>10 DEF TypeOK, ActorType, Actors, Discipline, DownInv, WriteFastStatus,
       Finish, Goto, IsCurrent, catalogVars
  <2>5. GenInv'
    <3>1. index' = index BY <1>10 DEF WriteFastStatus, catalogVars
    <3>2. ASSUME NEW v, NEW via, Finish(Worker, v, via) PROVE GenInv'
      BY <3>1, <3>2, FinishGen DEF Discipline, Actors
    <3>3. ASSUME loc' = loc PROVE GenInv'
      BY <3>1, <3>3 DEF Discipline, GenInv, TypeOK, ActorType, Actors
    <3>. QED BY <1>10, <3>2, <3>3 DEF WriteFastStatus
  <2>6. CachesCurrent'
    BY <1>10 DEF TypeOK, ActorType, Actors, Discipline, StoreType, CachesCurrent,
       EmptyCache, WriteFastStatus, Finish, Goto, IsCurrent, catalogVars
  <2>. QED BY <2>1, <2>2, <2>3, <2>4, <2>5, <2>6 DEF Discipline
<1>11. ASSUME ScanSecurity PROVE Discipline'
  <2>1. LockInv'
    BY <1>11 DEF TypeOK, ActorType, Actors, Discipline, LockInv, Holding,
       ScanSecurity, Finish, Goto, catalogVars, cacheVars
  <2>2. WriterInv'
    BY <1>11 DEF TypeOK, ActorType, Actors, Discipline, WriterInv, ScanSecurity,
       Finish, Goto, catalogVars, cacheVars
  <2>3. ReaderInv'
    BY <1>11 DEF TypeOK, ActorType, Actors, Discipline, ReaderInv, Inserting,
       CatalogType, ScanSecurity, Finish, Goto, catalogVars, cacheVars
  <2>4. DownInv'
    BY <1>11 DEF TypeOK, ActorType, Actors, Discipline, DownInv, ScanSecurity,
       Finish, Goto, catalogVars, cacheVars
  <2>5. GenInv'
    <3>1. index' = index BY <1>11 DEF ScanSecurity, catalogVars
    <3>2. ASSUME NEW v, NEW via, Finish(Worker, v, via) PROVE GenInv'
      BY <3>1, <3>2, FinishGen DEF Discipline, Actors
    <3>3. ASSUME loc' = loc PROVE GenInv'
      BY <3>1, <3>3 DEF Discipline, GenInv, TypeOK, ActorType, Actors
    <3>. QED BY <1>11, <3>2, <3>3 DEF ScanSecurity
  <2>6. CachesCurrent'
    BY <1>11 DEF TypeOK, ActorType, Actors, Discipline, StoreType, CachesCurrent,
       EmptyCache, ScanSecurity, Finish, Goto, catalogVars, cacheVars
  <2>. QED BY <2>1, <2>2, <2>3, <2>4, <2>5, <2>6 DEF Discipline
<1>12. ASSUME PersistStatus PROVE Discipline'
  <2>1. GenInv'
    BY <1>12 DEF Discipline, GenInv, PersistStatus, catalogVars
  <2>2. LockInv'
    BY <1>12 DEF TypeOK, ActorType, Actors, Discipline, LockInv, Holding,
       PersistStatus, Goto, catalogVars
  <2>3. WriterInv'
    BY <1>12 DEF TypeOK, ActorType, Actors, Discipline, WriterInv, PersistStatus,
       Goto, catalogVars
  <2>4. ReaderInv'
    BY <1>12 DEF TypeOK, ActorType, Actors, Discipline, ReaderInv, Inserting,
       CatalogType, PersistStatus, Goto, catalogVars
  <2>5. DownInv'
    BY <1>12 DEF TypeOK, ActorType, Actors, Discipline, DownInv, PersistStatus,
       Goto, catalogVars
  <2>6. CachesCurrent'
    BY <1>12 DEF TypeOK, ActorType, Actors, Discipline, StoreType, CachesCurrent,
       EmptyCache, PersistStatus, Goto, catalogVars
  <2>. QED BY <2>1, <2>2, <2>3, <2>4, <2>5, <2>6 DEF Discipline
<1>13. ASSUME DropList PROVE Discipline'
  <2>1. GenInv'
    BY <1>13 DEF Discipline, GenInv, DropList, catalogVars
  <2>2. LockInv'
    BY <1>13 DEF TypeOK, ActorType, Actors, Discipline, LockInv, Holding,
       DropList, Goto, catalogVars
  <2>3. WriterInv'
    BY <1>13 DEF TypeOK, ActorType, Actors, Discipline, WriterInv, DropList, Goto,
       catalogVars
  <2>4. ReaderInv'
    BY <1>13 DEF TypeOK, ActorType, Actors, Discipline, ReaderInv, Inserting,
       CatalogType, DropList, Goto, catalogVars
  <2>5. DownInv'
    BY <1>13 DEF TypeOK, ActorType, Actors, Discipline, DownInv, DropList, Goto,
       catalogVars
  <2>6. CachesCurrent'
    BY <1>13 DEF TypeOK, ActorType, Actors, Discipline, StoreType, CachesCurrent,
       EmptyCache, DropList, Goto, catalogVars
  <2>. QED BY <2>1, <2>2, <2>3, <2>4, <2>5, <2>6 DEF Discipline
<1>14. ASSUME InsertStatus PROVE Discipline'
  <2>1. LockInv'
    BY <1>14 DEF TypeOK, ActorType, Actors, Discipline, LockInv, Holding,
       InsertStatus, Finish, Mine, Goto
  <2>2. WriterInv'
    BY <1>14 DEF TypeOK, ActorType, Actors, Discipline, WriterInv, InsertStatus,
       Finish, Mine, Goto
  <2>3. ReaderInv'
    BY <1>14 DEF TypeOK, ActorType, Actors, Discipline, ReaderInv, Inserting,
       CatalogType, InsertStatus, Finish, Mine, Goto
  <2>4. DownInv'
    BY <1>14 DEF TypeOK, ActorType, Actors, Discipline, DownInv, InsertStatus,
       Finish, Mine, Goto
  <2>5. GenInv'
    BY <1>14, FinishGen DEF Discipline, TypeOK, CatalogType, InsertStatus, Actors
  <2>6. CachesCurrent'
    BY <1>14 DEF TypeOK, ActorType, Actors, Discipline, StoreType, CachesCurrent,
       EmptyCache, ReaderInv, Inserting, WriterInv, CatalogType, InsertStatus,
       Finish, Mine, Goto
  <2>. QED BY <2>1, <2>2, <2>3, <2>4, <2>5, <2>6 DEF Discipline
<1>15. ASSUME NativeTaskEnds PROVE Discipline'
  <2>1. WriterInv' /\ ReaderInv' /\ DownInv' /\ GenInv' /\ CachesCurrent'
    BY <1>15 DEF Discipline, WriterInv, ReaderInv, DownInv, GenInv, CachesCurrent,
       NativeTaskEnds, cacheVars, actorVars
  <2>2. LockInv'
    BY <1>15, CatalogConstants DEF Discipline, LockInv, NativeTaskEnds, actorVars
  <2>. QED BY <2>1, <2>2 DEF Discipline
<1>16. ASSUME Quiescent PROVE Discipline'
  <2>1. LockInv' /\ WriterInv' /\ ReaderInv' /\ DownInv' /\ GenInv' /\ CachesCurrent'
    BY <1>16 DEF Discipline, LockInv, WriterInv, ReaderInv, DownInv, GenInv,
       CachesCurrent, Quiescent, vars, catalogVars, cacheVars, actorVars
  <2>. QED BY <2>1 DEF Discipline
<1>17. ASSUME NEW s \in Subs, Expire(s) PROVE Discipline'
  <2>1. LockInv' /\ WriterInv' /\ ReaderInv' /\ GenInv'
    BY <1>17 DEF Discipline, LockInv, WriterInv, ReaderInv, GenInv, Expire,
       catalogVars, actorVars
  <2>2. DownInv'
    BY <1>17 DEF TypeOK, ActorType, Actors, Discipline, DownInv, EmptyCache,
       Expire, catalogVars, actorVars
  <2>3. CachesCurrent'
    BY <1>17 DEF TypeOK, ActorType, Actors, Discipline, StoreType, CachesCurrent,
       EmptyCache, Expire, catalogVars, actorVars
  <2>. QED BY <2>1, <2>2, <2>3 DEF Discipline
<1>18. ASSUME NEW c \in Clients, NEW k \in Kinds, Begin(c, k) PROVE Discipline'
  <2>1. GenInv'
    BY <1>18 DEF Discipline, GenInv, Begin, catalogVars, cacheVars
  <2>2. LockInv'
    BY <1>18 DEF TypeOK, ActorType, Actors, Discipline, LockInv, Holding, Begin,
       Goto, catalogVars, cacheVars
  <2>3. WriterInv'
    BY <1>18 DEF TypeOK, ActorType, Actors, Discipline, WriterInv, Begin, Goto,
       catalogVars, cacheVars
  <2>4. ReaderInv'
    BY <1>18 DEF TypeOK, ActorType, Actors, Discipline, ReaderInv, Inserting,
       CatalogType, Begin, Goto, catalogVars, cacheVars
  <2>5. DownInv'
    BY <1>18 DEF TypeOK, ActorType, Actors, Discipline, DownInv, Begin, Goto,
       catalogVars, cacheVars
  <2>6. CachesCurrent'
    BY <1>18 DEF TypeOK, ActorType, Actors, Discipline, StoreType, CachesCurrent,
       EmptyCache, Begin, Goto, catalogVars, cacheVars
  <2>. QED BY <2>1, <2>2, <2>3, <2>4, <2>5, <2>6 DEF Discipline
<1>19. ASSUME NEW c \in Clients, Observe(c) PROVE Discipline'
  <2>1. LockInv'
    BY <1>19 DEF TypeOK, ActorType, Actors, Discipline, LockInv, Holding, Observe,
       Goto, catalogVars, cacheVars
  <2>2. WriterInv'
    BY <1>19 DEF TypeOK, ActorType, Actors, Discipline, WriterInv, Observe, Goto,
       catalogVars, cacheVars
  <2>3. ReaderInv'
    BY <1>19 DEF TypeOK, ActorType, Actors, Discipline, ReaderInv, Inserting,
       CatalogType, Observe, Goto, catalogVars, cacheVars
  <2>4. DownInv'
    BY <1>19 DEF TypeOK, ActorType, Actors, Discipline, DownInv, Observe, Goto,
       catalogVars, cacheVars
  <2>5. GenInv'
    BY <1>19 DEF TypeOK, ActorType, Actors, Discipline, GenInv, Observe, Goto,
       catalogVars, cacheVars
  <2>6. CachesCurrent'
    BY <1>19 DEF TypeOK, ActorType, Actors, Discipline, StoreType, CachesCurrent,
       EmptyCache, Observe, Goto, catalogVars, cacheVars
  <2>. QED BY <2>1, <2>2, <2>3, <2>4, <2>5, <2>6 DEF Discipline
<1>20. ASSUME NEW c \in Clients, Compare(c) PROVE Discipline'
  <2>1. LockInv'
    BY <1>20 DEF TypeOK, ActorType, Actors, Discipline, LockInv, Holding, Compare,
       Goto, Unlocked, cacheVars
  <2>2. WriterInv'
    BY <1>20 DEF TypeOK, ActorType, Actors, Discipline, WriterInv, Compare, Goto,
       Unlocked, cacheVars
  <2>3. ReaderInv'
    BY <1>20 DEF TypeOK, ActorType, Actors, Discipline, ReaderInv, Inserting,
       CatalogType, Compare, Goto, Unlocked, cacheVars
  <2>4. DownInv'
    BY <1>20 DEF TypeOK, ActorType, Actors, Discipline, DownInv, Compare, Goto,
       Unlocked, cacheVars
  <2>5. GenInv'
    <3>1. index.gen \in Nat /\ NoLocals.gen \in Nat /\ NoLocals.gen <= index.gen
      BY DEF Discipline, GenInv, TypeOK, CatalogType, ActorType, Published, NoLocals,
           Zero, Actors
    <3>2. loc' = [loc EXCEPT ![c] = NoLocals] /\ index' = index
      BY <1>20 DEF Compare, catalogVars
    <3>. QED BY <3>1, <3>2, LocGen DEF Discipline, Actors
  <2>6. CachesCurrent'
    BY <1>20 DEF TypeOK, ActorType, Actors, Discipline, StoreType, CachesCurrent,
       EmptyCache, Compare, Goto, Unlocked, cacheVars
  <2>. QED BY <2>1, <2>2, <2>3, <2>4, <2>5, <2>6 DEF Discipline
<1>21. ASSUME NEW c \in Clients, Lock(c) PROVE Discipline'
  <2>1. GenInv'
    BY <1>21 DEF Discipline, GenInv, Lock, cacheVars
  <2>2. LockInv'
    BY <1>21, CatalogConstants DEF Discipline, LockInv, TypeOK, ActorType, Actors,
         Lock, Goto
  <2>3. WriterInv'
    BY <1>21 DEF TypeOK, ActorType, Actors, Discipline, WriterInv, Lock, Goto,
       cacheVars
  <2>4. ReaderInv'
    BY <1>21 DEF TypeOK, ActorType, Actors, Discipline, ReaderInv, Inserting,
       CatalogType, Lock, Goto, cacheVars
  <2>5. DownInv'
    BY <1>21 DEF TypeOK, ActorType, Actors, Discipline, DownInv, Lock, Goto,
       cacheVars
  <2>6. CachesCurrent'
    BY <1>21 DEF TypeOK, ActorType, Actors, Discipline, StoreType, CachesCurrent,
       EmptyCache, Lock, Goto, cacheVars
  <2>. QED BY <2>1, <2>2, <2>3, <2>4, <2>5, <2>6 DEF Discipline
<1>22. ASSUME NEW c \in Clients, ObserveGeneration(c) PROVE Discipline'
  <2>1. LockInv'
    BY <1>22 DEF TypeOK, ActorType, Actors, Discipline, LockInv, Holding,
       ObserveGeneration, Goto, catalogVars, cacheVars
  <2>2. WriterInv'
    BY <1>22 DEF TypeOK, ActorType, Actors, Discipline, WriterInv,
       ObserveGeneration, Goto, catalogVars, cacheVars
  <2>3. ReaderInv'
    BY <1>22 DEF TypeOK, ActorType, Actors, Discipline, ReaderInv, Inserting,
       CatalogType, ObserveGeneration, Goto, catalogVars, cacheVars
  <2>4. DownInv'
    BY <1>22 DEF TypeOK, ActorType, Actors, Discipline, DownInv,
       ObserveGeneration, Goto, catalogVars, cacheVars
  <2>5. GenInv'
    BY <1>22 DEF Discipline, GenInv, TypeOK, CatalogType, ActorType, Published, Actors,
       ObserveGeneration, catalogVars
  <2>6. CachesCurrent'
    BY <1>22 DEF TypeOK, ActorType, Actors, Discipline, StoreType, CachesCurrent,
       EmptyCache, ObserveGeneration, Goto, catalogVars, cacheVars
  <2>. QED BY <2>1, <2>2, <2>3, <2>4, <2>5, <2>6 DEF Discipline
<1>23. ASSUME NEW c \in Clients, Coalesce(c) PROVE Discipline'
  <2>1. LockInv'
    BY <1>23 DEF TypeOK, ActorType, Actors, Discipline, LockInv, Holding,
       Coalesce, Finish, Goto, cacheVars
  <2>2. WriterInv'
    BY <1>23 DEF TypeOK, ActorType, Actors, Discipline, WriterInv, Coalesce,
       Finish, Goto, cacheVars
  <2>3. ReaderInv'
    BY <1>23 DEF TypeOK, ActorType, Actors, Discipline, ReaderInv, Inserting,
       CatalogType, Coalesce, Finish, Goto, cacheVars
  <2>4. DownInv'
    BY <1>23 DEF TypeOK, ActorType, Actors, Discipline, DownInv, Coalesce, Finish,
       Goto, cacheVars
  <2>5. GenInv'
    BY <1>23, FinishGen DEF Discipline, TypeOK, CatalogType, Coalesce, cacheVars,
       Actors
  <2>6. CachesCurrent'
    BY <1>23 DEF TypeOK, ActorType, Actors, Discipline, StoreType, CachesCurrent,
       EmptyCache, Coalesce, Finish, Goto, cacheVars
  <2>. QED BY <2>1, <2>2, <2>3, <2>4, <2>5, <2>6 DEF Discipline
<1>24. ASSUME NEW c \in Clients, Decide(c) PROVE Discipline'
  <2>1. GenInv'
    BY <1>24 DEF Discipline, GenInv, Decide, catalogVars, cacheVars
  <2>2. LockInv'
    BY <1>24 DEF TypeOK, ActorType, Actors, Discipline, LockInv, Holding, Decide,
       Goto, catalogVars, cacheVars
  <2>3. WriterInv'
    BY <1>24 DEF TypeOK, ActorType, Actors, Discipline, WriterInv, Decide, Goto,
       catalogVars, cacheVars
  <2>4. ReaderInv'
    BY <1>24 DEF TypeOK, ActorType, Actors, Discipline, ReaderInv, Inserting,
       CatalogType, Decide, Goto, catalogVars, cacheVars
  <2>5. DownInv'
    BY <1>24 DEF TypeOK, ActorType, Actors, Discipline, DownInv, Decide, Goto,
       catalogVars, cacheVars
  <2>6. CachesCurrent'
    BY <1>24 DEF TypeOK, ActorType, Actors, Discipline, StoreType, CachesCurrent,
       EmptyCache, Decide, Goto, catalogVars, cacheVars
  <2>. QED BY <2>1, <2>2, <2>3, <2>4, <2>5, <2>6 DEF Discipline
<1>25. ASSUME NEW c \in Clients, Debounced(c) PROVE Discipline'
  <2>1. LockInv'
    BY <1>25 DEF TypeOK, ActorType, Actors, Discipline, LockInv, Holding,
       Debounced, Finish, Goto, cacheVars
  <2>2. WriterInv'
    BY <1>25 DEF TypeOK, ActorType, Actors, Discipline, WriterInv, Debounced,
       Finish, Goto, cacheVars
  <2>3. ReaderInv'
    BY <1>25 DEF TypeOK, ActorType, Actors, Discipline, ReaderInv, Inserting,
       CatalogType, Debounced, Finish, Goto, cacheVars
  <2>4. DownInv'
    BY <1>25 DEF TypeOK, ActorType, Actors, Discipline, DownInv, Debounced,
       Finish, Goto, cacheVars
  <2>5. GenInv'
    BY <1>25, FinishGen DEF Discipline, TypeOK, CatalogType, Debounced, cacheVars,
       Actors
  <2>6. CachesCurrent'
    BY <1>25 DEF TypeOK, ActorType, Actors, Discipline, StoreType, CachesCurrent,
       EmptyCache, Debounced, Finish, Goto, cacheVars
  <2>. QED BY <2>1, <2>2, <2>3, <2>4, <2>5, <2>6 DEF Discipline
<1>26. ASSUME NEW c \in Clients, RecordCompletion(c) PROVE Discipline'
  <2>1. LockInv'
    BY <1>26 DEF TypeOK, ActorType, Actors, Discipline, LockInv, Holding,
       RecordCompletion, Finish, Goto, cacheVars
  <2>2. WriterInv'
    BY <1>26 DEF TypeOK, ActorType, Actors, Discipline, WriterInv,
       RecordCompletion, Finish, Goto, cacheVars
  <2>3. ReaderInv'
    BY <1>26 DEF TypeOK, ActorType, Actors, Discipline, ReaderInv, Inserting,
       CatalogType, RecordCompletion, Finish, Goto, cacheVars
  <2>4. DownInv'
    BY <1>26 DEF TypeOK, ActorType, Actors, Discipline, DownInv, RecordCompletion,
       Finish, Goto, cacheVars
  <2>5. GenInv'
    BY <1>26, FinishGen DEF Discipline, TypeOK, CatalogType, RecordCompletion,
       cacheVars, Actors
  <2>6. CachesCurrent'
    BY <1>26 DEF TypeOK, ActorType, Actors, Discipline, StoreType, CachesCurrent,
       EmptyCache, RecordCompletion, Finish, Goto, cacheVars
  <2>. QED BY <2>1, <2>2, <2>3, <2>4, <2>5, <2>6 DEF Discipline
<1>27. ASSUME NEW c \in Clients, ObserveEpoch(c) PROVE Discipline'
  <2>1. GenInv'
    BY <1>27 DEF Discipline, GenInv, ObserveEpoch, cacheVars
  <2>2. LockInv'
    BY <1>27 DEF TypeOK, ActorType, Actors, Discipline, LockInv, Holding,
       ObserveEpoch, Goto, cacheVars
  <2>3. WriterInv'
    BY <1>27 DEF TypeOK, ActorType, Actors, Discipline, WriterInv, ObserveEpoch,
       Goto, cacheVars
  <2>4. ReaderInv'
    BY <1>27 DEF TypeOK, ActorType, Actors, Discipline, ReaderInv, Inserting,
       CatalogType, ObserveEpoch, Goto, cacheVars
  <2>5. DownInv'
    BY <1>27 DEF TypeOK, ActorType, Actors, Discipline, DownInv, ObserveEpoch,
       Goto, cacheVars
  <2>6. CachesCurrent'
    BY <1>27 DEF TypeOK, ActorType, Actors, Discipline, StoreType, CachesCurrent,
       EmptyCache, ObserveEpoch, Goto, cacheVars
  <2>. QED BY <2>1, <2>2, <2>3, <2>4, <2>5, <2>6 DEF Discipline
<1>28. ASSUME NEW c \in Clients, LoadStart(c) PROVE Discipline'
  <2>1. GenInv'
    BY <1>28 DEF Discipline, GenInv, LoadStart, cacheVars
  <2>2. LockInv'
    BY <1>28 DEF TypeOK, ActorType, Actors, Discipline, LockInv, Holding,
       LoadStart, Goto, cacheVars
  <2>3. WriterInv'
    BY <1>28 DEF TypeOK, ActorType, Actors, Discipline, WriterInv, LoadStart,
       Goto, cacheVars
  <2>4. ReaderInv'
    BY <1>28 DEF TypeOK, ActorType, Actors, Discipline, ReaderInv, Inserting,
       CatalogType, LoadStart, Goto, cacheVars
  <2>5. DownInv'
    BY <1>28 DEF TypeOK, ActorType, Actors, Discipline, DownInv, LoadStart, Goto,
       cacheVars
  <2>6. CachesCurrent'
    BY <1>28 DEF TypeOK, ActorType, Actors, Discipline, StoreType, CachesCurrent,
       EmptyCache, LoadStart, Goto, cacheVars
  <2>. QED BY <2>1, <2>2, <2>3, <2>4, <2>5, <2>6 DEF Discipline
<1>29. ASSUME NEW c \in Clients, LoadEnd(c) PROVE Discipline'
  <2>1. GenInv'
    BY <1>29 DEF Discipline, GenInv, LoadEnd, cacheVars
  <2>2. LockInv'
    BY <1>29 DEF TypeOK, ActorType, Actors, Discipline, LockInv, Holding, LoadEnd,
       Goto, cacheVars
  <2>3. WriterInv'
    BY <1>29 DEF TypeOK, ActorType, Actors, Discipline, WriterInv, LoadEnd, Goto,
       cacheVars
  <2>4. ReaderInv'
    BY <1>29 DEF TypeOK, ActorType, Actors, Discipline, ReaderInv, Inserting,
       CatalogType, LoadEnd, Goto, cacheVars
  <2>5. DownInv'
    BY <1>29 DEF TypeOK, ActorType, Actors, Discipline, DownInv, LoadEnd, Goto,
       cacheVars
  <2>6. CachesCurrent'
    BY <1>29 DEF TypeOK, ActorType, Actors, Discipline, StoreType, CachesCurrent,
       EmptyCache, LoadEnd, Goto, cacheVars
  <2>. QED BY <2>1, <2>2, <2>3, <2>4, <2>5, <2>6 DEF Discipline
<1>30. ASSUME NEW c \in Clients, LoadRetry(c) PROVE Discipline'
  <2>1. GenInv'
    BY <1>30 DEF Discipline, GenInv, LoadRetry, cacheVars
  <2>2. LockInv'
    BY <1>30 DEF TypeOK, ActorType, Actors, Discipline, LockInv, Holding,
       LoadRetry, Goto, cacheVars
  <2>3. WriterInv'
    BY <1>30 DEF TypeOK, ActorType, Actors, Discipline, WriterInv, LoadRetry,
       Goto, cacheVars
  <2>4. ReaderInv'
    BY <1>30 DEF TypeOK, ActorType, Actors, Discipline, ReaderInv, Inserting,
       CatalogType, LoadRetry, Goto, cacheVars
  <2>5. DownInv'
    BY <1>30 DEF TypeOK, ActorType, Actors, Discipline, DownInv, LoadRetry, Goto,
       cacheVars
  <2>6. CachesCurrent'
    BY <1>30 DEF TypeOK, ActorType, Actors, Discipline, StoreType, CachesCurrent,
       EmptyCache, LoadRetry, Goto, cacheVars
  <2>. QED BY <2>1, <2>2, <2>3, <2>4, <2>5, <2>6 DEF Discipline
<1>31. ASSUME NEW c \in Clients, SwapBackends(c) PROVE Discipline'
  <2>1. GenInv'
    BY <1>31 DEF Discipline, GenInv, SwapBackends, catalogVars, cacheVars
  <2>2. LockInv'
    BY <1>31 DEF TypeOK, ActorType, Actors, Discipline, LockInv, Holding,
       SwapBackends, Goto, catalogVars, cacheVars
  <2>3. WriterInv'
    BY <1>31 DEF TypeOK, ActorType, Actors, Discipline, WriterInv, SwapBackends,
       Goto, catalogVars, cacheVars
  <2>4. ReaderInv'
    BY <1>31 DEF TypeOK, ActorType, Actors, Discipline, ReaderInv, Inserting,
       CatalogType, SwapBackends, Goto, catalogVars, cacheVars
  <2>5. DownInv'
    BY <1>31 DEF TypeOK, ActorType, Actors, Discipline, DownInv, SwapBackends,
       Goto, catalogVars, cacheVars
  <2>6. CachesCurrent'
    BY <1>31 DEF TypeOK, ActorType, Actors, Discipline, StoreType, CachesCurrent,
       EmptyCache, SwapBackends, Goto, catalogVars, cacheVars
  <2>. QED BY <2>1, <2>2, <2>3, <2>4, <2>5, <2>6 DEF Discipline
<1>32. ASSUME NEW c \in Clients, Recheck(c) PROVE Discipline'
  <2>1. GenInv'
    BY <1>32 DEF Discipline, GenInv, Recheck, catalogVars, cacheVars
  <2>2. LockInv'
    BY <1>32 DEF TypeOK, ActorType, Actors, Discipline, LockInv, Holding, Recheck,
       Goto, catalogVars, cacheVars
  <2>3. WriterInv'
    BY <1>32 DEF TypeOK, ActorType, Actors, Discipline, WriterInv, Recheck, Goto,
       catalogVars, cacheVars
  <2>4. ReaderInv'
    BY <1>32 DEF TypeOK, ActorType, Actors, Discipline, ReaderInv, Inserting,
       CatalogType, Recheck, Goto, catalogVars, cacheVars
  <2>5. DownInv'
    BY <1>32 DEF TypeOK, ActorType, Actors, Discipline, DownInv, Recheck, Goto,
       catalogVars, cacheVars
  <2>6. CachesCurrent'
    BY <1>32 DEF TypeOK, ActorType, Actors, Discipline, StoreType, CachesCurrent,
       EmptyCache, Recheck, Goto, catalogVars, cacheVars
  <2>. QED BY <2>1, <2>2, <2>3, <2>4, <2>5, <2>6 DEF Discipline
<1>33. ASSUME NEW c \in Clients, Publish(c) PROVE Discipline'
  <2>1. LockInv'
    BY <1>33 DEF TypeOK, ActorType, Actors, Discipline, LockInv, Holding, Publish,
       Goto, cacheVars
  <2>2. WriterInv'
    BY <1>33 DEF TypeOK, ActorType, Actors, Discipline, WriterInv, LockInv,
       Holding, CatalogType, Publish, Goto, cacheVars
  <2>3. ReaderInv'
    BY <1>33 DEF TypeOK, ActorType, Actors, Discipline, ReaderInv, Inserting,
       CatalogType, Publish, Goto, cacheVars
  <2>4. DownInv'
    BY <1>33 DEF TypeOK, ActorType, Actors, Discipline, DownInv, Publish, Goto,
       cacheVars
  <2>5. GenInv'
    BY <1>33 DEF Discipline, GenInv, TypeOK, CatalogType, ActorType, Published, Publish
  <2>6. CachesCurrent'
    BY <1>33 DEF TypeOK, ActorType, Actors, Discipline, StoreType, CachesCurrent,
       EmptyCache, Publish, Goto, cacheVars
  <2>. QED BY <2>1, <2>2, <2>3, <2>4, <2>5, <2>6 DEF Discipline
<1>34. ASSUME NEW c \in Clients, ClearCaches(c) PROVE Discipline'
  <2>1. GenInv'
    BY <1>34 DEF Discipline, GenInv, ClearCaches, catalogVars
  <2>2. LockInv'
    BY <1>34 DEF TypeOK, ActorType, Actors, Discipline, LockInv, Holding,
       ClearCaches, Goto, catalogVars
  <2>3. WriterInv'
    BY <1>34 DEF TypeOK, ActorType, Actors, Discipline, WriterInv, ClearCaches,
       Goto, catalogVars
  <2>4. ReaderInv'
    BY <1>34 DEF TypeOK, ActorType, Actors, Discipline, ReaderInv, Inserting,
       CatalogType, ClearCaches, Goto, catalogVars
  <2>5. DownInv'
    BY <1>34 DEF TypeOK, ActorType, Actors, Discipline, DownInv, ClearCaches,
       Goto, catalogVars
  <2>6. CachesCurrent'
    BY <1>34 DEF TypeOK, ActorType, Actors, Discipline, StoreType, CachesCurrent,
       EmptyCache, ClearCaches, Goto, catalogVars
  <2>. QED BY <2>1, <2>2, <2>3, <2>4, <2>5, <2>6 DEF Discipline
<1>35. ASSUME NEW c \in Clients, InvalidateStatus(c) PROVE Discipline'
  <2>1. LockInv'
    BY <1>35 DEF TypeOK, ActorType, Actors, Discipline, LockInv, Holding,
       InvalidateStatus, Goto
  <2>2. WriterInv'
    BY <1>35, CatalogConstants DEF Discipline, WriterInv, TypeOK, ActorType, Actors,
       InvalidateStatus, Goto
  <2>3. ReaderInv'
    BY <1>35 DEF TypeOK, ActorType, Actors, Discipline, ReaderInv, Inserting,
       CatalogType, InvalidateStatus, Goto
  <2>4. DownInv'
    BY <1>35 DEF TypeOK, ActorType, Actors, Discipline, DownInv, InvalidateStatus,
       Goto
  <2>5. GenInv'
    <3>1. /\ index.gen \in Nat /\ [NoLocals EXCEPT !.ver = index.lo].gen \in Nat
          /\ [NoLocals EXCEPT !.ver = index.lo].gen <= index.gen
      BY DEF Discipline, GenInv, TypeOK, CatalogType, ActorType, Published, NoLocals,
           Zero, Actors
    <3>2. loc' = [loc EXCEPT ![c] = [NoLocals EXCEPT !.ver = index.lo]] /\ index' = index
      BY <1>35 DEF InvalidateStatus, catalogVars
    <3>. QED BY <3>1, <3>2, LocGen DEF Discipline, Actors
  <2>6. CachesCurrent'
    BY <1>35 DEF TypeOK, ActorType, Actors, Discipline, StoreType, CachesCurrent,
       EmptyCache, InvalidateStatus, Goto
  <2>. QED BY <2>1, <2>2, <2>3, <2>4, <2>5, <2>6 DEF Discipline
<1>36. ASSUME NEW c \in Clients, BuildFails(c) PROVE Discipline'
  <2>1. LockInv'
    BY <1>36 DEF TypeOK, ActorType, Actors, Discipline, LockInv, Holding,
       BuildFails, Finish, Goto, cacheVars
  <2>2. WriterInv'
    BY <1>36 DEF TypeOK, ActorType, Actors, Discipline, WriterInv, BuildFails,
       Finish, Goto, cacheVars
  <2>3. ReaderInv'
    BY <1>36 DEF TypeOK, ActorType, Actors, Discipline, ReaderInv, Inserting,
       CatalogType, BuildFails, Finish, Goto, cacheVars
  <2>4. DownInv'
    BY <1>36 DEF TypeOK, ActorType, Actors, Discipline, DownInv, BuildFails,
       Finish, Goto, cacheVars
  <2>5. GenInv'
    BY <1>36, FinishGen DEF Discipline, TypeOK, CatalogType, BuildFails,
       cacheVars, Actors
  <2>6. CachesCurrent'
    BY <1>36 DEF TypeOK, ActorType, Actors, Discipline, StoreType, CachesCurrent,
       EmptyCache, BuildFails, Finish, Goto, cacheVars
  <2>. QED BY <2>1, <2>2, <2>3, <2>4, <2>5, <2>6 DEF Discipline
<1>37. ASSUME NEW c \in Clients, LookupHit(c) PROVE Discipline'
  <2>1. LockInv'
    BY <1>37 DEF TypeOK, ActorType, Actors, Discipline, LockInv, Holding,
       LookupHit, Finish, Goto, catalogVars, cacheVars
  <2>2. WriterInv'
    BY <1>37 DEF TypeOK, ActorType, Actors, Discipline, WriterInv, LookupHit,
       Finish, Goto, catalogVars, cacheVars
  <2>3. ReaderInv'
    BY <1>37 DEF TypeOK, ActorType, Actors, Discipline, ReaderInv, Inserting,
       CatalogType, LookupHit, Finish, Goto, catalogVars, cacheVars
  <2>4. DownInv'
    BY <1>37 DEF TypeOK, ActorType, Actors, Discipline, DownInv, LookupHit,
       Finish, Goto, catalogVars, cacheVars
  <2>5. GenInv'
    BY <1>37, FinishGen DEF Discipline, TypeOK, CatalogType, LookupHit,
       catalogVars, cacheVars, Actors
  <2>6. CachesCurrent'
    BY <1>37 DEF TypeOK, ActorType, Actors, Discipline, StoreType, CachesCurrent,
       EmptyCache, LookupHit, Finish, Goto, catalogVars, cacheVars
  <2>. QED BY <2>1, <2>2, <2>3, <2>4, <2>5, <2>6 DEF Discipline
<1>38. ASSUME NEW c \in Clients, LookupMiss(c) PROVE Discipline'
  <2>1. GenInv'
    BY <1>38 DEF Discipline, GenInv, LookupMiss, catalogVars, cacheVars
  <2>2. LockInv'
    BY <1>38 DEF TypeOK, ActorType, Actors, Discipline, LockInv, Holding,
       LookupMiss, Goto, catalogVars, cacheVars
  <2>3. WriterInv'
    BY <1>38 DEF TypeOK, ActorType, Actors, Discipline, WriterInv, LookupMiss,
       Goto, catalogVars, cacheVars
  <2>4. ReaderInv'
    BY <1>38 DEF TypeOK, ActorType, Actors, Discipline, ReaderInv, Inserting,
       CatalogType, LookupMiss, Goto, catalogVars, cacheVars
  <2>5. DownInv'
    BY <1>38 DEF TypeOK, ActorType, Actors, Discipline, DownInv, LookupMiss, Goto,
       catalogVars, cacheVars
  <2>6. CachesCurrent'
    BY <1>38 DEF TypeOK, ActorType, Actors, Discipline, StoreType, CachesCurrent,
       EmptyCache, LookupMiss, Goto, catalogVars, cacheVars
  <2>. QED BY <2>1, <2>2, <2>3, <2>4, <2>5, <2>6 DEF Discipline
<1>39. ASSUME NEW c \in Clients, CacheClear(c) PROVE Discipline'
  <2>1. LockInv'
    BY <1>39 DEF TypeOK, ActorType, Actors, Discipline, LockInv, Holding,
       CacheClear, Finish, Goto, catalogVars
  <2>2. WriterInv'
    BY <1>39 DEF TypeOK, ActorType, Actors, Discipline, WriterInv, CacheClear,
       Finish, Goto, catalogVars
  <2>3. ReaderInv'
    BY <1>39 DEF TypeOK, ActorType, Actors, Discipline, ReaderInv, Inserting,
       CatalogType, CacheClear, Finish, Goto, catalogVars
  <2>4. DownInv'
    BY <1>39 DEF TypeOK, ActorType, Actors, Discipline, DownInv, CacheClear,
       Finish, Goto, catalogVars
  <2>5. GenInv'
    BY <1>39, FinishGen DEF Discipline, TypeOK, CatalogType, CacheClear,
       catalogVars, Actors
  <2>6. CachesCurrent'
    BY <1>39 DEF TypeOK, ActorType, Actors, Discipline, StoreType, CachesCurrent,
       EmptyCache, CacheClear, Finish, Goto, catalogVars
  <2>. QED BY <2>1, <2>2, <2>3, <2>4, <2>5, <2>6 DEF Discipline
<1>40. ASSUME NEW c \in Clients, PersistedHit(c) PROVE Discipline'
  <2>1. LockInv'
    BY <1>40 DEF TypeOK, ActorType, Actors, Discipline, LockInv, Holding,
       PersistedHit, Finish, Goto, catalogVars, cacheVars
  <2>2. WriterInv'
    BY <1>40 DEF TypeOK, ActorType, Actors, Discipline, WriterInv, PersistedHit,
       Finish, Goto, catalogVars, cacheVars
  <2>3. ReaderInv'
    BY <1>40 DEF TypeOK, ActorType, Actors, Discipline, ReaderInv, Inserting,
       CatalogType, PersistedHit, Finish, Goto, catalogVars, cacheVars
  <2>4. DownInv'
    BY <1>40 DEF TypeOK, ActorType, Actors, Discipline, DownInv, PersistedHit,
       Finish, Goto, catalogVars, cacheVars
  <2>5. GenInv'
    BY <1>40, FinishGen DEF Discipline, TypeOK, CatalogType, PersistedHit,
       catalogVars, cacheVars, Actors
  <2>6. CachesCurrent'
    BY <1>40 DEF TypeOK, ActorType, Actors, Discipline, StoreType, CachesCurrent,
       EmptyCache, PersistedHit, Finish, Goto, catalogVars, cacheVars
  <2>. QED BY <2>1, <2>2, <2>3, <2>4, <2>5, <2>6 DEF Discipline
<1>41. ASSUME NEW c \in Clients, PersistedMiss(c) PROVE Discipline'
  <2>1. GenInv'
    BY <1>41 DEF Discipline, GenInv, PersistedMiss, catalogVars, cacheVars
  <2>2. LockInv'
    BY <1>41 DEF TypeOK, ActorType, Actors, Discipline, LockInv, Holding,
       PersistedMiss, Goto, catalogVars, cacheVars
  <2>3. WriterInv'
    BY <1>41 DEF TypeOK, ActorType, Actors, Discipline, WriterInv, PersistedMiss,
       Goto, catalogVars, cacheVars
  <2>4. ReaderInv'
    BY <1>41 DEF TypeOK, ActorType, Actors, Discipline, ReaderInv, Inserting,
       CatalogType, PersistedMiss, Goto, catalogVars, cacheVars
  <2>5. DownInv'
    BY <1>41 DEF TypeOK, ActorType, Actors, Discipline, DownInv, PersistedMiss,
       Goto, catalogVars, cacheVars
  <2>6. CachesCurrent'
    BY <1>41 DEF TypeOK, ActorType, Actors, Discipline, StoreType, CachesCurrent,
       EmptyCache, PersistedMiss, Goto, catalogVars, cacheVars
  <2>. QED BY <2>1, <2>2, <2>3, <2>4, <2>5, <2>6 DEF Discipline
<1>42. ASSUME NEW c \in Clients, TimeOut(c) PROVE Discipline'
  <2>1. LockInv'
    BY <1>42 DEF TypeOK, ActorType, Actors, Discipline, LockInv, Holding, TimeOut,
       Finish, Unlocked, Awaiting, Goto, cacheVars
  <2>2. WriterInv'
    BY <1>42 DEF TypeOK, ActorType, Actors, Discipline, WriterInv, TimeOut,
       Finish, Unlocked, Awaiting, Goto, cacheVars
  <2>3. ReaderInv'
    BY <1>42 DEF TypeOK, ActorType, Actors, Discipline, ReaderInv, Inserting,
       CatalogType, TimeOut, Finish, Unlocked, Awaiting, Goto, cacheVars
  <2>4. DownInv'
    BY <1>42 DEF TypeOK, ActorType, Actors, Discipline, DownInv, TimeOut, Finish,
       Unlocked, Awaiting, Goto, cacheVars
  <2>5. GenInv'
    BY <1>42, FinishGen DEF Discipline, TypeOK, CatalogType, TimeOut, cacheVars,
       Actors
  <2>6. CachesCurrent'
    BY <1>42 DEF TypeOK, ActorType, Actors, Discipline, StoreType, CachesCurrent,
       EmptyCache, TimeOut, Finish, Unlocked, Awaiting, Goto, cacheVars
  <2>. QED BY <2>1, <2>2, <2>3, <2>4, <2>5, <2>6 DEF Discipline
<1>43. ASSUME NEW a \in Actors, TakeSnapshot(a) PROVE Discipline'
  <2>1. LockInv'
    BY <1>43 DEF TypeOK, ActorType, Actors, Discipline, LockInv, Holding,
       TakeSnapshot, Goto, catalogVars, cacheVars
  <2>2. WriterInv'
    BY <1>43 DEF TypeOK, ActorType, Actors, Discipline, WriterInv, TakeSnapshot,
       Goto, catalogVars, cacheVars
  <2>3. ReaderInv'
    BY <1>43 DEF TypeOK, ActorType, Actors, Discipline, ReaderInv, Inserting,
       CatalogType, TakeSnapshot, Goto, catalogVars, cacheVars
  <2>4. DownInv'
    BY <1>43 DEF TypeOK, ActorType, Actors, Discipline, DownInv, TakeSnapshot,
       Goto, catalogVars, cacheVars
  <2>5. GenInv'
    BY <1>43 DEF Discipline, GenInv, TypeOK, CatalogType, ActorType, Published,
       TakeSnapshot, catalogVars
  <2>6. CachesCurrent'
    BY <1>43 DEF TypeOK, ActorType, Actors, Discipline, StoreType, CachesCurrent,
       EmptyCache, TakeSnapshot, Goto, catalogVars, cacheVars
  <2>. QED BY <2>1, <2>2, <2>3, <2>4, <2>5, <2>6 DEF Discipline
<1>44. ASSUME NEW a \in Actors, ReadBackend(a) PROVE Discipline'
  <2>1. LockInv'
    BY <1>44 DEF TypeOK, ActorType, Actors, Discipline, LockInv, Holding,
       ReadBackend, Finish, Goto, catalogVars, cacheVars
  <2>2. WriterInv'
    BY <1>44 DEF TypeOK, ActorType, Actors, Discipline, WriterInv, ReadBackend,
       Finish, Goto, catalogVars, cacheVars
  <2>3. ReaderInv'
    BY <1>44 DEF TypeOK, ActorType, Actors, Discipline, ReaderInv, Inserting,
       CatalogType, ReadBackend, Finish, Goto, catalogVars, cacheVars
  <2>4. DownInv'
    BY <1>44 DEF TypeOK, ActorType, Actors, Discipline, DownInv, ReadBackend,
       Finish, Goto, catalogVars, cacheVars
  <2>5. GenInv'
    <3>1. index' = index BY <1>44 DEF ReadBackend, catalogVars
    <3>2. ASSUME NEW v, NEW via, Finish(a, v, via) PROVE GenInv'
      BY <3>1, <3>2, FinishGen DEF Discipline
    <3>3. ASSUME NEW s, loc' = [loc EXCEPT ![a] = [gen |-> @.gen, ver |-> disk,
         sub |-> s]]
          PROVE GenInv'
      BY <3>1, <3>3 DEF Discipline, GenInv, TypeOK, ActorType
    <3>. QED BY <1>44, <3>2, <3>3 DEF ReadBackend
  <2>6. CachesCurrent'
    BY <1>44 DEF TypeOK, ActorType, Actors, Discipline, StoreType, CachesCurrent,
       EmptyCache, ReadBackend, Finish, Goto, catalogVars, cacheVars
  <2>. QED BY <2>1, <2>2, <2>3, <2>4, <2>5, <2>6 DEF Discipline
<1>45. ASSUME NEW a \in Actors, BackendFails(a) PROVE Discipline'
  <2>1. LockInv'
    BY <1>45 DEF TypeOK, ActorType, Actors, Discipline, LockInv, Holding,
       BackendFails, Finish, Goto, catalogVars, cacheVars
  <2>2. WriterInv'
    BY <1>45 DEF TypeOK, ActorType, Actors, Discipline, WriterInv, BackendFails,
       Finish, Goto, catalogVars, cacheVars
  <2>3. ReaderInv'
    BY <1>45 DEF TypeOK, ActorType, Actors, Discipline, ReaderInv, Inserting,
       CatalogType, BackendFails, Finish, Goto, catalogVars, cacheVars
  <2>4. DownInv'
    BY <1>45 DEF TypeOK, ActorType, Actors, Discipline, DownInv, BackendFails,
       Finish, Goto, catalogVars, cacheVars
  <2>5. GenInv'
    BY <1>45, FinishGen DEF Discipline, TypeOK, CatalogType, BackendFails,
       catalogVars, cacheVars, Actors
  <2>6. CachesCurrent'
    BY <1>45 DEF TypeOK, ActorType, Actors, Discipline, StoreType, CachesCurrent,
       EmptyCache, BackendFails, Finish, Goto, catalogVars, cacheVars
  <2>. QED BY <2>1, <2>2, <2>3, <2>4, <2>5, <2>6 DEF Discipline
<1>46. ASSUME NEW a \in Actors, Enter(a) PROVE Discipline'
  <2>1. GenInv'
    BY <1>46 DEF Discipline, GenInv, Enter, cacheVars
  <2>2. LockInv'
    BY <1>46 DEF TypeOK, ActorType, Actors, Discipline, LockInv, Holding, Enter,
       Goto, IsCurrent, cacheVars
  <2>3. WriterInv'
    BY <1>46 DEF TypeOK, ActorType, Actors, Discipline, WriterInv, Enter, Goto,
       IsCurrent, cacheVars
  <2>4. ReaderInv'
    BY <1>46 DEF TypeOK, ActorType, Actors, Discipline, ReaderInv, Inserting,
       CatalogType, Enter, Goto, IsCurrent, cacheVars
  <2>5. DownInv'
    BY <1>46 DEF TypeOK, ActorType, Actors, Discipline, DownInv, Enter, Goto,
       IsCurrent, cacheVars
  <2>6. CachesCurrent'
    BY <1>46 DEF TypeOK, ActorType, Actors, Discipline, StoreType, CachesCurrent,
       EmptyCache, Enter, Goto, IsCurrent, cacheVars
  <2>. QED BY <2>1, <2>2, <2>3, <2>4, <2>5, <2>6 DEF Discipline
<1>47. ASSUME NEW a \in Actors, Refused(a) PROVE Discipline'
  <2>1. LockInv'
    BY <1>47 DEF TypeOK, ActorType, Actors, Discipline, LockInv, Holding, Refused,
       Finish, IsCurrent, Goto, catalogVars, cacheVars
  <2>2. WriterInv'
    BY <1>47 DEF TypeOK, ActorType, Actors, Discipline, WriterInv, Refused,
       Finish, IsCurrent, Goto, catalogVars, cacheVars
  <2>3. ReaderInv'
    BY <1>47 DEF TypeOK, ActorType, Actors, Discipline, ReaderInv, Inserting,
       CatalogType, Refused, Finish, IsCurrent, Goto, catalogVars, cacheVars
  <2>4. DownInv'
    BY <1>47 DEF TypeOK, ActorType, Actors, Discipline, DownInv, Refused, Finish,
       IsCurrent, Goto, catalogVars, cacheVars
  <2>5. GenInv'
    BY <1>47, FinishGen DEF Discipline, TypeOK, CatalogType, Refused, catalogVars,
       cacheVars, Actors
  <2>6. CachesCurrent'
    BY <1>47 DEF TypeOK, ActorType, Actors, Discipline, StoreType, CachesCurrent,
       EmptyCache, Refused, Finish, IsCurrent, Goto, catalogVars, cacheVars
  <2>. QED BY <2>1, <2>2, <2>3, <2>4, <2>5, <2>6 DEF Discipline
<1>48. ASSUME NEW a \in Actors, Insert(a) PROVE Discipline'
  <2>1. LockInv'
    BY <1>48 DEF TypeOK, ActorType, Actors, Discipline, LockInv, Holding, Insert,
       Finish, Mine, Goto
  <2>2. WriterInv'
    BY <1>48 DEF TypeOK, ActorType, Actors, Discipline, WriterInv, Insert, Finish,
       Mine, Goto
  <2>3. ReaderInv'
    BY <1>48 DEF TypeOK, ActorType, Actors, Discipline, ReaderInv, Inserting,
       CatalogType, Insert, Finish, Mine, Goto
  <2>4. DownInv'
    BY <1>48 DEF TypeOK, ActorType, Actors, Discipline, DownInv, Insert, Finish,
       Mine, Goto
  <2>5. GenInv'
    BY <1>48, FinishGen DEF Discipline, TypeOK, CatalogType, Insert, Actors
  <2>6. CachesCurrent'
    BY <1>48 DEF TypeOK, ActorType, Actors, Discipline, StoreType, CachesCurrent,
       EmptyCache, ReaderInv, Inserting, WriterInv, CatalogType, Insert, Finish,
       Mine, Goto
  <2>. QED BY <2>1, <2>2, <2>3, <2>4, <2>5, <2>6 DEF Discipline
<1>49. ASSUME NEW a \in Actors, InsertCount(a) PROVE Discipline'
  <2>1. GenInv'
    BY <1>49 DEF Discipline, GenInv, InsertCount, catalogVars
  <2>2. LockInv'
    BY <1>49 DEF TypeOK, ActorType, Actors, Discipline, LockInv, Holding,
       InsertCount, Goto, Mine, catalogVars
  <2>3. WriterInv'
    BY <1>49 DEF TypeOK, ActorType, Actors, Discipline, WriterInv, InsertCount,
       Goto, Mine, catalogVars
  <2>4. ReaderInv'
    BY <1>49 DEF TypeOK, ActorType, Actors, Discipline, ReaderInv, Inserting,
       CatalogType, InsertCount, Goto, Mine, catalogVars
  <2>5. DownInv'
    BY <1>49 DEF TypeOK, ActorType, Actors, Discipline, DownInv, InsertCount,
       Goto, Mine, catalogVars
  <2>6. CachesCurrent'
    BY <1>49 DEF TypeOK, ActorType, Actors, Discipline, StoreType, CachesCurrent,
       EmptyCache, ReaderInv, Inserting, WriterInv, CatalogType, InsertCount,
       Goto, Mine, catalogVars
  <2>. QED BY <2>1, <2>2, <2>3, <2>4, <2>5, <2>6 DEF Discipline
<1>50. ASSUME NEW a \in Actors, InsertList(a) PROVE Discipline'
  <2>1. LockInv'
    BY <1>50 DEF TypeOK, ActorType, Actors, Discipline, LockInv, Holding,
       InsertList, Finish, Mine, Goto
  <2>2. WriterInv'
    BY <1>50 DEF TypeOK, ActorType, Actors, Discipline, WriterInv, InsertList,
       Finish, Mine, Goto
  <2>3. ReaderInv'
    BY <1>50 DEF TypeOK, ActorType, Actors, Discipline, ReaderInv, Inserting,
       CatalogType, InsertList, Finish, Mine, Goto
  <2>4. DownInv'
    BY <1>50 DEF TypeOK, ActorType, Actors, Discipline, DownInv, InsertList,
       Finish, Mine, Goto
  <2>5. GenInv'
    BY <1>50, FinishGen DEF Discipline, TypeOK, CatalogType, InsertList, Actors
  <2>6. CachesCurrent'
    BY <1>50 DEF TypeOK, ActorType, Actors, Discipline, StoreType, CachesCurrent,
       EmptyCache, ReaderInv, Inserting, WriterInv, CatalogType, InsertList,
       Finish, Mine, Goto
  <2>. QED BY <2>1, <2>2, <2>3, <2>4, <2>5, <2>6 DEF Discipline
<1>51. CASE UNCHANGED vars
  BY <1>51 DEF Discipline, LockInv, WriterInv, ReaderInv, DownInv, GenInv,
       CachesCurrent,
     vars, catalogVars, cacheVars, actorVars
<1>. QED
  BY <1>1, <1>2, <1>3, <1>4, <1>5, <1>6, <1>7, <1>8, <1>9, <1>10, <1>11, <1>12,
       <1>13, <1>14, <1>15, <1>16, <1>17, <1>18, <1>19, <1>20, <1>21, <1>22, <1>23,
       <1>24, <1>25, <1>26, <1>27, <1>28, <1>29, <1>30, <1>31, <1>32, <1>33, <1>34,
       <1>35, <1>36, <1>37, <1>38, <1>39, <1>40, <1>41, <1>42, <1>43, <1>44, <1>45,
       <1>46, <1>47, <1>48, <1>49, <1>50, <1>51
  DEF Next, Environment, Handle, Refresh, Rebuild, Read, Maintain, Actors

LEMMA InitDiscipline == Init => Discipline
<1>. SUFFICES ASSUME Init PROVE Discipline OBVIOUS
<1>1. LockInv /\ WriterInv /\ ReaderInv /\ DownInv
  BY CatalogConstants DEF Init, LockInv, Holding, WriterInv, ReaderInv, Inserting,
       DownInv, Actors
<1>2. GenInv BY DEF Init, GenInv, NoLocals
<1>3. CachesCurrent BY DEF Init, CachesCurrent, EmptyCache
<1>. QED BY <1>1, <1>2, <1>3 DEF Discipline

\* The read lock that with_current_index holds through an insertion, and the
\* write lock that replace_observed_index holds through publish, clear and
\* invalidate, keep every cached value at the published generation: no
\* interleaving of requests, refreshes, timeouts, worker rounds and crashes
\* lets an in-flight request repopulate a cache with what a refresh replaced.
THEOREM CachesStayCurrent == Spec => []CachesCurrent
<1>1. Init => TypeOK /\ Discipline BY InitType, InitDiscipline
<1>2. TypeOK /\ Discipline /\ [Next]_vars => (TypeOK /\ Discipline)'
  BY StepType, StepDiscipline
<1>3. Discipline => CachesCurrent BY DEF Discipline
<1>. QED BY <1>1, <1>2, <1>3, PTL DEF Spec

-----------------------------------------------------------------------------
(* Freshness: how old the catalogue, the caches and the answers may be.    *)

Building == {"load", "read", "backends", "recheck", "publish"}

\* Nothing the daemon keeps is newer than the databases.
DiskIsNewest ==
  /\ AtLeast(disk, index.lo) /\ AtLeast(disk, index.epoch)
  /\ AtLeast(disk, build.lo) /\ AtLeast(disk, build.hi) /\ AtLeast(disk, build.epoch)
  /\ \A a \in Actors : AtLeast(disk, loc[a].ver)
  /\ \A c \in Clients : AtLeast(disk, began[c])
  /\ \A s \in Subs : \A e \in cache[s] : AtLeast(disk, e.ver)

\* The published index was read after its observation and before the next one.
IndexSound ==
  /\ AtLeast(index.lo, index.epoch)
  /\ Backend = "arch" => index.lo = index.epoch /\ index.hi = index.epoch
  /\ Backend = "dnf" => index.lo.inst = index.epoch.inst /\ index.hi.inst = index.epoch.inst

\* While the daemon starts, nobody else observes.
StartSound == daemon = "loading" => build.lo = build.epoch

\* Outside the publication, caches and persisted status cover the index.
CachesCover ==
  (\A c \in Clients : pc[c] # "clear") =>
     \A s \in Subs : \A e \in cache[s] : Covers(e.ver, index.epoch)

PersistedCovers ==
  /\ daemon # "up" => \A t \in persisted : t.orphan
  /\ writer = Free => \A t \in persisted : t.orphan \/ Covers(t.ver, index.epoch)

\* What an actor is about to store covers the index it was read under.
StoresCovering(a) ==
  pc[a] \in {"fast", "scan", "guard"} \cup Inserting /\ loc[a].gen = index.gen
    => Covers(loc[a].ver, index.epoch)

\* A rebuild observed the databases after its request began and after the
\* index it replaces, and each check narrows what it read.
BuildSound(c) ==
  /\ pc[c] \in Building => AtLeast(build.epoch, began[c]) /\ AtLeast(build.epoch, index.epoch)
  /\ pc[c] \in Building \ {"load"} => AtLeast(build.lo, build.epoch)
                                      /\ (Backend = "dnf" => build.lo = build.epoch)
  /\ pc[c] \in Building \ {"load", "read"} =>
       AtLeast(build.hi, build.lo) /\ (Backend = "dnf" => build.hi.inst = build.epoch.inst)
  /\ pc[c] = "publish" /\ Backend = "arch" => build.lo = build.epoch /\ build.hi = build.epoch

\* What a refresh is going to answer.
RefreshSound(c) ==
  /\ pc[c] = "compare" => AtLeast(loc[c].ver, began[c])
  /\ pc[c] \in {"clear", "invalidate"} => AtLeast(index.epoch, began[c])
  /\ pc[c] = "record" => AtLeast(loc[c].ver, began[c])
  /\ pc[c] = "swap" /\ Backend # "apt" => AtLeast(index.lo, began[c])

\* A healed request finds only what covers the databases it began with.
ReadSound(c) ==
  Heals(kind[c]) =>
    /\ pc[c] \in {"lookup", "persistent", "snapshot"} => Covers(index.epoch, began[c])
    /\ pc[c] \in {"lookup", "persistent"} =>
         /\ \A s \in Subs : \A e \in cache[s] : Covers(e.ver, began[c])
         /\ \A t \in persisted : t.orphan \/ Covers(t.ver, began[c])
    /\ pc[c] \in {"guard"} \cup Inserting => Covers(loc[c].ver, began[c])

AnswerSound(c) ==
  /\ answer[c].via \in {"cache", "index", "live", "persisted"} /\ Heals(kind[c])
       => Covers(answer[c].ver, began[c])
  /\ answer[c].via = "rebuilt" => AtLeast(answer[c].ver, began[c])
  /\ answer[c].via = "debounced" /\ Backend # "apt" => AtLeast(answer[c].ver, began[c])

ClientSound(c) == BuildSound(c) /\ RefreshSound(c) /\ ReadSound(c) /\ AnswerSound(c)

Fresh ==
  /\ DiskIsNewest /\ IndexSound /\ StartSound /\ CachesCover /\ PersistedCovers
  /\ \A a \in Actors : StoresCovering(a)
  /\ \A c \in Clients : ClientSound(c)

\* Versions are ordered, and covering follows the order.
LEMMA VersionOrder ==
  /\ Zero \in Version
  /\ \A v \in Version : AtLeast(v, v) /\ AtLeast(v, Zero)
  /\ \A u, v, w \in Version : AtLeast(u, v) /\ AtLeast(v, w) => AtLeast(u, w)
  /\ \A u, v \in Version : AtLeast(u, v) /\ AtLeast(v, u) => u = v
  <1>1. Zero \in Version
    BY DEF Zero, Version
  <1>2. ASSUME NEW v \in Version PROVE AtLeast(v, v) /\ AtLeast(v, Zero)
    BY DEF AtLeast, Zero, Version
  <1>3. ASSUME NEW u \in Version, NEW v \in Version, NEW w \in Version,
               AtLeast(u, v), AtLeast(v, w)
        PROVE  AtLeast(u, w)
    BY <1>3 DEF AtLeast, Version
  <1>4. ASSUME NEW u \in Version, NEW v \in Version, AtLeast(u, v), AtLeast(v, u)
        PROVE  u = v
    <2>1. u.repo = v.repo /\ u.inst = v.inst
      BY <1>4 DEF AtLeast, Version
    <2> QED BY <2>1 DEF Version
  <1> QED BY <1>1, <1>2, <1>3, <1>4

LEMMA CoverOrder ==
  /\ \A u, v \in Version : AtLeast(u, v) => Covers(u, v)
  /\ \A u, v, w \in Version : Covers(u, v) /\ Covers(v, w) => Covers(u, w)
  /\ \A u, v \in Version : ~Differs(u, v) => Covers(v, u)
  <1>1. ASSUME NEW u \in Version, NEW v \in Version, AtLeast(u, v) PROVE Covers(u, v)
    BY <1>1 DEF AtLeast, Covers, Version
  <1>2. ASSUME NEW u \in Version, NEW v \in Version, NEW w \in Version,
               Covers(u, v), Covers(v, w)
        PROVE  Covers(u, w)
    BY <1>2 DEF AtLeast, Covers, Version
  <1>3. ASSUME NEW u \in Version, NEW v \in Version, ~Differs(u, v) PROVE Covers(v, u)
    BY <1>3 DEF Differs, AtLeast, Covers, Version
  <1> QED BY <1>1, <1>2, <1>3

\* The versions in a state that is type-correct.
LEMMA VersionTypes ==
  ASSUME TypeOK
  PROVE  /\ disk \in Version /\ index.lo \in Version /\ index.hi \in Version
         /\ index.epoch \in Version /\ index.gen \in Nat
         /\ build.lo \in Version /\ build.hi \in Version /\ build.epoch \in Version
         /\ \A a \in Actors : loc[a].ver \in Version /\ loc[a].gen \in Nat
         /\ \A c \in Clients : began[c] \in Version /\ answer[c].ver \in Version
         /\ \A s \in Subs : \A e \in cache[s] : e.ver \in Version
         /\ \A t \in persisted : t.ver \in Version
  <1>1. /\ disk \in Version /\ index.lo \in Version /\ index.hi \in Version
        /\ index.epoch \in Version /\ index.gen \in Nat
        /\ build.lo \in Version /\ build.hi \in Version /\ build.epoch \in Version
    BY DEF TypeOK, CatalogType, Published, Build
  <1>2. \A a \in Actors : loc[a].ver \in Version /\ loc[a].gen \in Nat
    BY DEF TypeOK, ActorType
  <1>3. \A c \in Clients : began[c] \in Version /\ answer[c].ver \in Version
    BY DEF TypeOK, ActorType
  <1>4. \A s \in Subs : \A e \in cache[s] : e.ver \in Version
    BY DEF TypeOK, StoreType, Entry
  <1>5. \A t \in persisted : t.ver \in Version
    BY DEF TypeOK, StoreType, Snapshot
  <1> QED BY <1>1, <1>2, <1>3, <1>4, <1>5

\* An actor whose own state does not change.
Same(a) ==
  /\ pc'[a] = pc[a] /\ kind'[a] = kind[a] /\ loc'[a] = loc[a]
  /\ a \in Clients => began'[a] = began[a] /\ answer'[a] = answer[a]

\* A step that leaves the databases and the index alone and stores nothing
\* that does not cover the index.
Steady ==
  /\ UNCHANGED <<disk, daemon, index, writer>>
  /\ \A s \in Subs : \A e \in cache'[s] :
       e \in cache[s] \/ (Covers(e.ver, index.epoch) /\ AtLeast(disk, e.ver))
  /\ \A t \in persisted' : t.orphan \/ t \in persisted \/ Covers(t.ver, index.epoch)

\* Who does nothing in a steady step stays sound.
LEMMA Bystander ==
  ASSUME TypeOK, TypeOK', Fresh, NEW a \in Actors, Same(a), Steady,
         a \in Clients /\ pc[a] \in Building => build' = build
  PROVE  StoresCovering(a)' /\ (a \in Clients => ClientSound(a)')
  <1>1. StoresCovering(a)'
    BY DEF Fresh, StoresCovering, Same, Steady
  <1>2. ASSUME a \in Clients PROVE ClientSound(a)'
    <2>0. /\ BuildSound(a) /\ RefreshSound(a) /\ ReadSound(a) /\ AnswerSound(a)
          /\ index' = index
      BY <1>2 DEF Fresh, ClientSound, Steady
    <2>1. BuildSound(a)'
      BY <1>2, <2>0 DEF BuildSound, Same, Building
    <2>2. RefreshSound(a)'
      BY <1>2, <2>0 DEF RefreshSound, Same
    <2>3. ReadSound(a)'
      <3> SUFFICES ASSUME Heals(kind[a])
                   PROVE  /\ pc[a] \in {"lookup", "persistent", "snapshot"} =>
                               Covers(index.epoch, began[a])
                          /\ pc[a] \in {"lookup", "persistent"} =>
                               /\ \A s \in Subs : \A e \in cache'[s] : Covers(e.ver, began[a])
                               /\ \A t \in persisted' : t.orphan \/ Covers(t.ver, began[a])
                          /\ pc[a] \in {"guard"} \cup Inserting => Covers(loc[a].ver, began[a])
        BY <1>2, <2>0 DEF ReadSound, Same, Heals
      <3>1. ASSUME pc[a] \in {"lookup", "persistent"}, NEW s \in Subs, NEW e \in cache'[s]
            PROVE  Covers(e.ver, began[a])
        <4>1. e.ver \in Version
          BY DEF TypeOK, StoreType, Entry
        <4>2. Covers(index.epoch, began[a])
          BY <2>0, <3>1 DEF ReadSound
        <4>3. CASE e \in cache[s]
          BY <2>0, <3>1, <4>3 DEF ReadSound
        <4>4. CASE Covers(e.ver, index.epoch)
          BY <1>2, <4>1, <4>2, <4>4, VersionTypes, CoverOrder
        <4> QED BY <4>3, <4>4 DEF Steady
      <3>2. ASSUME pc[a] \in {"lookup", "persistent"}, NEW t \in persisted'
            PROVE  t.orphan \/ Covers(t.ver, began[a])
        <4>1. t.ver \in Version
          BY DEF TypeOK, StoreType, Snapshot
        <4>2. Covers(index.epoch, began[a])
          BY <2>0, <3>2 DEF ReadSound
        <4>3. CASE t \in persisted
          BY <2>0, <3>2, <4>3 DEF ReadSound
        <4>4. CASE Covers(t.ver, index.epoch)
          BY <1>2, <4>1, <4>2, <4>4, VersionTypes, CoverOrder
        <4> QED BY <4>3, <4>4 DEF Steady
      <3> QED BY <2>0, <3>1, <3>2 DEF ReadSound
    <2>4. AnswerSound(a)'
      BY <1>2, <2>0 DEF AnswerSound, Same, Heals
    <2> QED BY <2>1, <2>2, <2>3, <2>4 DEF ClientSound
  <1> QED BY <1>1, <1>2

\* One actor moves in a steady step: what it has to show for itself.
LEMMA ActorStep ==
  ASSUME TypeOK, TypeOK', Discipline, Fresh, NEW a \in Actors,
         \A b \in Actors : b # a => Same(b),
         Steady, daemon = "up", pc[a] # "clear",
         \/ build' = build
         \/ /\ \A c \in Clients : c # a => pc[c] \notin Building
            /\ AtLeast(disk, build'.lo) /\ AtLeast(disk, build'.hi) /\ AtLeast(disk, build'.epoch),
         AtLeast(disk, loc'[a].ver), a \in Clients => AtLeast(disk, began'[a]),
         StoresCovering(a)', a \in Clients => ClientSound(a)'
  PROVE  Fresh'
  <1>0. /\ disk' = disk /\ daemon' = daemon /\ index' = index /\ writer' = writer
        /\ DiskIsNewest /\ IndexSound /\ StartSound /\ CachesCover /\ PersistedCovers
    BY DEF Fresh, Steady
  <1>1. DiskIsNewest'
    <2>1. \A b \in Actors : AtLeast(disk, loc'[b].ver)
      BY <1>0 DEF DiskIsNewest, Same
    <2>2. \A c \in Clients : AtLeast(disk, began'[c])
      BY <1>0 DEF DiskIsNewest, Same, Actors
    <2>3. \A s \in Subs : \A e \in cache'[s] : AtLeast(disk, e.ver)
      BY <1>0 DEF DiskIsNewest, Steady
    <2>4. AtLeast(disk, build'.lo) /\ AtLeast(disk, build'.hi) /\ AtLeast(disk, build'.epoch)
      BY <1>0 DEF DiskIsNewest
    <2> QED BY <1>0, <2>1, <2>2, <2>3, <2>4 DEF DiskIsNewest
  <1>2. IndexSound' /\ StartSound'
    BY <1>0 DEF IndexSound, StartSound
  <1>3. CachesCover'
    BY <1>0 DEF CachesCover, Steady, Same, Actors
  <1>4. PersistedCovers'
    BY <1>0 DEF PersistedCovers, Steady
  <1>5. ASSUME NEW b \in Actors PROVE StoresCovering(b)' /\ (b \in Clients => ClientSound(b)')
    <2>1. CASE b = a
      BY <2>1
    <2>2. CASE b # a
      BY <2>2, Bystander
    <2> QED BY <2>1, <2>2
  <1> QED BY <1>1, <1>2, <1>3, <1>4, <1>5 DEF Fresh, Actors

\* An actor at work is one of a daemon that serves.
LEMMA AtWork ==
  ASSUME Discipline, NEW a \in Actors, pc[a] # "idle"
  PROVE  daemon = "up"
  BY DEF Discipline, DownInv

\* Only the holder of refresh_lock builds.
LEMMA OneBuilder ==
  ASSUME Discipline, NEW c \in Clients, pc[c] \in Holding, NEW d \in Clients, d # c
  PROVE  pc[d] \notin Holding
  BY DEF Discipline, LockInv

LEMMA OneHolder ==
  ASSUME Discipline, NEW c \in Clients, refreshLock = c, NEW d \in Clients, d # c
  PROVE  pc[d] \notin Holding
  BY DEF Discipline, LockInv

\* An actor moves on without an answer.
LEMMA MoveStep ==
  ASSUME TypeOK, TypeOK', Discipline, Fresh, NEW a \in Actors, NEW p, NEW l,
         pc' = [pc EXCEPT ![a] = p], loc' = [loc EXCEPT ![a] = l],
         UNCHANGED <<kind, began, answer>>, Steady, pc[a] \notin {"idle", "clear"},
         AtLeast(disk, l.ver),
         \/ build' = build
         \/ /\ a \in Clients /\ pc[a] \in Holding
            /\ AtLeast(disk, build'.lo) /\ AtLeast(disk, build'.hi) /\ AtLeast(disk, build'.epoch),
         StoresCovering(a)',
         a \in Clients => BuildSound(a)' /\ RefreshSound(a)' /\ ReadSound(a)'
  PROVE  Fresh'
  <1>1. /\ pc'[a] = p /\ loc'[a] = l
        /\ \A b \in Actors : b # a => pc'[b] = pc[b] /\ loc'[b] = loc[b]
    BY DEF TypeOK, ActorType
  <1>2. \A b \in Actors : b # a => Same(b)
    BY <1>1 DEF Same
  <1>3. daemon = "up"
    BY AtWork
  <1>4. a \in Clients => AnswerSound(a)'
    BY DEF Fresh, ClientSound, AnswerSound, Heals
  <1>5. a \in Clients => ClientSound(a)'
    BY <1>4 DEF ClientSound
  <1>6. a \in Clients => AtLeast(disk, began'[a])
    BY DEF Fresh, DiskIsNewest
  <1>7. \/ build' = build
        \/ /\ \A c \in Clients : c # a => pc[c] \notin Building
           /\ AtLeast(disk, build'.lo) /\ AtLeast(disk, build'.hi) /\ AtLeast(disk, build'.epoch)
    <2>1. Building \subseteq Holding
      BY DEF Building, Holding
    <2> QED BY <2>1, OneBuilder
  <1>8. AtLeast(disk, loc'[a].ver)
    BY <1>1
  <1> QED BY <1>2, <1>3, <1>5, <1>6, <1>7, <1>8, ActorStep

\* The answer v is as new as what it says of itself.
Truthful(a, v, via) ==
  a \in Clients =>
    /\ via \in {"cache", "index", "live", "persisted"} /\ Heals(kind[a]) => Covers(v, began[a])
    /\ via = "rebuilt" => AtLeast(v, began[a])
    /\ via = "debounced" /\ Backend # "apt" => AtLeast(v, began[a])

\* An actor ends its request.
LEMMA FinishStep ==
  ASSUME TypeOK, TypeOK', Discipline, Fresh, NEW a \in Actors, NEW v, NEW via,
         Finish(a, v, via), Steady, pc[a] \notin {"idle", "clear"},
         build' = build \/ (a \in Clients /\ refreshLock = a /\ build' = NoBuild),
         Truthful(a, v, via)
  PROVE  Fresh'
  <1>1. /\ pc'[a] \in {"idle", "snapshot"} /\ (a \in Clients => pc'[a] = "idle")
        /\ loc'[a] = NoLocals /\ began' = began
        /\ \A b \in Actors : b # a => pc'[b] = pc[b] /\ loc'[b] = loc[b] /\ kind'[b] = kind[b]
    BY CatalogConstants DEF TypeOK, ActorType, Finish, Goto, Actors
  <1>2. ASSUME a \in Clients
        PROVE  /\ kind'[a] = kind[a] /\ answer'[a].ver = v /\ answer'[a].via = via
               /\ \A c \in Clients : c # a => answer'[c] = answer[c]
    BY <1>2, CatalogConstants DEF TypeOK, ActorType, Finish
  <1>3. a \notin Clients => answer' = answer
    BY DEF Finish, Actors
  <1>4. \A b \in Actors : b # a => Same(b)
    BY <1>1, <1>2, <1>3 DEF Same
  <1>5. daemon = "up"
    BY AtWork
  <1>6. StoresCovering(a)'
    BY <1>1 DEF StoresCovering, Inserting
  <1>7. ASSUME a \in Clients PROVE ClientSound(a)'
    <2>1. BuildSound(a)' /\ RefreshSound(a)'
      BY <1>1, <1>7 DEF BuildSound, RefreshSound, Building
    <2>2. ReadSound(a)'
      BY <1>1, <1>7 DEF ReadSound, Inserting
    <2>3. AnswerSound(a)'
      BY <1>1, <1>2, <1>7 DEF AnswerSound, Heals, Truthful
    <2> QED BY <2>1, <2>2, <2>3 DEF ClientSound
  <1>8. AtLeast(disk, loc'[a].ver)
    BY <1>1, VersionTypes, VersionOrder DEF NoLocals
  <1>9. a \in Clients => AtLeast(disk, began'[a])
    BY <1>1 DEF Fresh, DiskIsNewest
  <1>10. \/ build' = build
         \/ /\ \A c \in Clients : c # a => pc[c] \notin Building
            /\ AtLeast(disk, build'.lo) /\ AtLeast(disk, build'.hi) /\ AtLeast(disk, build'.epoch)
    <2>1. Building \subseteq Holding
      BY DEF Building, Holding
    <2>2. NoBuild.lo = Zero /\ NoBuild.hi = Zero /\ NoBuild.epoch = Zero
      BY DEF NoBuild
    <2> QED BY <2>1, <2>2, OneHolder, VersionTypes, VersionOrder
  <1> QED BY <1>4, <1>5, <1>6, <1>7, <1>8, <1>9, <1>10, ActorStep

\* A step that changes neither caches nor databases is steady.
LEMMA QuietIsSteady ==
  ASSUME UNCHANGED <<disk, daemon, index, writer, cache, persisted>>
  PROVE  Steady
  <1>1. \A s \in Subs : \A e \in cache'[s] : e \in cache[s]
    OBVIOUS
  <1>2. \A t \in persisted' : t \in persisted
    OBVIOUS
  <1>3. disk' = disk /\ daemon' = daemon /\ index' = index /\ writer' = writer
    OBVIOUS
  <1> QED BY <1>1, <1>2, <1>3 DEF Steady

\* Nobody is in the middle of a publication while the write lock is free.
LEMMA NobodyClears ==
  ASSUME Discipline, writer = Free, NEW c \in Clients
  PROVE  pc[c] \notin {"clear", "invalidate"}
  BY CatalogConstants DEF Discipline, WriterInv, Actors

\* Locals that are replaced as a whole.
LEMMA WholeLocals ==
  ASSUME TypeOK, NEW a \in Actors
  PROVE  /\ loc = [loc EXCEPT ![a] = loc[a]]
         /\ \A v : [loc EXCEPT ![a].ver = v] = [loc EXCEPT ![a] = [loc[a] EXCEPT !.ver = v]]
         /\ \A n : [loc EXCEPT ![a].gen = n] = [loc EXCEPT ![a] = [loc[a] EXCEPT !.gen = n]]
         /\ \A v : [loc[a] EXCEPT !.ver = v].ver = v /\ [loc[a] EXCEPT !.ver = v].gen = loc[a].gen
         /\ \A n : [loc[a] EXCEPT !.gen = n].ver = loc[a].ver
  BY DEF TypeOK, ActorType

\* How a request heals the index, up to the rebuild.
LEMMA HealStep ==
  ASSUME TypeOK, TypeOK', Discipline, Fresh, NEW c \in Clients,
         \/ \E k \in Kinds : Begin(c, k)
         \/ Observe(c) \/ Compare(c) \/ Lock(c) \/ ObserveGeneration(c) \/ Coalesce(c)
         \/ Decide(c) \/ Debounced(c) \/ RecordCompletion(c)
  PROVE  Fresh'
  <1>0. /\ c \in Actors /\ c # Worker
        /\ AtLeast(disk, loc[c].ver) /\ AtLeast(disk, began[c]) /\ AtLeast(disk, index.epoch)
        /\ ClientSound(c) /\ IndexSound /\ CachesCover /\ PersistedCovers
    BY CatalogConstants DEF Actors, Fresh, DiskIsNewest
  <1>t. /\ disk \in Version /\ index.epoch \in Version /\ index.lo \in Version
        /\ loc[c].ver \in Version /\ began[c] \in Version
    BY <1>0, VersionTypes
  <1>1. ASSUME NEW k \in Kinds, Begin(c, k) PROVE Fresh'
    <2>1. /\ Steady /\ daemon = "up" /\ build' = build /\ loc' = loc /\ pc[c] = "idle"
      BY <1>1, QuietIsSteady DEF Begin, catalogVars, cacheVars
    <2>2. /\ kind'[c] = k /\ began'[c] = disk /\ answer'[c] = NoAnswer
          /\ pc'[c] \in {"generation", "observe", "lookup"}
          /\ pc'[c] = "lookup" => ~Heals(k)
      BY <1>0, <1>1 DEF Begin, Goto, TypeOK, ActorType
    <2>3. \A b \in Actors : b # c => Same(b)
      BY <1>0, <1>1 DEF Begin, Goto, TypeOK, ActorType, Same
    <2>4. StoresCovering(c)'
      BY <2>2 DEF StoresCovering, Inserting
    <2>5. BuildSound(c)' /\ RefreshSound(c)'
      BY <2>2 DEF BuildSound, RefreshSound, Building
    <2>6. ReadSound(c)'
      BY <2>2 DEF ReadSound, Inserting, Heals
    <2>7. AnswerSound(c)'
      BY <2>2 DEF AnswerSound, NoAnswer
    <2>8. ClientSound(c)'
      BY <2>5, <2>6, <2>7 DEF ClientSound
    <2>9. AtLeast(disk, loc'[c].ver) /\ AtLeast(disk, began'[c]) /\ pc[c] # "clear"
      BY <1>0, <1>t, <2>1, <2>2, VersionOrder
    <2> QED BY <1>0, <2>1, <2>3, <2>4, <2>8, <2>9, ActorStep
  <1>2. ASSUME Observe(c) PROVE Fresh'
    <2> DEFINE l == [loc[c] EXCEPT !.ver = disk]
    <2>1. /\ Steady /\ build' = build /\ UNCHANGED <<kind, began, answer>>
          /\ pc[c] = "observe" /\ pc' = [pc EXCEPT ![c] = "compare"]
          /\ loc' = [loc EXCEPT ![c].ver = disk]
      BY <1>2, QuietIsSteady DEF Observe, Goto, catalogVars, cacheVars
    <2>2. loc' = [loc EXCEPT ![c] = l] /\ l.ver = disk
      BY <1>0, <2>1, WholeLocals
    <2>3. pc'[c] = "compare" /\ loc'[c].ver = disk
      BY <1>0, <2>1, <2>2 DEF TypeOK, ActorType
    <2>4. StoresCovering(c)' /\ BuildSound(c)' /\ ReadSound(c)'
      BY <2>3 DEF StoresCovering, BuildSound, ReadSound, Building, Inserting
    <2>5. RefreshSound(c)'
      BY <1>0, <2>1, <2>3 DEF RefreshSound
    <2>6. AtLeast(disk, l.ver) /\ pc[c] \notin {"idle", "clear"}
      BY <1>t, <2>1, <2>2, VersionOrder
    <2> HIDE DEF l
    <2> QED BY <1>0, <2>1, <2>2, <2>4, <2>5, <2>6, MoveStep
  <1>3. ASSUME Compare(c) PROVE Fresh'
    <2>1. /\ Steady /\ build' = build /\ UNCHANGED <<kind, began, answer, cache, persisted, index>>
          /\ pc[c] = "compare" /\ writer = Free /\ loc' = [loc EXCEPT ![c] = NoLocals]
      BY <1>3, QuietIsSteady DEF Compare, cacheVars
    <2>s. PICK stale \in Stale(c) :
            pc' = [pc EXCEPT ![c] = IF ~stale THEN "lookup"
                                    ELSE IF refreshLock = c THEN "epoch" ELSE "lock"]
      BY <1>3 DEF Compare, Goto
    <2>d. ~stale => ~Differs(loc[c].ver, index.epoch)
      BY <2>s, Zenon DEF Stale
    <2>p. PICK p : p = IF ~stale THEN "lookup" ELSE IF refreshLock = c THEN "epoch" ELSE "lock"
      OBVIOUS
    <2>2. /\ pc' = [pc EXCEPT ![c] = p] /\ p \in {"lookup", "epoch", "lock"}
          /\ p = "lookup" => ~Differs(loc[c].ver, index.epoch)
      BY <2>s, <2>d, <2>p
    <2>3. pc'[c] = p
      BY <1>0, <2>2 DEF TypeOK, ActorType
    <2>4. StoresCovering(c)' /\ BuildSound(c)' /\ RefreshSound(c)'
      BY <2>2, <2>3 DEF StoresCovering, BuildSound, RefreshSound, Building,
         Inserting
    <2>5. ReadSound(c)'
      <3>1. CASE p # "lookup"
        BY <2>2, <2>3, <3>1 DEF ReadSound, Inserting
      <3>2. CASE p = "lookup"
        <4>1. AtLeast(loc[c].ver, began[c])
          BY <1>0, <2>1 DEF ClientSound, RefreshSound
        <4>2. Covers(index.epoch, loc[c].ver) /\ Covers(loc[c].ver, began[c])
          BY <1>t, <2>2, <3>2, <4>1, CoverOrder
        <4>3. Covers(index.epoch, began[c])
          BY <1>t, <4>2, CoverOrder
        <4>4. \A s \in Subs : \A e \in cache[s] : Covers(e.ver, index.epoch)
          BY <1>0, <2>1, NobodyClears DEF CachesCover
        <4>5. \A s \in Subs : \A e \in cache[s] : Covers(e.ver, began[c])
          BY <1>t, <4>3, <4>4, VersionTypes, CoverOrder
        <4>6. \A t \in persisted : t.orphan \/ Covers(t.ver, index.epoch)
          BY <1>0, <2>1 DEF PersistedCovers
        <4>7. \A t \in persisted : t.orphan \/ Covers(t.ver, began[c])
          BY <1>t, <4>3, <4>6, VersionTypes, CoverOrder
        <4> QED BY <2>1, <2>3, <3>2, <4>3, <4>5, <4>7 DEF ReadSound, Inserting
      <3> QED BY <3>1, <3>2
    <2>6. AtLeast(disk, NoLocals.ver) /\ pc[c] \notin {"idle", "clear"}
      BY <1>t, <2>1, VersionOrder DEF NoLocals
    <2> QED BY <1>0, <2>1, <2>2, <2>4, <2>5, <2>6, MoveStep
  <1>4. ASSUME Lock(c) PROVE Fresh'
    <2>1. /\ Steady /\ build' = build /\ UNCHANGED <<kind, began, answer>>
          /\ pc[c] = "lock" /\ loc' = loc
      BY <1>4, QuietIsSteady DEF Lock, cacheVars
    <2>2. PICK p : pc' = [pc EXCEPT ![c] = p] /\ p \in {"decide", "observe"}
      BY <1>4 DEF Lock, Goto
    <2>3. pc'[c] = p /\ loc' = [loc EXCEPT ![c] = loc[c]]
      BY <1>0, <2>1, <2>2, WholeLocals DEF TypeOK, ActorType
    <2>4. StoresCovering(c)' /\ BuildSound(c)' /\ RefreshSound(c)' /\ ReadSound(c)'
      BY <2>2, <2>3
      DEF StoresCovering, BuildSound, RefreshSound, ReadSound, Building, Inserting
    <2> QED BY <1>0, <2>1, <2>2, <2>3, <2>4, MoveStep
  <1>5. ASSUME ObserveGeneration(c) PROVE Fresh'
    <2> DEFINE l == [loc[c] EXCEPT !.gen = index.gen]
    <2>1. /\ Steady /\ build' = build /\ UNCHANGED <<kind, began, answer>>
          /\ pc[c] = "generation" /\ pc' = [pc EXCEPT ![c] = "lock"]
          /\ loc' = [loc EXCEPT ![c].gen = index.gen]
      BY <1>5, QuietIsSteady DEF ObserveGeneration, Goto, catalogVars,
         cacheVars
    <2>2. loc' = [loc EXCEPT ![c] = l] /\ l.ver = loc[c].ver
      BY <1>0, <2>1, WholeLocals
    <2>3. pc'[c] = "lock"
      BY <1>0, <2>1 DEF TypeOK, ActorType
    <2>4. StoresCovering(c)' /\ BuildSound(c)' /\ RefreshSound(c)' /\ ReadSound(c)'
      BY <2>3
      DEF StoresCovering, BuildSound, RefreshSound, ReadSound, Building, Inserting
    <2>5. AtLeast(disk, l.ver) /\ pc[c] \notin {"idle", "clear"}
      BY <1>0, <2>1, <2>2
    <2> HIDE DEF l
    <2> QED BY <1>0, <2>1, <2>2, <2>4, <2>5, MoveStep
  <1>6. ASSUME Coalesce(c) PROVE Fresh'
    <2>1. /\ Steady /\ build' = build /\ pc[c] = "decide" /\ Finish(c, index.lo, "coalesced")
      BY <1>6, QuietIsSteady DEF Coalesce, cacheVars
    <2>2. Truthful(c, index.lo, "coalesced")
      BY DEF Truthful
    <2> QED BY <1>0, <2>1, <2>2, FinishStep
  <1>7. ASSUME Decide(c) PROVE Fresh'
    <2>1. /\ Steady /\ build' = build /\ UNCHANGED <<kind, began, answer, index>>
          /\ pc[c] = "decide" /\ loc' = loc
      BY <1>7, QuietIsSteady DEF Decide, catalogVars, cacheVars
    <2>p. PICK p \in {"swap", "epoch"} : pc' = [pc EXCEPT ![c] = p] /\ (p = "swap" => ShouldSkip)
      BY <1>7 DEF Decide, Goto
    <2>2. pc' = [pc EXCEPT ![c] = p] /\ p \in {"swap", "epoch"} /\ (p = "swap" => ShouldSkip)
      BY <2>p
    <2>3. pc'[c] = p /\ loc' = [loc EXCEPT ![c] = loc[c]]
      BY <1>0, <2>1, <2>2, WholeLocals DEF TypeOK, ActorType
    <2>4. StoresCovering(c)' /\ BuildSound(c)' /\ ReadSound(c)'
      BY <2>2, <2>3 DEF StoresCovering, BuildSound, ReadSound, Building,
         Inserting
    <2>5. RefreshSound(c)'
      <3>1. CASE p = "swap" /\ Backend # "apt"
        <4>1. Backend = "arch"
          BY <2>2, <3>1, CatalogConstants DEF ShouldSkip
        <4>2. disk = index.epoch
          BY <2>2, <3>1, <4>1 DEF ShouldSkip, Differs
        <4>3. index.lo = index.epoch
          BY <1>0, <4>1 DEF IndexSound
        <4>4. AtLeast(index.lo, began[c])
          BY <1>0, <4>2, <4>3
        <4> QED BY <2>1, <2>3, <3>1, <4>4 DEF RefreshSound
      <3>2. CASE p = "epoch" \/ Backend = "apt"
        BY <2>2, <2>3, <3>2 DEF RefreshSound
      <3> QED BY <2>2, <3>1, <3>2
    <2> QED BY <1>0, <2>1, <2>2, <2>3, <2>4, <2>5, MoveStep
  <1>8. ASSUME Debounced(c) PROVE Fresh'
    <2>1. /\ Steady /\ build' = build /\ pc[c] = "swap" /\ Finish(c, index.lo, "debounced")
      BY <1>8, QuietIsSteady DEF Debounced, cacheVars
    <2>2. Truthful(c, index.lo, "debounced")
      BY <1>0, <2>1 DEF ClientSound, RefreshSound, Truthful
    <2> QED BY <1>0, <2>1, <2>2, FinishStep
  <1>9. ASSUME RecordCompletion(c) PROVE Fresh'
    <2>1. /\ Steady /\ build' = build /\ pc[c] = "record" /\ Finish(c, loc[c].ver, "rebuilt")
      BY <1>9, QuietIsSteady DEF RecordCompletion, cacheVars
    <2>2. Truthful(c, loc[c].ver, "rebuilt")
      BY <1>0, <2>1 DEF ClientSound, RefreshSound, Truthful
    <2> QED BY <1>0, <2>1, <2>2, FinishStep
  <1> QED BY <1>1, <1>2, <1>3, <1>4, <1>5, <1>6, <1>7, <1>8, <1>9

\* A step of the rebuild that stays within refresh_lock.
LEMMA BuildMove ==
  ASSUME TypeOK, TypeOK', Discipline, Fresh, NEW c \in Clients, NEW p \in Building,
         pc[c] \in Holding \ {"clear"}, pc' = [pc EXCEPT ![c] = p],
         UNCHANGED <<disk, daemon, index, writer, cache, persisted, kind, loc, began, answer>>,
         AtLeast(disk, build'.lo), AtLeast(disk, build'.hi), AtLeast(disk, build'.epoch),
         BuildSound(c)'
  PROVE  Fresh'
  <1>1. c \in Actors /\ Steady
    BY QuietIsSteady DEF Actors
  <1>2. pc'[c] = p /\ loc' = [loc EXCEPT ![c] = loc[c]]
    BY <1>1, WholeLocals DEF TypeOK, ActorType
  <1>3. StoresCovering(c)' /\ RefreshSound(c)' /\ ReadSound(c)'
    BY <1>2 DEF StoresCovering, RefreshSound, ReadSound, Building, Inserting
  <1>4. AtLeast(disk, loc[c].ver)
    BY <1>1 DEF Fresh, DiskIsNewest
  <1>5. pc[c] \notin {"idle", "clear"}
    BY DEF Holding
  <1>6. UNCHANGED <<kind, began, answer>>
    OBVIOUS
  <1> QED BY <1>1, <1>2, <1>3, <1>4, <1>5, <1>6, MoveStep

\* rebuild_production_index up to the publication.
LEMMA RebuildStep ==
  ASSUME TypeOK, TypeOK', Discipline, Fresh, NEW c \in Clients,
         \/ ObserveEpoch(c) \/ LoadStart(c) \/ LoadEnd(c) \/ LoadRetry(c)
         \/ SwapBackends(c) \/ Recheck(c) \/ BuildFails(c)
  PROVE  Fresh'
  <1>0. /\ c \in Actors /\ BuildSound(c) /\ DiskIsNewest
        /\ AtLeast(disk, began[c]) /\ AtLeast(disk, index.epoch)
        /\ AtLeast(disk, build.lo) /\ AtLeast(disk, build.hi) /\ AtLeast(disk, build.epoch)
    BY DEF Actors, Fresh, DiskIsNewest, ClientSound
  <1>t. /\ disk \in Version /\ index.epoch \in Version /\ began[c] \in Version
        /\ build.lo \in Version /\ build.hi \in Version /\ build.epoch \in Version
        /\ build \in Build /\ AtLeast(disk, disk) /\ AtLeast(disk, Zero)
    BY <1>0, VersionTypes, VersionOrder DEF TypeOK, CatalogType
  <1>1. ASSUME ObserveEpoch(c) PROVE Fresh'
    <2>1. /\ UNCHANGED <<disk, daemon, index, writer, cache, persisted, kind, loc, began, answer>>
          /\ pc[c] \in Holding \ {"clear"} /\ pc' = [pc EXCEPT ![c] = "load"]
          /\ build' = [NoBuild EXCEPT !.epoch = disk]
      BY <1>1 DEF ObserveEpoch, Goto, cacheVars, Holding
    <2>2. build'.lo = Zero /\ build'.hi = Zero /\ build'.epoch = disk
      BY <2>1 DEF NoBuild
    <2>3. pc'[c] = "load"
      BY <1>0, <2>1 DEF TypeOK, ActorType
    <2>4. BuildSound(c)'
      BY <1>0, <2>1, <2>2, <2>3 DEF BuildSound, Building
    <2>5. "load" \in Building
      BY DEF Building
    <2> QED BY <1>t, <2>1, <2>2, <2>4, <2>5, BuildMove
  <1>2. ASSUME LoadStart(c) PROVE Fresh'
    <2>1. /\ UNCHANGED <<disk, daemon, index, writer, cache, persisted, kind, loc, began, answer>>
          /\ pc[c] = "load" /\ pc[c] \in Holding \ {"clear"} /\ pc' = [pc EXCEPT ![c] = "read"]
          /\ build' = [build EXCEPT !.lo = disk, !.epoch = IF Backend = "dnf" THEN disk ELSE @]
      BY <1>2 DEF LoadStart, Goto, cacheVars, Holding
    <2>2. /\ build'.lo = disk /\ build'.hi = build.hi
          /\ build'.epoch = IF Backend = "dnf" THEN disk ELSE build.epoch
      BY <1>t, <2>1 DEF Build
    <2>3. pc'[c] = "read"
      BY <1>0, <2>1 DEF TypeOK, ActorType
    <2>4. AtLeast(build.epoch, began[c]) /\ AtLeast(build.epoch, index.epoch)
      BY <1>0, <2>1 DEF BuildSound, Building
    <2>5. /\ AtLeast(build'.epoch, began[c]) /\ AtLeast(build'.epoch, index.epoch)
          /\ AtLeast(build'.lo, build'.epoch) /\ (Backend = "dnf" => build'.lo = build'.epoch)
          /\ AtLeast(disk, build'.epoch)
      BY <1>0, <1>t, <2>2, <2>4
    <2>6. BuildSound(c)'
      BY <2>1, <2>3, <2>5 DEF BuildSound, Building
    <2>7. "read" \in Building
      BY DEF Building
    <2> QED BY <1>0, <1>t, <2>1, <2>2, <2>5, <2>6, <2>7, BuildMove
  <1>3. ASSUME LoadEnd(c) PROVE Fresh'
    <2>1. /\ UNCHANGED <<disk, daemon, index, writer, cache, persisted, kind, loc, began, answer>>
          /\ pc[c] = "read" /\ pc[c] \in Holding \ {"clear"} /\ pc' = [pc EXCEPT ![c] = "backends"]
          /\ build' = [build EXCEPT !.hi = disk]
          /\ Backend = "dnf" => ~Differs(disk, build.epoch)
      BY <1>3 DEF LoadEnd, Goto, cacheVars, Holding
    <2>2. build'.lo = build.lo /\ build'.hi = disk /\ build'.epoch = build.epoch
      BY <1>t, <2>1 DEF Build
    <2>3. pc'[c] = "backends"
      BY <1>0, <2>1 DEF TypeOK, ActorType
    <2>4. Backend = "dnf" => disk.inst = build.epoch.inst
      BY <2>1 DEF Differs
    <2>5. /\ AtLeast(build.epoch, began[c]) /\ AtLeast(build.epoch, index.epoch)
          /\ AtLeast(build.lo, build.epoch) /\ (Backend = "dnf" => build.lo = build.epoch)
      BY <1>0, <2>1 DEF BuildSound, Building
    <2>6. BuildSound(c)'
      BY <1>0, <2>1, <2>2, <2>3, <2>4, <2>5 DEF BuildSound, Building
    <2>7. "backends" \in Building
      BY DEF Building
    <2> QED BY <1>0, <1>t, <2>1, <2>2, <2>6, <2>7, BuildMove
  <1>4. ASSUME LoadRetry(c) PROVE Fresh'
    <2>1. /\ UNCHANGED <<disk, daemon, index, writer, cache, persisted, kind, loc, began, answer>>
          /\ pc[c] = "read" /\ pc[c] \in Holding \ {"clear"} /\ pc' = [pc EXCEPT ![c] = "load"]
          /\ build' = [build EXCEPT !.tries = @ + 1]
      BY <1>4 DEF LoadRetry, Goto, cacheVars, Holding
    <2>2. build'.lo = build.lo /\ build'.hi = build.hi /\ build'.epoch = build.epoch
      BY <1>t, <2>1 DEF Build
    <2>3. pc'[c] = "load"
      BY <1>0, <2>1 DEF TypeOK, ActorType
    <2>4. AtLeast(build.epoch, began[c]) /\ AtLeast(build.epoch, index.epoch)
      BY <1>0, <2>1 DEF BuildSound, Building
    <2>5. BuildSound(c)'
      BY <2>1, <2>2, <2>3, <2>4 DEF BuildSound, Building
    <2>6. "load" \in Building
      BY DEF Building
    <2> QED BY <1>0, <2>1, <2>2, <2>5, <2>6, BuildMove
  <1>5. ASSUME SwapBackends(c) PROVE Fresh'
    <2>1. /\ UNCHANGED <<disk, daemon, index, writer, cache, persisted, kind, loc, began, answer>>
          /\ pc[c] = "backends" /\ pc[c] \in Holding \ {"clear"}
          /\ pc' = [pc EXCEPT ![c] = "recheck"] /\ build' = build
      BY <1>5 DEF SwapBackends, Goto, catalogVars, cacheVars, Holding
    <2>2. pc'[c] = "recheck"
      BY <1>0, <2>1 DEF TypeOK, ActorType
    <2>3. BuildSound(c)'
      BY <1>0, <2>1, <2>2 DEF BuildSound, Building
    <2>4. "recheck" \in Building
      BY DEF Building
    <2> QED BY <1>0, <2>1, <2>3, <2>4, BuildMove
  <1>6. ASSUME Recheck(c) PROVE Fresh'
    <2>1. /\ UNCHANGED <<disk, daemon, index, writer, cache, persisted, kind, loc, began, answer>>
          /\ pc[c] = "recheck" /\ pc[c] \in Holding \ {"clear"}
          /\ pc' = [pc EXCEPT ![c] = "publish"] /\ build' = build
          /\ ~Differs(disk, build.epoch)
      BY <1>6 DEF Recheck, Goto, catalogVars, cacheVars, Holding
    <2>2. pc'[c] = "publish"
      BY <1>0, <2>1 DEF TypeOK, ActorType
    <2>3. /\ AtLeast(build.epoch, began[c]) /\ AtLeast(build.epoch, index.epoch)
          /\ AtLeast(build.lo, build.epoch) /\ (Backend = "dnf" => build.lo = build.epoch)
          /\ AtLeast(build.hi, build.lo)
          /\ (Backend = "dnf" => build.hi.inst = build.epoch.inst)
      BY <1>0, <2>1 DEF BuildSound, Building
    <2>4. Backend = "arch" => build.lo = build.epoch /\ build.hi = build.epoch
      <3> SUFFICES ASSUME Backend = "arch" PROVE build.lo = build.epoch /\ build.hi = build.epoch
        OBVIOUS
      <3>1. disk = build.epoch
        BY <2>1 DEF Differs
      <3>2. build.lo = build.epoch
        BY <1>0, <1>t, <2>3, <3>1, VersionOrder
      <3>3. build.hi = build.epoch
        BY <1>0, <1>t, <2>3, <3>1, <3>2, VersionOrder
      <3> QED BY <3>2, <3>3
    <2>5. BuildSound(c)'
      BY <2>1, <2>2, <2>3, <2>4 DEF BuildSound, Building
    <2>6. "publish" \in Building
      BY DEF Building
    <2> QED BY <1>0, <2>1, <2>5, <2>6, BuildMove
  <1>7. ASSUME BuildFails(c) PROVE Fresh'
    <2>1. /\ Steady /\ build' = NoBuild /\ Finish(c, Zero, "error")
          /\ pc[c] \in {"epoch", "load", "read", "backends", "recheck", "swap"}
      BY <1>7, QuietIsSteady DEF BuildFails, cacheVars
    <2>2. Truthful(c, Zero, "error")
      BY DEF Truthful
    <2>3. refreshLock = c /\ pc[c] \notin {"idle", "clear"}
      BY <2>1 DEF Holding, Discipline, LockInv
    <2> QED BY <1>0, <2>1, <2>2, <2>3, FinishStep
  <1> QED BY <1>1, <1>2, <1>3, <1>4, <1>5, <1>6, <1>7

\* replace_observed_index: publish, clear, invalidate.
LEMMA PublicationStep ==
  ASSUME TypeOK, TypeOK', Discipline, Fresh, NEW c \in Clients,
         Publish(c) \/ ClearCaches(c) \/ InvalidateStatus(c)
  PROVE  Fresh'
  <1>0. /\ c \in Actors /\ ClientSound(c) /\ DiskIsNewest /\ IndexSound /\ StartSound
        /\ CachesCover /\ PersistedCovers
        /\ \A a \in Actors : StoresCovering(a) /\ \A d \in Clients : ClientSound(d)
    BY DEF Actors, Fresh
  <1>t. /\ disk \in Version /\ index.epoch \in Version /\ index.lo \in Version
        /\ began[c] \in Version /\ index.gen \in Nat
        /\ build.lo \in Version /\ build.hi \in Version /\ build.epoch \in Version
    BY <1>0, VersionTypes
  <1>h. ASSUME NEW d \in Clients, d # c, pc[c] \in Holding PROVE pc[d] \notin Holding
    BY <1>h, OneBuilder
  <1>1. ASSUME Publish(c) PROVE Fresh'
    <2>1. /\ pc[c] = "publish" /\ writer = Free /\ readers = {} /\ writer' = c
          /\ index' = [gen |-> index.gen + 1, lo |-> build.lo, hi |-> build.hi, epoch |-> build.epoch]
          /\ pc' = [pc EXCEPT ![c] = "clear"]
          /\ UNCHANGED <<disk, daemon, build, cache, persisted, kind, loc, began, answer>>
      BY <1>1 DEF Publish, Goto, cacheVars
    <2>2. /\ index'.gen = index.gen + 1 /\ index'.lo = build.lo /\ index'.hi = build.hi
          /\ index'.epoch = build.epoch
          /\ pc'[c] = "clear" /\ \A b \in Actors : b # c => pc'[b] = pc[b]
      BY <1>0, <2>1 DEF TypeOK, ActorType
    <2>3. /\ AtLeast(build.epoch, began[c]) /\ AtLeast(build.epoch, index.epoch)
          /\ AtLeast(build.lo, build.epoch) /\ (Backend = "dnf" => build.lo = build.epoch)
          /\ (Backend = "dnf" => build.hi.inst = build.epoch.inst)
          /\ (Backend = "arch" => build.lo = build.epoch /\ build.hi = build.epoch)
      BY <1>0, <2>1 DEF ClientSound, BuildSound, Building
    <2>4. DiskIsNewest'
      BY <1>0, <2>1, <2>2 DEF DiskIsNewest
    <2>5. IndexSound'
      BY <2>2, <2>3 DEF IndexSound
    <2>6. StartSound'
      BY <1>0, <2>1 DEF StartSound
    <2>7. CachesCover'
      BY <2>2 DEF CachesCover
    <2>8. PersistedCovers'
      BY <1>0, <2>1, CatalogConstants DEF PersistedCovers, Actors
    <2>9. ASSUME NEW a \in Actors PROVE StoresCovering(a)'
      <3>1. loc[a].gen <= index.gen /\ loc[a].gen \in Nat
        BY VersionTypes DEF Discipline, GenInv
      <3>2. loc'[a].gen # index'.gen
        BY <1>t, <2>1, <2>2, <3>1
      <3> QED BY <3>2 DEF StoresCovering
    <2>10. ASSUME NEW d \in Clients PROVE ClientSound(d)'
      <3>1. AnswerSound(d)'
        BY <1>0, <2>1 DEF ClientSound, AnswerSound, Heals
      <3>2. CASE d = c
        <4>1. BuildSound(d)' /\ ReadSound(d)'
          BY <2>2, <3>2 DEF BuildSound, ReadSound, Building, Inserting
        <4>2. RefreshSound(d)'
          BY <2>1, <2>2, <2>3, <3>2 DEF RefreshSound
        <4> QED BY <3>1, <4>1, <4>2 DEF ClientSound
      <3>3. CASE d # c
        <4>1. pc'[d] = pc[d] /\ pc[d] \notin Holding
          BY <1>h, <2>1, <2>2, <3>3 DEF Actors, Holding
        <4>2. BuildSound(d)'
          BY <4>1 DEF BuildSound, Building, Holding
        <4>3. RefreshSound(d)'
          BY <1>0, <2>1, <4>1 DEF ClientSound, RefreshSound, Holding
        <4>4. ReadSound(d)'
          <5>1. Covers(build.epoch, index.epoch) /\ began[d] \in Version
            BY <1>t, <2>3, VersionTypes, CoverOrder
          <5>2. Covers(index.epoch, began[d]) => Covers(build.epoch, began[d])
            BY <1>t, <5>1, CoverOrder
          <5> QED BY <1>0, <2>1, <2>2, <4>1, <5>2 DEF ClientSound,
             ReadSound, Heals
        <4> QED BY <3>1, <4>2, <4>3, <4>4 DEF ClientSound
      <3> QED BY <3>2, <3>3
    <2> QED BY <2>4, <2>5, <2>6, <2>7, <2>8, <2>9, <2>10 DEF Fresh
  <1>2. ASSUME ClearCaches(c) PROVE Fresh'
    <2>1. /\ pc[c] = "clear" /\ cache' = EmptyCache /\ pc' = [pc EXCEPT ![c] = "invalidate"]
          /\ UNCHANGED <<disk, daemon, index, writer, build, persisted, kind, loc, began, answer>>
      BY <1>2 DEF ClearCaches, Goto, catalogVars
    <2>2. /\ pc'[c] = "invalidate" /\ \A b \in Actors : b # c => pc'[b] = pc[b]
          /\ \A s \in Subs : cache'[s] = {}
      BY <1>0, <2>1 DEF TypeOK, ActorType, EmptyCache
    <2>3. DiskIsNewest'
      BY <1>0, <2>1, <2>2 DEF DiskIsNewest
    <2>4. IndexSound' /\ StartSound' /\ PersistedCovers'
      BY <1>0, <2>1 DEF IndexSound, StartSound, PersistedCovers
    <2>5. CachesCover'
      BY <2>2 DEF CachesCover
    <2>6. Steady
      BY <2>1, <2>2 DEF Steady
    <2>7. ASSUME NEW a \in Actors PROVE StoresCovering(a)' /\ (a \in Clients => ClientSound(a)')
      <3>1. CASE a = c
        <4>1. StoresCovering(a)' /\ BuildSound(a)' /\ ReadSound(a)'
          BY <2>2, <3>1 DEF StoresCovering, BuildSound, ReadSound,
             Building, Inserting
        <4>2. RefreshSound(a)'
          BY <1>0, <2>1, <2>2, <3>1 DEF ClientSound, RefreshSound
        <4>3. a \in Clients => AnswerSound(a)'
          BY <1>0, <2>1 DEF ClientSound, AnswerSound, Heals
        <4> QED BY <4>1, <4>2, <4>3 DEF ClientSound
      <3>2. CASE a # c
        <4>1. Same(a) /\ build' = build
          BY <2>1, <2>2, <3>2 DEF Same
        <4> QED BY <2>6, <4>1, Bystander
      <3> QED BY <3>1, <3>2
    <2> QED BY <2>3, <2>4, <2>5, <2>7 DEF Fresh, Actors
  <1>3. ASSUME InvalidateStatus(c) PROVE Fresh'
    <2>p. PICK p : p = IF kind[c] = "refresh" THEN "record" ELSE "lookup"
      OBVIOUS
    <2>l. PICK l : l = [NoLocals EXCEPT !.ver = index.lo]
      OBVIOUS
    <2>1. /\ pc[c] = "invalidate" /\ pc' = [pc EXCEPT ![c] = p] /\ p \in {"record", "lookup"}
          /\ loc' = [loc EXCEPT ![c] = l] /\ l.ver = index.lo
          /\ UNCHANGED <<disk, daemon, index, cache, kind, began, answer>> /\ build' = NoBuild
      BY <1>3, <2>p, <2>l DEF InvalidateStatus, Goto, NoLocals
    <2>2. \A t \in persisted' : t.orphan
      <3>1. CASE persisted' = {}
        BY <3>1
      <3>2. CASE persisted' = {[t EXCEPT !.orphan = TRUE] : t \in persisted}
        BY <3>2 DEF TypeOK, StoreType, Snapshot
      <3> QED BY <1>3, <3>1, <3>2 DEF InvalidateStatus
    <2>3. /\ pc'[c] = p /\ loc'[c] = l
          /\ \A b \in Actors : b # c => pc'[b] = pc[b] /\ loc'[b] = loc[b]
      BY <1>0, <2>1 DEF TypeOK, ActorType
    <2>4. NoBuild.lo = Zero /\ NoBuild.hi = Zero /\ NoBuild.epoch = Zero
      BY DEF NoBuild
    <2>5. DiskIsNewest'
      <3>1. AtLeast(disk, Zero) /\ AtLeast(disk, index.lo) /\ AtLeast(disk, index.epoch)
        BY <1>0, <1>t, VersionOrder DEF DiskIsNewest
      <3>2. \A a \in Actors : AtLeast(disk, loc'[a].ver)
        BY <1>0, <2>1, <2>3, <3>1 DEF DiskIsNewest
      <3> QED BY <1>0, <2>1, <2>4, <3>1, <3>2 DEF DiskIsNewest
    <2>6. IndexSound' /\ PersistedCovers'
      BY <1>0, <2>1, <2>2 DEF IndexSound, PersistedCovers
    <2>7. StartSound'
      BY <2>1, <2>4 DEF StartSound
    <2>8. \A d \in Clients : pc[d] # "clear"
      BY <2>1, <1>h DEF Holding
    <2>9. CachesCover'
      BY <1>0, <2>1, <2>8 DEF CachesCover
    <2>10. ASSUME NEW a \in Actors, a # c PROVE StoresCovering(a)' /\ (a \in Clients => ClientSound(a)')
      <3>1. /\ StoresCovering(a)'
        BY <1>0, <2>1, <2>3, <2>10 DEF StoresCovering
      <3>2. ASSUME a \in Clients PROVE ClientSound(a)'
        <4>1. pc'[a] = pc[a] /\ loc'[a] = loc[a] /\ pc[a] \notin Holding /\ ClientSound(a)
          BY <1>0, <1>h, <2>1, <2>3, <2>10, <3>2 DEF Holding
        <4>2. BuildSound(a)'
          BY <4>1 DEF BuildSound, Building, Holding
        <4>3. RefreshSound(a)'
          BY <2>1, <4>1 DEF ClientSound, RefreshSound
        <4>4. ReadSound(a)'
          BY <2>1, <2>2, <4>1 DEF ClientSound, ReadSound, Heals
        <4>5. AnswerSound(a)'
          BY <2>1, <4>1 DEF ClientSound, AnswerSound, Heals
        <4> QED BY <4>2, <4>3, <4>4, <4>5 DEF ClientSound
      <3> QED BY <3>1, <3>2
    <2>11. StoresCovering(c)' /\ ClientSound(c)'
      <3>1. StoresCovering(c)' /\ BuildSound(c)'
        BY <2>1, <2>3 DEF StoresCovering, BuildSound, Building, Inserting
      <3>2. AtLeast(index.epoch, began[c]) /\ AtLeast(index.lo, index.epoch)
        BY <1>0, <2>1 DEF ClientSound, RefreshSound, IndexSound
      <3>3. AtLeast(index.lo, began[c]) /\ Covers(index.epoch, began[c])
        BY <1>t, <3>2, VersionOrder, CoverOrder
      <3>4. RefreshSound(c)'
        BY <2>1, <2>3, <3>3 DEF RefreshSound
      <3>5. \A s \in Subs : \A e \in cache[s] : Covers(e.ver, began[c])
        BY <1>0, <1>t, <2>8, <3>3, VersionTypes, CoverOrder DEF CachesCover
      <3>6. ReadSound(c)'
        BY <2>1, <2>2, <2>3, <3>3, <3>5 DEF ReadSound, Inserting
      <3>7. AnswerSound(c)'
        BY <1>0, <2>1 DEF ClientSound, AnswerSound, Heals
      <3> QED BY <3>1, <3>4, <3>6, <3>7 DEF ClientSound
    <2>12. \A a \in Actors : StoresCovering(a)'
      BY <2>10, <2>11
    <2>13. \A d \in Clients : ClientSound(d)'
      BY <2>10, <2>11 DEF Actors
    <2> QED BY <2>5, <2>6, <2>7, <2>9, <2>12, <2>13 DEF Fresh
  <1> QED BY <1>1, <1>2, <1>3

\* What is stored inside with_current_index covers the index.
LEMMA InsertSteady ==
  ASSUME TypeOK, Discipline, Fresh, NEW a \in Actors, pc[a] \in Inserting,
         UNCHANGED <<disk, daemon, index, writer>>,
         \A s \in Subs : \A e \in cache'[s] : e \in cache[s] \/ e.ver = loc[a].ver,
         \A t \in persisted' : t.orphan \/ t \in persisted \/ t.ver = loc[a].ver
  PROVE  Steady
  <1>1. loc[a].gen = index.gen
    BY DEF Discipline, ReaderInv
  <1>2. Covers(loc[a].ver, index.epoch)
    BY <1>1 DEF Fresh, StoresCovering
  <1>3. AtLeast(disk, loc[a].ver)
    BY DEF Fresh, DiskIsNewest
  <1>4. disk' = disk /\ daemon' = daemon /\ index' = index /\ writer' = writer
    OBVIOUS
  <1>5. \A s \in Subs : \A e \in cache'[s] :
          e \in cache[s] \/ (Covers(e.ver, index.epoch) /\ AtLeast(disk, e.ver))
    BY <1>2, <1>3
  <1>6. \A t \in persisted' : t.orphan \/ t \in persisted \/ Covers(t.ver, index.epoch)
    BY <1>2
  <1> QED BY <1>4, <1>5, <1>6 DEF Steady

\* Answers from the caches, and a request that times out.
LEMMA AnswerStep ==
  ASSUME TypeOK, TypeOK', Discipline, Fresh, NEW c \in Clients,
         \/ LookupHit(c) \/ LookupMiss(c) \/ CacheClear(c)
         \/ PersistedHit(c) \/ PersistedMiss(c) \/ TimeOut(c)
  PROVE  Fresh'
  <1>0. c \in Actors /\ ClientSound(c) /\ AtLeast(disk, loc[c].ver)
    BY DEF Actors, Fresh, DiskIsNewest
  <1>1. ASSUME LookupHit(c) PROVE Fresh'
    <2>1. pc[c] = "lookup" /\ Steady /\ build' = build
      BY <1>1, QuietIsSteady DEF LookupHit, catalogVars, cacheVars
    <2>2. PICK s \in {SubOf(kind[c])} \cup (IF kind[c] = "info" THEN {"miss"} ELSE {}) :
            \E e \in cache[s] : Finish(c, e.ver, "cache")
      BY <1>1 DEF LookupHit
    <2>3. PICK e \in cache[s] : Finish(c, e.ver, "cache")
      BY <2>2
    <2>4. s \in Subs
      BY <2>2 DEF SubOf, Subs
    <2>5. Heals(kind[c]) => Covers(e.ver, began[c])
      BY <1>0, <2>1, <2>4 DEF ClientSound, ReadSound
    <2>6. Truthful(c, e.ver, "cache")
      BY <2>5 DEF Truthful
    <2> QED BY <1>0, <2>1, <2>3, <2>6, FinishStep
  <1>2. ASSUME LookupMiss(c) PROVE Fresh'
    <2>p. PICK p : p = IF kind[c] = "status" THEN "persistent" ELSE "snapshot"
      OBVIOUS
    <2>1. /\ Steady /\ build' = build /\ UNCHANGED <<kind, began, answer, index, cache, persisted>>
          /\ pc[c] = "lookup" /\ loc' = loc
          /\ pc' = [pc EXCEPT ![c] = p] /\ p \in {"persistent", "snapshot"}
      BY <1>2, <2>p, QuietIsSteady DEF LookupMiss, Goto, catalogVars,
         cacheVars
    <2>2. pc'[c] = p /\ loc' = [loc EXCEPT ![c] = loc[c]]
      BY <1>0, <2>1, WholeLocals DEF TypeOK, ActorType
    <2>3. StoresCovering(c)' /\ BuildSound(c)' /\ RefreshSound(c)'
      BY <2>1, <2>2 DEF StoresCovering, BuildSound, RefreshSound, Building,
         Inserting
    <2>4. ReadSound(c)'
      BY <1>0, <2>1, <2>2 DEF ClientSound, ReadSound, Heals, Inserting
    <2> QED BY <1>0, <2>1, <2>2, <2>3, <2>4, MoveStep
  <1>3. ASSUME CacheClear(c) PROVE Fresh'
    <2>1. /\ pc[c] = "lookup" /\ build' = build /\ Finish(c, Zero, "cleared")
          /\ UNCHANGED <<disk, daemon, index, writer, persisted>> /\ cache' = EmptyCache
      BY <1>3 DEF CacheClear, catalogVars
    <2>2. Steady
      BY <2>1 DEF Steady, EmptyCache
    <2>3. Truthful(c, Zero, "cleared")
      BY DEF Truthful
    <2> QED BY <1>0, <2>1, <2>2, <2>3, FinishStep
  <1>4. ASSUME PersistedHit(c) PROVE Fresh'
    <2>1. pc[c] = "persistent" /\ Steady /\ build' = build
      BY <1>4, QuietIsSteady DEF PersistedHit, catalogVars, cacheVars
    <2>2. PICK t \in persisted : Finish(c, t.ver, IF t.orphan THEN "orphan" ELSE "persisted")
      BY <1>4 DEF PersistedHit
    <2>3. Heals(kind[c]) => t.orphan \/ Covers(t.ver, began[c])
      BY <1>0, <2>1 DEF ClientSound, ReadSound
    <2>4. Truthful(c, t.ver, IF t.orphan THEN "orphan" ELSE "persisted")
      BY <2>3 DEF Truthful
    <2> QED BY <1>0, <2>1, <2>2, <2>4, FinishStep
  <1>5. ASSUME PersistedMiss(c) PROVE Fresh'
    <2>1. /\ Steady /\ build' = build /\ UNCHANGED <<kind, began, answer>>
          /\ pc[c] = "persistent" /\ loc' = loc /\ pc' = [pc EXCEPT ![c] = "backend"]
      BY <1>5, QuietIsSteady DEF PersistedMiss, Goto, catalogVars, cacheVars
    <2>2. pc'[c] = "backend" /\ loc' = [loc EXCEPT ![c] = loc[c]]
      BY <1>0, <2>1, WholeLocals DEF TypeOK, ActorType
    <2>3. StoresCovering(c)' /\ BuildSound(c)' /\ RefreshSound(c)' /\ ReadSound(c)'
      BY <2>2 DEF StoresCovering, BuildSound, RefreshSound, ReadSound,
         Building, Inserting
    <2> QED BY <1>0, <2>1, <2>2, <2>3, MoveStep
  <1>6. ASSUME TimeOut(c) PROVE Fresh'
    <2>1. /\ Steady /\ Finish(c, Zero, "error")
          /\ build' = IF refreshLock = c THEN NoBuild ELSE build
      BY <1>6, QuietIsSteady DEF TimeOut, cacheVars
    <2>2. pc[c] \notin {"idle", "clear"}
      BY <1>6 DEF TimeOut, Awaiting
    <2>3. Truthful(c, Zero, "error")
      BY DEF Truthful
    <2>4. build' = build \/ (refreshLock = c /\ build' = NoBuild)
      BY <2>1
    <2> QED BY <1>0, <2>1, <2>2, <2>3, <2>4, FinishStep
  <1> QED BY <1>1, <1>2, <1>3, <1>4, <1>5, <1>6

\* Reads of the index and of the backend, and their insertion.
LEMMA ReadStep ==
  ASSUME TypeOK, TypeOK', Discipline, Fresh, NEW a \in Actors, Read(a)
  PROVE  Fresh'
  <1>0. /\ a \in Clients => ClientSound(a)
        /\ StoresCovering(a) /\ IndexSound /\ AtLeast(disk, loc[a].ver)
        /\ AtLeast(disk, index.lo) /\ AtLeast(disk, index.epoch)
        /\ a \in Clients => AtLeast(disk, began[a])
    BY DEF Actors, Fresh, DiskIsNewest
  <1>t. /\ disk \in Version /\ index.epoch \in Version /\ index.lo \in Version
        /\ loc[a].ver \in Version /\ (a \in Clients => began[a] \in Version)
        /\ AtLeast(disk, disk)
    BY VersionTypes, VersionOrder
  <1>c. /\ Covers(index.lo, index.epoch) /\ Covers(disk, index.epoch)
        /\ a \in Clients => Covers(disk, began[a])
    BY <1>0, <1>t, CoverOrder DEF IndexSound
  <1>1. ASSUME TakeSnapshot(a) PROVE Fresh'
    <2>l. PICK l : l = [gen |-> index.gen, ver |-> index.lo, sub |-> SubOf(kind[a])]
      OBVIOUS
    <2>1. /\ Steady /\ build' = build /\ UNCHANGED <<kind, began, answer, index>>
          /\ pc[a] = "snapshot" /\ loc' = [loc EXCEPT ![a] = l] /\ l.ver = index.lo
      BY <1>1, <2>l, QuietIsSteady DEF TakeSnapshot, catalogVars, cacheVars
    <2>2. PICK p \in {"guard", "backend"} : pc' = [pc EXCEPT ![a] = p]
      BY <1>1 DEF TakeSnapshot, Goto
    <2>3. pc'[a] = p /\ loc'[a].ver = index.lo
      BY <2>1, <2>2 DEF TypeOK, ActorType
    <2>4. StoresCovering(a)'
      BY <1>c, <2>1, <2>3 DEF StoresCovering
    <2>5. ASSUME a \in Clients PROVE BuildSound(a)' /\ RefreshSound(a)' /\ ReadSound(a)'
      <3>1. BuildSound(a)' /\ RefreshSound(a)'
        BY <2>2, <2>3 DEF BuildSound, RefreshSound, Building
      <3>2. Heals(kind[a]) => Covers(index.epoch, began[a])
        BY <1>0, <2>1, <2>5 DEF ClientSound, ReadSound
      <3>3. Heals(kind[a]) => Covers(index.lo, began[a])
        BY <1>t, <1>c, <2>5, <3>2, CoverOrder
      <3>4. ReadSound(a)'
        BY <2>1, <2>2, <2>3, <3>3 DEF ReadSound, Heals, Inserting
      <3> QED BY <3>1, <3>4
    <2> QED BY <1>0, <2>1, <2>2, <2>4, <2>5, MoveStep
  <1>2. ASSUME ReadBackend(a) PROVE Fresh'
    <2>1. Steady /\ build' = build /\ UNCHANGED index /\ pc[a] = "backend"
      BY <1>2, QuietIsSteady DEF ReadBackend, catalogVars, cacheVars
    <2>2. CASE Finish(a, disk, "live")
      <3>1. Truthful(a, disk, "live")
        BY <1>c DEF Truthful
      <3> QED BY <2>1, <2>2, <3>1, FinishStep
    <2>3. CASE /\ \E s \in IF kind[a] = "info" THEN {"info", "miss"} ELSE {SubOf(kind[a])} :
                    loc' = [loc EXCEPT ![a] = [gen |-> @.gen, ver |-> disk, sub |-> s]]
               /\ Goto(a, "guard")
               /\ UNCHANGED <<kind, began, answer>>
      <3>1. PICK s : loc' = [loc EXCEPT ![a] = [gen |-> loc[a].gen, ver |-> disk, sub |-> s]]
        BY <2>3
      <3>l. PICK l : l = [gen |-> loc[a].gen, ver |-> disk, sub |-> s]
        OBVIOUS
      <3>2. loc' = [loc EXCEPT ![a] = l] /\ l.ver = disk
        BY <3>1, <3>l
      <3>3. pc' = [pc EXCEPT ![a] = "guard"] /\ pc'[a] = "guard" /\ loc'[a].ver = disk
        BY <2>3, <3>2 DEF Goto, TypeOK, ActorType
      <3>4. StoresCovering(a)'
        BY <1>c, <2>1, <3>3 DEF StoresCovering
      <3>5. ASSUME a \in Clients PROVE BuildSound(a)' /\ RefreshSound(a)' /\ ReadSound(a)'
        BY <1>c, <2>3, <3>3, <3>5
        DEF BuildSound, RefreshSound, ReadSound, Building, Inserting
      <3> QED BY <1>t, <2>1, <2>3, <3>2, <3>3, <3>4, <3>5, MoveStep
    <2> QED BY <1>2, <2>2, <2>3 DEF ReadBackend
  <1>3. ASSUME BackendFails(a) PROVE Fresh'
    <2>1. Steady /\ build' = build /\ pc[a] = "backend" /\ Finish(a, Zero, "error")
      BY <1>3, QuietIsSteady DEF BackendFails, catalogVars, cacheVars
    <2>2. Truthful(a, Zero, "error")
      BY DEF Truthful
    <2> QED BY <2>1, <2>2, FinishStep
  <1>4. ASSUME Enter(a) PROVE Fresh'
    <2>p. PICK p : p = IF kind[a] = "explicit" THEN "insertCount" ELSE "insert"
      OBVIOUS
    <2>1. /\ Steady /\ build' = build /\ UNCHANGED <<kind, began, answer, index>>
          /\ pc[a] = "guard" /\ loc' = loc
          /\ pc' = [pc EXCEPT ![a] = p] /\ p \in {"insertCount", "insert"}
      BY <1>4, <2>p, QuietIsSteady DEF Enter, Goto, cacheVars
    <2>2. pc'[a] = p /\ loc' = [loc EXCEPT ![a] = loc[a]]
      BY <2>1, WholeLocals DEF TypeOK, ActorType
    <2>3. StoresCovering(a)'
      BY <1>0, <2>1, <2>2 DEF StoresCovering
    <2>4. ASSUME a \in Clients PROVE BuildSound(a)' /\ RefreshSound(a)' /\ ReadSound(a)'
      <3>1. BuildSound(a)' /\ RefreshSound(a)'
        BY <2>1, <2>2 DEF BuildSound, RefreshSound, Building
      <3>2. ReadSound(a)'
        BY <1>0, <2>1, <2>2, <2>4 DEF ClientSound, ReadSound, Heals, Inserting
      <3> QED BY <3>1, <3>2
    <2> QED BY <1>0, <2>1, <2>2, <2>3, <2>4, MoveStep
  <1>5. ASSUME Refused(a) PROVE Fresh'
    <2>1. Steady /\ build' = build /\ pc[a] = "guard" /\ Finish(a, loc[a].ver, "index")
      BY <1>5, QuietIsSteady DEF Refused, catalogVars, cacheVars
    <2>2. Truthful(a, loc[a].ver, "index")
      BY <1>0, <2>1 DEF ClientSound, ReadSound, Truthful
    <2> QED BY <2>1, <2>2, FinishStep
  <1>6. ASSUME Insert(a) PROVE Fresh'
    <2>1. /\ pc[a] = "insert" /\ pc[a] \in Inserting /\ build' = build
          /\ Finish(a, loc[a].ver, "index")
          /\ UNCHANGED <<disk, daemon, index, writer, persisted>>
      BY <1>6 DEF Insert, Inserting
    <2>2. \A s \in Subs : \A e \in cache'[s] : e \in cache[s] \/ e.ver = loc[a].ver
      <3>1. \A s \in Subs : cache'[s] \subseteq cache[s] \cup Mine(a)
        BY <1>6 DEF Insert, TypeOK, StoreType, Subs
      <3> QED BY <3>1 DEF Mine
    <2>3. Steady
      BY <2>1, <2>2, InsertSteady
    <2>4. Truthful(a, loc[a].ver, "index")
      BY <1>0, <2>1 DEF ClientSound, ReadSound, Truthful
    <2> QED BY <2>1, <2>3, <2>4, FinishStep
  <1>7. ASSUME InsertCount(a) PROVE Fresh'
    <2>p. PICK p : p = IF kind[a] = "maintain" THEN "insertStatus" ELSE "insertList"
      OBVIOUS
    <2>1. /\ pc[a] = "insertCount" /\ pc[a] \in Inserting /\ build' = build
          /\ UNCHANGED <<disk, daemon, index, writer, persisted, kind, began, answer>> /\ loc' = loc
          /\ pc' = [pc EXCEPT ![a] = p] /\ p \in {"insertStatus", "insertList"}
      BY <1>7, <2>p DEF InsertCount, Goto, catalogVars, Inserting
    <2>2. \A s \in Subs : \A e \in cache'[s] : e \in cache[s] \/ e.ver = loc[a].ver
      <3>1. \A s \in Subs : cache'[s] \subseteq cache[s] \cup Mine(a)
        BY <1>7 DEF InsertCount, TypeOK, StoreType
      <3> QED BY <3>1 DEF Mine
    <2>3. Steady
      BY <2>1, <2>2, InsertSteady
    <2>4. pc'[a] = p /\ loc' = [loc EXCEPT ![a] = loc[a]]
      BY <2>1, WholeLocals DEF TypeOK, ActorType
    <2>5. StoresCovering(a)'
      BY <1>0, <2>1, <2>4 DEF StoresCovering
    <2>6. ASSUME a \in Clients PROVE BuildSound(a)' /\ RefreshSound(a)' /\ ReadSound(a)'
      <3>1. BuildSound(a)' /\ RefreshSound(a)'
        BY <2>1, <2>4 DEF BuildSound, RefreshSound, Building
      <3>2. ReadSound(a)'
        BY <1>0, <2>1, <2>4, <2>6 DEF ClientSound, ReadSound, Heals, Inserting
      <3> QED BY <3>1, <3>2
    <2>7. UNCHANGED <<kind, began, answer>>
      BY <2>1
    <2> QED BY <1>0, <2>1, <2>3, <2>4, <2>5, <2>6, <2>7, MoveStep
  <1>8. ASSUME InsertList(a) PROVE Fresh'
    <2>1. /\ pc[a] = "insertList" /\ pc[a] \in Inserting /\ build' = build
          /\ Finish(a, loc[a].ver, "index")
          /\ UNCHANGED <<disk, daemon, index, writer, persisted>>
      BY <1>8 DEF InsertList, Inserting
    <2>2. \A s \in Subs : \A e \in cache'[s] : e \in cache[s] \/ e.ver = loc[a].ver
      <3>1. \A s \in Subs : cache'[s] \subseteq cache[s] \cup Mine(a)
        BY <1>8 DEF InsertList, TypeOK, StoreType
      <3> QED BY <3>1 DEF Mine
    <2>3. Steady
      BY <2>1, <2>2, InsertSteady
    <2>4. Truthful(a, loc[a].ver, "index")
      BY <1>0, <2>1 DEF ClientSound, ReadSound, Truthful
    <2> QED BY <2>1, <2>3, <2>4, FinishStep
  <1> QED BY <1>1, <1>2, <1>3, <1>4, <1>5, <1>6, <1>7, <1>8 DEF Read

\* The status worker.
LEMMA WorkerStep ==
  ASSUME TypeOK, TypeOK', Discipline, Fresh,
         \/ BeginMaintenance \/ StatusCounts \/ WriteFastStatus \/ ScanSecurity
         \/ PersistStatus \/ DropList \/ InsertStatus
  PROVE  Fresh'
  <1>0. /\ Worker \in Actors /\ Worker \notin Clients
        /\ StoresCovering(Worker) /\ AtLeast(disk, loc[Worker].ver) /\ AtLeast(disk, index.epoch)
    BY CatalogConstants DEF Actors, Fresh, DiskIsNewest
  <1>t. disk \in Version /\ index.epoch \in Version /\ AtLeast(disk, disk) /\ AtLeast(disk, Zero)
    BY VersionTypes, VersionOrder
  <1>f. \A v, via : Truthful(Worker, v, via)
    BY <1>0 DEF Truthful
  <1>1. ASSUME BeginMaintenance PROVE Fresh'
    <2>l. PICK l : l = [NoLocals EXCEPT !.gen = index.gen]
      OBVIOUS
    <2>1. /\ Steady /\ daemon = "up" /\ build' = build /\ UNCHANGED <<began, answer>>
          /\ pc[Worker] = "idle" /\ pc' = [pc EXCEPT ![Worker] = "counts"]
          /\ kind' = [kind EXCEPT ![Worker] = "maintain"]
          /\ loc' = [loc EXCEPT ![Worker] = l] /\ l.ver = Zero
      BY <1>1, <2>l, QuietIsSteady DEF BeginMaintenance, Goto, catalogVars,
         cacheVars, NoLocals
    <2>2. /\ pc'[Worker] = "counts" /\ loc'[Worker].ver = Zero
          /\ \A b \in Actors : b # Worker => Same(b)
      BY <1>0, <2>1 DEF TypeOK, ActorType, Same
    <2>3. StoresCovering(Worker)'
      BY <2>2 DEF StoresCovering, Inserting
    <2> QED BY <1>0, <1>t, <2>1, <2>2, <2>3, ActorStep
  <1>2. ASSUME StatusCounts PROVE Fresh'
    <2>1. Steady /\ build' = build /\ pc[Worker] = "counts" /\ UNCHANGED index
      BY <1>2, QuietIsSteady DEF StatusCounts, catalogVars, cacheVars
    <2>2. CASE Finish(Worker, Zero, "error")
      BY <1>0, <1>f, <2>1, <2>2, FinishStep
    <2>3. CASE /\ loc' = [loc EXCEPT ![Worker].ver = disk] /\ Goto(Worker, "fast")
               /\ UNCHANGED <<kind, began, answer>>
      <3>l. PICK l : l = [loc[Worker] EXCEPT !.ver = disk]
        OBVIOUS
      <3>1. /\ loc' = [loc EXCEPT ![Worker] = l] /\ l.ver = disk
        BY <1>0, <2>3, <3>l, WholeLocals
      <3>2. pc' = [pc EXCEPT ![Worker] = "fast"] /\ loc'[Worker].ver = disk
        BY <1>0, <2>3, <3>1 DEF Goto, TypeOK, ActorType
      <3>3. Covers(disk, index.epoch)
        BY <1>0, <1>t, CoverOrder
      <3>4. StoresCovering(Worker)'
        BY <2>1, <3>2, <3>3 DEF StoresCovering
      <3> QED BY <1>0, <1>t, <2>1, <2>3, <3>1, <3>2, <3>4, MoveStep
    <2> QED BY <1>2, <2>2, <2>3 DEF StatusCounts
  <1>3. ASSUME NEW p \in {"scan", "guard"}, pc[Worker] \in {"fast", "scan"}, Goto(Worker, p),
               UNCHANGED <<kind, loc, began, answer>>, Steady, build' = build
        PROVE  Fresh'
    <2>1. /\ loc' = [loc EXCEPT ![Worker] = loc[Worker]] /\ pc' = [pc EXCEPT ![Worker] = p]
          /\ pc'[Worker] = p /\ index' = index /\ loc' = loc
      BY <1>0, <1>3, WholeLocals DEF Goto, TypeOK, ActorType, Steady
    <2>2. StoresCovering(Worker)'
      BY <1>0, <1>3, <2>1 DEF StoresCovering
    <2>3. UNCHANGED <<kind, began, answer>>
      BY <1>3
    <2> QED BY <1>0, <1>3, <2>1, <2>2, <2>3, MoveStep
  <1>4. ASSUME WriteFastStatus PROVE Fresh'
    <2>1. Steady /\ build' = build /\ pc[Worker] = "fast"
      BY <1>4, QuietIsSteady DEF WriteFastStatus, catalogVars
    <2>2. CASE Finish(Worker, Zero, "error")
      BY <1>0, <1>f, <2>1, <2>2, FinishStep
    <2>3. CASE Goto(Worker, "scan") /\ UNCHANGED <<kind, loc, began, answer>>
      BY <1>3, <2>1, <2>3
    <2> QED BY <1>4, <2>2, <2>3 DEF WriteFastStatus
  <1>5. ASSUME ScanSecurity PROVE Fresh'
    <2>1. Steady /\ build' = build /\ pc[Worker] = "scan"
      BY <1>5, QuietIsSteady DEF ScanSecurity, catalogVars, cacheVars
    <2>2. CASE Finish(Worker, Zero, "error")
      BY <1>0, <1>f, <2>1, <2>2, FinishStep
    <2>3. CASE Goto(Worker, "guard") /\ UNCHANGED <<kind, loc, began, answer>>
      BY <1>3, <2>1, <2>3
    <2> QED BY <1>5, <2>2, <2>3 DEF ScanSecurity
  <1>6. ASSUME NEW p \in {"dropList", "insertCount"}, pc[Worker] \in {"insert", "dropList"},
               Goto(Worker, p), UNCHANGED <<kind, loc, began, answer>>, Steady, build' = build
        PROVE  Fresh'
    <2>1. /\ loc' = [loc EXCEPT ![Worker] = loc[Worker]] /\ pc' = [pc EXCEPT ![Worker] = p]
          /\ pc'[Worker] = p /\ index' = index /\ loc' = loc
      BY <1>0, <1>6, WholeLocals DEF Goto, TypeOK, ActorType, Steady
    <2>2. StoresCovering(Worker)'
      BY <1>0, <1>6, <2>1 DEF StoresCovering, Inserting
    <2>3. UNCHANGED <<kind, began, answer>>
      BY <1>6
    <2> QED BY <1>0, <1>6, <2>1, <2>2, <2>3, MoveStep
  <1>7. ASSUME PersistStatus PROVE Fresh'
    <2>1. /\ pc[Worker] = "insert" /\ pc[Worker] \in Inserting /\ build' = build
          /\ UNCHANGED <<disk, daemon, index, writer>> /\ cache' = cache
          /\ Goto(Worker, "dropList") /\ UNCHANGED <<kind, loc, began, answer>>
      BY <1>7 DEF PersistStatus, catalogVars, Inserting
    <2>2. \A t \in persisted' : t.orphan \/ t \in persisted \/ t.ver = loc[Worker].ver
      BY <1>7 DEF PersistStatus
    <2>3. \A s \in Subs : \A e \in cache'[s] : e \in cache[s] \/ e.ver = loc[Worker].ver
      BY <2>1
    <2>4. Steady
      BY <1>0, <2>1, <2>2, <2>3, InsertSteady
    <2> QED BY <1>6, <2>1, <2>4
  <1>8. ASSUME DropList PROVE Fresh'
    <2>1. /\ pc[Worker] = "dropList" /\ pc[Worker] \in Inserting /\ build' = build
          /\ UNCHANGED <<disk, daemon, index, writer>> /\ persisted' = persisted
          /\ Goto(Worker, "insertCount") /\ UNCHANGED <<kind, loc, began, answer>>
      BY <1>8 DEF DropList, catalogVars, Inserting
    <2>2. \A s \in Subs : \A e \in cache'[s] : e \in cache[s] \/ e.ver = loc[Worker].ver
      BY <1>8 DEF DropList, TypeOK, StoreType
    <2>3. \A t \in persisted' : t.orphan \/ t \in persisted \/ t.ver = loc[Worker].ver
      BY <2>1
    <2>4. Steady
      BY <1>0, <2>1, <2>2, <2>3, InsertSteady
    <2> QED BY <1>6, <2>1, <2>4
  <1>9. ASSUME InsertStatus PROVE Fresh'
    <2>1. /\ pc[Worker] = "insertStatus" /\ pc[Worker] \in Inserting /\ build' = build
          /\ UNCHANGED <<disk, daemon, index, writer>> /\ persisted' = persisted
          /\ Finish(Worker, Zero, "none")
      BY <1>9 DEF InsertStatus, Inserting
    <2>2. \A s \in Subs : \A e \in cache'[s] : e \in cache[s] \/ e.ver = loc[Worker].ver
      <3>1. \A s \in Subs : cache'[s] \subseteq cache[s] \cup Mine(Worker)
        BY <1>9 DEF InsertStatus, TypeOK, StoreType
      <3> QED BY <3>1 DEF Mine
    <2>3. \A t \in persisted' : t.orphan \/ t \in persisted \/ t.ver = loc[Worker].ver
      BY <2>1
    <2>4. Steady
      BY <1>0, <2>1, <2>2, <2>3, InsertSteady
    <2> QED BY <1>0, <1>f, <2>1, <2>4, FinishStep
  <1> QED BY <1>1, <1>2, <1>4, <1>5, <1>7, <1>8, <1>9

\* An actor that does nothing has nothing to show.
LEMMA IdleSound ==
  ASSUME NEW a \in Actors, pc'[a] = "idle"
  PROVE  StoresCovering(a)' /\ BuildSound(a)' /\ RefreshSound(a)' /\ ReadSound(a)'
  BY DEF StoresCovering, BuildSound, RefreshSound, ReadSound, Building,
     Inserting

\* No actor moves.
LEMMA QuietStep ==
  ASSUME TypeOK, TypeOK', Discipline, Fresh, Steady, UNCHANGED <<pc, kind, loc, began, answer>>,
         build' = build, persisted' \subseteq persisted
  PROVE  Fresh'
  <1>1. \A a \in Actors : Same(a)
    BY DEF Same
  <1>2. \A a \in Actors : StoresCovering(a)' /\ (a \in Clients => ClientSound(a)')
    BY <1>1, Bystander
  <1>0. /\ disk' = disk /\ daemon' = daemon /\ index' = index /\ writer' = writer
        /\ DiskIsNewest /\ IndexSound /\ StartSound /\ CachesCover /\ PersistedCovers
    BY DEF Fresh, Steady
  <1>3. DiskIsNewest'
    BY <1>0 DEF DiskIsNewest, Steady
  <1>4. IndexSound' /\ StartSound'
    BY <1>0 DEF IndexSound, StartSound
  <1>5. CachesCover'
    BY <1>0 DEF CachesCover, Steady
  <1>6. PersistedCovers'
    BY <1>0 DEF PersistedCovers, Steady
  <1>7. \A c \in Clients : ClientSound(c)'
    BY <1>2 DEF Actors
  <1>8. \A a \in Actors : StoresCovering(a)'
    BY <1>2
  <1> QED BY <1>3, <1>4, <1>5, <1>6, <1>7, <1>8 DEF Fresh

\* The databases, the clocks, the native task, crashes and starts.
LEMMA WorldStep ==
  ASSUME TypeOK, TypeOK', Discipline, Fresh,
         \/ Environment \/ StartLoad \/ StartServe \/ StartFails \/ NativeTaskEnds
         \/ Quiescent \/ UNCHANGED vars
  PROVE  Fresh'
  <1>0. /\ DiskIsNewest /\ IndexSound /\ StartSound /\ CachesCover /\ PersistedCovers
        /\ \A c \in Clients : ClientSound(c)
    BY DEF Fresh
  <1>t. /\ disk \in Version /\ index.epoch \in Version /\ index.lo \in Version
        /\ build.lo \in Version /\ build.epoch \in Version
        /\ AtLeast(disk, disk) /\ AtLeast(disk, Zero) /\ AtLeast(Zero, Zero)
    BY VersionTypes, VersionOrder
  <1>1. ASSUME DatabasesChange PROVE Fresh'
    <2>1. /\ UNCHANGED <<index, writer, build, daemon, cache, persisted>>
          /\ UNCHANGED <<pc, kind, loc, began, answer>>
      BY <1>1 DEF DatabasesChange, catalogVars, cacheVars, actorVars
    <2>2. AtLeast(disk', disk) /\ disk' \in Version
      <3>1. disk' \in Version
        BY VersionTypes DEF TypeOK, CatalogType
      <3> QED BY <1>1, <1>t, <3>1 DEF DatabasesChange, AtLeast, Version
    <2>3. ASSUME NEW v \in Version, AtLeast(disk, v) PROVE AtLeast(disk', v)
      BY <1>t, <2>2, <2>3, VersionOrder
    <2>4. DiskIsNewest'
      <3>1. \A a \in Actors : AtLeast(disk', loc[a].ver)
        BY <1>0, <2>3, VersionTypes DEF DiskIsNewest
      <3>2. \A c \in Clients : AtLeast(disk', began[c])
        BY <1>0, <2>3, VersionTypes DEF DiskIsNewest
      <3>3. \A s \in Subs : \A e \in cache[s] : AtLeast(disk', e.ver)
        BY <1>0, <2>3, VersionTypes DEF DiskIsNewest
      <3>4. /\ AtLeast(disk', index.lo) /\ AtLeast(disk', index.epoch)
            /\ AtLeast(disk', build.lo) /\ AtLeast(disk', build.hi) /\ AtLeast(disk', build.epoch)
        BY <1>0, <2>3, VersionTypes DEF DiskIsNewest
      <3> QED BY <2>1, <3>1, <3>2, <3>3, <3>4 DEF DiskIsNewest
    <2>5. IndexSound' /\ StartSound' /\ CachesCover' /\ PersistedCovers'
      BY <1>0, <2>1 DEF IndexSound, StartSound, CachesCover, PersistedCovers
    <2>6. ASSUME NEW a \in Actors PROVE StoresCovering(a)'
      BY <2>1 DEF Fresh, StoresCovering
    <2>7. ASSUME NEW c \in Clients PROVE ClientSound(c)'
      <3>1. BuildSound(c)' /\ RefreshSound(c)'
        BY <1>0, <2>1 DEF ClientSound, BuildSound, RefreshSound
      <3>2. ReadSound(c)' /\ AnswerSound(c)'
        BY <1>0, <2>1 DEF ClientSound, ReadSound, AnswerSound, Heals
      <3> QED BY <3>1, <3>2 DEF ClientSound
    <2> QED BY <2>4, <2>5, <2>6, <2>7 DEF Fresh
  <1>2. ASSUME NEW s \in Subs, Expire(s) PROVE Fresh'
    <2>1. /\ UNCHANGED <<disk, daemon, index, writer>> /\ build' = build
          /\ UNCHANGED <<pc, kind, loc, began, answer>> /\ persisted' = persisted
          /\ \A r \in Subs : cache'[r] \subseteq cache[r]
      BY <1>2 DEF Expire, catalogVars, actorVars, TypeOK, StoreType
    <2>2. Steady
      BY <2>1 DEF Steady
    <2> QED BY <2>1, <2>2, QuietStep
  <1>3. ASSUME ExpirePersisted PROVE Fresh'
    <2>1. /\ UNCHANGED <<disk, daemon, index, writer>> /\ build' = build /\ cache' = cache
          /\ UNCHANGED <<pc, kind, loc, began, answer>> /\ persisted' = {}
      BY <1>3 DEF ExpirePersisted, catalogVars, actorVars
    <2>2. Steady
      BY <2>1 DEF Steady
    <2> QED BY <2>1, <2>2, QuietStep
  <1>4. ASSUME DebounceElapses \/ NativeTaskEnds \/ Quiescent \/ UNCHANGED vars PROVE Fresh'
    <2>1. /\ UNCHANGED <<disk, daemon, index, writer, cache, persisted>> /\ build' = build
          /\ UNCHANGED <<pc, kind, loc, began, answer>>
      BY <1>4
      DEF DebounceElapses, NativeTaskEnds, Quiescent, vars, catalogVars, cacheVars, actorVars
    <2>2. persisted' = persisted
      BY <2>1
    <2> QED BY <2>1, <2>2, QuietIsSteady, QuietStep
  <1>5. ASSUME Crash PROVE Fresh'
    <2>1. /\ disk' = disk /\ daemon' = "down"
          /\ index' = [gen |-> 0, lo |-> Zero, hi |-> Zero, epoch |-> Zero]
          /\ build' = NoBuild /\ cache' = EmptyCache
          /\ persisted' = {[t EXCEPT !.orphan = TRUE] : t \in persisted}
          /\ pc' = [a \in Actors |-> "idle"] /\ loc' = [a \in Actors |-> NoLocals]
          /\ answer' = [c \in Clients |-> NoAnswer] /\ UNCHANGED <<kind, began>>
      BY <1>5 DEF Crash
    <2>2. /\ index'.lo = Zero /\ index'.hi = Zero /\ index'.epoch = Zero
          /\ build'.lo = Zero /\ build'.hi = Zero /\ build'.epoch = Zero
          /\ NoLocals.ver = Zero /\ \A s \in Subs : cache'[s] = {}
          /\ \A a \in Actors : pc'[a] = "idle" /\ loc'[a] = NoLocals
          /\ \A c \in Clients : answer'[c].via = "none"
      BY <2>1 DEF NoBuild, NoLocals, EmptyCache, NoAnswer
    <2>3. \A t \in persisted' : t.orphan
      BY <2>1 DEF TypeOK, StoreType, Snapshot
    <2>4. DiskIsNewest'
      BY <1>0, <1>t, <2>1, <2>2 DEF DiskIsNewest
    <2>5. IndexSound' /\ StartSound' /\ CachesCover' /\ PersistedCovers'
      BY <1>t, <2>2, <2>3 DEF IndexSound, StartSound, CachesCover,
         PersistedCovers
    <2>6. ASSUME NEW c \in Clients PROVE AnswerSound(c)'
      BY <2>2 DEF AnswerSound
    <2>7. \A c \in Clients : ClientSound(c)'
      BY <2>2, <2>6, IdleSound DEF ClientSound, Actors
    <2> QED BY <2>2, <2>4, <2>5, <2>7, IdleSound DEF Fresh
  <1>6. ASSUME daemon # "up", UNCHANGED <<disk, cache, persisted, pc, kind, loc, began, answer>>,
               DiskIsNewest', IndexSound', StartSound'
        PROVE  Fresh'
    <2>1. /\ \A a \in Actors : pc'[a] = "idle"
          /\ \A s \in Subs : cache'[s] = {}
      BY <1>6 DEF Discipline, DownInv, EmptyCache
    <2>2. \A t \in persisted' : t.orphan
      BY <1>0, <1>6 DEF PersistedCovers
    <2>3. CachesCover' /\ PersistedCovers'
      BY <2>1, <2>2 DEF CachesCover, PersistedCovers
    <2>4. \A c \in Clients : AnswerSound(c)'
      BY <1>0, <1>6 DEF ClientSound, AnswerSound, Heals
    <2>5. \A c \in Clients : ClientSound(c)'
      BY <2>1, <2>4, IdleSound DEF ClientSound, Actors
    <2> QED BY <1>6, <2>1, <2>3, <2>5, IdleSound DEF Fresh
  <1>7. ASSUME StartLoad PROVE Fresh'
    <2>1. /\ daemon = "down" /\ index' = index
          /\ build' = [lo |-> disk, hi |-> Zero, epoch |-> disk, tries |-> 0]
          /\ UNCHANGED <<disk, cache, persisted, pc, kind, loc, began, answer>>
      BY <1>7 DEF StartLoad, cacheVars, actorVars
    <2>2. build'.lo = disk /\ build'.hi = Zero /\ build'.epoch = disk
      BY <2>1
    <2>3. DiskIsNewest' /\ IndexSound' /\ StartSound'
      BY <1>0, <1>t, <2>1, <2>2 DEF DiskIsNewest, IndexSound, StartSound
    <2> QED BY <1>6, <2>1, <2>3
  <1>8. ASSUME StartServe PROVE Fresh'
    <2>1. /\ daemon = "loading" /\ daemon' = "up" /\ ~Differs(disk, build.epoch)
          /\ index' = [gen |-> 0, lo |-> build.lo, hi |-> disk, epoch |-> build.epoch]
          /\ build' = NoBuild
          /\ UNCHANGED <<disk, cache, persisted, pc, kind, loc, began, answer>>
      BY <1>8 DEF StartServe, cacheVars, actorVars
    <2>2. /\ index'.lo = build.lo /\ index'.hi = disk /\ index'.epoch = build.epoch
          /\ build'.lo = Zero /\ build'.hi = Zero /\ build'.epoch = Zero
      BY <2>1 DEF NoBuild
    <2>3. build.lo = build.epoch /\ AtLeast(build.lo, build.epoch)
      BY <1>0, <1>t, <2>1, VersionOrder DEF StartSound
    <2>4. DiskIsNewest' /\ StartSound'
      BY <1>0, <1>t, <2>1, <2>2 DEF DiskIsNewest, StartSound
    <2>5. IndexSound'
      BY <2>1, <2>2, <2>3 DEF IndexSound, Differs
    <2> QED BY <1>6, <2>1, <2>4, <2>5
  <1>9. ASSUME StartFails PROVE Fresh'
    <2>1. /\ daemon = "loading" /\ daemon' = "down" /\ index' = index /\ build' = NoBuild
          /\ UNCHANGED <<disk, cache, persisted, pc, kind, loc, began, answer>>
      BY <1>9 DEF StartFails, cacheVars, actorVars
    <2>2. build'.lo = Zero /\ build'.hi = Zero /\ build'.epoch = Zero
      BY <2>1 DEF NoBuild
    <2>3. DiskIsNewest' /\ IndexSound' /\ StartSound'
      BY <1>0, <1>t, <2>1, <2>2 DEF DiskIsNewest, IndexSound, StartSound
    <2> QED BY <1>6, <2>1, <2>3
  <1> QED BY <1>1, <1>2, <1>3, <1>4, <1>5, <1>7, <1>8, <1>9 DEF Environment

LEMMA InitFresh == Init => Fresh
  <1> SUFFICES ASSUME Init PROVE Fresh
    OBVIOUS
  <1>1. /\ disk = Zero /\ daemon = "down" /\ index.lo = Zero /\ index.hi = Zero /\ index.epoch = Zero
        /\ build.lo = Zero /\ build.hi = Zero /\ build.epoch = Zero /\ persisted = {}
        /\ \A s \in Subs : cache[s] = {}
        /\ \A a \in Actors : pc[a] = "idle" /\ loc[a].ver = Zero
        /\ \A c \in Clients : began[c] = Zero /\ answer[c].via = "none"
    BY DEF Init, NoBuild, EmptyCache, NoLocals, NoAnswer
  <1>2. AtLeast(Zero, Zero)
    BY VersionOrder
  <1>3. DiskIsNewest /\ IndexSound /\ StartSound /\ CachesCover /\ PersistedCovers
    BY <1>1, <1>2 DEF DiskIsNewest, IndexSound, StartSound, CachesCover,
       PersistedCovers
  <1>4. \A a \in Actors : StoresCovering(a)
    BY <1>1 DEF StoresCovering, Inserting
  <1>5. ASSUME NEW c \in Clients PROVE ClientSound(c)
    <2>1. BuildSound(c) /\ RefreshSound(c) /\ ReadSound(c)
      BY <1>1 DEF BuildSound, RefreshSound, ReadSound, Building, Inserting,
         Actors
    <2>2. AnswerSound(c)
      BY <1>1 DEF AnswerSound
    <2> QED BY <2>1, <2>2 DEF ClientSound
  <1> QED BY <1>3, <1>4, <1>5 DEF Fresh

LEMMA StepFresh == TypeOK /\ Discipline /\ Fresh /\ [Next]_vars => Fresh'
  <1> SUFFICES ASSUME TypeOK, Discipline, Fresh, [Next]_vars PROVE Fresh'
    OBVIOUS
  <1>0. TypeOK'
    BY StepType
  <1>1. CASE \/ Environment \/ StartLoad \/ StartServe \/ StartFails \/ NativeTaskEnds
             \/ Quiescent \/ UNCHANGED vars
    BY <1>0, <1>1, WorldStep
  <1>2. CASE BeginMaintenance \/ Maintain
    BY <1>0, <1>2, WorkerStep, ReadStep DEF Maintain, Actors
  <1>3. ASSUME NEW c \in Clients, (\E k \in Kinds : Begin(c, k)) \/ Handle(c) \/ TimeOut(c)
        PROVE  Fresh'
    <2>1. CASE \/ \E k \in Kinds : Begin(c, k)
               \/ Observe(c) \/ Compare(c) \/ Lock(c) \/ Refresh(c)
      BY <1>0, <2>1, HealStep DEF Refresh
    <2>2. CASE Rebuild(c)
      BY <1>0, <2>2, RebuildStep, PublicationStep DEF Rebuild
    <2>3. CASE \/ LookupHit(c) \/ LookupMiss(c) \/ CacheClear(c)
               \/ PersistedHit(c) \/ PersistedMiss(c) \/ TimeOut(c)
      BY <1>0, <2>3, AnswerStep
    <2>4. CASE Read(c)
      BY <1>0, <2>4, ReadStep DEF Actors
    <2> QED BY <1>3, <2>1, <2>2, <2>3, <2>4 DEF Handle
  <1> QED BY <1>1, <1>2, <1>3 DEF Next

\* The types, the lock discipline and the order of the observations hold together.
THEOREM FreshInvariant == Spec => [](TypeOK /\ Discipline /\ Fresh)
  <1>1. Init => TypeOK /\ Discipline /\ Fresh
    BY InitType, InitDiscipline, InitFresh
  <1>2. TypeOK /\ Discipline /\ Fresh /\ [Next]_vars => (TypeOK /\ Discipline /\ Fresh)'
    BY StepType, StepDiscipline, StepFresh
  <1> QED BY <1>1, <1>2, PTL DEF Spec

\* The observations around a rebuild refuse a catalogue that changed while it was
\* read (load_stable, load_observed_index, rebuild_production_index).
THEOREM IndexStaysUntorn == Spec => []IndexUntorn
  <1>1. Fresh => IndexUntorn
    BY DEF Fresh, IndexSound, IndexUntorn
  <1> QED BY <1>1, FreshInvariant, PTL

\* Once disk and index agree, every cached value is of the current databases
\* (with_current_index, replace_observed_index).
THEOREM CachesStayExact == Spec => []CacheExact
  <1>1. TypeOK /\ Discipline /\ Fresh => CacheExact
    <2> SUFFICES ASSUME TypeOK, Discipline, Fresh, writer = Free, Backend = "arch",
                        disk = index.epoch, NEW s \in Subs, NEW e \in cache[s]
                 PROVE  e.ver = disk
      BY DEF CacheExact
    <2>1. Covers(e.ver, index.epoch)
      BY NobodyClears DEF Fresh, CachesCover
    <2>2. AtLeast(e.ver, disk)
      BY <2>1 DEF Covers
    <2>3. AtLeast(disk, e.ver)
      BY DEF Fresh, DiskIsNewest
    <2> QED BY <2>2, <2>3, VersionTypes, VersionOrder
  <1> QED BY <1>1, FreshInvariant, PTL

\* The answer to a healed request is at least as new as the databases were when it
\* began, whichever cache, index or backend gave it and whatever happened meanwhile
\* (catalog_needs_heal, with_current_index, invalidate_status).
THEOREM ReadsStayFresh == Spec => []ReadsFresh
  <1>1. Fresh => ReadsFresh
    BY DEF Fresh, ClientSound, AnswerSound, ReadsFresh
  <1> QED BY <1>1, FreshInvariant, PTL

\* A refresh that rebuilt or was debounced leaves an index at least as new as the
\* databases were when it was asked for (handle_refresh_index, should_skip).
THEOREM RefreshesStayFresh == Spec => []RefreshFresh
  <1>1. Fresh => RefreshFresh
    BY DEF Fresh, ClientSound, AnswerSound, RefreshFresh
  <1> QED BY <1>1, FreshInvariant, PTL
=============================================================================
