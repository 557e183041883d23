-------------------------- MODULE DaemonClaimProofs --------------------------
(***************************************************************************)
(* Proofs about DaemonClaim for any set of daemons and any inode numbers,  *)
(* reused ones included: the invariants the run Claim checks, that no omgd *)
(* removes another's live socket, and that omgd implements OneDaemon.      *)
(*                                                                         *)
(* The inductive invariant says who may touch the socket.  Everything      *)
(* rests on Exclusive: a process past its claim is the holder of the       *)
(* flock.  So while one process is between bind and exit no other one      *)
(* binds, which is why the node, if there still is one, is the one that    *)
(* process bound (OneNode) and the one its guard recorded (GuardExact), and*)
(* why a process about to bind keeps the path free (PathFree).             *)
(***************************************************************************)
EXTENDS DaemonClaim, TLAPS

\* A process that runs holds the flock.
Exclusive == \A p \in Daemons : pc[p] # "off" => holder = p

\* Only a process between bind and exit has a listener.
ListenPoints == \A p \in Daemons : listener[p] # 0 => pc[p] \in Bound \cup {"release"}

\* A node that exists while a process listens is the one it listens on.
OneNode == \A p \in Daemons :
  listener[p] # 0 /\ node # 0 => node = listener[p] /\ owner = p

\* The owner of a node is between bind and the end of its cleanup, or its
\* cleanup was stopped and it is gone or about to go.
OwnerRuns ==
  owner # None =>
    /\ node # 0
    /\ \/ pc[owner] \in Bound
       \/ owner \in hindered /\ pc[owner] \in {"release", "off"}

\* The guard knows the node of its process.
GuardExact == \A p \in Daemons :
  owner = p /\ pc[p] \in {"chmod", "serve", "check", "remove"} => guard[p] = node

\* A process about to bind has made the path free and finds it so.
PathFree == \A p \in Daemons : pc[p] = "bind" => node = 0

IInv == /\ TypeOK /\ Exclusive /\ ListenPoints /\ OneNode
        /\ OwnerRuns /\ GuardExact /\ PathFree /\ BindSucceeds

-----------------------------------------------------------------------------
\* In the initial state nobody runs and nobody owns a node.
LEMMA InitClaim == Init => IInv
  BY ClaimConstants
  DEF Init, IInv, TypeOK, Points, Exclusive, ListenPoints, OneNode, OwnerRuns,
      GuardExact, PathFree, BindSucceeds

\* Two processes are never past their claims together.
LEMMA Alone ==
  ASSUME IInv, NEW p \in Daemons, pc[p] # "off"
  PROVE  \A q \in Daemons : q # p => pc[q] = "off" /\ listener[q] = 0
  BY DEF IInv, Exclusive, ListenPoints, Bound

\* While a process is before bind nobody listens, and a node that has an owner
\* was left behind by a process that is gone.
LEMMA BeforeBind ==
  ASSUME IInv, NEW p \in Daemons, pc[p] \notin Bound \cup {"off", "release"}
  PROVE  /\ owner = None \/ (owner # p /\ pc[owner] = "off" /\ owner \in hindered)
         /\ \A q \in Daemons : listener[q] = 0
  <1>1. listener[p] = 0
    BY DEF IInv, ListenPoints
  <1>2. \A q \in Daemons : listener[q] = 0
    BY <1>1, Alone
  <1>3. owner # p
    BY ClaimConstants DEF IInv, OwnerRuns
  <1>4. owner # None => owner \in Daemons /\ pc[owner] = "off"
    BY <1>3, Alone DEF IInv, TypeOK
  <1>5. owner # None => owner \in hindered
    BY <1>4 DEF IInv, OwnerRuns, Bound
  <1> QED BY <1>2, <1>3, <1>4, <1>5

\* After its cleanup a process owns no node but one it could not remove.
LEMMA AfterCleanup ==
  ASSUME IInv, NEW p \in Daemons, pc[p] = "release"
  PROVE  owner = None \/ owner \in hindered
  <1>1. owner # None /\ owner # p => pc[owner] = "off"
    BY Alone DEF IInv, TypeOK
  <1> QED BY <1>1 DEF IInv, OwnerRuns, Bound

-----------------------------------------------------------------------------
\* Every step keeps the invariant, one case per action.
LEMMA StepClaim == IInv /\ [Next]_vars => IInv'
  <1> SUFFICES ASSUME IInv, [Next]_vars PROVE IInv'
    OBVIOUS
  <1> USE ClaimConstants
  <1>1. ASSUME NEW p \in Daemons, Claim(p) PROVE IInv'
    <2>0. \A q \in Daemons : pc[q] = "off" /\ listener[q] = 0
      BY <1>1 DEF Claim, IInv, Exclusive, ListenPoints, Bound
    <2>1. TypeOK'
      BY <1>1, <2>0 DEF Claim, Started, Goto, IInv, TypeOK, Points
    <2>2. Exclusive'
      BY <1>1, <2>0 DEF Claim, Started, Goto, IInv, TypeOK, Exclusive
    <2>3. ListenPoints'
      BY <1>1, <2>0 DEF Claim, Started, Goto, IInv, TypeOK, ListenPoints, Bound
    <2>4. OneNode'
      BY <1>1, <2>0 DEF Claim, Started, Goto, IInv, TypeOK, OneNode, ListenPoints, Bound
    <2>5. OwnerRuns'
      BY <1>1, <2>0 DEF Claim, Started, Goto, IInv, TypeOK, OwnerRuns, GuardExact, Bound
    <2>6. GuardExact'
      BY <1>1, <2>0 DEF Claim, Started, Goto, IInv, TypeOK, GuardExact, OwnerRuns, Bound
    <2>7. PathFree'
      BY <1>1, <2>0 DEF Claim, Started, Goto, IInv, TypeOK, PathFree, Exclusive
    <2>8. BindSucceeds'
      BY <1>1, <2>0 DEF Claim, Started, Goto, IInv, TypeOK, BindSucceeds, PathFree
    <2> QED BY <2>1, <2>2, <2>3, <2>4, <2>5, <2>6, <2>7, <2>8 DEF IInv
  <1>2. ASSUME NEW p \in Daemons, InitializeState(p) PROVE IInv'
    <2>0. /\ owner = None \/ (owner # p /\ pc[owner] = "off" /\ owner \in hindered)
          /\ \A q \in Daemons : listener[q] = 0
      BY <1>2, BeforeBind DEF InitializeState, Bound
    <2>1. TypeOK'
      BY <1>2, <2>0 DEF InitializeState, Goto, IInv, TypeOK, Points
    <2>2. Exclusive'
      BY <1>2, <2>0 DEF InitializeState, Goto, IInv, TypeOK, Exclusive
    <2>3. ListenPoints'
      BY <1>2, <2>0 DEF InitializeState, Goto, IInv, TypeOK, ListenPoints, Bound
    <2>4. OneNode'
      BY <1>2, <2>0 DEF InitializeState, Goto, IInv, TypeOK, OneNode, ListenPoints,
           Bound
    <2>5. OwnerRuns'
      BY <1>2, <2>0 DEF InitializeState, Goto, IInv, TypeOK, OwnerRuns, GuardExact,
           Bound
    <2>6. GuardExact'
      BY <1>2, <2>0 DEF InitializeState, Goto, IInv, TypeOK, GuardExact, OwnerRuns,
           Bound
    <2>7. PathFree'
      BY <1>2, <2>0 DEF InitializeState, Goto, IInv, TypeOK, PathFree, Exclusive
    <2>8. BindSucceeds'
      BY <1>2, <2>0 DEF InitializeState, Goto, IInv, TypeOK, BindSucceeds, PathFree
    <2> QED BY <2>1, <2>2, <2>3, <2>4, <2>5, <2>6, <2>7, <2>8 DEF IInv
  <1>3. ASSUME NEW p \in Daemons, Probe(p) PROVE IInv'
    <2>0. /\ owner = None \/ (owner # p /\ pc[owner] = "off" /\ owner \in hindered)
          /\ \A q \in Daemons : listener[q] = 0
      BY <1>3, BeforeBind DEF Probe, Bound
    <2>1. TypeOK'
      BY <1>3, <2>0 DEF Probe, Goto, IInv, TypeOK, Points
    <2>2. Exclusive'
      BY <1>3, <2>0 DEF Probe, Goto, IInv, TypeOK, Exclusive
    <2>3. ListenPoints'
      BY <1>3, <2>0 DEF Probe, Goto, IInv, TypeOK, ListenPoints, Bound
    <2>4. OneNode'
      BY <1>3, <2>0 DEF Probe, Goto, IInv, TypeOK, OneNode, ListenPoints, Bound
    <2>5. OwnerRuns'
      BY <1>3, <2>0 DEF Probe, Goto, IInv, TypeOK, OwnerRuns, GuardExact, Bound
    <2>6. GuardExact'
      BY <1>3, <2>0 DEF Probe, Goto, IInv, TypeOK, GuardExact, OwnerRuns, Bound
    <2>7. PathFree'
      BY <1>3, <2>0 DEF Probe, Goto, IInv, TypeOK, PathFree, Exclusive
    <2>8. BindSucceeds'
      BY <1>3, <2>0 DEF Probe, Goto, IInv, TypeOK, BindSucceeds, PathFree
    <2> QED BY <2>1, <2>2, <2>3, <2>4, <2>5, <2>6, <2>7, <2>8 DEF IInv
  <1>4. ASSUME NEW p \in Daemons, PingAnswered(p) PROVE IInv'
    <2>0. /\ owner = None \/ (owner # p /\ pc[owner] = "off" /\ owner \in hindered)
          /\ \A q \in Daemons : listener[q] = 0
      BY <1>4, BeforeBind DEF PingAnswered, Bound
    <2>1. TypeOK'
      BY <1>4, <2>0 DEF PingAnswered, Goto, IInv, TypeOK, Points
    <2>2. Exclusive'
      BY <1>4, <2>0 DEF PingAnswered, Goto, IInv, TypeOK, Exclusive
    <2>3. ListenPoints'
      BY <1>4, <2>0 DEF PingAnswered, Goto, IInv, TypeOK, ListenPoints, Bound
    <2>4. OneNode'
      BY <1>4, <2>0 DEF PingAnswered, Goto, IInv, TypeOK, OneNode, ListenPoints, Bound
    <2>5. OwnerRuns'
      BY <1>4, <2>0 DEF PingAnswered, Goto, IInv, TypeOK, OwnerRuns, GuardExact, Bound
    <2>6. GuardExact'
      BY <1>4, <2>0 DEF PingAnswered, Goto, IInv, TypeOK, GuardExact, OwnerRuns, Bound
    <2>7. PathFree'
      BY <1>4, <2>0 DEF PingAnswered, Goto, IInv, TypeOK, PathFree, Exclusive
    <2>8. BindSucceeds'
      BY <1>4, <2>0 DEF PingAnswered, Goto, IInv, TypeOK, BindSucceeds, PathFree
    <2> QED BY <2>1, <2>2, <2>3, <2>4, <2>5, <2>6, <2>7, <2>8 DEF IInv
  <1>5. ASSUME NEW p \in Daemons, PingFails(p) PROVE IInv'
    <2>0. /\ owner = None \/ (owner # p /\ pc[owner] = "off" /\ owner \in hindered)
          /\ \A q \in Daemons : listener[q] = 0
      BY <1>5, BeforeBind DEF PingFails, Bound
    <2>1. TypeOK'
      BY <1>5, <2>0 DEF PingFails, Goto, IInv, TypeOK, Points
    <2>2. Exclusive'
      BY <1>5, <2>0 DEF PingFails, Goto, IInv, TypeOK, Exclusive
    <2>3. ListenPoints'
      BY <1>5, <2>0 DEF PingFails, Goto, IInv, TypeOK, ListenPoints, Bound
    <2>4. OneNode'
      BY <1>5, <2>0 DEF PingFails, Goto, IInv, TypeOK, OneNode, ListenPoints, Bound
    <2>5. OwnerRuns'
      BY <1>5, <2>0 DEF PingFails, Goto, IInv, TypeOK, OwnerRuns, GuardExact, Bound
    <2>6. GuardExact'
      BY <1>5, <2>0 DEF PingFails, Goto, IInv, TypeOK, GuardExact, OwnerRuns, Bound
    <2>7. PathFree'
      BY <1>5, <2>0 DEF PingFails, Goto, IInv, TypeOK, PathFree, Exclusive
    <2>8. BindSucceeds'
      BY <1>5, <2>0 DEF PingFails, Goto, IInv, TypeOK, BindSucceeds, PathFree
    <2> QED BY <2>1, <2>2, <2>3, <2>4, <2>5, <2>6, <2>7, <2>8 DEF IInv
  <1>6. ASSUME NEW p \in Daemons, Inspect(p) PROVE IInv'
    <2>0. /\ owner = None \/ (owner # p /\ pc[owner] = "off" /\ owner \in hindered)
          /\ \A q \in Daemons : listener[q] = 0
      BY <1>6, BeforeBind DEF Inspect, Bound
    <2>1. TypeOK'
      BY <1>6, <2>0 DEF Inspect, Goto, IInv, TypeOK, Points
    <2>2. Exclusive'
      BY <1>6, <2>0 DEF Inspect, Goto, IInv, TypeOK, Exclusive
    <2>3. ListenPoints'
      BY <1>6, <2>0 DEF Inspect, Goto, IInv, TypeOK, ListenPoints, Bound
    <2>4. OneNode'
      BY <1>6, <2>0 DEF Inspect, Goto, IInv, TypeOK, OneNode, ListenPoints, Bound
    <2>5. OwnerRuns'
      BY <1>6, <2>0 DEF Inspect, Goto, IInv, TypeOK, OwnerRuns, GuardExact, Bound
    <2>6. GuardExact'
      BY <1>6, <2>0 DEF Inspect, Goto, IInv, TypeOK, GuardExact, OwnerRuns, Bound
    <2>7. PathFree'
      BY <1>6, <2>0 DEF Inspect, Goto, IInv, TypeOK, PathFree, Exclusive
    <2>8. BindSucceeds'
      BY <1>6, <2>0 DEF Inspect, Goto, IInv, TypeOK, BindSucceeds, PathFree
    <2> QED BY <2>1, <2>2, <2>3, <2>4, <2>5, <2>6, <2>7, <2>8 DEF IInv
  <1>7. ASSUME NEW p \in Daemons, Unlink(p) PROVE IInv'
    <2>0. /\ owner = None \/ (owner # p /\ pc[owner] = "off" /\ owner \in hindered)
          /\ \A q \in Daemons : listener[q] = 0
      BY <1>7, BeforeBind DEF Unlink, Bound
    <2>1. TypeOK'
      BY <1>7, <2>0 DEF Unlink, Goto, Unlinked, IInv, TypeOK, Points
    <2>2. Exclusive'
      BY <1>7, <2>0 DEF Unlink, Goto, Unlinked, IInv, TypeOK, Exclusive
    <2>3. ListenPoints'
      BY <1>7, <2>0 DEF Unlink, Goto, Unlinked, IInv, TypeOK, ListenPoints, Bound
    <2>4. OneNode'
      BY <1>7, <2>0 DEF Unlink, Goto, Unlinked, IInv, TypeOK, OneNode, ListenPoints,
           Bound
    <2>5. OwnerRuns'
      BY <1>7, <2>0 DEF Unlink, Goto, Unlinked, IInv, TypeOK, OwnerRuns, GuardExact,
           Bound
    <2>6. GuardExact'
      BY <1>7, <2>0 DEF Unlink, Goto, Unlinked, IInv, TypeOK, GuardExact, OwnerRuns,
           Bound
    <2>7. PathFree'
      BY <1>7, <2>0 DEF Unlink, Goto, Unlinked, IInv, TypeOK, PathFree, Exclusive
    <2>8. BindSucceeds'
      BY <1>7, <2>0 DEF Unlink, Goto, Unlinked, IInv, TypeOK, BindSucceeds, PathFree
    <2> QED BY <2>1, <2>2, <2>3, <2>4, <2>5, <2>6, <2>7, <2>8 DEF IInv
  <1>8. ASSUME NEW p \in Daemons, Bind(p) PROVE IInv'
    <2>0. /\ owner = None \/ (owner # p /\ pc[owner] = "off" /\ owner \in hindered)
          /\ \A q \in Daemons : listener[q] = 0
      BY <1>8, BeforeBind DEF Bind, Bound
    <2>1. TypeOK'
      BY <1>8, <2>0 DEF Bind, Goto, IInv, TypeOK, Points
    <2>2. Exclusive'
      BY <1>8, <2>0 DEF Bind, Goto, IInv, TypeOK, Exclusive
    <2>3. ListenPoints'
      BY <1>8, <2>0 DEF Bind, Goto, IInv, TypeOK, ListenPoints, Bound
    <2>4. OneNode'
      BY <1>8, <2>0 DEF Bind, Goto, IInv, TypeOK, OneNode, ListenPoints, Bound
    <2>5. OwnerRuns'
      BY <1>8, <2>0 DEF Bind, Goto, IInv, TypeOK, OwnerRuns, GuardExact, Bound
    <2>6. GuardExact'
      BY <1>8, <2>0 DEF Bind, Goto, IInv, TypeOK, GuardExact, OwnerRuns, Bound
    <2>7. PathFree'
      BY <1>8, <2>0 DEF Bind, Goto, IInv, TypeOK, PathFree, Exclusive
    <2>8. BindSucceeds'
      BY <1>8, <2>0 DEF Bind, Goto, IInv, TypeOK, BindSucceeds, PathFree
    <2> QED BY <2>1, <2>2, <2>3, <2>4, <2>5, <2>6, <2>7, <2>8 DEF IInv
  <1>9. ASSUME NEW p \in Daemons, Guard(p) PROVE IInv'
    <2>0. \A q \in Daemons : q # p => pc[q] = "off" /\ listener[q] = 0
      BY <1>9, Alone DEF Guard
    <2>1. TypeOK'
      BY <1>9, <2>0 DEF Guard, GiveUp, Goto, IInv, TypeOK, Points
    <2>2. Exclusive'
      BY <1>9, <2>0 DEF Guard, GiveUp, Goto, IInv, TypeOK, Exclusive
    <2>3. ListenPoints'
      BY <1>9, <2>0 DEF Guard, GiveUp, Goto, IInv, TypeOK, ListenPoints, Bound
    <2>4. OneNode'
      BY <1>9, <2>0 DEF Guard, GiveUp, Goto, IInv, TypeOK, OneNode, ListenPoints, Bound
    <2>5. OwnerRuns'
      BY <1>9, <2>0 DEF Guard, GiveUp, Goto, IInv, TypeOK, OwnerRuns, GuardExact, Bound
    <2>6. GuardExact'
      BY <1>9, <2>0 DEF Guard, GiveUp, Goto, IInv, TypeOK, GuardExact, OwnerRuns, Bound
    <2>7. PathFree'
      BY <1>9, <2>0 DEF Guard, GiveUp, Goto, IInv, TypeOK, PathFree, Exclusive
    <2>8. BindSucceeds'
      BY <1>9, <2>0 DEF Guard, GiveUp, Goto, IInv, TypeOK, BindSucceeds, PathFree
    <2> QED BY <2>1, <2>2, <2>3, <2>4, <2>5, <2>6, <2>7, <2>8 DEF IInv
  <1>10. ASSUME NEW p \in Daemons, Chmod(p) PROVE IInv'
    <2>0. \A q \in Daemons : q # p => pc[q] = "off" /\ listener[q] = 0
      BY <1>10, Alone DEF Chmod
    <2>1. TypeOK'
      BY <1>10, <2>0 DEF Chmod, Goto, IInv, TypeOK, Points
    <2>2. Exclusive'
      BY <1>10, <2>0 DEF Chmod, Goto, IInv, TypeOK, Exclusive
    <2>3. ListenPoints'
      BY <1>10, <2>0 DEF Chmod, Goto, IInv, TypeOK, ListenPoints, Bound
    <2>4. OneNode'
      BY <1>10, <2>0 DEF Chmod, Goto, IInv, TypeOK, OneNode, ListenPoints, Bound
    <2>5. OwnerRuns'
      BY <1>10, <2>0 DEF Chmod, Goto, IInv, TypeOK, OwnerRuns, GuardExact, Bound
    <2>6. GuardExact'
      BY <1>10, <2>0 DEF Chmod, Goto, IInv, TypeOK, GuardExact, OwnerRuns, Bound
    <2>7. PathFree'
      BY <1>10, <2>0 DEF Chmod, Goto, IInv, TypeOK, PathFree, Exclusive
    <2>8. BindSucceeds'
      BY <1>10, <2>0 DEF Chmod, Goto, IInv, TypeOK, BindSucceeds, PathFree
    <2> QED BY <2>1, <2>2, <2>3, <2>4, <2>5, <2>6, <2>7, <2>8 DEF IInv
  <1>11. ASSUME NEW p \in Daemons, StopServing(p) PROVE IInv'
    <2>0. \A q \in Daemons : q # p => pc[q] = "off" /\ listener[q] = 0
      BY <1>11, Alone DEF StopServing
    <2>1. TypeOK'
      BY <1>11, <2>0 DEF StopServing, Goto, IInv, TypeOK, Points
    <2>2. Exclusive'
      BY <1>11, <2>0 DEF StopServing, Goto, IInv, TypeOK, Exclusive
    <2>3. ListenPoints'
      BY <1>11, <2>0 DEF StopServing, Goto, IInv, TypeOK, ListenPoints, Bound
    <2>4. OneNode'
      BY <1>11, <2>0 DEF StopServing, Goto, IInv, TypeOK, OneNode, ListenPoints, Bound
    <2>5. OwnerRuns'
      BY <1>11, <2>0 DEF StopServing, Goto, IInv, TypeOK, OwnerRuns, GuardExact, Bound
    <2>6. GuardExact'
      BY <1>11, <2>0 DEF StopServing, Goto, IInv, TypeOK, GuardExact, OwnerRuns, Bound
    <2>7. PathFree'
      BY <1>11, <2>0 DEF StopServing, Goto, IInv, TypeOK, PathFree, Exclusive
    <2>8. BindSucceeds'
      BY <1>11, <2>0 DEF StopServing, Goto, IInv, TypeOK, BindSucceeds, PathFree
    <2> QED BY <2>1, <2>2, <2>3, <2>4, <2>5, <2>6, <2>7, <2>8 DEF IInv
  <1>12. ASSUME NEW p \in Daemons, CleanupCheck(p) PROVE IInv'
    <2>0. \A q \in Daemons : q # p => pc[q] = "off" /\ listener[q] = 0
      BY <1>12, Alone DEF CleanupCheck
    <2>1. TypeOK'
      BY <1>12, <2>0 DEF CleanupCheck, GiveUp, Goto, IInv, TypeOK, Points
    <2>2. Exclusive'
      BY <1>12, <2>0 DEF CleanupCheck, GiveUp, Goto, IInv, TypeOK, Exclusive
    <2>3. ListenPoints'
      BY <1>12, <2>0 DEF CleanupCheck, GiveUp, Goto, IInv, TypeOK, ListenPoints, Bound
    <2>4. OneNode'
      BY <1>12, <2>0 DEF CleanupCheck, GiveUp, Goto, IInv, TypeOK, OneNode, ListenPoints, Bound
    <2>5. OwnerRuns'
      BY <1>12, <2>0 DEF CleanupCheck, GiveUp, Goto, IInv, TypeOK, OwnerRuns, GuardExact, Bound
    <2>6. GuardExact'
      BY <1>12, <2>0 DEF CleanupCheck, GiveUp, Goto, IInv, TypeOK, GuardExact, OwnerRuns, Bound
    <2>7. PathFree'
      BY <1>12, <2>0 DEF CleanupCheck, GiveUp, Goto, IInv, TypeOK, PathFree, Exclusive
    <2>8. BindSucceeds'
      BY <1>12, <2>0 DEF CleanupCheck, GiveUp, Goto, IInv, TypeOK, BindSucceeds, PathFree
    <2> QED BY <2>1, <2>2, <2>3, <2>4, <2>5, <2>6, <2>7, <2>8 DEF IInv
  <1>13. ASSUME NEW p \in Daemons, CleanupRemove(p) PROVE IInv'
    <2>0. \A q \in Daemons : q # p => pc[q] = "off" /\ listener[q] = 0
      BY <1>13, Alone DEF CleanupRemove
    <2>1. TypeOK'
      BY <1>13, <2>0 DEF CleanupRemove, GiveUp, Goto, Unlinked, IInv, TypeOK, Points
    <2>2. Exclusive'
      BY <1>13, <2>0 DEF CleanupRemove, GiveUp, Goto, Unlinked, IInv, TypeOK, Exclusive
    <2>3. ListenPoints'
      BY <1>13, <2>0 DEF CleanupRemove, GiveUp, Goto, Unlinked, IInv, TypeOK, ListenPoints,
           Bound
    <2>4. OneNode'
      BY <1>13, <2>0 DEF CleanupRemove, GiveUp, Goto, Unlinked, IInv, TypeOK, OneNode,
           ListenPoints, Bound
    <2>5. OwnerRuns'
      BY <1>13, <2>0 DEF CleanupRemove, GiveUp, Goto, Unlinked, IInv, TypeOK, OwnerRuns,
           GuardExact, Bound
    <2>6. GuardExact'
      BY <1>13, <2>0 DEF CleanupRemove, GiveUp, Goto, Unlinked, IInv, TypeOK, GuardExact,
           OwnerRuns, Bound
    <2>7. PathFree'
      BY <1>13, <2>0 DEF CleanupRemove, GiveUp, Goto, Unlinked, IInv, TypeOK, PathFree,
           Exclusive
    <2>8. BindSucceeds'
      BY <1>13, <2>0 DEF CleanupRemove, GiveUp, Goto, Unlinked, IInv, TypeOK, BindSucceeds,
           PathFree
    <2> QED BY <2>1, <2>2, <2>3, <2>4, <2>5, <2>6, <2>7, <2>8 DEF IInv
  <1>14. ASSUME NEW p \in Daemons, Release(p) PROVE IInv'
    <2>0. /\ owner = None \/ owner \in hindered
          /\ \A q \in Daemons : q # p => pc[q] = "off" /\ listener[q] = 0
      BY <1>14, Alone, AfterCleanup DEF Release
    <2>1. TypeOK'
      BY <1>14, <2>0 DEF Release, Goto, Exited, IInv, TypeOK, Points
    <2>2. Exclusive'
      BY <1>14, <2>0 DEF Release, Goto, Exited, IInv, TypeOK, Exclusive
    <2>3. ListenPoints'
      BY <1>14, <2>0 DEF Release, Goto, Exited, IInv, TypeOK, ListenPoints, Bound
    <2>4. OneNode'
      BY <1>14, <2>0 DEF Release, Goto, Exited, IInv, TypeOK, OneNode, ListenPoints,
           Bound
    <2>5. OwnerRuns'
      BY <1>14, <2>0 DEF Release, Goto, Exited, IInv, TypeOK, OwnerRuns, GuardExact,
           Bound
    <2>6. GuardExact'
      BY <1>14, <2>0 DEF Release, Goto, Exited, IInv, TypeOK, GuardExact, OwnerRuns,
           Bound
    <2>7. PathFree'
      BY <1>14, <2>0 DEF Release, Goto, Exited, IInv, TypeOK, PathFree, Exclusive
    <2>8. BindSucceeds'
      BY <1>14, <2>0 DEF Release, Goto, Exited, IInv, TypeOK, BindSucceeds, PathFree
    <2> QED BY <2>1, <2>2, <2>3, <2>4, <2>5, <2>6, <2>7, <2>8 DEF IInv
  <1>15. ASSUME NEW p \in Daemons, Killed(p) PROVE IInv'
    <2>0. \A q \in Daemons : q # p => pc[q] = "off" /\ listener[q] = 0
      BY <1>15, Alone DEF Killed
    <2>1. TypeOK'
      BY <1>15, <2>0 DEF Killed, Goto, Exited, IInv, TypeOK, Points
    <2>2. Exclusive'
      BY <1>15, <2>0 DEF Killed, Goto, Exited, IInv, TypeOK, Exclusive
    <2>3. ListenPoints'
      BY <1>15, <2>0 DEF Killed, Goto, Exited, IInv, TypeOK, ListenPoints, Bound
    <2>4. OneNode'
      BY <1>15, <2>0 DEF Killed, Goto, Exited, IInv, TypeOK, OneNode, ListenPoints,
           Bound
    <2>5. OwnerRuns'
      BY <1>15, <2>0 DEF Killed, Goto, Exited, IInv, TypeOK, OwnerRuns, GuardExact,
           Bound
    <2>6. GuardExact'
      BY <1>15, <2>0 DEF Killed, Goto, Exited, IInv, TypeOK, GuardExact, OwnerRuns,
           Bound
    <2>7. PathFree'
      BY <1>15, <2>0 DEF Killed, Goto, Exited, IInv, TypeOK, PathFree, Exclusive
    <2>8. BindSucceeds'
      BY <1>15, <2>0 DEF Killed, Goto, Exited, IInv, TypeOK, BindSucceeds, PathFree
    <2> QED BY <2>1, <2>2, <2>3, <2>4, <2>5, <2>6, <2>7, <2>8 DEF IInv
  <1>16. CASE LegacyDies
    BY <1>16 DEF LegacyDies, IInv, TypeOK, Points, Exclusive, ListenPoints, OneNode,
         OwnerRuns,
             GuardExact, PathFree, BindSucceeds, Bound
  <1>17. CASE SocketRemoved
    BY <1>17 DEF SocketRemoved, Unlinked, IInv, TypeOK, Points, Exclusive,
         ListenPoints, OneNode, OwnerRuns,
             GuardExact, PathFree, BindSucceeds, Bound
  <1>18. CASE UNCHANGED vars
    BY <1>18 DEF vars, IInv, TypeOK, Points, Exclusive, ListenPoints, OneNode,
         OwnerRuns,
             GuardExact, PathFree, BindSucceeds, Bound
  <1> QED
    BY <1>1, <1>2, <1>3, <1>4, <1>5, <1>6, <1>7, <1>8, <1>9, <1>10, <1>11, <1>12,
         <1>13, <1>14, <1>15, <1>16, <1>17, <1>18 DEF Next, Start, Run, Stop

\* The invariant holds throughout, whoever starts, stops or is killed.
THEOREM ClaimInvariant == Spec => []IInv
  BY InitClaim, StepClaim, PTL DEF Spec

\* A process that ends by itself leaves its socket node only when its cleanup
\* was stopped (SocketCleanup::drop).
THEOREM NoStaleSocket == Spec => []NoStaleAfterExit
  <1>1. IInv => NoStaleAfterExit
    BY DEF IInv, OwnerRuns, NoStaleAfterExit, Bound
  <1> QED BY <1>1, ClaimInvariant, PTL

\* The claim and remove_stale_socket leave the path free for bind.
THEOREM BindNeverRefused == Spec => []BindSucceeds
  <1>1. IInv => BindSucceeds
    BY DEF IInv
  <1> QED BY <1>1, ClaimInvariant, PTL

-----------------------------------------------------------------------------
\* One step: the node of a live listener goes by its own step or an outsider's.
LEMMA StepKeepsSocket ==
  ASSUME IInv, Next, NEW p \in Daemons, listener[p] # 0, node = listener[p],
       node' # node
  PROVE  SocketRemoved \/ pc'[p] # pc[p]
  <1>1. SUFFICES ASSUME NEW q \in Daemons, Start(q) \/ Run(q) \/ Stop(q)
                 PROVE  pc'[p] # pc[p]
    BY DEF Next, LegacyDies
  <1>2. CASE Unlink(q) \/ Bind(q)
    BY <1>2, BeforeBind DEF Unlink, Bind, Bound
  <1>3. CASE CleanupRemove(q)
    <2>1. q = p
      BY <1>3, Alone DEF CleanupRemove
    <2> QED BY <1>3, <2>1 DEF CleanupRemove, GiveUp, Goto, IInv, TypeOK
  <1> QED
    BY <1>1, <1>2, <1>3
    DEF Start, Run, Stop, Claim, InitializeState, Probe, PingAnswered, PingFails,
        Inspect, Guard, Chmod, StopServing, CleanupCheck, Release, Killed

\* No omgd ever removes the socket of another omgd that listens: neither the
\* stale-socket removal of a start nor a late cleanup.
THEOREM LiveSocketsStay == Spec => LiveSocketKept
  <1>1. IInv /\ [Next]_vars =>
          [\A p \in Daemons :
             listener[p] # 0 /\ node = listener[p] /\ node' # node
               => SocketRemoved \/ pc'[p] # pc[p]]_vars
    BY StepKeepsSocket DEF vars
  <1> QED BY <1>1, ClaimInvariant, PTL DEF Spec, LiveSocketKept

-----------------------------------------------------------------------------
\* One step of DaemonClaim is a step of OneDaemon or changes nothing it sees.
LEMMA StepImplements == IInv /\ IInv' /\ [Next]_vars => [Abstract!Next]_(Abstract!vars)
  <1> SUFFICES ASSUME IInv, IInv', [Next]_vars
               PROVE  Abstract!Next \/ UNCHANGED <<Up, Reach>>
    BY DEF Abstract!vars
  <1> USE ClaimConstants
  <1>1. ASSUME NEW p \in Daemons,
               Claim(p) \/ InitializeState(p) \/ Probe(p) \/ PingAnswered(p)
                 \/ PingFails(p) \/ Inspect(p) \/ Guard(p) \/ Chmod(p) \/ CleanupCheck(p)
        PROVE  UNCHANGED <<Up, Reach>>
    <2>1. CASE Claim(p)
      <3>1. listener[p] = 0
        BY <2>1 DEF Claim, IInv, ListenPoints, Bound
      <3>2. Reach' = Reach
        BY <2>1, <3>1 DEF Claim, Started, Reach, IInv, TypeOK
      <3> QED BY <2>1, <3>2 DEF Claim, Up
    <2> QED
      BY <1>1, <2>1 DEF InitializeState, Probe, PingAnswered, PingFails, Inspect,
         Guard, Chmod, CleanupCheck, Up, Reach
  <1>2. ASSUME NEW p \in Daemons, Unlink(p) PROVE UNCHANGED <<Up, Reach>>
    <2>1. listener' = listener /\ \A q \in Daemons : listener[q] = 0
      BY <1>2, BeforeBind DEF Unlink, Unlinked, Bound
    <2>2. owner' = None \/ (owner' = owner /\ node' = node)
      BY <1>2 DEF Unlink, Unlinked
    <2>3. Reach = None /\ Reach' = None
      BY <2>1, <2>2 DEF Reach, IInv, TypeOK
    <2> QED BY <2>1, <2>3 DEF Up
  <1>3. ASSUME NEW p \in Daemons, Bind(p) PROVE Abstract!Next
    <2>1. node = 0 /\ \A q \in Daemons : listener[q] = 0
      BY <1>3, BeforeBind DEF Bind, Bound, IInv, PathFree
    <2>2. PICK i \in Inodes : node' = i /\ listener' = [listener EXCEPT ![p] = i]
      BY <1>3, <2>1 DEF Bind
    <2>3. Up = {} /\ Up' = {p}
      BY <2>1, <2>2 DEF Up, IInv, TypeOK
    <2>4. Reach' = p
      BY <1>3, <2>1, <2>2 DEF Reach, Bind, IInv, TypeOK
    <2> QED BY <2>3, <2>4 DEF Abstract!Next, Abstract!Open
  <1>4. ASSUME NEW p \in Daemons, pc[p] # "off", listener' = [listener EXCEPT ![p] = 0],
               node' = node, owner' \in {owner, None}, listener[p] = 0 => owner' = owner
        PROVE  Abstract!Next \/ UNCHANGED <<Up, Reach>>
    <2>1. CASE listener[p] = 0
      <3>1. listener' = listener
        BY <1>4, <2>1 DEF IInv, TypeOK
      <3> QED BY <1>4, <2>1, <3>1 DEF Up, Reach
    <2>2. CASE listener[p] # 0
      <3>1. \A q \in Daemons : q # p => listener[q] = 0
        BY <1>4, Alone
      <3>2. Up = {p} /\ Up' = {}
        BY <1>4, <2>2, <3>1 DEF Up, IInv, TypeOK
      <3>3. Reach' = None
        BY <1>4, <3>1 DEF Reach, IInv, TypeOK
      <3> QED BY <3>2, <3>3 DEF Abstract!Next, Abstract!Close
    <2> QED BY <2>1, <2>2
  <1>5. ASSUME NEW p \in Daemons, StopServing(p) \/ Release(p)
        PROVE  Abstract!Next \/ UNCHANGED <<Up, Reach>>
    BY <1>4, <1>5 DEF StopServing, Release, Exited
  <1>6. ASSUME NEW p \in Daemons, Killed(p)
        PROVE  Abstract!Next \/ UNCHANGED <<Up, Reach>>
    <2>1. CASE owner # p \/ listener[p] # 0
      BY <1>4, <1>6, <2>1 DEF Killed, Exited
    <2>2. CASE owner = p /\ listener[p] = 0
      BY <1>6, <2>2 DEF Killed, Exited, Up, Reach, IInv, TypeOK
    <2> QED BY <2>1, <2>2
  <1>7. CASE node' = 0 /\ owner' = None /\ listener' = listener
    BY <1>7 DEF Up, Reach, Abstract!Next, Abstract!Lose
  <1>8. CASE LegacyDies \/ UNCHANGED vars
    BY <1>8 DEF LegacyDies, vars, Up, Reach
  <1>9. ASSUME NEW p \in Daemons, CleanupRemove(p)
        PROVE  Abstract!Next \/ UNCHANGED <<Up, Reach>>
    BY <1>7, <1>9 DEF CleanupRemove, Unlinked, GiveUp, Up, Reach
  <1>10. CASE SocketRemoved
    BY <1>7, <1>10 DEF SocketRemoved, Unlinked
  <1> QED
    BY <1>1, <1>2, <1>3, <1>5, <1>6, <1>8, <1>9, <1>10 DEF Next, Start, Run, Stop

\* omgd processes implement OneDaemon: clients reach the one daemon that
\* listens, or nobody.
THEOREM ImplementsSingleton == Spec => ImplementsOneDaemon
  <1>1. Init => Abstract!Init
    BY DEF Init, Abstract!Init, Up, Reach
  <1> QED
    BY <1>1, StepImplements, ClaimInvariant, PTL
    DEF Spec, ImplementsOneDaemon, Abstract!Spec

=============================================================================
