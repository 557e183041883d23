-------------------------- MODULE DaemonServerProofs --------------------------
(***************************************************************************)
(* Proofs about DaemonServer for any number of connections, requests and   *)
(* ALPM workers: no request can inherit the join of a native thread, at    *)
(* most two workers exist, and Ok is only returned when nothing runs.      *)
(*                                                                         *)
(* The argument is about refresh_lock.  A native task owns its guard, even *)
(* when the request it started for is gone (GuardOwned), so at most one    *)
(* task exists and the workers alive are exactly the current one and the   *)
(* one that task installs or retires (WorkersOwned).  The shutdown takes   *)
(* the same lock, which is why no replacement can follow it (DownInOrder). *)
(***************************************************************************)
EXTENDS DaemonServer, FiniteSetTheorems, TLAPS

Steps == {"idle", "init", "check", "discard", "swap", "retire"}

NativeTypes ==
  /\ pc \in [Conns -> Points] /\ lease \in [Conns -> Nat]
  /\ lock \in Tasks \cup {Free}
  /\ task \in [Tasks -> [step : Steps, new : Nat, old : Nat]]
  /\ current \in Nat /\ made \in Nat /\ alive \subseteq Nat

\* Whoever works under refresh_lock owns its guard, and nobody else does.
GuardOwned ==
  /\ \A t \in Tasks : task[t].step # "idle" => lock = t
  /\ \A c \in Conns : pc[c] \in OwnsGuard \cup {"await"} => lock = c
  /\ \A c \in Conns : pc[c] \in OwnsGuard => task[c].step = "idle"
  /\ \A t \in Tasks : lock = t =>
       \/ task[t].step # "idle"
       \/ t \in Conns /\ pc[t] \in OwnsGuard

\* The workers a task holds, by its step.
TaskShape ==
  \A t \in Tasks :
    /\ task[t].step \in {"idle", "init", "retire"} => task[t].new = 0
    /\ task[t].step # "retire" => task[t].old = 0
    /\ task[t].step \in {"check", "discard"} => task[t].new # 0
    /\ task[t].step = "swap" /\ t \in Conns => task[t].new # 0
    /\ t = Drain => task[t].step \in {"idle", "swap", "retire"} /\ task[t].new = 0

\* Worker numbers are given once.
Numbered ==
  /\ current <= made
  /\ \A t \in Tasks : /\ task[t].new <= made /\ task[t].old <= made
                      /\ task[t].new # 0 => task[t].new # current
                      /\ task[t].old # 0 => task[t].old # current

\* The workers alive are the current one and those of the native task.
WorkersOwned ==
  \A w \in Nat : w \in alive <=>
    w # 0 /\ (w = current \/ \E t \in Tasks : w = task[t].new \/ w = task[t].old)

\* A lease is on the current worker or on one a task is retiring.
LeasesCovered ==
  \A c \in Conns : lease[c] # 0 =>
     lease[c] = current \/ \E t \in Tasks : task[t].old = lease[c]

\* The stages of the shutdown, and what each one leaves behind.
DownInOrder ==
  /\ stage \in Stages
  /\ stage \in {"close", "native", "wait", "audit", "exited"} =>
       worker = "joined" /\ \A c \in Conns : pc[c] = "closed"
  /\ task[Drain].step # "idle" => stage \in {"wait", "audit", "exited"}
  /\ stage = "wait" => /\ task[Drain].step = "swap" \/ current = 0
                       /\ \A c \in Conns : task[c].step = "idle"
  /\ stage \in {"audit", "exited"} /\ "native" \notin errors =>
       current = 0 /\ \A t \in Tasks : task[t].step = "idle"

IInv == /\ NativeTypes /\ GuardOwned /\ TaskShape /\ Numbered
        /\ WorkersOwned /\ LeasesCovered /\ DownInOrder

-----------------------------------------------------------------------------
\* The daemon starts with one worker and nothing running.
LEMMA InitServer == Init => IInv
  <1> SUFFICES ASSUME Init PROVE IInv
    OBVIOUS
  <1> USE ServerConstants DEF Init
  <1>1. NativeTypes
    BY DEF NativeTypes, Points, InFlight, Handling, Idle, Steps
  <1>2. GuardOwned /\ TaskShape
    BY DEF GuardOwned, TaskShape, Idle, OwnsGuard, Tasks
  <1>3. Numbered
    BY DEF Numbered, Idle
  <1>4. WorkersOwned
    BY DEF WorkersOwned, Idle
  <1>5. LeasesCovered /\ DownInOrder
    BY DEF LeasesCovered, DownInOrder, Stages, Idle, Tasks
  <1> QED BY <1>1, <1>2, <1>3, <1>4, <1>5 DEF IInv

\* At most one native task: every other one is idle and holds no worker.
LEMMA OneTask ==
  ASSUME IInv, NEW t \in Tasks, task[t].step # "idle"
  PROVE  \A u \in Tasks : u # t => task[u].step = "idle" /\ task[u].new = 0 /\ task[u].old = 0
  BY DEF IInv, GuardOwned, TaskShape

-----------------------------------------------------------------------------
(* Steps that move neither a connection nor a native task.                 *)

\* The invariant only looks at the stage, the worker and the errors of the
\* accept loop and of the drains.
LEMMA QuietStep ==
  ASSUME IInv, UNCHANGED <<connVars, nativeVars>>, DownInOrder'
  PROVE  IInv'
  BY DEF connVars, nativeVars, IInv, NativeTypes, GuardOwned, TaskShape,
     Numbered,
         WorkersOwned, LeasesCovered

\* The accept loop, the background worker and the join of the worker.
LEMMA IntakeStep ==
  ASSUME IInv,
         SignalArrives \/ SocketRemoved \/ WorkerTask \/ WorkerPanics \/ Intake
           \/ DrainWorker \/ DrainDeadline \/ AbortWorker
  PROVE  IInv'
  <1>1. CASE SignalArrives
    <2>1. UNCHANGED <<connVars, nativeVars>>
      BY <1>1 DEF SignalArrives
    <2>2. DownInOrder'
      BY <1>1, <2>1 DEF SignalArrives, connVars, nativeVars, IInv, DownInOrder,
         Stages
    <2> QED BY <2>1, <2>2, QuietStep
  <1>2. CASE SocketRemoved
    <2>1. UNCHANGED <<connVars, nativeVars>>
      BY <1>2 DEF SocketRemoved
    <2>2. DownInOrder'
      BY <1>2, <2>1 DEF SocketRemoved, connVars, nativeVars, IInv, DownInOrder,
         Stages
    <2> QED BY <2>1, <2>2, QuietStep
  <1>3. CASE WorkerShutsDown
    <2>1. UNCHANGED <<connVars, nativeVars>>
      BY <1>3 DEF WorkerShutsDown
    <2>2. DownInOrder'
      BY <1>3, <2>1 DEF WorkerShutsDown, connVars, nativeVars, IInv,
         DownInOrder, Stages
    <2> QED BY <2>1, <2>2, QuietStep
  <1>4. CASE HealthReports
    <2>1. UNCHANGED <<connVars, nativeVars>>
      BY <1>4 DEF HealthReports
    <2>2. DownInOrder'
      BY <1>4, <2>1 DEF HealthReports, connVars, nativeVars, IInv, DownInOrder,
         Stages
    <2> QED BY <2>1, <2>2, QuietStep
  <1>5. CASE HealthCancels
    <2>1. UNCHANGED <<connVars, nativeVars>>
      BY <1>5 DEF HealthCancels
    <2>2. DownInOrder'
      BY <1>5, <2>1 DEF HealthCancels, connVars, nativeVars, IInv, DownInOrder,
         Stages
    <2> QED BY <2>1, <2>2, QuietStep
  <1>6. CASE WorkerPanics
    <2>1. UNCHANGED <<connVars, nativeVars>>
      BY <1>6 DEF WorkerPanics
    <2>2. DownInOrder'
      BY <1>6, <2>1 DEF WorkerPanics, connVars, nativeVars, IInv, DownInOrder,
         Stages
    <2> QED BY <2>1, <2>2, QuietStep
  <1>7. CASE ReceiveFailure
    <2>1. UNCHANGED <<connVars, nativeVars>>
      BY <1>7 DEF ReceiveFailure
    <2>2. DownInOrder'
      BY <1>7, <2>1 DEF ReceiveFailure, StopIntake, connVars, nativeVars, IInv,
         DownInOrder, Stages
    <2> QED BY <2>1, <2>2, QuietStep
  <1>8. CASE TakeSignal
    <2>1. UNCHANGED <<connVars, nativeVars>>
      BY <1>8 DEF TakeSignal
    <2>2. DownInOrder'
      BY <1>8, <2>1 DEF TakeSignal, StopIntake, connVars, nativeVars, IInv,
         DownInOrder, Stages
    <2> QED BY <2>1, <2>2, QuietStep
  <1>9. CASE SeeCancelled
    <2>1. UNCHANGED <<connVars, nativeVars>>
      BY <1>9 DEF SeeCancelled
    <2>2. DownInOrder'
      BY <1>9, <2>1 DEF SeeCancelled, StopIntake, connVars, nativeVars, IInv,
         DownInOrder, Stages
    <2> QED BY <2>1, <2>2, QuietStep
  <1>10. CASE JoinWorker
    <2>1. UNCHANGED <<connVars, nativeVars>>
      BY <1>10 DEF JoinWorker
    <2>2. DownInOrder'
      BY <1>10, <2>1 DEF JoinWorker, StopIntake, connVars, nativeVars, IInv,
         DownInOrder, Stages
    <2> QED BY <2>1, <2>2, QuietStep
  <1>11. CASE AcceptFails
    <2>1. UNCHANGED <<connVars, nativeVars>>
      BY <1>11 DEF AcceptFails
    <2>2. DownInOrder'
      BY <1>11, <2>1 DEF AcceptFails, StopIntake, connVars, nativeVars, IInv,
         DownInOrder, Stages
    <2> QED BY <2>1, <2>2, QuietStep
  <1>12. CASE DrainWorker
    <2>1. UNCHANGED <<connVars, nativeVars>>
      BY <1>12 DEF DrainWorker
    <2>2. DownInOrder'
      BY <1>12, <2>1 DEF DrainWorker, connVars, nativeVars, IInv, DownInOrder,
         Stages
    <2> QED BY <2>1, <2>2, QuietStep
  <1>13. CASE DrainDeadline
    <2>1. UNCHANGED <<connVars, nativeVars>>
      BY <1>13 DEF DrainDeadline
    <2>2. DownInOrder'
      BY <1>13, <2>1 DEF DrainDeadline, connVars, nativeVars, IInv,
         DownInOrder, Stages
    <2> QED BY <2>1, <2>2, QuietStep
  <1>14. CASE AbortWorker
    <2>1. UNCHANGED <<connVars, nativeVars>>
      BY <1>14 DEF AbortWorker
    <2>2. DownInOrder'
      BY <1>14, <2>1 DEF AbortWorker, connVars, nativeVars, IInv, DownInOrder,
         Stages
    <2> QED BY <2>1, <2>2, QuietStep
  <1> QED
    BY <1>1, <1>2, <1>3, <1>4, <1>5, <1>6, <1>7, <1>8, <1>9, <1>10, <1>11,
       <1>12, <1>13, <1>14 DEF WorkerTask, Intake

\* The stages after the drain.
LEMMA StageStep ==
  ASSUME IInv, Drained \/ CloseTracker \/ NativeDrained \/ NativeDeadline \/ Exit
  PROVE  IInv'
  <1>1. CASE Drained
    <2>1. UNCHANGED <<connVars, lock, task, current, alive, made>>
      BY <1>1 DEF Drained, nativeVars
    <2>2. DownInOrder'
      BY <1>1, <2>1, ServerConstants DEF Drained, TasksJoined, connVars, IInv,
         DownInOrder, Stages, Tasks
    <2> QED
      BY <2>1, <2>2 DEF connVars, IInv, NativeTypes, GuardOwned, TaskShape,
         Numbered,
         WorkersOwned, LeasesCovered
  <1>2. CASE CloseTracker
    <2>1. UNCHANGED <<connVars, lock, task, current, alive, made>>
      BY <1>2 DEF CloseTracker, nativeVars
    <2>2. DownInOrder'
      BY <1>2, <2>1, ServerConstants DEF CloseTracker, connVars, IInv,
         DownInOrder, Stages, Tasks
    <2> QED
      BY <2>1, <2>2 DEF connVars, IInv, NativeTypes, GuardOwned, TaskShape,
         Numbered,
         WorkersOwned, LeasesCovered
  <1>3. CASE NativeDrained
    <2>1. UNCHANGED <<connVars, lock, task, current, alive, made>>
      BY <1>3 DEF NativeDrained, nativeVars
    <2>2. DownInOrder'
      BY <1>3, <2>1, ServerConstants DEF NativeDrained, Idle, connVars, IInv,
         DownInOrder, Stages, Tasks
    <2> QED
      BY <2>1, <2>2 DEF connVars, IInv, NativeTypes, GuardOwned, TaskShape,
         Numbered,
         WorkersOwned, LeasesCovered
  <1>4. CASE NativeDeadline
    <2>1. UNCHANGED <<connVars, lock, task, current, alive, made>>
      BY <1>4 DEF NativeDeadline, nativeVars
    <2>2. DownInOrder'
      BY <1>4, <2>1, ServerConstants DEF NativeDeadline, connVars, IInv,
         DownInOrder, Stages, Tasks
    <2> QED
      BY <2>1, <2>2 DEF connVars, IInv, NativeTypes, GuardOwned, TaskShape,
         Numbered,
         WorkersOwned, LeasesCovered
  <1>5. CASE Exit
    <2>1. UNCHANGED <<connVars, lock, task, current, alive, made>>
      BY <1>5 DEF Exit, nativeVars
    <2>2. DownInOrder'
      BY <1>5, <2>1, ServerConstants DEF Exit, connVars, IInv, DownInOrder,
         Stages, Tasks
    <2> QED
      BY <2>1, <2>2 DEF connVars, IInv, NativeTypes, GuardOwned, TaskShape,
         Numbered,
         WorkersOwned, LeasesCovered
  <1> QED
    BY <1>1, <1>2, <1>3, <1>4, <1>5

-----------------------------------------------------------------------------
(* Steps of the connections.                                               *)

\* One case per step of handle_client, and the drain of the connections.
LEMMA ClientStep ==
  ASSUME IInv, NEW c \in Conns, Client(c) \/ DrainPanicked(c) \/ AbortConnection(c)
  PROVE  IInv'
  <1> USE ServerConstants
  <1>1. CASE Accept(c)
    <2>1. NativeTypes'
      BY <1>1 DEF Accept, intakeVars, nativeVars, IInv, NativeTypes, Points,
         InFlight, Handling
    <2>2. GuardOwned'
      BY <1>1 DEF Accept, intakeVars, nativeVars, IInv, GuardOwned,
         NativeTypes, OwnsGuard, Tasks
    <2>3. TaskShape'
      BY <1>1 DEF Accept, nativeVars, IInv, TaskShape
    <2>4. Numbered'
      BY <1>1 DEF Accept, nativeVars, IInv, Numbered
    <2>5. WorkersOwned'
      BY <1>1 DEF Accept, nativeVars, IInv, WorkersOwned
    <2>6. LeasesCovered'
      BY <1>1 DEF Accept, intakeVars, nativeVars, IInv, LeasesCovered,
         NativeTypes
    <2>7. DownInOrder'
      BY <1>1 DEF Accept, intakeVars, nativeVars, IInv, DownInOrder, NativeTypes
    <2> QED BY <2>1, <2>2, <2>3, <2>4, <2>5, <2>6, <2>7 DEF IInv
  <1>2. CASE ReapPanicked(c)
    <2>1. NativeTypes'
      BY <1>2 DEF ReapPanicked, intakeVars, nativeVars, IInv, NativeTypes,
         Points, InFlight, Handling
    <2>2. GuardOwned'
      BY <1>2 DEF ReapPanicked, intakeVars, nativeVars, IInv, GuardOwned,
         NativeTypes, OwnsGuard, Tasks
    <2>3. TaskShape'
      BY <1>2 DEF ReapPanicked, nativeVars, IInv, TaskShape
    <2>4. Numbered'
      BY <1>2 DEF ReapPanicked, nativeVars, IInv, Numbered
    <2>5. WorkersOwned'
      BY <1>2 DEF ReapPanicked, nativeVars, IInv, WorkersOwned
    <2>6. LeasesCovered'
      BY <1>2 DEF ReapPanicked, intakeVars, nativeVars, IInv, LeasesCovered,
         NativeTypes
    <2>7. DownInOrder'
      BY <1>2 DEF ReapPanicked, intakeVars, nativeVars, IInv, DownInOrder,
         NativeTypes
    <2> QED BY <2>1, <2>2, <2>3, <2>4, <2>5, <2>6, <2>7 DEF IInv
  <1>3. CASE ReadFrame(c)
    <2>1. NativeTypes'
      BY <1>3 DEF ReadFrame, intakeVars, nativeVars, IInv, NativeTypes, Points,
         InFlight, Handling
    <2>2. GuardOwned'
      BY <1>3 DEF ReadFrame, intakeVars, nativeVars, IInv, GuardOwned,
         NativeTypes, OwnsGuard, Tasks
    <2>3. TaskShape'
      BY <1>3 DEF ReadFrame, nativeVars, IInv, TaskShape
    <2>4. Numbered'
      BY <1>3 DEF ReadFrame, nativeVars, IInv, Numbered
    <2>5. WorkersOwned'
      BY <1>3 DEF ReadFrame, nativeVars, IInv, WorkersOwned
    <2>6. LeasesCovered'
      BY <1>3 DEF ReadFrame, intakeVars, nativeVars, IInv, LeasesCovered,
         NativeTypes
    <2>7. DownInOrder'
      BY <1>3 DEF ReadFrame, intakeVars, nativeVars, IInv, DownInOrder,
         NativeTypes
    <2> QED BY <2>1, <2>2, <2>3, <2>4, <2>5, <2>6, <2>7 DEF IInv
  <1>4. CASE HangUp(c)
    <2>1. NativeTypes'
      BY <1>4 DEF HangUp, intakeVars, nativeVars, IInv, NativeTypes, Points,
         InFlight, Handling
    <2>2. GuardOwned'
      BY <1>4 DEF HangUp, intakeVars, nativeVars, IInv, GuardOwned,
         NativeTypes, OwnsGuard, Tasks
    <2>3. TaskShape'
      BY <1>4 DEF HangUp, nativeVars, IInv, TaskShape
    <2>4. Numbered'
      BY <1>4 DEF HangUp, nativeVars, IInv, Numbered
    <2>5. WorkersOwned'
      BY <1>4 DEF HangUp, nativeVars, IInv, WorkersOwned
    <2>6. LeasesCovered'
      BY <1>4 DEF HangUp, intakeVars, nativeVars, IInv, LeasesCovered,
         NativeTypes
    <2>7. DownInOrder'
      BY <1>4 DEF HangUp, intakeVars, nativeVars, IInv, DownInOrder, NativeTypes
    <2> QED BY <2>1, <2>2, <2>3, <2>4, <2>5, <2>6, <2>7 DEF IInv
  <1>5. CASE Handled(c)
    <2>1. NativeTypes'
      BY <1>5 DEF Handled, intakeVars, nativeVars, IInv, NativeTypes, Points,
         InFlight, Handling
    <2>2. GuardOwned'
      BY <1>5 DEF Handled, intakeVars, nativeVars, IInv, GuardOwned,
         NativeTypes, OwnsGuard, Tasks
    <2>3. TaskShape'
      BY <1>5 DEF Handled, nativeVars, IInv, TaskShape
    <2>4. Numbered'
      BY <1>5 DEF Handled, nativeVars, IInv, Numbered
    <2>5. WorkersOwned'
      BY <1>5 DEF Handled, nativeVars, IInv, WorkersOwned
    <2>6. LeasesCovered'
      BY <1>5 DEF Handled, intakeVars, nativeVars, IInv, LeasesCovered,
         NativeTypes
    <2>7. DownInOrder'
      BY <1>5 DEF Handled, intakeVars, nativeVars, IInv, DownInOrder,
         NativeTypes
    <2> QED BY <2>1, <2>2, <2>3, <2>4, <2>5, <2>6, <2>7 DEF IInv
  <1>6. CASE TimeOut(c)
    <2>1. NativeTypes'
      BY <1>6 DEF TimeOut, intakeVars, nativeVars, IInv, NativeTypes, Points,
         InFlight, Handling, OwnsGuard
    <2>2. GuardOwned'
      BY <1>6 DEF TimeOut, intakeVars, nativeVars, IInv, GuardOwned,
         NativeTypes, OwnsGuard, Tasks, Handling
    <2>3. TaskShape'
      BY <1>6 DEF TimeOut, nativeVars, IInv, TaskShape, Handling, OwnsGuard
    <2>4. Numbered'
      BY <1>6 DEF TimeOut, nativeVars, IInv, Numbered, Handling, OwnsGuard
    <2>5. WorkersOwned'
      BY <1>6 DEF TimeOut, nativeVars, IInv, WorkersOwned, Handling, OwnsGuard
    <2>6. LeasesCovered'
      BY <1>6 DEF TimeOut, intakeVars, nativeVars, IInv, LeasesCovered,
         NativeTypes, Handling, OwnsGuard
    <2>7. DownInOrder'
      BY <1>6 DEF TimeOut, intakeVars, nativeVars, IInv, DownInOrder,
         NativeTypes, Handling, OwnsGuard
    <2> QED BY <2>1, <2>2, <2>3, <2>4, <2>5, <2>6, <2>7 DEF IInv
  <1>7. CASE HandlerPanics(c)
    <2>1. NativeTypes'
      BY <1>7 DEF HandlerPanics, intakeVars, nativeVars, IInv, NativeTypes,
         Points, InFlight, Handling, OwnsGuard
    <2>2. GuardOwned'
      BY <1>7 DEF HandlerPanics, intakeVars, nativeVars, IInv, GuardOwned,
         NativeTypes, OwnsGuard, Tasks, InFlight, Handling
    <2>3. TaskShape'
      BY <1>7 DEF HandlerPanics, nativeVars, IInv, TaskShape
    <2>4. Numbered'
      BY <1>7 DEF HandlerPanics, nativeVars, IInv, Numbered
    <2>5. WorkersOwned'
      BY <1>7 DEF HandlerPanics, nativeVars, IInv, WorkersOwned
    <2>6. LeasesCovered'
      BY <1>7 DEF HandlerPanics, intakeVars, nativeVars, IInv, LeasesCovered,
         NativeTypes
    <2>7. DownInOrder'
      BY <1>7 DEF HandlerPanics, intakeVars, nativeVars, IInv, DownInOrder,
         NativeTypes, InFlight, Handling
    <2> QED BY <2>1, <2>2, <2>3, <2>4, <2>5, <2>6, <2>7 DEF IInv
  <1>8. CASE Reply(c)
    <2>1. NativeTypes'
      BY <1>8 DEF Reply, intakeVars, nativeVars, IInv, NativeTypes, Points,
         InFlight, Handling
    <2>2. GuardOwned'
      BY <1>8 DEF Reply, intakeVars, nativeVars, IInv, GuardOwned, NativeTypes,
         OwnsGuard, Tasks
    <2>3. TaskShape'
      BY <1>8 DEF Reply, nativeVars, IInv, TaskShape
    <2>4. Numbered'
      BY <1>8 DEF Reply, nativeVars, IInv, Numbered
    <2>5. WorkersOwned'
      BY <1>8 DEF Reply, nativeVars, IInv, WorkersOwned
    <2>6. LeasesCovered'
      BY <1>8 DEF Reply, intakeVars, nativeVars, IInv, LeasesCovered,
         NativeTypes
    <2>7. DownInOrder'
      BY <1>8 DEF Reply, intakeVars, nativeVars, IInv, DownInOrder, NativeTypes
    <2> QED BY <2>1, <2>2, <2>3, <2>4, <2>5, <2>6, <2>7 DEF IInv
  <1>9. CASE TakeLease(c)
    <2>1. NativeTypes'
      BY <1>9 DEF TakeLease, intakeVars, nativeVars, IInv, NativeTypes, Points,
         InFlight, Handling
    <2>2. GuardOwned'
      BY <1>9 DEF TakeLease, intakeVars, nativeVars, IInv, GuardOwned,
         NativeTypes, OwnsGuard, Tasks
    <2>3. TaskShape'
      BY <1>9 DEF TakeLease, nativeVars, IInv, TaskShape
    <2>4. Numbered'
      BY <1>9 DEF TakeLease, nativeVars, IInv, Numbered
    <2>5. WorkersOwned'
      BY <1>9 DEF TakeLease, nativeVars, IInv, WorkersOwned
    <2>6. LeasesCovered'
      BY <1>9 DEF TakeLease, intakeVars, nativeVars, IInv, LeasesCovered,
         NativeTypes
    <2>7. DownInOrder'
      BY <1>9 DEF TakeLease, intakeVars, nativeVars, IInv, DownInOrder,
         NativeTypes
    <2> QED BY <2>1, <2>2, <2>3, <2>4, <2>5, <2>6, <2>7 DEF IInv
  <1>10. CASE NeedRefresh(c)
    <2>1. NativeTypes'
      BY <1>10 DEF NeedRefresh, intakeVars, nativeVars, IInv, NativeTypes,
         Points, InFlight, Handling
    <2>2. GuardOwned'
      BY <1>10 DEF NeedRefresh, intakeVars, nativeVars, IInv, GuardOwned,
         NativeTypes, OwnsGuard, Tasks
    <2>3. TaskShape'
      BY <1>10 DEF NeedRefresh, nativeVars, IInv, TaskShape
    <2>4. Numbered'
      BY <1>10 DEF NeedRefresh, nativeVars, IInv, Numbered
    <2>5. WorkersOwned'
      BY <1>10 DEF NeedRefresh, nativeVars, IInv, WorkersOwned
    <2>6. LeasesCovered'
      BY <1>10 DEF NeedRefresh, intakeVars, nativeVars, IInv, LeasesCovered,
         NativeTypes
    <2>7. DownInOrder'
      BY <1>10 DEF NeedRefresh, intakeVars, nativeVars, IInv, DownInOrder,
         NativeTypes
    <2> QED BY <2>1, <2>2, <2>3, <2>4, <2>5, <2>6, <2>7 DEF IInv
  <1>11. CASE TakeLock(c)
    <2>1. NativeTypes'
      BY <1>11 DEF TakeLock, intakeVars, nativeVars, IInv, NativeTypes, Tasks,
         Points, InFlight, Handling
    <2>2. GuardOwned'
      BY <1>11 DEF TakeLock, intakeVars, nativeVars, IInv, GuardOwned, Tasks,
         NativeTypes, OwnsGuard
    <2>3. TaskShape'
      BY <1>11 DEF TakeLock, nativeVars, IInv, TaskShape, Tasks
    <2>4. Numbered'
      BY <1>11 DEF TakeLock, nativeVars, IInv, Numbered, Tasks
    <2>5. WorkersOwned'
      BY <1>11 DEF TakeLock, nativeVars, IInv, WorkersOwned, Tasks
    <2>6. LeasesCovered'
      BY <1>11 DEF TakeLock, intakeVars, nativeVars, IInv, LeasesCovered,
         Tasks, NativeTypes
    <2>7. DownInOrder'
      BY <1>11 DEF TakeLock, intakeVars, nativeVars, IInv, DownInOrder, Tasks,
         NativeTypes
    <2> QED BY <2>1, <2>2, <2>3, <2>4, <2>5, <2>6, <2>7 DEF IInv
  <1>12. CASE SpawnRefresh(c)
    <2> DEFINE new == [step |-> "init", new |-> 0, old |-> 0]
    <2>0. /\ c \in Tasks /\ lock = c /\ task[c].step = "idle"
          /\ task[c].new = 0 /\ task[c].old = 0
      BY <1>12 DEF SpawnRefresh, IInv, GuardOwned, TaskShape, OwnsGuard, Tasks
    <2>1. /\ UNCHANGED <<stage, worker, errors, lease, current, alive, made>>
          /\ \/ /\ task' = task /\ lock' = Free /\ pc' = [pc EXCEPT ![c] = "handle"]
             \/ /\ task' = [task EXCEPT ![c] = new] /\ lock' = lock
                /\ pc' = [pc EXCEPT ![c] = "await"]
      BY <1>12 DEF SpawnRefresh, intakeVars
    <2>2. new \in [step : Steps, new : Nat, old : Nat]
      BY DEF Steps
    <2>3. \A t \in Tasks : /\ task'[t].new = task[t].new /\ task'[t].old = task[t].old
                           /\ t # c => task'[t].step = task[t].step
                           /\ task'[t].step = task[t].step \/ task'[t].step = "init"
      BY <2>0, <2>1 DEF IInv, NativeTypes
    <2>a. NativeTypes'
      BY <2>1, <2>2 DEF IInv, NativeTypes, Points, InFlight, Handling
    <2>b. GuardOwned'
      BY <2>0, <2>1, <2>3 DEF IInv, NativeTypes, GuardOwned, OwnsGuard, Tasks
    <2>c. TaskShape'
      BY <2>0, <2>3 DEF IInv, TaskShape
    <2>d. Numbered' /\ WorkersOwned' /\ LeasesCovered'
      BY <2>1, <2>3 DEF IInv, Numbered, WorkersOwned, LeasesCovered
    <2>e. DownInOrder'
      BY <1>12, <2>1, <2>3 DEF SpawnRefresh, IInv, NativeTypes, DownInOrder,
         Tasks
    <2> QED BY <2>a, <2>b, <2>c, <2>d, <2>e DEF IInv
  <1>13. CASE DropGuard(c)
    <2>1. NativeTypes'
      BY <1>13 DEF DropGuard, intakeVars, nativeVars, IInv, NativeTypes,
         Points, InFlight, Handling, OwnsGuard
    <2>2. GuardOwned'
      BY <1>13 DEF DropGuard, intakeVars, nativeVars, IInv, GuardOwned,
         NativeTypes, OwnsGuard, Tasks
    <2>3. TaskShape'
      BY <1>13 DEF DropGuard, nativeVars, IInv, TaskShape, OwnsGuard
    <2>4. Numbered'
      BY <1>13 DEF DropGuard, nativeVars, IInv, Numbered, OwnsGuard
    <2>5. WorkersOwned'
      BY <1>13 DEF DropGuard, nativeVars, IInv, WorkersOwned, OwnsGuard
    <2>6. LeasesCovered'
      BY <1>13 DEF DropGuard, intakeVars, nativeVars, IInv, LeasesCovered,
         NativeTypes, OwnsGuard
    <2>7. DownInOrder'
      BY <1>13 DEF DropGuard, intakeVars, nativeVars, IInv, DownInOrder,
         NativeTypes, OwnsGuard
    <2> QED BY <2>1, <2>2, <2>3, <2>4, <2>5, <2>6, <2>7 DEF IInv
  <1>14. CASE DrainPanicked(c)
    <2>1. NativeTypes'
      BY <1>14 DEF DrainPanicked, intakeVars, nativeVars, IInv, NativeTypes,
         Points, InFlight, Handling
    <2>2. GuardOwned'
      BY <1>14 DEF DrainPanicked, intakeVars, nativeVars, IInv, GuardOwned,
         NativeTypes, OwnsGuard, Tasks
    <2>3. TaskShape'
      BY <1>14 DEF DrainPanicked, nativeVars, IInv, TaskShape
    <2>4. Numbered'
      BY <1>14 DEF DrainPanicked, nativeVars, IInv, Numbered
    <2>5. WorkersOwned'
      BY <1>14 DEF DrainPanicked, nativeVars, IInv, WorkersOwned
    <2>6. LeasesCovered'
      BY <1>14 DEF DrainPanicked, intakeVars, nativeVars, IInv, LeasesCovered,
         NativeTypes
    <2>7. DownInOrder'
      BY <1>14 DEF DrainPanicked, intakeVars, nativeVars, IInv, DownInOrder,
         NativeTypes
    <2> QED BY <2>1, <2>2, <2>3, <2>4, <2>5, <2>6, <2>7 DEF IInv
  <1>15. CASE AbortConnection(c)
    <2>1. NativeTypes'
      BY <1>15 DEF AbortConnection, intakeVars, nativeVars, IInv, NativeTypes,
         Points, InFlight, Handling, OwnsGuard
    <2>2. GuardOwned'
      BY <1>15 DEF AbortConnection, intakeVars, nativeVars, IInv, GuardOwned,
         NativeTypes, OwnsGuard, Tasks
    <2>3. TaskShape'
      BY <1>15 DEF AbortConnection, nativeVars, IInv, TaskShape, OwnsGuard
    <2>4. Numbered'
      BY <1>15 DEF AbortConnection, nativeVars, IInv, Numbered, OwnsGuard
    <2>5. WorkersOwned'
      BY <1>15 DEF AbortConnection, nativeVars, IInv, WorkersOwned, OwnsGuard
    <2>6. LeasesCovered'
      BY <1>15 DEF AbortConnection, intakeVars, nativeVars, IInv,
         LeasesCovered, NativeTypes, OwnsGuard
    <2>7. DownInOrder'
      BY <1>15 DEF AbortConnection, intakeVars, nativeVars, IInv, DownInOrder,
         NativeTypes, OwnsGuard
    <2> QED BY <2>1, <2>2, <2>3, <2>4, <2>5, <2>6, <2>7 DEF IInv
  <1> QED
    BY <1>1, <1>2, <1>3, <1>4, <1>5, <1>6, <1>7, <1>8, <1>9, <1>10, <1>11,
       <1>12, <1>13, <1>14, <1>15 DEF Client

-----------------------------------------------------------------------------
(* Steps of the native tasks.                                              *)

\* One case per step of refresh_system_backends and of the retirement.
LEMMA NativeStep ==
  ASSUME IInv, NEW t \in Tasks, NativeTask(t)
  PROVE  IInv'
  <1> USE ServerConstants
  <1>1. CASE Construct(t)
    <2>0. /\ lock = t /\ task[t].step # "idle"
          /\ \A u \in Tasks : u # t => task[u].step = "idle" /\ task[u].new = 0
                                        /\ task[u].old = 0
      BY <1>1, OneTask DEF Construct, IInv, GuardOwned
    <2>1. NativeTypes'
      BY <1>1, <2>0 DEF Construct, IInv, NativeTypes, Points, InFlight,
         Handling, Steps, Idle, intakeVars, connVars
    <2>2. GuardOwned'
      BY <1>1, <2>0 DEF Construct, IInv, NativeTypes, GuardOwned, OwnsGuard,
         Tasks, Idle, connVars
    <2>3. TaskShape'
      BY <1>1, <2>0 DEF Construct, IInv, NativeTypes, TaskShape, Idle
    <2>4. Numbered'
      BY <1>1, <2>0 DEF Construct, IInv, NativeTypes, Numbered, Idle, TaskShape
    <2>5. WorkersOwned'
      BY <1>1, <2>0 DEF Construct, IInv, NativeTypes, WorkersOwned, Idle,
         TaskShape, Numbered
    <2>6. LeasesCovered'
      BY <1>1, <2>0 DEF Construct, IInv, NativeTypes, LeasesCovered, Idle,
         connVars, TaskShape
    <2>7. DownInOrder'
      BY <1>1, <2>0 DEF Construct, IInv, NativeTypes, DownInOrder, Idle,
         TaskShape, intakeVars, connVars, Tasks, Stages
    <2> QED BY <2>1, <2>2, <2>3, <2>4, <2>5, <2>6, <2>7 DEF IInv
  <1>2. CASE ConstructFails(t)
    <2>0. /\ lock = t /\ task[t].step # "idle"
          /\ \A u \in Tasks : u # t => task[u].step = "idle" /\ task[u].new = 0
                                        /\ task[u].old = 0
      BY <1>2, OneTask DEF ConstructFails, IInv, GuardOwned
    <2>1. NativeTypes'
      BY <1>2, <2>0 DEF ConstructFails, IInv, NativeTypes, Points, InFlight,
         Handling, Steps, Idle, intakeVars, connVars, OwnsGuard, EndTask
    <2>2. GuardOwned'
      BY <1>2, <2>0 DEF ConstructFails, IInv, NativeTypes, GuardOwned,
         OwnsGuard, Tasks, Idle, connVars, Points, InFlight, Handling, EndTask
    <2>3. TaskShape'
      BY <1>2, <2>0 DEF ConstructFails, IInv, NativeTypes, TaskShape, Idle,
         EndTask
    <2>4. Numbered'
      BY <1>2, <2>0 DEF ConstructFails, IInv, NativeTypes, Numbered, Idle,
         TaskShape, EndTask
    <2>5. WorkersOwned'
      BY <1>2, <2>0 DEF ConstructFails, IInv, NativeTypes, WorkersOwned, Idle,
         TaskShape, Numbered, EndTask
    <2>6. LeasesCovered'
      BY <1>2, <2>0 DEF ConstructFails, IInv, NativeTypes, LeasesCovered, Idle,
         connVars, TaskShape, EndTask
    <2>7. DownInOrder'
      BY <1>2, <2>0 DEF ConstructFails, IInv, NativeTypes, DownInOrder, Idle,
         TaskShape, intakeVars, connVars, Tasks, Stages, EndTask
    <2> QED BY <2>1, <2>2, <2>3, <2>4, <2>5, <2>6, <2>7 DEF IInv
  <1>3. CASE CheckReplacement(t)
    <2>0. /\ lock = t /\ task[t].step # "idle"
          /\ \A u \in Tasks : u # t => task[u].step = "idle" /\ task[u].new = 0
                                        /\ task[u].old = 0
      BY <1>3, OneTask DEF CheckReplacement, IInv, GuardOwned
    <2>1. NativeTypes'
      BY <1>3, <2>0 DEF CheckReplacement, IInv, NativeTypes, Points, InFlight,
         Handling, Steps, Idle, intakeVars, connVars
    <2>2. GuardOwned'
      BY <1>3, <2>0 DEF CheckReplacement, IInv, NativeTypes, GuardOwned,
         OwnsGuard, Tasks, Idle, connVars
    <2>3. TaskShape'
      BY <1>3, <2>0 DEF CheckReplacement, IInv, NativeTypes, TaskShape, Idle
    <2>4. Numbered'
      BY <1>3, <2>0 DEF CheckReplacement, IInv, NativeTypes, Numbered, Idle,
         TaskShape
    <2>5. WorkersOwned'
      BY <1>3, <2>0 DEF CheckReplacement, IInv, NativeTypes, WorkersOwned,
         Idle, TaskShape, Numbered
    <2>6. LeasesCovered'
      BY <1>3, <2>0 DEF CheckReplacement, IInv, NativeTypes, LeasesCovered,
         Idle, connVars, TaskShape
    <2>7. DownInOrder'
      BY <1>3, <2>0 DEF CheckReplacement, IInv, NativeTypes, DownInOrder, Idle,
         TaskShape, intakeVars, connVars, Tasks, Stages
    <2> QED BY <2>1, <2>2, <2>3, <2>4, <2>5, <2>6, <2>7 DEF IInv
  <1>4. CASE Discard(t)
    <2>0. /\ lock = t /\ task[t].step # "idle"
          /\ \A u \in Tasks : u # t => task[u].step = "idle" /\ task[u].new = 0
                                        /\ task[u].old = 0
      BY <1>4, OneTask DEF Discard, IInv, GuardOwned
    <2>1. NativeTypes'
      BY <1>4, <2>0 DEF Discard, IInv, NativeTypes, Points, InFlight, Handling,
         Steps, Idle, intakeVars, connVars, OwnsGuard, EndTask
    <2>2. GuardOwned'
      BY <1>4, <2>0 DEF Discard, IInv, NativeTypes, GuardOwned, OwnsGuard,
         Tasks, Idle, connVars, Points, InFlight, Handling, EndTask
    <2>3. TaskShape'
      BY <1>4, <2>0 DEF Discard, IInv, NativeTypes, TaskShape, Idle, EndTask
    <2>4. Numbered'
      BY <1>4, <2>0 DEF Discard, IInv, NativeTypes, Numbered, Idle, TaskShape,
         EndTask
    <2>5. WorkersOwned'
      BY <1>4, <2>0 DEF Discard, IInv, NativeTypes, WorkersOwned, Idle,
         TaskShape, Numbered, EndTask
    <2>6. LeasesCovered'
      BY <1>4, <2>0 DEF Discard, IInv, NativeTypes, LeasesCovered, Idle,
         connVars, TaskShape, EndTask
    <2>7. DownInOrder'
      BY <1>4, <2>0 DEF Discard, IInv, NativeTypes, DownInOrder, Idle,
         TaskShape, intakeVars, connVars, Tasks, Stages, EndTask
    <2> QED BY <2>1, <2>2, <2>3, <2>4, <2>5, <2>6, <2>7 DEF IInv
  <1>5. CASE Replace(t)
    <2>0. /\ lock = t /\ task[t].step # "idle"
          /\ \A u \in Tasks : u # t => task[u].step = "idle" /\ task[u].new = 0
                                        /\ task[u].old = 0
      BY <1>5, OneTask DEF Replace, IInv, GuardOwned
    <2>1. NativeTypes'
      BY <1>5, <2>0 DEF Replace, IInv, NativeTypes, Points, InFlight, Handling,
         Steps, Idle, intakeVars, connVars
    <2>2. GuardOwned'
      BY <1>5, <2>0 DEF Replace, IInv, NativeTypes, GuardOwned, OwnsGuard,
         Tasks, Idle, connVars
    <2>3. TaskShape'
      BY <1>5, <2>0 DEF Replace, IInv, NativeTypes, TaskShape, Idle
    <2>4. Numbered'
      BY <1>5, <2>0 DEF Replace, IInv, NativeTypes, Numbered, Idle, TaskShape
    <2>5. WorkersOwned'
      BY <1>5, <2>0 DEF Replace, IInv, NativeTypes, WorkersOwned, Idle,
         TaskShape, Numbered
    <2>6. LeasesCovered'
      BY <1>5, <2>0 DEF Replace, IInv, NativeTypes, LeasesCovered, Idle,
         connVars, TaskShape
    <2>7. DownInOrder'
      BY <1>5, <2>0 DEF Replace, IInv, NativeTypes, DownInOrder, Idle,
         TaskShape, intakeVars, connVars, Tasks, Stages
    <2> QED BY <2>1, <2>2, <2>3, <2>4, <2>5, <2>6, <2>7 DEF IInv
  <1>6. CASE Retire(t)
    <2>0. /\ lock = t /\ task[t].step # "idle"
          /\ \A u \in Tasks : u # t => task[u].step = "idle" /\ task[u].new = 0
                                        /\ task[u].old = 0
      BY <1>6, OneTask DEF Retire, IInv, GuardOwned
    <2>1. NativeTypes'
      BY <1>6, <2>0 DEF Retire, IInv, NativeTypes, Points, InFlight, Handling,
         Steps, Idle, intakeVars, connVars, OwnsGuard, EndTask
    <2>2. GuardOwned'
      BY <1>6, <2>0 DEF Retire, IInv, NativeTypes, GuardOwned, OwnsGuard,
         Tasks, Idle, connVars, Points, InFlight, Handling, EndTask
    <2>3. TaskShape'
      BY <1>6, <2>0 DEF Retire, IInv, NativeTypes, TaskShape, Idle, EndTask
    <2>4. Numbered'
      BY <1>6, <2>0 DEF Retire, IInv, NativeTypes, Numbered, Idle, TaskShape,
         EndTask
    <2>5. WorkersOwned'
      BY <1>6, <2>0 DEF Retire, IInv, NativeTypes, WorkersOwned, Idle,
         TaskShape, Numbered, EndTask
    <2>6. LeasesCovered'
      BY <1>6, <2>0 DEF Retire, IInv, NativeTypes, LeasesCovered, Idle,
         connVars, TaskShape, EndTask
    <2>7. DownInOrder'
      BY <1>6, <2>0 DEF Retire, IInv, NativeTypes, DownInOrder, Idle,
         TaskShape, intakeVars, connVars, Tasks, Stages, EndTask
    <2> QED BY <2>1, <2>2, <2>3, <2>4, <2>5, <2>6, <2>7 DEF IInv
  <1> QED
    BY <1>1, <1>2, <1>3, <1>4, <1>5, <1>6 DEF NativeTask

\* The shutdown takes refresh_lock only when no task is left.
LEMMA RetirementStep ==
  ASSUME IInv, SpawnRetirement
  PROVE  IInv'
  <1> USE ServerConstants
  <1>0. /\ Drain \in Tasks /\ Drain \notin Conns
        /\ \A t \in Tasks : task[t].step = "idle" /\ task[t].new = 0 /\ task[t].old = 0
    BY DEF SpawnRetirement, IInv, NativeTypes, GuardOwned, TaskShape, Tasks
  <1>1. NativeTypes'
    BY <1>0 DEF SpawnRetirement, connVars, IInv, NativeTypes, Steps
  <1>2. GuardOwned'
    BY <1>0 DEF SpawnRetirement, connVars, IInv, NativeTypes, GuardOwned,
       OwnsGuard, Tasks
  <1>3. TaskShape'
    BY <1>0 DEF SpawnRetirement, connVars, IInv, NativeTypes, TaskShape, Tasks
  <1>4. Numbered'
    BY <1>0 DEF SpawnRetirement, connVars, IInv, NativeTypes, Numbered
  <1>5. WorkersOwned'
    BY <1>0 DEF SpawnRetirement, connVars, IInv, NativeTypes, WorkersOwned
  <1>6. LeasesCovered'
    BY <1>0 DEF SpawnRetirement, connVars, IInv, NativeTypes, LeasesCovered
  <1>7. DownInOrder'
    BY <1>0 DEF SpawnRetirement, connVars, IInv, NativeTypes, DownInOrder,
       Stages, Tasks
  <1> QED BY <1>1, <1>2, <1>3, <1>4, <1>5, <1>6, <1>7 DEF IInv

\* Every step keeps the invariant.
LEMMA StepServer == IInv /\ [Next]_vars => IInv'
  <1>1. ASSUME IInv, UNCHANGED vars PROVE IInv'
    <2>1. UNCHANGED <<connVars, nativeVars>> /\ DownInOrder'
      BY <1>1 DEF vars, intakeVars, connVars, nativeVars, IInv, DownInOrder
    <2> QED BY <1>1, <2>1, QuietStep
  <1> QED
    BY <1>1, IntakeStep, StageStep, ClientStep, NativeStep, RetirementStep
    DEF Next, Shutdown, Done

-----------------------------------------------------------------------------
\* The invariant holds throughout.
THEOREM ServerInvariant == Spec => []IInv
  BY InitServer, StepServer, PTL DEF Spec

\* A request that holds a lease never is the last owner of its worker, so
\* dropping it never joins a native thread (retire_alpm_worker).
THEOREM LeasesNeverLast == Spec => []LeaseNeverLast
  <1>1. IInv => LeaseNeverLast
    BY DEF IInv, NativeTypes, WorkersOwned, LeasesCovered, LeaseNeverLast
  <1> QED BY <1>1, ServerInvariant, PTL

\* run() returns Ok only when no task, no worker thread and no connection is
\* left (drain_daemon_tasks, drain_native_backends).
THEOREM CleanExits == Spec => []CleanExit
  <1>1. ASSUME IInv PROVE CleanExit
    <2> SUFFICES ASSUME stage = "exited", ~Failed
                 PROVE  TasksJoined /\ alive = {} /\ \A t \in Tasks : task[t] = Idle
      BY DEF CleanExit
    <2>1. current = 0 /\ \A t \in Tasks : task[t].step = "idle"
      BY <1>1 DEF Failed, IInv, DownInOrder
    <2>2. \A t \in Tasks : task[t].new = 0 /\ task[t].old = 0
      BY <1>1, <2>1 DEF IInv, TaskShape
    <2>3. \A t \in Tasks : task[t] = Idle
      BY <1>1, <2>1, <2>2 DEF IInv, NativeTypes, Idle
    <2>4. alive = {}
      BY <1>1, <2>1, <2>2 DEF IInv, NativeTypes, WorkersOwned
    <2>5. TasksJoined
      BY <1>1 DEF IInv, DownInOrder, TasksJoined
    <2> QED BY <2>3, <2>4, <2>5
  <1> QED BY <1>1, ServerInvariant, PTL

\* refresh_lock is neither lost with a dropped request nor freed under a
\* running native task (refresh_system_backends).
THEOREM GuardsAreAccounted == Spec => []GuardAccounted
  <1>1. ASSUME IInv PROVE GuardAccounted
    <2> SUFFICES ASSUME NEW t \in Tasks
                 PROVE  lock = t <=> \/ task[t] # Idle
                                     \/ t \in Conns /\ pc[t] \in OwnsGuard
      BY DEF GuardAccounted
    <2>1. task[t] = Idle <=> task[t].step = "idle"
      <3>1. task[t].step = "idle" => task[t].new = 0 /\ task[t].old = 0
        BY <1>1 DEF IInv, TaskShape
      <3>2. task[t] \in [step : Steps, new : Nat, old : Nat]
        BY <1>1 DEF IInv, NativeTypes
      <3> QED BY <3>1, <3>2 DEF Idle
    <2> QED BY <1>1, <2>1 DEF IInv, GuardOwned
  <1> QED BY <1>1, ServerInvariant, PTL

\* A set within a pair has at most two elements.
LEMMA PairBound ==
  ASSUME NEW S, NEW a, NEW b, S \subseteq {a, b}
  PROVE  Cardinality(S) <= 2
  <1>1. IsFiniteSet({}) /\ Cardinality({}) = 0
    BY FS_EmptySet
  <1>2. IsFiniteSet({b}) /\ Cardinality({b}) = 1
    BY FS_Singleton
  <1>3. IsFiniteSet({b} \cup {a}) /\ Cardinality({b} \cup {a}) <= 2
    BY <1>2, FS_AddElement
  <1>4. {b} \cup {a} = {a, b}
    OBVIOUS
  <1>5. IsFiniteSet({a, b}) /\ Cardinality({a, b}) <= 2 /\ Cardinality({a, b}) \in Nat
    BY <1>3, <1>4, FS_CardinalityType
  <1>6. Cardinality(S) <= Cardinality({a, b}) /\ Cardinality(S) \in Nat
    BY <1>5, FS_Subset, FS_CardinalityType
  <1> QED BY <1>5, <1>6

\* Replacing the worker is serialized: never more than two exist
\* (refresh_lock moves into the native task).
THEOREM AtMostTwoWorkers == Spec => []TwoWorkersAtMost
  <1>1. ASSUME IInv PROVE TwoWorkersAtMost
    <2>1. CASE \A t \in Tasks : task[t].step = "idle"
      <3>1. alive \subseteq {current, current}
        BY <1>1, <2>1 DEF IInv, NativeTypes, TaskShape, WorkersOwned
      <3> QED BY <3>1, PairBound DEF TwoWorkersAtMost
    <2>2. CASE ~ \A t \in Tasks : task[t].step = "idle"
      <3>1. PICK t \in Tasks : task[t].step # "idle"
        BY <2>2
      <3>2. \A u \in Tasks : u # t => task[u].new = 0 /\ task[u].old = 0
        BY <1>1, <3>1, OneTask
      <3>3. task[t].new = 0 \/ task[t].old = 0
        BY <1>1 DEF IInv, TaskShape
      <3>4. \/ alive \subseteq {current, task[t].new}
            \/ alive \subseteq {current, task[t].old}
        BY <1>1, <3>2, <3>3 DEF IInv, NativeTypes, WorkersOwned
      <3> QED BY <3>4, PairBound DEF TwoWorkersAtMost
    <2> QED BY <2>1, <2>2
  <1> QED BY <1>1, ServerInvariant, PTL

-----------------------------------------------------------------------------
(* What run() reports.                                                     *)

\* A failure found once is somewhere until it is reported: on the channel, in
\* internal_failure, among the errors, or in a worker not joined yet.
FailuresKept ==
  /\ {channel, failure, broken} \subseteq BOOLEAN
  /\ stage = "intake" => ~failure
  /\ stage = "abort" => errors # {}
  /\ broken => channel \/ failure \/ errors # {} \/ worker = "panicked"
  /\ stage = "exited" /\ channel => failure

\* Steps that do not touch the state of the accept loop and of the worker.
LEMMA QuietFailures ==
  ASSUME FailuresKept, UNCHANGED intakeVars
  PROVE  FailuresKept'
  BY DEF FailuresKept, intakeVars

\* Requests and native tasks neither find nor report a failure.
LEMMA ServingKeepsFailures ==
  ASSUME NEW c, NEW t, Client(c) \/ NativeTask(t)
  PROVE  UNCHANGED intakeVars
  BY DEF Client, Accept, ReapPanicked, ReadFrame, HangUp, Handled, TimeOut,
     HandlerPanics, Reply, TakeLease, NeedRefresh, TakeLock, SpawnRefresh,
     DropGuard, NativeTask, Construct, ConstructFails, CheckReplacement,
     Discard, Replace, Retire, connVars

\* One case per step of the accept loop, of the worker and of the shutdown.
LEMMA FailuresStep == IInv /\ FailuresKept /\ [Next]_vars => FailuresKept'
  <1> SUFFICES ASSUME IInv, FailuresKept, [Next]_vars PROVE FailuresKept'
    OBVIOUS
  <1> USE DEF FailuresKept, connVars
  <1>1. CASE SignalArrives
    BY <1>1 DEF SignalArrives
  <1>2. CASE SocketRemoved
    BY <1>2 DEF SocketRemoved
  <1>3. CASE WorkerShutsDown
    BY <1>3 DEF WorkerShutsDown
  <1>4. CASE HealthReports
    BY <1>4 DEF HealthReports, IInv, DownInOrder
  <1>5. CASE HealthCancels
    BY <1>5 DEF HealthCancels
  <1>6. CASE WorkerPanics
    BY <1>6 DEF WorkerPanics
  <1>7. CASE ReceiveFailure
    BY <1>7 DEF ReceiveFailure, StopIntake
  <1>8. CASE TakeSignal
    BY <1>8 DEF TakeSignal, StopIntake
  <1>9. CASE SeeCancelled
    BY <1>9 DEF SeeCancelled, StopIntake
  <1>10. CASE JoinWorker
    BY <1>10 DEF JoinWorker, StopIntake
  <1>11. CASE AcceptFails
    BY <1>11 DEF AcceptFails, StopIntake
  <1>12. CASE DrainWorker
    BY <1>12 DEF DrainWorker
  <1>13. CASE Drained
    BY <1>13 DEF Drained
  <1>14. CASE DrainDeadline
    BY <1>14 DEF DrainDeadline
  <1>15. CASE AbortWorker
    BY <1>15 DEF AbortWorker
  <1>16. CASE CloseTracker
    BY <1>16 DEF CloseTracker
  <1>17. CASE SpawnRetirement
    BY <1>17 DEF SpawnRetirement
  <1>18. CASE NativeDrained
    BY <1>18 DEF NativeDrained
  <1>19. CASE NativeDeadline
    BY <1>19 DEF NativeDeadline
  <1>20. CASE Exit
    BY <1>20 DEF Exit
  <1>21. ASSUME NEW c \in Conns, DrainPanicked(c) PROVE FailuresKept'
    BY <1>21 DEF DrainPanicked, intakeVars
  <1>22. ASSUME NEW c \in Conns, AbortConnection(c) PROVE FailuresKept'
    BY <1>22 DEF AbortConnection, intakeVars
  <1>23. ASSUME NEW c \in Conns, Client(c) PROVE FailuresKept'
    BY <1>23, ServingKeepsFailures, QuietFailures
  <1>24. ASSUME NEW t \in Tasks, NativeTask(t) PROVE FailuresKept'
    BY <1>24, ServingKeepsFailures, QuietFailures
  <1>25. CASE UNCHANGED vars
    BY <1>25 DEF vars, intakeVars
  <1> QED
    BY <1>1, <1>2, <1>3, <1>4, <1>5, <1>6, <1>7, <1>8, <1>9, <1>10, <1>11, <1>12, <1>13,
       <1>14, <1>15, <1>16, <1>17, <1>18, <1>19, <1>20, <1>21, <1>22, <1>23, <1>24,
       <1>25
    DEF Next, Intake, WorkerTask, Shutdown, Done

\* Both invariants hold throughout.
THEOREM FailuresStay == Spec => []FailuresKept
  <1>1. Init => FailuresKept
    BY DEF Init, FailuresKept
  <1> QED BY <1>1, FailuresStep, ServerInvariant, PTL DEF Spec

\* A socket removed under the daemon, or a worker that panicked, is never
\* reported as a clean shutdown (daemon_shutdown_result, the last try_recv).
THEOREM FailuresAreReported == Spec => []FailureReported
  <1>1. IInv /\ FailuresKept => FailureReported
    BY DEF IInv, DownInOrder, FailuresKept, FailureReported, Failed
  <1> QED BY <1>1, ServerInvariant, FailuresStay, PTL

=============================================================================
