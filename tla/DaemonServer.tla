---------------------------- MODULE DaemonServer ----------------------------
(***************************************************************************)
(* The life of an omgd process: the accept loop, the connections it        *)
(* serves, the background worker as a task, the native ALPM backends with  *)
(* their leases, and the shutdown that drains all of them (server.rs, and  *)
(* SystemBackendAccess in handlers.rs).                                    *)
(*                                                                         *)
(* What a request answers is DaemonCatalog's subject.  Here a request is   *)
(* plain, takes a lease on the ALPM worker (ListUpdates), or replaces the  *)
(* worker (RefreshIndex and the heals).                                    *)
(***************************************************************************)
EXTENDS Naturals, FiniteSets

CONSTANTS
  Conns,           \* client connections
  Free, Drain,     \* refresh_lock: nobody / the shutdown task
  MaxConnections,  \* MAX_CONCURRENT_CONNECTIONS
  MaxRequests,     \* bound: requests per connection
  MaxWorkers       \* bound: ALPM workers constructed in all

ASSUME ServerConstants ==
  /\ Free \notin Conns /\ Drain \notin Conns /\ Free # Drain
  /\ MaxConnections \in Nat \ {0}
  /\ MaxRequests \in Nat /\ MaxWorkers \in Nat \ {0}

VARIABLES
  stage,     \* "intake", then drain_daemon_tasks, drain_native_backends, ...
  token,     \* shutdown_token is cancelled
  signal,    \* SIGINT or SIGTERM is pending
  socket,    \* the socket node exists
  worker,    \* the background worker task
  channel,   \* the internal-failure channel holds a message
  failure,   \* internal_failure
  errors,    \* which of the shutdown results are Err
  permits,   \* connection_permits
  pc,        \* per connection: control point of its task
  lease,     \* per connection: the ALPM worker its request has cloned, or 0
  lock,      \* holder of refresh_lock (a request, or the task it handed it to)
  task,      \* native task per request, and that of the shutdown
  closed,    \* native_tasks is closed
  current,   \* the ALPM worker in system_backends, 0 for Isolated
  alive,     \* ALPM workers whose thread has not been joined
  made,      \* workers constructed so far
  asked,     \* requests received per connection
  broken     \* the socket was found missing, or the worker panicked

intakeVars == <<stage, token, signal, socket, worker, channel, failure, errors,
                broken>>
connVars == <<permits, pc, lease, asked>>
nativeVars == <<lock, task, closed, current, alive, made>>
vars == <<intakeVars, connVars, nativeVars>>

Stages == {"intake", "drain", "abort", "close", "native", "wait", "audit", "exited"}
WorkerStates == {"running", "reported", "ended", "panicked", "joined"}
\* Where handle_request may be: working, awaiting a leased worker, waiting for
\* refresh_lock, holding it, awaiting the native task it gave the guard to,
\* and holding the guard the task gave back.
Handling == {"handle", "updates", "lock", "held", "await", "publish"}
\* A request has been read and has no answer yet.
InFlight == Handling \cup {"reply"}
Points == InFlight \cup {"closed", "frame", "panicked"}
\* The handler itself owns the guard of refresh_lock and drops it if dropped.
OwnsGuard == {"held", "publish"}
Results == {"intake", "shutdown", "native", "audit"}
Tasks == Conns \cup {Drain}
Idle == [step |-> "idle", new |-> 0, old |-> 0]

Init ==
  /\ stage = "intake" /\ token = FALSE /\ signal = FALSE /\ socket = TRUE
  /\ worker = "running" /\ channel = FALSE /\ failure = FALSE /\ errors = {}
  /\ broken = FALSE
  /\ permits = MaxConnections
  /\ pc = [c \in Conns |-> "closed"] /\ lease = [c \in Conns |-> 0]
  /\ asked = [c \in Conns |-> 0]
  /\ lock = Free /\ task = [t \in Tasks |-> Idle] /\ closed = FALSE
  /\ current = 1 /\ alive = {1} /\ made = 1

-----------------------------------------------------------------------------
(* The world: signals, and somebody removing the socket node.              *)

SignalArrives ==
  /\ stage = "intake" /\ ~signal /\ signal' = TRUE
  /\ UNCHANGED <<broken, stage, token, socket, worker, channel, failure,
                 errors, connVars, nativeVars>>

SocketRemoved ==
  /\ stage = "intake" /\ socket /\ socket' = FALSE
  /\ UNCHANGED <<broken, stage, token, signal, worker, channel, failure,
                 errors, connVars, nativeVars>>

-----------------------------------------------------------------------------
(* The background worker task.                                             *)

WorkerShutsDown ==
  /\ worker = "running" /\ token
  /\ worker' = "ended"
  /\ UNCHANGED <<broken, stage, token, signal, socket, channel, failure,
                 errors, connVars, nativeVars>>

\* SocketHealth: report the failure, then cancel the token.
HealthReports ==
  /\ worker = "running" /\ ~socket
  /\ worker' = "reported" /\ channel' = TRUE
  /\ broken' = TRUE
  /\ UNCHANGED <<stage, token, signal, socket, failure, errors, connVars,
                 nativeVars>>

HealthCancels ==
  /\ worker = "reported"
  /\ worker' = "ended" /\ token' = TRUE
  /\ UNCHANGED <<broken, stage, signal, socket, channel, failure, errors,
                 connVars, nativeVars>>

WorkerPanics ==
  /\ worker = "running"
  /\ worker' = "panicked"
  /\ broken' = TRUE
  /\ UNCHANGED <<stage, token, signal, socket, channel, failure, errors,
                 connVars, nativeVars>>

-----------------------------------------------------------------------------
(* The accept loop.  Its select is biased, but another thread may make an  *)
(* earlier branch ready after it was polled: any ready branch may win.     *)

\* Leaving the loop drops the listener; drain_daemon_tasks cancels the token.
StopIntake == stage = "intake" /\ stage' = "drain" /\ token' = TRUE

ReceiveFailure ==
  /\ StopIntake /\ channel
  /\ channel' = FALSE /\ failure' = TRUE
  /\ UNCHANGED <<broken, signal, socket, worker, errors, connVars,
                 nativeVars>>

\* A signal, or a listener for one that fails.
TakeSignal ==
  /\ StopIntake /\ signal
  /\ signal' = FALSE
  /\ errors' \in {errors, errors \cup {"intake"}}
  /\ UNCHANGED <<broken, socket, worker, channel, failure, connVars,
                 nativeVars>>

SeeCancelled ==
  /\ StopIntake /\ token
  /\ UNCHANGED <<broken, signal, socket, worker, channel, failure, errors,
                 connVars, nativeVars>>

JoinWorker ==
  /\ StopIntake /\ worker \in {"ended", "panicked"}
  /\ failure' = (worker = "panicked" \/ ~token)
  /\ worker' = "joined"
  /\ UNCHANGED <<broken, signal, socket, channel, errors, connVars,
                 nativeVars>>

\* An accept error that is neither transient nor a descriptor limit.
AcceptFails ==
  /\ StopIntake
  /\ errors' = errors \cup {"intake"}
  /\ UNCHANGED <<broken, signal, socket, worker, channel, failure, connVars,
                 nativeVars>>

\* try_acquire_owned: with no permit left the stream is dropped.
Accept(c) ==
  /\ stage = "intake" /\ socket /\ pc[c] = "closed" /\ asked[c] < MaxRequests
  /\ permits > 0
  /\ permits' = permits - 1 /\ pc' = [pc EXCEPT ![c] = "frame"]
  /\ UNCHANGED <<intakeVars, lease, asked, nativeVars>>

ReapPanicked(c) ==
  /\ stage = "intake" /\ pc[c] = "panicked"
  /\ pc' = [pc EXCEPT ![c] = "closed"]
  /\ UNCHANGED <<intakeVars, permits, lease, asked, nativeVars>>

-----------------------------------------------------------------------------
(* handle_client.                                                          *)

\* A frame arrives; what does not decode or exceeds the rate is answered at
\* once.  The biased select looks at the cancellation before the frame.
ReadFrame(c) ==
  /\ pc[c] = "frame" /\ ~token /\ asked[c] < MaxRequests
  /\ asked' = [asked EXCEPT ![c] = @ + 1]
  /\ \E p \in {"handle", "reply"} : pc' = [pc EXCEPT ![c] = p]
  /\ UNCHANGED <<intakeVars, permits, lease, nativeVars>>

\* handle_list_updates clones the worker under the backend lock, then awaits.
TakeLease(c) ==
  /\ pc[c] = "handle" /\ current # 0
  /\ pc' = [pc EXCEPT ![c] = "updates"] /\ lease' = [lease EXCEPT ![c] = current]
  /\ UNCHANGED <<intakeVars, permits, asked, nativeVars>>

\* RefreshIndex, or a heal in front of a read.
NeedRefresh(c) ==
  /\ pc[c] = "handle"
  /\ pc' = [pc EXCEPT ![c] = "lock"]
  /\ UNCHANGED <<intakeVars, permits, lease, asked, nativeVars>>

\* Cancellation, end of stream, a frame error or CLIENT_IDLE_TIMEOUT, all
\* looked at between two frames only.  Dropping the permit frees it.
HangUp(c) ==
  /\ pc[c] = "frame"
  /\ pc' = [pc EXCEPT ![c] = "closed"] /\ permits' = permits + 1
  /\ UNCHANGED <<intakeVars, lease, asked, nativeVars>>

\* The handler of a plain request or of ListUpdates is done.
Handled(c) ==
  /\ pc[c] \in {"handle", "updates"}
  /\ pc' = [pc EXCEPT ![c] = "reply"] /\ lease' = [lease EXCEPT ![c] = 0]
  /\ UNCHANGED <<intakeVars, permits, asked, nativeVars>>

\* Mutation: only the work of the handler is timed, not its waiting.
TimeOutHandling(c) ==
  /\ pc[c] \in {"handle", "updates"}
  /\ pc' = [pc EXCEPT ![c] = "reply"] /\ lease' = [lease EXCEPT ![c] = 0]
  /\ UNCHANGED <<intakeVars, permits, asked, nativeVars>>

\* Mutation: the guard is dropped with the request while the task goes on.
TimeOutFreesLock(c) ==
  /\ pc[c] \in Handling
  /\ pc' = [pc EXCEPT ![c] = "reply"] /\ lease' = [lease EXCEPT ![c] = 0]
  /\ lock' = IF pc[c] \in OwnsGuard \cup {"await"} THEN Free ELSE lock
  /\ UNCHANGED <<intakeVars, permits, asked, task, closed, current,
                 alive, made>>

\* REQUEST_TIMEOUT drops the handler.  A guard that was handed to a native
\* task stays with the task.
TimeOut(c) ==
  /\ pc[c] \in Handling
  /\ pc' = [pc EXCEPT ![c] = "reply"] /\ lease' = [lease EXCEPT ![c] = 0]
  /\ lock' = IF pc[c] \in OwnsGuard THEN Free ELSE lock
  /\ UNCHANGED <<intakeVars, permits, asked, task, closed, current,
                 alive, made>>

\* A panic anywhere in the handling of a request ends the connection's task
\* without an answer; unwinding drops what the handler owned.
HandlerPanics(c) ==
  /\ pc[c] \in InFlight
  /\ pc' = [pc EXCEPT ![c] = "panicked"] /\ permits' = permits + 1
  /\ lease' = [lease EXCEPT ![c] = 0]
  /\ lock' = IF pc[c] \in OwnsGuard THEN Free ELSE lock
  /\ UNCHANGED <<intakeVars, asked, task, closed, current, alive, made>>

\* send_response_frame: sent, or failed within CLIENT_WRITE_TIMEOUT.
Reply(c) ==
  /\ pc[c] = "reply"
  /\ \/ pc' = [pc EXCEPT ![c] = "frame"] /\ permits' = permits
     \/ pc' = [pc EXCEPT ![c] = "closed"] /\ permits' = permits + 1
  /\ UNCHANGED <<intakeVars, lease, asked, nativeVars>>

-----------------------------------------------------------------------------
(* refresh_system_backends: the native task that replaces the ALPM worker. *)

TakeLock(c) ==
  /\ pc[c] = "lock" /\ lock = Free
  /\ lock' = c /\ pc' = [pc EXCEPT ![c] = "held"]
  /\ UNCHANGED <<intakeVars, permits, lease, asked, task, closed,
                 current, alive, made>>

\* The guard moves into the task; a closed tracker refuses, and the guard is
\* dropped with the error.
SpawnRefresh(c) ==
  /\ pc[c] = "held"
  /\ IF closed
     THEN /\ pc' = [pc EXCEPT ![c] = "handle"] /\ lock' = Free
          /\ UNCHANGED task
     ELSE /\ pc' = [pc EXCEPT ![c] = "await"]
          /\ task' = [task EXCEPT ![c] = [step |-> "init", new |-> 0, old |-> 0]]
          /\ UNCHANGED lock
  /\ UNCHANGED <<intakeVars, permits, lease, asked, closed, current,
                 alive, made>>

\* The guard leaves scope: nothing to rebuild, a load that failed, or, after
\* the swap, the new index published.
DropGuard(c) ==
  /\ pc[c] \in OwnsGuard
  /\ pc' = [pc EXCEPT ![c] = "handle"] /\ lock' = Free
  /\ UNCHANGED <<intakeVars, permits, lease, asked, task, closed,
                 current, alive, made>>

\* Mutation: the guard goes back to the request whether it still awaits or not.
EndTaskReturnsGuard(t, p) ==
  /\ task' = [task EXCEPT ![t] = Idle]
  /\ pc' = IF t \in Conns /\ pc[t] = "await" THEN [pc EXCEPT ![t] = p] ELSE pc
  /\ lock' = IF t \in Conns /\ p \in OwnsGuard THEN t ELSE Free

\* The task ends.  A request that still awaits it resumes at p; the guard goes
\* back to it if p owns one, and is dropped otherwise.
EndTask(t, p) ==
  LET awaited == t \in Conns /\ pc[t] = "await"
  IN  /\ task' = [task EXCEPT ![t] = Idle]
      /\ pc' = IF awaited THEN [pc EXCEPT ![t] = p] ELSE pc
      /\ lock' = IF awaited /\ p \in OwnsGuard THEN t ELSE Free

Construct(t) ==
  /\ task[t].step = "init" /\ made < MaxWorkers
  /\ made' = made + 1 /\ alive' = alive \cup {made + 1}
  /\ task' = [task EXCEPT ![t] = [step |-> "check", new |-> made + 1, old |-> 0]]
  /\ UNCHANGED <<intakeVars, connVars, lock, closed, current>>

ConstructFails(t) ==
  /\ task[t].step = "init"
  /\ EndTask(t, "handle")
  /\ UNCHANGED <<intakeVars, permits, lease, asked, closed, current,
                 alive, made>>

\* lifecycle.is_closed() and the expected epoch.
CheckReplacement(t) ==
  /\ task[t].step = "check"
  /\ \E s \in {"discard"} \cup (IF closed THEN {} ELSE {"swap"}) :
       task' = [task EXCEPT ![t] = [step |-> s, new |-> task[t].new, old |-> 0]]
  /\ UNCHANGED <<intakeVars, connVars, lock, closed, current, alive, made>>

Discard(t) ==
  /\ task[t].step = "discard"
  /\ alive' = alive \ {task[t].new}
  /\ EndTask(t, "handle")
  /\ UNCHANGED <<intakeVars, permits, lease, asked, closed, current,
                 made>>

\* mem::replace under the write lock of system_backends.
Replace(t) ==
  /\ task[t].step = "swap"
  /\ current' = task[t].new
  /\ task' = [task EXCEPT ![t] = [step |-> "retire", new |-> 0, old |-> current]]
  /\ UNCHANGED <<intakeVars, connVars, lock, closed, alive, made>>

\* Mutation: the task drops its handle while requests still hold theirs.
RetireLeased(t) ==
  /\ task[t].step = "retire"
  /\ alive' = alive \ {task[t].old}
  /\ EndTask(t, "publish")
  /\ UNCHANGED <<intakeVars, permits, lease, asked, closed, current,
                 made>>

\* retire_alpm_worker: wait for the last lease, then close the queue and join
\* the worker's thread.
Retire(t) ==
  /\ task[t].step = "retire"
  /\ task[t].old \notin {lease[c] : c \in Conns} \ {0}
  /\ alive' = alive \ {task[t].old}
  /\ EndTask(t, "publish")
  /\ UNCHANGED <<intakeVars, permits, lease, asked, closed, current,
                 made>>

-----------------------------------------------------------------------------
(* drain_daemon_tasks: the worker first, then the connections.             *)

DrainWorker ==
  /\ stage = "drain" /\ worker \in {"ended", "panicked"}
  /\ worker' = "joined"
  /\ errors' = IF worker = "panicked" THEN errors \cup {"shutdown"} ELSE errors
  /\ UNCHANGED <<broken, stage, token, signal, socket, channel, failure,
                 connVars, nativeVars>>

DrainPanicked(c) ==
  /\ stage = "drain" /\ worker = "joined" /\ pc[c] = "panicked"
  /\ pc' = [pc EXCEPT ![c] = "closed"]
  /\ errors' = errors \cup {"shutdown"}
  /\ UNCHANGED <<broken, stage, token, signal, socket, worker, channel,
                 failure, permits, lease, asked, nativeVars>>

TasksJoined == worker = "joined" /\ \A c \in Conns : pc[c] = "closed"

Drained ==
  /\ stage \in {"drain", "abort"} /\ TasksJoined
  /\ stage' = "close"
  /\ UNCHANGED <<broken, token, signal, socket, worker, channel, failure,
                 errors, connVars, nativeVars>>

DrainDeadline ==
  /\ stage = "drain" /\ ~TasksJoined
  /\ stage' = "abort" /\ errors' = errors \cup {"shutdown"}
  /\ UNCHANGED <<broken, token, signal, socket, worker, channel, failure,
                 connVars, nativeVars>>

\* JoinSet::shutdown aborts a task at its next await and joins it.
AbortWorker ==
  /\ stage = "abort" /\ worker # "joined"
  /\ worker' = "joined"
  /\ UNCHANGED <<broken, stage, token, signal, socket, channel, failure,
                 errors, connVars, nativeVars>>

AbortConnection(c) ==
  /\ stage = "abort" /\ worker = "joined" /\ pc[c] # "closed"
  /\ pc' = [pc EXCEPT ![c] = "closed"] /\ lease' = [lease EXCEPT ![c] = 0]
  /\ permits' = IF pc[c] = "panicked" THEN permits ELSE permits + 1
  /\ lock' = IF pc[c] \in OwnsGuard THEN Free ELSE lock
  /\ UNCHANGED <<intakeVars, asked, task, closed, current, alive, made>>

-----------------------------------------------------------------------------
(* drain_native_backends, drain_audit_queue and the exit result.           *)

CloseTracker ==
  /\ stage = "close" /\ stage' = "native" /\ closed' = TRUE
  /\ UNCHANGED <<broken, token, signal, socket, worker, channel, failure,
                 errors, connVars, lock, task, current, alive, made>>

\* Mutation: the shutdown swaps the backends out without refresh_lock.
SpawnRetirementUnserialized ==
  /\ stage = "native" /\ stage' = "wait"
  /\ task' = [task EXCEPT ![Drain] = [step |-> "swap", new |-> 0, old |-> 0]]
  /\ UNCHANGED <<broken, token, signal, socket, worker, channel, failure,
                 errors, connVars, lock, closed, current, alive, made>>

\* Wait for refresh_lock, then let a native task install Isolated and retire
\* the last worker.
SpawnRetirement ==
  /\ stage = "native" /\ lock = Free
  /\ stage' = "wait" /\ lock' = Drain
  /\ task' = [task EXCEPT ![Drain] = [step |-> "swap", new |-> 0, old |-> 0]]
  /\ UNCHANGED <<broken, token, signal, socket, worker, channel, failure,
                 errors, connVars, closed, current, alive, made>>

NativeDrained ==
  /\ stage = "wait" /\ \A t \in Tasks : task[t] = Idle
  /\ stage' = "audit"
  /\ UNCHANGED <<broken, token, signal, socket, worker, channel, failure,
                 errors, connVars, nativeVars>>

\* Mutation: only the retirement is bounded, not the wait for refresh_lock.
NativeDeadlineAfterLock ==
  /\ stage = "wait"
  /\ stage' = "audit" /\ errors' = errors \cup {"native"}
  /\ UNCHANGED <<broken, token, signal, socket, worker, channel, failure,
                 connVars, nativeVars>>

NativeDeadline ==
  /\ stage \in {"native", "wait"}
  /\ stage' = "audit" /\ errors' = errors \cup {"native"}
  /\ UNCHANGED <<broken, token, signal, socket, worker, channel, failure,
                 connVars, nativeVars>>

\* Mutation: the channel is not read again after the drain.
ExitIgnoringChannel ==
  /\ stage = "audit" /\ stage' = "exited"
  /\ errors' \in {errors, errors \cup {"audit"}}
  /\ UNCHANGED <<broken, token, signal, socket, worker, channel, failure,
                 connVars, nativeVars>>

\* The audit queue drains or not; the channel is read once more.
Exit ==
  /\ stage = "audit" /\ stage' = "exited"
  /\ errors' \in {errors, errors \cup {"audit"}}
  /\ failure' = (failure \/ channel)
  /\ UNCHANGED <<broken, token, signal, socket, worker, channel, connVars,
                 nativeVars>>

\* run() has returned.
Done == stage = "exited" /\ UNCHANGED vars

-----------------------------------------------------------------------------
Intake ==
  \/ ReceiveFailure \/ TakeSignal \/ SeeCancelled \/ JoinWorker \/ AcceptFails

WorkerTask == WorkerShutsDown \/ HealthReports \/ HealthCancels

Client(c) ==
  \/ Accept(c) \/ ReapPanicked(c) \/ ReadFrame(c) \/ HangUp(c) \/ Handled(c)
  \/ TimeOut(c) \/ HandlerPanics(c) \/ Reply(c)
  \/ TakeLease(c) \/ NeedRefresh(c) \/ TakeLock(c) \/ SpawnRefresh(c) \/ DropGuard(c)

NativeTask(t) ==
  \/ Construct(t) \/ ConstructFails(t) \/ CheckReplacement(t) \/ Discard(t)
  \/ Replace(t) \/ Retire(t)

Shutdown ==
  \/ DrainWorker \/ (\E c \in Conns : DrainPanicked(c) \/ AbortConnection(c))
  \/ Drained \/ DrainDeadline \/ AbortWorker
  \/ CloseTracker \/ SpawnRetirement \/ NativeDrained \/ NativeDeadline \/ Exit

Next ==
  \/ SignalArrives \/ SocketRemoved \/ Intake \/ WorkerTask \/ WorkerPanics
  \/ \E c \in Conns : Client(c)
  \/ \E t \in Tasks : NativeTask(t)
  \/ Shutdown \/ Done

Spec == Init /\ [][Next]_vars

\* The accept loop, the worker's timer and the drains keep being polled, and
\* the timers of tokio fire.  Nothing is assumed of the clients, of the
\* handlers before their timeout, or of the native tasks, which may hang.
Fairness ==
  /\ WF_vars(ReceiveFailure \/ TakeSignal \/ SeeCancelled \/ JoinWorker)
  /\ WF_vars(WorkerTask) /\ WF_vars(Shutdown)
  /\ \A c \in Conns : WF_vars(TimeOut(c)) /\ WF_vars(Reply(c))

FairSpec == Spec /\ Fairness

-----------------------------------------------------------------------------
(* Properties.                                                             *)

Failed == failure \/ errors # {}

\* Every variable has its type, and no more permits exist than there are.
TypeOK ==
  /\ stage \in Stages /\ worker \in WorkerStates
  /\ {token, signal, socket, channel, failure, closed, broken} \subseteq BOOLEAN
  /\ errors \subseteq Results
  /\ permits \in 0..MaxConnections
  /\ pc \in [Conns -> Points] /\ lease \in [Conns -> Nat]
  /\ asked \in [Conns -> Nat]
  /\ lock \in Tasks \cup {Free}
  /\ task \in [Tasks -> [step : {"idle", "init", "check", "discard", "swap", "retire"},
                         new : Nat, old : Nat]]
  /\ current \in Nat /\ alive \subseteq Nat /\ made \in Nat

\* When run() returns Ok, nothing it started is left: no connection, no
\* worker, no native task, and no ALPM worker thread, not even one a request
\* that timed out long ago was installing when the shutdown began
\* (drain_native_backends takes refresh_lock; refresh_system_backends looks
\* at the tracker again after construction).
CleanExit ==
  stage = "exited" /\ ~Failed =>
     TasksJoined /\ alive = {} /\ \A t \in Tasks : task[t] = Idle

\* "Retain the final owner so an async request releasing its lease cannot
\* inherit the native thread's blocking join" (retire_alpm_worker): whoever
\* holds a lease, the backend slot or a native task still owns that worker.
LeaseNeverLast ==
  \A c \in Conns : lease[c] # 0 =>
     /\ lease[c] \in alive
     /\ lease[c] = current \/ \E t \in Tasks : task[t].old = lease[c]

\* Replacing the worker is serialized even across requests that timed out: at
\* most one worker besides the current one is alive.
TwoWorkersAtMost == Cardinality(alive) <= 2

\* refresh_lock is held exactly by a handler between taking the guard and
\* giving it away, or by a native task that still runs: a request dropped at an
\* await by its timeout, by a panic or by the abort of its connection neither
\* leaves the lock taken for ever (every later refresh, and the shutdown, would
\* wait for nobody) nor frees it under the task that replaces the worker
\* (refresh_system_backends moves the guard in and back out).
GuardAccounted ==
  \A t \in Tasks :
     lock = t <=> \/ task[t] # Idle
                  \/ t \in Conns /\ pc[t] \in OwnsGuard

\* A removed socket the health check has seen, or a worker that panicked, is
\* never reported as a clean shutdown, whichever branch of the accept loop saw
\* it first (daemon_shutdown_result, the last try_recv).
FailureReported ==
  stage = "exited" /\ broken => Failed

\* A signal or a vanished socket makes run() return, even if every native task
\* and every client hangs: each drain has its deadline.  (The process ends
\* later: main's tokio runtime then waits for the blocking tasks that have
\* started, for which there is no deadline.)
ShutdownCompletes == (signal \/ ~socket) ~> stage = "exited"

\* Every request is answered or its connection closed, even one waiting for a
\* refresh whose native task hangs.
RequestsEnd == \A c \in Conns : pc[c] \in InFlight ~> pc[c] \notin InFlight

=============================================================================
