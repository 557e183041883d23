------------------------------ MODULE AuditLog ------------------------------
(***************************************************************************)
(* The audit log of OMG (core/security/audit.rs): a chain of hashed lines  *)
(* that commands and the daemon append to, its numbered archives, the      *)
(* quarantine of a log whose last line was cut short, the marker that says *)
(* that events were lost, and the queue of the daemon's writer thread.     *)
(*                                                                         *)
(* An entry is its number in the order of writing, which stands for its    *)
(* hash; 0 is "genesis".  The size limit of a file is counted in lines.    *)
(* Every write may fail, that of the marker too.                           *)
(***************************************************************************)
EXTENDS Naturals, Sequences, SequencesExt

CONSTANTS
  Commands,      \* omg processes that record an operation
  Daemon,        \* the writer thread of omgd
  None,          \* nobody holds the lock
  MaxLines,      \* DEFAULT_MAX_AUDIT_BYTES
  MaxArchives,   \* DEFAULT_AUDIT_ARCHIVES
  QueueCapacity, \* AUDIT_QUEUE_CAPACITY
  MaxAppends, MaxEvents, MaxStarts, MaxFaults  \* bounds of the model

ASSUME AuditConstants ==
  /\ Daemon \notin Commands /\ None \notin Commands \cup {Daemon}
  /\ MaxLines \in Nat \ {0} /\ MaxArchives \in Nat /\ QueueCapacity \in Nat \ {0}
  /\ {MaxAppends, MaxEvents, MaxStarts, MaxFaults} \subseteq Nat

VARIABLES
  log,         \* audit.jsonl; <<>> when there is no file
  archives,    \* audit.jsonl.1 and so on, 1 being the newest
  quarantined, \* entries of the logs moved to audit.jsonl.corrupt-*
  marker,      \* the file "incomplete" exists
  lock,        \* who holds audit.lock exclusively
  pc,          \* per writer: control point
  last,        \* per writer: AuditLogger::last_hash
  prev,        \* per writer: the hash that log_locked read
  slot,        \* per writer: the archive that is renamed next
  queue,       \* AUDIT_QUEUE
  drain,       \* drain_audit_queue of the shutdown
  count        \* entries made, records begun; events submitted, settled, and lost
               \* without a marker; bounds

fileVars == <<log, archives, quarantined, marker>>
writerVars == <<lock, pc, last, prev, slot>>
vars == <<fileVars, writerVars, queue, drain, count>>

Writers == Commands \cup {Daemon}
\* A line is complete with or without its newline, does not parse, or is cut
\* inside a character and is not even text.
Forms == {"ended", "open", "torn", "cut"}
Line == [id : Nat, prev : Nat, form : Forms]
Broken == {"torn", "cut"}
Points == {"down", "start", "diagnose", "quarantine", "idle", "lock", "rotate",
           "shift", "tail", "newline", "write", "end", "unlock", "fail", "mark"}

Goto(p, point) == pc' = [pc EXCEPT ![p] = point]
Unlock(p) == lock' = IF lock = p THEN None ELSE lock
\* The call is over; its locals are gone, and the logger of a command too.
Rest(p, point) ==
  /\ Unlock(p) /\ Goto(p, point)
  /\ prev' = [prev EXCEPT ![p] = 0] /\ slot' = [slot EXCEPT ![p] = 0]
  /\ last' = IF p = Daemon /\ point # "down" THEN last ELSE [last EXCEPT ![p] = 0]

Init ==
  /\ log = <<>> /\ archives = [i \in 1..MaxArchives |-> <<>>]
  /\ quarantined = {} /\ marker = FALSE /\ lock = None
  /\ pc = [p \in Writers |-> IF p = Daemon THEN "down" ELSE "idle"]
  /\ last = [p \in Writers |-> 0] /\ prev = last /\ slot = last
  /\ queue = <<>> /\ drain = "none"
  /\ count = [made |-> 0, begun |-> 0, submitted |-> 0, settled |-> 0,
              unmarked |-> 0, starts |-> 0, faults |-> 0]

-----------------------------------------------------------------------------
(* Files.                                                                  *)

\* get_last_hash: the hash of the last line, if that line is one.
Corrupt(lines) == lines # <<>> /\ Last(lines).form \in Broken
LastHash(lines) == IF lines = <<>> THEN 0 ELSE Last(lines).id

\* Bytes written behind a line without newline become part of it.
Written(lines, line) ==
  IF lines # <<>> /\ Last(lines).form # "ended"
  THEN Append(Front(lines), [line EXCEPT !.id = 0, !.form = "torn"])
  ELSE Append(lines, line)

\* ensure_trailing_newline
Terminated(lines) ==
  IF lines = <<>> THEN lines
  ELSE Append(Front(lines), [Last(lines) EXCEPT !.form = "ended"])

\* verify_integrity_unlocked: every line parses, the first one follows genesis
\* and every other one the line before it.
Verifies(lines) ==
  \A i \in DOMAIN lines :
     /\ lines[i].form \notin Broken
     /\ lines[i].prev = IF i = 1 THEN 0 ELSE lines[i - 1].id

-----------------------------------------------------------------------------
(* AuditLogger::log, under the exclusive lock.                             *)

Lock(p) ==
  /\ pc[p] = "lock" /\ lock = None
  /\ lock' = p /\ Goto(p, "rotate")
  /\ UNCHANGED <<fileVars, last, prev, slot, queue, drain, count>>

\* rotate_if_needed: nothing to do, no archives, or the oldest one goes.
Rotate(p) ==
  /\ pc[p] = "rotate"
  /\ \/ /\ Len(log) < MaxLines /\ Goto(p, "tail")
        /\ UNCHANGED <<log, archives, last, slot>>
     \/ /\ Len(log) >= MaxLines /\ MaxArchives = 0
        /\ log' = <<>> /\ last' = [last EXCEPT ![p] = 0] /\ Goto(p, "tail")
        /\ UNCHANGED <<archives, slot>>
     \/ /\ Len(log) >= MaxLines /\ MaxArchives > 0
        /\ archives' = [archives EXCEPT ![MaxArchives] = <<>>]
        /\ slot' = [slot EXCEPT ![p] = MaxArchives - 1] /\ Goto(p, "shift")
        /\ UNCHANGED <<log, last>>
  /\ UNCHANGED <<quarantined, marker, lock, prev, queue, drain, count>>

\* Mutation: the slot that was moved keeps its old content, and a missing one is moved too.
ShiftCopying(p) ==
  LET i == slot[p] IN
  /\ pc[p] = "shift" /\ i > 0
  /\ archives' = [archives EXCEPT ![i + 1] = archives[i]]
  /\ slot' = [slot EXCEPT ![p] = i - 1]
  /\ UNCHANGED <<log, quarantined, marker, lock, pc, last, prev, queue, drain, count>>

\* Archive i becomes i + 1, the oldest first; a missing one is passed over.
Shift(p) ==
  LET i == slot[p] IN
  /\ pc[p] = "shift" /\ i > 0
  /\ archives' = IF archives[i] = <<>> THEN archives
                 ELSE [archives EXCEPT ![i + 1] = archives[i], ![i] = <<>>]
  /\ slot' = [slot EXCEPT ![p] = i - 1]
  /\ UNCHANGED <<log, quarantined, marker, lock, pc, last, prev, queue, drain, count>>

RotateLog(p) ==
  /\ pc[p] = "shift" /\ slot[p] = 0
  /\ archives' = [archives EXCEPT ![1] = log] /\ log' = <<>>
  /\ last' = [last EXCEPT ![p] = 0] /\ Goto(p, "tail")
  /\ UNCHANGED <<quarantined, marker, lock, prev, slot, queue, drain, count>>

\* Mutation: the hash is the one this process remembers.
ReadTailOfLogger(p) ==
  /\ pc[p] = "tail"
  /\ prev' = [prev EXCEPT ![p] = last[p]] /\ Goto(p, "newline")
  /\ UNCHANGED <<fileVars, lock, last, slot, queue, drain, count>>

\* The tail is read again under the lock; a broken one is an error.
ReadTail(p) ==
  /\ pc[p] = "tail"
  /\ IF Corrupt(log)
     THEN Goto(p, "fail") /\ UNCHANGED prev
     ELSE Goto(p, "newline") /\ prev' = [prev EXCEPT ![p] = LastHash(log)]
  /\ UNCHANGED <<fileVars, lock, last, slot, queue, drain, count>>

Newline(p) ==
  /\ pc[p] = "newline"
  /\ log' = Terminated(log) /\ Goto(p, "write")
  /\ UNCHANGED <<archives, quarantined, marker, lock, last, prev, slot, queue, drain, count>>

Write(p) ==
  /\ pc[p] = "write"
  /\ count' = [count EXCEPT !.made = @ + 1]
  /\ log' = Written(log, [id |-> count'.made, prev |-> prev[p], form |-> "open"])
  /\ Goto(p, "end")
  /\ UNCHANGED <<archives, quarantined, marker, lock, last, prev, slot, queue, drain>>

EndLine(p) ==
  /\ pc[p] = "end"
  /\ log' = Terminated(log) /\ last' = [last EXCEPT ![p] = LastHash(log)]
  /\ Goto(p, "unlock")
  /\ UNCHANGED <<archives, quarantined, marker, lock, prev, slot, queue, drain, count>>

\* A full disk or a kill cuts the write short.
WriteFails(p) ==
  /\ pc[p] = "write" /\ count.faults < MaxFaults
  /\ \E form \in Broken :
       log' = Written(log, [id |-> 0, prev |-> prev[p], form |-> form])
  /\ count' = [count EXCEPT !.faults = @ + 1] /\ Goto(p, "fail")
  /\ UNCHANGED <<archives, quarantined, marker, lock, last, prev, slot, queue, drain>>

\* Any other call of log_locked fails: a rename, an open, the newline, the sync.
StepFails(p) ==
  /\ pc[p] \in {"rotate", "shift", "tail", "newline", "write", "end"}
  /\ count.faults < MaxFaults
  /\ count' = [count EXCEPT !.faults = @ + 1] /\ Goto(p, "fail")
  /\ UNCHANGED <<fileVars, lock, last, prev, slot, queue, drain>>

\* log() returns: the writer thread has settled its event, or marks the loss.
Return(p) ==
  /\ pc[p] = "unlock" /\ Rest(p, "idle")
  /\ count' = IF p = Daemon THEN [count EXCEPT !.settled = @ + 1] ELSE count
  /\ UNCHANGED <<fileVars, queue, drain>>

Fail(p) ==
  /\ pc[p] = "fail" /\ Rest(p, IF p = Daemon THEN "mark" ELSE "idle")
  /\ UNCHANGED <<fileVars, queue, drain, count>>

\* Mutation: the writer thread ends at an event it cannot persist.
MarkAndStop ==
  /\ pc[Daemon] = "mark" /\ marker' = TRUE
  /\ UNCHANGED <<log, archives, quarantined, writerVars, queue, drain, count>>

\* mark_audit_incomplete_at_or_log for a lost event: a marker that cannot be
\* written is only logged.
MarkOrLog(tally) ==
  \/ marker' = TRUE /\ count' = tally
  \/ UNCHANGED marker /\ count' = [tally EXCEPT !.unmarked = @ + 1]

\* record_global of an event that could not be persisted
Mark ==
  /\ pc[Daemon] = "mark" /\ MarkOrLog(count) /\ Goto(Daemon, "idle")
  /\ UNCHANGED <<log, archives, quarantined, lock, last, prev, slot, queue, drain>>

-----------------------------------------------------------------------------
(* A command: record_operation, log_completed_scan.                        *)

\* AuditLogger::new_in reads the tail under the shared lock.
Open(p) ==
  /\ p \in Commands /\ pc[p] = "idle" /\ lock = None /\ count.begun < MaxAppends
  /\ count' = [count EXCEPT !.begun = @ + 1]
  /\ IF Corrupt(log)
     THEN UNCHANGED <<pc, last>>
     ELSE Goto(p, "lock") /\ last' = [last EXCEPT ![p] = LastHash(log)]
  /\ UNCHANGED <<fileVars, lock, prev, slot, queue, drain>>

Killed(p) ==
  /\ p \in Commands /\ pc[p] # "idle" /\ count.faults < MaxFaults
  /\ count' = [count EXCEPT !.faults = @ + 1]
  /\ Rest(p, "idle") /\ UNCHANGED <<fileVars, queue, drain>>

-----------------------------------------------------------------------------
(* The daemon: recovery, queue, drain.                                     *)

StartDaemon ==
  /\ pc[Daemon] = "down" /\ count.starts < MaxStarts /\ Goto(Daemon, "start")
  /\ count' = [count EXCEPT !.submitted = 0, !.settled = 0, !.unmarked = 0,
                             !.starts = @ + 1]
  /\ drain' = "none"
  /\ UNCHANGED <<fileVars, lock, last, prev, slot, queue>>

\* recover_audit_logger keeps the exclusive lock from diagnosis to the end.
RecoverLock ==
  /\ pc[Daemon] = "start" /\ lock = None
  /\ lock' = Daemon /\ Goto(Daemon, "diagnose")
  /\ UNCHANGED <<fileVars, last, prev, slot, queue, drain, count>>

Serve(tail) ==
  /\ Unlock(Daemon) /\ Goto(Daemon, "idle") /\ last' = [last EXCEPT ![Daemon] = tail]
  /\ UNCHANGED <<archives, prev, slot, queue, drain, count>>

Diagnose ==
  /\ pc[Daemon] = "diagnose" /\ ~Corrupt(log)
  /\ Serve(LastHash(log)) /\ UNCHANGED <<log, quarantined, marker>>

\* CorruptLine: the gap is published before the log is moved away.
DiagnoseCorrupt ==
  /\ pc[Daemon] = "diagnose" /\ Corrupt(log) /\ Last(log).form = "torn"
  /\ marker' = TRUE /\ Goto(Daemon, "quarantine")
  /\ UNCHANGED <<log, archives, quarantined, lock, last, prev, slot, queue, drain, count>>

\* A tail that is not text is a read error, which refuses the start.
DiagnoseUnreadable ==
  /\ pc[Daemon] = "diagnose" /\ Corrupt(log) /\ Last(log).form = "cut"
  /\ Unlock(Daemon) /\ Goto(Daemon, "down") /\ drain' = "refused"
  /\ UNCHANGED <<fileVars, last, prev, slot, queue, count>>

Quarantine ==
  /\ pc[Daemon] = "quarantine"
  /\ quarantined' = quarantined \cup {line.id : line \in ToSet(log)}
  /\ log' = <<>> /\ Serve(0) /\ UNCHANGED marker

\* The lock, the marker, a sync or the rename fails: the start is refused and
\* the log stays where it is.
RecoverFails ==
  /\ pc[Daemon] \in {"start", "diagnose", "quarantine"} /\ count.faults < MaxFaults
  /\ count' = [count EXCEPT !.faults = @ + 1]
  /\ Unlock(Daemon) /\ Goto(Daemon, "down") /\ drain' = "refused"
  /\ UNCHANGED <<fileVars, last, prev, slot, queue>>

\* enqueue_audit_event: a full queue loses the event and says so.
Enqueue ==
  /\ pc[Daemon] \notin {"down", "start", "diagnose", "quarantine"} /\ drain = "none"
  /\ count.submitted < MaxEvents
  /\ LET tally == [count EXCEPT !.submitted = @ + 1] IN
     IF Len(queue) < QueueCapacity
     THEN queue' = Append(queue, "event") /\ count' = tally /\ UNCHANGED marker
     ELSE MarkOrLog(tally) /\ UNCHANGED queue
  /\ UNCHANGED <<log, archives, quarantined, writerVars, drain>>

\* The writer thread takes the next message.
Receive ==
  /\ pc[Daemon] = "idle" /\ queue # <<>> /\ queue' = Tail(queue)
  /\ IF Head(queue) = "event"
     THEN Goto(Daemon, "lock") /\ UNCHANGED drain
     ELSE drain' = (IF drain = "waiting" THEN "ok" ELSE drain) /\ UNCHANGED pc
  /\ UNCHANGED <<fileVars, lock, last, prev, slot, count>>

StartDrain ==
  /\ pc[Daemon] \notin {"down", "start", "diagnose", "quarantine"} /\ drain = "none"
  /\ drain' = "sending"
  /\ UNCHANGED <<fileVars, writerVars, queue, count>>

\* Mutation: success is reported as soon as the barrier is queued.
DrainSendOnly ==
  /\ drain = "sending" /\ Len(queue) < QueueCapacity
  /\ queue' = Append(queue, "drain") /\ drain' = "ok"
  /\ UNCHANGED <<fileVars, writerVars, count>>

\* wait_for_audit_drain: the barrier waits for a place in the queue.
DrainSend ==
  /\ drain = "sending" /\ Len(queue) < QueueCapacity
  /\ queue' = Append(queue, "drain") /\ drain' = "waiting"
  /\ UNCHANGED <<fileVars, writerVars, count>>

DrainTimesOut ==
  /\ drain \in {"sending", "waiting"}
  /\ drain' = "failed" /\ marker' \in {marker, TRUE}
  /\ UNCHANGED <<log, archives, quarantined, writerVars, queue, count>>

\* The process ends after its drain, or is killed, wherever its writer thread is.
DaemonEnds ==
  /\ pc[Daemon] # "down"
  /\ \/ drain \in {"ok", "failed"} /\ UNCHANGED <<drain, count>>
     \/ /\ count.faults < MaxFaults /\ count' = [count EXCEPT !.faults = @ + 1]
        /\ drain' = "none"
  /\ Rest(Daemon, "down") /\ queue' = <<>> /\ UNCHANGED fileVars

-----------------------------------------------------------------------------
Append_(p) ==
  \/ Lock(p) \/ Rotate(p) \/ Shift(p) \/ RotateLog(p) \/ ReadTail(p)
  \/ Newline(p) \/ Write(p) \/ EndLine(p) \/ Return(p) \/ Fail(p)

Recover ==
  RecoverLock \/ Diagnose \/ DiagnoseCorrupt \/ DiagnoseUnreadable \/ Quarantine

Next ==
  \/ \E p \in Writers : Append_(p) \/ WriteFails(p) \/ StepFails(p) \/ Open(p) \/ Killed(p)
  \/ Mark \/ StartDaemon \/ Recover \/ RecoverFails \/ Enqueue \/ Receive
  \/ StartDrain \/ DrainSend \/ DrainTimesOut \/ DaemonEnds

Spec == Init /\ [][Next]_vars

\* Every writer is scheduled, and whoever waits for the file lock gets it:
\* each holder keeps it for one record only.
Fairness ==
  /\ \A p \in Writers : WF_vars(Append_(p)) /\ SF_vars(Lock(p))
  /\ WF_vars(Mark) /\ WF_vars(Receive) /\ WF_vars(Recover)

FairSpec == Spec /\ Fairness

-----------------------------------------------------------------------------
(* Properties.                                                             *)

\* Every variable has its type.
TypeOK ==
  /\ log \in Seq(Line) /\ archives \in [1..MaxArchives -> Seq(Line)]
  /\ quarantined \subseteq Nat /\ marker \in BOOLEAN
  /\ lock \in Writers \cup {None} /\ pc \in [Writers -> Points]
  /\ last \in [Writers -> Nat] /\ prev \in [Writers -> Nat] /\ slot \in [Writers -> Nat]
  /\ queue \in Seq({"event", "drain"}) /\ Len(queue) <= QueueCapacity
  /\ drain \in {"none", "sending", "waiting", "ok", "failed", "refused"}
  /\ count \in [made : Nat, begun : Nat, submitted : Nat, settled : Nat,
                unmarked : Nat, starts : Nat, faults : Nat]

Ids(lines) == {line.id : line \in ToSet(lines)} \ {0}
Files == {log} \cup {archives[i] : i \in 1..MaxArchives}

\* Whoever appends, dies or rotates when, a log is one unbroken chain to
\* verify_integrity, or it is one up to a last line that was cut short, which
\* every later writer refuses (log, log_locked, get_last_hash).
VerifiesUnlessTorn ==
  \A lines \in Files : IF Corrupt(lines) THEN Verifies(Front(lines)) ELSE Verifies(lines)

\* Rotation only ever gives up the oldest entries, a rotation that died half-way
\* included: an older file has the older entries, and an entry that is gone is
\* older than all that are kept or was quarantined.  History never leaves the
\* active log that way without the marker that says so, even if the daemon dies
\* during its recovery (rotate_if_needed, recover_audit_logger).
RetentionInOrder ==
  LET Older(a, b) == \A i \in Ids(a), j \in Ids(b) : i < j
      Kept == UNION {Ids(lines) : lines \in Files}
  IN  /\ \A i \in 1..MaxArchives : Older(archives[i], log)
      /\ \A i, j \in 1..MaxArchives : i > j => Older(archives[i], archives[j])
      /\ \A i \in 1..count.made, j \in Kept : i \notin Kept \cup quarantined => i < j
      /\ quarantined # {} => marker

\* When a drain reports success, every event of this daemon is in the log, or
\* the collection is marked incomplete, or the marker of each event that is
\* missing could not be written when it was lost: no event is still under way,
\* and none vanishes between the queue, the writer thread and the barrier
\* (drain_audit_queue, enqueue_audit_event, record_global).
DrainedIsSettled ==
  drain = "ok" => \/ count.settled + count.unmarked = count.submitted
                  \/ marker

\* The writer thread gets through its queue, whatever other processes append.
QueueSettles ==
  queue # <<>> ~> (queue = <<>> \/ pc[Daemon] = "down")
=============================================================================
