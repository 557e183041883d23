--------------------------- MODULE AuditLogProofs ---------------------------
(***************************************************************************)
(* Proofs about the audit log, for any number of commands, lines per file, *)
(* archives, events, starts and faults.                                    *)
(*                                                                         *)
(* The invariant says what the holder of audit.lock knows while it works   *)
(* on the files (WriterSound), that the file a rotation is going to fill   *)
(* is empty (RotationSound), and where every event is that the daemon was  *)
(* given and has not settled (QueueSound).                                 *)
(***************************************************************************)
EXTENDS AuditLog, TLAPS

\* The points at which a writer holds audit.lock.
Critical == {"rotate", "shift", "tail", "newline", "write", "end", "unlock", "fail",
             "diagnose", "quarantine"}
Recovery == {"start", "diagnose", "quarantine"}
\* The points at which the daemon has an event in its hands.
Busy == {"lock", "rotate", "shift", "tail", "newline", "write", "end", "unlock",
         "fail", "mark"}

\* The four parts of TypeOK.
FilesTyped ==
  /\ log \in Seq(Line) /\ archives \in [1..MaxArchives -> Seq(Line)]
  /\ quarantined \subseteq Nat /\ marker \in BOOLEAN
WritersTyped ==
  /\ lock \in Writers \cup {None} /\ pc \in [Writers -> Points]
  /\ last \in [Writers -> Nat] /\ prev \in [Writers -> Nat] /\ slot \in [Writers -> Nat]
QueueTyped ==
  /\ queue \in Seq({"event", "drain"}) /\ Len(queue) <= QueueCapacity
  /\ drain \in {"none", "sending", "waiting", "ok", "failed", "refused"}
Tallies == [made : Nat, begun : Nat, submitted : Nat, settled : Nat,
            unmarked : Nat, starts : Nat, faults : Nat]
CountTyped ==
  count \in [made : Nat, begun : Nat, submitted : Nat, settled : Nat,
            unmarked : Nat, starts : Nat, faults : Nat]

LockSound ==
  /\ \A p \in Writers : pc[p] \in Critical <=> lock = p
  /\ \A p \in Commands : pc[p] \notin Recovery \cup {"down", "mark"}

\* Between the read of the tail and the write nobody else changes the tail.
WriterSound ==
  \A p \in Writers :
    /\ pc[p] \in {"newline", "write"} => ~Corrupt(log) /\ prev[p] = LastHash(log)
    /\ pc[p] = "write" => log = <<>> \/ Last(log).form = "ended"
    /\ pc[p] = "end" => log # <<>> /\ ~Corrupt(log)

Chain(lines) == IF Corrupt(lines) THEN Verifies(Front(lines)) ELSE Verifies(lines)
ChainsSound == Chain(log) /\ \A i \in 1..MaxArchives : Chain(archives[i])

Older(a, b) == \A i \in Ids(a), j \in Ids(b) : i < j
Kept == Ids(log) \cup UNION {Ids(archives[i]) : i \in 1..MaxArchives}

\* An older file has older entries, what was lost is older than what is kept,
\* and no entry is newer than the last one made.
FilesInOrder ==
  /\ \A i \in 1..MaxArchives : Older(archives[i], log)
  /\ \A i, j \in 1..MaxArchives : i > j => Older(archives[i], archives[j])
  /\ \A i \in 1..count.made, j \in Kept : i \notin Kept \cup quarantined => i < j
  /\ Kept \subseteq 1..count.made

\* A rotation fills an empty slot, and the marker is there before a log is moved away.
RotationSound ==
  /\ \A p \in Writers : pc[p] = "shift" =>
       slot[p] + 1 \in 1..MaxArchives /\ archives[slot[p] + 1] = <<>>
  /\ (quarantined # {} \/ pc[Daemon] = "quarantine") => marker

\* The barrier of the drain is the last message, and an event that the daemon
\* was given is settled, lost without a marker, in its hands or in the queue,
\* or there is a marker.
Accounted == count.settled + count.unmarked
Barrier == IF drain = "waiting" THEN 1 ELSE 0
InHand == IF pc[Daemon] \in Busy THEN 1 ELSE 0
QueueSound ==
  /\ drain \in {"none", "sending", "waiting"} =>
       /\ \A i \in 1..(Len(queue) - Barrier) : queue[i] = "event"
       /\ drain = "waiting" => queue # <<>> /\ queue[Len(queue)] = "drain"
       /\ \/ pc[Daemon] = "down" \/ marker
          \/ Accounted + InHand + Len(queue) = count.submitted + Barrier
  /\ drain = "ok" => queue = <<>> /\ pc[Daemon] \in {"down", "idle"} /\ DrainedIsSettled
  /\ pc[Daemon] \in {"down"} \cup Recovery => queue = <<>>
  /\ pc[Daemon] \in Recovery => drain = "none"
  /\ drain \in {"sending", "waiting"} => pc[Daemon] # "down"
  /\ drain = "refused" => pc[Daemon] = "down"

AuditInv ==
  /\ TypeOK /\ LockSound /\ WriterSound /\ ChainsSound
  /\ FilesInOrder /\ RotationSound /\ QueueSound

-----------------------------------------------------------------------------
(* Lines and files.                                                        *)

\* What Append does to a file.
LEMMA Appended ==
  ASSUME NEW s \in Seq(Line), NEW e \in Line
  PROVE  LET t == Append(s, e) IN
         /\ t \in Seq(Line) /\ t # <<>> /\ Last(t) = e /\ Front(t) = s
         /\ Len(t) = Len(s) + 1
         /\ \A i \in 1..Len(s) : t[i] = s[i]
<1> DEFINE t == Append(s, e)
<1>1. t \in Seq(Line) /\ Len(t) = Len(s) + 1 /\ t[Len(s) + 1] = e /\ Len(s) \in Nat
  OBVIOUS
<1>2. \A i \in 1..Len(s) : t[i] = s[i]
  OBVIOUS
<1>3. t # <<>>
  BY <1>1
<1>4. Last(t) = e
  BY <1>1 DEF Last
<1>5. Front(t) \in Seq(Line) /\ Len(Front(t)) = Len(s)
      /\ \A i \in 1..Len(s) : Front(t)[i] = s[i]
  <2>1. Len(t) - 1 = Len(s)
    BY <1>1
  <2>2. Front(t) = SubSeq(t, 1, Len(s))
    BY <2>1 DEF Front
  <2> QED
    BY <2>2, <1>1, <1>2
<1>6. Front(t) = s
  BY <1>5
<1> QED
  BY <1>1, <1>2, <1>3, <1>4, <1>6

\* What a newline at its end does to a file: the last line is ended.
LEMMA Ending ==
  ASSUME NEW s \in Seq(Line), s # <<>>
  PROVE  LET t == Terminated(s) IN
         /\ t \in Seq(Line) /\ t # <<>> /\ Len(t) = Len(s) /\ Len(s) \in Nat \ {0}
         /\ \A i \in 1..Len(s) : i < Len(s) => t[i] = s[i]
         /\ Last(t).form = "ended" /\ Last(t).id = Last(s).id /\ Last(t).prev = Last(s).prev
         /\ Last(t) = t[Len(s)] /\ Last(s) = s[Len(s)]
<1> DEFINE t == Terminated(s)
           e == [Last(s) EXCEPT !.form = "ended"]
<1>1. Len(s) \in Nat \ {0} /\ Last(s) = s[Len(s)] /\ Last(s) \in Line
  BY DEF Last
<1>2. e \in Line /\ e.form = "ended" /\ e.id = Last(s).id /\ e.prev = Last(s).prev
  BY <1>1 DEF Line, Forms
<1>3. Front(s) \in Seq(Line) /\ Len(Front(s)) = Len(s) - 1
      /\ \A i \in 1..(Len(s) - 1) : Front(s)[i] = s[i]
  <2>1. PICK n \in Nat : n = Len(s) - 1
    BY <1>1
  <2>2. Front(s) = SubSeq(s, 1, n) /\ \A i \in 1..n : s[i] \in Line
    BY <2>1, <1>1 DEF Front
  <2>3. Front(s) \in Seq(Line) /\ Len(Front(s)) = n /\ \A i \in 1..n : Front(s)[i] = s[i]
    BY <2>1, <2>2, <1>1
  <2> QED
    BY <2>1, <2>3
<1>4. t = Append(Front(s), e)
  BY DEF Terminated
<1>5. t \in Seq(Line) /\ t # <<>> /\ Last(t) = e /\ Len(t) = Len(s)
      /\ \A i \in 1..(Len(s) - 1) : t[i] = s[i]
  <2> HIDE DEF e, t
  <2>1. t \in Seq(Line) /\ t # <<>> /\ Last(t) = e /\ Len(t) = Len(Front(s)) + 1
        /\ \A i \in 1..Len(Front(s)) : t[i] = Front(s)[i]
    BY <1>2, <1>3, <1>4, Appended
  <2> QED
    BY <2>1, <1>3, <1>1
<1>6. Last(t) = t[Len(s)]
  BY <1>5 DEF Last
<1> QED
  <2> HIDE DEF e, t
  <2>1. \A i \in 1..Len(s) : i < Len(s) => i \in 1..(Len(s) - 1)
    BY <1>1
  <2>2. \A i \in 1..Len(s) : i < Len(s) => t[i] = s[i]
    BY <2>1, <1>5
  <2> QED
    BY <1>1, <1>2, <1>5, <1>6, <2>2 DEF t

\* The number of an entry is in a file if one of its lines has it.
LEMMA IdsAt ==
  ASSUME NEW s \in Seq(Line)
  PROVE  /\ \A k : k \in Ids(s) <=> (k # 0 /\ \E i \in 1..Len(s) : k = s[i].id)
         /\ Ids(s) \subseteq Nat \ {0}
<1>1. DOMAIN s = 1..Len(s) /\ \A i \in 1..Len(s) : s[i] \in Line
  OBVIOUS
<1>2. \A k : k \in Ids(s) <=> (k # 0 /\ \E i \in 1..Len(s) : k = s[i].id)
  BY <1>1 DEF Ids, ToSet
<1> QED
  BY <1>1, <1>2 DEF Line

LEMMA IdsEmpty == Ids(<<>>) = {}
BY DEF Ids, ToSet

LEMMA IdsAppended ==
  ASSUME NEW s \in Seq(Line), NEW e \in Line
  PROVE  Ids(Append(s, e)) = Ids(s) \cup ({e.id} \ {0})
<1> DEFINE t == Append(s, e)
<1>1. t \in Seq(Line) /\ Len(t) = Len(s) + 1 /\ Len(s) \in Nat /\ t[Len(s) + 1] = e
      /\ \A i \in 1..Len(s) : t[i] = s[i]
  OBVIOUS
<1> HIDE DEF t
<1>2. ASSUME NEW k PROVE k \in Ids(t) <=> (k \in Ids(s) \/ (k = e.id /\ k # 0))
  <2>1. k \in Ids(t) <=> (k # 0 /\ \E i \in 1..(Len(s) + 1) : k = t[i].id)
    BY <1>1, IdsAt
  <2>2. k \in Ids(s) <=> (k # 0 /\ \E i \in 1..Len(s) : k = s[i].id)
    BY IdsAt
  <2>3. \A i \in 1..(Len(s) + 1) : i \in 1..Len(s) \/ i = Len(s) + 1
    BY <1>1
  <2>4. \A i \in 1..Len(s) : i \in 1..(Len(s) + 1)
    BY <1>1
  <2>5. Len(s) + 1 \in 1..(Len(s) + 1)
    BY <1>1
  <2> QED
    BY <1>1, <2>1, <2>2, <2>3, <2>4, <2>5
<1> QED
  BY <1>2 DEF t

LEMMA IdsEnded ==
  ASSUME NEW s \in Seq(Line)
  PROVE  Ids(Terminated(s)) = Ids(s)
<1>1. CASE s = <<>>
  BY <1>1 DEF Terminated
<1>2. CASE s # <<>>
  <2> DEFINE t == Terminated(s)
  <2>1. /\ t \in Seq(Line) /\ Len(t) = Len(s) /\ Len(s) \in Nat \ {0}
        /\ \A i \in 1..Len(s) : i < Len(s) => t[i] = s[i]
        /\ t[Len(s)].id = s[Len(s)].id
    BY <1>2, Ending
  <2> HIDE DEF t
  <2>2. \A i \in 1..Len(s) : t[i].id = s[i].id
    BY <2>1
  <2>3. \A k : k \in Ids(t) <=> k \in Ids(s)
    BY <2>1, <2>2, IdsAt
  <2> QED
    BY <2>3 DEF t
<1> QED
  BY <1>1, <1>2

\* A line that follows the last one extends the chain; a broken one leaves the
\* chain in front of it.
LEMMA ChainAppended ==
  ASSUME NEW s \in Seq(Line), NEW e \in Line,
         Chain(s), ~Corrupt(s), e.prev = LastHash(s)
  PROVE  Chain(Append(s, e))
<1> DEFINE t == Append(s, e)
<1>1. /\ t \in Seq(Line) /\ t # <<>> /\ Last(t) = e /\ Front(t) = s
      /\ Len(t) = Len(s) + 1 /\ Len(s) \in Nat /\ t[Len(s) + 1] = e
      /\ \A i \in 1..Len(s) : t[i] = s[i]
  BY Appended
<1>2. Verifies(s) /\ DOMAIN s = 1..Len(s)
  BY DEF Chain
<1> HIDE DEF t
<1>3. CASE e.form \in Broken
  BY <1>1, <1>2, <1>3 DEF Chain, Corrupt, t
<1>4. CASE e.form \notin Broken
  <2>1. ~Corrupt(t)
    BY <1>1, <1>4 DEF Corrupt
  <2>2. ASSUME NEW i \in 1..(Len(s) + 1)
        PROVE  t[i].form \notin Broken /\ t[i].prev = IF i = 1 THEN 0 ELSE t[i - 1].id
    <3>1. CASE i = Len(s) + 1
      <4>1. CASE s = <<>>
        BY <4>1, <3>1, <1>1, <1>4 DEF LastHash
      <4>2. CASE s # <<>>
        <5>1. Len(s) \in 1..Len(s) /\ i # 1 /\ i - 1 = Len(s)
          BY <4>2, <3>1, <1>1
        <5>2. e.prev = s[Len(s)].id
          BY <4>2 DEF LastHash, Last
        <5> QED
          BY <5>1, <5>2, <3>1, <1>1, <1>4
      <4> QED
        BY <4>1, <4>2
    <3>2. CASE i # Len(s) + 1
      <4>1. i \in 1..Len(s) /\ (i # 1 => i - 1 \in 1..Len(s))
        BY <3>2, <1>1
      <4>2. s[i].form \notin Broken /\ s[i].prev = IF i = 1 THEN 0 ELSE s[i - 1].id
        BY <4>1, <1>2 DEF Verifies
      <4> QED
        BY <4>1, <4>2, <1>1
    <3> QED
      BY <3>1, <3>2
  <2>3. DOMAIN t = 1..(Len(s) + 1)
    BY <1>1
  <2>4. Verifies(t)
    BY <2>2, <2>3 DEF Verifies
  <2> QED
    BY <2>1, <2>4 DEF Chain, t
<1> QED
  BY <1>3, <1>4

LEMMA ChainEnded ==
  ASSUME NEW s \in Seq(Line), Chain(s), ~Corrupt(s)
  PROVE  /\ Terminated(s) \in Seq(Line) /\ Chain(Terminated(s)) /\ ~Corrupt(Terminated(s))
         /\ LastHash(Terminated(s)) = LastHash(s)
         /\ (Terminated(s) = <<>> \/ Last(Terminated(s)).form = "ended")
         /\ (s # <<>> => Terminated(s) # <<>>)
<1>1. CASE s = <<>>
  BY <1>1 DEF Terminated
<1>2. CASE s # <<>>
  <2> DEFINE t == Terminated(s)
  <2>1. /\ t \in Seq(Line) /\ t # <<>> /\ Len(t) = Len(s) /\ Len(s) \in Nat \ {0}
        /\ \A i \in 1..Len(s) : i < Len(s) => t[i] = s[i]
        /\ t[Len(s)].form = "ended" /\ t[Len(s)].id = s[Len(s)].id
        /\ t[Len(s)].prev = s[Len(s)].prev
        /\ Last(t) = t[Len(s)] /\ Last(s) = s[Len(s)]
    BY <1>2, Ending
  <2>2. Verifies(s) /\ DOMAIN s = 1..Len(s)
    BY DEF Chain
  <2> HIDE DEF t
  <2>3. ~Corrupt(t)
    BY <2>1 DEF Corrupt, Broken
  <2>4. \A i \in 1..Len(s) : t[i].id = s[i].id /\ t[i].prev = s[i].prev
    BY <2>1
  <2>5. ASSUME NEW i \in 1..Len(s)
        PROVE  t[i].form \notin Broken /\ t[i].prev = IF i = 1 THEN 0 ELSE t[i - 1].id
    <3>1. s[i].form \notin Broken /\ s[i].prev = IF i = 1 THEN 0 ELSE s[i - 1].id
      BY <2>2 DEF Verifies
    <3>2. t[i].form \notin Broken
      <4>1. i = Len(s) \/ i < Len(s)
        BY <2>1
      <4> QED
        BY <4>1, <3>1, <2>1 DEF Broken
    <3>3. i # 1 => i - 1 \in 1..Len(s)
      BY <2>1
    <3> QED
      BY <3>1, <3>2, <3>3, <2>4
  <2>6. DOMAIN t = 1..Len(s)
    BY <2>1
  <2>7. Verifies(t)
    BY <2>5, <2>6 DEF Verifies
  <2> QED
    BY <2>1, <2>3, <2>7, <1>2 DEF Chain, LastHash, t
<1> QED
  BY <1>1, <1>2

LEMMA ChainEmpty == Chain(<<>>) /\ ~Corrupt(<<>>) /\ LastHash(<<>>) = 0
BY DEF Chain, Corrupt, Verifies, LastHash

-----------------------------------------------------------------------------
(* Types and the lock.                                                     *)

LEMMA TypeParts == TypeOK <=> FilesTyped /\ WritersTyped /\ QueueTyped /\ CountTyped
BY DEF TypeOK, FilesTyped, WritersTyped, QueueTyped, CountTyped

LEMMA Updated ==
  ASSUME NEW S, NEW T, NEW f \in [S -> T], NEW x, NEW e \in T
  PROVE  [f EXCEPT ![x] = e] \in [S -> T]
OBVIOUS

LEMMA NoLines == <<>> \in Seq(Line)
OBVIOUS

LEMMA LinesTyped ==
  ASSUME NEW s \in Seq(Line)
  PROVE  /\ LastHash(s) \in Nat /\ Terminated(s) \in Seq(Line)
         /\ \A e \in Line : Written(s, e) \in Seq(Line)
<1>1. CASE s = <<>>
  BY <1>1, Appended DEF LastHash, Terminated, Written
<1>2. CASE s # <<>>
  <2>1. Len(s) \in Nat \ {0} /\ Last(s) = s[Len(s)] /\ Last(s) \in Line
    BY <1>2 DEF Last
  <2>2. LastHash(s) \in Nat
    BY <2>1, <1>2 DEF LastHash, Line
  <2>3. Terminated(s) \in Seq(Line)
    BY <1>2, Ending
  <2>4. ASSUME NEW e \in Line PROVE Written(s, e) \in Seq(Line)
    <3>1. Append(s, e) \in Seq(Line)
      OBVIOUS
    <3>2. [e EXCEPT !.id = 0, !.form = "torn"] \in Line
      BY DEF Line, Forms
    <3>3. Front(s) \in Seq(Line)
      <4>1. PICK n \in Nat : n = Len(s) - 1
        BY <2>1
      <4>2. Front(s) = SubSeq(s, 1, n) /\ \A i \in 1..n : s[i] \in Line
        BY <4>1, <2>1 DEF Front
      <4> QED
        BY <4>1, <4>2, <2>1
    <3>4. Append(Front(s), [e EXCEPT !.id = 0, !.form = "torn"]) \in Seq(Line)
      BY <3>2, <3>3, Appended
    <3> QED
      BY <3>1, <3>4 DEF Written
  <2> QED
    BY <2>2, <2>3, <2>4
<1> QED
  BY <1>1, <1>2

LEMMA FilesTypedStep ==
  ASSUME FilesTyped, WritersTyped, CountTyped, [Next]_vars
  PROVE  FilesTyped'
<1>1. ASSUME NEW p \in Writers, Lock(p) PROVE FilesTyped'
  BY <1>1 DEF FilesTyped, Lock, fileVars
<1>2. ASSUME NEW p \in Writers, Rotate(p) PROVE FilesTyped'
  <2>1. log' \in Seq(Line) /\ (archives' = archives \/ archives' = [archives EXCEPT ![MaxArchives] = <<>>])
    BY <1>2 DEF Rotate, FilesTyped
  <2>2. [archives EXCEPT ![MaxArchives] = <<>>] \in [1..MaxArchives -> Seq(Line)]
    BY Updated, NoLines DEF FilesTyped
  <2> QED
    BY <2>1, <2>2, <1>2 DEF Rotate, FilesTyped
<1>3. ASSUME NEW p \in Writers, Shift(p) PROVE FilesTyped'
  <2> DEFINE i == slot[p]
               moved == [archives EXCEPT ![i + 1] = archives[i]]
  <2>1. i \in Nat \ {0} /\ log' = log /\ quarantined' = quarantined /\ marker' = marker
        /\ (archives' = archives \/ archives' = [moved EXCEPT ![i] = <<>>])
    BY <1>3 DEF Shift, WritersTyped
  <2> HIDE DEF i
  <2>2. moved \in [1..MaxArchives -> Seq(Line)]
    <3>1. i + 1 \in 1..MaxArchives => archives[i] \in Seq(Line)
      BY <2>1, AuditConstants DEF FilesTyped
    <3> QED
      BY <3>1 DEF FilesTyped
  <2> HIDE DEF moved
  <2>3. [moved EXCEPT ![i] = <<>>] \in [1..MaxArchives -> Seq(Line)]
    BY <2>2, Updated, NoLines
  <2> QED
    BY <2>1, <2>3 DEF FilesTyped
<1>4. ASSUME NEW p \in Writers, RotateLog(p) PROVE FilesTyped'
  <2>1. [archives EXCEPT ![1] = log] \in [1..MaxArchives -> Seq(Line)]
    BY DEF FilesTyped
  <2> QED
    BY <2>1, <1>4 DEF RotateLog, FilesTyped
<1>5. ASSUME NEW p \in Writers, ReadTail(p) PROVE FilesTyped'
  BY <1>5 DEF FilesTyped, ReadTail, fileVars
<1>6. ASSUME NEW p \in Writers, Newline(p) PROVE FilesTyped'
  BY <1>6, LinesTyped DEF Newline, FilesTyped
<1>7. ASSUME NEW p \in Writers, Write(p) PROVE FilesTyped'
  <2>1. count'.made \in Nat /\ prev[p] \in Nat
    BY <1>7 DEF Write, CountTyped, WritersTyped
  <2>2. PICK made \in Nat : made = count'.made
    BY <2>1
  <2>3. [id |-> made, prev |-> prev[p], form |-> "open"] \in Line
    BY <2>1, <2>2 DEF Line, Forms
  <2>4. log' \in Seq(Line)
    BY <2>2, <2>3, <1>7, LinesTyped DEF Write, FilesTyped
  <2> QED
    BY <2>4, <1>7 DEF Write, FilesTyped
<1>8. ASSUME NEW p \in Writers, EndLine(p) PROVE FilesTyped'
  BY <1>8, LinesTyped DEF EndLine, FilesTyped
<1>9. ASSUME NEW p \in Writers, Return(p) PROVE FilesTyped'
  BY <1>9 DEF FilesTyped, Return, fileVars
<1>10. ASSUME NEW p \in Writers, Fail(p) PROVE FilesTyped'
  BY <1>10 DEF FilesTyped, Fail, fileVars
<1>11. ASSUME NEW p \in Writers, WriteFails(p) PROVE FilesTyped'
  <2>1. \A form \in Broken : [id |-> 0, prev |-> prev[p], form |-> form] \in Line
    BY DEF Line, Forms, Broken, WritersTyped
  <2>2. log' \in Seq(Line)
    BY <2>1, <1>11, LinesTyped DEF WriteFails, FilesTyped
  <2> QED
    BY <2>2, <1>11 DEF WriteFails, FilesTyped
<1>12. ASSUME NEW p \in Writers, StepFails(p) PROVE FilesTyped'
  BY <1>12 DEF FilesTyped, StepFails, fileVars
<1>13. ASSUME NEW p \in Writers, Open(p) PROVE FilesTyped'
  BY <1>13 DEF FilesTyped, Open, fileVars
<1>14. ASSUME NEW p \in Writers, Killed(p) PROVE FilesTyped'
  BY <1>14 DEF FilesTyped, Killed, fileVars
<1>15. CASE Mark
  BY <1>15 DEF FilesTyped, Mark, MarkOrLog
<1>16. CASE StartDaemon
  BY <1>16 DEF FilesTyped, StartDaemon, fileVars
<1>17. CASE RecoverLock
  BY <1>17 DEF FilesTyped, RecoverLock, fileVars
<1>18. CASE Diagnose
  BY <1>18 DEF FilesTyped, Diagnose, Serve
<1>19. CASE DiagnoseCorrupt
  BY <1>19 DEF FilesTyped, DiagnoseCorrupt
<1>20. CASE DiagnoseUnreadable
  BY <1>20 DEF FilesTyped, DiagnoseUnreadable, fileVars
<1>29. CASE RecoverFails
  BY <1>29 DEF FilesTyped, RecoverFails, fileVars
<1>21. CASE Quarantine
  <2>1. {line.id : line \in ToSet(log)} \subseteq Nat
    <3>1. \A i \in DOMAIN log : log[i] \in Line
      BY DEF FilesTyped
    <3>2. \A line \in Line : line.id \in Nat
      BY DEF Line
    <3> QED
      BY <3>1, <3>2 DEF ToSet
  <2> QED
    BY <2>1, NoLines, <1>21 DEF Quarantine, Serve, FilesTyped
<1>22. CASE Enqueue
  BY <1>22 DEF FilesTyped, Enqueue, MarkOrLog
<1>23. CASE Receive
  BY <1>23 DEF FilesTyped, Receive, fileVars
<1>24. CASE StartDrain
  BY <1>24 DEF FilesTyped, StartDrain, fileVars
<1>25. CASE DrainSend
  BY <1>25 DEF FilesTyped, DrainSend, fileVars
<1>26. CASE DrainTimesOut
  BY <1>26 DEF FilesTyped, DrainTimesOut
<1>27. CASE DaemonEnds
  BY <1>27 DEF FilesTyped, DaemonEnds, fileVars
<1>28. CASE UNCHANGED vars
  BY <1>28 DEF FilesTyped, vars, fileVars
<1> QED
  BY <1>1, <1>2, <1>3, <1>4, <1>5, <1>6, <1>7, <1>8, <1>9, <1>10, <1>11,
     <1>12, <1>13, <1>14, <1>15, <1>16, <1>17, <1>18, <1>19, <1>20, <1>21,
     <1>22, <1>23, <1>24, <1>25, <1>26, <1>27, <1>28, <1>29 DEF Next, Append_, Recover

LEMMA WritersTypedStep ==
  ASSUME FilesTyped, WritersTyped, CountTyped, [Next]_vars
  PROVE  WritersTyped'
<1>1. ASSUME NEW p \in Writers, Lock(p) PROVE WritersTyped'
  BY <1>1 DEF WritersTyped, Lock, fileVars, Goto, Points, Writers
<1>2. ASSUME NEW p \in Writers, Rotate(p) PROVE WritersTyped'
  <2>1. slot' = slot \/ (MaxArchives - 1 \in Nat /\ slot' = [slot EXCEPT ![p] = MaxArchives - 1])
    BY <1>2, AuditConstants DEF Rotate
  <2>2. last' = last \/ last' = [last EXCEPT ![p] = 0]
    BY <1>2 DEF Rotate
  <2>3. pc' = [pc EXCEPT ![p] = "tail"] \/ pc' = [pc EXCEPT ![p] = "shift"]
    BY <1>2 DEF Rotate, Goto
  <2>4. slot' \in [Writers -> Nat] /\ last' \in [Writers -> Nat] /\ pc' \in [Writers -> Points]
    BY <2>1, <2>2, <2>3 DEF WritersTyped, Points
  <2> QED
    BY <2>4, <1>2 DEF Rotate, WritersTyped
<1>3. ASSUME NEW p \in Writers, Shift(p) PROVE WritersTyped'
  <2>1. slot[p] - 1 \in Nat /\ slot' = [slot EXCEPT ![p] = slot[p] - 1]
    BY <1>3 DEF Shift, WritersTyped
  <2> QED
    BY <2>1, <1>3 DEF Shift, WritersTyped
<1>4. ASSUME NEW p \in Writers, RotateLog(p) PROVE WritersTyped'
  BY <1>4 DEF WritersTyped, RotateLog, Goto, Points, Writers
<1>5. ASSUME NEW p \in Writers, ReadTail(p) PROVE WritersTyped'
  <2>1. prev' = prev \/ prev' = [prev EXCEPT ![p] = LastHash(log)]
    BY <1>5 DEF ReadTail
  <2>2. LastHash(log) \in Nat
    BY LinesTyped DEF FilesTyped
  <2> QED
    BY <2>1, <2>2, <1>5 DEF ReadTail, WritersTyped, Goto, Points
<1>6. ASSUME NEW p \in Writers, Newline(p) PROVE WritersTyped'
  BY <1>6 DEF WritersTyped, Newline, Goto, Points, Writers
<1>7. ASSUME NEW p \in Writers, Write(p) PROVE WritersTyped'
  BY <1>7 DEF WritersTyped, Write, Goto, Points, Writers
<1>8. ASSUME NEW p \in Writers, EndLine(p) PROVE WritersTyped'
  <2>1. LastHash(log) \in Nat
    BY LinesTyped DEF FilesTyped
  <2> QED
    BY <2>1, <1>8 DEF EndLine, WritersTyped, Goto, Points
<1>9. ASSUME NEW p \in Writers, Return(p) PROVE WritersTyped'
  BY <1>9 DEF WritersTyped, Return, fileVars, Goto, Unlock, Rest, Points,
     Writers
<1>10. ASSUME NEW p \in Writers, Fail(p) PROVE WritersTyped'
  BY <1>10 DEF WritersTyped, Fail, fileVars, Goto, Unlock, Rest, Points,
     Writers
<1>11. ASSUME NEW p \in Writers, WriteFails(p) PROVE WritersTyped'
  BY <1>11 DEF WritersTyped, WriteFails, Goto, Points, Writers
<1>12. ASSUME NEW p \in Writers, StepFails(p) PROVE WritersTyped'
  BY <1>12 DEF WritersTyped, StepFails, fileVars, Goto, Points, Writers
<1>13. ASSUME NEW p \in Writers, Open(p) PROVE WritersTyped'
  <2>1. LastHash(log) \in Nat
    BY LinesTyped DEF FilesTyped
  <2> QED
    BY <2>1, <1>13 DEF Open, WritersTyped, Goto, Points
<1>14. ASSUME NEW p \in Writers, Killed(p) PROVE WritersTyped'
  BY <1>14 DEF WritersTyped, Killed, fileVars, Goto, Unlock, Rest, Points,
     Writers
<1>15. CASE Mark
  BY <1>15 DEF WritersTyped, Mark, MarkOrLog, Goto, Points, Writers
<1>16. CASE StartDaemon
  BY <1>16 DEF WritersTyped, StartDaemon, fileVars, Goto, Points, Writers
<1>17. CASE RecoverLock
  BY <1>17 DEF WritersTyped, RecoverLock, fileVars, Goto, Points, Writers
<1>18. CASE Diagnose
  <2>1. LastHash(log) \in Nat
    BY LinesTyped DEF FilesTyped
  <2> QED
    BY <2>1, <1>18 DEF Diagnose, Serve, Unlock, WritersTyped, Goto, Points,
       Writers
<1>19. CASE DiagnoseCorrupt
  BY <1>19 DEF WritersTyped, DiagnoseCorrupt, Goto, Points, Writers
<1>20. CASE DiagnoseUnreadable
  BY <1>20 DEF WritersTyped, DiagnoseUnreadable, fileVars, Goto, Unlock,
     Points, Writers
<1>29. CASE RecoverFails
  BY <1>29 DEF WritersTyped, RecoverFails, fileVars, Goto, Unlock,
     Points, Writers
<1>21. CASE Quarantine
  BY <1>21 DEF WritersTyped, Quarantine, Goto, Unlock, Serve, Points, Writers
<1>22. CASE Enqueue
  BY <1>22 DEF WritersTyped, Enqueue, MarkOrLog, writerVars, Points, Writers
<1>23. CASE Receive
  BY <1>23 DEF WritersTyped, Receive, fileVars, Goto, Points, Writers
<1>24. CASE StartDrain
  BY <1>24 DEF WritersTyped, StartDrain, fileVars, writerVars, Points, Writers
<1>25. CASE DrainSend
  BY <1>25 DEF WritersTyped, DrainSend, fileVars, writerVars, Points, Writers
<1>26. CASE DrainTimesOut
  BY <1>26 DEF WritersTyped, DrainTimesOut, writerVars, Points, Writers
<1>27. CASE DaemonEnds
  BY <1>27 DEF WritersTyped, DaemonEnds, fileVars, Goto, Unlock, Rest,
     Points, Writers
<1>28. CASE UNCHANGED vars
  BY <1>28 DEF WritersTyped, vars, writerVars
<1> QED
  BY <1>1, <1>2, <1>3, <1>4, <1>5, <1>6, <1>7, <1>8, <1>9, <1>10, <1>11,
     <1>12, <1>13, <1>14, <1>15, <1>16, <1>17, <1>18, <1>19, <1>20, <1>21,
     <1>22, <1>23, <1>24, <1>25, <1>26, <1>27, <1>28, <1>29 DEF Next, Append_, Recover

LEMMA QueueTypedStep ==
  ASSUME QueueTyped, [Next]_vars
  PROVE  QueueTyped'
<1>1. ASSUME NEW p \in Writers, Lock(p) PROVE QueueTyped'
  BY <1>1, AuditConstants DEF QueueTyped, Lock, fileVars, Goto
<1>2. ASSUME NEW p \in Writers, Rotate(p) PROVE QueueTyped'
  BY <1>2, AuditConstants DEF QueueTyped, Rotate, Goto
<1>3. ASSUME NEW p \in Writers, Shift(p) PROVE QueueTyped'
  BY <1>3, AuditConstants DEF QueueTyped, Shift
<1>4. ASSUME NEW p \in Writers, RotateLog(p) PROVE QueueTyped'
  BY <1>4, AuditConstants DEF QueueTyped, RotateLog, Goto
<1>5. ASSUME NEW p \in Writers, ReadTail(p) PROVE QueueTyped'
  BY <1>5, AuditConstants DEF QueueTyped, ReadTail, fileVars, Goto
<1>6. ASSUME NEW p \in Writers, Newline(p) PROVE QueueTyped'
  BY <1>6, AuditConstants DEF QueueTyped, Newline, Goto
<1>7. ASSUME NEW p \in Writers, Write(p) PROVE QueueTyped'
  BY <1>7, AuditConstants DEF QueueTyped, Write, Goto
<1>8. ASSUME NEW p \in Writers, EndLine(p) PROVE QueueTyped'
  BY <1>8, AuditConstants DEF QueueTyped, EndLine, Goto
<1>9. ASSUME NEW p \in Writers, Return(p) PROVE QueueTyped'
  BY <1>9, AuditConstants DEF QueueTyped, Return, fileVars, Goto, Unlock, Rest
<1>10. ASSUME NEW p \in Writers, Fail(p) PROVE QueueTyped'
  BY <1>10, AuditConstants DEF QueueTyped, Fail, fileVars, Goto, Unlock, Rest
<1>11. ASSUME NEW p \in Writers, WriteFails(p) PROVE QueueTyped'
  BY <1>11, AuditConstants DEF QueueTyped, WriteFails, Goto
<1>12. ASSUME NEW p \in Writers, StepFails(p) PROVE QueueTyped'
  BY <1>12, AuditConstants DEF QueueTyped, StepFails, fileVars, Goto
<1>13. ASSUME NEW p \in Writers, Open(p) PROVE QueueTyped'
  BY <1>13, AuditConstants DEF QueueTyped, Open, fileVars, Goto
<1>14. ASSUME NEW p \in Writers, Killed(p) PROVE QueueTyped'
  BY <1>14, AuditConstants DEF QueueTyped, Killed, fileVars, Goto, Unlock,
     Rest
<1>15. CASE Mark
  BY <1>15, AuditConstants DEF QueueTyped, Mark, MarkOrLog, Goto
<1>16. CASE StartDaemon
  BY <1>16, AuditConstants DEF QueueTyped, StartDaemon, fileVars, Goto
<1>17. CASE RecoverLock
  BY <1>17, AuditConstants DEF QueueTyped, RecoverLock, fileVars, Goto
<1>18. CASE Diagnose
  BY <1>18, AuditConstants DEF QueueTyped, Diagnose, Goto, Unlock, Serve
<1>19. CASE DiagnoseCorrupt
  BY <1>19, AuditConstants DEF QueueTyped, DiagnoseCorrupt, Goto
<1>20. CASE DiagnoseUnreadable
  BY <1>20, AuditConstants DEF QueueTyped, DiagnoseUnreadable, fileVars,
     Goto, Unlock
<1>29. CASE RecoverFails
  BY <1>29, AuditConstants DEF QueueTyped, RecoverFails, fileVars,
     Goto, Unlock
<1>21. CASE Quarantine
  BY <1>21, AuditConstants DEF QueueTyped, Quarantine, Goto, Unlock, Serve
<1>22. CASE Enqueue
  <2>1. queue' = queue \/ (Len(queue) < QueueCapacity /\ queue' = Append(queue, "event"))
    BY <1>22 DEF Enqueue, MarkOrLog
  <2>2. drain' = drain
    BY <1>22 DEF Enqueue, MarkOrLog
  <2> QED
    BY <2>1, <2>2, AuditConstants DEF QueueTyped
<1>23. CASE Receive
  BY <1>23, AuditConstants DEF QueueTyped, Receive, fileVars, Goto
<1>24. CASE StartDrain
  BY <1>24, AuditConstants DEF QueueTyped, StartDrain, fileVars, writerVars
<1>25. CASE DrainSend
  BY <1>25, AuditConstants DEF QueueTyped, DrainSend, fileVars, writerVars
<1>26. CASE DrainTimesOut
  BY <1>26, AuditConstants DEF QueueTyped, DrainTimesOut, writerVars
<1>27. CASE DaemonEnds
  BY <1>27, AuditConstants DEF QueueTyped, DaemonEnds, fileVars, Goto,
     Unlock, Rest
<1>28. CASE UNCHANGED vars
  BY <1>28 DEF QueueTyped, vars
<1> QED
  BY <1>1, <1>2, <1>3, <1>4, <1>5, <1>6, <1>7, <1>8, <1>9, <1>10, <1>11,
     <1>12, <1>13, <1>14, <1>15, <1>16, <1>17, <1>18, <1>19, <1>20, <1>21,
     <1>22, <1>23, <1>24, <1>25, <1>26, <1>27, <1>28, <1>29 DEF Next, Append_, Recover

\* A lost event has its marker, or is counted as lost without one.
LEMMA Marked ==
  ASSUME NEW tally \in Tallies, MarkOrLog(tally)
  PROVE  /\ count' \in Tallies /\ count'.submitted = tally.submitted
         /\ count'.settled = tally.settled /\ count'.made = tally.made
         /\ \/ marker' = TRUE
            \/ marker' = marker /\ count'.unmarked = tally.unmarked + 1
  BY DEF MarkOrLog, Tallies

\* One more event is submitted.
LEMMA Submitted ==
  ASSUME CountTyped, Enqueue
  PROVE  /\ count' \in Tallies /\ count'.submitted = count.submitted + 1
         /\ count'.settled = count.settled /\ count'.made = count.made
         /\ Len(queue) < QueueCapacity =>
              /\ queue' = Append(queue, "event") /\ marker' = marker
              /\ count'.unmarked = count.unmarked
         /\ ~(Len(queue) < QueueCapacity) =>
              /\ queue' = queue
              /\ marker' = TRUE \/ (marker' = marker /\ count'.unmarked = count.unmarked + 1)
<1> DEFINE tally == [count EXCEPT !.submitted = @ + 1]
<1>1. /\ tally \in Tallies /\ tally.submitted = count.submitted + 1
      /\ tally.settled = count.settled /\ tally.made = count.made
      /\ tally.unmarked = count.unmarked
  BY DEF CountTyped, Tallies
<1>2. IF Len(queue) < QueueCapacity
      THEN queue' = Append(queue, "event") /\ count' = tally /\ UNCHANGED marker
      ELSE MarkOrLog(tally) /\ UNCHANGED queue
  BY DEF Enqueue
<1> HIDE DEF tally
<1> QED
  BY <1>1, <1>2, Marked

LEMMA CountTypedStep ==
  ASSUME CountTyped, [Next]_vars
  PROVE  CountTyped'
<1>1. ASSUME NEW p \in Writers, Lock(p) PROVE CountTyped'
  BY <1>1 DEF CountTyped, Lock
<1>2. ASSUME NEW p \in Writers, Rotate(p) PROVE CountTyped'
  BY <1>2 DEF CountTyped, Rotate
<1>3. ASSUME NEW p \in Writers, Shift(p) PROVE CountTyped'
  BY <1>3 DEF CountTyped, Shift
<1>4. ASSUME NEW p \in Writers, RotateLog(p) PROVE CountTyped'
  BY <1>4 DEF CountTyped, RotateLog
<1>5. ASSUME NEW p \in Writers, ReadTail(p) PROVE CountTyped'
  BY <1>5 DEF CountTyped, ReadTail
<1>6. ASSUME NEW p \in Writers, Newline(p) PROVE CountTyped'
  BY <1>6 DEF CountTyped, Newline
<1>7. ASSUME NEW p \in Writers, Write(p) PROVE CountTyped'
  BY <1>7 DEF CountTyped, Write
<1>8. ASSUME NEW p \in Writers, EndLine(p) PROVE CountTyped'
  BY <1>8 DEF CountTyped, EndLine
<1>9. ASSUME NEW p \in Writers, Return(p) PROVE CountTyped'
  BY <1>9 DEF CountTyped, Return
<1>10. ASSUME NEW p \in Writers, Fail(p) PROVE CountTyped'
  BY <1>10 DEF CountTyped, Fail
<1>11. ASSUME NEW p \in Writers, WriteFails(p) PROVE CountTyped'
  BY <1>11 DEF CountTyped, WriteFails
<1>12. ASSUME NEW p \in Writers, StepFails(p) PROVE CountTyped'
  BY <1>12 DEF CountTyped, StepFails
<1>13. ASSUME NEW p \in Writers, Open(p) PROVE CountTyped'
  BY <1>13 DEF CountTyped, Open
<1>14. ASSUME NEW p \in Writers, Killed(p) PROVE CountTyped'
  BY <1>14 DEF CountTyped, Killed
<1>15. CASE Mark
  BY <1>15, Marked DEF CountTyped, Tallies, Mark
<1>16. CASE StartDaemon
  <2>1. count' = [count EXCEPT !.submitted = 0, !.settled = 0, !.unmarked = 0,
                               !.starts = @ + 1]
    BY <1>16 DEF StartDaemon
  <2>2. count' = [made |-> count.made, begun |-> count.begun, submitted |-> 0, settled |-> 0,
                  unmarked |-> 0, starts |-> count.starts + 1, faults |-> count.faults]
    BY <2>1 DEF CountTyped
  <2> QED
    BY <2>2 DEF CountTyped
<1>17. CASE RecoverLock
  BY <1>17 DEF CountTyped, RecoverLock
<1>18. CASE Diagnose
  BY <1>18 DEF CountTyped, Diagnose, Serve
<1>19. CASE DiagnoseCorrupt
  BY <1>19 DEF CountTyped, DiagnoseCorrupt
<1>20. CASE DiagnoseUnreadable
  BY <1>20 DEF CountTyped, DiagnoseUnreadable
<1>29. CASE RecoverFails
  BY <1>29 DEF CountTyped, RecoverFails
<1>21. CASE Quarantine
  BY <1>21 DEF CountTyped, Quarantine, Serve
<1>22. CASE Enqueue
  BY <1>22, Submitted DEF CountTyped, Tallies
<1>23. CASE Receive
  BY <1>23 DEF CountTyped, Receive
<1>24. CASE StartDrain
  BY <1>24 DEF CountTyped, StartDrain
<1>25. CASE DrainSend
  BY <1>25 DEF CountTyped, DrainSend
<1>26. CASE DrainTimesOut
  BY <1>26 DEF CountTyped, DrainTimesOut
<1>27. CASE DaemonEnds
  BY <1>27 DEF CountTyped, DaemonEnds
<1>28. CASE UNCHANGED vars
  BY <1>28 DEF CountTyped, vars
<1> QED
  BY <1>1, <1>2, <1>3, <1>4, <1>5, <1>6, <1>7, <1>8, <1>9, <1>10, <1>11,
     <1>12, <1>13, <1>14, <1>15, <1>16, <1>17, <1>18, <1>19, <1>20, <1>21,
     <1>22, <1>23, <1>24, <1>25, <1>26, <1>27, <1>28, <1>29 DEF Next, Append_, Recover

LEMMA TypeStep ==
  ASSUME TypeOK, [Next]_vars
  PROVE  TypeOK'
BY TypeParts, FilesTypedStep, WritersTypedStep, QueueTypedStep, CountTypedStep
   DEF TypeOK, FilesTyped, WritersTyped, QueueTyped, CountTyped

LEMMA LockStep ==
  ASSUME TypeOK, LockSound, [Next]_vars
  PROVE  LockSound'
<1>1. ASSUME NEW p \in Writers, Lock(p) PROVE LockSound'
  BY <1>1, AuditConstants DEF TypeOK, LockSound, Lock, fileVars, Goto,
     Critical, Recovery, Writers
<1>2. ASSUME NEW p \in Writers, Rotate(p) PROVE LockSound'
  BY <1>2, AuditConstants DEF TypeOK, LockSound, Rotate, Goto, Critical,
     Recovery, Writers
<1>3. ASSUME NEW p \in Writers, Shift(p) PROVE LockSound'
  BY <1>3, AuditConstants DEF TypeOK, LockSound, Shift, Critical, Recovery,
     Writers
<1>4. ASSUME NEW p \in Writers, RotateLog(p) PROVE LockSound'
  BY <1>4, AuditConstants DEF TypeOK, LockSound, RotateLog, Goto, Critical,
     Recovery, Writers
<1>5. ASSUME NEW p \in Writers, ReadTail(p) PROVE LockSound'
  BY <1>5, AuditConstants DEF TypeOK, LockSound, ReadTail, fileVars, Goto,
     Critical, Recovery, Writers
<1>6. ASSUME NEW p \in Writers, Newline(p) PROVE LockSound'
  BY <1>6, AuditConstants DEF TypeOK, LockSound, Newline, Goto, Critical,
     Recovery, Writers
<1>7. ASSUME NEW p \in Writers, Write(p) PROVE LockSound'
  BY <1>7, AuditConstants DEF TypeOK, LockSound, Write, Goto, Critical,
     Recovery, Writers
<1>8. ASSUME NEW p \in Writers, EndLine(p) PROVE LockSound'
  BY <1>8, AuditConstants DEF TypeOK, LockSound, EndLine, Goto, Critical,
     Recovery, Writers
<1>9. ASSUME NEW p \in Writers, Return(p) PROVE LockSound'
  BY <1>9, AuditConstants DEF TypeOK, LockSound, Return, fileVars, Goto,
     Unlock, Rest, Critical, Recovery, Writers
<1>10. ASSUME NEW p \in Writers, Fail(p) PROVE LockSound'
  BY <1>10, AuditConstants DEF TypeOK, LockSound, Fail, fileVars, Goto,
     Unlock, Rest, Critical, Recovery, Writers
<1>11. ASSUME NEW p \in Writers, WriteFails(p) PROVE LockSound'
  BY <1>11, AuditConstants DEF TypeOK, LockSound, WriteFails, Goto,
     Critical, Recovery, Writers
<1>12. ASSUME NEW p \in Writers, StepFails(p) PROVE LockSound'
  BY <1>12, AuditConstants DEF TypeOK, LockSound, StepFails, fileVars,
     Goto, Critical, Recovery, Writers
<1>13. ASSUME NEW p \in Writers, Open(p) PROVE LockSound'
  BY <1>13, AuditConstants DEF TypeOK, LockSound, Open, fileVars, Goto,
     Critical, Recovery, Writers
<1>14. ASSUME NEW p \in Writers, Killed(p) PROVE LockSound'
  BY <1>14, AuditConstants DEF TypeOK, LockSound, Killed, fileVars, Goto,
     Unlock, Rest, Critical, Recovery, Writers
<1>15. CASE Mark
  BY <1>15, AuditConstants DEF TypeOK, LockSound, Mark, MarkOrLog, Goto, Critical,
     Recovery, Writers
<1>16. CASE StartDaemon
  BY <1>16, AuditConstants DEF TypeOK, LockSound, StartDaemon, fileVars,
     Goto, Critical, Recovery, Writers
<1>17. CASE RecoverLock
  BY <1>17, AuditConstants DEF TypeOK, LockSound, RecoverLock, fileVars,
     Goto, Critical, Recovery, Writers
<1>18. CASE Diagnose
  BY <1>18, AuditConstants DEF TypeOK, LockSound, Diagnose, Goto, Unlock,
     Serve, Critical, Recovery, Writers
<1>19. CASE DiagnoseCorrupt
  BY <1>19, AuditConstants DEF TypeOK, LockSound, DiagnoseCorrupt, Goto,
     Critical, Recovery, Writers
<1>20. CASE DiagnoseUnreadable
  BY <1>20, AuditConstants DEF TypeOK, LockSound, DiagnoseUnreadable,
     fileVars, Goto, Unlock, Critical, Recovery, Writers
<1>29. CASE RecoverFails
  BY <1>29, AuditConstants DEF TypeOK, LockSound, RecoverFails,
     fileVars, Goto, Unlock, Critical, Recovery, Writers
<1>21. CASE Quarantine
  BY <1>21, AuditConstants DEF TypeOK, LockSound, Quarantine, Goto, Unlock,
     Serve, Critical, Recovery, Writers
<1>22. CASE Enqueue
  BY <1>22, AuditConstants DEF TypeOK, LockSound, Enqueue, MarkOrLog, writerVars,
     Critical, Recovery, Writers
<1>23. CASE Receive
  BY <1>23, AuditConstants DEF TypeOK, LockSound, Receive, fileVars, Goto,
     Critical, Recovery, Writers
<1>24. CASE StartDrain
  BY <1>24, AuditConstants DEF TypeOK, LockSound, StartDrain, fileVars,
     writerVars, Critical, Recovery, Writers
<1>25. CASE DrainSend
  BY <1>25, AuditConstants DEF TypeOK, LockSound, DrainSend, fileVars,
     writerVars, Critical, Recovery, Writers
<1>26. CASE DrainTimesOut
  BY <1>26, AuditConstants DEF TypeOK, LockSound, DrainTimesOut,
     writerVars, Critical, Recovery, Writers
<1>27. CASE DaemonEnds
  BY <1>27, AuditConstants DEF TypeOK, LockSound, DaemonEnds, fileVars,
     Goto, Unlock, Rest, Critical, Recovery, Writers
<1>28. CASE UNCHANGED vars
  BY <1>28 DEF LockSound, vars, writerVars
<1> QED
  BY <1>1, <1>2, <1>3, <1>4, <1>5, <1>6, <1>7, <1>8, <1>9, <1>10, <1>11,
     <1>12, <1>13, <1>14, <1>15, <1>16, <1>17, <1>18, <1>19, <1>20, <1>21,
     <1>22, <1>23, <1>24, <1>25, <1>26, <1>27, <1>28, <1>29 DEF Next, Append_, Recover

-----------------------------------------------------------------------------
(* The queue of the daemon and its drain.                                  *)

\* The events a daemon was given stay accounted for.
LEMMA QueueStep ==
  ASSUME QueueTyped, WritersTyped, CountTyped, LockSound, QueueSound, [Next]_vars
  PROVE  QueueSound'
<1>1. ASSUME NEW p \in Writers, Lock(p) PROVE QueueSound'
  BY <1>1, AuditConstants DEF QueueTyped, WritersTyped, CountTyped,
     LockSound, QueueSound, Lock, fileVars, Goto, Barrier, InHand, Busy,
     Recovery, DrainedIsSettled, Accounted, Writers
<1>2. ASSUME NEW p \in Writers, Rotate(p) PROVE QueueSound'
  BY <1>2, AuditConstants DEF QueueTyped, WritersTyped, CountTyped,
     LockSound, QueueSound, Rotate, Goto, Barrier, InHand, Busy, Recovery,
     DrainedIsSettled, Accounted, Writers
<1>3. ASSUME NEW p \in Writers, Shift(p) PROVE QueueSound'
  BY <1>3, AuditConstants DEF QueueTyped, WritersTyped, CountTyped,
     LockSound, QueueSound, Shift, Barrier, InHand, Busy, Recovery,
     DrainedIsSettled, Accounted, Writers
<1>4. ASSUME NEW p \in Writers, RotateLog(p) PROVE QueueSound'
  BY <1>4, AuditConstants DEF QueueTyped, WritersTyped, CountTyped,
     LockSound, QueueSound, RotateLog, Goto, Barrier, InHand, Busy, Recovery,
     DrainedIsSettled, Accounted, Writers
<1>5. ASSUME NEW p \in Writers, ReadTail(p) PROVE QueueSound'
  BY <1>5, AuditConstants DEF QueueTyped, WritersTyped, CountTyped,
     LockSound, QueueSound, ReadTail, fileVars, Goto, Barrier, InHand, Busy,
     Recovery, DrainedIsSettled, Accounted, Writers
<1>6. ASSUME NEW p \in Writers, Newline(p) PROVE QueueSound'
  BY <1>6, AuditConstants DEF QueueTyped, WritersTyped, CountTyped,
     LockSound, QueueSound, Newline, Goto, Barrier, InHand, Busy, Recovery,
     DrainedIsSettled, Accounted, Writers
<1>7. ASSUME NEW p \in Writers, Write(p) PROVE QueueSound'
  BY <1>7, AuditConstants DEF QueueTyped, WritersTyped, CountTyped,
     LockSound, QueueSound, Write, Goto, Barrier, InHand, Busy, Recovery,
     DrainedIsSettled, Accounted, Writers
<1>8. ASSUME NEW p \in Writers, EndLine(p) PROVE QueueSound'
  BY <1>8, AuditConstants DEF QueueTyped, WritersTyped, CountTyped,
     LockSound, QueueSound, EndLine, Goto, Barrier, InHand, Busy, Recovery,
     DrainedIsSettled, Accounted, Writers
<1>9. ASSUME NEW p \in Writers, Return(p) PROVE QueueSound'
  <2>1. CASE p = Daemon
    <3>1. /\ pc[Daemon] = "unlock" /\ pc'[Daemon] = "idle" /\ queue' = queue /\ drain' = drain
          /\ marker' = marker
      BY <2>1, <1>9 DEF Return, Rest, Goto, fileVars, WritersTyped, Writers
    <3>2. /\ Accounted' = Accounted + 1 /\ count'.submitted = count.submitted
          /\ Accounted \in Nat /\ count.submitted \in Nat /\ Len(queue) \in Nat
      BY <2>1, <1>9 DEF Return, CountTyped, QueueTyped, Accounted
    <3>3. InHand = 1 /\ InHand' = 0 /\ Barrier' = Barrier /\ Barrier \in Nat
      BY <3>1 DEF InHand, Busy, Barrier
    <3>4. Accounted' + InHand' + Len(queue) = Accounted + InHand + Len(queue)
      BY <3>2, <3>3
    <3> QED
      BY <3>1, <3>2, <3>3, <3>4 DEF QueueSound, Recovery
  <2>2. CASE p # Daemon
    BY <2>2, <1>9 DEF WritersTyped, QueueSound, Return, fileVars, Goto,
       Rest, Writers, Barrier,
      InHand, DrainedIsSettled, Accounted
  <2> QED
    BY <2>1, <2>2
<1>10. ASSUME NEW p \in Writers, Fail(p) PROVE QueueSound'
  BY <1>10, AuditConstants DEF QueueTyped, WritersTyped, CountTyped,
     LockSound, QueueSound, Fail, fileVars, Goto, Unlock, Rest, Barrier,
     InHand, Busy, Recovery, DrainedIsSettled, Accounted, Writers
<1>11. ASSUME NEW p \in Writers, WriteFails(p) PROVE QueueSound'
  BY <1>11, AuditConstants DEF QueueTyped, WritersTyped, CountTyped,
     LockSound, QueueSound, WriteFails, Goto, Barrier, InHand, Busy, Recovery,
     DrainedIsSettled, Accounted, Writers
<1>12. ASSUME NEW p \in Writers, StepFails(p) PROVE QueueSound'
  BY <1>12, AuditConstants DEF QueueTyped, WritersTyped, CountTyped,
     LockSound, QueueSound, StepFails, fileVars, Goto, Barrier, InHand, Busy,
     Recovery, DrainedIsSettled, Accounted, Writers
<1>13. ASSUME NEW p \in Writers, Open(p) PROVE QueueSound'
  BY <1>13, AuditConstants DEF QueueTyped, WritersTyped, CountTyped,
     LockSound, QueueSound, Open, fileVars, Goto, Barrier, InHand, Busy,
     Recovery, DrainedIsSettled, Accounted, Writers
<1>14. ASSUME NEW p \in Writers, Killed(p) PROVE QueueSound'
  BY <1>14, AuditConstants DEF QueueTyped, WritersTyped, CountTyped,
     LockSound, QueueSound, Killed, fileVars, Goto, Unlock, Rest, Barrier,
     InHand, Busy, Recovery, DrainedIsSettled, Accounted, Writers
<1>15. CASE Mark
  <2>1. /\ pc[Daemon] = "mark" /\ pc'[Daemon] = "idle" /\ queue' = queue /\ drain' = drain
        /\ count'.submitted = count.submitted
        /\ marker' \/ (marker' = marker /\ Accounted' = Accounted + 1)
        /\ Accounted \in Nat /\ count.submitted \in Nat /\ Len(queue) \in Nat
    <3>1. /\ pc[Daemon] = "mark" /\ pc'[Daemon] = "idle" /\ queue' = queue /\ drain' = drain
          /\ Len(queue) \in Nat /\ Accounted \in Nat /\ count.submitted \in Nat
          /\ count.settled \in Nat /\ count.unmarked \in Nat
      BY <1>15 DEF Mark, Goto, WritersTyped, Writers, CountTyped, QueueTyped,
         Accounted
    <3>2. MarkOrLog(count)
      BY <1>15 DEF Mark
    <3>3. /\ count'.submitted = count.submitted /\ count'.settled = count.settled
          /\ marker' \/ (marker' = marker /\ count'.unmarked = count.unmarked + 1)
      BY <3>2, Marked DEF CountTyped, Tallies
    <3> QED
      BY <3>1, <3>3 DEF Accounted
  <2>2. InHand = 1 /\ InHand' = 0 /\ Barrier' = Barrier /\ Barrier \in Nat
    BY <2>1 DEF InHand, Busy, Barrier
  <2>3. marker' \/ Accounted' + InHand' + Len(queue) = Accounted + InHand + Len(queue)
    BY <2>1, <2>2
  <2>4. drain # "ok"
    BY <2>1 DEF QueueSound
  <2> QED
    BY <2>1, <2>2, <2>3, <2>4 DEF QueueSound, Recovery
<1>16. CASE StartDaemon
  BY <1>16, AuditConstants DEF QueueTyped, WritersTyped, CountTyped,
     LockSound, QueueSound, StartDaemon, fileVars, Goto, Barrier, InHand,
     Busy, Recovery, DrainedIsSettled, Accounted, Writers
<1>17. CASE RecoverLock
  BY <1>17, AuditConstants DEF QueueTyped, WritersTyped, CountTyped,
     LockSound, QueueSound, RecoverLock, fileVars, Goto, Barrier, InHand,
     Busy, Recovery, DrainedIsSettled, Accounted, Writers
<1>18. CASE Diagnose
  BY <1>18, AuditConstants DEF QueueTyped, WritersTyped, CountTyped,
     LockSound, QueueSound, Diagnose, Goto, Unlock, Serve, Barrier, InHand,
     Busy, Recovery, DrainedIsSettled, Accounted, Writers
<1>19. CASE DiagnoseCorrupt
  BY <1>19, AuditConstants DEF QueueTyped, WritersTyped, CountTyped,
     LockSound, QueueSound, DiagnoseCorrupt, Goto, Barrier, InHand, Busy,
     Recovery, DrainedIsSettled, Accounted, Writers
<1>20. CASE DiagnoseUnreadable
  BY <1>20, AuditConstants DEF QueueTyped, WritersTyped, CountTyped,
     LockSound, QueueSound, DiagnoseUnreadable, fileVars, Goto, Unlock,
     Barrier, InHand, Busy, Recovery, DrainedIsSettled, Accounted, Writers
<1>29. CASE RecoverFails
  BY <1>29, AuditConstants DEF QueueTyped, WritersTyped, CountTyped,
     LockSound, QueueSound, RecoverFails, fileVars, Goto, Unlock,
     Barrier, InHand, Busy, Recovery, DrainedIsSettled, Accounted, Writers
<1>21. CASE Quarantine
  BY <1>21, AuditConstants DEF QueueTyped, WritersTyped, CountTyped,
     LockSound, QueueSound, Quarantine, Goto, Unlock, Serve, Barrier, InHand,
     Busy, Recovery, DrainedIsSettled, Accounted, Writers
<1>22. CASE Enqueue
  <2>1. /\ pc' = pc /\ drain' = drain /\ drain = "none" /\ pc[Daemon] \notin {"down"} \cup Recovery
        /\ Barrier = 0 /\ Barrier' = 0 /\ InHand' = InHand /\ InHand \in Nat
    BY <1>22 DEF Enqueue, MarkOrLog, writerVars, Barrier, InHand, Recovery
  <2>2. /\ count'.submitted = count.submitted + 1
        /\ Accounted \in Nat /\ count.submitted \in Nat /\ Len(queue) \in Nat
        /\ Len(queue) < QueueCapacity => Accounted' = Accounted
    <3>1. /\ count.settled \in Nat /\ count.unmarked \in Nat /\ count.submitted \in Nat
          /\ Len(queue) \in Nat
      BY DEF CountTyped, QueueTyped
    <3> QED
      BY <1>22, <3>1, Submitted DEF Accounted
  <2>3. CASE Len(queue) < QueueCapacity
    <3>1. queue' = Append(queue, "event") /\ marker' = marker
      BY <2>3, <1>22 DEF Enqueue, MarkOrLog
    <3>2. /\ queue' # <<>> /\ Len(queue') = Len(queue) + 1
          /\ \A i \in 1..Len(queue') : i \in 1..Len(queue) \/ queue'[i] = "event"
          /\ \A i \in 1..Len(queue) : queue'[i] = queue[i]
      BY <3>1 DEF QueueTyped
    <3>3. \A i \in 1..Len(queue) : queue[i] = "event"
      BY <2>1, <2>2 DEF QueueSound
    <3>4. \A i \in 1..(Len(queue') - Barrier') : queue'[i] = "event"
      BY <2>1, <2>2, <3>2, <3>3
    <3>5. \/ pc[Daemon] = "down" \/ marker
          \/ Accounted + InHand + Len(queue) = count.submitted
      BY <2>1, <2>2 DEF QueueSound
    <3>6. \/ pc'[Daemon] = "down" \/ marker'
          \/ Accounted' + InHand' + Len(queue') = count'.submitted + Barrier'
      BY <2>1, <2>2, <2>3, <3>1, <3>2, <3>5
    <3> QED
      BY <2>1, <3>4, <3>6 DEF QueueSound
  <2>4. CASE ~(Len(queue) < QueueCapacity)
    <3>1. queue' = queue /\ (marker' \/ (marker' = marker /\ Accounted' = Accounted + 1))
      <4>1. count.settled \in Nat /\ count.unmarked \in Nat
        BY DEF CountTyped
      <4>2. /\ queue' = queue /\ count'.settled = count.settled
            /\ marker' = TRUE \/ (marker' = marker /\ count'.unmarked = count.unmarked + 1)
        BY <2>4, <1>22, Submitted
      <4> QED
        BY <4>1, <4>2 DEF Accounted
    <3>2. \/ pc[Daemon] = "down" \/ marker
          \/ Accounted + InHand + Len(queue) = count.submitted
      BY <2>1, <2>2 DEF QueueSound
    <3>3. \/ pc'[Daemon] = "down" \/ marker'
          \/ Accounted' + InHand' + Len(queue') = count'.submitted + Barrier'
      BY <2>1, <2>2, <3>1, <3>2
    <3> QED
      BY <2>1, <3>1, <3>3 DEF QueueSound
  <2> QED
    BY <2>3, <2>4
<1>23. CASE Receive
  <2>1. /\ pc[Daemon] = "idle" /\ queue # <<>> /\ queue' = Tail(queue)
        /\ marker' = marker /\ count' = count
        /\ Accounted \in Nat /\ count.submitted \in Nat /\ drain \notin {"ok", "refused"}
    BY <1>23 DEF Receive, fileVars, CountTyped, QueueSound, Accounted
  <2>2. /\ Len(queue) \in Nat \ {0} /\ Len(queue') = Len(queue) - 1
        /\ Head(queue) = queue[1] /\ Len(queue') \in Nat
        /\ \A i \in 1..Len(queue') : queue'[i] = queue[i + 1]
    BY <2>1 DEF QueueTyped
  <2>3. InHand = 0 /\ Barrier \in {0, 1}
    BY <2>1 DEF InHand, Busy, Barrier
  <2>4. CASE queue[1] = "event"
    <3>1. /\ pc'[Daemon] = "lock" /\ drain' = drain /\ InHand' = 1 /\ Barrier' = Barrier
      BY <2>4, <2>2, <1>23 DEF Receive, Goto, WritersTyped, Writers,
         InHand, Busy, Barrier
    <3>2. CASE drain \in {"none", "sending", "waiting"}
      <4>1. /\ \A i \in 1..(Len(queue) - Barrier) : queue[i] = "event"
            /\ drain = "waiting" => queue[Len(queue)] = "drain"
            /\ marker \/ Accounted + InHand + Len(queue) = count.submitted + Barrier
        BY <3>2, <2>1 DEF QueueSound
      <4>2. marker' \/ Accounted' + InHand' + Len(queue') = count'.submitted + Barrier'
        BY <4>1, <3>1, <2>1, <2>2, <2>3 DEF Accounted
      <4>3. ASSUME NEW i \in 1..(Len(queue') - Barrier') PROVE queue'[i] = "event"
        <5>1. i \in 1..Len(queue') /\ i + 1 \in 1..(Len(queue) - Barrier)
          BY <3>1, <2>2, <2>3
        <5> QED
          BY <5>1, <4>1, <2>2
      <4>4. drain = "waiting" => queue' # <<>> /\ queue'[Len(queue')] = "drain"
        <5> SUFFICES ASSUME drain = "waiting"
                     PROVE  queue' # <<>> /\ queue'[Len(queue')] = "drain"
          OBVIOUS
        <5>1. queue[Len(queue)] = "drain" /\ Len(queue) # 1
          BY <4>1, <2>4
        <5>2. Len(queue') \in 1..Len(queue') /\ Len(queue') + 1 = Len(queue) /\ Len(queue') # 0
          BY <5>1, <2>2
        <5> QED
          BY <5>1, <5>2, <2>2
      <4> QED
        BY <3>1, <3>2, <4>2, <4>3, <4>4 DEF QueueSound, Recovery
    <3>3. CASE drain = "failed"
      BY <3>1, <3>3 DEF QueueSound, Recovery
    <3> QED
      BY <3>2, <3>3, <2>1 DEF QueueTyped
  <2>5. CASE queue[1] # "event"
    <3>1. pc' = pc /\ drain' = (IF drain = "waiting" THEN "ok" ELSE drain)
      BY <2>5, <2>2, <1>23 DEF Receive
    <3>2. CASE drain = "waiting"
      <4>1. /\ \A i \in 1..(Len(queue) - 1) : queue[i] = "event"
            /\ marker \/ Accounted + Len(queue) = count.submitted + 1
        BY <3>2, <2>1, <2>2, <2>3 DEF QueueSound, Barrier
      <4>2. Len(queue) = 1
        <5>1. Len(queue) # 1 => 1 \in 1..(Len(queue) - 1)
          BY <2>2
        <5> QED
          BY <5>1, <4>1, <2>5
      <4>3. queue' = <<>>
        BY <4>2, <2>1, <2>2 DEF QueueTyped
      <4>4. marker \/ Accounted = count.submitted
        BY <4>1, <4>2, <2>1
      <4> QED
        BY <4>3, <4>4, <3>1, <3>2, <2>1 DEF QueueSound, DrainedIsSettled, Accounted,
           Recovery
    <3>3. CASE drain \in {"none", "sending"}
      <4>1. Barrier = 0 /\ \A i \in 1..(Len(queue) - Barrier) : queue[i] = "event"
        BY <3>3 DEF QueueSound, Barrier
      <4>2. 1 \in 1..(Len(queue) - Barrier)
        BY <4>1, <2>2
      <4> QED
        BY <4>1, <4>2, <2>5
    <3>4. CASE drain = "failed"
      BY <3>1, <3>4, <2>1 DEF QueueSound, Recovery
    <3> QED
      BY <3>2, <3>3, <3>4, <2>1 DEF QueueTyped
  <2> QED
    BY <2>4, <2>5
<1>24. CASE StartDrain
  BY <1>24, AuditConstants DEF QueueTyped, WritersTyped, CountTyped,
     LockSound, QueueSound, StartDrain, fileVars, writerVars, Barrier, InHand,
     Busy, Recovery, DrainedIsSettled, Accounted, Writers
<1>25. CASE DrainSend
  <2>1. /\ pc' = pc /\ marker' = marker /\ count' = count /\ drain = "sending" /\ drain' = "waiting"
        /\ queue' = Append(queue, "drain") /\ Barrier = 0 /\ Barrier' = 1 /\ InHand' = InHand
        /\ InHand \in Nat /\ Accounted \in Nat /\ count.submitted \in Nat
    BY <1>25 DEF DrainSend, writerVars, fileVars, Barrier, InHand, CountTyped, Accounted
  <2>2. /\ queue' # <<>> /\ Len(queue') = Len(queue) + 1 /\ Len(queue) \in Nat
        /\ queue'[Len(queue) + 1] = "drain" /\ \A i \in 1..Len(queue) : queue'[i] = queue[i]
    BY <2>1 DEF QueueTyped
  <2>3. /\ \A i \in 1..Len(queue) : queue[i] = "event"
        /\ \/ pc[Daemon] = "down" \/ marker
           \/ Accounted + InHand + Len(queue) = count.submitted
    BY <2>1, <2>2 DEF QueueSound
  <2>4. \A i \in 1..(Len(queue') - Barrier') : queue'[i] = "event"
    BY <2>1, <2>2, <2>3
  <2>5. \/ pc'[Daemon] = "down" \/ marker'
        \/ Accounted' + InHand' + Len(queue') = count'.submitted + Barrier'
    <3>1. CASE Accounted + InHand + Len(queue) = count.submitted
      <4>1. Accounted' = Accounted /\ count'.submitted = count.submitted
        BY <2>1 DEF Accounted
      <4>2. Accounted' + InHand' + Len(queue') = (Accounted + InHand + Len(queue)) + 1
        BY <4>1, <2>1, <2>2
      <4> QED
        BY <3>1, <4>1, <4>2, <2>1
    <3>2. CASE pc[Daemon] = "down" \/ marker
      BY <3>2, <2>1
    <3> QED
      BY <3>1, <3>2, <2>3
  <2>6. pc[Daemon] \notin {"down"} \cup Recovery
    <3>1. pc[Daemon] \notin Recovery
      BY <2>1 DEF QueueSound
    <3> QED
      BY <3>1, <2>1 DEF QueueSound
  <2> QED
    BY <2>1, <2>2, <2>4, <2>5, <2>6 DEF QueueSound
<1>26. CASE DrainTimesOut
  BY <1>26, AuditConstants DEF QueueTyped, WritersTyped, CountTyped,
     LockSound, QueueSound, DrainTimesOut, writerVars, Barrier, InHand, Busy,
     Recovery, DrainedIsSettled, Accounted, Writers
<1>27. CASE DaemonEnds
  <2>1. pc'[Daemon] = "down" /\ queue' = <<>> /\ marker' = marker
    BY <1>27 DEF DaemonEnds, Rest, Goto, WritersTyped, Writers, fileVars
  <2>2. CASE drain \in {"ok", "failed"} /\ UNCHANGED <<drain, count>>
    BY <2>1, <2>2 DEF QueueSound, Recovery, DrainedIsSettled
  <2>3. CASE drain' = "none"
    <3>1. Barrier' = 0 /\ Len(queue') = 0
      BY <2>1, <2>3 DEF Barrier
    <3> QED
      BY <2>1, <2>3, <3>1 DEF QueueSound, Recovery
  <2> QED
    BY <1>27, <2>2, <2>3 DEF DaemonEnds
<1>28. CASE UNCHANGED vars
  BY <1>28 DEF QueueSound, vars, fileVars, writerVars, Barrier, InHand,
     DrainedIsSettled, Accounted
<1> QED
  BY <1>1, <1>2, <1>3, <1>4, <1>5, <1>6, <1>7, <1>8, <1>9, <1>10, <1>11,
     <1>12, <1>13, <1>14, <1>15, <1>16, <1>17, <1>18, <1>19, <1>20, <1>21,
     <1>22, <1>23, <1>24, <1>25, <1>26, <1>27, <1>28, <1>29 DEF Next, Append_, Recover

-----------------------------------------------------------------------------
(* The chain of entries.                                                   *)

\* Only one writer is at a point at which it holds the lock.
LEMMA OneHolder ==
  ASSUME LockSound, NEW p \in Writers, pc[p] \in Critical, NEW q \in Writers, q # p
  PROVE  pc[q] \notin Critical
BY DEF LockSound

\* What a writer that holds the lock knows of the tail stays true.
LEMMA WriterStep ==
  ASSUME FilesTyped, WritersTyped, CountTyped, LockSound, WriterSound, ChainsSound, [Next]_vars
  PROVE  WriterSound'
<1>1. ASSUME NEW p \in Writers, Lock(p) PROVE WriterSound'
  BY <1>1 DEF WritersTyped, WriterSound, Lock, fileVars, Goto
<1>2. ASSUME NEW p \in Writers, Rotate(p) PROVE WriterSound'
  <2>1. \A q \in Writers : q # p => pc'[q] = pc[q] /\ pc[q] \notin {"newline", "write", "end"}
    BY <1>2, OneHolder DEF Rotate, Goto, WritersTyped, Critical
  <2>2. pc'[p] \notin {"newline", "write", "end"}
    BY <1>2 DEF Rotate, Goto, WritersTyped
  <2> QED
    BY <2>1, <2>2 DEF WriterSound
<1>3. ASSUME NEW p \in Writers, Shift(p) PROVE WriterSound'
  BY <1>3 DEF WritersTyped, WriterSound, Shift
<1>4. ASSUME NEW p \in Writers, RotateLog(p) PROVE WriterSound'
  <2>1. \A q \in Writers : q # p => pc'[q] = pc[q] /\ pc[q] \notin {"newline", "write", "end"}
    BY <1>4, OneHolder DEF RotateLog, Goto, WritersTyped, Critical
  <2>2. pc'[p] \notin {"newline", "write", "end"}
    BY <1>4 DEF RotateLog, Goto, WritersTyped
  <2> QED
    BY <2>1, <2>2 DEF WriterSound
<1>5. ASSUME NEW p \in Writers, ReadTail(p) PROVE WriterSound'
  BY <1>5 DEF WritersTyped, WriterSound, ReadTail, fileVars, Goto
<1>6. ASSUME NEW p \in Writers, Newline(p) PROVE WriterSound'
  <2>1. \A q \in Writers : q # p => pc'[q] = pc[q] /\ pc[q] \notin {"newline", "write", "end"}
    BY <1>6, OneHolder DEF Newline, Goto, WritersTyped, Critical
  <2>2. /\ pc[p] = "newline" /\ pc'[p] = "write" /\ prev' = prev /\ log' = Terminated(log)
        /\ log \in Seq(Line) /\ ~Corrupt(log) /\ prev[p] = LastHash(log) /\ Chain(log)
    BY <1>6 DEF Newline, Goto, WritersTyped, FilesTyped, WriterSound,
       ChainsSound
  <2>3. /\ ~Corrupt(log') /\ LastHash(log') = LastHash(log)
        /\ (log' = <<>> \/ Last(log').form = "ended")
    BY <2>2, ChainEnded
  <2> QED
    BY <2>1, <2>2, <2>3 DEF WriterSound
<1>7. ASSUME NEW p \in Writers, Write(p) PROVE WriterSound'
  <2>1. \A q \in Writers : q # p => pc'[q] = pc[q] /\ pc[q] \notin {"newline", "write", "end"}
    BY <1>7, OneHolder DEF Write, Goto, WritersTyped, Critical
  <2>2. /\ pc[p] = "write" /\ pc'[p] = "end" /\ log \in Seq(Line)
        /\ (log = <<>> \/ Last(log).form = "ended")
    BY <1>7 DEF Write, Goto, WritersTyped, FilesTyped, WriterSound
  <2>3. PICK line \in Line : line.form = "open" /\ log' = Append(log, line)
    <3>1. count'.made \in Nat /\ prev[p] \in Nat
      BY <1>7 DEF Write, CountTyped, WritersTyped
    <3>2. PICK made \in Nat : made = count'.made
      BY <3>1
    <3>3. [id |-> made, prev |-> prev[p], form |-> "open"] \in Line
      BY <3>1 DEF Line, Forms
    <3> QED
      BY <3>2, <3>3, <2>2, <1>7 DEF Write, Written
  <2>4. log' # <<>> /\ Last(log') = line
    BY <2>2, <2>3, Appended
  <2>5. ~Corrupt(log')
    BY <2>3, <2>4 DEF Corrupt, Broken
  <2> QED
    BY <2>1, <2>2, <2>4, <2>5 DEF WriterSound
<1>8. ASSUME NEW p \in Writers, EndLine(p) PROVE WriterSound'
  <2>1. \A q \in Writers : q # p => pc'[q] = pc[q] /\ pc[q] \notin {"newline", "write", "end"}
    BY <1>8, OneHolder DEF EndLine, Goto, WritersTyped, Critical
  <2>2. pc'[p] = "unlock"
    BY <1>8 DEF EndLine, Goto, WritersTyped
  <2> QED
    BY <2>1, <2>2 DEF WriterSound
<1>9. ASSUME NEW p \in Writers, Return(p) PROVE WriterSound'
  BY <1>9 DEF WritersTyped, WriterSound, Return, fileVars, Goto, Unlock, Rest
<1>10. ASSUME NEW p \in Writers, Fail(p) PROVE WriterSound'
  BY <1>10 DEF WritersTyped, WriterSound, Fail, fileVars, Goto, Unlock, Rest
<1>11. ASSUME NEW p \in Writers, WriteFails(p) PROVE WriterSound'
  <2>1. \A q \in Writers : q # p => pc'[q] = pc[q] /\ pc[q] \notin {"newline", "write", "end"}
    BY <1>11, OneHolder DEF WriteFails, Goto, WritersTyped, Critical
  <2>2. pc'[p] = "fail"
    BY <1>11 DEF WriteFails, Goto, WritersTyped
  <2> QED
    BY <2>1, <2>2 DEF WriterSound
<1>12. ASSUME NEW p \in Writers, StepFails(p) PROVE WriterSound'
  BY <1>12 DEF WritersTyped, WriterSound, StepFails, fileVars, Goto
<1>13. ASSUME NEW p \in Writers, Open(p) PROVE WriterSound'
  BY <1>13 DEF WritersTyped, WriterSound, Open, fileVars, Goto
<1>14. ASSUME NEW p \in Writers, Killed(p) PROVE WriterSound'
  BY <1>14 DEF WritersTyped, WriterSound, Killed, fileVars, Goto, Unlock, Rest
<1>15. CASE Mark
  BY <1>15 DEF WritersTyped, WriterSound, Mark, MarkOrLog, Goto
<1>16. CASE StartDaemon
  BY <1>16 DEF WritersTyped, WriterSound, StartDaemon, fileVars, Goto
<1>17. CASE RecoverLock
  BY <1>17 DEF WritersTyped, WriterSound, RecoverLock, fileVars, Goto
<1>18. CASE Diagnose
  BY <1>18 DEF WritersTyped, WriterSound, Diagnose, Goto, Unlock, Serve
<1>19. CASE DiagnoseCorrupt
  BY <1>19 DEF WritersTyped, WriterSound, DiagnoseCorrupt, Goto
<1>20. CASE DiagnoseUnreadable
  BY <1>20 DEF WritersTyped, WriterSound, DiagnoseUnreadable, fileVars,
     Goto, Unlock
<1>29. CASE RecoverFails
  BY <1>29 DEF WritersTyped, WriterSound, RecoverFails, fileVars,
     Goto, Unlock
<1>21. CASE Quarantine
  <2>1. pc[Daemon] = "quarantine" /\ pc' = [pc EXCEPT ![Daemon] = "idle"] /\ Daemon \in Writers
    BY <1>21 DEF Quarantine, Serve, Goto, Writers
  <2>2. \A q \in Writers : q # Daemon => pc'[q] = pc[q] /\ pc[q] \notin {"newline", "write", "end"}
    BY <2>1, OneHolder DEF WritersTyped, Critical
  <2>3. pc'[Daemon] = "idle"
    BY <2>1 DEF WritersTyped
  <2> QED
    BY <2>2, <2>3 DEF WriterSound
<1>22. CASE Enqueue
  BY <1>22 DEF WritersTyped, WriterSound, Enqueue, MarkOrLog, writerVars
<1>23. CASE Receive
  BY <1>23 DEF WritersTyped, WriterSound, Receive, fileVars, Goto
<1>24. CASE StartDrain
  BY <1>24 DEF WritersTyped, WriterSound, StartDrain, fileVars, writerVars
<1>25. CASE DrainSend
  BY <1>25 DEF WritersTyped, WriterSound, DrainSend, fileVars, writerVars
<1>26. CASE DrainTimesOut
  BY <1>26 DEF WritersTyped, WriterSound, DrainTimesOut, writerVars
<1>27. CASE DaemonEnds
  BY <1>27 DEF WritersTyped, WriterSound, DaemonEnds, fileVars, Goto,
     Unlock, Rest
<1>28. CASE UNCHANGED vars
  BY <1>28 DEF WriterSound, vars, fileVars, writerVars
<1> QED
  BY <1>1, <1>2, <1>3, <1>4, <1>5, <1>6, <1>7, <1>8, <1>9, <1>10, <1>11,
     <1>12, <1>13, <1>14, <1>15, <1>16, <1>17, <1>18, <1>19, <1>20, <1>21,
     <1>22, <1>23, <1>24, <1>25, <1>26, <1>27, <1>28, <1>29 DEF Next, Append_, Recover

\* Every file stays a chain, up to a last line that was cut short.
LEMMA ChainsStep ==
  ASSUME FilesTyped, WritersTyped, CountTyped, LockSound, WriterSound, ChainsSound, [Next]_vars
  PROVE  ChainsSound'
<1>1. ASSUME NEW p \in Writers, Lock(p) PROVE ChainsSound'
  BY <1>1 DEF ChainsSound, Lock, fileVars
<1>2. ASSUME NEW p \in Writers, Rotate(p) PROVE ChainsSound'
  <2>1. \A i \in 1..MaxArchives : archives'[i] = archives[i] \/ archives'[i] = <<>>
    BY <1>2 DEF Rotate, FilesTyped
  <2>2. log' = log \/ log' = <<>>
    BY <1>2 DEF Rotate
  <2> QED
    BY <2>1, <2>2, ChainEmpty DEF ChainsSound
<1>3. ASSUME NEW p \in Writers, Shift(p) PROVE ChainsSound'
  <2> DEFINE k == slot[p]
  <2>1. k \in Nat \ {0} /\ log' = log
    BY <1>3 DEF Shift, WritersTyped
  <2>2. \A i \in 1..MaxArchives : \/ archives'[i] = archives[i] \/ archives'[i] = <<>>
                                \/ (i = k + 1 /\ archives'[i] = archives[k])
    BY <1>3 DEF Shift, FilesTyped
  <2>3. \A i \in 1..MaxArchives : i = k + 1 => k \in 1..MaxArchives
    BY <2>1, AuditConstants
  <2> QED
    BY <2>1, <2>2, <2>3, ChainEmpty DEF ChainsSound
<1>4. ASSUME NEW p \in Writers, RotateLog(p) PROVE ChainsSound'
  <2>1. \A i \in 1..MaxArchives : archives'[i] = archives[i] \/ archives'[i] = log
    BY <1>4 DEF RotateLog, FilesTyped
  <2>2. log' = <<>>
    BY <1>4 DEF RotateLog
  <2> QED
    BY <2>1, <2>2, ChainEmpty DEF ChainsSound
<1>5. ASSUME NEW p \in Writers, ReadTail(p) PROVE ChainsSound'
  BY <1>5 DEF ChainsSound, ReadTail, fileVars
<1>6. ASSUME NEW p \in Writers, Newline(p) PROVE ChainsSound'
  <2>1. /\ archives' = archives /\ log' = Terminated(log) /\ log \in Seq(Line) /\ ~Corrupt(log)
        /\ Chain(log)
    BY <1>6 DEF Newline, WriterSound, FilesTyped, ChainsSound
  <2> QED
    BY <2>1, ChainEnded DEF ChainsSound
<1>7. ASSUME NEW p \in Writers, Write(p) PROVE ChainsSound'
  <2>1. /\ archives' = archives /\ log \in Seq(Line) /\ ~Corrupt(log) /\ Chain(log)
        /\ (log = <<>> \/ Last(log).form = "ended") /\ prev[p] = LastHash(log) /\ prev[p] \in Nat
    BY <1>7 DEF Write, WriterSound, FilesTyped, ChainsSound, WritersTyped
  <2>2. PICK line \in Line : line.prev = prev[p] /\ log' = Append(log, line)
    <3>1. count'.made \in Nat
      BY <1>7 DEF Write, CountTyped
    <3>2. PICK made \in Nat : made = count'.made
      BY <3>1
    <3>3. [id |-> made, prev |-> prev[p], form |-> "open"] \in Line
      BY <2>1 DEF Line, Forms
    <3> QED
      BY <3>2, <3>3, <2>1, <1>7 DEF Write, Written
  <2> QED
    BY <2>1, <2>2, ChainAppended DEF ChainsSound
<1>8. ASSUME NEW p \in Writers, EndLine(p) PROVE ChainsSound'
  <2>1. /\ archives' = archives /\ log' = Terminated(log) /\ log \in Seq(Line) /\ ~Corrupt(log)
        /\ Chain(log)
    BY <1>8 DEF EndLine, WriterSound, FilesTyped, ChainsSound
  <2> QED
    BY <2>1, ChainEnded DEF ChainsSound
<1>9. ASSUME NEW p \in Writers, Return(p) PROVE ChainsSound'
  BY <1>9 DEF ChainsSound, Return, fileVars
<1>10. ASSUME NEW p \in Writers, Fail(p) PROVE ChainsSound'
  BY <1>10 DEF ChainsSound, Fail, fileVars
<1>11. ASSUME NEW p \in Writers, WriteFails(p) PROVE ChainsSound'
  <2>1. /\ archives' = archives /\ log \in Seq(Line) /\ ~Corrupt(log) /\ Chain(log)
        /\ (log = <<>> \/ Last(log).form = "ended") /\ prev[p] = LastHash(log) /\ prev[p] \in Nat
    BY <1>11 DEF WriteFails, WriterSound, FilesTyped, ChainsSound,
       WritersTyped
  <2>2. PICK line \in Line : line.prev = prev[p] /\ log' = Append(log, line)
    <3>1. PICK form \in Broken : log' = Written(log, [id |-> 0, prev |-> prev[p], form |-> form])
      BY <1>11 DEF WriteFails
    <3>2. [id |-> 0, prev |-> prev[p], form |-> form] \in Line
      BY <2>1 DEF Line, Forms, Broken
    <3> QED
      BY <3>1, <3>2, <2>1 DEF Written
  <2> QED
    BY <2>1, <2>2, ChainAppended DEF ChainsSound
<1>12. ASSUME NEW p \in Writers, StepFails(p) PROVE ChainsSound'
  BY <1>12 DEF ChainsSound, StepFails, fileVars
<1>13. ASSUME NEW p \in Writers, Open(p) PROVE ChainsSound'
  BY <1>13 DEF ChainsSound, Open, fileVars
<1>14. ASSUME NEW p \in Writers, Killed(p) PROVE ChainsSound'
  BY <1>14 DEF ChainsSound, Killed, fileVars
<1>15. CASE Mark
  BY <1>15 DEF ChainsSound, Mark, MarkOrLog
<1>16. CASE StartDaemon
  BY <1>16 DEF ChainsSound, StartDaemon, fileVars
<1>17. CASE RecoverLock
  BY <1>17 DEF ChainsSound, RecoverLock, fileVars
<1>18. CASE Diagnose
  BY <1>18 DEF ChainsSound, Diagnose, Serve
<1>19. CASE DiagnoseCorrupt
  BY <1>19 DEF ChainsSound, DiagnoseCorrupt
<1>20. CASE DiagnoseUnreadable
  BY <1>20 DEF ChainsSound, DiagnoseUnreadable, fileVars
<1>29. CASE RecoverFails
  BY <1>29 DEF ChainsSound, RecoverFails, fileVars
<1>21. CASE Quarantine
  BY <1>21, ChainEmpty DEF Quarantine, Serve, ChainsSound
<1>22. CASE Enqueue
  BY <1>22 DEF ChainsSound, Enqueue, MarkOrLog
<1>23. CASE Receive
  BY <1>23 DEF ChainsSound, Receive, fileVars
<1>24. CASE StartDrain
  BY <1>24 DEF ChainsSound, StartDrain, fileVars
<1>25. CASE DrainSend
  BY <1>25 DEF ChainsSound, DrainSend, fileVars
<1>26. CASE DrainTimesOut
  BY <1>26 DEF ChainsSound, DrainTimesOut
<1>27. CASE DaemonEnds
  BY <1>27 DEF ChainsSound, DaemonEnds, fileVars
<1>28. CASE UNCHANGED vars
  BY <1>28 DEF ChainsSound, vars, fileVars
<1> QED
  BY <1>1, <1>2, <1>3, <1>4, <1>5, <1>6, <1>7, <1>8, <1>9, <1>10, <1>11,
     <1>12, <1>13, <1>14, <1>15, <1>16, <1>17, <1>18, <1>19, <1>20, <1>21,
     <1>22, <1>23, <1>24, <1>25, <1>26, <1>27, <1>28, <1>29 DEF Next, Append_, Recover

-----------------------------------------------------------------------------
(* Rotation and quarantine.                                                *)

\* A rotation finds its slot empty however the one before it ended.
LEMMA RotationStep ==
  ASSUME FilesTyped, WritersTyped, CountTyped, LockSound, RotationSound, [Next]_vars
  PROVE  RotationSound'
<1>1. ASSUME NEW p \in Writers, Lock(p) PROVE RotationSound'
  BY <1>1 DEF WritersTyped, RotationSound, Writers, Lock, fileVars, Goto
<1>2. ASSUME NEW p \in Writers, Rotate(p) PROVE RotationSound'
  <2>1. \A q \in Writers : q # p => pc'[q] = pc[q] /\ pc[q] # "shift"
    BY <1>2, OneHolder DEF Rotate, Goto, WritersTyped, Critical
  <2>2. quarantined' = quarantined /\ marker' = marker /\ (pc'[Daemon] = "quarantine" => pc[Daemon] = "quarantine")
    BY <1>2 DEF Rotate, Goto, WritersTyped, Writers
  <2>3. pc'[p] = "shift" => /\ slot'[p] + 1 = MaxArchives /\ MaxArchives \in 1..MaxArchives
                             /\ archives' = [archives EXCEPT ![MaxArchives] = <<>>]
    BY <1>2, AuditConstants DEF Rotate, Goto, WritersTyped
  <2>4. pc'[p] = "shift" => slot'[p] + 1 \in 1..MaxArchives /\ archives'[slot'[p] + 1] = <<>>
    BY <2>3 DEF FilesTyped
  <2> QED
    BY <2>1, <2>2, <2>4 DEF RotationSound
<1>3. ASSUME NEW p \in Writers, Shift(p) PROVE RotationSound'
  <2>1. \A q \in Writers : q # p => pc'[q] = pc[q] /\ pc[q] # "shift"
    BY <1>3, OneHolder DEF Shift, Critical
  <2>2. quarantined' = quarantined /\ marker' = marker /\ pc' = pc
    BY <1>3 DEF Shift
  <2>3. PICK k \in Nat \ {0} : k = slot[p] /\ slot' = [slot EXCEPT ![p] = k - 1] /\ k \in 1..MaxArchives
    <3>1. /\ slot[p] \in Nat /\ slot[p] > 0 /\ slot[p] + 1 \in 1..MaxArchives
          /\ slot' = [slot EXCEPT ![p] = slot[p] - 1]
      BY <1>3 DEF Shift, WritersTyped, RotationSound
    <3>2. slot[p] \in 1..MaxArchives /\ slot[p] \in Nat \ {0}
      BY <3>1, AuditConstants
    <3>3. PICK k : k = slot[p]
      OBVIOUS
    <3> QED
      BY <3>1, <3>2, <3>3
  <2>4. slot'[p] + 1 = k
    BY <2>3 DEF WritersTyped
  <2>5. archives'[k] = <<>>
    BY <2>3, <1>3 DEF Shift, FilesTyped
  <2> QED
    BY <2>1, <2>2, <2>3, <2>4, <2>5 DEF RotationSound
<1>4. ASSUME NEW p \in Writers, RotateLog(p) PROVE RotationSound'
  <2>1. \A q \in Writers : q # p => pc'[q] = pc[q] /\ pc[q] # "shift"
    BY <1>4, OneHolder DEF RotateLog, Goto, WritersTyped, Critical
  <2>2. pc'[p] = "tail"
    BY <1>4 DEF RotateLog, Goto, WritersTyped
  <2> QED
    BY <2>1, <2>2, <1>4 DEF RotationSound, RotateLog, Writers
<1>5. ASSUME NEW p \in Writers, ReadTail(p) PROVE RotationSound'
  BY <1>5 DEF WritersTyped, RotationSound, Writers, ReadTail, fileVars, Goto
<1>6. ASSUME NEW p \in Writers, Newline(p) PROVE RotationSound'
  BY <1>6 DEF WritersTyped, RotationSound, Writers, Newline, Goto
<1>7. ASSUME NEW p \in Writers, Write(p) PROVE RotationSound'
  BY <1>7 DEF WritersTyped, RotationSound, Writers, Write, Goto
<1>8. ASSUME NEW p \in Writers, EndLine(p) PROVE RotationSound'
  BY <1>8 DEF WritersTyped, RotationSound, Writers, EndLine, Goto
<1>9. ASSUME NEW p \in Writers, Return(p) PROVE RotationSound'
  BY <1>9 DEF WritersTyped, RotationSound, Writers, Return, fileVars, Goto,
     Unlock, Rest
<1>10. ASSUME NEW p \in Writers, Fail(p) PROVE RotationSound'
  BY <1>10 DEF WritersTyped, RotationSound, Writers, Fail, fileVars, Goto,
     Unlock, Rest
<1>11. ASSUME NEW p \in Writers, WriteFails(p) PROVE RotationSound'
  BY <1>11 DEF WritersTyped, RotationSound, Writers, WriteFails, Goto
<1>12. ASSUME NEW p \in Writers, StepFails(p) PROVE RotationSound'
  BY <1>12 DEF WritersTyped, RotationSound, Writers, StepFails, fileVars, Goto
<1>13. ASSUME NEW p \in Writers, Open(p) PROVE RotationSound'
  BY <1>13 DEF WritersTyped, RotationSound, Writers, Open, fileVars, Goto
<1>14. ASSUME NEW p \in Writers, Killed(p) PROVE RotationSound'
  BY <1>14 DEF WritersTyped, RotationSound, Writers, Killed, fileVars,
     Goto, Unlock, Rest
<1>15. CASE Mark
  BY <1>15 DEF WritersTyped, RotationSound, Writers, Mark, MarkOrLog, Goto
<1>16. CASE StartDaemon
  BY <1>16 DEF WritersTyped, RotationSound, Writers, StartDaemon, fileVars,
     Goto
<1>17. CASE RecoverLock
  BY <1>17 DEF WritersTyped, RotationSound, Writers, RecoverLock, fileVars,
     Goto
<1>18. CASE Diagnose
  BY <1>18 DEF WritersTyped, RotationSound, Writers, Diagnose, Goto,
     Unlock, Serve
<1>19. CASE DiagnoseCorrupt
  BY <1>19 DEF WritersTyped, RotationSound, Writers, DiagnoseCorrupt, Goto
<1>20. CASE DiagnoseUnreadable
  BY <1>20 DEF WritersTyped, RotationSound, Writers, DiagnoseUnreadable,
     fileVars, Goto, Unlock
<1>29. CASE RecoverFails
  BY <1>29 DEF WritersTyped, RotationSound, Writers, RecoverFails,
     fileVars, Goto, Unlock
<1>21. CASE Quarantine
  <2>1. marker' /\ pc' = [pc EXCEPT ![Daemon] = "idle"] /\ slot' = slot /\ archives' = archives
    BY <1>21 DEF Quarantine, Serve, Goto, RotationSound
  <2> QED
    BY <2>1 DEF RotationSound, WritersTyped
<1>22. CASE Enqueue
  BY <1>22 DEF WritersTyped, RotationSound, Writers, Enqueue, MarkOrLog, writerVars
<1>23. CASE Receive
  BY <1>23 DEF WritersTyped, RotationSound, Writers, Receive, fileVars, Goto
<1>24. CASE StartDrain
  BY <1>24 DEF WritersTyped, RotationSound, Writers, StartDrain, fileVars,
     writerVars
<1>25. CASE DrainSend
  BY <1>25 DEF WritersTyped, RotationSound, Writers, DrainSend, fileVars,
     writerVars
<1>26. CASE DrainTimesOut
  <2>1. /\ pc' = pc /\ slot' = slot /\ archives' = archives /\ quarantined' = quarantined
        /\ marker' = marker \/ marker' = TRUE
    BY <1>26 DEF DrainTimesOut, writerVars
  <2> QED
    BY <2>1 DEF RotationSound
<1>27. CASE DaemonEnds
  BY <1>27 DEF WritersTyped, RotationSound, Writers, DaemonEnds, fileVars,
     Goto, Unlock, Rest
<1>28. CASE UNCHANGED vars
  BY <1>28 DEF RotationSound, vars, fileVars, writerVars
<1> QED
  BY <1>1, <1>2, <1>3, <1>4, <1>5, <1>6, <1>7, <1>8, <1>9, <1>10, <1>11,
     <1>12, <1>13, <1>14, <1>15, <1>16, <1>17, <1>18, <1>19, <1>20, <1>21,
     <1>22, <1>23, <1>24, <1>25, <1>26, <1>27, <1>28, <1>29 DEF Next, Append_, Recover

\* Files that keep their entries stay in order.
LEMMA SameFiles ==
  ASSUME FilesTyped, FilesInOrder, Ids(log)' = Ids(log), archives' = archives,
         quarantined' = quarantined, count'.made = count.made
  PROVE  FilesInOrder'
<1>1. Kept' = Kept
  BY DEF Kept
<1> QED
  BY <1>1 DEF FilesInOrder, Older

\* What the oldest archive holds is older than everything else.
LEMMA DropOldest ==
  ASSUME FilesTyped, FilesInOrder, CountTyped, MaxArchives > 0,
         log' = log, archives' = [archives EXCEPT ![MaxArchives] = <<>>],
         quarantined' = quarantined, count' = count
  PROVE  FilesInOrder'
<1>1. /\ \A k : k \in Kept <=> (k \in Ids(log) \/ \E i \in 1..MaxArchives : k \in Ids(archives[i]))
      /\ \A k : k \in Kept' <=> (k \in Ids(log') \/ \E i \in 1..MaxArchives : k \in Ids(archives'[i]))
  BY DEF Kept
<1>2. /\ MaxArchives \in 1..MaxArchives /\ Ids(archives'[MaxArchives]) = {}
      /\ \A i \in 1..MaxArchives : i # MaxArchives => archives'[i] = archives[i] /\ MaxArchives > i
  BY AuditConstants, IdsEmpty DEF FilesTyped
<1>3. \A i \in 1..MaxArchives : Ids(archives'[i]) \subseteq Ids(archives[i])
  BY <1>2
<1>4. Kept' \subseteq Kept
  BY <1>1, <1>3
<1>5. ASSUME NEW i \in Kept, i \notin Kept', NEW j \in Kept' PROVE i < j
  <2>1. i \in Ids(archives[MaxArchives])
    BY <1>1, <1>2, <1>5
  <2>2. CASE j \in Ids(log)
    BY <2>1, <2>2, <1>2 DEF FilesInOrder, Older
  <2>3. ASSUME NEW n \in 1..MaxArchives, j \in Ids(archives'[n]) PROVE i < j
    <3>1. n # MaxArchives /\ j \in Ids(archives[n]) /\ MaxArchives > n
      BY <2>3, <1>2
    <3>2. Older(archives[MaxArchives], archives[n])
      BY <3>1, <1>2 DEF FilesInOrder
    <3> QED
      BY <3>1, <3>2, <2>1 DEF Older
  <2> QED
    BY <2>2, <2>3, <1>1, <1>5
<1>6. \A i \in 1..count'.made, j \in Kept' : i \notin Kept' \cup quarantined' => i < j
  BY <1>4, <1>5 DEF FilesInOrder
<1>7. \A i \in 1..MaxArchives : Older(archives'[i], log')
  BY <1>3 DEF FilesInOrder, Older
<1>8. \A i, j \in 1..MaxArchives : i > j => Older(archives'[i], archives'[j])
  BY <1>3 DEF FilesInOrder, Older
<1> QED
  BY <1>4, <1>6, <1>7, <1>8 DEF FilesInOrder

\* An archive that moves into the empty slot behind it keeps its place in the order.
LEMMA MoveUp ==
  ASSUME FilesTyped, FilesInOrder, NEW k \in 1..MaxArchives, k + 1 \in 1..MaxArchives,
         archives[k + 1] = <<>>, archives' = [archives EXCEPT ![k + 1] = archives[k], ![k] = <<>>],
         log' = log, quarantined' = quarantined, count' = count
  PROVE  FilesInOrder'
<1>1. /\ \A n : n \in Kept <=> (n \in Ids(log) \/ \E i \in 1..MaxArchives : n \in Ids(archives[i]))
      /\ \A n : n \in Kept' <=> (n \in Ids(log') \/ \E i \in 1..MaxArchives : n \in Ids(archives'[i]))
  BY DEF Kept
<1>2. /\ Ids(archives'[k]) = {} /\ Ids(archives[k + 1]) = {} /\ archives'[k + 1] = archives[k]
      /\ \A i \in 1..MaxArchives : i \notin {k, k + 1} => archives'[i] = archives[i]
  <2>1. k # k + 1
    OBVIOUS
  <2> QED
    BY <2>1, IdsEmpty DEF FilesTyped
<1>3. Kept' = Kept
  <2>1. \A n : n \in Kept' => n \in Kept
    BY <1>1, <1>2
  <2>2. \A n : n \in Kept => n \in Kept'
    BY <1>1, <1>2
  <2> QED
    BY <2>1, <2>2
<1>4. \A i \in 1..MaxArchives : Older(archives'[i], log')
  BY <1>2 DEF FilesInOrder, Older
<1>5. ASSUME NEW i \in 1..MaxArchives, NEW j \in 1..MaxArchives, i > j
      PROVE  Older(archives'[i], archives'[j])
  <2>1. CASE i = k \/ j = k
    BY <2>1, <1>2 DEF Older
  <2>2. CASE i = k + 1 /\ j # k
    <3>1. k > j /\ archives'[j] = archives[j]
      <4>1. k > j /\ j # k + 1
        BY <2>2, <1>5
      <4> QED
        BY <4>1, <2>2, <1>2
    <3> QED
      BY <3>1, <2>2, <1>2 DEF FilesInOrder
  <2>3. CASE j = k + 1 /\ i # k
    <3>1. i > k /\ archives'[i] = archives[i]
      <4>1. i > k /\ i # k + 1
        BY <2>3, <1>5
      <4> QED
        BY <4>1, <2>3, <1>2
    <3> QED
      BY <3>1, <2>3, <1>2 DEF FilesInOrder
  <2>4. CASE i \notin {k, k + 1} /\ j \notin {k, k + 1}
    BY <2>4, <1>2, <1>5 DEF FilesInOrder
  <2> QED
    BY <2>1, <2>2, <2>3, <2>4
<1> QED
  BY <1>3, <1>4, <1>5 DEF FilesInOrder

\* The active log becomes the newest archive.
LEMMA MoveLog ==
  ASSUME FilesTyped, FilesInOrder, 1 \in 1..MaxArchives, archives[1] = <<>>,
         archives' = [archives EXCEPT ![1] = log], log' = <<>>,
         quarantined' = quarantined, count' = count
  PROVE  FilesInOrder'
<1>1. /\ \A n : n \in Kept <=> (n \in Ids(log) \/ \E i \in 1..MaxArchives : n \in Ids(archives[i]))
      /\ \A n : n \in Kept' <=> (n \in Ids(log') \/ \E i \in 1..MaxArchives : n \in Ids(archives'[i]))
  BY DEF Kept
<1>2. /\ Ids(archives[1]) = {} /\ Ids(log') = {} /\ archives'[1] = log
      /\ \A i \in 1..MaxArchives : i # 1 => archives'[i] = archives[i]
  BY IdsEmpty DEF FilesTyped
<1>3. Kept' = Kept
  <2>1. \A n : n \in Kept' => n \in Kept
    BY <1>1, <1>2
  <2>2. \A n : n \in Kept => n \in Kept'
    BY <1>1, <1>2
  <2> QED
    BY <2>1, <2>2
<1>4. \A i \in 1..MaxArchives : Older(archives'[i], log')
  BY <1>2 DEF Older
<1>5. ASSUME NEW i \in 1..MaxArchives, NEW j \in 1..MaxArchives, i > j
      PROVE  Older(archives'[i], archives'[j])
  <2>1. i # 1
    BY <1>5
  <2>2. CASE j = 1
    BY <2>1, <2>2, <1>2 DEF FilesInOrder
  <2>3. CASE j # 1
    BY <2>1, <2>3, <1>2, <1>5 DEF FilesInOrder
  <2> QED
    BY <2>2, <2>3
<1> QED
  BY <1>3, <1>4, <1>5 DEF FilesInOrder

\* A new entry is newer than all that are kept.
LEMMA NewEntry ==
  ASSUME FilesTyped, FilesInOrder, count.made \in Nat, archives' = archives,
         quarantined' = quarantined, count'.made = count.made + 1,
         Ids(log') = Ids(log) \cup {count.made + 1}
  PROVE  FilesInOrder'
<1>1. Kept' = Kept \cup {count.made + 1}
  BY DEF Kept
<1>2. \A i \in Kept : i \in Nat /\ i < count.made + 1
  BY DEF FilesInOrder
<1>3. \A i \in 1..MaxArchives : Ids(archives[i]) \subseteq Kept
  BY DEF Kept
<1>4. \A i \in 1..MaxArchives : Older(archives'[i], log')
  BY <1>2, <1>3 DEF FilesInOrder, Older
<1>5. \A i, j \in 1..MaxArchives : i > j => Older(archives'[i], archives'[j])
  BY DEF FilesInOrder
<1>6. ASSUME NEW i \in 1..count'.made, NEW j \in Kept', i \notin Kept' \cup quarantined'
      PROVE  i < j
  <2>1. i \notin Kept \cup quarantined /\ i # count.made + 1
    BY <1>6, <1>1
  <2>2. i \in 1..count.made
    BY <2>1
  <2>3. CASE j \in Kept
    BY <2>1, <2>2, <2>3 DEF FilesInOrder
  <2>4. CASE j = count.made + 1
    BY <2>2, <2>4
  <2> QED
    BY <2>3, <2>4, <1>1
<1>7. Kept' \subseteq 1..count'.made
  <2>1. Kept \subseteq 1..count.made
    BY DEF FilesInOrder
  <2>2. 1..count.made \subseteq 1..(count.made + 1) /\ count.made + 1 \in 1..(count.made + 1)
    OBVIOUS
  <2> QED
    BY <1>1, <2>1, <2>2
<1> QED
  BY <1>4, <1>5, <1>6, <1>7 DEF FilesInOrder

\* What leaves the active log is on record as quarantined.
LEMMA MoveAway ==
  ASSUME FilesTyped, FilesInOrder, log' = <<>>, archives' = archives, count' = count,
         quarantined \cup Ids(log) \subseteq quarantined'
  PROVE  FilesInOrder'
<1>1. Ids(log') = {} /\ Kept' \subseteq Kept /\ Kept \subseteq Kept' \cup Ids(log)
  BY IdsEmpty DEF Kept
<1>2. \A i \in 1..count'.made, j \in Kept' : i \notin Kept' \cup quarantined' => i < j
  BY <1>1 DEF FilesInOrder
<1> QED
  BY <1>1, <1>2 DEF FilesInOrder, Older

\* Whatever happens to the files, only the oldest entries go.
LEMMA OrderStep ==
  ASSUME FilesTyped, WritersTyped, CountTyped, WriterSound, RotationSound, FilesInOrder, [Next]_vars
  PROVE  FilesInOrder'
<1>1. ASSUME NEW p \in Writers, Lock(p) PROVE FilesInOrder'
  BY <1>1, SameFiles DEF Lock, fileVars, CountTyped
<1>2. ASSUME NEW p \in Writers, Rotate(p) PROVE FilesInOrder'
  <2>1. CASE log' = log /\ archives' = archives
    BY <2>1, <1>2, SameFiles DEF Rotate
  <2>2. CASE MaxArchives = 0 /\ log' = <<>>
    <3>1. Kept' = {} /\ 1..MaxArchives = {}
      BY <2>2, IdsEmpty DEF Kept
    <3> QED
      BY <3>1, <2>2 DEF FilesInOrder
  <2>3. CASE MaxArchives > 0 /\ log' = log /\ archives' = [archives EXCEPT ![MaxArchives] = <<>>]
    BY <2>3, <1>2, DropOldest DEF Rotate
  <2> QED
    BY <2>1, <2>2, <2>3, <1>2 DEF Rotate
<1>3. ASSUME NEW p \in Writers, Shift(p) PROVE FilesInOrder'
  <2>1. PICK k \in Nat \ {0} : /\ k = slot[p] /\ k \in 1..MaxArchives /\ k + 1 \in 1..MaxArchives
                                /\ archives[k + 1] = <<>>
    <3>1. /\ slot[p] \in Nat /\ slot[p] > 0 /\ slot[p] + 1 \in 1..MaxArchives
          /\ archives[slot[p] + 1] = <<>>
      BY <1>3 DEF Shift, WritersTyped, RotationSound
    <3>2. slot[p] \in 1..MaxArchives
      BY <3>1, AuditConstants
    <3> QED
      BY <3>1, <3>2
  <2>2. CASE archives[k] = <<>>
    BY <2>1, <2>2, <1>3, SameFiles DEF Shift
  <2>3. CASE archives[k] # <<>>
    <3>1. archives' = [archives EXCEPT ![k + 1] = archives[k], ![k] = <<>>] /\ log' = log
          /\ quarantined' = quarantined /\ count' = count
      BY <2>1, <2>3, <1>3 DEF Shift
    <3> QED
      BY <3>1, <2>1, MoveUp
  <2> QED
    BY <2>2, <2>3
<1>4. ASSUME NEW p \in Writers, RotateLog(p) PROVE FilesInOrder'
  <2>1. /\ 1 \in 1..MaxArchives /\ archives[1] = <<>> /\ archives' = [archives EXCEPT ![1] = log]
        /\ log' = <<>> /\ quarantined' = quarantined /\ count' = count
    <3>1. slot[p] = 0 /\ slot[p] + 1 \in 1..MaxArchives /\ archives[slot[p] + 1] = <<>>
      BY <1>4 DEF RotateLog, RotationSound
    <3>2. slot[p] + 1 = 1
      BY <3>1
    <3> QED
      BY <3>1, <3>2, <1>4 DEF RotateLog
  <2> QED
    BY <2>1, MoveLog
<1>5. ASSUME NEW p \in Writers, ReadTail(p) PROVE FilesInOrder'
  BY <1>5, SameFiles DEF ReadTail, fileVars, CountTyped
<1>6. ASSUME NEW p \in Writers, Newline(p) PROVE FilesInOrder'
  <2>1. log' = Terminated(log) /\ archives' = archives /\ quarantined' = quarantined /\ count' = count
    BY <1>6 DEF Newline
  <2>2. Ids(log)' = Ids(log)
    BY <2>1, IdsEnded DEF FilesTyped
  <2> QED
    BY <2>1, <2>2, SameFiles
<1>7. ASSUME NEW p \in Writers, Write(p) PROVE FilesInOrder'
  <2>1. /\ archives' = archives /\ quarantined' = quarantined /\ log \in Seq(Line)
        /\ (log = <<>> \/ Last(log).form = "ended") /\ count'.made = count.made + 1
        /\ count.made \in Nat /\ prev[p] \in Nat
    BY <1>7 DEF Write, WriterSound, FilesTyped, CountTyped, WritersTyped
  <2>2. PICK line \in Line : line.id = count.made + 1 /\ log' = Append(log, line)
    <3>1. PICK made \in Nat : made = count.made + 1 /\ made = count'.made
      BY <2>1
    <3>2. [id |-> made, prev |-> prev[p], form |-> "open"] \in Line
      BY <2>1 DEF Line, Forms
    <3> QED
      BY <3>1, <3>2, <2>1, <1>7 DEF Write, Written
  <2>3. Ids(log') = Ids(log) \cup {count.made + 1}
    <3>1. {line.id} \ {0} = {count.made + 1}
      BY <2>1, <2>2
    <3> QED
      BY <3>1, <2>1, <2>2, IdsAppended
  <2> QED
    BY <2>1, <2>3, NewEntry
<1>8. ASSUME NEW p \in Writers, EndLine(p) PROVE FilesInOrder'
  <2>1. log' = Terminated(log) /\ archives' = archives /\ quarantined' = quarantined /\ count' = count
    BY <1>8 DEF EndLine
  <2>2. Ids(log)' = Ids(log)
    BY <2>1, IdsEnded DEF FilesTyped
  <2> QED
    BY <2>1, <2>2, SameFiles
<1>9. ASSUME NEW p \in Writers, Return(p) PROVE FilesInOrder'
  BY <1>9, SameFiles DEF Return, fileVars, CountTyped
<1>10. ASSUME NEW p \in Writers, Fail(p) PROVE FilesInOrder'
  BY <1>10, SameFiles DEF Fail, fileVars, CountTyped
<1>11. ASSUME NEW p \in Writers, WriteFails(p) PROVE FilesInOrder'
  <2>1. /\ archives' = archives /\ quarantined' = quarantined /\ log \in Seq(Line)
        /\ (log = <<>> \/ Last(log).form = "ended") /\ count'.made = count.made /\ prev[p] \in Nat
    BY <1>11 DEF WriteFails, WriterSound, FilesTyped, CountTyped, WritersTyped
  <2>2. PICK line \in Line : line.id = 0 /\ log' = Append(log, line)
    <3>1. PICK form \in Broken : log' = Written(log, [id |-> 0, prev |-> prev[p], form |-> form])
      BY <1>11 DEF WriteFails
    <3>2. [id |-> 0, prev |-> prev[p], form |-> form] \in Line
      BY <2>1 DEF Line, Forms, Broken
    <3> QED
      BY <3>1, <3>2, <2>1 DEF Written
  <2>3. Ids(log)' = Ids(log)
    <3>1. Ids(log') = Ids(log) \cup ({line.id} \ {0})
      BY <2>1, <2>2, IdsAppended
    <3> QED
      BY <3>1, <2>2
  <2> QED
    BY <2>1, <2>3, SameFiles
<1>12. ASSUME NEW p \in Writers, StepFails(p) PROVE FilesInOrder'
  BY <1>12, SameFiles DEF StepFails, fileVars, CountTyped
<1>13. ASSUME NEW p \in Writers, Open(p) PROVE FilesInOrder'
  BY <1>13, SameFiles DEF Open, fileVars, CountTyped
<1>14. ASSUME NEW p \in Writers, Killed(p) PROVE FilesInOrder'
  BY <1>14, SameFiles DEF Killed, fileVars, CountTyped
<1>15. CASE Mark
  BY <1>15, SameFiles DEF Mark, MarkOrLog, CountTyped
<1>16. CASE StartDaemon
  BY <1>16, SameFiles DEF StartDaemon, fileVars, CountTyped
<1>17. CASE RecoverLock
  BY <1>17, SameFiles DEF RecoverLock, fileVars, CountTyped
<1>18. CASE Diagnose
  BY <1>18, SameFiles DEF Diagnose, Serve, CountTyped
<1>19. CASE DiagnoseCorrupt
  BY <1>19, SameFiles DEF DiagnoseCorrupt, CountTyped
<1>20. CASE DiagnoseUnreadable
  BY <1>20, SameFiles DEF DiagnoseUnreadable, fileVars, CountTyped
<1>29. CASE RecoverFails
  BY <1>29, SameFiles DEF RecoverFails, fileVars, CountTyped
<1>21. CASE Quarantine
  <2>1. /\ log' = <<>> /\ archives' = archives /\ count' = count
        /\ quarantined \cup Ids(log) \subseteq quarantined'
    BY <1>21 DEF Quarantine, Serve, Ids
  <2> QED
    BY <2>1, MoveAway
<1>22. CASE Enqueue
  BY <1>22, SameFiles DEF Enqueue, MarkOrLog, CountTyped
<1>23. CASE Receive
  BY <1>23, SameFiles DEF Receive, fileVars, CountTyped
<1>24. CASE StartDrain
  BY <1>24, SameFiles DEF StartDrain, fileVars, CountTyped
<1>25. CASE DrainSend
  BY <1>25, SameFiles DEF DrainSend, fileVars, CountTyped
<1>26. CASE DrainTimesOut
  BY <1>26, SameFiles DEF DrainTimesOut, CountTyped
<1>27. CASE DaemonEnds
  BY <1>27, SameFiles DEF DaemonEnds, fileVars, CountTyped
<1>28. CASE UNCHANGED vars
  BY <1>28, SameFiles DEF vars, fileVars
<1> QED
  BY <1>1, <1>2, <1>3, <1>4, <1>5, <1>6, <1>7, <1>8, <1>9, <1>10, <1>11,
     <1>12, <1>13, <1>14, <1>15, <1>16, <1>17, <1>18, <1>19, <1>20, <1>21,
     <1>22, <1>23, <1>24, <1>25, <1>26, <1>27, <1>28, <1>29 DEF Next, Append_, Recover

-----------------------------------------------------------------------------
(* The theorems.                                                           *)

LEMMA InitInv == Init => AuditInv
<1> SUFFICES ASSUME Init PROVE AuditInv
  OBVIOUS
<1> USE AuditConstants
<1>1. Daemon \in Writers /\ pc[Daemon] = "down" /\ \A p \in Commands : pc[p] = "idle"
  BY DEF Init, Writers
<1>2. TypeOK
  <2>1. FilesTyped
    BY NoLines DEF Init, FilesTyped
  <2>2. WritersTyped
    BY DEF Init, WritersTyped, Points
  <2>3. QueueTyped /\ CountTyped
    BY DEF Init, QueueTyped, CountTyped
  <2> QED
    BY <2>1, <2>2, <2>3, TypeParts
<1>3. LockSound /\ WriterSound
  BY <1>1 DEF Init, LockSound, WriterSound, Critical, Recovery, Writers
<1>4. ChainsSound
  BY ChainEmpty DEF Init, ChainsSound
<1>5. FilesInOrder
  BY IdsEmpty DEF Init, FilesInOrder, Kept, Older
<1>6. RotationSound
  BY <1>1 DEF Init, RotationSound, Writers
<1>7. QueueSound
  BY <1>1 DEF Init, QueueSound, Recovery, Barrier, InHand, Busy,
     Accounted, DrainedIsSettled
<1> QED
  BY <1>2, <1>3, <1>4, <1>5, <1>6, <1>7 DEF AuditInv

LEMMA StepInv == AuditInv /\ [Next]_vars => AuditInv'
<1> SUFFICES ASSUME AuditInv, [Next]_vars PROVE AuditInv'
  OBVIOUS
<1>1. FilesTyped /\ WritersTyped /\ QueueTyped /\ CountTyped
  BY TypeParts DEF AuditInv
<1>2. TypeOK' /\ LockSound'
  BY TypeStep, LockStep DEF AuditInv
<1>3. QueueSound'
  BY <1>1, QueueStep DEF AuditInv
<1>4. WriterSound' /\ ChainsSound'
  BY <1>1, WriterStep, ChainsStep DEF AuditInv
<1>5. RotationSound' /\ FilesInOrder'
  BY <1>1, RotationStep, OrderStep DEF AuditInv
<1> QED
  BY <1>2, <1>3, <1>4, <1>5 DEF AuditInv

\* The parts of AuditInv hold together: the holder of audit.lock works on files
\* that nobody else changes, and the daemon knows where its events are
\* (log_locked, rotate_if_needed, drain_audit_queue).
THEOREM AuditInvariant == Spec => []AuditInv
<1>1. Init => AuditInv
  BY InitInv
<1>2. AuditInv /\ [Next]_vars => AuditInv'
  BY StepInv
<1> QED
  BY <1>1, <1>2, PTL DEF Spec

\* A log is one unbroken chain, up to a last line that was cut short, whoever
\* appends, dies or rotates when (log_locked, rotate_if_needed).
THEOREM LogsVerify == Spec => []VerifiesUnlessTorn
<1>1. AuditInv => VerifiesUnlessTorn
  BY DEF AuditInv, ChainsSound, VerifiesUnlessTorn, Files, Chain
<1> QED
  BY <1>1, AuditInvariant, PTL

\* Only the oldest entries are ever given up, or quarantined under the marker
\* (rotate_if_needed, recover_audit_logger).
THEOREM OldestGoFirst == Spec => []RetentionInOrder
<1>1. AuditInv => RetentionInOrder
  <2> SUFFICES ASSUME AuditInv PROVE RetentionInOrder
    OBVIOUS
  <2>1. UNION {Ids(lines) : lines \in Files} = Kept
    BY DEF Files, Kept
  <2>2. FilesInOrder /\ RotationSound
    BY DEF AuditInv
  <2> QED
    BY <2>1, <2>2 DEF FilesInOrder, RotationSound, RetentionInOrder, Older
<1> QED
  BY <1>1, AuditInvariant, PTL

\* A drain reports success only when every event is in the log, or there is a
\* marker, or the markers of the missing ones could not be written
\* (drain_audit_queue).
THEOREM DrainsSettle == Spec => []DrainedIsSettled
<1>1. AuditInv => DrainedIsSettled
  BY DEF AuditInv, QueueSound, DrainedIsSettled
<1> QED
  BY <1>1, AuditInvariant, PTL

=============================================================================
