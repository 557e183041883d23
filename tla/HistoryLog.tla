----------------------------- MODULE HistoryLog -----------------------------
(***************************************************************************)
(* The history of package operations (core/history.rs): a live file of     *)
(* bounded length, an archive to which its oldest entries move, and copies *)
(* of live files that could not be parsed.  Processes record operations    *)
(* under one lock; any of their steps may fail, and they may be killed.    *)
(*                                                                         *)
(* An entry is its number in the order in which the entries were made.     *)
(* The live file is replaced by a rename; the archive is appended to in    *)
(* place, so a kill may leave half a line at its end.                      *)
(***************************************************************************)
EXTENDS Naturals, Sequences

CONSTANTS
  Recorders,   \* processes
  NoRecorder,  \* nobody
  MaxLive,     \* MAX_HISTORY_TRANSACTIONS
  MaxEntries,  \* bound: entries made
  MaxDamage    \* bound: times the live file is damaged from outside

ASSUME HistoryConstants == NoRecorder \notin Recorders /\ MaxLive \in Nat \ {0}

VARIABLES
  history,     \* the live file
  damaged,     \* it cannot be parsed
  damages,     \* how often it was damaged
  retired,     \* the archive
  torn,        \* the archive ends in half a line
  aside,       \* entries in quarantined files
  historyLock, \* holder of history.lock
  recorder,    \* per process: control point and the entries it holds in memory
  made,        \* entries made so far
  recorded     \* entries whose recording was reported as successful

historyVars ==
  <<history, damaged, damages, retired, torn, aside, historyLock, recorder, made, recorded>>

Entries(s) == {s[i] : i \in DOMAIN s}
RecordAt(p, point, entries) == recorder' = [recorder EXCEPT ![p] = [at |-> point, entries |-> entries]]
Rest(p) == RecordAt(p, "idle", <<>>) /\ historyLock' = NoRecorder

HistoryInit ==
  /\ history = <<>> /\ damaged = FALSE /\ damages = 0 /\ retired = <<>> /\ torn = FALSE
  /\ aside = {} /\ historyLock = NoRecorder /\ made = 0 /\ recorded = {}
  /\ recorder = [p \in Recorders |-> [at |-> "idle", entries |-> <<>>]]

\* The file is edited, or a disk error damages it.
Damage ==
  /\ ~damaged /\ history # <<>> /\ damages < MaxDamage
  /\ damaged' = TRUE /\ damages' = damages + 1
  /\ UNCHANGED <<history, retired, torn, aside, historyLock, recorder, made, recorded>>

\* finish_operation: the audit entry is written, the process owns the history.
LockHistory(p) ==
  /\ recorder[p].at = "idle" /\ historyLock = NoRecorder /\ made < MaxEntries
  /\ historyLock' = p /\ RecordAt(p, "load", <<>>)
  /\ UNCHANGED <<history, damaged, damages, retired, torn, aside, made, recorded>>

\* load_locked, and the new entry after those of the file
LoadHistory(p) ==
  /\ recorder[p].at = "load" /\ ~damaged
  /\ made' = made + 1 /\ RecordAt(p, "retire", Append(history, made'))
  /\ UNCHANGED <<history, damaged, damages, retired, torn, aside, historyLock, recorded>>

\* quarantine_corrupt_file: renamed, never deleted
QuarantineHistory(p) ==
  /\ recorder[p].at = "load" /\ damaged
  /\ aside' = aside \cup Entries(history) /\ history' = <<>> /\ damaged' = FALSE
  /\ made' = made + 1 /\ RecordAt(p, "retire", <<made'>>)
  /\ UNCHANGED <<damages, retired, torn, historyLock, recorded>>

Excess(p) == IF Len(recorder[p].entries) > MaxLive THEN Len(recorder[p].entries) - MaxLive ELSE 0
Oldest(p) == SubSeq(recorder[p].entries, 1, Excess(p))
Newest(p) == SubSeq(recorder[p].entries, Excess(p) + 1, Len(recorder[p].entries))

\* archive_drained: the archive is validated, then appended to and synced.
Retire(p) ==
  /\ recorder[p].at = "retire" /\ (Excess(p) > 0 => ~torn)
  /\ retired' = retired \o Oldest(p) /\ RecordAt(p, "save", Newest(p))
  /\ UNCHANGED <<history, damaged, damages, torn, aside, historyLock, made, recorded>>

\* Mutation: the save goes on without the archive.
RetireBestEffort(p) ==
  /\ recorder[p].at = "retire" /\ Excess(p) > 0
  /\ RecordAt(p, "save", Newest(p))
  /\ UNCHANGED <<history, damaged, damages, retired, torn, aside, historyLock, made, recorded>>

\* The validation, the append or the sync fails: the old length is restored if
\* that succeeds, and the live file is left alone.
RetireFails(p) ==
  /\ recorder[p].at = "retire" /\ Excess(p) > 0
  /\ \/ UNCHANGED <<retired, torn>>
     \/ ~torn /\ torn' = TRUE /\ UNCHANGED retired
     \/ ~torn /\ retired' = retired \o Oldest(p) /\ UNCHANGED torn
  /\ Rest(p)
  /\ UNCHANGED <<history, damaged, damages, aside, made, recorded>>

\* save: the new file is renamed over the old one.
SaveHistory(p) ==
  /\ recorder[p].at = "save"
  /\ history' = recorder[p].entries /\ damaged' = FALSE
  /\ recorded' = recorded \cup {made} /\ Rest(p)
  /\ UNCHANGED <<damages, retired, torn, aside, made>>

\* A file that cannot be read or renamed, a save that fails, a kill.
RecorderStops(p) ==
  /\ recorder[p].at # "idle" /\ Rest(p)
  /\ torn' \in IF recorder[p].at = "retire" /\ Excess(p) > 0 THEN {torn, TRUE} ELSE {torn}
  /\ UNCHANGED <<history, damaged, damages, retired, aside, made, recorded>>

HistoryNext ==
  \/ Damage
  \/ \E p \in Recorders :
       \/ LockHistory(p) \/ LoadHistory(p) \/ QuarantineHistory(p) \/ Retire(p)
       \/ RetireFails(p) \/ SaveHistory(p) \/ RecorderStops(p)

HistorySpec == HistoryInit /\ [][HistoryNext]_historyVars

-----------------------------------------------------------------------------
(* What load returns: the archive, then the live file, each entry once.    *)

Loaded ==
  LET all == retired \o history
      again(i) == \E k \in 1..(i - 1) : all[k] = all[i]
      keep[i \in 0..Len(all)] ==
        IF i = 0 THEN <<>> ELSE IF again(i) THEN keep[i - 1] ELSE Append(keep[i - 1], all[i])
  IN keep[Len(all)]

-----------------------------------------------------------------------------
(* Properties.                                                             *)

\* Every variable has its type.
HistoryTypeOK ==
  /\ damaged \in BOOLEAN /\ torn \in BOOLEAN /\ damages \in Nat /\ made \in Nat
  /\ Entries(history) \cup Entries(retired) \cup aside \cup recorded \subseteq 1..made
  /\ historyLock \in Recorders \cup {NoRecorder}

\* An operation that was reported as recorded stays in the live file, the archive
\* or a quarantined file, whatever fails or is killed between the append to the
\* archive and the save (archive_drained, quarantine_corrupt_file).
NothingLost == recorded \subseteq Entries(history) \cup Entries(retired) \cup aside

\* Moreover, as long as both files can be read, load returns every recorded
\* operation that was not quarantined, once and in the order in which they were
\* made: also after a retirement that was interrupted and done again.
NothingForgotten ==
  /\ NothingLost
  /\ ~torn /\ ~damaged =>
       /\ recorded \ aside \subseteq Entries(Loaded)
       /\ \A i, k \in DOMAIN Loaded : i < k => Loaded[i] < Loaded[k]
=============================================================================
