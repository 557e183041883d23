---------------------------- MODULE StoreProofs -----------------------------
(***************************************************************************)
(* Proofs about the files that several omg processes write, for any number *)
(* of processes, versions, databases, entries and days: the versions       *)
(* directory of a runtime, the history of package operations, the usage    *)
(* statistics, and the two publications of several files, self-update and  *)
(* the sync of the pacman databases.                                       *)
(*                                                                         *)
(* Each invariant says what the holder of a lock knows: that the version   *)
(* it removes is not selected and that the one it installs is not touched  *)
(* (StoreInv), that the entries it holds in memory cover the live file and *)
(* that at most the oldest one moves at a time (HistoryInv, OrderInv), that*)
(* the statistics it is going to save are those of the file with one       *)
(* command more (UsageInv).                                                *)
(*                                                                         *)
(* Both publications keep what they found until the new set is complete and*)
(* tell their caller the truth (AllOrNothing).  The lock makes its holder  *)
(* the only process that changes the files (UpdateLocked, SyncLocked), so  *)
(* at each control point the files already visited and those still to be   *)
(* visited are known (UpdateProgress, SyncProgress).  That a process never *)
(* finds its own files (UpdateFresh, SyncFresh) tells "all replaced" from  *)
(* "none replaced".                                                        *)
(***************************************************************************)
EXTENDS RuntimeStore, HistoryLog, UsageStats, SelfUpdate, DatabaseSync, Induction,
        SequenceTheorems, TLAPS

(* The versions directory of a runtime.                                    *)

Leasing == {"swift", "erlang"}

\* What is published is whole until somebody removes a part of it.
GoodIsWhole == \A v \in good : Whole(v)

\* Who removes a version of its own accord holds .mutation.lock and saw that
\* the version is not selected; who installs in swift.rs and erlang.rs holds
\* the lease of the version.
LeasesHeld ==
  \A p \in Procs :
    LET v == proc[p].version IN
    /\ ~At(p, "idle") => v \in Versions
    /\ At(p, "remove") => lease = p /\ current # v
    /\ proc[p].at \in {"clear", "cleanup", "setup", "smoke"} => manager \in Leasing
    /\ proc[p].at \in {"clear", "cleanup", "setup", "smoke", "stage", "publish"}
         /\ manager \in Leasing => installLease[v] = p

\* A published tree that is not finished is left alone.
UnfinishedIsLeft ==
  \A p \in Procs : proc[p].at \in {"setup", "smoke"} =>
    LET v == proc[p].version IN
    /\ tree[v].there /\ {"rest", "pending"} \subseteq tree[v].parts
    /\ At(p, "smoke") => HasLauncher(v)
    /\ \A q \in Procs : At(q, "remove") => proc[q].version # v

\* What swift.rs and erlang.rs clear away is not good.
ClearedIsBroken ==
  \A p \in Procs : proc[p].at \in {"clear", "cleanup"} => proc[p].version \notin good

\* The copy that rust.rs extends is made and put in place under .mutation.lock.
CopyIsCurrent ==
  \A p \in Procs : At(p, "exchange") =>
    manager = "rust" /\ lease = p /\ proc[p].copy = tree[proc[p].version].parts

\* What looks installed is good, or its removal is under way or was cut short.
ListedIsKnown ==
  \A v \in Versions :
    /\ Valid(v) => \/ v \in good \cup cut
                   \/ \E p \in Procs : At(p, "remove") /\ proc[p].version = v
    /\ v = current => v \in good \cup cut

StoreInv ==
  /\ StoreTypeOK /\ GoodIsWhole /\ LeasesHeld /\ UnfinishedIsLeft /\ ClearedIsBroken
  /\ CopyIsCurrent /\ ListedIsKnown

-----------------------------------------------------------------------------
(* The history.                                                            *)

\* What the holder of history.lock has in memory, with the archive, covers
\* the live file; the entry it makes is the last one.
HistoryInv ==
  /\ history \in Seq(Nat) /\ retired \in Seq(Nat) /\ made \in Nat
  /\ recorder \in [Recorders -> [at : {"idle", "load", "retire", "save"}, entries : Seq(Nat)]]
  /\ \A p \in Recorders : recorder[p].at # "idle" => historyLock = p
  /\ \A p \in Recorders : recorder[p].at \in {"retire", "save"} =>
       /\ Entries(history) \subseteq Entries(recorder[p].entries) \cup Entries(retired)
       /\ recorder[p].entries # <<>> /\ recorder[p].entries[Len(recorder[p].entries)] = made
  /\ NothingLost

Rising(s) == \A i, k \in 1..Len(s) : i < k => s[i] < s[k]
Flat(s) == \A i, k \in 1..Len(s) : i < k => s[i] <= s[k]
Precedes(s, t) == \A i \in 1..Len(s), k \in 1..Len(t) : s[i] <= t[k]
UpTo(s, n) == \A i \in 1..Len(s) : s[i] <= n

\* The archive may hold an entry again, never one that is newer than an entry of
\* the live file: at most the oldest entry moves at a time.
OrderInv ==
  /\ Flat(retired) /\ Rising(history) /\ Precedes(retired, history)
  /\ UpTo(retired, made) /\ UpTo(history, made) /\ Len(history) <= MaxLive
  /\ \A p \in Recorders :
       LET held == recorder[p].entries IN
       /\ recorder[p].at \in {"retire", "save"} =>
            Rising(held) /\ Precedes(retired, held) /\ UpTo(held, made)
       /\ recorder[p].at = "retire" =>
            Len(held) = Len(history) + 1 /\ \A i \in 1..Len(history) : held[i] = history[i]
       /\ recorder[p].at = "save" => Len(held) <= MaxLive

-----------------------------------------------------------------------------
(* The statistics.                                                         *)

Months == {0} \cup {MonthOf(d) : d \in Nat}

Statistics ==
  [total : Nat, month : Nat, today : Nat, installs : Nat, streak : Nat, longest : Nat,
   lastDay : Nat, lastMonth : Months, lastSync : Nat]

\* The counters of n commands.
CountsAdd(stats, n) ==
  /\ stats.total = n
  /\ stats.installs <= stats.today /\ stats.today <= stats.month /\ stats.month <= stats.total
  /\ stats.lastDay # 0 => stats.lastMonth = MonthOf(stats.lastDay)
  /\ IF stats.total = 0 THEN stats.lastDay = 0 /\ stats.longest = 0
     ELSE 1 <= stats.streak /\ stats.streak <= stats.longest /\ stats.longest <= stats.total

Within(from, to, days) == \A d \in Nat : from <= d /\ d <= to => d \in days

\* The streaks of commands on the given days.
StreaksFit(stats, days) ==
  /\ days \subseteq 1..stats.lastDay
  /\ stats.total = 0 => days = {} /\ stats.lastDay = 0 /\ stats.streak = 0 /\ stats.longest = 0
  /\ stats.total # 0 =>
       /\ stats.lastDay \in days /\ stats.streak \in 1..stats.lastDay
       /\ stats.streak <= stats.longest
       /\ \A n \in 1..stats.lastDay :
            Within(stats.lastDay - n + 1, stats.lastDay, days) <=> n <= stats.streak
       /\ \A from, to \in 1..MaxDay :
            from <= to /\ Within(from, to, days) => to - from + 1 <= stats.longest
       /\ \E from \in 1..MaxDay : Within(from, from + stats.longest - 1, days)

\* What a process holds in memory under usage.lock.
HeldIsSound(p) ==
  LET stats == tracker[p].stats IN
  /\ tracker[p].at \in {"load", "save", "note"} => usageLock = p
  /\ tracker[p].at = "save" =>
       /\ stats \in Statistics /\ CountsAdd(stats, counted + 1)
       /\ ~rewound /\ usage.lastDay <= stats.lastDay =>
            StreaksFit(stats, activeDays \cup {stats.lastDay})
  /\ tracker[p].at = "note" =>
       /\ stats \in Statistics /\ CountsAdd(stats, counted)
       /\ ~rewound => StreaksFit(stats, activeDays)

UsageInv ==
  /\ day \in 1..MaxDay /\ counted \in Nat /\ usage \in Statistics
  /\ DOMAIN tracker = Trackers
  /\ CountsAdd(usage, counted) /\ (~rewound => StreaksFit(usage, activeDays))
  /\ \A p \in Trackers : HeldIsSound(p)

-----------------------------------------------------------------------------
(* The versions directory keeps its invariant.                             *)

LEMMA StoreInitially == StoreInit => StoreInv
  <1> SUFFICES ASSUME StoreInit PROVE StoreInv
    OBVIOUS
  <1> USE StoreConstants DEF StoreInit
  <1>1. StoreTypeOK
    BY DEF StoreTypeOK, Directory, NoDirectory, Points, Removing
  <1>2. GoodIsWhole /\ LeasesHeld /\ UnfinishedIsLeft /\ ClearedIsBroken /\ CopyIsCurrent
    BY DEF GoodIsWhole, LeasesHeld, UnfinishedIsLeft, ClearedIsBroken, CopyIsCurrent, At
  <1>3. ListedIsKnown
    BY DEF ListedIsKnown, Valid, NoDirectory
  <1> QED BY <1>1, <1>2, <1>3 DEF StoreInv

\* A process that goes on, in the types of its record.
LEMMA GotoMoves ==
  ASSUME StoreTypeOK, NEW p \in Procs, NEW point \in Points, Goto(p, point)
  PROVE  /\ proc' \in [Procs -> [at : Points, version : Versions \cup {Nobody}, copy : SUBSET Parts]]
         /\ proc'[p].at = point /\ proc'[p].version = proc[p].version /\ proc'[p].copy = proc[p].copy
         /\ \A q \in Procs : q # p => proc'[q] = proc[q]
  BY DEF StoreTypeOK, Goto

\* One case per step of an install, of use_version and of a removal.
LEMMA ProcessStep ==
  ASSUME StoreInv, NEW p \in Procs, StoreStep(p)
  PROVE  StoreInv'
  <1> USE StoreConstants
  <1>1. CASE Stage(p)
    <2>1. StoreTypeOK'
      BY <1>1 DEF Stage, Goto, StoreInv, StoreTypeOK, Directory,
         NoDirectory, Points, Removing, Parts, At, LeasesHeld
    <2>2. GoodIsWhole'
      BY <1>1 DEF Stage, Goto, StoreInv, StoreTypeOK, Directory,
         NoDirectory, GoodIsWhole, Whole, Valid, At
    <2>3. LeasesHeld'
      BY <1>1 DEF Stage, Goto, StoreInv, StoreTypeOK, LeasesHeld, At, Leasing
    <2>4. UnfinishedIsLeft'
      BY <1>1 DEF Stage, Goto, StoreInv, StoreTypeOK, Directory,
         UnfinishedIsLeft, LeasesHeld, At, HasLauncher, Valid
    <2>5. ClearedIsBroken'
      BY <1>1 DEF Stage, Goto, StoreInv, StoreTypeOK, Directory,
         ClearedIsBroken, LeasesHeld, GoodIsWhole, UnfinishedIsLeft, Whole,
         At, Valid, HasLauncher
    <2>6. ListedIsKnown'
      BY <1>1 DEF Stage, Goto, StoreInv, StoreTypeOK, Directory,
         NoDirectory, ListedIsKnown, GoodIsWhole, Whole, LeasesHeld,
         UnfinishedIsLeft, At, Valid, HasLauncher, Removing
    <2>7. CopyIsCurrent'
      BY <1>1 DEF Stage, Goto, StoreInv, StoreTypeOK, Directory, NoDirectory,
         CopyIsCurrent, LeasesHeld, Leasing, Removing, At
    <2> QED BY <2>1, <2>2, <2>3, <2>4, <2>5, <2>6, <2>7 DEF StoreInv
  <1>2. CASE CompleteStagedInstall(p)
    <2>1. StoreTypeOK'
      BY <1>2 DEF CompleteStagedInstall, Goto, Placed, StagedParts,
         StoreInv, StoreTypeOK, Directory, NoDirectory, Points, Removing,
         Parts, At, LeasesHeld
    <2>2. GoodIsWhole'
      <3>1. PICK v \in Versions : v = proc[p].version
        BY <1>2 DEF CompleteStagedInstall, At, StoreInv, LeasesHeld
      <3>2. CASE manager = "erlang"
        BY <1>2, <3>1, <3>2 DEF CompleteStagedInstall, Placed, StoreInv,
           StoreTypeOK, GoodIsWhole, Whole, Valid
      <3>3. CASE manager # "erlang"
        <4>1. /\ good' = good \cup {v}
              /\ tree' = [tree EXCEPT ![v] = [there |-> TRUE, parts |-> {"launcher", "rest"}]]
          BY <1>2, <3>1, <3>3 DEF CompleteStagedInstall, Placed, StagedParts
        <4>2. Whole(v)'
          BY <4>1 DEF Whole, Valid, StoreInv, StoreTypeOK
        <4>3. ASSUME NEW w \in good, w # v PROVE Whole(w)'
          BY <4>1, <4>3 DEF StoreInv, StoreTypeOK, GoodIsWhole, Whole, Valid
        <4> QED BY <4>1, <4>2, <4>3 DEF GoodIsWhole
      <3> QED BY <3>2, <3>3
    <2>3. LeasesHeld'
      BY <1>2 DEF CompleteStagedInstall, Goto, Placed, StagedParts,
         StoreInv, StoreTypeOK, LeasesHeld, At, Leasing
    <2>4. UnfinishedIsLeft'
      BY <1>2 DEF CompleteStagedInstall, Goto, Placed, StagedParts,
         StoreInv, StoreTypeOK, Directory, UnfinishedIsLeft, LeasesHeld, At,
         HasLauncher, Valid
    <2>5. ClearedIsBroken'
      BY <1>2 DEF CompleteStagedInstall, Goto, Placed, StagedParts,
         StoreInv, StoreTypeOK, Directory, ClearedIsBroken, LeasesHeld,
         GoodIsWhole, UnfinishedIsLeft, Whole, At, Valid, HasLauncher
    <2>6. ListedIsKnown'
      BY <1>2 DEF CompleteStagedInstall, Goto, Placed, StagedParts,
         StoreInv, StoreTypeOK, Directory, NoDirectory, ListedIsKnown,
         GoodIsWhole, Whole, LeasesHeld, UnfinishedIsLeft, At, Valid,
         HasLauncher, Removing
    <2>7. CopyIsCurrent'
      BY <1>2 DEF CompleteStagedInstall, Goto, Placed, StagedParts, StoreInv, StoreTypeOK, Directory, NoDirectory,
         CopyIsCurrent, LeasesHeld, Leasing, Removing, At
    <2> QED BY <2>1, <2>2, <2>3, <2>4, <2>5, <2>6, <2>7 DEF StoreInv
  <1>3. CASE ReplaceStagedInstall(p)
    <2>1. StoreTypeOK'
      <3>1. proc' \in [Procs -> [at : Points, version : Versions \cup {Nobody}, copy : SUBSET Parts]]
        BY <1>3, GotoMoves DEF ReplaceStagedInstall, StoreInv, Points, Removing
      <3>2. tree' \in [Versions -> Directory]
        BY <1>3 DEF ReplaceStagedInstall, Placed, StagedParts, StoreInv, StoreTypeOK, Directory, Parts, LeasesHeld, At
      <3>3. good' \subseteq Versions /\ cut' \subseteq Versions
        BY <1>3 DEF ReplaceStagedInstall, Placed, StoreInv, StoreTypeOK, LeasesHeld, At
      <3> QED BY <1>3, <3>1, <3>2, <3>3 DEF ReplaceStagedInstall, Placed, StoreInv, StoreTypeOK
    <2>2. GoodIsWhole'
      <3>1. PICK v \in Versions : v = proc[p].version
        BY <1>3 DEF ReplaceStagedInstall, At, StoreInv, LeasesHeld
      <3>2. CASE manager = "erlang"
        BY <1>3, <3>1, <3>2 DEF ReplaceStagedInstall, Placed, StoreInv,
           StoreTypeOK, GoodIsWhole, Whole, Valid
      <3>3. CASE manager # "erlang"
        <4>1. /\ good' = good \cup {v}
              /\ tree' = [tree EXCEPT ![v] = [there |-> TRUE, parts |-> {"launcher", "rest"}]]
          BY <1>3, <3>1, <3>3 DEF ReplaceStagedInstall, Placed, StagedParts
        <4>2. Whole(v)'
          BY <4>1 DEF Whole, Valid, StoreInv, StoreTypeOK
        <4>3. ASSUME NEW w \in good, w # v PROVE Whole(w)'
          BY <4>1, <4>3 DEF StoreInv, StoreTypeOK, GoodIsWhole, Whole, Valid
        <4> QED BY <4>1, <4>2, <4>3 DEF GoodIsWhole
      <3> QED BY <3>2, <3>3
    <2>3. LeasesHeld'
      BY <1>3 DEF ReplaceStagedInstall, Goto, Placed, StagedParts,
         StoreInv, StoreTypeOK, LeasesHeld, At, Leasing
    <2>4. UnfinishedIsLeft'
      BY <1>3 DEF ReplaceStagedInstall, Goto, Placed, StagedParts,
         StoreInv, StoreTypeOK, Directory, UnfinishedIsLeft, LeasesHeld, At,
         HasLauncher, Valid
    <2>5. ClearedIsBroken'
      BY <1>3 DEF ReplaceStagedInstall, Goto, Placed, StagedParts,
         StoreInv, StoreTypeOK, Directory, ClearedIsBroken, LeasesHeld,
         GoodIsWhole, UnfinishedIsLeft, Whole, At, Valid, HasLauncher
    <2>6. ListedIsKnown'
      BY <1>3 DEF ReplaceStagedInstall, Goto, Placed, StagedParts,
         StoreInv, StoreTypeOK, Directory, NoDirectory, ListedIsKnown,
         GoodIsWhole, Whole, LeasesHeld, UnfinishedIsLeft, At, Valid,
         HasLauncher, Removing
    <2>7. CopyIsCurrent'
      BY <1>3 DEF ReplaceStagedInstall, Goto, Placed, StagedParts, StoreInv, StoreTypeOK, Directory, NoDirectory,
         CopyIsCurrent, LeasesHeld, Leasing, Removing, At
    <2> QED BY <2>1, <2>2, <2>3, <2>4, <2>5, <2>6, <2>7 DEF StoreInv
  <1>4. CASE Setup(p)
    <2>1. StoreTypeOK'
      <3>1. proc' \in [Procs -> [at : Points, version : Versions \cup {Nobody}, copy : SUBSET Parts]]
        BY <1>4, GotoMoves DEF Setup, StoreInv, Points, Removing
      <3>2. tree' \in [Versions -> Directory]
        BY <1>4 DEF Setup, StoreInv, StoreTypeOK, Directory, Parts, LeasesHeld, At
      <3>3. good' \subseteq Versions /\ cut' \subseteq Versions
        BY <1>4 DEF Setup, StoreInv, StoreTypeOK, LeasesHeld, At
      <3> QED BY <1>4, <3>1, <3>2, <3>3 DEF Setup, StoreInv, StoreTypeOK
    <2>2. GoodIsWhole'
      BY <1>4 DEF Setup, Goto, StoreInv, StoreTypeOK, Directory,
         NoDirectory, GoodIsWhole, Whole, Valid, At
    <2>3. LeasesHeld'
      BY <1>4 DEF Setup, Goto, StoreInv, StoreTypeOK, LeasesHeld, At, Leasing
    <2>4. UnfinishedIsLeft'
      BY <1>4 DEF Setup, Goto, StoreInv, StoreTypeOK, Directory,
         UnfinishedIsLeft, LeasesHeld, At, HasLauncher, Valid
    <2>5. ClearedIsBroken'
      BY <1>4 DEF Setup, Goto, StoreInv, StoreTypeOK, Directory,
         ClearedIsBroken, LeasesHeld, GoodIsWhole, UnfinishedIsLeft, Whole,
         At, Valid, HasLauncher
    <2>6. ListedIsKnown'
      <3>1. PICK v \in Versions : v = proc[p].version
        BY <1>4 DEF Setup, At, StoreInv, LeasesHeld
      <3>2. /\ \A q \in Procs : At(q, "remove") => At(q, "remove")' /\ proc'[q].version = proc[q].version
            /\ UNCHANGED <<good, cut, current>>
        BY <1>4 DEF Setup, Goto, At, StoreInv, StoreTypeOK
      <3>3. /\ \A w \in Versions : w # v => tree'[w] = tree[w]
            /\ "pending" \in tree'[v].parts
        BY <1>4, <3>1 DEF Setup, At, StoreInv, StoreTypeOK, Directory, UnfinishedIsLeft
      <3> QED BY <3>2, <3>3 DEF StoreInv, ListedIsKnown, Valid
    <2>7. CopyIsCurrent'
      BY <1>4 DEF Setup, Goto, StoreInv, StoreTypeOK, Directory, NoDirectory,
         CopyIsCurrent, LeasesHeld, Leasing, Removing, At
    <2> QED BY <2>1, <2>2, <2>3, <2>4, <2>5, <2>6, <2>7 DEF StoreInv
  <1>5. CASE Smoke(p)
    <2>1. StoreTypeOK'
      <3>1. proc' \in [Procs -> [at : Points, version : Versions \cup {Nobody}, copy : SUBSET Parts]]
        BY <1>5, GotoMoves DEF Smoke, StoreInv, Points, Removing
      <3>2. tree' \in [Versions -> Directory]
        BY <1>5 DEF Smoke, StoreInv, StoreTypeOK, Directory, Parts, LeasesHeld, At
      <3>3. good' \subseteq Versions /\ cut' \subseteq Versions
        BY <1>5 DEF Smoke, StoreInv, StoreTypeOK, LeasesHeld, At
      <3> QED BY <1>5, <3>1, <3>2, <3>3 DEF Smoke, StoreInv, StoreTypeOK
    <2>2. GoodIsWhole'
      <3>1. PICK v \in Versions : v = proc[p].version
        BY <1>5 DEF Smoke, At, StoreInv, LeasesHeld
      <3>2. tree[v].there /\ {"launcher", "rest"} \subseteq tree[v].parts
        BY <1>5, <3>1 DEF Smoke, At, StoreInv, UnfinishedIsLeft, HasLauncher
      <3>3. CASE tree' = [tree EXCEPT ![v].parts = @ \ {"pending"}] /\ good' = good \cup {v}
        <4>1. tree'[v].there /\ tree'[v].parts = tree[v].parts \ {"pending"}
          BY <3>2, <3>3 DEF StoreInv, StoreTypeOK, Directory
        <4>2. Whole(v)'
          BY <3>2, <4>1 DEF Whole, Valid
        <4>3. ASSUME NEW w \in good, w # v PROVE Whole(w)'
          BY <3>3, <4>3 DEF StoreInv, StoreTypeOK, GoodIsWhole, Whole, Valid
        <4> QED BY <3>3, <4>2, <4>3 DEF GoodIsWhole
      <3>4. CASE UNCHANGED <<tree, good>>
        BY <3>4 DEF StoreInv, GoodIsWhole, Whole, Valid
      <3> QED BY <1>5, <3>1, <3>3, <3>4 DEF Smoke
    <2>3. LeasesHeld'
      BY <1>5 DEF Smoke, Goto, StoreInv, StoreTypeOK, LeasesHeld, At, Leasing
    <2>4. UnfinishedIsLeft'
      <3>1. PICK v \in Versions : v = proc[p].version
        BY <1>5 DEF Smoke, At, Removing, StoreInv, LeasesHeld
      <3>2. ASSUME NEW q \in Procs, q # p, proc[q].at \in {"setup", "smoke"}
            PROVE  proc[q].version \in Versions /\ proc[q].version # v
        BY <1>5, <3>1, <3>2 DEF Smoke, At, Removing, StoreInv, LeasesHeld,
           UnfinishedIsLeft
      <3>3. \A u \in Versions : u # v => tree'[u] = tree[u]
        BY <1>5, <3>1 DEF Smoke, StoreInv, StoreTypeOK
      <3>4. /\ \A q \in Procs : q # p => proc'[q] = proc[q]
            /\ proc'[p].at \notin {"setup", "smoke", "remove"} \/ proc'[p] = proc[p]
        BY <1>5 DEF Smoke, Goto, StoreInv, StoreTypeOK
      <3>5. proc[p].at \in {"setup", "smoke"} => proc'[p].at \notin {"setup", "smoke"}
        BY <1>5 DEF Smoke, At, Removing, Goto, StoreInv, StoreTypeOK
      <3> QED
        BY <3>2, <3>3, <3>4, <3>5 DEF StoreInv, UnfinishedIsLeft, At,
           HasLauncher
    <2>5. ClearedIsBroken'
      <3>1. PICK v \in Versions : v = proc[p].version
        BY <1>5 DEF Smoke, At, StoreInv, LeasesHeld
      <3>2. v \notin good
        BY <1>5, <3>1 DEF Smoke, At, StoreInv, UnfinishedIsLeft, GoodIsWhole, Whole, Valid
      <3>3. /\ proc'[p].version = v
            /\ (good' = good \cup {v} /\ proc'[p].at = "use") \/ good' = good
            /\ \A q \in Procs : q # p => proc'[q] = proc[q]
        BY <1>5, <3>1 DEF Smoke, Goto, StoreInv, StoreTypeOK
      <3>4. \A q \in Procs : q # p /\ proc[q].at \in {"clear", "cleanup"} => proc[q].version # v
        BY <1>5, <3>1 DEF Smoke, At, StoreInv, LeasesHeld
      <3> QED BY <3>1, <3>2, <3>3, <3>4 DEF StoreInv, ClearedIsBroken
    <2>6. ListedIsKnown'
      BY <1>5 DEF Smoke, Goto, StoreInv, StoreTypeOK, Directory,
         NoDirectory, ListedIsKnown, GoodIsWhole, Whole, LeasesHeld,
         UnfinishedIsLeft, At, Valid, HasLauncher, Removing
    <2>7. CopyIsCurrent'
      <3>1. manager # "rust" /\ UNCHANGED manager
        BY <1>5 DEF Smoke, StoreInv, LeasesHeld, At, Leasing
      <3>2. \A q \in Procs : ~At(q, "exchange")
        BY <3>1 DEF StoreInv, CopyIsCurrent
      <3>3. \A q \in Procs : ~At(q, "exchange")'
        BY <1>5, <3>2 DEF Smoke, Goto, At, StoreInv, StoreTypeOK
      <3> QED BY <3>3 DEF CopyIsCurrent
    <2> QED BY <2>1, <2>2, <2>3, <2>4, <2>5, <2>6, <2>7 DEF StoreInv
  <1>6. CASE Use(p)
    <2>1. StoreTypeOK'
      BY <1>6 DEF Use, Goto, StoreInv, StoreTypeOK, Directory, NoDirectory,
         Points, Removing, Parts, At, LeasesHeld
    <2>2. GoodIsWhole'
      BY <1>6 DEF Use, Goto, StoreInv, StoreTypeOK, Directory, NoDirectory,
         GoodIsWhole, Whole, Valid, At
    <2>3. LeasesHeld'
      BY <1>6 DEF Use, Goto, StoreInv, StoreTypeOK, LeasesHeld, At, Leasing
    <2>4. UnfinishedIsLeft'
      BY <1>6 DEF Use, Goto, StoreInv, StoreTypeOK, Directory,
         UnfinishedIsLeft, LeasesHeld, At, HasLauncher, Valid
    <2>5. ClearedIsBroken'
      BY <1>6 DEF Use, Goto, StoreInv, StoreTypeOK, Directory,
         ClearedIsBroken, LeasesHeld, GoodIsWhole, UnfinishedIsLeft, Whole,
         At, Valid, HasLauncher
    <2>6. ListedIsKnown'
      BY <1>6 DEF Use, Goto, StoreInv, StoreTypeOK, Directory, NoDirectory,
         ListedIsKnown, GoodIsWhole, Whole, LeasesHeld, UnfinishedIsLeft, At,
         Valid, HasLauncher, Removing
    <2>7. CopyIsCurrent'
      BY <1>6 DEF Use, Goto, StoreInv, StoreTypeOK, Directory, NoDirectory,
         CopyIsCurrent, LeasesHeld, Leasing, Removing, At
    <2> QED BY <2>1, <2>2, <2>3, <2>4, <2>5, <2>6, <2>7 DEF StoreInv
  <1>7. CASE Link(p)
    <2>1. StoreTypeOK'
      BY <1>7 DEF Link, Finish, StoreInv, StoreTypeOK, Directory,
         NoDirectory, Points, Removing, Parts, At, LeasesHeld
    <2>2. GoodIsWhole'
      BY <1>7 DEF Link, Finish, StoreInv, StoreTypeOK, Directory,
         NoDirectory, GoodIsWhole, Whole, Valid, At
    <2>3. LeasesHeld'
      BY <1>7 DEF Link, Finish, StoreInv, StoreTypeOK, LeasesHeld, At, Leasing
    <2>4. UnfinishedIsLeft'
      BY <1>7 DEF Link, Finish, StoreInv, StoreTypeOK, Directory,
         UnfinishedIsLeft, LeasesHeld, At, HasLauncher, Valid
    <2>5. ClearedIsBroken'
      BY <1>7 DEF Link, Finish, StoreInv, StoreTypeOK, Directory,
         ClearedIsBroken, LeasesHeld, GoodIsWhole, UnfinishedIsLeft, Whole,
         At, Valid, HasLauncher
    <2>6. ListedIsKnown'
      BY <1>7 DEF Link, Finish, StoreInv, StoreTypeOK, Directory,
         NoDirectory, ListedIsKnown, GoodIsWhole, Whole, LeasesHeld,
         UnfinishedIsLeft, At, Valid, HasLauncher, Removing
    <2>7. CopyIsCurrent'
      BY <1>7 DEF Link, Finish, StoreInv, StoreTypeOK, Directory, NoDirectory,
         CopyIsCurrent, LeasesHeld, Leasing, Removing, At
    <2> QED BY <2>1, <2>2, <2>3, <2>4, <2>5, <2>6, <2>7 DEF StoreInv
  <1>8. CASE RemovePart(p)
    <2>1. StoreTypeOK'
      BY <1>8 DEF RemovePart, StoreInv, StoreTypeOK, Directory,
         NoDirectory, Points, Removing, Parts, At, LeasesHeld
    <2>2. GoodIsWhole'
      BY <1>8 DEF RemovePart, StoreInv, StoreTypeOK, Directory,
         NoDirectory, GoodIsWhole, Whole, Valid, At
    <2>3. LeasesHeld'
      BY <1>8 DEF RemovePart, StoreInv, StoreTypeOK, LeasesHeld, At, Leasing
    <2>4. UnfinishedIsLeft'
      <3>1. PICK v \in Versions : v = proc[p].version
        BY <1>8 DEF RemovePart, At, Removing, StoreInv, LeasesHeld
      <3>2. ASSUME NEW q \in Procs, q # p, proc[q].at \in {"setup", "smoke"}
            PROVE  proc[q].version \in Versions /\ proc[q].version # v
        BY <1>8, <3>1, <3>2 DEF RemovePart, At, Removing, StoreInv,
           LeasesHeld, UnfinishedIsLeft
      <3>3. \A u \in Versions : u # v => tree'[u] = tree[u]
        BY <1>8, <3>1 DEF RemovePart, StoreInv, StoreTypeOK
      <3>4. /\ \A q \in Procs : q # p => proc'[q] = proc[q]
            /\ proc'[p].at \notin {"setup", "smoke", "remove"} \/ proc'[p] = proc[p]
        BY <1>8 DEF RemovePart, StoreInv, StoreTypeOK
      <3>5. proc[p].at \in {"setup", "smoke"} => proc'[p].at \notin {"setup", "smoke"}
        BY <1>8 DEF RemovePart, At, Removing, StoreInv, StoreTypeOK
      <3> QED
        BY <3>2, <3>3, <3>4, <3>5 DEF StoreInv, UnfinishedIsLeft, At,
           HasLauncher
    <2>5. ClearedIsBroken'
      BY <1>8 DEF RemovePart, StoreInv, StoreTypeOK, Directory,
         ClearedIsBroken, LeasesHeld, GoodIsWhole, UnfinishedIsLeft, Whole,
         At, Valid, HasLauncher
    <2>6. ListedIsKnown'
      BY <1>8 DEF RemovePart, StoreInv, StoreTypeOK, Directory,
         NoDirectory, ListedIsKnown, GoodIsWhole, Whole, LeasesHeld,
         UnfinishedIsLeft, At, Valid, HasLauncher, Removing
    <2>7. CopyIsCurrent'
      BY <1>8 DEF RemovePart, StoreInv, StoreTypeOK, Directory, NoDirectory,
         CopyIsCurrent, LeasesHeld, Leasing, Removing, At
    <2> QED BY <2>1, <2>2, <2>3, <2>4, <2>5, <2>6, <2>7 DEF StoreInv
  <1>9. CASE RemoveDirectory(p)
    <2>1. StoreTypeOK'
      <3>1. proc' \in [Procs -> [at : Points, version : Versions \cup {Nobody}, copy : SUBSET Parts]]
        <4>1. CASE Goto(p, "stage")
          BY <4>1, GotoMoves DEF StoreInv, Points, Removing
        <4>2. CASE Finish(p)
          BY <4>2 DEF Finish, StoreInv, StoreTypeOK, Points, Removing, Parts
        <4> QED BY <1>9, <4>1, <4>2 DEF RemoveDirectory
      <3>2. tree' \in [Versions -> Directory]
        BY <1>9 DEF RemoveDirectory, StoreInv, StoreTypeOK, Directory, NoDirectory, Parts, LeasesHeld, At
      <3>3. /\ lease' \in Procs \cup {Nobody}
            /\ installLease' \in [Versions -> Procs \cup {Nobody}]
        BY <1>9 DEF RemoveDirectory, Finish, StoreInv, StoreTypeOK
      <3>4. good' \subseteq Versions /\ cut' \subseteq Versions
        BY <1>9 DEF RemoveDirectory, StoreInv, StoreTypeOK
      <3> QED BY <1>9, <3>1, <3>2, <3>3, <3>4 DEF RemoveDirectory, StoreInv, StoreTypeOK
    <2>2. GoodIsWhole'
      BY <1>9 DEF RemoveDirectory, Goto, Finish, StoreInv, StoreTypeOK,
         Directory, NoDirectory, GoodIsWhole, Whole, Valid, At
    <2>3. LeasesHeld'
      BY <1>9 DEF RemoveDirectory, Goto, Finish, StoreInv, StoreTypeOK,
         LeasesHeld, At, Leasing
    <2>4. UnfinishedIsLeft'
      <3>1. PICK v \in Versions : v = proc[p].version
        BY <1>9 DEF RemoveDirectory, At, Removing, StoreInv, LeasesHeld
      <3>2. ASSUME NEW q \in Procs, q # p, proc[q].at \in {"setup", "smoke"}
            PROVE  proc[q].version \in Versions /\ proc[q].version # v
        BY <1>9, <3>1, <3>2 DEF RemoveDirectory, At, Removing, StoreInv,
           LeasesHeld, UnfinishedIsLeft
      <3>3. \A u \in Versions : u # v => tree'[u] = tree[u]
        BY <1>9, <3>1 DEF RemoveDirectory, StoreInv, StoreTypeOK
      <3>4. /\ \A q \in Procs : q # p => proc'[q] = proc[q]
            /\ proc'[p].at \notin {"setup", "smoke", "remove"} \/ proc'[p] = proc[p]
        BY <1>9 DEF RemoveDirectory, Goto, Finish, StoreInv, StoreTypeOK
      <3>5. proc[p].at \in {"setup", "smoke"} => proc'[p].at \notin {"setup", "smoke"}
        BY <1>9 DEF RemoveDirectory, At, Removing, Goto, Finish, StoreInv,
           StoreTypeOK
      <3> QED
        BY <3>2, <3>3, <3>4, <3>5 DEF StoreInv, UnfinishedIsLeft, At,
           HasLauncher
    <2>5. ClearedIsBroken'
      BY <1>9 DEF RemoveDirectory, Goto, Finish, StoreInv, StoreTypeOK,
         Directory, ClearedIsBroken, LeasesHeld, GoodIsWhole,
         UnfinishedIsLeft, Whole, At, Valid, HasLauncher
    <2>6. ListedIsKnown'
      BY <1>9 DEF RemoveDirectory, Goto, Finish, StoreInv, StoreTypeOK,
         Directory, NoDirectory, ListedIsKnown, GoodIsWhole, Whole,
         LeasesHeld, UnfinishedIsLeft, At, Valid, HasLauncher, Removing
    <2>7. CopyIsCurrent'
      BY <1>9 DEF RemoveDirectory, Goto, Finish, StoreInv, StoreTypeOK, Directory, NoDirectory,
         CopyIsCurrent, LeasesHeld, Leasing, Removing, At
    <2> QED BY <2>1, <2>2, <2>3, <2>4, <2>5, <2>6, <2>7 DEF StoreInv
  <1>10. CASE Stop(p)
    <2>1. StoreTypeOK'
      BY <1>10 DEF Stop, Finish, StoreInv, StoreTypeOK, Directory,
         NoDirectory, Points, Removing, Parts, At, LeasesHeld
    <2>2. GoodIsWhole'
      BY <1>10 DEF Stop, Finish, StoreInv, StoreTypeOK, Directory,
         NoDirectory, GoodIsWhole, Whole, Valid, At
    <2>3. LeasesHeld'
      BY <1>10 DEF Stop, Finish, StoreInv, StoreTypeOK, LeasesHeld, At,
         Leasing
    <2>4. UnfinishedIsLeft'
      BY <1>10 DEF Stop, Finish, StoreInv, StoreTypeOK, Directory,
         UnfinishedIsLeft, LeasesHeld, At, HasLauncher, Valid
    <2>5. ClearedIsBroken'
      BY <1>10 DEF Stop, Finish, StoreInv, StoreTypeOK, Directory,
         ClearedIsBroken, LeasesHeld, GoodIsWhole, UnfinishedIsLeft, Whole,
         At, Valid, HasLauncher
    <2>6. ListedIsKnown'
      BY <1>10 DEF Stop, Finish, StoreInv, StoreTypeOK, Directory,
         NoDirectory, ListedIsKnown, GoodIsWhole, Whole, LeasesHeld,
         UnfinishedIsLeft, At, Valid, HasLauncher, Removing
    <2>7. CopyIsCurrent'
      BY <1>10 DEF Stop, Finish, StoreInv, StoreTypeOK, Directory, NoDirectory,
         CopyIsCurrent, LeasesHeld, Leasing, Removing, At
    <2> QED BY <2>1, <2>2, <2>3, <2>4, <2>5, <2>6, <2>7 DEF StoreInv
  <1>11. CASE PublishCopy(p)
    <2>1. StoreTypeOK'
      BY <1>11 DEF PublishCopy, Finish, StoreInv, StoreTypeOK, Directory,
         NoDirectory, Points, Removing, Parts, At, LeasesHeld
    <2>2. GoodIsWhole'
      BY <1>11 DEF PublishCopy, Finish, StoreInv, StoreTypeOK, Directory, Parts,
         GoodIsWhole, CopyIsCurrent, LeasesHeld, Whole, Valid, At
    <2>3. LeasesHeld'
      BY <1>11 DEF PublishCopy, Finish, StoreInv, StoreTypeOK, LeasesHeld, At, Leasing
    <2>4. UnfinishedIsLeft'
      BY <1>11 DEF PublishCopy, Finish, StoreInv, StoreTypeOK, Directory,
         UnfinishedIsLeft, LeasesHeld, CopyIsCurrent, At, HasLauncher, Valid, Leasing
    <2>5. ClearedIsBroken'
      BY <1>11 DEF PublishCopy, Finish, StoreInv, StoreTypeOK, ClearedIsBroken
    <2>6. ListedIsKnown'
      BY <1>11 DEF PublishCopy, Finish, StoreInv, StoreTypeOK, Directory,
         ListedIsKnown, CopyIsCurrent, LeasesHeld, At, Valid
    <2>7. CopyIsCurrent'
      BY <1>11 DEF PublishCopy, Finish, StoreInv, StoreTypeOK, Directory, CopyIsCurrent, LeasesHeld, At
    <2> QED BY <2>1, <2>2, <2>3, <2>4, <2>5, <2>6, <2>7 DEF StoreInv
  <1> QED
    BY <1>1, <1>2, <1>3, <1>4, <1>5, <1>6, <1>7, <1>8, <1>9, <1>10, <1>11 DEF
       StoreStep

\* One case per way to begin.
LEMMA BeginStep ==
  ASSUME StoreInv, NEW p \in Procs, NEW v \in Versions,
         \/ InstallPlain(p, v) \/ InstallPhp(p, v) \/ InstallLeased(p, v)
         \/ InstallRust(p, v) \/ ExtendRust(p, v) \/ StartUse(p, v) \/ Uninstall(p, v)
  PROVE  StoreInv'
  <1> USE StoreConstants
  <1>1. CASE InstallPlain(p, v)
    <2>1. StoreTypeOK'
      BY <1>1 DEF InstallPlain, Begin, StoreInv, StoreTypeOK, Directory,
         NoDirectory, Points, Removing, Parts, At, LeasesHeld
    <2>2. GoodIsWhole'
      BY <1>1 DEF InstallPlain, Begin, StoreInv, StoreTypeOK, Directory,
         NoDirectory, GoodIsWhole, Whole, Valid, At
    <2>3. LeasesHeld'
      BY <1>1 DEF InstallPlain, Begin, StoreInv, StoreTypeOK, LeasesHeld,
         At, Leasing
    <2>4. UnfinishedIsLeft'
      BY <1>1 DEF InstallPlain, Begin, StoreInv, StoreTypeOK, Directory,
         UnfinishedIsLeft, LeasesHeld, At, HasLauncher, Valid
    <2>5. ClearedIsBroken'
      BY <1>1 DEF InstallPlain, Begin, StoreInv, StoreTypeOK, Directory,
         ClearedIsBroken, LeasesHeld, GoodIsWhole, UnfinishedIsLeft, Whole,
         At, Valid, HasLauncher
    <2>6. ListedIsKnown'
      BY <1>1 DEF InstallPlain, Begin, StoreInv, StoreTypeOK, Directory,
         NoDirectory, ListedIsKnown, GoodIsWhole, Whole, LeasesHeld,
         UnfinishedIsLeft, At, Valid, HasLauncher, Removing
    <2>7. CopyIsCurrent'
      BY <1>1 DEF InstallPlain, Begin, StoreInv, StoreTypeOK, Directory, NoDirectory,
         CopyIsCurrent, LeasesHeld, Leasing, Removing, At
    <2> QED BY <2>1, <2>2, <2>3, <2>4, <2>5, <2>6, <2>7 DEF StoreInv
  <1>2. CASE InstallPhp(p, v)
    <2>1. StoreTypeOK'
      BY <1>2 DEF InstallPhp, Begin, StoreInv, StoreTypeOK, Directory,
         NoDirectory, Points, Removing, Parts, At, LeasesHeld
    <2>2. GoodIsWhole'
      BY <1>2 DEF InstallPhp, Begin, StoreInv, StoreTypeOK, Directory,
         NoDirectory, GoodIsWhole, Whole, Valid, At
    <2>3. LeasesHeld'
      BY <1>2 DEF InstallPhp, Begin, StoreInv, StoreTypeOK, LeasesHeld, At,
         Leasing
    <2>4. UnfinishedIsLeft'
      BY <1>2 DEF InstallPhp, Begin, StoreInv, StoreTypeOK, Directory,
         UnfinishedIsLeft, LeasesHeld, At, HasLauncher, Valid
    <2>5. ClearedIsBroken'
      BY <1>2 DEF InstallPhp, Begin, StoreInv, StoreTypeOK, Directory,
         ClearedIsBroken, LeasesHeld, GoodIsWhole, UnfinishedIsLeft, Whole,
         At, Valid, HasLauncher
    <2>6. ListedIsKnown'
      BY <1>2 DEF InstallPhp, Begin, StoreInv, StoreTypeOK, Directory,
         NoDirectory, ListedIsKnown, GoodIsWhole, Whole, LeasesHeld,
         UnfinishedIsLeft, At, Valid, HasLauncher, Removing
    <2>7. CopyIsCurrent'
      BY <1>2 DEF InstallPhp, Begin, StoreInv, StoreTypeOK, Directory, NoDirectory,
         CopyIsCurrent, LeasesHeld, Leasing, Removing, At
    <2> QED BY <2>1, <2>2, <2>3, <2>4, <2>5, <2>6, <2>7 DEF StoreInv
  <1>3. CASE InstallLeased(p, v)
    <2>1. StoreTypeOK'
      BY <1>3 DEF InstallLeased, Begin, StoreInv, StoreTypeOK, Directory,
         NoDirectory, Points, Removing, Parts, At, LeasesHeld
    <2>2. GoodIsWhole'
      BY <1>3 DEF InstallLeased, Begin, StoreInv, StoreTypeOK, Directory,
         NoDirectory, GoodIsWhole, Whole, Valid, At
    <2>3. LeasesHeld'
      BY <1>3 DEF InstallLeased, Begin, StoreInv, StoreTypeOK, LeasesHeld,
         At, Leasing
    <2>4. UnfinishedIsLeft'
      BY <1>3 DEF InstallLeased, Begin, StoreInv, StoreTypeOK, Directory,
         UnfinishedIsLeft, LeasesHeld, At, HasLauncher, Valid
    <2>5. ClearedIsBroken'
      BY <1>3 DEF InstallLeased, Begin, StoreInv, StoreTypeOK, Directory,
         ClearedIsBroken, LeasesHeld, GoodIsWhole, UnfinishedIsLeft, Whole,
         At, Valid, HasLauncher
    <2>6. ListedIsKnown'
      BY <1>3 DEF InstallLeased, Begin, StoreInv, StoreTypeOK, Directory,
         NoDirectory, ListedIsKnown, GoodIsWhole, Whole, LeasesHeld,
         UnfinishedIsLeft, At, Valid, HasLauncher, Removing
    <2>7. CopyIsCurrent'
      BY <1>3 DEF InstallLeased, Begin, StoreInv, StoreTypeOK, Directory, NoDirectory,
         CopyIsCurrent, LeasesHeld, Leasing, Removing, At
    <2> QED BY <2>1, <2>2, <2>3, <2>4, <2>5, <2>6, <2>7 DEF StoreInv
  <1>4. CASE InstallRust(p, v)
    <2>1. StoreTypeOK'
      BY <1>4 DEF InstallRust, Begin, StoreInv, StoreTypeOK, Directory,
         NoDirectory, Points, Removing, Parts, At, LeasesHeld
    <2>2. GoodIsWhole'
      BY <1>4 DEF InstallRust, Begin, StoreInv, StoreTypeOK, Directory,
         NoDirectory, GoodIsWhole, Whole, Valid, At
    <2>3. LeasesHeld'
      BY <1>4 DEF InstallRust, Begin, StoreInv, StoreTypeOK, LeasesHeld,
         At, Leasing
    <2>4. UnfinishedIsLeft'
      <3>1. /\ proc'[p].at \notin {"setup", "smoke", "remove"} /\ tree' = tree
            /\ \A q \in Procs : q # p => proc'[q] = proc[q]
        BY <1>4 DEF InstallRust, Begin, StoreInv, StoreTypeOK
      <3> QED BY <3>1 DEF StoreInv, UnfinishedIsLeft, At, HasLauncher
    <2>5. ClearedIsBroken'
      <3>1. /\ proc'[p].at \notin {"clear", "cleanup"} /\ good' = good
            /\ \A q \in Procs : q # p => proc'[q] = proc[q]
        BY <1>4 DEF InstallRust, Begin, StoreInv, StoreTypeOK
      <3> QED BY <3>1 DEF StoreInv, ClearedIsBroken
    <2>6. ListedIsKnown'
      BY <1>4 DEF InstallRust, Begin, StoreInv, StoreTypeOK, Directory,
         NoDirectory, ListedIsKnown, GoodIsWhole, Whole, LeasesHeld,
         UnfinishedIsLeft, At, Valid, HasLauncher, Removing
    <2>7. CopyIsCurrent'
      BY <1>4 DEF InstallRust, Begin, StoreInv, StoreTypeOK, Directory, NoDirectory,
         CopyIsCurrent, LeasesHeld, Leasing, Removing, At
    <2> QED BY <2>1, <2>2, <2>3, <2>4, <2>5, <2>6, <2>7 DEF StoreInv
  <1>5. CASE StartUse(p, v)
    <2>1. StoreTypeOK'
      BY <1>5 DEF StartUse, Begin, StoreInv, StoreTypeOK, Directory,
         NoDirectory, Points, Removing, Parts, At, LeasesHeld
    <2>2. GoodIsWhole'
      BY <1>5 DEF StartUse, Begin, StoreInv, StoreTypeOK, Directory,
         NoDirectory, GoodIsWhole, Whole, Valid, At
    <2>3. LeasesHeld'
      BY <1>5 DEF StartUse, Begin, StoreInv, StoreTypeOK, LeasesHeld, At,
         Leasing
    <2>4. UnfinishedIsLeft'
      BY <1>5 DEF StartUse, Begin, StoreInv, StoreTypeOK, Directory,
         UnfinishedIsLeft, LeasesHeld, At, HasLauncher, Valid
    <2>5. ClearedIsBroken'
      BY <1>5 DEF StartUse, Begin, StoreInv, StoreTypeOK, Directory,
         ClearedIsBroken, LeasesHeld, GoodIsWhole, UnfinishedIsLeft, Whole,
         At, Valid, HasLauncher
    <2>6. ListedIsKnown'
      BY <1>5 DEF StartUse, Begin, StoreInv, StoreTypeOK, Directory,
         NoDirectory, ListedIsKnown, GoodIsWhole, Whole, LeasesHeld,
         UnfinishedIsLeft, At, Valid, HasLauncher, Removing
    <2>7. CopyIsCurrent'
      BY <1>5 DEF StartUse, Begin, StoreInv, StoreTypeOK, Directory, NoDirectory,
         CopyIsCurrent, LeasesHeld, Leasing, Removing, At
    <2> QED BY <2>1, <2>2, <2>3, <2>4, <2>5, <2>6, <2>7 DEF StoreInv
  <1>6. CASE Uninstall(p, v)
    <2>1. StoreTypeOK'
      BY <1>6 DEF Uninstall, Begin, StoreInv, StoreTypeOK, Directory,
         NoDirectory, Points, Removing, Parts, At, LeasesHeld
    <2>2. GoodIsWhole'
      BY <1>6 DEF Uninstall, Begin, StoreInv, StoreTypeOK, Directory,
         NoDirectory, GoodIsWhole, Whole, Valid, At
    <2>3. LeasesHeld'
      BY <1>6 DEF Uninstall, Begin, StoreInv, StoreTypeOK, LeasesHeld, At,
         Leasing
    <2>4. UnfinishedIsLeft'
      BY <1>6 DEF Uninstall, Begin, StoreInv, StoreTypeOK, Directory,
         UnfinishedIsLeft, LeasesHeld, At, HasLauncher, Valid
    <2>5. ClearedIsBroken'
      BY <1>6 DEF Uninstall, Begin, StoreInv, StoreTypeOK, Directory,
         ClearedIsBroken, LeasesHeld, GoodIsWhole, UnfinishedIsLeft, Whole,
         At, Valid, HasLauncher
    <2>6. ListedIsKnown'
      BY <1>6 DEF Uninstall, Begin, StoreInv, StoreTypeOK, Directory,
         NoDirectory, ListedIsKnown, GoodIsWhole, Whole, LeasesHeld,
         UnfinishedIsLeft, At, Valid, HasLauncher, Removing
    <2>7. CopyIsCurrent'
      BY <1>6 DEF Uninstall, Begin, StoreInv, StoreTypeOK, Directory, NoDirectory,
         CopyIsCurrent, LeasesHeld, Leasing, Removing, At
    <2> QED BY <2>1, <2>2, <2>3, <2>4, <2>5, <2>6, <2>7 DEF StoreInv
  <1>7. CASE ExtendRust(p, v)
    <2>1. StoreTypeOK'
      BY <1>7 DEF ExtendRust, Valid, StoreInv, StoreTypeOK, Directory,
         NoDirectory, Points, Removing, Parts, At, LeasesHeld
    <2>2. GoodIsWhole'
      BY <1>7 DEF ExtendRust, Valid, StoreInv, StoreTypeOK, Directory, Parts,
         GoodIsWhole, CopyIsCurrent, LeasesHeld, Whole, Valid, At
    <2>3. LeasesHeld'
      BY <1>7 DEF ExtendRust, Valid, StoreInv, StoreTypeOK, LeasesHeld, At, Leasing
    <2>4. UnfinishedIsLeft'
      BY <1>7 DEF ExtendRust, Valid, StoreInv, StoreTypeOK, Directory,
         UnfinishedIsLeft, LeasesHeld, CopyIsCurrent, At, HasLauncher, Valid, Leasing
    <2>5. ClearedIsBroken'
      BY <1>7 DEF ExtendRust, Valid, StoreInv, StoreTypeOK, ClearedIsBroken
    <2>6. ListedIsKnown'
      BY <1>7 DEF ExtendRust, Valid, StoreInv, StoreTypeOK, Directory,
         ListedIsKnown, CopyIsCurrent, LeasesHeld, At, Valid
    <2>7. CopyIsCurrent'
      BY <1>7 DEF ExtendRust, Valid, StoreInv, StoreTypeOK, Directory, CopyIsCurrent, LeasesHeld, At
    <2> QED BY <2>1, <2>2, <2>3, <2>4, <2>5, <2>6, <2>7 DEF StoreInv
  <1> QED
    BY <1>1, <1>2, <1>3, <1>4, <1>5, <1>6, <1>7

\* The invariant holds throughout.
THEOREM StoreInvariant == StoreSpec => []StoreInv
  <1>1. ASSUME StoreInv, UNCHANGED storeVars PROVE StoreInv'
    BY <1>1 DEF storeVars, StoreInv, StoreTypeOK, GoodIsWhole, LeasesHeld,
       UnfinishedIsLeft,
       ClearedIsBroken, CopyIsCurrent, ListedIsKnown, Whole, Valid, HasLauncher, At
  <1>2. StoreInv /\ [StoreNext]_storeVars => StoreInv'
    BY <1>1, ProcessStep, BeginStep DEF StoreNext
  <1> QED BY <1>2, StoreInitially, PTL DEF StoreSpec

\* What looks installed was published whole and passed its checks, unless it
\* is being removed or a removal was cut short (is_valid_version_dir).
THEOREM InstalledIsWhole == StoreSpec => []LooksInstalledIsWhole
  <1>1. ASSUME StoreInv PROVE LooksInstalledIsWhole
    BY <1>1 DEF StoreInv, GoodIsWhole, LeasesHeld, ListedIsKnown,
       LooksInstalledIsWhole,
       BeingRemoved, Removing, At, StoreTypeOK
  <1> QED BY <1>1, StoreInvariant, PTL

\* No process damages a good version while it is selected, whatever it read
\* before the selection (uninstall_version, the recovery of swift.rs and
\* erlang.rs).
THEOREM GoodActiveStays == StoreSpec => GoodActiveSurvives
  <1> DEFINE Survives ==
        \A v \in Versions :
          current = v /\ current' = v /\ v \in good => v \in good' /\ Whole(v)'
  <1>1. StoreInv /\ StoreInv' /\ [StoreNext]_storeVars => [Survives]_storeVars
    <2> SUFFICES ASSUME StoreInv, StoreInv', StoreNext, NEW v \in Versions,
                        current = v, v \in good
                 PROVE  v \in good'
      BY DEF StoreInv, GoodIsWhole
    <2>1. PICK p \in Procs :
            \/ StoreStep(p)
            \/ \E w \in Versions :
                 \/ InstallPlain(p, w) \/ InstallPhp(p, w) \/ InstallLeased(p, w)
                 \/ InstallRust(p, w) \/ ExtendRust(p, w) \/ StartUse(p, w) \/ Uninstall(p, w)
      BY DEF StoreNext
    <2>2. CASE RemovePart(p)
      BY <2>2 DEF RemovePart, Removing, StoreInv, LeasesHeld,
         ClearedIsBroken, At
    <2>3. CASE ~RemovePart(p)
      BY <2>1, <2>3 DEF StoreStep, Stage, CompleteStagedInstall,
         ReplaceStagedInstall, Placed,
         PublishCopy, Setup, Smoke, Use, Link, RemoveDirectory, Stop, InstallPlain, InstallPhp,
         InstallLeased, InstallRust, ExtendRust, StartUse, Uninstall
    <2> QED BY <2>2, <2>3
  <1> QED
    BY <1>1, StoreInvariant, PTL DEF StoreSpec, GoodActiveSurvives

-----------------------------------------------------------------------------
(* The history keeps its invariant.                                        *)

LEMMA EntriesAppend ==
  ASSUME NEW s \in Seq(Nat), NEW e \in Nat
  PROVE  /\ Append(s, e) \in Seq(Nat) /\ Append(s, e) # <<>>
         /\ Append(s, e)[Len(Append(s, e))] = e
         /\ Entries(s) \subseteq Entries(Append(s, e))
  BY DEF Entries

LEMMA EntriesConcat ==
  ASSUME NEW s \in Seq(Nat), NEW t \in Seq(Nat)
  PROVE  s \o t \in Seq(Nat) /\ Entries(s) \cup Entries(t) \subseteq Entries(s \o t)
  <1>1. s \o t \in Seq(Nat)
    OBVIOUS
  <1>2. ASSUME NEW e \in Entries(s) PROVE e \in Entries(s \o t)
    BY <1>2 DEF Entries
  <1>3. ASSUME NEW e \in Entries(t) PROVE e \in Entries(s \o t)
    <2>1. PICK i \in 1..Len(t) : e = t[i]
      BY <1>3 DEF Entries
    <2>2. Len(s) \in Nat /\ Len(t) \in Nat /\ Len(s \o t) = Len(s) + Len(t)
      BY ConcatProperties, LenProperties
    <2>3. Len(s) + i \in 1..(Len(s) + Len(t)) /\ Len(s) + i > Len(s)
          /\ (Len(s) + i) - Len(s) = i
      BY <2>1, <2>2
    <2>4. (s \o t)[Len(s) + i] = e
      BY <2>1, <2>2, <2>3, ConcatProperties
    <2>5. DOMAIN (s \o t) = 1..(Len(s) + Len(t))
      BY <1>1, <2>2, LenProperties
    <2> QED BY <2>3, <2>4, <2>5 DEF Entries
  <1> QED BY <1>1, <1>2, <1>3

\* Cut in two, a sequence loses no entry, and its last one is in the rest.
LEMMA EntriesSplit ==
  ASSUME NEW s \in Seq(Nat), NEW k \in Nat, k < Len(s)
  PROVE  /\ SubSeq(s, 1, k) \in Seq(Nat) /\ SubSeq(s, k + 1, Len(s)) \in Seq(Nat)
         /\ SubSeq(s, k + 1, Len(s)) # <<>>
         /\ SubSeq(s, k + 1, Len(s))[Len(SubSeq(s, k + 1, Len(s)))] = s[Len(s)]
         /\ Entries(s) \subseteq Entries(SubSeq(s, 1, k)) \cup Entries(SubSeq(s, k + 1, Len(s)))
  <1> DEFINE a == SubSeq(s, 1, k)
             b == SubSeq(s, k + 1, Len(s))
  <1>1. /\ a \in Seq(Nat) /\ Len(a) = k /\ \A i \in 1..k : a[i] = s[i]
    BY SubSeqProperties
  <1>2. /\ b \in Seq(Nat) /\ Len(b) = Len(s) - k
        /\ \A i \in 1..(Len(s) - k) : b[i] = s[k + i]
    BY SubSeqProperties
  <1>l. Len(s) \in Nat /\ DOMAIN s = 1..Len(s) /\ DOMAIN a = 1..Len(a) /\ DOMAIN b = 1..Len(b)
    BY <1>1, <1>2, LenProperties
  <1> HIDE DEF a, b
  <1>3. ASSUME NEW e \in Entries(s) PROVE e \in Entries(a) \cup Entries(b)
    <2>1. PICK i \in 1..Len(s) : e = s[i]
      BY <1>3 DEF Entries
    <2>2. CASE i <= k
      <3>1. i \in 1..k /\ a[i] = e
        BY <1>1, <1>l, <2>1, <2>2
      <3> QED BY <1>1, <1>l, <3>1 DEF Entries
    <2>3. CASE i > k
      <3>1. i - k \in 1..(Len(s) - k) /\ k + (i - k) = i
        BY <1>l, <2>1, <2>3
      <3>2. b[i - k] = e
        BY <1>2, <2>1, <3>1
      <3> QED BY <1>2, <1>l, <3>1, <3>2 DEF Entries
    <2> QED BY <1>l, <2>1, <2>2, <2>3
  <1>4. b # <<>> /\ b[Len(b)] = s[Len(s)]
    <2>1. Len(s) - k \in 1..(Len(s) - k) /\ k + (Len(s) - k) = Len(s)
      BY <1>l
    <2>2. b[Len(b)] = s[Len(s)] /\ Len(b) # 0
      BY <1>2, <1>l, <2>1
    <2> QED BY <1>2, <2>2
  <1> QED BY <1>1, <1>2, <1>3, <1>4 DEF a, b

\* A step of the holder of the lock: nobody else is at work.
LEMMA HistoryAlone ==
  ASSUME HistoryInv, NEW p \in Recorders, recorder[p].at # "idle"
  PROVE  \A q \in Recorders : q # p => recorder[q].at = "idle"
  BY DEF HistoryInv

\* One case per step of a recording.
LEMMA HistoryStep == HistoryInv /\ [HistoryNext]_historyVars => HistoryInv'
  <1> SUFFICES ASSUME HistoryInv, [HistoryNext]_historyVars PROVE HistoryInv'
    OBVIOUS
  <1> USE HistoryConstants
  <1>1. CASE Damage \/ UNCHANGED historyVars
    BY <1>1 DEF Damage, historyVars, HistoryInv, NothingLost
  <1>2. ASSUME NEW p \in Recorders, LockHistory(p) PROVE HistoryInv'
    BY <1>2 DEF LockHistory, RecordAt, HistoryInv, NothingLost
  <1>3. ASSUME NEW p \in Recorders, LoadHistory(p) PROVE HistoryInv'
    <2>1. \A q \in Recorders : q # p => recorder[q].at = "idle"
      BY <1>3, HistoryAlone DEF LoadHistory
    <2>2. /\ Append(history, made') \in Seq(Nat) /\ Append(history, made') # <<>>
          /\ Append(history, made')[Len(Append(history, made'))] = made'
          /\ Entries(history) \subseteq Entries(Append(history, made'))
      <3>1. history \in Seq(Nat) /\ made' \in Nat
        BY <1>3 DEF LoadHistory, HistoryInv
      <3> QED BY <3>1, EntriesAppend
    <2> QED BY <1>3, <2>1, <2>2 DEF LoadHistory, RecordAt, HistoryInv,
       NothingLost
  <1>4. ASSUME NEW p \in Recorders, QuarantineHistory(p) PROVE HistoryInv'
    <2>1. \A q \in Recorders : q # p => recorder[q].at = "idle"
      BY <1>4, HistoryAlone DEF QuarantineHistory
    <2>2. Entries(<<>>) = {}
      BY DEF Entries
    <2>3. NothingLost'
      BY <1>4, <2>2 DEF QuarantineHistory, HistoryInv, NothingLost
    <2>4. /\ <<made'>> \in Seq(Nat) /\ <<made'>> # <<>> /\ <<made'>>[Len(<<made'>>)] = made'
          /\ made' \in Nat
      BY <1>4 DEF QuarantineHistory, HistoryInv
    <2> QED BY <1>4, <2>1, <2>2, <2>3, <2>4 DEF QuarantineHistory,
       RecordAt, HistoryInv
  <1>5. ASSUME NEW p \in Recorders, recorder[p].at = "retire"
        PROVE  /\ Oldest(p) \in Seq(Nat) /\ Newest(p) \in Seq(Nat) /\ Newest(p) # <<>>
               /\ Newest(p)[Len(Newest(p))] = made
               /\ Entries(recorder[p].entries) \subseteq Entries(Oldest(p)) \cup Entries(Newest(p))
               /\ retired \o Oldest(p) \in Seq(Nat)
               /\ Entries(retired) \cup Entries(Oldest(p)) \subseteq Entries(retired \o Oldest(p))
    <2>1. /\ recorder[p].entries \in Seq(Nat) /\ Len(recorder[p].entries) > 0
          /\ recorder[p].entries[Len(recorder[p].entries)] = made
      BY <1>5 DEF HistoryInv
    <2>2. Excess(p) \in Nat /\ Excess(p) < Len(recorder[p].entries)
      BY <2>1 DEF Excess
    <2>3. /\ Oldest(p) \in Seq(Nat) /\ Newest(p) \in Seq(Nat) /\ Newest(p) # <<>>
          /\ Newest(p)[Len(Newest(p))] = made
          /\ Entries(recorder[p].entries) \subseteq Entries(Oldest(p)) \cup Entries(Newest(p))
      BY <2>1, <2>2, EntriesSplit DEF Oldest, Newest
    <2> QED BY <2>3, EntriesConcat DEF HistoryInv
  <1>6. ASSUME NEW p \in Recorders, Retire(p) PROVE HistoryInv'
    <2>1. \A q \in Recorders : q # p => recorder[q].at = "idle"
      BY <1>6, HistoryAlone DEF Retire
    <2> QED BY <1>5, <1>6, <2>1 DEF Retire, RecordAt, HistoryInv, NothingLost
  <1>7. ASSUME NEW p \in Recorders, RetireFails(p) PROVE HistoryInv'
    <2>1. \A q \in Recorders : q # p => recorder[q].at = "idle"
      BY <1>7, HistoryAlone DEF RetireFails
    <2>2. retired' \in Seq(Nat) /\ Entries(retired) \subseteq Entries(retired')
      BY <1>5, <1>7 DEF RetireFails, HistoryInv
    <2> QED BY <1>7, <2>1, <2>2 DEF RetireFails, Rest, RecordAt,
       HistoryInv, NothingLost
  <1>8. ASSUME NEW p \in Recorders, SaveHistory(p) PROVE HistoryInv'
    <2>1. \A q \in Recorders : q # p => recorder[q].at = "idle"
      BY <1>8, HistoryAlone DEF SaveHistory
    <2>2. /\ recorder[p].entries \in Seq(Nat) /\ Len(recorder[p].entries) > 0
          /\ recorder[p].entries[Len(recorder[p].entries)] = made
      BY <1>8 DEF SaveHistory, HistoryInv
    <2>3. made \in Entries(recorder[p].entries)
      BY <2>2 DEF Entries
    <2>4. NothingLost'
      BY <1>8, <2>3 DEF SaveHistory, HistoryInv, NothingLost
    <2> QED BY <1>8, <2>1, <2>2, <2>4 DEF SaveHistory, Rest, RecordAt,
       HistoryInv
  <1>9. ASSUME NEW p \in Recorders, RecorderStops(p) PROVE HistoryInv'
    <2>1. \A q \in Recorders : q # p => recorder[q].at = "idle"
      BY <1>9, HistoryAlone DEF RecorderStops
    <2> QED BY <1>9, <2>1 DEF RecorderStops, Rest, RecordAt, HistoryInv,
       NothingLost
  <1> QED
    BY <1>1, <1>2, <1>3, <1>4, <1>6, <1>7, <1>8, <1>9 DEF HistoryNext

-----------------------------------------------------------------------------
(* What load returns.                                                      *)

\* What load keeps of the first entries of a sequence.
Again(s, i) == \E k \in 1..(i - 1) : s[k] = s[i]
Keeps(s, m, f) ==
  f = [i \in 0..m |-> IF i = 0 THEN <<>>
                      ELSE IF Again(s, i) THEN f[i - 1] ELSE Append(f[i - 1], s[i])]

LEMMA KeepsExists ==
  ASSUME NEW s
  PROVE  \A m \in Nat : \E f : Keeps(s, m, f)
<1> DEFINE S == {m \in Nat : \E f : Keeps(s, m, f)}
           Longer(v, i) == IF Again(s, i) THEN v ELSE Append(v, s[i])
<1>1. 0 \in S
  <2> DEFINE f == [i \in 0..0 |-> <<>>]
  <2>1. \A i \in 0..0 : i = 0
    OBVIOUS
  <2>2. Keeps(s, 0, f)
    BY <2>1 DEF Keeps
  <2> QED
    BY <2>2
<1>2. ASSUME NEW m \in Nat, m \in S PROVE m + 1 \in S
  <2>1. PICK f : Keeps(s, m, f)
    BY <1>2
  <2> DEFINE g == [i \in 0..(m + 1) |-> IF i = m + 1 THEN Longer(f[m], m + 1) ELSE f[i]]
             h == [i \in 0..(m + 1) |-> IF i = 0 THEN <<>>
                     ELSE IF Again(s, i) THEN g[i - 1] ELSE Append(g[i - 1], s[i])]
  <2>2. \A i \in 0..m : g[i] = f[i]
    OBVIOUS
  <2>3. g[m + 1] = Longer(f[m], m + 1)
    OBVIOUS
  <2>4. ASSUME NEW i \in 0..m PROVE f[i] = IF i = 0 THEN <<>> ELSE Longer(f[i - 1], i)
    BY <2>1 DEF Keeps
  <2>5. ASSUME NEW i \in 0..(m + 1) PROVE g[i] = h[i]
    <3>1. CASE i = m + 1
      <4>1. i # 0 /\ i - 1 = m /\ m \in 0..m
        BY <3>1
      <4>2. h[i] = Longer(g[m], m + 1)
        BY <3>1, <4>1
      <4> QED
        BY <3>1, <4>2, <4>1, <2>2, <2>3
    <3>2. CASE i # m + 1 /\ i # 0
      <4>1. i \in 0..m /\ i - 1 \in 0..m
        BY <3>2
      <4> HIDE DEF g
      <4>2. h[i] = Longer(g[i - 1], i)
        BY <3>2
      <4> QED
        BY <3>2, <4>2, <4>1, <2>2, <2>4
    <3>3. CASE i # m + 1 /\ i = 0
      <4>1. h[0] = <<>> /\ 0 \in 0..m
        BY <3>3
      <4> HIDE DEF h, g
      <4> QED
        BY <4>1, <3>3, <2>2, <2>4
    <3> QED
      BY <3>1, <3>2, <3>3
  <2>6. g = h
    BY <2>5
  <2>7. Keeps(s, m + 1, g)
    BY <2>6 DEF Keeps
  <2>8. m + 1 \in Nat
    OBVIOUS
  <2> QED
    BY <2>7, <2>8
<1> HIDE DEF S
<1>3. \A m \in Nat : m \in S
  BY <1>1, <1>2, NatSets
<1> QED
  BY <1>3 DEF S

\* Of a sequence that never descends, every entry is kept once and in order.
KeptWell(s, m, t) ==
  /\ t \in Seq(Nat) /\ Rising(t)
  /\ \A k \in 1..m : \E i \in 1..Len(t) : t[i] = s[k]
  /\ \A i \in 1..Len(t) : \E k \in 1..m : t[i] = s[k]

LEMMA KeptAppend ==
  ASSUME NEW s \in Seq(Nat), Flat(s), NEW m \in Nat, m + 1 <= Len(s),
         NEW t, KeptWell(s, m, t)
  PROVE  KeptWell(s, m + 1, IF Again(s, m + 1) THEN t ELSE Append(t, s[m + 1]))
<1>1. /\ m + 1 \in 1..Len(s) /\ s[m + 1] \in Nat /\ (m + 1) - 1 = m
      /\ \A k \in 1..m : k \in 1..Len(s) /\ k \in 1..(m + 1) /\ k < m + 1 /\ s[k] \in Nat
      /\ \A k \in 1..(m + 1) : k = m + 1 \/ k \in 1..m
  OBVIOUS
<1>2. t \in Seq(Nat) /\ Len(t) \in Nat /\ \A i \in 1..Len(t) : t[i] \in Nat
  BY DEF KeptWell
<1>3. CASE Again(s, m + 1)
  <2>1. PICK k \in 1..m : s[k] = s[m + 1]
    BY <1>1, <1>3 DEF Again
  <2> QED
    BY <1>1, <1>3, <2>1 DEF KeptWell
<1>4. CASE ~Again(s, m + 1)
  <2> DEFINE u == Append(t, s[m + 1])
  <2>1. /\ u \in Seq(Nat) /\ Len(u) = Len(t) + 1 /\ u[Len(t) + 1] = s[m + 1]
        /\ \A i \in 1..Len(t) : u[i] = t[i]
    BY <1>1, <1>2
  <2> HIDE DEF u
  <2>2. \A k \in 1..m : s[k] < s[m + 1]
    BY <1>1, <1>4 DEF Again, Flat
  <2>3. \A i \in 1..Len(t) : t[i] < s[m + 1]
    BY <2>2 DEF KeptWell
  <2>4. \A i \in 1..(Len(t) + 1) : i = Len(t) + 1 \/ i \in 1..Len(t)
    BY <1>2
  <2>5. /\ Len(t) + 1 \in 1..(Len(t) + 1) /\ \A i \in 1..Len(t) : i \in 1..(Len(t) + 1)
        /\ \A i \in 1..Len(t) : ~(Len(t) + 1 < i)
    BY <1>2
  <2>6. Rising(u)
    <3> SUFFICES ASSUME NEW i \in 1..(Len(t) + 1), NEW k \in 1..(Len(t) + 1), i < k
                 PROVE  u[i] < u[k]
      BY <2>1 DEF Rising
    <3>1. i \in 1..Len(t)
      BY <1>2
    <3>2. CASE k = Len(t) + 1
      BY <2>1, <2>3, <3>1, <3>2
    <3>3. CASE k \in 1..Len(t)
      <4>1. t[i] < t[k]
        BY <3>1, <3>3 DEF KeptWell, Rising
      <4> QED
        BY <2>1, <3>1, <3>3, <4>1
    <3> QED
      BY <2>4, <3>2, <3>3
  <2>7. ASSUME NEW k \in 1..(m + 1) PROVE \E i \in 1..Len(u) : u[i] = s[k]
    <3>1. CASE k = m + 1
      BY <2>1, <2>5, <3>1
    <3>2. CASE k \in 1..m
      <4>1. PICK i \in 1..Len(t) : t[i] = s[k]
        BY <3>2 DEF KeptWell
      <4> QED
        BY <2>1, <2>5, <4>1
    <3> QED
      BY <1>1, <3>1, <3>2
  <2>8. ASSUME NEW i \in 1..Len(u) PROVE \E k \in 1..(m + 1) : u[i] = s[k]
    <3>1. CASE i = Len(t) + 1
      <4>1. m + 1 \in 1..(m + 1)
        OBVIOUS
      <4> QED
        BY <2>1, <3>1, <4>1
    <3>2. CASE i \in 1..Len(t)
      <4>1. PICK k \in 1..m : t[i] = s[k]
        BY <3>2 DEF KeptWell
      <4> QED
        BY <1>1, <2>1, <3>2, <4>1
    <3> QED
      BY <2>1, <2>4, <3>1, <3>2
  <2> QED
    BY <1>4, <2>1, <2>6, <2>7, <2>8 DEF KeptWell, u
<1> QED
  BY <1>3, <1>4

LEMMA KeepsWell ==
  ASSUME NEW s \in Seq(Nat), Flat(s), NEW f, Keeps(s, Len(s), f)
  PROVE  KeptWell(s, Len(s), f[Len(s)])
<1> DEFINE S == {m \in Nat : m <= Len(s) => KeptWell(s, m, f[m])}
<1>1. Len(s) \in Nat
  OBVIOUS
<1>2. \A i \in 0..Len(s) : f[i] = IF i = 0 THEN <<>>
                              ELSE IF Again(s, i) THEN f[i - 1] ELSE Append(f[i - 1], s[i])
  BY DEF Keeps
<1>3. 0 \in S
  <2>1. 0 \in 0..Len(s) /\ f[0] = <<>>
    BY <1>1, <1>2
  <2>2. <<>> \in Seq(Nat) /\ Len(<<>>) = 0 /\ 1..0 = {}
    OBVIOUS
  <2>3. KeptWell(s, 0, <<>>)
    BY <2>2 DEF KeptWell, Rising
  <2> QED
    BY <2>1, <2>3
<1>4. ASSUME NEW m \in Nat, m \in S PROVE m + 1 \in S
  <2> SUFFICES ASSUME m + 1 <= Len(s) PROVE KeptWell(s, m + 1, f[m + 1])
    OBVIOUS
  <2>1. m <= Len(s) /\ m + 1 \in 0..Len(s) /\ m + 1 # 0 /\ (m + 1) - 1 = m
    BY <1>1
  <2>2. KeptWell(s, m, f[m])
    BY <1>4, <2>1
  <2>3. f[m + 1] = IF Again(s, m + 1) THEN f[m] ELSE Append(f[m], s[m + 1])
    BY <1>2, <2>1
  <2> QED
    BY <2>2, <2>3, KeptAppend
<1> HIDE DEF S
<1>5. Len(s) \in S
  BY <1>1, <1>3, <1>4, NatSets
<1> QED
  BY <1>1, <1>5 DEF S

LEMMA LoadedKeeps ==
  ASSUME retired \in Seq(Nat), history \in Seq(Nat), Flat(retired \o history)
  PROVE  KeptWell(retired \o history, Len(retired \o history), Loaded)
<1> DEFINE all == retired \o history
           kept == CHOOSE f : Keeps(all, Len(all), f)
<1>1. all \in Seq(Nat) /\ Len(all) \in Nat
  OBVIOUS
<1>2. \E f : Keeps(all, Len(all), f)
  BY <1>1, KeepsExists
<1>3. Keeps(all, Len(all), kept)
  BY <1>2
<1>4. Loaded = kept[Len(all)]
  BY DEF Loaded, Keeps, Again
<1> HIDE DEF kept
<1>5. KeptWell(all, Len(all), kept[Len(all)])
  BY <1>1, <1>3, KeepsWell
<1> QED
  BY <1>4, <1>5

-----------------------------------------------------------------------------
(* The order of the history is kept.                                       *)

\* One sequence after another.
LEMMA Joined ==
  ASSUME NEW s \in Seq(Nat), NEW t \in Seq(Nat)
  PROVE  \A n \in 1..Len(s \o t) :
           \/ n \in 1..Len(s) /\ (s \o t)[n] = s[n]
           \/ n > Len(s) /\ n - Len(s) \in 1..Len(t) /\ (s \o t)[n] = t[n - Len(s)]
<1>1. Len(s) \in Nat /\ Len(t) \in Nat /\ Len(s \o t) = Len(s) + Len(t)
  BY ConcatProperties, LenProperties
<1>2. ASSUME NEW n \in 1..Len(s \o t)
      PROVE  \/ n \in 1..Len(s) /\ (s \o t)[n] = s[n]
             \/ n > Len(s) /\ n - Len(s) \in 1..Len(t) /\ (s \o t)[n] = t[n - Len(s)]
  <2>1. CASE n <= Len(s)
    BY <1>1, <2>1, ConcatProperties
  <2>2. CASE n > Len(s)
    BY <1>1, <2>2, ConcatProperties
  <2> QED
    BY <1>1, <2>1, <2>2
<1> QED
  BY <1>2

LEMMA JoinedInOrder ==
  ASSUME NEW s \in Seq(Nat), NEW t \in Seq(Nat), Flat(s), Flat(t), Precedes(s, t)
  PROVE  Flat(s \o t)
<1> SUFFICES ASSUME NEW i \in 1..Len(s \o t), NEW k \in 1..Len(s \o t), i < k
             PROVE  (s \o t)[i] <= (s \o t)[k]
  BY DEF Flat
<1>1. Len(s) \in Nat /\ i \in Nat /\ k \in Nat
  BY ConcatProperties, LenProperties
<1>2. CASE k \in 1..Len(s) /\ (s \o t)[k] = s[k]
  <2>1. i \in 1..Len(s) /\ (s \o t)[i] = s[i]
    BY <1>1, <1>2, Joined
  <2> QED
    BY <1>2, <2>1 DEF Flat
<1>3. CASE k > Len(s) /\ k - Len(s) \in 1..Len(t) /\ (s \o t)[k] = t[k - Len(s)]
  <2>1. CASE i \in 1..Len(s) /\ (s \o t)[i] = s[i]
    BY <1>3, <2>1 DEF Precedes
  <2>2. CASE i > Len(s) /\ i - Len(s) \in 1..Len(t) /\ (s \o t)[i] = t[i - Len(s)]
    <3>1. i - Len(s) < k - Len(s)
      BY <1>1
    <3> QED
      BY <1>3, <2>2, <3>1 DEF Flat
  <2> QED
    BY <2>1, <2>2, Joined
<1> QED
  BY <1>2, <1>3, Joined

LEMMA RisingIsFlat ==
  ASSUME NEW s \in Seq(Nat), Rising(s)
  PROVE  Flat(s)
BY DEF Rising, Flat

LEMMA Suffix ==
  ASSUME NEW s \in Seq(Nat), NEW k \in Nat, k < Len(s)
  PROVE  /\ SubSeq(s, k + 1, Len(s)) \in Seq(Nat) /\ Len(SubSeq(s, k + 1, Len(s))) = Len(s) - k
         /\ \A i \in 1..(Len(s) - k) : SubSeq(s, k + 1, Len(s))[i] = s[k + i]
BY SubSeqProperties

\* At most one entry moves to the archive, and it is the oldest.
LEMMA RetireInOrder ==
  ASSUME HistoryInv, OrderInv, NEW p \in Recorders, recorder[p].at = "retire"
  PROVE  /\ Flat(retired \o Oldest(p)) /\ Precedes(retired \o Oldest(p), history)
         /\ UpTo(retired \o Oldest(p), made) /\ retired \o Oldest(p) \in Seq(Nat)
         /\ Rising(Newest(p)) /\ Precedes(retired \o Oldest(p), Newest(p))
         /\ UpTo(Newest(p), made) /\ Len(Newest(p)) <= MaxLive /\ Newest(p) \in Seq(Nat)
<1> DEFINE e == recorder[p].entries
           x == Excess(p)
           o == Oldest(p)
           b == Newest(p)
<1>1. /\ e \in Seq(Nat) /\ retired \in Seq(Nat) /\ history \in Seq(Nat) /\ made \in Nat
      /\ MaxLive \in Nat \ {0}
  BY HistoryConstants DEF HistoryInv
<1>2. /\ Flat(retired) /\ Precedes(retired, history) /\ UpTo(retired, made) /\ Rising(e)
      /\ Precedes(retired, e) /\ UpTo(e, made) /\ Len(e) = Len(history) + 1
      /\ \A i \in 1..Len(history) : e[i] = history[i]
      /\ Len(history) <= MaxLive
  BY DEF OrderInv
<1>3. Len(e) \in Nat \ {0} /\ Len(history) \in Nat /\ \A i \in 1..Len(e) : e[i] \in Nat
  BY <1>1, <1>2
<1>4. x \in {0, 1} /\ x < Len(e) /\ Len(e) - x <= MaxLive
  BY <1>1, <1>2, <1>3 DEF Excess
<1>5. o \in Seq(Nat) /\ Len(o) = x /\ \A i \in 1..x : i = 1 /\ o[i] = e[i]
  BY <1>1, <1>3, <1>4, SubSeqProperties DEF Oldest
<1>6. /\ b \in Seq(Nat) /\ Len(b) = Len(e) - x
      /\ \A i \in 1..(Len(e) - x) : b[i] = e[x + i] /\ x + i \in 1..Len(e)
  <2>1. x + 1 \in 1..(Len(e) + 1) /\ x \in Nat /\ Len(e) - x \in Nat
    BY <1>3, <1>4
  <2>2. /\ SubSeq(e, x + 1, Len(e)) \in Seq(Nat)
        /\ Len(SubSeq(e, x + 1, Len(e))) = Len(e) - x
        /\ \A i \in 1..(Len(e) - x) : SubSeq(e, x + 1, Len(e))[i] = e[x + i]
    BY <1>1, <1>4, <2>1, Suffix
  <2>3. \A i \in 1..(Len(e) - x) : x + i \in 1..Len(e)
    BY <1>3, <1>4
  <2> QED
    BY <2>2, <2>3 DEF Newest
<1> HIDE DEF e, x, o, b
<1>7. \A i \in 1..Len(o) : o[i] = e[1] /\ i = 1 /\ 1 \in 1..Len(e)
  BY <1>3, <1>5
<1>8. \A k \in 1..Len(e) : e[1] <= e[k]
  BY <1>3, <1>2 DEF Rising
<1>9. Flat(o) /\ Precedes(retired, o)
  BY <1>2, <1>7 DEF Flat, Precedes
<1>10. Flat(retired \o o) /\ retired \o o \in Seq(Nat)
  BY <1>1, <1>2, <1>5, <1>9, JoinedInOrder
<1>11. \A k \in 1..Len(history) : k \in 1..Len(e) /\ e[1] <= history[k]
  BY <1>2, <1>3, <1>8
<1>12. \A k \in 1..Len(b) : e[1] <= b[k] /\ \E i \in 1..Len(e) : b[k] = e[i]
  BY <1>6, <1>8
<1>13. \A n \in 1..Len(retired \o o) :
         (\E i \in 1..Len(retired) : (retired \o o)[n] = retired[i])
         \/ ((retired \o o)[n] = e[1] /\ 1 \in 1..Len(e))
  BY <1>1, <1>5, <1>7, Joined
<1>14. Precedes(retired \o o, history)
  BY <1>2, <1>11, <1>13 DEF Precedes
<1>15. Precedes(retired \o o, b)
  BY <1>2, <1>12, <1>13 DEF Precedes
<1>16. UpTo(retired \o o, made) /\ UpTo(b, made)
  BY <1>2, <1>12, <1>13 DEF UpTo
<1>17. Rising(b)
  <2> SUFFICES ASSUME NEW i \in 1..(Len(e) - x), NEW k \in 1..(Len(e) - x), i < k
               PROVE  b[i] < b[k]
    BY <1>6 DEF Rising
  <2>1. x + i < x + k
    BY <1>4
  <2> QED
    BY <1>2, <1>6, <2>1 DEF Rising
<1> QED
  BY <1>4, <1>6, <1>10, <1>14, <1>15, <1>16, <1>17 DEF o, b

LEMMA OrderStep == HistoryInv /\ OrderInv /\ [HistoryNext]_historyVars => OrderInv'
<1> SUFFICES ASSUME HistoryInv, OrderInv, [HistoryNext]_historyVars PROVE OrderInv'
  OBVIOUS
<1> USE HistoryConstants
<1>t. /\ history \in Seq(Nat) /\ retired \in Seq(Nat) /\ made \in Nat
      /\ recorder \in [Recorders -> [at : {"idle", "load", "retire", "save"}, entries : Seq(Nat)]]
      /\ \A p \in Recorders : recorder[p].entries \in Seq(Nat)
  BY DEF HistoryInv
<1>1. CASE Damage \/ UNCHANGED historyVars
  BY <1>1 DEF Damage, historyVars, OrderInv
\* The holder of the lock rests, with another archive or another live file.
<1>r. ASSUME NEW p \in Recorders, Rest(p), recorder[p].at # "idle", made' = made,
             Flat(retired'), Rising(history'), Precedes(retired', history'),
             UpTo(retired', made), UpTo(history', made), Len(history') <= MaxLive
      PROVE  OrderInv'
  <2>1. \A q \in Recorders : recorder'[q].at = "idle"
    BY <1>t, <1>r, HistoryAlone DEF Rest, RecordAt
  <2> QED
    BY <1>r, <2>1 DEF OrderInv
<1>2. ASSUME NEW p \in Recorders, LockHistory(p) PROVE OrderInv'
  <2>1. /\ UNCHANGED <<history, retired, made>> /\ recorder'[p].at = "load"
        /\ \A q \in Recorders : q # p => recorder'[q] = recorder[q]
    BY <1>t, <1>2 DEF LockHistory, RecordAt
  <2> QED
    BY <2>1 DEF OrderInv
<1>3. ASSUME NEW p \in Recorders, LoadHistory(p) PROVE OrderInv'
  <2> DEFINE e == Append(history, made + 1)
  <2>1. /\ UNCHANGED <<history, retired>> /\ made' = made + 1 /\ recorder'[p].at = "retire"
        /\ recorder'[p].entries = e
        /\ \A q \in Recorders : q # p => recorder'[q].at = "idle"
    BY <1>t, <1>3, HistoryAlone DEF LoadHistory, RecordAt
  <2>2. /\ e \in Seq(Nat) /\ Len(e) = Len(history) + 1 /\ Len(history) \in Nat
        /\ e[Len(history) + 1] = made + 1 /\ \A i \in 1..Len(history) : e[i] = history[i]
    BY <1>t
  <2>3. /\ \A i \in 1..Len(history) : history[i] <= made /\ history[i] \in Nat
        /\ \A i \in 1..Len(retired) : retired[i] <= made /\ retired[i] \in Nat
    BY <1>t DEF OrderInv, UpTo
  <2>4. \A i \in 1..Len(e) : i = Len(history) + 1 \/ i \in 1..Len(history)
    BY <2>2
  <2> HIDE DEF e
  <2>5. Rising(e)
    <3> SUFFICES ASSUME NEW i \in 1..Len(e), NEW k \in 1..Len(e), i < k PROVE e[i] < e[k]
      BY DEF Rising
    <3>1. i \in 1..Len(history)
      BY <2>2
    <3>2. CASE k = Len(history) + 1
      <4>1. e[i] = history[i] /\ e[k] = made + 1 /\ history[i] <= made /\ history[i] \in Nat
        BY <2>2, <2>3, <3>1, <3>2
      <4> QED
        BY <1>t, <4>1
    <3>3. CASE k \in 1..Len(history)
      BY <2>2, <3>1, <3>3 DEF OrderInv, Rising
    <3> QED
      BY <2>4, <3>2, <3>3
  <2>6. Precedes(retired, e)
    <3> SUFFICES ASSUME NEW i \in 1..Len(retired), NEW k \in 1..Len(e) PROVE retired[i] <= e[k]
      BY DEF Precedes
    <3>1. CASE k = Len(history) + 1
      BY <1>t, <2>2, <2>3, <3>1
    <3>2. CASE k \in 1..Len(history)
      BY <2>2, <3>2 DEF OrderInv, Precedes
    <3> QED
      BY <2>4, <3>1, <3>2
  <2>7. UpTo(e, made + 1) /\ UpTo(history, made + 1) /\ UpTo(retired, made + 1)
    <3>1. \A n \in Nat : n <= made => n <= made + 1
      BY <1>t
    <3>2. UpTo(history, made + 1) /\ UpTo(retired, made + 1)
      BY <2>3, <3>1 DEF UpTo
    <3>3. ASSUME NEW i \in 1..Len(e) PROVE e[i] <= made + 1
      <4>1. CASE i = Len(history) + 1
        <5>1. e[i] = made + 1
          BY <2>2, <4>1
        <5> QED
          BY <1>t, <5>1
      <4>2. CASE i \in 1..Len(history)
        BY <2>2, <2>3, <3>1, <4>2
      <4> QED
        BY <2>4, <4>1, <4>2
    <3> QED
      BY <3>2, <3>3 DEF UpTo
  <2> QED
    BY <2>1, <2>2, <2>5, <2>6, <2>7 DEF OrderInv
<1>4. ASSUME NEW p \in Recorders, QuarantineHistory(p) PROVE OrderInv'
  <2>1. /\ history' = <<>> /\ retired' = retired /\ made' = made + 1
        /\ recorder'[p].at = "retire" /\ recorder'[p].entries = <<made + 1>>
        /\ \A q \in Recorders : q # p => recorder'[q].at = "idle"
    BY <1>t, <1>4, HistoryAlone DEF QuarantineHistory, RecordAt
  <2>2. Len(<<>>) = 0 /\ 1..0 = {} /\ Len(<<made + 1>>) = 1 /\ <<made + 1>>[1] = made + 1
        /\ 1 = 0 + 1 /\ \A i \in 1..1 : i = 1
    BY <1>t
  <2>3. \A i \in 1..Len(retired) : retired[i] <= made /\ retired[i] \in Nat
    BY <1>t DEF OrderInv, UpTo
  <2>4. UpTo(retired, made + 1) /\ Precedes(retired, <<made + 1>>)
    BY <1>t, <2>2, <2>3 DEF UpTo, Precedes
  <2>5. Rising(<<made + 1>>) /\ UpTo(<<made + 1>>, made + 1)
    BY <1>t, <2>2 DEF Rising, UpTo
  <2>6. Rising(<<>>) /\ UpTo(<<>>, made + 1) /\ Precedes(retired, <<>>) /\ Len(<<>>) <= MaxLive
    BY <2>2 DEF Rising, UpTo, Precedes
  <2>7. Flat(retired)
    BY DEF OrderInv
  <2> QED
    BY <2>1, <2>2, <2>4, <2>5, <2>6, <2>7 DEF OrderInv
<1>5. ASSUME NEW p \in Recorders, Retire(p) PROVE OrderInv'
  <2>1. /\ UNCHANGED <<history, made>> /\ retired' = retired \o Oldest(p)
        /\ recorder'[p].at = "save" /\ recorder'[p].entries = Newest(p)
        /\ \A q \in Recorders : q # p => recorder'[q].at = "idle"
    BY <1>t, <1>5, HistoryAlone DEF Retire, RecordAt
  <2>2. recorder[p].at = "retire"
    BY <1>5 DEF Retire
  <2>3. Rising(history) /\ UpTo(history, made) /\ Len(history) <= MaxLive
    BY DEF OrderInv
  <2> QED
    BY <2>1, <2>2, <2>3, RetireInOrder DEF OrderInv
<1>6. ASSUME NEW p \in Recorders, RetireFails(p) PROVE OrderInv'
  <2>1. /\ UNCHANGED <<history, made>> /\ Rest(p) /\ recorder[p].at = "retire"
        /\ retired' = retired \/ retired' = retired \o Oldest(p)
    BY <1>6 DEF RetireFails
  <2>2. Flat(retired') /\ Precedes(retired', history) /\ UpTo(retired', made)
    BY <2>1, RetireInOrder DEF OrderInv
  <2>3. Rising(history) /\ UpTo(history, made) /\ Len(history) <= MaxLive
    BY DEF OrderInv
  <2> QED
    BY <1>r, <2>1, <2>2, <2>3
<1>7. ASSUME NEW p \in Recorders, SaveHistory(p) PROVE OrderInv'
  <2>1. /\ UNCHANGED <<retired, made>> /\ Rest(p) /\ recorder[p].at = "save"
        /\ history' = recorder[p].entries
    BY <1>7 DEF SaveHistory
  <2>2. /\ Rising(history') /\ Precedes(retired, history') /\ UpTo(history', made)
        /\ Len(history') <= MaxLive /\ Flat(retired) /\ UpTo(retired, made)
    BY <2>1 DEF OrderInv
  <2> QED
    BY <1>r, <2>1, <2>2
<1>8. ASSUME NEW p \in Recorders, RecorderStops(p) PROVE OrderInv'
  <2>1. UNCHANGED <<history, retired, made>> /\ Rest(p) /\ recorder[p].at # "idle"
    BY <1>8 DEF RecorderStops
  <2>2. /\ Rising(history) /\ Precedes(retired, history) /\ UpTo(history, made)
        /\ Len(history) <= MaxLive /\ Flat(retired) /\ UpTo(retired, made)
    BY DEF OrderInv
  <2> QED
    BY <1>r, <2>1, <2>2
<1> QED
  BY <1>1, <1>2, <1>3, <1>4, <1>5, <1>6, <1>7, <1>8 DEF HistoryNext

\* The archive and the live file stay in order, apart from entries that were
\* retired twice.
THEOREM HistoryInvariant == HistorySpec => [](HistoryInv /\ OrderInv)
<1>1. HistoryInit => HistoryInv /\ OrderInv
  <2> SUFFICES ASSUME HistoryInit PROVE HistoryInv /\ OrderInv
    OBVIOUS
  <2>1. HistoryInv
    BY DEF HistoryInit, HistoryInv, NothingLost
  <2>2. Len(<<>>) = 0 /\ 1..0 = {} /\ 0 <= MaxLive
    BY HistoryConstants
  <2>3. \A p \in Recorders : recorder[p].at = "idle"
    BY DEF HistoryInit
  <2>4. Rising(<<>>) /\ Flat(<<>>) /\ Precedes(<<>>, <<>>) /\ UpTo(<<>>, 0)
    BY <2>2 DEF Rising, Flat, Precedes, UpTo
  <2>5. history = <<>> /\ retired = <<>> /\ made = 0
    BY DEF HistoryInit
  <2>6. OrderInv
    BY <2>2, <2>3, <2>4, <2>5 DEF OrderInv
  <2> QED
    BY <2>1, <2>6
<1>2. HistoryInv /\ OrderInv /\ [HistoryNext]_historyVars => (HistoryInv /\ OrderInv)'
  BY HistoryStep, OrderStep
<1> QED
  BY <1>1, <1>2, PTL DEF HistorySpec

\* As long as both files can be read, load returns every recorded operation that
\* was not quarantined, once and in order, for any number of processes and entries
\* (archive_drained, save, load).
THEOREM NothingIsForgotten == HistorySpec => []NothingForgotten
<1>1. HistoryInv /\ OrderInv => NothingForgotten
  <2> SUFFICES ASSUME HistoryInv, OrderInv PROVE NothingForgotten
    OBVIOUS
  <2> DEFINE all == retired \o history
  <2>1. /\ retired \in Seq(Nat) /\ history \in Seq(Nat) /\ NothingLost
        /\ Entries(retired) \cup Entries(history) \subseteq Entries(all)
        /\ all \in Seq(Nat)
    BY EntriesConcat DEF HistoryInv
  <2>2. Flat(all)
    BY <2>1, RisingIsFlat, JoinedInOrder DEF OrderInv
  <2>3. KeptWell(all, Len(all), Loaded)
    BY <2>1, <2>2, LoadedKeeps
  <2>4. Loaded \in Seq(Nat) /\ DOMAIN Loaded = 1..Len(Loaded) /\ DOMAIN all = 1..Len(all)
    BY <2>1, <2>3 DEF KeptWell
  <2> HIDE DEF all
  <2>5. Entries(all) \subseteq Entries(Loaded)
    <3> SUFFICES ASSUME NEW e \in Entries(all) PROVE e \in Entries(Loaded)
      OBVIOUS
    <3>1. PICK k \in 1..Len(all) : e = all[k]
      BY <2>4 DEF Entries
    <3>2. PICK i \in 1..Len(Loaded) : Loaded[i] = e
      BY <2>3, <3>1 DEF KeptWell
    <3> QED
      BY <2>4, <3>2 DEF Entries
  <2>6. recorded \ aside \subseteq Entries(Loaded)
    BY <2>1, <2>5 DEF NothingLost
  <2>7. \A i, k \in DOMAIN Loaded : i < k => Loaded[i] < Loaded[k]
    BY <2>3, <2>4 DEF KeptWell, Rising
  <2> QED
    BY <2>1, <2>6, <2>7 DEF NothingForgotten
<1> QED
  BY <1>1, HistoryInvariant, PTL

-----------------------------------------------------------------------------
(* The statistics keep their invariant.                                    *)

\* Field by field, what record_command_on makes of the statistics.
LEMMA RecordedFields ==
  ASSUME day \in Nat, NEW stats \in Statistics, NEW install \in BOOLEAN
  PROVE  LET r == Recorded(stats, install)
             same == stats.lastDay = day
         IN  /\ r \in Statistics /\ r.total = stats.total + 1 /\ r.lastDay = day
             /\ r.streak = Streak(stats) /\ r.lastMonth = MonthOf(day)
             /\ r.longest = IF Streak(stats) > stats.longest THEN Streak(stats) ELSE stats.longest
             /\ r.today = (IF same THEN stats.today ELSE 0) + 1
             /\ r.month = (IF stats.lastMonth # MonthOf(day) THEN 0 ELSE stats.month) + 1
             /\ r.installs = (IF same THEN stats.installs ELSE 0) + IF install THEN 1 ELSE 0
  <1>1. Streak(stats) \in Nat
    BY DEF Streak, Statistics
  <1>2. MonthOf(day) \in Months
    BY DEF Months
  <1> DEFINE now == RolledOver(stats)
  <1>3. /\ now \in Statistics /\ now.total = stats.total /\ now.lastDay = day
        /\ now.streak = Streak(stats) /\ now.lastMonth = MonthOf(day)
        /\ now.longest = (IF Streak(stats) > stats.longest THEN Streak(stats) ELSE stats.longest)
        /\ now.today = (IF stats.lastDay = day THEN stats.today ELSE 0)
        /\ now.month = (IF stats.lastMonth # MonthOf(day) THEN 0 ELSE stats.month)
        /\ now.installs = (IF stats.lastDay = day THEN stats.installs ELSE 0)
    BY <1>1, <1>2 DEF RolledOver, Statistics
  <1> DEFINE t == now.total + 1
             d == now.today + 1
             m == now.month + 1
             k == IF install THEN now.installs + 1 ELSE now.installs
  <1>4. Recorded(stats, install) = [now EXCEPT !.total = t, !.today = d, !.month = m, !.installs = k]
    BY Zenon DEF Recorded
  <1>5. t \in Nat /\ d \in Nat /\ m \in Nat /\ k \in Nat
    BY <1>3 DEF Statistics
  <1>6. k = now.installs + IF install THEN 1 ELSE 0
    BY <1>3 DEF Statistics
  <1> DEFINE r == Recorded(stats, install)
  <1>7. /\ r \in Statistics /\ r.total = t /\ r.lastDay = now.lastDay
        /\ r.streak = now.streak /\ r.lastMonth = now.lastMonth /\ r.longest = now.longest
        /\ r.today = d /\ r.month = m /\ r.installs = k
    <2> HIDE DEF now, t, d, m, k, r
    <2>1. now \in Statistics
      BY <1>3
    <2>2. r = [now EXCEPT !.total = t, !.today = d, !.month = m, !.installs = k]
      BY <1>4 DEF r
    <2> QED BY <1>5, <2>1, <2>2 DEF Statistics
  <1> HIDE DEF now, k, r
  <1>8. /\ r \in Statistics /\ r.total = stats.total + 1 /\ r.lastDay = day
        /\ r.streak = Streak(stats) /\ r.lastMonth = MonthOf(day)
        /\ r.longest = (IF Streak(stats) > stats.longest THEN Streak(stats) ELSE stats.longest)
        /\ r.today = (IF stats.lastDay = day THEN stats.today ELSE 0) + 1
        /\ r.month = (IF stats.lastMonth # MonthOf(day) THEN 0 ELSE stats.month) + 1
        /\ r.installs = (IF stats.lastDay = day THEN stats.installs ELSE 0) + IF install THEN 1 ELSE 0
    BY <1>3, <1>6, <1>7
  <1> QED BY <1>8 DEF r

\* One command more, and the counters still fit into each other.
LEMMA RecordedCounts ==
  ASSUME day \in Nat \ {0}, NEW stats \in Statistics, NEW install \in BOOLEAN,
         NEW n \in Nat, CountsAdd(stats, n)
  PROVE  CountsAdd(Recorded(stats, install), n + 1)
  <1> DEFINE r == Recorded(stats, install)
  <1>1. /\ stats.installs \in Nat /\ stats.today \in Nat /\ stats.month \in Nat /\ stats.total \in Nat
        /\ stats.lastDay \in Nat
    BY DEF Statistics
  <1>2. /\ r.total = stats.total + 1 /\ r.lastDay = day /\ r.lastMonth = MonthOf(day)
        /\ r.today = (IF stats.lastDay = day THEN stats.today ELSE 0) + 1
        /\ r.month = (IF stats.lastMonth # MonthOf(day) THEN 0 ELSE stats.month) + 1
        /\ r.installs = (IF stats.lastDay = day THEN stats.installs ELSE 0) + IF install THEN 1 ELSE 0
    BY RecordedFields
  <1> HIDE DEF r
  <1>3. stats.lastDay = day => stats.lastMonth = MonthOf(day)
    BY DEF CountsAdd
  <1>4. 1 <= r.streak /\ r.streak <= r.longest /\ r.longest <= r.total
    <2>1. stats.streak \in Nat /\ stats.longest \in Nat
      BY DEF Statistics
    <2>2. /\ r.streak = Streak(stats)
          /\ r.longest = IF Streak(stats) > stats.longest THEN Streak(stats) ELSE stats.longest
      BY RecordedFields DEF r
    <2>3. CASE stats.lastDay = 0 \/ day > stats.lastDay + 1
      <3>1. Streak(stats) = 1
        BY <2>3 DEF Streak
      <3>2. stats.longest <= stats.total
        BY <1>1, <2>1 DEF CountsAdd
      <3> QED BY <1>1, <1>2, <2>1, <2>2, <3>1, <3>2
    <2>4. CASE ~(stats.lastDay = 0 \/ day > stats.lastDay + 1)
      <3>1. 1 <= stats.streak /\ stats.streak <= stats.longest /\ stats.longest <= stats.total
        BY <1>1, <2>4 DEF CountsAdd
      <3>2. Streak(stats) \in {stats.streak, stats.streak + 1}
        BY <2>4 DEF Streak
      <3> QED BY <1>1, <1>2, <2>1, <2>2, <3>1, <3>2
    <2> QED BY <2>3, <2>4
  <1>5. CountsAdd(r, n + 1)
    BY <1>1, <1>2, <1>3, <1>4 DEF CountsAdd
  <1> QED BY <1>5 DEF r

\* The run that ends today, by the distance from the last active day.
LEMMA RunToday ==
  ASSUME NEW last \in Nat, NEW streak \in Nat, NEW days, NEW today \in Nat, last < today,
         days \subseteq 1..last, streak <= last,
         last # 0 => \A m \in 1..last : Within(last - m + 1, last, days) <=> m <= streak,
         NEW n \in 1..today
  PROVE  Within(today - n + 1, today, days \cup {today}) <=>
           n <= IF last = 0 \/ today > last + 1 THEN 1 ELSE streak + 1
  <1>1. CASE n = 1
    BY <1>1 DEF Within
  <1>2. CASE n > 1 /\ (last = 0 \/ today > last + 1)
    <2>1. today - 1 \in Nat /\ today - n + 1 <= today - 1 /\ today - 1 <= today
      BY <1>2
    <2>2. today - 1 \notin days \cup {today}
      BY <1>2
    <2>3. ~Within(today - n + 1, today, days \cup {today})
      BY <2>1, <2>2 DEF Within
    <2> QED BY <1>2, <2>3
  <1>3. CASE n > 1 /\ last # 0 /\ today = last + 1
    <2>1. n - 1 \in 1..last /\ last - (n - 1) + 1 = today - n + 1
      BY <1>3
    <2>2. Within(today - n + 1, last, days) <=> n - 1 <= streak
      BY <1>3, <2>1
    <2>3. Within(today - n + 1, last, days) <=> Within(today - n + 1, today, days \cup {today})
      BY <1>3 DEF Within
    <2> QED BY <1>3, <2>2, <2>3
  <1> QED BY <1>1, <1>2, <1>3

\* The streaks after a command on a day that is not before the last one.
LEMMA RecordedStreaks ==
  ASSUME day \in 1..MaxDay, NEW stats \in Statistics, NEW install \in BOOLEAN, NEW days,
         stats.lastDay <= day, StreaksFit(stats, days)
  PROVE  StreaksFit(Recorded(stats, install), days \cup {day})
  <1> USE UsageConstants
  <1> DEFINE r == Recorded(stats, install)
             all == days \cup {day}
  <1>1. /\ stats.total \in Nat /\ stats.streak \in Nat /\ stats.longest \in Nat /\ stats.lastDay \in Nat
        /\ day \in Nat /\ day >= 1
    BY DEF Statistics
  <1>2. /\ r.total = stats.total + 1 /\ r.lastDay = day /\ r.streak = Streak(stats)
        /\ r.longest = IF Streak(stats) > stats.longest THEN Streak(stats) ELSE stats.longest
    BY <1>1, RecordedFields
  <1> HIDE DEF r
  <1>3. days \subseteq 1..stats.lastDay /\ all \subseteq 1..day /\ day \in all
    BY <1>1 DEF StreaksFit
  <1>4. /\ Streak(stats) \in 1..day
        /\ \A n \in 1..day : Within(day - n + 1, day, all) <=> n <= Streak(stats)
    <2>1. CASE stats.lastDay = day
      <3>1. stats.total # 0 /\ day \in days
        BY <1>1, <2>1 DEF StreaksFit
      <3>2. Streak(stats) = stats.streak /\ all = days
        BY <1>1, <2>1, <3>1 DEF Streak
      <3> QED BY <2>1, <3>1, <3>2 DEF StreaksFit
    <2>2. CASE stats.lastDay < day
      <3>1. Streak(stats) = IF stats.lastDay = 0 \/ day > stats.lastDay + 1 THEN 1
                            ELSE stats.streak + 1
        BY <1>1, <2>2 DEF Streak
      <3>2. /\ stats.streak <= stats.lastDay
            /\ stats.lastDay # 0 =>
                 \A m \in 1..stats.lastDay :
                   Within(stats.lastDay - m + 1, stats.lastDay, days) <=> m <= stats.streak
        BY <1>1, <1>3 DEF StreaksFit
      <3>3. ASSUME NEW n \in 1..day
            PROVE  Within(day - n + 1, day, all) <=> n <= Streak(stats)
        <4>1. Within(day - n + 1, day, days \cup {day}) <=>
                n <= IF stats.lastDay = 0 \/ day > stats.lastDay + 1 THEN 1 ELSE stats.streak + 1
          BY <1>1, <1>3, <2>2, <3>2, RunToday
        <4> QED BY <3>1, <4>1
      <3>4. stats.streak <= stats.lastDay
        BY <3>2
      <3>5. Streak(stats) \in 1..day
        <4>1. CASE stats.lastDay = 0 \/ day > stats.lastDay + 1
          BY <1>1, <3>1, <4>1
        <4>2. CASE ~(stats.lastDay = 0 \/ day > stats.lastDay + 1)
          <5>1. Streak(stats) = stats.streak + 1
            BY <3>1, <4>2
          <5> QED BY <1>1, <2>2, <3>4, <5>1
        <4> QED BY <4>1, <4>2
      <3> QED BY <3>3, <3>5
    <2>3. stats.lastDay = day \/ stats.lastDay < day
      BY <1>1
    <2> QED BY <2>1, <2>2, <2>3
  <1>5. r.longest \in Nat /\ r.streak <= r.longest /\ stats.longest <= r.longest
    BY <1>1, <1>2, <1>4
  <1>6. ASSUME NEW from \in 1..MaxDay, NEW to \in 1..MaxDay, from <= to, Within(from, to, all)
        PROVE  to - from + 1 <= r.longest
    <2>1. to \in all
      BY <1>6 DEF Within
    <2>2. CASE to = day
      <3>1. day - from + 1 \in 1..day /\ day - (day - from + 1) + 1 = from
        BY <1>1, <1>6, <2>2
      <3>2. day - from + 1 <= Streak(stats)
        BY <1>4, <1>6, <2>2, <3>1
      <3> QED BY <1>1, <1>2, <1>4, <1>5, <1>6, <2>2, <3>2
    <2>3. CASE to # day
      <3>1. to < day /\ Within(from, to, days)
        BY <1>1, <1>3, <1>6, <2>1, <2>3 DEF Within
      <3>2. stats.total # 0
        BY <2>1, <2>3 DEF StreaksFit
      <3>3. to - from + 1 <= stats.longest
        BY <1>6, <3>1, <3>2 DEF StreaksFit
      <3> QED BY <1>1, <1>5, <1>6, <3>3
    <2> QED BY <2>2, <2>3
  <1>7. \E from \in 1..MaxDay : Within(from, from + r.longest - 1, all)
    <2>1. CASE r.longest = r.streak
      <3>1. /\ day - r.streak + 1 \in 1..MaxDay
            /\ day - r.streak + 1 + r.longest - 1 = day
        BY <1>1, <1>2, <1>4, <2>1
      <3>2. PICK m \in 1..day : m = r.streak
        BY <1>2, <1>4
      <3>3. m <= Streak(stats)
        BY <1>2, <3>2
      <3>4. Within(day - r.streak + 1, day, all)
        BY <1>4, <3>2, <3>3
      <3> QED BY <3>1, <3>4
    <2>2. CASE r.longest # r.streak
      <3>1. r.longest = stats.longest /\ stats.longest > 0
        BY <1>1, <1>2, <1>4, <2>2
      <3>2. stats.total # 0
        BY <3>1 DEF StreaksFit
      <3>3. PICK from \in 1..MaxDay : Within(from, from + stats.longest - 1, days)
        BY <3>2 DEF StreaksFit
      <3> QED BY <3>1, <3>3 DEF Within
    <2> QED BY <2>1, <2>2
  <1>8. StreaksFit(r, all)
    <2>1. r.total # 0 /\ all \subseteq 1..r.lastDay /\ r.lastDay \in all
      BY <1>1, <1>2, <1>3
    <2>2. /\ r.streak \in 1..r.lastDay
          /\ \A n \in 1..r.lastDay : Within(r.lastDay - n + 1, r.lastDay, all) <=> n <= r.streak
      BY <1>2, <1>4
    <2> HIDE DEF all
    <2> QED BY <1>5, <1>6, <1>7, <2>1, <2>2 DEF StreaksFit
  <1> QED BY <1>8 DEF r

\* Only the time of the post changes.
LEMMA NotedFits ==
  ASSUME NEW stats \in Statistics, NEW t \in Nat, NEW n, NEW days
  PROVE  LET s == [stats EXCEPT !.lastSync = t] IN
         /\ s \in Statistics /\ s.lastDay = stats.lastDay
         /\ CountsAdd(stats, n) => CountsAdd(s, n)
         /\ StreaksFit(stats, days) => StreaksFit(s, days)
  <1> DEFINE s == [stats EXCEPT !.lastSync = t]
  <1>1. /\ s \in Statistics
        /\ s.total = stats.total /\ s.month = stats.month /\ s.today = stats.today
        /\ s.installs = stats.installs /\ s.streak = stats.streak /\ s.longest = stats.longest
        /\ s.lastDay = stats.lastDay /\ s.lastMonth = stats.lastMonth
    BY DEF Statistics
  <1> HIDE DEF s
  <1>2. CountsAdd(stats, n) => CountsAdd(s, n)
    BY <1>1 DEF CountsAdd
  <1>3. StreaksFit(stats, days) => StreaksFit(s, days)
    BY <1>1 DEF StreaksFit
  <1> QED BY <1>1, <1>2, <1>3 DEF s

\* Nobody else holds anything while the lock is free or one's own.
LEMMA HeldAlone ==
  ASSUME UsageInv, NEW p \in Trackers, usageLock \in {p, NoTracker},
         NEW q \in Trackers, q # p
  PROVE  tracker[q].at \notin {"load", "save", "note"}
  BY UsageConstants DEF UsageInv, HeldIsSound

\* A process moves: what it holds now, and what the others still hold.
LEMMA TrackAtHolds ==
  ASSUME UsageInv, NEW p \in Trackers, NEW point, NEW stats, TrackAt(p, point, stats)
  PROVE  /\ DOMAIN tracker' = Trackers /\ tracker'[p].at = point /\ tracker'[p].stats = stats
         /\ \A q \in Trackers : q # p => tracker'[q] = tracker[q]
  BY DEF UsageInv, TrackAt

\* A process that holds nothing is sound.
LEMMA NothingHeld ==
  ASSUME NEW p \in Trackers, tracker'[p].at \notin {"load", "save", "note"}
  PROVE  HeldIsSound(p)'
  BY DEF HeldIsSound

LEMMA UsageStep ==
  ASSUME UsageInv, [UsageNext]_usageVars
  PROVE  UsageInv'
  <1> USE UsageConstants
  <1>0. /\ day \in 1..MaxDay /\ day \in Nat /\ counted \in Nat
        /\ usage \in Statistics /\ usage.lastDay \in Nat
        /\ DOMAIN tracker = Trackers /\ CountsAdd(usage, counted)
        /\ (~rewound => StreaksFit(usage, activeDays))
        /\ \A p \in Trackers : HeldIsSound(p)
    BY DEF UsageInv, Statistics
  <1>1. CASE UNCHANGED usageVars
    BY <1>0, <1>1 DEF UsageInv, usageVars, HeldIsSound
  <1>2. CASE Midnight \/ DateGoesBack
    <2>1. day' \in 1..MaxDay
      BY <1>0, <1>2 DEF Midnight, DateGoesBack
    <2>2. UNCHANGED <<usage, usageLock, tracker, counted, activeDays, rewound>>
      BY <1>2 DEF Midnight, DateGoesBack
    <2>3. ASSUME NEW p \in Trackers PROVE HeldIsSound(p)'
      BY <1>0, <2>1, <2>2 DEF HeldIsSound
    <2> QED BY <1>0, <2>1, <2>2, <2>3 DEF UsageInv
  <1>3. ASSUME NEW p \in Trackers, Track(p)
        PROVE  UsageInv'
    <2>1. UNCHANGED <<day, usage, counted, activeDays, rewound>> /\ usageLock' = p /\ usageLock = NoTracker
      BY <1>3 DEF Track
    <2>2. /\ DOMAIN tracker' = Trackers /\ tracker'[p].at = "load"
          /\ \A q \in Trackers : q # p => tracker'[q] = tracker[q]
      BY <1>3, TrackAtHolds DEF Track
    <2>3. HeldIsSound(p)'
      BY <2>1, <2>2 DEF HeldIsSound
    <2>4. ASSUME NEW q \in Trackers, q # p PROVE HeldIsSound(q)'
      BY <2>1, <2>2, <2>4, HeldAlone, NothingHeld
    <2>5. \A q \in Trackers : HeldIsSound(q)'
      BY <2>3, <2>4
    <2> QED BY <1>0, <2>1, <2>2, <2>5 DEF UsageInv
  <1>4. ASSUME NEW p \in Trackers, Record(p)
        PROVE  UsageInv'
    <2>1. /\ UNCHANGED <<day, usage, usageLock, counted, activeDays, rewound>>
          /\ tracker[p].at = "load" /\ usageLock = p
      BY <1>0, <1>4 DEF Record, HeldIsSound
    <2>2. PICK install \in BOOLEAN : TrackAt(p, "save", Recorded(usage, install))
      BY <1>4 DEF Record
    <2>3. /\ DOMAIN tracker' = Trackers /\ tracker'[p].at = "save"
          /\ tracker'[p].stats = Recorded(usage, install)
          /\ \A q \in Trackers : q # p => tracker'[q] = tracker[q]
      BY <2>2, TrackAtHolds
    <2>4. PICK stats : stats = Recorded(usage, install)
      OBVIOUS
    <2>5. stats \in Statistics /\ stats.lastDay = day
      BY <1>0, <2>4, RecordedFields
    <2>6. CountsAdd(stats, counted + 1)
      BY <1>0, <2>4, RecordedCounts
    <2>7. ~rewound /\ usage.lastDay <= stats.lastDay =>
            StreaksFit(stats, activeDays \cup {stats.lastDay})
      BY <1>0, <2>4, <2>5, RecordedStreaks
    <2>8. HeldIsSound(p)'
      BY <1>0, <2>1, <2>3, <2>4, <2>5, <2>6, <2>7 DEF HeldIsSound
    <2>9. ASSUME NEW q \in Trackers, q # p PROVE HeldIsSound(q)'
      BY <2>1, <2>3, <2>9, HeldAlone, NothingHeld
    <2>10. \A q \in Trackers : HeldIsSound(q)'
      BY <2>8, <2>9
    <2> QED BY <1>0, <2>1, <2>3, <2>10 DEF UsageInv
  <1>5. ASSUME NEW p \in Trackers, SaveUsage(p)
        PROVE  UsageInv'
    <2>1. /\ UNCHANGED day /\ usageLock = p /\ tracker[p].at = "save"
          /\ usage' = tracker[p].stats /\ counted' = counted + 1
          /\ activeDays' = activeDays \cup {tracker[p].stats.lastDay}
          /\ rewound' = (rewound \/ tracker[p].stats.lastDay < usage.lastDay)
      BY <1>0, <1>5 DEF SaveUsage, HeldIsSound
    <2>2. /\ DOMAIN tracker' = Trackers /\ tracker'[p].at = "idle"
          /\ \A q \in Trackers : q # p => tracker'[q] = tracker[q]
      BY <1>5, TrackAtHolds DEF SaveUsage, TrackingEnds
    <2>3. /\ usage' \in Statistics /\ CountsAdd(usage', counted')
          /\ ~rewound' => StreaksFit(usage', activeDays')
      <3>1. PICK stats : stats = tracker[p].stats
        OBVIOUS
      <3>2. /\ stats \in Statistics /\ CountsAdd(stats, counted + 1)
            /\ ~rewound /\ usage.lastDay <= stats.lastDay =>
                 StreaksFit(stats, activeDays \cup {stats.lastDay})
        BY <1>0, <2>1, <3>1 DEF HeldIsSound
      <3>3. stats.lastDay \in Nat
        BY <3>2 DEF Statistics
      <3>4. rewound' = (rewound \/ stats.lastDay < usage.lastDay)
        BY <2>1, <3>1
      <3>5. ~rewound' => ~rewound /\ ~(stats.lastDay < usage.lastDay)
        BY <3>4, Zenon
      <3>6. ~(stats.lastDay < usage.lastDay) => usage.lastDay <= stats.lastDay
        BY <1>0, <3>3
      <3>7. ~rewound' => StreaksFit(stats, activeDays \cup {stats.lastDay})
        BY <3>2, <3>5, <3>6, Zenon
      <3> QED BY <2>1, <3>1, <3>2, <3>7
    <2>4. ASSUME NEW q \in Trackers PROVE HeldIsSound(q)'
      BY <2>1, <2>2, <2>4, HeldAlone, NothingHeld
    <2> QED BY <1>0, <2>1, <2>2, <2>3, <2>4 DEF UsageInv
  <1>6. ASSUME NEW p \in Trackers, Post(p)
        PROVE  UsageInv'
    <2>1. UNCHANGED <<day, usage, usageLock, counted, activeDays, rewound>>
      BY <1>6 DEF Post
    <2>2. /\ DOMAIN tracker' = Trackers /\ tracker'[p].at = "posted"
          /\ \A q \in Trackers : q # p => tracker'[q] = tracker[q]
      BY <1>6, TrackAtHolds DEF Post
    <2>3. HeldIsSound(p)'
      BY <2>2, NothingHeld
    <2>4. ASSUME NEW q \in Trackers, q # p PROVE HeldIsSound(q)'
      BY <1>0, <2>1, <2>2, <2>4 DEF HeldIsSound
    <2>5. \A q \in Trackers : HeldIsSound(q)'
      BY <2>3, <2>4
    <2> QED BY <1>0, <2>1, <2>2, <2>5 DEF UsageInv
  <1>7. ASSUME NEW p \in Trackers, LoadToNote(p)
        PROVE  UsageInv'
    <2>1. UNCHANGED <<day, usage, counted, activeDays, rewound>> /\ usageLock' = p /\ usageLock = NoTracker
      BY <1>7 DEF LoadToNote
    <2>2. /\ DOMAIN tracker' = Trackers /\ tracker'[p].at = "note"
          /\ tracker'[p].stats = [usage EXCEPT !.lastSync = day]
          /\ \A q \in Trackers : q # p => tracker'[q] = tracker[q]
      BY <1>7, TrackAtHolds DEF LoadToNote
    <2>3. PICK stats : stats = [usage EXCEPT !.lastSync = day]
      OBVIOUS
    <2>4. /\ stats \in Statistics /\ stats.lastDay = usage.lastDay
          /\ CountsAdd(stats, counted) /\ (~rewound => StreaksFit(stats, activeDays))
      BY <1>0, <2>3, NotedFits
    <2>5. HeldIsSound(p)'
      BY <1>0, <2>1, <2>2, <2>3, <2>4 DEF HeldIsSound
    <2>6. ASSUME NEW q \in Trackers, q # p PROVE HeldIsSound(q)'
      BY <2>1, <2>2, <2>6, HeldAlone, NothingHeld
    <2>7. \A q \in Trackers : HeldIsSound(q)'
      BY <2>5, <2>6
    <2> QED BY <1>0, <2>1, <2>2, <2>7 DEF UsageInv
  <1>8. ASSUME NEW p \in Trackers, NotePost(p)
        PROVE  UsageInv'
    <2>1. /\ UNCHANGED <<day, counted, activeDays, rewound>> /\ usageLock = p /\ tracker[p].at = "note"
          /\ usage' = tracker[p].stats
      BY <1>0, <1>8 DEF NotePost, HeldIsSound
    <2>2. /\ DOMAIN tracker' = Trackers /\ tracker'[p].at = "idle"
          /\ \A q \in Trackers : q # p => tracker'[q] = tracker[q]
      BY <1>8, TrackAtHolds DEF NotePost, TrackingEnds
    <2>3. /\ usage' \in Statistics /\ CountsAdd(usage', counted')
          /\ ~rewound' => StreaksFit(usage', activeDays')
      BY <1>0, <2>1 DEF HeldIsSound
    <2>4. ASSUME NEW q \in Trackers PROVE HeldIsSound(q)'
      BY <2>1, <2>2, <2>4, HeldAlone, NothingHeld
    <2> QED BY <1>0, <2>1, <2>2, <2>3, <2>4 DEF UsageInv
  <1>9. ASSUME NEW p \in Trackers, TrackerStops(p)
        PROVE  UsageInv'
    <2>1. UNCHANGED <<day, usage, counted, activeDays, rewound>>
      BY <1>9 DEF TrackerStops
    <2>2. /\ DOMAIN tracker' = Trackers /\ tracker'[p].at = "idle"
          /\ \A q \in Trackers : q # p => tracker'[q] = tracker[q]
          /\ usageLock' = IF usageLock = p THEN NoTracker ELSE usageLock
      BY <1>9, TrackAtHolds DEF TrackerStops, TrackingEnds
    <2>3. HeldIsSound(p)'
      BY <2>2, NothingHeld
    <2>4. ASSUME NEW q \in Trackers, q # p PROVE HeldIsSound(q)'
      <3>1. tracker[q].at \in {"load", "save", "note"} => usageLock' = q
        BY <1>0, <2>2, <2>4 DEF HeldIsSound
      <3> QED BY <1>0, <2>1, <2>2, <2>4, <3>1 DEF HeldIsSound
    <2>5. \A q \in Trackers : HeldIsSound(q)'
      BY <2>3, <2>4
    <2> QED BY <1>0, <2>1, <2>2, <2>5 DEF UsageInv
  <1> QED BY <1>1, <1>2, <1>3, <1>4, <1>5, <1>6, <1>7, <1>8, <1>9 DEF
     UsageNext

\* The statistics are those of the saved commands, and what a process writes
\* under usage.lock was read under it.
THEOREM UsageInvariant == UsageSpec => []UsageInv
  <1>1. UsageInit => UsageInv
    <2> SUFFICES ASSUME UsageInit PROVE UsageInv
      OBVIOUS
    <2> USE UsageConstants
    <2>1. /\ day = 1 /\ usage = NoUsage /\ counted = 0 /\ activeDays = {}
          /\ tracker = [p \in Trackers |-> [at |-> "idle", stats |-> NoUsage]]
      BY DEF UsageInit
    <2>2. NoUsage \in Statistics
      BY DEF NoUsage, Statistics, Months
    <2>3. CountsAdd(usage, counted)
      BY <2>1 DEF CountsAdd, NoUsage
    <2>4. StreaksFit(usage, activeDays)
      BY <2>1 DEF StreaksFit, NoUsage
    <2> QED BY <2>1, <2>2, <2>3, <2>4 DEF UsageInv, HeldIsSound
  <1> QED BY <1>1, UsageStep, PTL DEF UsageSpec

\* No concurrent command and no late answer to a post takes a saved command out
\* of the statistics, and the counters fit into each other (with_usage_lock,
\* update_locked, rollover_for).
THEOREM CommandsCounted == UsageSpec => []EveryCommandCounted
  <1>1. UsageInv => EveryCommandCounted
    BY DEF UsageInv, CountsAdd, EveryCommandCounted
  <1> QED BY <1>1, UsageInvariant, PTL

\* A run of days, with and without its bounds.
LEMMA RunIsWithin ==
  ASSUME NEW from \in Nat, NEW to \in Nat
  PROVE  RunOfDays(from, to) <=> Within(from, to, activeDays)
  BY DEF RunOfDays, Within

\* After every record_command_on, across midnights, pauses and processes that die:
\* the streaks are runs of active days unless the dates of the saved commands have
\* gone back, and no longer than the number of commands whatever the date did.
THEOREM StreaksStayRuns == UsageSpec => []StreaksAreRuns
  <1>1. UsageInv => StreaksAreRuns
    <2> SUFFICES ASSUME UsageInv, usage.total > 0 PROVE StreaksAreRuns
      BY DEF StreaksAreRuns
    <2> USE UsageConstants
    <2>1. /\ usage.total \in Nat /\ usage.lastDay \in Nat /\ usage.longest \in Nat
          /\ usage.streak \in Nat
      BY DEF UsageInv, Statistics
    <2>0. 1 <= usage.streak /\ usage.streak <= usage.longest /\ usage.longest <= usage.total
      BY <2>1 DEF UsageInv, CountsAdd
    <2> SUFFICES ASSUME ~rewound PROVE StreaksAreRuns
      BY <2>0 DEF StreaksAreRuns
    <2>2. /\ usage.streak \in 1..usage.lastDay /\ usage.streak <= usage.longest
          /\ \A n \in 1..usage.lastDay :
               Within(usage.lastDay - n + 1, usage.lastDay, activeDays) <=> n <= usage.streak
          /\ \A from, to \in 1..MaxDay :
               from <= to /\ Within(from, to, activeDays) => to - from + 1 <= usage.longest
          /\ \E from \in 1..MaxDay : Within(from, from + usage.longest - 1, activeDays)
      BY <2>1 DEF UsageInv, StreaksFit
    <2>3. ASSUME NEW n \in 1..usage.lastDay
          PROVE  RunOfDays(usage.lastDay - n + 1, usage.lastDay) <=> n <= usage.streak
      <3>1. usage.lastDay - n + 1 \in Nat
        BY <2>1
      <3> QED BY <2>1, <2>2, <3>1, RunIsWithin
    <2>4. ASSUME NEW from \in 1..MaxDay, NEW to \in 1..MaxDay, from <= to, RunOfDays(from, to)
          PROVE  to - from + 1 <= usage.longest
      BY <2>2, <2>4, RunIsWithin
    <2>5. \E from \in 1..MaxDay : RunOfDays(from, from + usage.longest - 1)
      <3>1. PICK from \in 1..MaxDay : Within(from, from + usage.longest - 1, activeDays)
        BY <2>2
      <3>2. from \in Nat /\ from + usage.longest - 1 \in Nat
        BY <2>1, <2>2
      <3> QED BY <3>1, <3>2, RunIsWithin
    <2> QED BY <2>0, <2>3, <2>4, <2>5 DEF StreaksAreRuns
  <1> QED BY <1>1, UsageInvariant, PTL

-----------------------------------------------------------------------------
(* Self-update.                                                            *)

Updating == {"copy", "stage", "replace", "recover"}

\* Whoever works on the pair holds the lock and has not been answered; a free
\* lock means that the last holder has.
UpdateLocked ==
  /\ \A p \in Updaters : updateLock = p <=> updater[p].at \in Updating
  /\ \A p \in Updaters : updater[p].at \in Updating => owner = p /\ answer = "none"
  /\ updateLock = Missing => owner = Missing \/ answer # "none"

\* The binaries and the copies at each control point.
UpdateProgress ==
  \A p \in Updaters :
    LET b == updater[p].binary IN
    /\ updater[p].at = "copy" =>
         b \in Pair /\ binary = found /\ \A i \in Pair : i < b => copy[p][i] = found[i]
    /\ updater[p].at = "stage" => binary = found /\ copy[p] = found
    /\ updater[p].at = "replace" =>
         /\ b \in 1..3 /\ copy[p] = found
         /\ \A i \in Pair : binary[i] = IF i < b THEN p ELSE found[i]
    /\ updater[p].at = "recover" =>
         /\ b \in 1..3
         /\ \A i \in Pair : i >= b => copy[p][i] = found[i]
         /\ \A i \in Pair : i < b =>
              binary[i] = found[i] \/ (trouble[p] /\ copy[p][i] = found[i])

\* A process finds no binary of its own.
UpdateFresh ==
  /\ \A p \in Updaters : updater[p].at \in Updating => \A b \in Pair : found[b] # p
  /\ \A p, q \in Updaters : updater[p].at = "idle" =>
       \A b \in Pair : binary[b] # p /\ copy[q][b] # p

UpdateInv ==
  UpdateTypeOK /\ UpdateLocked /\ UpdateProgress /\ UpdateFresh /\ OldPairRecoverable

-----------------------------------------------------------------------------
(* The sync of the databases.                                              *)

Syncing == {"backup", "publish", "sync", "clean", "withdraw", "restore"}

\* Whoever publishes holds db.lck and has not been answered; whoever has not
\* been answered publishes.
SyncLocked ==
  /\ \A p \in Syncers : syncer[p].at \in Syncing => dbLock = p /\ writer = p /\ told = "none"
  /\ \A p \in Syncers : syncer[p].at \in {"idle", "downloaded"} => dbLock # p /\ writer # p
  /\ writer = Absent \/ told # "none" \/ syncer[writer].at \in Syncing

\* The live files are linked one by one; nothing has changed.
BackingUp(p, n) ==
  /\ n \in 1..(LastFile + 1) /\ live = before /\ placed[p] = {}
  /\ \A f \in DbFiles :
       backup[p][f] = IF f < n /\ f \in wanted[p] THEN before[f] ELSE Absent

\* The first n - 1 files are replaced, and all that are to be have a backup.
Publishing(p, n) ==
  /\ n \in 1..(LastFile + 1)
  /\ \A f \in DbFiles :
       /\ f \in placed[p] <=> f < n
       /\ backup[p][f] = IF f \in wanted[p] THEN before[f] ELSE Absent
       /\ live[f] = IF f < n /\ f \in wanted[p] THEN p ELSE before[f]

\* File f as the publication of p left it, before the roll back comes to it.
Pending(p, f) ==
  /\ backup[p][f] \in {Absent, before[f]}
  /\ IF f \in placed[p] \cap wanted[p] THEN backup[p][f] = before[f] ELSE live[f] = before[f]

\* File f after the roll back: as it was found, or the roll back failed and
\* the predecessor is still in the staging directory.
Settled(p, f) ==
  live[f] = before[f] \/ (failed[p] /\ before[f] \in {Absent, backup[p][f]})

\* The roll back has come down to file n.
Withdrawing(p, n) ==
  /\ n \in 0..LastFile
  /\ \A f \in DbFiles : IF f > n THEN Settled(p, f) ELSE Pending(p, f)

\* The new file n is withdrawn, its predecessor not restored yet.
Restoring(p, n) ==
  /\ n \in DbFiles /\ backup[p][n] \in {Absent, before[n]}
  /\ backup[p][n] = Absent => Settled(p, n)
  /\ \A f \in DbFiles : (f > n => Settled(p, f)) /\ (f < n => Pending(p, f))

\* The files and the backups at each control point.
ProgressOf(p) ==
  /\ syncer[p].at = "backup" => BackingUp(p, syncer[p].file)
  /\ syncer[p].at = "publish" => Publishing(p, syncer[p].file)
  /\ syncer[p].at \in {"sync", "clean"} => Publishing(p, LastFile + 1)
  /\ syncer[p].at = "withdraw" => Withdrawing(p, syncer[p].file)
  /\ syncer[p].at = "restore" => Restoring(p, syncer[p].file)

SyncProgress == \A p \in Syncers : ProgressOf(p)

\* A process finds no file of its own, and always publishes a database.
SyncFresh ==
  \A p \in Syncers :
    /\ syncer[p].at \in Syncing => \A f \in DbFiles : before[f] # p
    /\ syncer[p].at \in Syncing \cup {"downloaded"} => 1 \in wanted[p]
    /\ syncer[p].at \in {"idle", "downloaded"} =>
         /\ placed[p] = {} /\ \A f \in DbFiles : live[f] # p /\ backup[p][f] = Absent
         /\ \A q \in Syncers : \A f \in DbFiles : backup[q][f] # p

\* Whatever the answer was, the files are as the publication left them.
SyncAnswered == told # "none" => OldSetRecoverable

SyncInv == SyncTypeOK /\ SyncLocked /\ SyncProgress /\ SyncFresh /\ SyncAnswered

-----------------------------------------------------------------------------
(* Self-update keeps its invariant.                                        *)

LEMMA UpdateInitially == UpdateInit => UpdateInv
  <1> SUFFICES ASSUME UpdateInit PROVE UpdateInv
    OBVIOUS
  <1> USE UpdateConstants DEF UpdateInit
  <1>1. UpdateTypeOK
    BY DEF UpdateTypeOK, Pair, BinaryVersions, NoCopies, UpdatePoints
  <1>2. UpdateLocked /\ UpdateProgress
    BY DEF UpdateLocked, UpdateProgress, Updating
  <1>3. UpdateFresh
    BY DEF UpdateFresh, Updating, NoCopies, Pair
  <1>4. OldPairRecoverable
    BY DEF OldPairRecoverable
  <1> QED BY <1>1, <1>2, <1>3, <1>4 DEF UpdateInv

\* The process at work is the only one, and holds the lock.
LEMMA UpdateAlone ==
  ASSUME UpdateInv, NEW p \in Updaters, updater[p].at \in Updating
  PROVE  /\ updateLock = p /\ owner = p /\ answer = "none"
         /\ \A q \in Updaters : updater[q].at \in Updating => q = p
  BY DEF UpdateInv, UpdateLocked

\* One case per step of install_update_pair_with.
LEMMA UpdateStep ==
  ASSUME UpdateInv, NEW p \in Updaters,
         \/ LockUpdate(p) \/ GiveUpUpdate(p) \/ CopyOld(p) \/ StageNew(p)
         \/ ReplaceBinary(p) \/ ReplaceFails(p) \/ Updated(p)
         \/ RecoverBinary(p) \/ Recovered(p) \/ UpdateKilled(p)
  PROVE  UpdateInv'
  <1> USE UpdateConstants
  <1>1. CASE LockUpdate(p)
    <2>0. /\ updateLock = Missing /\ updater[p].at = "idle"
          /\ \A q \in Updaters : updater[q].at \notin Updating
      BY <1>1 DEF LockUpdate, Working, UpdateInv, UpdateLocked
    <2>1. UpdateTypeOK'
      BY <1>1, <2>0 DEF LockUpdate, Working, Turn, Unlocked, Updating,
         UpdateInv, UpdateTypeOK, UpdatePoints, UpdateProgress, Pair,
         BinaryVersions, NoCopies
    <2>2. UpdateLocked'
      BY <1>1, <2>0 DEF LockUpdate, Working, Turn, Unlocked, Updating,
         UpdateInv, UpdateTypeOK, UpdateLocked
    <2>3. UpdateProgress'
      BY <1>1, <2>0 DEF LockUpdate, Working, Turn, Unlocked, Updating,
         UpdateInv, UpdateTypeOK, UpdateProgress, Pair, NoCopies
    <2>4. UpdateFresh'
      BY <1>1, <2>0 DEF LockUpdate, Working, Turn, Unlocked, Updating,
         UpdateInv, UpdateTypeOK, UpdateProgress, UpdateFresh, NoCopies, Pair
    <2>5. OldPairRecoverable'
      BY <1>1, <2>0 DEF LockUpdate, Working, Turn, Unlocked, Updating,
         UpdateInv, UpdateTypeOK, UpdateProgress, OldPairRecoverable, Pair,
         NoCopies
    <2> QED BY <2>1, <2>2, <2>3, <2>4, <2>5 DEF UpdateInv
  <1>2. CASE GiveUpUpdate(p)
    <2>0. /\ updateLock = p /\ owner = p /\ answer = "none" /\ updater[p].at \in Updating
          /\ \A q \in Updaters : q # p => updater[q].at \notin Updating
      BY <1>2, UpdateAlone DEF GiveUpUpdate, Working, Updating
    <2>1. UpdateTypeOK'
      BY <1>2, <2>0 DEF GiveUpUpdate, Working, Turn, Unlocked, Updating,
         UpdateInv, UpdateTypeOK, UpdatePoints, UpdateProgress, Pair,
         BinaryVersions, NoCopies
    <2>2. UpdateLocked'
      BY <1>2, <2>0 DEF GiveUpUpdate, Working, Turn, Unlocked, Updating,
         UpdateInv, UpdateTypeOK, UpdateLocked
    <2>3. UpdateProgress'
      BY <1>2, <2>0 DEF GiveUpUpdate, Working, Turn, Unlocked, Updating,
         UpdateInv, UpdateTypeOK, UpdateProgress, Pair, NoCopies
    <2>4. UpdateFresh'
      BY <1>2, <2>0 DEF GiveUpUpdate, Working, Turn, Unlocked, Updating,
         UpdateInv, UpdateTypeOK, UpdateProgress, UpdateFresh, NoCopies, Pair
    <2>5. OldPairRecoverable'
      BY <1>2, <2>0 DEF GiveUpUpdate, Working, Turn, Unlocked, Updating,
         UpdateInv, UpdateTypeOK, UpdateProgress, OldPairRecoverable, Pair,
         NoCopies
    <2> QED BY <2>1, <2>2, <2>3, <2>4, <2>5 DEF UpdateInv
  <1>3. CASE CopyOld(p)
    <2>0. /\ updateLock = p /\ owner = p /\ answer = "none" /\ updater[p].at \in Updating
          /\ \A q \in Updaters : q # p => updater[q].at \notin Updating
      BY <1>3, UpdateAlone DEF CopyOld, Working, Updating
    <2>1. UpdateTypeOK'
      BY <1>3, <2>0 DEF CopyOld, Working, Turn, Unlocked, Updating,
         UpdateInv, UpdateTypeOK, UpdatePoints, UpdateProgress, Pair,
         BinaryVersions, NoCopies
    <2>2. UpdateLocked'
      BY <1>3, <2>0 DEF CopyOld, Working, Turn, Unlocked, Updating,
         UpdateInv, UpdateTypeOK, UpdateLocked
    <2>3. UpdateProgress'
      BY <1>3, <2>0 DEF CopyOld, Working, Turn, Unlocked, Updating,
         UpdateInv, UpdateTypeOK, UpdateProgress, Pair, NoCopies
    <2>4. UpdateFresh'
      BY <1>3, <2>0 DEF CopyOld, Working, Turn, Unlocked, Updating,
         UpdateInv, UpdateTypeOK, UpdateProgress, UpdateFresh, NoCopies, Pair
    <2>5. OldPairRecoverable'
      BY <1>3, <2>0 DEF CopyOld, Working, Turn, Unlocked, Updating,
         UpdateInv, UpdateTypeOK, UpdateProgress, OldPairRecoverable, Pair,
         NoCopies
    <2> QED BY <2>1, <2>2, <2>3, <2>4, <2>5 DEF UpdateInv
  <1>4. CASE StageNew(p)
    <2>0. /\ updateLock = p /\ owner = p /\ answer = "none" /\ updater[p].at \in Updating
          /\ \A q \in Updaters : q # p => updater[q].at \notin Updating
      BY <1>4, UpdateAlone DEF StageNew, Working, Updating
    <2>1. UpdateTypeOK'
      BY <1>4, <2>0 DEF StageNew, Working, Turn, Unlocked, Updating,
         UpdateInv, UpdateTypeOK, UpdatePoints, UpdateProgress, Pair,
         BinaryVersions, NoCopies
    <2>2. UpdateLocked'
      BY <1>4, <2>0 DEF StageNew, Working, Turn, Unlocked, Updating,
         UpdateInv, UpdateTypeOK, UpdateLocked
    <2>3. UpdateProgress'
      BY <1>4, <2>0 DEF StageNew, Working, Turn, Unlocked, Updating,
         UpdateInv, UpdateTypeOK, UpdateProgress, Pair, NoCopies
    <2>4. UpdateFresh'
      BY <1>4, <2>0 DEF StageNew, Working, Turn, Unlocked, Updating,
         UpdateInv, UpdateTypeOK, UpdateProgress, UpdateFresh, NoCopies, Pair
    <2>5. OldPairRecoverable'
      BY <1>4, <2>0 DEF StageNew, Working, Turn, Unlocked, Updating,
         UpdateInv, UpdateTypeOK, UpdateProgress, OldPairRecoverable, Pair,
         NoCopies
    <2> QED BY <2>1, <2>2, <2>3, <2>4, <2>5 DEF UpdateInv
  <1>5. CASE ReplaceBinary(p)
    <2>0. /\ updateLock = p /\ owner = p /\ answer = "none" /\ updater[p].at \in Updating
          /\ \A q \in Updaters : q # p => updater[q].at \notin Updating
      BY <1>5, UpdateAlone DEF ReplaceBinary, Working, Updating
    <2>1. UpdateTypeOK'
      BY <1>5, <2>0 DEF ReplaceBinary, Working, Turn, Unlocked, Updating,
         UpdateInv, UpdateTypeOK, UpdatePoints, UpdateProgress, Pair,
         BinaryVersions, NoCopies
    <2>2. UpdateLocked'
      BY <1>5, <2>0 DEF ReplaceBinary, Working, Turn, Unlocked, Updating,
         UpdateInv, UpdateTypeOK, UpdateLocked
    <2>3. UpdateProgress'
      BY <1>5, <2>0 DEF ReplaceBinary, Working, Turn, Unlocked, Updating,
         UpdateInv, UpdateTypeOK, UpdateProgress, Pair, NoCopies
    <2>4. UpdateFresh'
      BY <1>5, <2>0 DEF ReplaceBinary, Working, Turn, Unlocked, Updating,
         UpdateInv, UpdateTypeOK, UpdateProgress, UpdateFresh, NoCopies, Pair
    <2>5. OldPairRecoverable'
      BY <1>5, <2>0 DEF ReplaceBinary, Working, Turn, Unlocked, Updating,
         UpdateInv, UpdateTypeOK, UpdateProgress, OldPairRecoverable, Pair,
         NoCopies
    <2> QED BY <2>1, <2>2, <2>3, <2>4, <2>5 DEF UpdateInv
  <1>6. CASE ReplaceFails(p)
    <2>0. /\ updateLock = p /\ owner = p /\ answer = "none" /\ updater[p].at \in Updating
          /\ \A q \in Updaters : q # p => updater[q].at \notin Updating
      BY <1>6, UpdateAlone DEF ReplaceFails, Working, Updating
    <2>1. UpdateTypeOK'
      BY <1>6, <2>0 DEF ReplaceFails, Working, Turn, Unlocked, Updating,
         UpdateInv, UpdateTypeOK, UpdatePoints, UpdateProgress, Pair,
         BinaryVersions, NoCopies
    <2>2. UpdateLocked'
      BY <1>6, <2>0 DEF ReplaceFails, Working, Turn, Unlocked, Updating,
         UpdateInv, UpdateTypeOK, UpdateLocked
    <2>3. UpdateProgress'
      BY <1>6, <2>0 DEF ReplaceFails, Working, Turn, Unlocked, Updating,
         UpdateInv, UpdateTypeOK, UpdateProgress, Pair, NoCopies
    <2>4. UpdateFresh'
      BY <1>6, <2>0 DEF ReplaceFails, Working, Turn, Unlocked, Updating,
         UpdateInv, UpdateTypeOK, UpdateProgress, UpdateFresh, NoCopies, Pair
    <2>5. OldPairRecoverable'
      BY <1>6, <2>0 DEF ReplaceFails, Working, Turn, Unlocked, Updating,
         UpdateInv, UpdateTypeOK, UpdateProgress, OldPairRecoverable, Pair,
         NoCopies
    <2> QED BY <2>1, <2>2, <2>3, <2>4, <2>5 DEF UpdateInv
  <1>7. CASE Updated(p)
    <2>0. /\ updateLock = p /\ owner = p /\ answer = "none" /\ updater[p].at \in Updating
          /\ \A q \in Updaters : q # p => updater[q].at \notin Updating
      BY <1>7, UpdateAlone DEF Updated, Working, Updating
    <2>1. UpdateTypeOK'
      BY <1>7, <2>0 DEF Updated, Working, Turn, Unlocked, Updating,
         UpdateInv, UpdateTypeOK, UpdatePoints, UpdateProgress, Pair,
         BinaryVersions, NoCopies
    <2>2. UpdateLocked'
      BY <1>7, <2>0 DEF Updated, Working, Turn, Unlocked, Updating,
         UpdateInv, UpdateTypeOK, UpdateLocked
    <2>3. UpdateProgress'
      BY <1>7, <2>0 DEF Updated, Working, Turn, Unlocked, Updating,
         UpdateInv, UpdateTypeOK, UpdateProgress, Pair, NoCopies
    <2>4. UpdateFresh'
      BY <1>7, <2>0 DEF Updated, Working, Turn, Unlocked, Updating,
         UpdateInv, UpdateTypeOK, UpdateProgress, UpdateFresh, NoCopies, Pair
    <2>5. OldPairRecoverable'
      BY <1>7, <2>0 DEF Updated, Working, Turn, Unlocked, Updating,
         UpdateInv, UpdateTypeOK, UpdateProgress, OldPairRecoverable, Pair,
         NoCopies
    <2> QED BY <2>1, <2>2, <2>3, <2>4, <2>5 DEF UpdateInv
  <1>8. CASE RecoverBinary(p)
    <2>0. /\ updateLock = p /\ owner = p /\ answer = "none" /\ updater[p].at \in Updating
          /\ \A q \in Updaters : q # p => updater[q].at \notin Updating
      BY <1>8, UpdateAlone DEF RecoverBinary, Working, Updating
    <2>1. UpdateTypeOK'
      <3>1. /\ updater[p].binary \in Pair /\ updater[p].binary + 1 \in 0..3
            /\ copy[p][updater[p].binary] \in BinaryVersions /\ Missing \in BinaryVersions
        BY <1>8 DEF RecoverBinary, Working, UpdateInv, UpdateTypeOK,
           UpdateProgress, Pair, BinaryVersions
      <3>2. binary' \in [Pair -> BinaryVersions]
        BY <1>8, <3>1 DEF RecoverBinary, UpdateInv, UpdateTypeOK
      <3>3. copy' \in [Updaters -> [Pair -> BinaryVersions]]
        <4>1. [copy[p] EXCEPT ![updater[p].binary] = Missing] \in [Pair -> BinaryVersions]
          BY <3>1 DEF UpdateInv, UpdateTypeOK
        <4>2. copy' = copy \/ copy' = [copy EXCEPT ![p] = [copy[p] EXCEPT ![updater[p].binary] = Missing]]
          BY <1>8 DEF RecoverBinary
        <4> QED BY <4>1, <4>2 DEF UpdateInv, UpdateTypeOK
      <3>4. updater' \in [Updaters -> [at : UpdatePoints, binary : 0..3]]
        BY <1>8, <3>1 DEF RecoverBinary, Turn, UpdateInv, UpdateTypeOK,
           UpdatePoints
      <3>5. trouble' \in [Updaters -> BOOLEAN]
        BY <1>8 DEF RecoverBinary, UpdateInv, UpdateTypeOK
      <3> QED
        BY <1>8, <3>2, <3>3, <3>4, <3>5 DEF RecoverBinary, UpdateInv,
           UpdateTypeOK
    <2>2. UpdateLocked'
      BY <1>8, <2>0 DEF RecoverBinary, Working, Turn, Unlocked, Updating,
         UpdateInv, UpdateTypeOK, UpdateLocked
    <2>3. UpdateProgress'
      BY <1>8, <2>0 DEF RecoverBinary, Working, Turn, Unlocked, Updating,
         UpdateInv, UpdateTypeOK, UpdateProgress, Pair, NoCopies
    <2>4. UpdateFresh'
      BY <1>8, <2>0 DEF RecoverBinary, Working, Turn, Unlocked, Updating,
         UpdateInv, UpdateTypeOK, UpdateProgress, UpdateFresh, NoCopies, Pair
    <2>5. OldPairRecoverable'
      BY <1>8, <2>0 DEF RecoverBinary, Working, Turn, Unlocked, Updating,
         UpdateInv, UpdateTypeOK, UpdateProgress, OldPairRecoverable, Pair,
         NoCopies
    <2> QED BY <2>1, <2>2, <2>3, <2>4, <2>5 DEF UpdateInv
  <1>9. CASE Recovered(p)
    <2>0. /\ updateLock = p /\ owner = p /\ answer = "none" /\ updater[p].at \in Updating
          /\ \A q \in Updaters : q # p => updater[q].at \notin Updating
      BY <1>9, UpdateAlone DEF Recovered, Working, Updating
    <2>1. UpdateTypeOK'
      BY <1>9, <2>0 DEF Recovered, Working, Turn, Unlocked, Updating,
         UpdateInv, UpdateTypeOK, UpdatePoints, UpdateProgress, Pair,
         BinaryVersions, NoCopies
    <2>2. UpdateLocked'
      BY <1>9, <2>0 DEF Recovered, Working, Turn, Unlocked, Updating,
         UpdateInv, UpdateTypeOK, UpdateLocked
    <2>3. UpdateProgress'
      BY <1>9, <2>0 DEF Recovered, Working, Turn, Unlocked, Updating,
         UpdateInv, UpdateTypeOK, UpdateProgress, Pair, NoCopies
    <2>4. UpdateFresh'
      BY <1>9, <2>0 DEF Recovered, Working, Turn, Unlocked, Updating,
         UpdateInv, UpdateTypeOK, UpdateProgress, UpdateFresh, NoCopies, Pair
    <2>5. OldPairRecoverable'
      BY <1>9, <2>0 DEF Recovered, Working, Turn, Unlocked, Updating,
         UpdateInv, UpdateTypeOK, UpdateProgress, OldPairRecoverable, Pair,
         NoCopies
    <2> QED BY <2>1, <2>2, <2>3, <2>4, <2>5 DEF UpdateInv
  <1>10. CASE UpdateKilled(p)
    <2>0. /\ updateLock = p /\ owner = p /\ answer = "none" /\ updater[p].at \in Updating
          /\ \A q \in Updaters : q # p => updater[q].at \notin Updating
      BY <1>10, UpdateAlone DEF UpdateKilled, Working, Updating, UpdateInv,
         UpdateTypeOK, UpdatePoints
    <2>1. UpdateTypeOK'
      BY <1>10, <2>0 DEF UpdateKilled, Working, Turn, Unlocked, Updating,
         UpdateInv, UpdateTypeOK, UpdatePoints, UpdateProgress, Pair,
         BinaryVersions, NoCopies
    <2>2. UpdateLocked'
      BY <1>10, <2>0 DEF UpdateKilled, Working, Turn, Unlocked, Updating,
         UpdateInv, UpdateTypeOK, UpdateLocked
    <2>3. UpdateProgress'
      BY <1>10, <2>0 DEF UpdateKilled, Working, Turn, Unlocked, Updating,
         UpdateInv, UpdateTypeOK, UpdateProgress, Pair, NoCopies
    <2>4. UpdateFresh'
      BY <1>10, <2>0 DEF UpdateKilled, Working, Turn, Unlocked, Updating,
         UpdateInv, UpdateTypeOK, UpdateProgress, UpdateFresh, NoCopies, Pair
    <2>5. OldPairRecoverable'
      BY <1>10, <2>0 DEF UpdateKilled, Working, Turn, Unlocked, Updating,
         UpdateInv, UpdateTypeOK, UpdateProgress, OldPairRecoverable, Pair,
         NoCopies
    <2> QED BY <2>1, <2>2, <2>3, <2>4, <2>5 DEF UpdateInv
  <1> QED
    BY <1>1, <1>2, <1>3, <1>4, <1>5, <1>6, <1>7, <1>8, <1>9, <1>10

\* The invariant holds throughout.
THEOREM UpdateInvariant == UpdateSpec => []UpdateInv
  <1>1. UpdateInv /\ UNCHANGED updateVars => UpdateInv'
    BY DEF updateVars, UpdateInv, UpdateTypeOK, UpdateLocked, UpdateProgress,
       UpdateFresh, OldPairRecoverable
  <1>2. UpdateInv /\ [UpdateNext]_updateVars => UpdateInv'
    BY <1>1, UpdateStep DEF UpdateNext
  <1> QED BY <1>2, UpdateInitially, PTL DEF UpdateSpec

\* Until both new binaries are in place the old pair is installed or kept as
\* copies, whatever fails and wherever the process is killed
\* (install_update_pair_with).
THEOREM OldPairStays == UpdateSpec => []OldPairRecoverable
  <1>1. UpdateInv => OldPairRecoverable
    BY DEF UpdateInv
  <1> QED BY <1>1, UpdateInvariant, PTL

\* Every step of self-update is one that AllOrNothing allows, or none.
LEMMA UpdateStepImplements ==
  UpdateInv /\ [UpdateNext]_updateVars => [Update!Next]_<<UpdateState, answer>>
  <1> SUFFICES ASSUME UpdateInv, [UpdateNext]_updateVars
               PROVE  Update!Next \/ UNCHANGED <<UpdateState, answer>>
    OBVIOUS
  <1> USE UpdateConstants
  <1>0. UpdateState' \in Update!States
    BY DEF UpdateState, Update!States
  <1>1. ASSUME NEW p \in Updaters, LockUpdate(p)
        PROVE  Update!Next \/ UNCHANGED <<UpdateState, answer>>
    <2>1. UpdateState' = "before" /\ answer' = "none"
      BY <1>1 DEF LockUpdate, UpdateState
    <2>2. CASE answer # "none"
      BY <2>1, <2>2 DEF Update!Next, Update!Again
    <2>3. CASE answer = "none"
      <3>1. UpdateState = "before"
        BY <1>1, <2>3 DEF LockUpdate, UpdateInv, UpdateLocked, UpdateState
      <3> QED BY <2>1, <2>3, <3>1
    <2> QED BY <2>2, <2>3
  <1>2. ASSUME NEW p \in Updaters,
               CopyOld(p) \/ StageNew(p) \/ ReplaceBinary(p) \/ ReplaceFails(p) \/ RecoverBinary(p)
        PROVE  Update!Next
    <2>1. answer = "none" /\ answer' = answer
      BY <1>2, UpdateAlone DEF CopyOld, StageNew, ReplaceBinary, ReplaceFails,
         RecoverBinary, Working, Updating
    <2> QED BY <1>0, <2>1 DEF Update!Next, Update!Replace
  <1>3. ASSUME NEW p \in Updaters,
               GiveUpUpdate(p) \/ Updated(p) \/ Recovered(p) \/ UpdateKilled(p)
        PROVE  /\ answer = "none" /\ owner = p /\ updater[p].at \in Updating
               /\ UpdateState' = UpdateState
    <2>1. updater[p].at \in Updating
      BY <1>3 DEF GiveUpUpdate, Updated, Recovered, UpdateKilled, Working,
         Updating, UpdateInv, UpdateTypeOK, UpdatePoints
    <2>2. UpdateState' = UpdateState
      BY <1>3 DEF GiveUpUpdate, Updated, Recovered, UpdateKilled, UpdateState
    <2> QED BY <2>1, <2>2, UpdateAlone
  <1>4. ASSUME NEW p \in Updaters, GiveUpUpdate(p) PROVE Update!Next
    <2>1. UpdateState = "before"
      BY <1>4 DEF GiveUpUpdate, UpdateInv, UpdateProgress, UpdateState
    <2>2. answer' = "failed"
      BY <1>4 DEF GiveUpUpdate
    <2> QED BY <1>3, <1>4, <2>1, <2>2 DEF Update!Next, Update!Fail
  <1>5. ASSUME NEW p \in Updaters, Updated(p) PROVE Update!Next
    <2>0. \A b \in Pair : binary[b] = p
      BY <1>5 DEF Updated, Working, UpdateInv, UpdateProgress, Pair
    <2>1. owner = p /\ p # Missing /\ \A b \in Pair : found[b] # p
      BY <1>3, <1>5 DEF UpdateInv, UpdateFresh
    <2>2. 1 \in Pair
      BY DEF Pair
    <2>3. UpdateState = "after"
      BY <2>0, <2>1, <2>2 DEF UpdateState
    <2>4. answer' = "ok"
      BY <1>5 DEF Updated
    <2> QED BY <1>3, <1>5, <2>3, <2>4 DEF Update!Next, Update!Succeed
  <1>6. ASSUME NEW p \in Updaters, Recovered(p) PROVE Update!Next
    <2>1. CASE trouble[p]
      <3>1. answer' = "attention"
        BY <1>6, <2>1 DEF Recovered
      <3> QED BY <1>3, <1>6, <3>1 DEF Update!Next, Update!GiveUp
    <2>2. CASE ~trouble[p]
      <3>1. answer' = "failed"
        BY <1>6, <2>2 DEF Recovered
      <3>2. binary = found
        BY <1>6, <2>2 DEF Recovered, Working, UpdateInv, UpdateTypeOK,
           UpdateProgress, Pair
      <3>3. UpdateState = "before"
        BY <3>2 DEF UpdateState
      <3> QED BY <1>3, <1>6, <3>1, <3>3 DEF Update!Next, Update!Fail
    <2> QED BY <2>1, <2>2
  <1>7. ASSUME NEW p \in Updaters, UpdateKilled(p) PROVE Update!Next
    <2>1. answer' = "killed"
      BY <1>7 DEF UpdateKilled
    <2> QED BY <1>3, <1>7, <2>1 DEF Update!Next, Update!GiveUp
  <1>8. CASE UNCHANGED updateVars
    BY <1>8 DEF updateVars, UpdateState
  <1> QED
    BY <1>1, <1>2, <1>4, <1>5, <1>6, <1>7, <1>8 DEF UpdateNext

\* Self-update implements AllOrNothing: success means that both binaries are
\* new, an ordinary failure that both are as they were found
\* (install_update_pair_with).
THEOREM UpdateImplements == UpdateSpec => UpdateAllOrNothing
  <1>1. UpdateInit => Update!Init
    BY DEF UpdateInit, Update!Init, UpdateState
  <1> QED
    BY <1>1, UpdateStepImplements, UpdateInvariant, PTL
    DEF UpdateSpec, UpdateAllOrNothing, Update!Spec

-----------------------------------------------------------------------------
(* The sync keeps its invariant.                                           *)

LEMMA SyncInitially == SyncInit => SyncInv
  <1> SUFFICES ASSUME SyncInit PROVE SyncInv
    OBVIOUS
  <1> USE SyncConstants DEF SyncInit
  <1>1. SyncTypeOK
    BY DEF SyncTypeOK, DbFiles, Contents, SyncPoints
  <1>2. SyncLocked /\ SyncProgress
    BY DEF SyncLocked, SyncProgress, ProgressOf, Syncing
  <1>3. SyncFresh
    BY DEF SyncFresh, Syncing
  <1>4. SyncAnswered
    BY DEF SyncAnswered
  <1> QED BY <1>1, <1>2, <1>3, <1>4 DEF SyncInv

\* The process that publishes is the only one, and holds the lock.
LEMMA SyncAlone ==
  ASSUME SyncInv, NEW p \in Syncers, syncer[p].at \in Syncing
  PROVE  /\ dbLock = p /\ writer = p /\ told = "none"
         /\ \A q \in Syncers : q # p => syncer[q].at \notin Syncing
  BY DEF SyncInv, SyncLocked

\* What Step does to the control points.
LEMMA Stepped ==
  ASSUME SyncTypeOK, NEW p \in Syncers, NEW point \in SyncPoints,
         NEW f \in 0..(LastFile + 1), Step(p, point, f)
  PROVE  /\ syncer' \in [Syncers -> [at : SyncPoints, file : 0..(LastFile + 1)]]
         /\ syncer'[p].at = point /\ syncer'[p].file = f
         /\ \A q \in Syncers : q # p => syncer'[q] = syncer[q]
  BY DEF SyncTypeOK, Step

\* What the control points say is enough to find every old file.
LEMMA OldSetFound == SyncInv => OldSetRecoverable
  <1> SUFFICES ASSUME SyncInv, writer # Absent, told = "none", NEW f \in DbFiles
               PROVE  before[f] \in {Absent, live[f], backup[writer][f]}
    BY DEF OldSetRecoverable, SyncInv, SyncAnswered
  <1>1. /\ writer \in Syncers /\ syncer[writer].at \in Syncing /\ ProgressOf(writer)
        /\ f \in 1..LastFile /\ LastFile \in Nat
    BY SyncConstants DEF SyncInv, SyncTypeOK, SyncLocked, SyncProgress, DbFiles
  <1>2. CASE syncer[writer].at = "backup"
    BY <1>1, <1>2 DEF ProgressOf, BackingUp
  <1>3. CASE syncer[writer].at \in {"publish", "sync", "clean"}
    BY <1>1, <1>3 DEF ProgressOf, Publishing
  <1>4. CASE syncer[writer].at = "withdraw"
    <2>1. Settled(writer, f) \/ Pending(writer, f)
      BY <1>1, <1>4 DEF ProgressOf, Withdrawing
    <2> QED BY <2>1 DEF Settled, Pending
  <1>5. CASE syncer[writer].at = "restore"
    <2>1. syncer[writer].file \in 1..LastFile /\ Restoring(writer, syncer[writer].file)
      BY <1>1, <1>5 DEF ProgressOf, Restoring, DbFiles
    <2>2. CASE f = syncer[writer].file
      BY <1>1, <2>1, <2>2 DEF Restoring, Settled
    <2>3. CASE f # syncer[writer].file
      <3>1. Settled(writer, f) \/ Pending(writer, f)
        BY <1>1, <2>1, <2>3 DEF Restoring
      <3> QED BY <3>1 DEF Settled, Pending
    <2> QED BY <2>2, <2>3
  <1> QED BY <1>1, <1>2, <1>3, <1>4, <1>5 DEF Syncing

\* A step inside a publication: it is enough to look at the process itself.
LEMMA PublisherStep ==
  ASSUME SyncInv, SyncTypeOK', NEW p \in Syncers,
         syncer[p].at \in Syncing, syncer'[p].at \in Syncing,
         UNCHANGED <<dbLock, wanted, writer, before, told>>,
         \A q \in Syncers : q # p =>
           syncer'[q] = syncer[q] /\ backup'[q] = backup[q] /\ placed'[q] = placed[q],
         \A f \in DbFiles : /\ live'[f] \in {live[f], p, Absent, backup[p][f]}
                            /\ backup'[p][f] \in {backup[p][f], live[f], Absent},
         ProgressOf(p)'
  PROVE  SyncInv'
  <1> USE SyncConstants
  <1>0. /\ dbLock = p /\ writer = p /\ told = "none"
        /\ \A q \in Syncers : q # p => syncer[q].at \notin Syncing
    BY SyncAlone
  <1>1. SyncLocked'
    BY <1>0 DEF SyncInv, SyncLocked, Syncing
  <1>2. SyncProgress'
    <2>1. \A q \in Syncers : q # p => syncer'[q].at \notin Syncing
      BY <1>0
    <2> QED BY <2>1 DEF SyncProgress, ProgressOf, Syncing
  <1>3. SyncFresh'
    <2> SUFFICES ASSUME NEW q \in Syncers
                 PROVE  /\ syncer'[q].at \in Syncing => \A f \in DbFiles : before'[f] # q
                        /\ syncer'[q].at \in Syncing \cup {"downloaded"} => 1 \in wanted'[q]
                        /\ syncer'[q].at \in {"idle", "downloaded"} =>
                             /\ placed'[q] = {}
                             /\ \A f \in DbFiles : live'[f] # q /\ backup'[q][f] = Absent
                             /\ \A r \in Syncers : \A f \in DbFiles : backup'[r][f] # q
      BY DEF SyncFresh, DbFiles
    <2>1. CASE q = p
      BY <2>1 DEF SyncInv, SyncFresh, Syncing
    <2>2. CASE q # p
      <3>1. syncer'[q] = syncer[q] /\ syncer[q].at \notin Syncing /\ wanted'[q] = wanted[q]
        BY <1>0, <2>2
      <3>2. ASSUME syncer[q].at \in {"idle", "downloaded"}
            PROVE  /\ placed'[q] = {}
                   /\ \A f \in DbFiles : live'[f] # q /\ backup'[q][f] = Absent
                   /\ \A r \in Syncers : \A f \in DbFiles : backup'[r][f] # q
        <4>1. /\ placed[q] = {} /\ \A f \in DbFiles : live[f] # q /\ backup[q][f] = Absent
              /\ \A r \in Syncers : \A f \in DbFiles : backup[r][f] # q
          BY <3>2 DEF SyncInv, SyncFresh
        <4>2. placed'[q] = {} /\ \A f \in DbFiles : live'[f] # q /\ backup'[q][f] = Absent
          BY <2>2, <4>1
        <4>3. ASSUME NEW r \in Syncers, NEW f \in DbFiles PROVE backup'[r][f] # q
          BY <2>2, <4>1, <4>3
        <4> QED BY <4>2, <4>3
      <3>3. syncer[q].at = "downloaded" => 1 \in wanted[q]
        BY DEF SyncInv, SyncFresh
      <3> QED BY <3>1, <3>2, <3>3
    <2> QED BY <2>1, <2>2
  <1>4. SyncAnswered'
    BY <1>0 DEF SyncAnswered
  <1> QED BY <1>1, <1>2, <1>3, <1>4 DEF SyncInv

-----------------------------------------------------------------------------
(* Steps inside a publication.                                             *)

\* A replaced element of a function in a function.
LEMMA InnerExcept ==
  ASSUME NEW S, NEW T, NEW V, NEW g \in [S -> [T -> V]], NEW s \in S, NEW t \in T, NEW v \in V
  PROVE  /\ [g EXCEPT ![s][t] = v] \in [S -> [T -> V]]
         /\ \A x \in S : x # s => [g EXCEPT ![s][t] = v][x] = g[x]
         /\ \A y \in T : [g EXCEPT ![s][t] = v][s][y] = IF y = t THEN v ELSE g[s][y]
  <1>1. [g[s] EXCEPT ![t] = v] \in [T -> V]
    OBVIOUS
  <1>2. [g EXCEPT ![s][t] = v] = [g EXCEPT ![s] = [g[s] EXCEPT ![t] = v]]
    OBVIOUS
  <1> QED BY <1>1, <1>2

\* Linking the live files into the staging directory.
LEMMA BackupStep == ASSUME SyncInv, NEW p \in Syncers, Backup(p) PROVE SyncInv'
  <1> DEFINE n == syncer[p].file
  <1> USE SyncConstants
  <1>0. /\ syncer[p].at = "backup" /\ BackingUp(p, n) /\ n \in 1..(LastFile + 1)
        /\ LastFile \in Nat /\ SyncTypeOK
        /\ UNCHANGED <<live, dbLock, wanted, placed, failed, writer, before, told>>
    BY DEF Backup, Point, SyncInv, SyncProgress, ProgressOf, BackingUp
  <1>1. CASE /\ n <= LastFile /\ live[n] # Absent /\ n \in wanted[p]
             /\ backup' = [backup EXCEPT ![p][n] = live[n]] /\ Step(p, "backup", n + 1)
    <2>1. /\ syncer' \in [Syncers -> [at : SyncPoints, file : 0..(LastFile + 1)]]
          /\ syncer'[p].at = "backup" /\ syncer'[p].file = n + 1
          /\ \A q \in Syncers : q # p => syncer'[q] = syncer[q]
      BY <1>0, <1>1, Stepped DEF SyncPoints
    <2>2. n \in DbFiles /\ live[n] \in Contents /\ backup \in [Syncers -> [DbFiles -> Contents]]
      BY <1>0, <1>1 DEF SyncTypeOK, DbFiles
    <2>3. /\ backup' \in [Syncers -> [DbFiles -> Contents]]
          /\ \A q \in Syncers : q # p => backup'[q] = backup[q]
          /\ \A f \in DbFiles : backup'[p][f] = IF f = n THEN live[n] ELSE backup[p][f]
      BY <1>1, <2>2, InnerExcept
    <2>4. SyncTypeOK'
      BY <1>0, <2>1, <2>3 DEF SyncTypeOK
    <2>5. BackingUp(p, syncer[p].file)'
      BY <1>0, <1>1, <2>1, <2>3 DEF BackingUp, DbFiles
    <2>6. ProgressOf(p)'
      BY <2>1, <2>5 DEF ProgressOf
    <2> QED BY <1>0, <2>1, <2>3, <2>4, <2>6, PublisherStep DEF Syncing
  <1>2. CASE /\ n <= LastFile /\ (live[n] = Absent \/ n \notin wanted[p])
             /\ Step(p, "backup", n + 1) /\ UNCHANGED backup
    <2>1. /\ syncer' \in [Syncers -> [at : SyncPoints, file : 0..(LastFile + 1)]]
          /\ syncer'[p].at = "backup" /\ syncer'[p].file = n + 1
          /\ \A q \in Syncers : q # p => syncer'[q] = syncer[q]
      BY <1>0, <1>2, Stepped DEF SyncPoints
    <2>2. SyncTypeOK'
      BY <1>0, <1>2, <2>1 DEF SyncTypeOK
    <2>3. BackingUp(p, syncer[p].file)'
      BY <1>0, <1>2, <2>1 DEF BackingUp, DbFiles
    <2>4. ProgressOf(p)'
      BY <2>1, <2>3 DEF ProgressOf
    <2> QED BY <1>0, <1>2, <2>1, <2>2, <2>4, PublisherStep DEF Syncing
  <1>3. CASE RollBack(p) /\ UNCHANGED backup
    <2>1. /\ syncer' \in [Syncers -> [at : SyncPoints, file : 0..(LastFile + 1)]]
          /\ syncer'[p].at = "withdraw" /\ syncer'[p].file = LastFile
          /\ \A q \in Syncers : q # p => syncer'[q] = syncer[q]
      BY <1>0, <1>3, Stepped DEF SyncPoints, RollBack
    <2>2. SyncTypeOK'
      BY <1>0, <1>3, <2>1 DEF SyncTypeOK
    <2>3. Withdrawing(p, syncer[p].file)'
      BY <1>0, <1>3, <2>1 DEF BackingUp, Withdrawing, Pending, DbFiles
    <2>4. ProgressOf(p)'
      BY <2>1, <2>3 DEF ProgressOf
    <2> QED BY <1>0, <1>3, <2>1, <2>2, <2>4, PublisherStep DEF Syncing
  <1>4. CASE n > LastFile /\ Step(p, "publish", 1) /\ UNCHANGED backup
    <2>1. /\ syncer' \in [Syncers -> [at : SyncPoints, file : 0..(LastFile + 1)]]
          /\ syncer'[p].at = "publish" /\ syncer'[p].file = 1
          /\ \A q \in Syncers : q # p => syncer'[q] = syncer[q]
      BY <1>0, <1>4, Stepped DEF SyncPoints
    <2>2. SyncTypeOK'
      BY <1>0, <1>4, <2>1 DEF SyncTypeOK
    <2>3. Publishing(p, syncer[p].file)'
      BY <1>0, <1>4, <2>1 DEF BackingUp, Publishing, DbFiles
    <2>4. ProgressOf(p)'
      BY <2>1, <2>3 DEF ProgressOf
    <2> QED BY <1>0, <1>4, <2>1, <2>2, <2>4, PublisherStep DEF Syncing
  <1> QED
    BY <1>1, <1>2, <1>3, <1>4 DEF Backup

\* Renaming the new files into place.
LEMMA PublishStep == ASSUME SyncInv, NEW p \in Syncers, Publish(p) PROVE SyncInv'
  <1> DEFINE n == syncer[p].file
  <1> USE SyncConstants
  <1>0. /\ syncer[p].at = "publish" /\ Publishing(p, n) /\ n \in 1..(LastFile + 1)
        /\ LastFile \in Nat /\ SyncTypeOK
        /\ UNCHANGED <<dbLock, wanted, backup, failed, writer, before, told>>
    BY DEF Publish, Point, SyncInv, SyncProgress, ProgressOf, Publishing
  <1>1. CASE /\ n <= LastFile
             /\ live' = IF n \in wanted[p] THEN [live EXCEPT ![n] = p] ELSE live
             /\ placed' = [placed EXCEPT ![p] = @ \cup {n}] /\ Step(p, "publish", n + 1)
    <2>1. /\ syncer' \in [Syncers -> [at : SyncPoints, file : 0..(LastFile + 1)]]
          /\ syncer'[p].at = "publish" /\ syncer'[p].file = n + 1
          /\ \A q \in Syncers : q # p => syncer'[q] = syncer[q]
      BY <1>0, <1>1, Stepped DEF SyncPoints
    <2>2. n \in DbFiles /\ p \in Contents
      BY <1>0, <1>1 DEF DbFiles, Contents
    <2>3. /\ live' \in [DbFiles -> Contents]
          /\ \A f \in DbFiles : live'[f] = IF f = n /\ n \in wanted[p] THEN p ELSE live[f]
      BY <1>0, <1>1, <2>2 DEF SyncTypeOK
    <2>4. /\ placed' \in [Syncers -> SUBSET DbFiles] /\ placed'[p] = placed[p] \cup {n}
          /\ \A q \in Syncers : q # p => placed'[q] = placed[q]
      BY <1>0, <1>1, <2>2 DEF SyncTypeOK
    <2>5. SyncTypeOK'
      BY <1>0, <2>1, <2>3, <2>4 DEF SyncTypeOK
    <2>6. Publishing(p, syncer[p].file)'
      BY <1>0, <1>1, <2>1, <2>3, <2>4 DEF Publishing, DbFiles
    <2>7. ProgressOf(p)'
      BY <2>1, <2>6 DEF ProgressOf
    <2> QED BY <1>0, <2>1, <2>3, <2>4, <2>5, <2>7, PublisherStep DEF Syncing
  <1>2. CASE n \in wanted[p] /\ RollBack(p) /\ UNCHANGED <<live, placed>>
    <2>1. /\ syncer' \in [Syncers -> [at : SyncPoints, file : 0..(LastFile + 1)]]
          /\ syncer'[p].at = "withdraw" /\ syncer'[p].file = LastFile
          /\ \A q \in Syncers : q # p => syncer'[q] = syncer[q]
      BY <1>0, <1>2, Stepped DEF SyncPoints, RollBack
    <2>2. SyncTypeOK'
      BY <1>0, <1>2, <2>1 DEF SyncTypeOK
    <2>3. Withdrawing(p, syncer[p].file)'
      BY <1>0, <1>2, <2>1 DEF Publishing, Withdrawing, Pending, DbFiles
    <2>4. ProgressOf(p)'
      BY <2>1, <2>3 DEF ProgressOf
    <2> QED BY <1>0, <1>2, <2>1, <2>2, <2>4, PublisherStep DEF Syncing
  <1>3. CASE n > LastFile /\ Step(p, "sync", 0) /\ UNCHANGED <<live, placed>>
    <2>1. /\ syncer' \in [Syncers -> [at : SyncPoints, file : 0..(LastFile + 1)]]
          /\ syncer'[p].at = "sync"
          /\ \A q \in Syncers : q # p => syncer'[q] = syncer[q]
      BY <1>0, <1>3, Stepped DEF SyncPoints
    <2>2. SyncTypeOK'
      BY <1>0, <1>3, <2>1 DEF SyncTypeOK
    <2>3. Publishing(p, LastFile + 1)'
      BY <1>0, <1>3 DEF Publishing, DbFiles
    <2>4. ProgressOf(p)'
      BY <2>1, <2>3 DEF ProgressOf
    <2> QED BY <1>0, <1>3, <2>1, <2>2, <2>4, PublisherStep DEF Syncing
  <1> QED
    BY <1>1, <1>2, <1>3 DEF Publish

\* The sync of the directory, before the backups go.
LEMMA DirectoryStep == ASSUME SyncInv, NEW p \in Syncers, SyncDirectory(p) PROVE SyncInv'
  <1> USE SyncConstants
  <1>0. /\ syncer[p].at = "sync" /\ Publishing(p, LastFile + 1) /\ LastFile \in Nat /\ SyncTypeOK
        /\ UNCHANGED <<live, dbLock, wanted, backup, placed, failed, writer, before, told>>
    BY DEF SyncDirectory, Point, SyncInv, SyncProgress, ProgressOf
  <1>1. CASE Step(p, "clean", 0)
    <2>1. /\ syncer' \in [Syncers -> [at : SyncPoints, file : 0..(LastFile + 1)]]
          /\ syncer'[p].at = "clean"
          /\ \A q \in Syncers : q # p => syncer'[q] = syncer[q]
      BY <1>0, <1>1, Stepped DEF SyncPoints
    <2>2. SyncTypeOK'
      BY <1>0, <2>1 DEF SyncTypeOK
    <2>3. Publishing(p, LastFile + 1)'
      BY <1>0 DEF Publishing, DbFiles
    <2>4. ProgressOf(p)'
      BY <2>1, <2>3 DEF ProgressOf
    <2> QED BY <1>0, <2>1, <2>2, <2>4, PublisherStep DEF Syncing
  <1>2. CASE RollBack(p)
    <2>1. /\ syncer' \in [Syncers -> [at : SyncPoints, file : 0..(LastFile + 1)]]
          /\ syncer'[p].at = "withdraw" /\ syncer'[p].file = LastFile
          /\ \A q \in Syncers : q # p => syncer'[q] = syncer[q]
      BY <1>0, <1>2, Stepped DEF SyncPoints, RollBack
    <2>2. SyncTypeOK'
      BY <1>0, <2>1 DEF SyncTypeOK
    <2>3. Withdrawing(p, syncer[p].file)'
      BY <1>0, <2>1 DEF Publishing, Withdrawing, Pending, DbFiles
    <2>4. ProgressOf(p)'
      BY <2>1, <2>3 DEF ProgressOf
    <2> QED BY <1>0, <2>1, <2>2, <2>4, PublisherStep DEF Syncing
  <1> QED BY <1>1, <1>2 DEF SyncDirectory

\* Taking a new file back.
LEMMA WithdrawStep == ASSUME SyncInv, NEW p \in Syncers, Withdraw(p) PROVE SyncInv'
  <1>n. PICK n : n = syncer[p].file
    OBVIOUS
  <1> DEFINE there == n \in placed[p] \cap wanted[p]
  <1> USE <1>n, SyncConstants
  <1>0. /\ syncer[p].at = "withdraw" /\ Withdrawing(p, n) /\ n \in DbFiles
        /\ LastFile \in Nat /\ SyncTypeOK /\ Step(p, "restore", n)
        /\ UNCHANGED <<dbLock, wanted, backup, placed, writer, before, told>>
    BY DEF Withdraw, Point, SyncInv, SyncProgress, ProgressOf, Withdrawing, DbFiles
  <1>1. /\ syncer' \in [Syncers -> [at : SyncPoints, file : 0..(LastFile + 1)]]
        /\ syncer'[p].at = "restore" /\ syncer'[p].file = n
        /\ \A q \in Syncers : q # p => syncer'[q] = syncer[q]
    BY <1>0, Stepped DEF SyncPoints, DbFiles
  <1>2. Pending(p, n) /\ \A f \in DbFiles : IF f > n THEN Settled(p, f) ELSE Pending(p, f)
    BY <1>0 DEF Withdrawing, DbFiles
  <1>3. CASE /\ live' = IF there /\ backup[p][n] = Absent THEN [live EXCEPT ![n] = Absent] ELSE live
             /\ UNCHANGED failed
    <2>1. /\ live' \in [DbFiles -> Contents]
          /\ \A f \in DbFiles :
               live'[f] = IF f = n /\ there /\ backup[p][n] = Absent THEN Absent ELSE live[f]
      BY <1>0, <1>3 DEF SyncTypeOK, Contents
    <2>2. SyncTypeOK'
      BY <1>0, <1>1, <1>3, <2>1 DEF SyncTypeOK
    <2>3. Restoring(p, syncer[p].file)'
      <3>1. backup[p][n] \in {Absent, before[n]}
        BY <1>2 DEF Pending
      <3>2. backup[p][n] = Absent => live'[n] = before[n]
        BY <1>0, <1>2, <2>1 DEF Pending
      <3>3. \A f \in DbFiles : f # n => live'[f] = live[f]
        BY <2>1
      <3>4. ASSUME NEW f \in DbFiles, f # n
            PROVE  (Settled(p, f) => Settled(p, f)') /\ (Pending(p, f) => Pending(p, f)')
        BY <1>0, <1>3, <3>3, <3>4 DEF Settled, Pending
      <3>5. Settled(p, n)' <=> live'[n] = before[n] \/ (failed[p] /\ before[n] \in {Absent, backup[p][n]})
        BY <1>0, <1>3 DEF Settled
      <3>6. \A f \in DbFiles : (f > n => Settled(p, f)') /\ (f < n => Pending(p, f)')
        BY <1>0, <1>2, <3>4 DEF DbFiles
      <3>7. DbFiles' = DbFiles
        BY DEF DbFiles
      <3> QED BY <1>0, <1>1, <3>1, <3>2, <3>5, <3>6, <3>7 DEF Restoring
    <2>4. ProgressOf(p)'
      BY <1>1, <2>3 DEF ProgressOf
    <2> QED BY <1>0, <1>1, <2>1, <2>2, <2>4, PublisherStep DEF Syncing
  <1>4. CASE there /\ failed' = [failed EXCEPT ![p] = TRUE] /\ UNCHANGED live
    <2>1. failed' \in [Syncers -> BOOLEAN] /\ failed'[p] = TRUE
      BY <1>0, <1>4 DEF SyncTypeOK
    <2>2. SyncTypeOK'
      BY <1>0, <1>1, <1>4, <2>1 DEF SyncTypeOK
    <2>3. Restoring(p, syncer[p].file)'
      <3>1. backup[p][n] = before[n]
        BY <1>2, <1>4 DEF Pending
      <3>2. \A f \in DbFiles : Settled(p, f) => Settled(p, f)'
        BY <1>0, <1>4, <2>1 DEF Settled
      <3>3. \A f \in DbFiles : Pending(p, f) => Pending(p, f)'
        BY <1>0, <1>4 DEF Pending
      <3>4. Settled(p, n)'
        BY <1>0, <1>4, <2>1, <3>1 DEF Settled
      <3>5. \A f \in DbFiles : (f > n => Settled(p, f)') /\ (f < n => Pending(p, f)')
        BY <1>0, <1>2, <3>2, <3>3 DEF DbFiles
      <3>6. DbFiles' = DbFiles
        BY DEF DbFiles
      <3> QED BY <1>0, <1>1, <3>1, <3>4, <3>5, <3>6 DEF Restoring
    <2>4. ProgressOf(p)'
      BY <1>1, <2>3 DEF ProgressOf
    <2> QED BY <1>0, <1>1, <1>4, <2>2, <2>4, PublisherStep DEF Syncing
  <1> QED BY <1>3, <1>4 DEF Withdraw

\* Putting a predecessor back.
LEMMA RestoreStep == ASSUME SyncInv, NEW p \in Syncers, Restore(p) PROVE SyncInv'
  <1>n. PICK n : n = syncer[p].file
    OBVIOUS
  <1> DEFINE kept == backup[p][n]
  <1> USE <1>n, SyncConstants
  <1>0. /\ syncer[p].at = "restore" /\ Restoring(p, n) /\ n \in DbFiles
        /\ LastFile \in Nat /\ SyncTypeOK /\ Step(p, "withdraw", n - 1)
        /\ UNCHANGED <<dbLock, wanted, placed, writer, before, told>>
    BY DEF Restore, Point, SyncInv, SyncProgress, ProgressOf, Restoring
  <1>1. /\ syncer' \in [Syncers -> [at : SyncPoints, file : 0..(LastFile + 1)]]
        /\ syncer'[p].at = "withdraw" /\ syncer'[p].file = n - 1
        /\ \A q \in Syncers : q # p => syncer'[q] = syncer[q]
    <2>1. n - 1 \in 0..(LastFile + 1) /\ "withdraw" \in SyncPoints
      BY <1>0 DEF DbFiles, SyncPoints
    <2> QED BY <1>0, <2>1, Stepped
  <1>2. /\ kept \in {Absent, before[n]} /\ (kept = Absent => Settled(p, n))
        /\ \A f \in DbFiles : (f > n => Settled(p, f)) /\ (f < n => Pending(p, f))
    BY <1>0 DEF Restoring
  <1>3. ASSUME Settled(p, n)',
               \A f \in DbFiles : f # n => /\ Settled(p, f) => Settled(p, f)'
                                           /\ Pending(p, f) => Pending(p, f)'
        PROVE  ProgressOf(p)'
    <2>1. \A f \in DbFiles : IF f > n - 1 THEN Settled(p, f)' ELSE Pending(p, f)'
      BY <1>0, <1>2, <1>3 DEF DbFiles
    <2>2. n - 1 \in 0..LastFile /\ DbFiles' = DbFiles
      BY <1>0 DEF DbFiles
    <2>3. Withdrawing(p, syncer[p].file)'
      BY <1>1, <2>1, <2>2 DEF Withdrawing
    <2> QED BY <1>1, <2>3 DEF ProgressOf
  <1>4. CASE /\ kept # Absent
             /\ live' = [live EXCEPT ![n] = kept]
             /\ backup' = [backup EXCEPT ![p][n] = Absent] /\ UNCHANGED failed
    <2>1. kept \in Contents /\ Absent \in Contents /\ backup \in [Syncers -> [DbFiles -> Contents]]
      BY <1>0 DEF SyncTypeOK, Contents
    <2>2. /\ live' \in [DbFiles -> Contents]
          /\ \A f \in DbFiles : live'[f] = IF f = n THEN kept ELSE live[f]
      BY <1>0, <1>4, <2>1 DEF SyncTypeOK
    <2>3. /\ backup' \in [Syncers -> [DbFiles -> Contents]]
          /\ \A q \in Syncers : q # p => backup'[q] = backup[q]
          /\ \A f \in DbFiles : backup'[p][f] = IF f = n THEN Absent ELSE backup[p][f]
      BY <1>0, <1>4, <2>1, InnerExcept
    <2>4. SyncTypeOK'
      BY <1>0, <1>1, <1>4, <2>2, <2>3 DEF SyncTypeOK
    <2>5. Settled(p, n)'
      BY <1>0, <1>2, <1>4, <2>2 DEF Settled
    <2>6. ASSUME NEW f \in DbFiles, f # n
          PROVE  (Settled(p, f) => Settled(p, f)') /\ (Pending(p, f) => Pending(p, f)')
      BY <1>0, <1>4, <2>2, <2>3, <2>6 DEF Settled, Pending
    <2>7. ProgressOf(p)'
      BY <1>3, <2>5, <2>6
    <2>8. \A f \in DbFiles : /\ live'[f] \in {live[f], p, Absent, backup[p][f]}
                             /\ backup'[p][f] \in {backup[p][f], live[f], Absent}
      BY <2>2, <2>3
    <2> QED BY <1>0, <1>1, <2>3, <2>4, <2>7, <2>8, PublisherStep DEF Syncing
  <1>5. CASE kept # Absent /\ failed' = [failed EXCEPT ![p] = TRUE] /\ UNCHANGED <<live, backup>>
    <2>1. failed' \in [Syncers -> BOOLEAN] /\ failed'[p] = TRUE
      BY <1>0, <1>5 DEF SyncTypeOK
    <2>2. SyncTypeOK'
      BY <1>0, <1>1, <1>5, <2>1 DEF SyncTypeOK
    <2>3. Settled(p, n)'
      BY <1>0, <1>2, <1>5, <2>1 DEF Settled
    <2>4. ASSUME NEW f \in DbFiles, f # n
          PROVE  (Settled(p, f) => Settled(p, f)') /\ (Pending(p, f) => Pending(p, f)')
      BY <1>0, <1>5, <2>1 DEF Settled, Pending
    <2>5. ProgressOf(p)'
      BY <1>3, <2>3, <2>4
    <2> QED BY <1>0, <1>1, <1>5, <2>2, <2>5, PublisherStep DEF Syncing
  <1>6. CASE kept = Absent /\ UNCHANGED <<live, backup, failed>>
    <2>1. SyncTypeOK'
      BY <1>0, <1>1, <1>6 DEF SyncTypeOK
    <2>2. \A f \in DbFiles : (Settled(p, f) => Settled(p, f)') /\ (Pending(p, f) => Pending(p, f)')
      BY <1>0, <1>6 DEF Settled, Pending
    <2>3. ProgressOf(p)'
      BY <1>0, <1>2, <1>3, <1>6, <2>2
    <2> QED BY <1>0, <1>1, <1>6, <2>1, <2>3, PublisherStep DEF Syncing
  <1> QED BY <1>4, <1>5, <1>6 DEF Restore

-----------------------------------------------------------------------------
(* Steps before and after a publication.                                   *)

\* A process that does not publish touches only what is its own.
LEMMA OutsiderStep ==
  ASSUME SyncInv, SyncTypeOK', NEW p \in Syncers,
         syncer[p].at \in {"idle", "downloaded"}, syncer'[p].at \in {"downloaded", "done"},
         UNCHANGED <<live, dbLock, backup, placed, failed, writer, before, told>>,
         \A q \in Syncers : q # p => syncer'[q] = syncer[q] /\ wanted'[q] = wanted[q],
         syncer'[p].at = "downloaded" => 1 \in wanted'[p]
  PROVE  SyncInv'
  <1> USE SyncConstants
  <1>0. dbLock # p /\ writer # p /\ DbFiles' = DbFiles
    BY DEF SyncInv, SyncLocked, DbFiles
  <1>1. SyncLocked'
    <2>1. writer \in Syncers \cup {Absent}
      BY DEF SyncInv, SyncTypeOK
    <2> QED BY <1>0, <2>1 DEF SyncInv, SyncLocked, Syncing
  <1>2. SyncProgress'
    <2> SUFFICES ASSUME NEW q \in Syncers PROVE ProgressOf(q)'
      BY DEF SyncProgress
    <2>1. CASE q = p
      BY <2>1 DEF ProgressOf
    <2>2. CASE q # p
      <3>1. ProgressOf(q) /\ syncer'[q] = syncer[q] /\ wanted'[q] = wanted[q]
        BY <2>2 DEF SyncInv, SyncProgress
      <3>2. \A f \in DbFiles : /\ Settled(q, f) => Settled(q, f)'
                               /\ Pending(q, f) => Pending(q, f)'
        BY <3>1 DEF Settled, Pending
      <3>3. ASSUME NEW n
            PROVE  /\ BackingUp(q, n) => BackingUp(q, n)'
                   /\ Publishing(q, n) => Publishing(q, n)'
                   /\ Withdrawing(q, n) => Withdrawing(q, n)'
        BY <1>0, <3>1, <3>2 DEF BackingUp, Publishing, Withdrawing
      <3>4. ASSUME NEW n, Restoring(q, n) PROVE Restoring(q, n)'
        BY <1>0, <3>1, <3>2, <3>4 DEF Restoring
      <3>5. PICK n : n = syncer[q].file /\ n = syncer'[q].file
        BY <3>1
      <3> QED BY <3>1, <3>3, <3>4, <3>5 DEF ProgressOf
    <2> QED BY <2>1, <2>2
  <1>3. SyncFresh'
    <2>1. \A q \in Syncers : q # p => syncer'[q] = syncer[q] /\ wanted'[q] = wanted[q]
      OBVIOUS
    <2> QED BY <1>0, <2>1 DEF SyncInv, SyncFresh, Syncing
  <1>4. SyncAnswered'
    <2>1. writer = Absent \/ wanted'[writer] = wanted[writer]
      BY <1>0 DEF SyncInv, SyncTypeOK
    <2> QED BY <1>0, <2>1 DEF SyncInv, SyncAnswered, OldSetRecoverable
  <1> QED BY <1>1, <1>2, <1>3, <1>4 DEF SyncInv

\* The end of a publication leaves no process at work.
LEMMA EndStep ==
  ASSUME SyncInv, SyncTypeOK', NEW p \in Syncers,
         syncer[p].at \in Syncing, syncer'[p].at = "done", told' # "none",
         UNCHANGED <<live, wanted, placed, failed, writer, before>>,
         dbLock' \in {dbLock, Absent},
         \A q \in Syncers : q # p => syncer'[q] = syncer[q] /\ backup'[q] = backup[q],
         \A f \in DbFiles : backup'[p][f] \in {backup[p][f], Absent},
         OldSetRecoverable'
  PROVE  SyncInv'
  <1> USE SyncConstants
  <1>0. /\ dbLock = p /\ writer = p /\ DbFiles' = DbFiles
        /\ \A q \in Syncers : q # p => syncer[q].at \notin Syncing
    BY SyncAlone DEF DbFiles
  <1>1. SyncLocked'
    BY <1>0 DEF SyncInv, SyncLocked, Syncing
  <1>2. SyncProgress'
    <2>1. \A q \in Syncers : syncer'[q].at \notin Syncing
      BY <1>0 DEF Syncing
    <2> QED BY <2>1 DEF SyncProgress, ProgressOf, Syncing
  <1>3. SyncFresh'
    <2>1. \A q \in Syncers : syncer'[q].at \notin Syncing
      BY <1>0 DEF Syncing
    <2>2. ASSUME NEW q \in Syncers, syncer'[q].at = "downloaded" PROVE 1 \in wanted'[q]
      BY <2>2 DEF SyncInv, SyncFresh
    <2>3. ASSUME NEW q \in Syncers, syncer'[q].at \in {"idle", "downloaded"}
          PROVE  /\ placed'[q] = {}
                 /\ \A f \in DbFiles : live'[f] # q /\ backup'[q][f] = Absent
                 /\ \A r \in Syncers : \A f \in DbFiles : backup'[r][f] # q
      <3>1. q # p /\ syncer'[q] = syncer[q] /\ backup'[q] = backup[q]
        BY <2>3
      <3>2. /\ placed[q] = {} /\ \A f \in DbFiles : live[f] # q /\ backup[q][f] = Absent
            /\ \A r \in Syncers : \A f \in DbFiles : backup[r][f] # q
        BY <2>3, <3>1 DEF SyncInv, SyncFresh
      <3>3. ASSUME NEW r \in Syncers, NEW f \in DbFiles PROVE backup'[r][f] # q
        BY <3>2, <3>3
      <3> QED BY <3>1, <3>2, <3>3
    <2> QED BY <1>0, <2>1, <2>2, <2>3 DEF SyncFresh
  <1>4. SyncAnswered'
    BY DEF SyncAnswered
  <1> QED BY <1>1, <1>2, <1>3, <1>4 DEF SyncInv

\* Taking the lock of libalpm.
LEMMA LockStep == ASSUME SyncInv, NEW p \in Syncers, LockDatabase(p) PROVE SyncInv'
  <1> USE SyncConstants
  <1>0. /\ syncer[p].at = "downloaded" /\ LastFile \in Nat /\ SyncTypeOK /\ DbFiles' = DbFiles
        /\ \A q \in Syncers : syncer[q].at \notin Syncing
        /\ UNCHANGED <<live, wanted, backup, placed, failed>>
    BY DEF LockDatabase, Point, SyncInv, SyncLocked, DbFiles
  <1>1. /\ syncer' \in [Syncers -> [at : SyncPoints, file : 0..(LastFile + 1)]]
        /\ syncer'[p].at = "backup" /\ syncer'[p].file = 1
        /\ \A q \in Syncers : q # p => syncer'[q] = syncer[q]
    BY <1>0, Stepped DEF LockDatabase, SyncPoints
  <1>2. dbLock' = p /\ writer' = p /\ before' = live /\ told' = "none"
    BY DEF LockDatabase
  <1>3. SyncTypeOK'
    BY <1>0, <1>1, <1>2 DEF SyncTypeOK
  <1>4. SyncLocked'
    BY <1>0, <1>1, <1>2 DEF SyncLocked, Syncing
  <1>5. SyncProgress'
    <2>1. BackingUp(p, syncer[p].file)'
      BY <1>0, <1>1, <1>2 DEF SyncInv, SyncFresh, BackingUp, DbFiles
    <2>2. \A q \in Syncers : q # p => syncer'[q].at \notin Syncing
      BY <1>0, <1>1
    <2> QED BY <1>1, <2>1, <2>2 DEF SyncProgress, ProgressOf, Syncing
  <1>6. SyncFresh'
    <2>1. \A q \in Syncers : q # p => syncer'[q].at \notin Syncing
      BY <1>0, <1>1
    <2>2. (\A f \in DbFiles : live[f] # p) /\ 1 \in wanted[p]
      BY <1>0 DEF SyncInv, SyncFresh
    <2>3. syncer'[p].at \notin {"idle", "downloaded"}
      BY <1>1
    <2> QED BY <1>0, <1>1, <1>2, <2>1, <2>2, <2>3 DEF SyncInv, SyncFresh
  <1>7. SyncAnswered'
    BY <1>2 DEF SyncAnswered
  <1> QED BY <1>3, <1>4, <1>5, <1>6, <1>7 DEF SyncInv

\* The set of files that is published always has a database.
LEMMA DownloadStep == ASSUME SyncInv, NEW p \in Syncers, Download(p) PROVE SyncInv'
  <1> USE SyncConstants
  <1>0. /\ syncer[p].at = "idle" /\ SyncTypeOK /\ Step(p, "downloaded", 0)
        /\ UNCHANGED <<live, dbLock, backup, placed, failed, writer, before, told>>
    BY DEF Download, Point, SyncInv
  <1>1. /\ syncer' \in [Syncers -> [at : SyncPoints, file : 0..(LastFile + 1)]]
        /\ syncer'[p].at = "downloaded"
        /\ \A q \in Syncers : q # p => syncer'[q] = syncer[q]
    BY <1>0, Stepped DEF SyncPoints
  <1>2. PICK signed \in SUBSET (DbFiles \ Databases) :
          wanted' = [wanted EXCEPT ![p] = Databases \cup signed]
    BY DEF Download
  <1>3. Databases \cup signed \in SUBSET DbFiles /\ 1 \in Databases
    <2>1. 1 \in DbFiles
      BY DEF DbFiles
    <2>2. 1 % 2 = 1
      OBVIOUS
    <2> QED BY <2>1, <2>2 DEF Databases
  <1>4. /\ wanted' \in [Syncers -> SUBSET DbFiles] /\ 1 \in wanted'[p]
        /\ \A q \in Syncers : q # p => wanted'[q] = wanted[q]
    BY <1>0, <1>2, <1>3 DEF SyncTypeOK
  <1>5. SyncTypeOK'
    BY <1>0, <1>1, <1>4 DEF SyncTypeOK
  <1> QED BY <1>0, <1>1, <1>4, <1>5, OutsiderStep

LEMMA RefusedStep == ASSUME SyncInv, NEW p \in Syncers, Refused(p) PROVE SyncInv'
  <1> USE SyncConstants
  <1>0. /\ syncer[p].at = "downloaded" /\ SyncTypeOK /\ Step(p, "done", 0)
        /\ UNCHANGED <<live, dbLock, wanted, backup, placed, failed, writer, before, told>>
    BY DEF Refused, Point, SyncInv
  <1>1. /\ syncer' \in [Syncers -> [at : SyncPoints, file : 0..(LastFile + 1)]]
        /\ syncer'[p].at = "done"
        /\ \A q \in Syncers : q # p => syncer'[q] = syncer[q]
    BY <1>0, Stepped DEF SyncPoints
  <1>2. SyncTypeOK'
    BY <1>0, <1>1 DEF SyncTypeOK
  <1> QED BY <1>0, <1>1, <1>2, OutsiderStep

\* The new set is complete when the backups go.
LEMMA CommittedStep == ASSUME SyncInv, NEW p \in Syncers, Committed(p) PROVE SyncInv'
  <1> USE SyncConstants
  <1>0. /\ syncer[p].at = "clean" /\ Publishing(p, LastFile + 1) /\ SyncTypeOK
        /\ LastFile \in Nat /\ Step(p, "done", 0) /\ DbFiles' = DbFiles
        /\ dbLock' \in {dbLock, Absent} /\ told' \in {"ok", "attention"}
        /\ UNCHANGED <<live, wanted, placed, failed, writer, before>>
    BY DEF Committed, Point, SyncInv, SyncProgress, ProgressOf, DbFiles
  <1>1. /\ syncer' \in [Syncers -> [at : SyncPoints, file : 0..(LastFile + 1)]]
        /\ syncer'[p].at = "done"
        /\ \A q \in Syncers : q # p => syncer'[q] = syncer[q]
    BY <1>0, Stepped DEF SyncPoints
  <1>2. /\ backup' \in [Syncers -> [DbFiles -> Contents]]
        /\ \A q \in Syncers : q # p => backup'[q] = backup[q]
        /\ \A f \in DbFiles : backup'[p][f] = Absent
    <2>1. [f \in DbFiles |-> Absent] \in [DbFiles -> Contents]
      BY DEF Contents
    <2> QED BY <1>0, <2>1 DEF Committed, SyncTypeOK
  <1>3. SyncTypeOK'
    BY <1>0, <1>1, <1>2 DEF SyncTypeOK
  <1>4. OldSetRecoverable'
    <2>1. writer = p
      BY <1>0, SyncAlone DEF Syncing
    <2>2. \A g \in wanted[p] : live[g] = p
      BY <1>0 DEF SyncTypeOK, Publishing, DbFiles
    <2> QED BY <1>0, <2>1, <2>2 DEF OldSetRecoverable
  <1> QED BY <1>0, <1>1, <1>2, <1>3, <1>4, EndStep DEF Syncing

\* The staging directory only goes when every file is back.
LEMMA RolledBackStep == ASSUME SyncInv, NEW p \in Syncers, RolledBack(p) PROVE SyncInv'
  <1> USE SyncConstants
  <1>0. /\ syncer[p].at = "withdraw" /\ Withdrawing(p, 0) /\ SyncTypeOK
        /\ LastFile \in Nat /\ Step(p, "done", 0) /\ DbFiles' = DbFiles
        /\ dbLock' = Absent /\ told' \in {"failed", "attention"} /\ writer = p
        /\ UNCHANGED <<live, wanted, placed, failed, writer, before>>
    BY SyncAlone DEF RolledBack, Point, SyncInv, SyncProgress, ProgressOf,
       DbFiles, Syncing
  <1>1. /\ syncer' \in [Syncers -> [at : SyncPoints, file : 0..(LastFile + 1)]]
        /\ syncer'[p].at = "done"
        /\ \A q \in Syncers : q # p => syncer'[q] = syncer[q]
    BY <1>0, Stepped DEF SyncPoints
  <1>2. \A f \in DbFiles : Settled(p, f)
    BY <1>0 DEF Withdrawing, DbFiles
  <1>3. CASE told' = "failed"
    <2>1. ~failed[p] /\ backup' = [backup EXCEPT ![p] = [f \in DbFiles |-> Absent]]
      BY <1>3 DEF RolledBack
    <2>2. [f \in DbFiles |-> Absent] \in [DbFiles -> Contents]
      BY DEF Contents
    <2>3. /\ backup' \in [Syncers -> [DbFiles -> Contents]]
          /\ \A q \in Syncers : q # p => backup'[q] = backup[q]
          /\ \A f \in DbFiles : backup'[p][f] = Absent
      BY <1>0, <2>1, <2>2 DEF SyncTypeOK
    <2>4. SyncTypeOK'
      BY <1>0, <1>1, <2>3 DEF SyncTypeOK
    <2>5. \A f \in DbFiles : live[f] = before[f]
      BY <1>2, <2>1 DEF Settled
    <2>6. OldSetRecoverable'
      BY <1>0, <2>5 DEF OldSetRecoverable
    <2> QED BY <1>0, <1>1, <2>3, <2>4, <2>6, EndStep DEF Syncing
  <1>4. CASE told' = "attention"
    <2>1. backup' = backup
      BY <1>4 DEF RolledBack
    <2>2. SyncTypeOK'
      BY <1>0, <1>1, <2>1 DEF SyncTypeOK
    <2>3. OldSetRecoverable'
      BY <1>0, <1>2, <2>1 DEF OldSetRecoverable, Settled
    <2> QED BY <1>0, <1>1, <2>1, <2>2, <2>3, EndStep DEF Syncing
  <1> QED BY <1>0, <1>3, <1>4

\* A kill changes no file.
LEMMA KilledStep == ASSUME SyncInv, NEW p \in Syncers, SyncKilled(p) PROVE SyncInv'
  <1> USE SyncConstants
  <1>0. /\ SyncTypeOK /\ Step(p, "done", 0) /\ DbFiles' = DbFiles
        /\ syncer[p].at \in Syncing \cup {"downloaded"}
        /\ told' = IF dbLock = p THEN "killed" ELSE told
        /\ UNCHANGED <<live, dbLock, wanted, backup, placed, failed, writer, before>>
    BY DEF SyncKilled, SyncInv, SyncTypeOK, SyncPoints, Syncing, DbFiles
  <1>1. /\ syncer' \in [Syncers -> [at : SyncPoints, file : 0..(LastFile + 1)]]
        /\ syncer'[p].at = "done"
        /\ \A q \in Syncers : q # p => syncer'[q] = syncer[q]
    BY <1>0, Stepped DEF SyncPoints
  <1>2. SyncTypeOK'
    BY <1>0, <1>1 DEF SyncTypeOK
  <1>3. CASE syncer[p].at = "downloaded"
    <2>1. told' = told
      BY <1>0, <1>3 DEF SyncInv, SyncLocked
    <2> QED BY <1>0, <1>1, <1>2, <1>3, <2>1, OutsiderStep
  <1>4. CASE syncer[p].at \in Syncing
    <2>1. told' = "killed"
      BY <1>0, <1>4, SyncAlone
    <2>2. OldSetRecoverable'
      BY <1>0, OldSetFound DEF OldSetRecoverable
    <2> QED BY <1>0, <1>1, <1>2, <1>4, <2>1, <2>2, EndStep
  <1> QED BY <1>0, <1>3, <1>4

-----------------------------------------------------------------------------
\* The invariant holds throughout.
THEOREM SyncInvariant == SyncSpec => []SyncInv
  <1>1. ASSUME SyncInv, UNCHANGED syncVars PROVE SyncInv'
    <2>1. SyncTypeOK' /\ SyncLocked' /\ SyncFresh' /\ SyncAnswered'
      BY <1>1 DEF syncVars, SyncInv, SyncTypeOK, SyncLocked, SyncFresh,
         SyncAnswered,
         OldSetRecoverable, DbFiles
    <2>2. SyncProgress'
      BY <1>1 DEF syncVars, SyncInv, SyncProgress, ProgressOf, BackingUp,
         Publishing,
         Withdrawing, Restoring, Pending, Settled, DbFiles
    <2> QED BY <2>1, <2>2 DEF SyncInv
  <1>2. SyncInv /\ [SyncNext]_syncVars => SyncInv'
    BY <1>1, DownloadStep, RefusedStep, LockStep, BackupStep, PublishStep,
       DirectoryStep,
       CommittedStep, WithdrawStep, RestoreStep, RolledBackStep, KilledStep DEF SyncNext
  <1> QED BY <1>2, SyncInitially, PTL DEF SyncSpec

\* Until the whole new set is in place every file the publication found is
\* live or in the staging directory, whatever fails and wherever the process
\* is killed (commit_staged_files, rollback_database_publication).
THEOREM OldSetStays == SyncSpec => []OldSetRecoverable
  BY OldSetFound, SyncInvariant, PTL

\* Every step of the sync is one that AllOrNothing allows, or none.
LEMMA SyncStepImplements ==
  SyncInv /\ [SyncNext]_syncVars => [Sync!Next]_<<SyncState, told>>
  <1> SUFFICES ASSUME SyncInv, [SyncNext]_syncVars
               PROVE  Sync!Next \/ UNCHANGED <<SyncState, told>>
    OBVIOUS
  <1> USE SyncConstants
  <1>0. SyncState' \in Sync!States
    BY DEF SyncState, Sync!States
  <1>1. ASSUME NEW p \in Syncers, syncer[p].at \in {"idle", "downloaded"},
               UNCHANGED <<live, writer, before, told>>,
               \A q \in Syncers : q # p => wanted'[q] = wanted[q]
        PROVE  UNCHANGED <<SyncState, told>>
    <2>1. writer = Absent \/ wanted'[writer] = wanted[writer]
      BY <1>1 DEF SyncInv, SyncTypeOK, SyncLocked
    <2>2. DbFiles' = DbFiles
      BY DEF DbFiles
    <2> QED BY <1>1, <2>1, <2>2 DEF SyncState
  <1>2. ASSUME NEW p \in Syncers, Download(p) \/ Refused(p)
        PROVE  UNCHANGED <<SyncState, told>>
    <2>1. /\ syncer[p].at \in {"idle", "downloaded"}
          /\ UNCHANGED <<live, writer, before, told>>
      BY <1>2 DEF Download, Refused, Point
    <2>2. \A q \in Syncers : q # p => wanted'[q] = wanted[q]
      BY <1>2 DEF Download, Refused, SyncInv, SyncTypeOK
    <2> QED BY <1>1, <2>1, <2>2
  <1>3. ASSUME NEW p \in Syncers, LockDatabase(p)
        PROVE  Sync!Next \/ UNCHANGED <<SyncState, told>>
    <2>1. SyncState' = "before" /\ told' = "none"
      BY <1>3 DEF LockDatabase, SyncState
    <2>2. CASE told # "none"
      BY <2>1, <2>2 DEF Sync!Next, Sync!Again
    <2>3. CASE told = "none"
      <3>1. writer = Absent
        BY <1>3, <2>3 DEF LockDatabase, SyncInv, SyncTypeOK, SyncLocked
      <3> QED BY <2>1, <2>3, <3>1 DEF SyncState
    <2> QED BY <2>2, <2>3
  <1>4. ASSUME NEW p \in Syncers,
               Backup(p) \/ Publish(p) \/ SyncDirectory(p) \/ Withdraw(p) \/ Restore(p)
        PROVE  Sync!Next
    <2>1. syncer[p].at \in Syncing /\ told' = told
      BY <1>4 DEF Backup, Publish, SyncDirectory, Withdraw, Restore, Point,
         Syncing
    <2>2. told = "none"
      BY <2>1, SyncAlone
    <2> QED BY <1>0, <2>1, <2>2 DEF Sync!Next, Sync!Replace
  <1>5. ASSUME NEW p \in Syncers, Committed(p) \/ RolledBack(p) \/ SyncKilled(p)
        PROVE  SyncState' = SyncState
    <2>1. UNCHANGED <<live, wanted, writer, before>> /\ DbFiles' = DbFiles
      BY <1>5 DEF Committed, RolledBack, SyncKilled, DbFiles
    <2> QED BY <2>1 DEF SyncState
  <1>6. ASSUME NEW p \in Syncers, Committed(p) PROVE Sync!Next
    <2>1. /\ syncer[p].at = "clean" /\ told = "none" /\ writer = p /\ p # Absent
          /\ Publishing(p, LastFile + 1)
      BY <1>6, SyncAlone DEF Committed, Point, Syncing, SyncInv,
         SyncProgress, ProgressOf
    <2>2. 1 \in DbFiles /\ 1 \in wanted[p] /\ before[1] # p
      BY <2>1 DEF SyncInv, SyncFresh, Syncing, DbFiles
    <2>3. \A f \in DbFiles : live[f] = IF f \in wanted[p] THEN p ELSE before[f]
      BY <2>1 DEF Publishing, DbFiles
    <2>4. live = [f \in DbFiles |-> IF f \in wanted[p] THEN p ELSE before[f]]
      BY <2>3 DEF SyncInv, SyncTypeOK
    <2>5. live # before
      BY <2>2, <2>3
    <2>6. SyncState = "after"
      BY <2>1, <2>4, <2>5 DEF SyncState
    <2>7. told' \in {"ok", "attention"}
      BY <1>6 DEF Committed
    <2> QED BY <1>5, <1>6, <2>1, <2>6, <2>7 DEF Sync!Next, Sync!Succeed,
       Sync!GiveUp
  <1>7. ASSUME NEW p \in Syncers, RolledBack(p) PROVE Sync!Next
    <2>1. syncer[p].at = "withdraw" /\ told = "none" /\ Withdrawing(p, 0) /\ SyncTypeOK
      BY <1>7, SyncAlone DEF RolledBack, Point, Syncing, SyncInv,
         SyncProgress, ProgressOf
    <2>2. CASE told' = "failed"
      <3>1. \A f \in DbFiles : Settled(p, f)
        BY <2>1 DEF Withdrawing, DbFiles
      <3>2. ~failed[p]
        BY <1>7, <2>2 DEF RolledBack
      <3>3. \A f \in DbFiles : live[f] = before[f]
        BY <3>1, <3>2 DEF Settled
      <3>4. live = before
        BY <2>1, <3>3 DEF SyncTypeOK
      <3>5. SyncState = "before"
        BY <3>4 DEF SyncState
      <3> QED BY <1>5, <1>7, <2>1, <2>2, <3>5 DEF Sync!Next, Sync!Fail
    <2>3. CASE told' = "attention"
      BY <1>5, <1>7, <2>1, <2>3 DEF Sync!Next, Sync!GiveUp
    <2> QED BY <1>7, <2>2, <2>3 DEF RolledBack
  <1>8. ASSUME NEW p \in Syncers, SyncKilled(p)
        PROVE  Sync!Next \/ UNCHANGED <<SyncState, told>>
    <2>1. CASE dbLock = p
      <3>1. syncer[p].at \in Syncing /\ told' = "killed"
        BY <1>8, <2>1 DEF SyncKilled, Syncing, SyncInv, SyncTypeOK,
           SyncPoints, SyncLocked
      <3>2. told = "none"
        BY <3>1, SyncAlone
      <3> QED BY <1>5, <1>8, <3>1, <3>2 DEF Sync!Next, Sync!GiveUp
    <2>2. CASE dbLock # p
      <3>1. told' = told
        BY <1>8, <2>2 DEF SyncKilled
      <3> QED BY <1>5, <1>8, <3>1
    <2> QED BY <2>1, <2>2
  <1>9. CASE UNCHANGED syncVars
    <2>1. UNCHANGED <<live, wanted, writer, before, told>> /\ DbFiles' = DbFiles
      BY <1>9 DEF syncVars, DbFiles
    <2> QED BY <2>1 DEF SyncState
  <1> QED
    BY <1>2, <1>3, <1>4, <1>6, <1>7, <1>8, <1>9 DEF SyncNext

\* The sync implements AllOrNothing: "ok" means that every staged file is live
\* and no other one changed, an ordinary failure that nothing changed
\* (commit_staged_files).
THEOREM SyncImplements == SyncSpec => SyncAllOrNothing
  <1>1. SyncInit => Sync!Init
    BY DEF SyncInit, Sync!Init, SyncState
  <1> QED
    BY <1>1, SyncStepImplements, SyncInvariant, PTL
    DEF SyncSpec, SyncAllOrNothing, Sync!Spec
=============================================================================
