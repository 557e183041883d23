----------------------------- MODULE UsageStats -----------------------------
(***************************************************************************)
(* Usage statistics (core/usage.rs): commands add to usage.json under a    *)
(* lock, and a background task posts a snapshot that it read without the   *)
(* lock and notes the time of the post afterwards.                         *)
(***************************************************************************)
EXTENDS Naturals

CONSTANTS
  Trackers,     \* processes
  NoTracker,    \* nobody
  MaxDay,       \* bound: days
  MonthLength,  \* days of a month
  MaxTracked    \* bound: commands tracked

ASSUME UsageConstants ==
  NoTracker \notin Trackers /\ MonthLength \in Nat \ {0} /\ MaxDay \in Nat \ {0}

VARIABLES
  day,        \* today
  usage,      \* usage.json
  usageLock,  \* holder of usage.lock
  tracker,    \* per process: control point and the statistics it has loaded
  counted,    \* commands whose statistics were saved
  activeDays, \* the days they were recorded on
  rewound     \* a command was saved under a date before the last one

usageVars == <<day, usage, usageLock, tracker, counted, activeDays, rewound>>

NoUsage == [total |-> 0, month |-> 0, today |-> 0, installs |-> 0, streak |-> 0, longest |-> 0,
            lastDay |-> 0, lastMonth |-> 0, lastSync |-> 0]
MonthOf(d) == (d - 1) \div MonthLength + 1
TrackAt(p, point, stats) == tracker' = [tracker EXCEPT ![p] = [at |-> point, stats |-> stats]]
TrackingEnds(p) ==
  TrackAt(p, "idle", NoUsage) /\ usageLock' = IF usageLock = p THEN NoTracker ELSE usageLock

UsageInit ==
  /\ day = 1 /\ usage = NoUsage /\ usageLock = NoTracker /\ counted = 0 /\ activeDays = {}
  /\ rewound = FALSE
  /\ tracker = [p \in Trackers |-> [at |-> "idle", stats |-> NoUsage]]

\* The date is the local civil date (Zoned::now().date()).
Midnight ==
  /\ day < MaxDay /\ day' = day + 1
  /\ UNCHANGED <<usage, usageLock, tracker, counted, activeDays, rewound>>

\* A traveller's time zone, a clock that is corrected.
DateGoesBack ==
  /\ \E d \in 1..(day - 1) : day' = d
  /\ UNCHANGED <<usage, usageLock, tracker, counted, activeDays, rewound>>

-----------------------------------------------------------------------------
(* record_command_on.                                                      *)

\* Mutation: a pause does not end the streak.
StreakKept(stats) ==
  IF stats.lastDay = 0 THEN 1
  ELSE IF day >= stats.lastDay + 1 THEN stats.streak + 1 ELSE stats.streak

\* A day after the last one extends the streak, a longer pause ends it, and a
\* date before the last one leaves it as it is.
Streak(stats) ==
  IF stats.lastDay = 0 \/ day > stats.lastDay + 1 THEN 1
  ELSE IF day = stats.lastDay + 1 THEN stats.streak + 1 ELSE stats.streak

\* rollover_for: the counters of the day and of the month start again.
RolledOver(stats) ==
  LET streak == Streak(stats)
      same == stats.lastDay = day
  IN
  [stats EXCEPT !.streak = streak, !.longest = IF streak > @ THEN streak ELSE @,
                !.today = IF same THEN @ ELSE 0, !.installs = IF same THEN @ ELSE 0,
                !.lastDay = day,
                !.month = IF stats.lastMonth # MonthOf(day) THEN 0 ELSE @,
                !.lastMonth = MonthOf(day)]

Recorded(stats, install) ==
  LET now == RolledOver(stats) IN
  [now EXCEPT !.total = @ + 1, !.today = @ + 1, !.month = @ + 1,
              !.installs = IF install THEN @ + 1 ELSE @]

-----------------------------------------------------------------------------
\* track, track_install: no lock, no update
Track(p) ==
  /\ tracker[p].at = "idle" /\ usageLock = NoTracker /\ usage.total < MaxTracked
  /\ usageLock' = p /\ TrackAt(p, "load", NoUsage)
  /\ UNCHANGED <<day, usage, counted, activeDays, rewound>>

Record(p) ==
  /\ tracker[p].at = "load"
  /\ \E install \in BOOLEAN : TrackAt(p, "save", Recorded(usage, install))
  /\ UNCHANGED <<day, usage, usageLock, counted, activeDays, rewound>>

\* save_best_effort
SaveUsage(p) ==
  /\ tracker[p].at = "save" /\ usage' = tracker[p].stats
  /\ counted' = counted + 1 /\ activeDays' = activeDays \cup {usage'.lastDay}
  /\ rewound' = (rewound \/ usage'.lastDay < usage.lastDay)
  /\ TrackingEnds(p)
  /\ UNCHANGED day

\* sync_candidate reads the file without the lock; the payload goes out.
Post(p) ==
  /\ tracker[p].at = "idle" /\ usage.total > 0
  /\ TrackAt(p, "posted", usage)
  /\ UNCHANGED <<day, usage, usageLock, counted, activeDays, rewound>>

\* Mutation: the posted snapshot is written back.
SnapshotNoted(p) ==
  /\ tracker[p].at = "posted" /\ usageLock = NoTracker
  /\ usageLock' = p /\ TrackAt(p, "note", [tracker[p].stats EXCEPT !.lastSync = day])
  /\ UNCHANGED <<day, usage, counted, activeDays, rewound>>

\* update_locked: only the time of the post goes into the statistics read now.
LoadToNote(p) ==
  /\ tracker[p].at = "posted" /\ usageLock = NoTracker
  /\ usageLock' = p /\ TrackAt(p, "note", [usage EXCEPT !.lastSync = day])
  /\ UNCHANGED <<day, usage, counted, activeDays, rewound>>

NotePost(p) ==
  /\ tracker[p].at = "note" /\ usage' = tracker[p].stats /\ TrackingEnds(p)
  /\ UNCHANGED <<day, counted, activeDays, rewound>>

\* A post that is refused or times out, a file that cannot be read or replaced, a kill.
TrackerStops(p) ==
  /\ tracker[p].at # "idle" /\ TrackingEnds(p)
  /\ UNCHANGED <<day, usage, counted, activeDays, rewound>>

UsageNext ==
  \/ Midnight \/ DateGoesBack
  \/ \E p \in Trackers :
       \/ Track(p) \/ Record(p) \/ SaveUsage(p)
       \/ Post(p) \/ LoadToNote(p) \/ NotePost(p) \/ TrackerStops(p)

UsageSpec == UsageInit /\ [][UsageNext]_usageVars

-----------------------------------------------------------------------------
(* Properties.                                                             *)

\* Every variable has its type.
UsageTypeOK ==
  /\ day \in 1..MaxDay /\ usageLock \in Trackers \cup {NoTracker} /\ counted \in Nat
  /\ activeDays \subseteq 1..MaxDay /\ rewound \in BOOLEAN

\* No concurrent command and no late answer to a post takes a saved command out of
\* the statistics again (with_usage_lock, update_locked), and the counters of a
\* day fit into those of its month and these into the total at every change of
\* day and month (rollover_for).
EveryCommandCounted ==
  /\ usage.total = counted
  /\ usage.installs <= usage.today /\ usage.today <= usage.month /\ usage.month <= usage.total

RunOfDays(from, to) == from..to \subseteq activeDays

\* As long as the dates of the saved commands have never gone back, the current
\* streak is the run of active days that ends with the last one, and the longest
\* streak the longest run there has been.  Whatever the date does (rollover_for
\* keeps the streak and takes the earlier date, so that the days that follow count
\* again), a streak has at most one day per saved command.
StreaksAreRuns ==
  usage.total > 0 =>
    /\ 1 <= usage.streak /\ usage.streak <= usage.longest /\ usage.longest <= usage.total
    /\ ~rewound =>
         /\ \A n \in 1..usage.lastDay :
              RunOfDays(usage.lastDay - n + 1, usage.lastDay) <=> n <= usage.streak
         /\ \A from, to \in 1..MaxDay :
              from <= to /\ RunOfDays(from, to) => to - from + 1 <= usage.longest
         /\ \E from \in 1..MaxDay : RunOfDays(from, from + usage.longest - 1)
=============================================================================
