---------------------------- MODULE DaemonCatalog ----------------------------
(***************************************************************************)
(* The package catalogue of omgd: the published index, the caches derived  *)
(* from it, the persisted status snapshot, and every request that reads or *)
(* replaces them (src/daemon/handlers.rs, cache.rs, db.rs, and the status  *)
(* worker of server.rs).                                                   *)
(*                                                                         *)
(* Package data is abstracted to the version of the databases it was read  *)
(* from: a version has one counter for the repository databases and one    *)
(* for the installed-package database.  Every cache keeps one              *)
(* representative key: two queries never touch each other's entries.       *)
(***************************************************************************)
EXTENDS Naturals

CONSTANTS
  Clients,       \* connections that may each have one request in flight
  Worker,        \* the background status worker
  Backend,       \* "arch", "dnf" or "apt" (any backend without observations)
  Kinds,         \* the request kinds clients send
  Free, Native,  \* refresh_lock: nobody / a native task outliving its request
  MaxRepo, MaxInst, MaxRequests, MaxRounds, MaxCrashes  \* bounds of the model

AllKinds == {"search", "debian", "suggest", "info", "status",
             "explicit", "count", "refresh", "clear"}

ASSUME CatalogConstants ==
  /\ Backend \in {"arch", "dnf", "apt"}
  /\ Kinds \subseteq AllKinds
  /\ Worker \notin Clients
  /\ {Free, Native} \cap (Clients \cup {Worker}) = {}
  /\ Free # Native
  /\ {MaxRepo, MaxInst, MaxRequests, MaxRounds, MaxCrashes} \subseteq Nat

VARIABLES
  disk,        \* version of the native package databases
  daemon,      \* "down", "loading", "up"
  index,       \* PublishedIndex, with index_generation as gen
  writer,      \* holder of the index write lock, or Free
  readers,     \* actors inside a with_current_index action
  refreshLock, \* holder of refresh_lock
  build,       \* the rebuild in progress, owned by the refresh_lock holder
  debounce,    \* the last refresh completed less than REFRESH_DEBOUNCE ago
  cache,       \* PackageCache: sub-cache |-> {} or {entry}
  persisted,   \* status-cache.json: {} or {snapshot}
  legible,     \* FALSE: the file is malformed or of an unknown version
  fastStatus,  \* omg.status: {} or {version}
  pc, kind, loc,     \* per actor: control point, request kind, locals
  began, answer,     \* per client: disk when the request began; its answer
  spent        \* how much of each bound has been used

catalogVars == <<index, writer, readers, refreshLock, build, debounce>>
cacheVars == <<cache, persisted, legible, fastStatus>>
actorVars == <<pc, kind, loc, began, answer>>
vars == <<disk, daemon, catalogVars, cacheVars, actorVars, spent>>

Actors == Clients \cup {Worker}
Subs == {"search", "debian", "info", "miss", "status", "list", "count"}
Version == [repo : Nat, inst : Nat]
Entry == [gen : Nat, ver : Version]
Snapshot == [ver : Version, orphan : BOOLEAN]
Published == [gen : Nat, lo : Version, hi : Version, epoch : Version]
Build == [lo : Version, hi : Version, epoch : Version, tries : 0..2]

Zero == [repo |-> 0, inst |-> 0]
AtLeast(v, w) == v.repo >= w.repo /\ v.inst >= w.inst

EmptyCache == [s \in Subs |-> {}]
NoAnswer == [ver |-> Zero, via |-> "none"]
NoBuild == [lo |-> Zero, hi |-> Zero, epoch |-> Zero, tries |-> 0]
NoLocals == [gen |-> 0, ver |-> Zero, sub |-> "search"]

Vias == {"none", "error", "cache", "index", "live", "persisted", "orphan",
         "rebuilt", "coalesced", "debounced", "cleared"}

PCs == {"idle", "observe", "compare", "lock", "generation", "decide",
        "epoch", "load", "read", "backends", "recheck", "publish", "clear",
        "invalidate", "record", "swap",
        "lookup", "persistent", "snapshot", "backend", "guard", "insert",
        "insertList", "counts", "fast", "scan", "dropList", "insertCount",
        "insertStatus"}

-----------------------------------------------------------------------------
(* What a backend lets the daemon observe about the databases on disk.     *)

\* Does an observation v no longer match w?  Arch compares the identities of
\* the sync and the local databases, DNF the installed rows only, and the
\* other backends have no observation at all.
Differs(v, w) == \/ Backend = "arch" /\ v # w
                 \/ Backend = "dnf" /\ v.inst # w.inst

\* Request::reads_arch_sync_catalog
ReadsArchSyncCatalog == {"search", "info", "suggest", "status", "explicit", "count"}

\* The requests handle_request heals the index for before it dispatches.
Heals(k) == \/ Backend = "arch" /\ k \in ReadsArchSyncCatalog
            \/ Backend = "dnf" /\ k \in {"search", "suggest"}

\* handle_info bypasses the name-keyed caches under DNF.
CachesInfo == Backend # "dnf"

SubOf(k) == CASE k = "search" -> "search" [] k = "debian" -> "debian"
              [] k = "info" -> "info" [] k = "status" -> "status"
              [] k = "explicit" -> "list" [] OTHER -> "count"

Looks(k) == \/ k \in {"search", "debian", "status", "explicit", "count"}
            \/ k = "info" /\ CachesInfo

Init ==
  /\ disk = Zero /\ daemon = "down"
  /\ index = [gen |-> 0, lo |-> Zero, hi |-> Zero, epoch |-> Zero]
  /\ writer = Free /\ readers = {} /\ refreshLock = Free
  /\ build = NoBuild /\ debounce = FALSE
  /\ cache = EmptyCache /\ persisted = {} /\ legible \in BOOLEAN
  /\ fastStatus = {}
  /\ pc = [a \in Actors |-> "idle"]
  /\ kind = [a \in Actors |-> "search"]
  /\ loc = [a \in Actors |-> NoLocals]
  /\ began = [c \in Clients |-> Zero]
  /\ answer = [c \in Clients |-> NoAnswer]
  /\ spent = [requests |-> [c \in Clients |-> 0], rounds |-> 0, crashes |-> 0]

-----------------------------------------------------------------------------
(* The world outside the daemon.                                           *)

\* A package manager or `omg sync` rewrites the repository databases, or
\* installs or removes packages.
DatabasesChange ==
  /\ \/ disk.repo < MaxRepo /\ disk' = [disk EXCEPT !.repo = @ + 1]
     \/ disk.inst < MaxInst /\ disk' = [disk EXCEPT !.inst = @ + 1]
  /\ UNCHANGED <<daemon, catalogVars, cacheVars, actorVars, spent>>

\* TTL expiry or eviction of one entry.
Expire(s) ==
  /\ cache[s] # {}
  /\ cache' = [cache EXCEPT ![s] = {}]
  /\ UNCHANGED <<disk, daemon, catalogVars, persisted, legible, fastStatus,
                 actorVars, spent>>

\* The persisted snapshot reaches max_age.
ExpirePersisted ==
  /\ persisted # {}
  /\ persisted' = {}
  /\ UNCHANGED <<disk, daemon, catalogVars, cache, legible, fastStatus,
                 actorVars, spent>>

\* REFRESH_DEBOUNCE elapses.
DebounceElapses ==
  /\ debounce /\ debounce' = FALSE
  /\ UNCHANGED <<disk, daemon, index, writer, readers, refreshLock, build,
                 cacheVars, actorVars, spent>>

\* The process dies: everything but the two status files is gone.  A
\* snapshot a dead daemon left behind is marked as an orphan.
Crash ==
  /\ daemon # "down" /\ spent.crashes < MaxCrashes
  /\ spent' = [spent EXCEPT !.crashes = @ + 1]
  /\ daemon' = "down"
  /\ index' = [gen |-> 0, lo |-> Zero, hi |-> Zero, epoch |-> Zero]
  /\ writer' = Free /\ readers' = {} /\ refreshLock' = Free
  /\ build' = NoBuild /\ debounce' = FALSE
  /\ cache' = EmptyCache
  /\ persisted' = {[s EXCEPT !.orphan = TRUE] : s \in persisted}
  /\ pc' = [a \in Actors |-> "idle"]
  /\ loc' = [a \in Actors |-> NoLocals]
  /\ answer' = [c \in Clients |-> NoAnswer]
  /\ UNCHANGED <<disk, legible, fastStatus, kind, began>>

-----------------------------------------------------------------------------
(* DaemonState::new.                                                       *)

StartLoad ==
  /\ daemon = "down" /\ daemon' = "loading"
  /\ build' = [lo |-> disk, hi |-> Zero, epoch |-> disk, tries |-> 0]
  /\ UNCHANGED <<disk, index, writer, readers, refreshLock, debounce,
                 cacheVars, actorVars, spent>>

\* Mutation: the catalogue is loaded without the second observation.
StartServeUnchecked ==
  /\ daemon = "loading" /\ daemon' = "up"
  /\ index' = [gen |-> 0, lo |-> build.lo, hi |-> disk, epoch |-> build.epoch]
  /\ build' = NoBuild
  /\ UNCHANGED <<disk, writer, readers, refreshLock, debounce, cacheVars,
                 actorVars, spent>>

\* load_stable (Arch) and load_observed_index (DNF) discard a catalogue that
\* changed while it was read; the other backends take what they read.
StartServe ==
  /\ daemon = "loading" /\ ~Differs(disk, build.epoch)
  /\ daemon' = "up"
  /\ index' = [gen |-> 0, lo |-> build.lo, hi |-> disk, epoch |-> build.epoch]
  /\ build' = NoBuild
  /\ UNCHANGED <<disk, writer, readers, refreshLock, debounce, cacheVars,
                 actorVars, spent>>

\* The error ends the process, or (DNF) the load starts over.
StartFails ==
  /\ daemon = "loading" /\ daemon' = "down"
  /\ build' = NoBuild
  /\ UNCHANGED <<disk, index, writer, readers, refreshLock, debounce,
                 cacheVars, actorVars, spent>>

-----------------------------------------------------------------------------
(* How an actor's work ends.                                               *)

Goto(a, p) == pc' = [pc EXCEPT ![a] = p]

\* The client receives its response; the worker goes on from a status refresh
\* to pre-warming the explicit list, then the searches, then sleeps.
Finish(a, v, via) ==
  IF a = Worker
  THEN /\ kind' = [kind EXCEPT ![a] =
                     IF @ = "maintain" THEN "explicit" ELSE "search"]
       /\ Goto(a, IF kind[a] = "search" THEN "idle" ELSE "snapshot")
       /\ loc' = [loc EXCEPT ![a] = NoLocals]
       /\ UNCHANGED <<began, answer>>
  ELSE /\ Goto(a, "idle")
       /\ loc' = [loc EXCEPT ![a] = NoLocals]
       /\ answer' = [answer EXCEPT ![a] = [ver |-> v, via |-> via]]
       /\ UNCHANGED <<kind, began>>

\* Dropping the refresh guard, if a holds it.
Unlocked(a) == IF refreshLock = a THEN Free ELSE refreshLock

-----------------------------------------------------------------------------
(* handle_request: accept, heal, dispatch.                                 *)

Begin(c, k) ==
  /\ daemon = "up" /\ pc[c] = "idle" /\ spent.requests[c] < MaxRequests
  /\ spent' = [spent EXCEPT !.requests[c] = @ + 1]
  /\ kind' = [kind EXCEPT ![c] = k]
  /\ began' = [began EXCEPT ![c] = disk]
  /\ answer' = [answer EXCEPT ![c] = NoAnswer]
  /\ Goto(c, IF k = "refresh" THEN "generation"
             ELSE IF Heals(k) THEN "observe" ELSE "lookup")
  /\ UNCHANGED <<disk, daemon, catalogVars, cacheVars, loc>>

\* Mutation: the installed inventory is observed once, when the index loads.
ObserveLoaded(c) ==
  /\ pc[c] = "observe"
  /\ loc' = [loc EXCEPT ![c].ver = index.epoch]
  /\ Goto(c, "compare")
  /\ UNCHANGED <<disk, daemon, catalogVars, cacheVars, kind, began, answer, spent>>

\* catalog_needs_heal / installed_catalog_needs_heal, first half: look at the
\* databases.  The same two steps run again under refresh_lock.
Observe(c) ==
  /\ pc[c] = "observe"
  /\ loc' = [loc EXCEPT ![c].ver = disk]
  /\ Goto(c, "compare")
  /\ UNCHANGED <<disk, daemon, catalogVars, cacheVars, kind, began, answer, spent>>

\* What the comparison may find: on Arch an observation that failed counts as a
\* difference (under DNF it fails the request, like a timeout).
Stale(c) == {Differs(loc[c].ver, index.epoch)} \cup (IF Backend = "arch" THEN {TRUE} ELSE {})

\* Mutation: a request that finds a refresh running does not wait for it.
CompareWithoutWaiting(c) ==
  /\ pc[c] = "compare" /\ writer = Free
  /\ \E stale \in Stale(c) :
       /\ Goto(c, IF ~stale \/ refreshLock \notin {c, Free} THEN "lookup"
                  ELSE IF refreshLock = c THEN "epoch" ELSE "lock")
       /\ refreshLock' = IF stale THEN refreshLock ELSE Unlocked(c)
  /\ loc' = [loc EXCEPT ![c] = NoLocals]
  /\ UNCHANGED <<disk, daemon, index, writer, readers, build, debounce,
                 cacheVars, kind, began, answer, spent>>

\* Second half: compare with the published index under its read lock.
Compare(c) ==
  /\ pc[c] = "compare" /\ writer = Free
  /\ \E stale \in Stale(c) :
       /\ Goto(c, IF ~stale THEN "lookup"
                  ELSE IF refreshLock = c THEN "epoch" ELSE "lock")
       /\ refreshLock' = IF stale THEN refreshLock ELSE Unlocked(c)
  /\ loc' = [loc EXCEPT ![c] = NoLocals]
  /\ UNCHANGED <<disk, daemon, index, writer, readers, build, debounce,
                 cacheVars, kind, began, answer, spent>>

Lock(c) ==
  /\ pc[c] = "lock" /\ refreshLock = Free
  /\ refreshLock' = c
  /\ Goto(c, IF kind[c] = "refresh" THEN "decide" ELSE "observe")
  /\ UNCHANGED <<disk, daemon, index, writer, readers, build, debounce,
                 cacheVars, kind, loc, began, answer, spent>>

-----------------------------------------------------------------------------
(* handle_refresh_index.                                                   *)

\* observed_generation, read before refresh_lock is taken.
ObserveGeneration(c) ==
  /\ pc[c] = "generation"
  /\ loc' = [loc EXCEPT ![c].gen = index.gen]
  /\ Goto(c, "lock")
  /\ UNCHANGED <<disk, daemon, catalogVars, cacheVars, kind, began, answer, spent>>

\* Another refresh published while this one waited for the lock.
Coalesce(c) ==
  /\ pc[c] = "decide" /\ index.gen # loc[c].gen
  /\ refreshLock' = Free
  /\ Finish(c, index.lo, "coalesced")
  /\ UNCHANGED <<disk, daemon, index, writer, readers, build, debounce,
                 cacheVars, spent>>

\* Mutation: the debounce ignores a newer catalogue on disk.
ShouldSkipBlindly == debounce /\ Backend # "dnf"

\* RefreshDebounce::should_skip, and the exception for DNF.
ShouldSkip == debounce /\ ~(Backend = "arch" /\ Differs(disk, index.epoch))
                /\ Backend # "dnf"

\* Databases that cannot be observed count as newer here too.
Decide(c) ==
  /\ pc[c] = "decide" /\ index.gen = loc[c].gen
  /\ \/ ShouldSkip /\ Goto(c, "swap")
     \/ (~ShouldSkip \/ Backend = "arch") /\ Goto(c, "epoch")
  /\ UNCHANGED <<disk, daemon, catalogVars, cacheVars, kind, loc, began, answer, spent>>

\* A debounced refresh only swaps in fresh native backends.
Debounced(c) ==
  /\ pc[c] = "swap"
  /\ refreshLock' = Free
  /\ Finish(c, index.lo, "debounced")
  /\ UNCHANGED <<disk, daemon, index, writer, readers, build, debounce,
                 cacheVars, spent>>

\* record_completion runs after the guard is dropped.
RecordCompletion(c) ==
  /\ pc[c] = "record"
  /\ debounce' = TRUE
  /\ Finish(c, loc[c].ver, "rebuilt")
  /\ UNCHANGED <<disk, daemon, index, writer, readers, refreshLock, build,
                 cacheVars, spent>>

-----------------------------------------------------------------------------
(* rebuild_production_index, under refresh_lock.                           *)

ObserveEpoch(c) ==
  /\ pc[c] = "epoch"
  /\ build' = [NoBuild EXCEPT !.epoch = disk]
  /\ Goto(c, "load")
  /\ UNCHANGED <<disk, daemon, index, writer, readers, refreshLock, debounce,
                 cacheVars, kind, loc, began, answer, spent>>

\* load_observed_index: observe the installed rows (DNF), start reading.
LoadStart(c) ==
  /\ pc[c] = "load"
  /\ build' = [build EXCEPT !.lo = disk,
                            !.epoch = IF Backend = "dnf" THEN disk ELSE @]
  /\ Goto(c, "read")
  /\ UNCHANGED <<disk, daemon, index, writer, readers, refreshLock, debounce,
                 cacheVars, kind, loc, began, answer, spent>>

\* The last database has been read; under DNF the observation must still
\* hold, or the load is tried again, three times in all.
LoadEnd(c) ==
  /\ pc[c] = "read"
  /\ build' = [build EXCEPT !.hi = disk]
  /\ Backend = "dnf" => ~Differs(disk, build.epoch)
  /\ Goto(c, "backends")
  /\ UNCHANGED <<disk, daemon, index, writer, readers, refreshLock, debounce,
                 cacheVars, kind, loc, began, answer, spent>>

\* Mutation: the load is retried without counting the attempts.
LoadRetryForever(c) ==
  /\ pc[c] = "read"
  /\ Backend = "dnf" /\ Differs(disk, build.epoch)
  /\ build' = [build EXCEPT !.tries = @ + 1]
  /\ Goto(c, "load")
  /\ UNCHANGED <<disk, daemon, index, writer, readers, refreshLock, debounce,
                 cacheVars, kind, loc, began, answer, spent>>

LoadRetry(c) ==
  /\ pc[c] = "read"
  /\ Backend = "dnf" /\ Differs(disk, build.epoch) /\ build.tries < 2
  /\ build' = [build EXCEPT !.tries = @ + 1]
  /\ Goto(c, "load")
  /\ UNCHANGED <<disk, daemon, index, writer, readers, refreshLock, debounce,
                 cacheVars, kind, loc, began, answer, spent>>

\* refresh_system_backends: the native task checks the expected epoch.
SwapBackends(c) ==
  /\ pc[c] = "backends"
  /\ Backend = "arch" => ~Differs(disk, build.epoch)
  /\ Goto(c, "recheck")
  /\ UNCHANGED <<disk, daemon, catalogVars, cacheVars, kind, loc, began, answer, spent>>

\* The observations bracket the whole rebuild.
Recheck(c) ==
  /\ pc[c] = "recheck" /\ ~Differs(disk, build.epoch)
  /\ Goto(c, "publish")
  /\ UNCHANGED <<disk, daemon, catalogVars, cacheVars, kind, loc, began, answer, spent>>

\* replace_observed_index takes the write lock for three steps: publish the
\* index and its generation, clear the caches, delete the persisted status.
Publish(c) ==
  /\ pc[c] = "publish" /\ writer = Free /\ readers = {}
  /\ writer' = c
  /\ index' = [gen |-> index.gen + 1, lo |-> build.lo, hi |-> build.hi,
               epoch |-> build.epoch]
  /\ Goto(c, "clear")
  /\ UNCHANGED <<disk, daemon, readers, refreshLock, build, debounce,
                 cacheVars, kind, loc, began, answer, spent>>

ClearCaches(c) ==
  /\ pc[c] = "clear"
  /\ cache' = EmptyCache
  /\ Goto(c, "invalidate")
  /\ UNCHANGED <<disk, daemon, catalogVars, persisted, legible, fastStatus,
                 kind, loc, began, answer, spent>>

\* Mutation: publication clears the memory caches only.
InvalidateStatusSkipped(c) ==
  /\ pc[c] = "invalidate"
  /\ writer' = Free /\ refreshLock' = Free
  /\ build' = NoBuild
  /\ loc' = [loc EXCEPT ![c] = [NoLocals EXCEPT !.ver = index.lo]]
  /\ Goto(c, IF kind[c] = "refresh" THEN "record" ELSE "lookup")
  /\ UNCHANGED <<disk, daemon, index, readers, debounce, cacheVars, kind,
                 began, answer, spent>>

\* invalidate_status is best-effort: a file it cannot delete survives, and is
\* marked as an orphan; one it cannot read is left alone.
InvalidateStatus(c) ==
  /\ pc[c] = "invalidate"
  /\ \/ legible /\ persisted' = {}
     \/ persisted' = {[s EXCEPT !.orphan = TRUE] : s \in persisted}
  /\ writer' = Free /\ refreshLock' = Free
  /\ build' = NoBuild
  /\ loc' = [loc EXCEPT ![c] = [NoLocals EXCEPT !.ver = index.lo]]
  /\ Goto(c, IF kind[c] = "refresh" THEN "record" ELSE "lookup")
  /\ UNCHANGED <<disk, daemon, index, readers, debounce, cache, legible,
                 fastStatus, kind, began, answer, spent>>

\* Any step of the rebuild may fail (and must, when its check refuses); the
\* guard is dropped and the caller answers with an internal error.
BuildFails(c) ==
  /\ pc[c] \in {"epoch", "load", "read", "backends", "recheck", "swap"}
  /\ refreshLock' = Free /\ build' = NoBuild
  /\ Finish(c, Zero, "error")
  /\ UNCHANGED <<disk, daemon, index, writer, readers, debounce, cacheVars, spent>>

-----------------------------------------------------------------------------
(* Answering from the caches, the index and the backend.                   *)

\* A memory-cache hit; handle_info also answers from the negative cache.
LookupHit(c) ==
  /\ pc[c] = "lookup" /\ Looks(kind[c])
  /\ \E s \in {SubOf(kind[c])} \cup (IF kind[c] = "info" THEN {"miss"} ELSE {}) :
       /\ s = "miss" => cache["info"] = {}
       /\ \E e \in cache[s] : Finish(c, e.ver, "cache")
  /\ UNCHANGED <<disk, daemon, catalogVars, cacheVars, spent>>

LookupMiss(c) ==
  /\ pc[c] = "lookup" /\ kind[c] # "clear"
  /\ Looks(kind[c]) => cache[SubOf(kind[c])] = {}
  /\ kind[c] = "info" /\ CachesInfo => cache["miss"] = {}
  /\ Goto(c, IF kind[c] = "status" THEN "persistent" ELSE "snapshot")
  /\ UNCHANGED <<disk, daemon, catalogVars, cacheVars, kind, loc, began, answer, spent>>

\* Request::CacheClear takes no lock.
CacheClear(c) ==
  /\ pc[c] = "lookup" /\ kind[c] = "clear"
  /\ cache' = EmptyCache
  /\ Finish(c, Zero, "cleared")
  /\ UNCHANGED <<disk, daemon, catalogVars, persisted, legible, fastStatus, spent>>

\* handle_status: the disk snapshot answers, and is not promoted to memory.
PersistedHit(c) ==
  /\ pc[c] = "persistent" /\ legible
  /\ \E s \in persisted :
       Finish(c, s.ver, IF s.orphan THEN "orphan" ELSE "persisted")
  /\ UNCHANGED <<disk, daemon, catalogVars, cacheVars, spent>>

PersistedMiss(c) ==
  /\ pc[c] = "persistent" /\ (legible => persisted = {})
  /\ Goto(c, "backend")
  /\ UNCHANGED <<disk, daemon, catalogVars, cacheVars, kind, loc, began, answer, spent>>

\* index_snapshot.  A search continues with the snapshot's own contents, an
\* inventory read goes to the backend, an info lookup does either.
TakeSnapshot(a) ==
  /\ pc[a] = "snapshot" /\ writer = Free
  /\ loc' = [loc EXCEPT ![a] = [gen |-> index.gen, ver |-> index.lo,
                                sub |-> SubOf(kind[a])]]
  /\ \/ kind[a] \in {"search", "debian", "suggest"} /\ Goto(a, "guard")
     \/ kind[a] = "info" /\ CachesInfo /\ Goto(a, "guard")
     \/ kind[a] \in {"info", "explicit", "count"} /\ Goto(a, "backend")
  /\ UNCHANGED <<disk, daemon, catalogVars, cacheVars, kind, began, answer, spent>>

\* A live read of the backend: list_explicit, info (with the AUR behind it,
\* which may also end in a recorded miss), get_status.
ReadBackend(a) ==
  /\ pc[a] = "backend"
  /\ IF kind[a] = "status" \/ (kind[a] = "info" /\ ~CachesInfo)
     THEN Finish(a, disk, "live")
     ELSE /\ \E s \in IF kind[a] = "info" THEN {"info", "miss"} ELSE {SubOf(kind[a])} :
               loc' = [loc EXCEPT ![a] = [gen |-> @.gen, ver |-> disk, sub |-> s]]
          /\ Goto(a, "guard")
          /\ UNCHANGED <<kind, began, answer>>
  /\ UNCHANGED <<disk, daemon, catalogVars, cacheVars, spent>>

BackendFails(a) ==
  /\ pc[a] = "backend"
  /\ Finish(a, Zero, "error")
  /\ UNCHANGED <<disk, daemon, catalogVars, cacheVars, spent>>

\* Mutation: the snapshots are not compared.
AlwaysCurrent(a) == TRUE

\* with_current_index: take the read lock and compare snapshots.
IsCurrent(a) == loc[a].gen = index.gen

\* Mutation: the guard is given a fresh snapshot instead of the one taken
\* before the backend was read.
EnterLate(a) ==
  /\ pc[a] = "guard" /\ writer = Free /\ kind[a] # "suggest"
  /\ readers' = readers \cup {a}
  /\ loc' = [loc EXCEPT ![a].gen = index.gen]
  /\ Goto(a, IF kind[a] = "explicit" THEN "insertCount" ELSE "insert")
  /\ UNCHANGED <<disk, daemon, index, writer, refreshLock, build, debounce,
                 cacheVars, kind, began, answer, spent>>

Enter(a) ==
  /\ pc[a] = "guard" /\ writer = Free /\ kind[a] # "suggest" /\ IsCurrent(a)
  /\ readers' = readers \cup {a}
  /\ Goto(a, IF kind[a] = "explicit" THEN "insertCount" ELSE "insert")
  /\ UNCHANGED <<disk, daemon, index, writer, refreshLock, build, debounce,
                 cacheVars, kind, loc, began, answer, spent>>

\* A replaced snapshot still answers its own request but is not cached;
\* handle_suggest has no cache.
Refused(a) ==
  /\ pc[a] = "guard" /\ writer = Free
  /\ kind[a] = "suggest" \/ ~IsCurrent(a)
  /\ Finish(a, loc[a].ver, "index")
  /\ UNCHANGED <<disk, daemon, catalogVars, cacheVars, spent>>

Mine(a) == {[gen |-> loc[a].gen, ver |-> loc[a].ver]}

\* insert_arc, insert_debian_arc, insert_info_arc (which drops the recorded
\* miss first), insert_info_miss, update_explicit_count.
Insert(a) ==
  /\ pc[a] = "insert" /\ kind[a] # "maintain"
  /\ cache' = [cache EXCEPT
                 !["miss"] = IF loc[a].sub = "info" THEN {} ELSE @,
                 ![loc[a].sub] = Mine(a)]
  /\ readers' = readers \ {a}
  /\ Finish(a, loc[a].ver, "index")
  /\ UNCHANGED <<disk, daemon, index, writer, refreshLock, build, debounce,
                 persisted, legible, fastStatus, spent>>

\* update_explicit_arc: the count, then the list.
InsertCount(a) ==
  /\ pc[a] = "insertCount"
  /\ cache' = [cache EXCEPT !["count"] = Mine(a)]
  /\ Goto(a, IF kind[a] = "maintain" THEN "insertStatus" ELSE "insertList")
  /\ UNCHANGED <<disk, daemon, catalogVars, persisted, legible, fastStatus,
                 kind, loc, began, answer, spent>>

InsertList(a) ==
  /\ pc[a] = "insertList"
  /\ cache' = [cache EXCEPT !["list"] = Mine(a)]
  /\ readers' = readers \ {a}
  /\ Finish(a, loc[a].ver, "index")
  /\ UNCHANGED <<disk, daemon, index, writer, refreshLock, build, debounce,
                 persisted, legible, fastStatus, spent>>

-----------------------------------------------------------------------------
(* The background worker: refresh_status, then prewarm_caches.             *)

BeginMaintenance ==
  /\ daemon = "up" /\ pc[Worker] = "idle" /\ spent.rounds < MaxRounds
  /\ writer = Free
  /\ spent' = [spent EXCEPT !.rounds = @ + 1]
  /\ kind' = [kind EXCEPT ![Worker] = "maintain"]
  /\ loc' = [loc EXCEPT ![Worker] = [NoLocals EXCEPT !.gen = index.gen]]
  /\ Goto(Worker, "counts")
  /\ UNCHANGED <<disk, daemon, catalogVars, cacheVars, began, answer>>

StatusCounts ==
  /\ pc[Worker] = "counts"
  /\ \/ /\ loc' = [loc EXCEPT ![Worker].ver = disk]
        /\ Goto(Worker, "fast")
        /\ UNCHANGED <<kind, began, answer>>
     \/ Finish(Worker, Zero, "error")
  /\ UNCHANGED <<disk, daemon, catalogVars, cacheVars, spent>>

\* write_fast_status_async: one write under the read lock.
WriteFastStatus ==
  /\ pc[Worker] = "fast" /\ writer = Free
  /\ IF IsCurrent(Worker)
     THEN /\ fastStatus' \in {{loc[Worker].ver}, fastStatus}
          /\ Goto(Worker, "scan")
          /\ UNCHANGED <<kind, loc, began, answer>>
     ELSE fastStatus' = fastStatus /\ Finish(Worker, Zero, "error")
  /\ UNCHANGED <<disk, daemon, catalogVars, cache, persisted, legible, spent>>

\* scan_security and vulnerability_count_from_scan: a completed scan goes on
\* to publication, a failed one only when an earlier count is cached.
ScanSecurity ==
  /\ pc[Worker] = "scan"
  /\ \/ Goto(Worker, "guard") /\ UNCHANGED <<kind, loc, began, answer>>
     \/ cache["status"] = {} /\ Finish(Worker, Zero, "error")
  /\ UNCHANGED <<disk, daemon, catalogVars, cacheVars, spent>>

\* Inside with_current_index: set_status (which refuses an unreadable file
\* and may fail), then update_status.
PersistStatus ==
  /\ pc[Worker] = "insert" /\ kind[Worker] = "maintain"
  /\ persisted' \in {persisted} \cup
       (IF legible THEN {{[ver |-> loc[Worker].ver, orphan |-> FALSE]}} ELSE {})
  /\ Goto(Worker, "dropList")
  /\ UNCHANGED <<disk, daemon, catalogVars, cache, legible, fastStatus,
                 kind, loc, began, answer, spent>>

\* update_status: invalidate the list, insert the count, insert the status.
DropList ==
  /\ pc[Worker] = "dropList"
  /\ cache' = [cache EXCEPT !["list"] = {}]
  /\ Goto(Worker, "insertCount")
  /\ UNCHANGED <<disk, daemon, catalogVars, persisted, legible, fastStatus,
                 kind, loc, began, answer, spent>>

InsertStatus ==
  /\ pc[Worker] = "insertStatus"
  /\ cache' = [cache EXCEPT !["status"] = Mine(Worker)]
  /\ readers' = readers \ {Worker}
  /\ Finish(Worker, Zero, "none")
  /\ UNCHANGED <<disk, daemon, index, writer, refreshLock, build, debounce,
                 persisted, legible, fastStatus, spent>>

-----------------------------------------------------------------------------
(* REQUEST_TIMEOUT drops a request's future at an await point.  A guard it *)
(* holds is released, unless it was moved into the native task, which      *)
(* keeps the lock until it has finished.                                   *)

Awaiting(c) ==
  \/ pc[c] \in {"lock", "load", "read", "backends", "swap", "persistent", "backend"}
  \/ pc[c] = "guard" /\ kind[c] \in {"search", "debian", "suggest"}
  \/ pc[c] \in {"observe", "compare", "recheck"} /\ Backend = "dnf"

TimeOut(c) ==
  /\ Awaiting(c)
  /\ refreshLock' = IF pc[c] \in {"backends", "swap"} THEN Native ELSE Unlocked(c)
  /\ build' = IF refreshLock = c THEN NoBuild ELSE build
  /\ Finish(c, Zero, "error")
  /\ UNCHANGED <<disk, daemon, index, writer, readers, debounce, cacheVars, spent>>

\* Mutation: the native task keeps the guard of the request it outlived.
NativeTaskKeepsLock == refreshLock = Native /\ UNCHANGED vars

NativeTaskEnds ==
  /\ refreshLock = Native
  /\ refreshLock' = Free
  /\ UNCHANGED <<disk, daemon, index, writer, readers, build, debounce,
                 cacheVars, actorVars, spent>>

-----------------------------------------------------------------------------
Rebuild(c) ==
  \/ ObserveEpoch(c) \/ LoadStart(c) \/ LoadEnd(c) \/ LoadRetry(c)
  \/ SwapBackends(c) \/ Recheck(c) \/ Publish(c) \/ ClearCaches(c)
  \/ InvalidateStatus(c) \/ BuildFails(c)

Refresh(c) ==
  \/ ObserveGeneration(c) \/ Coalesce(c) \/ Decide(c) \/ Debounced(c)
  \/ RecordCompletion(c)

Read(a) ==
  \/ TakeSnapshot(a) \/ ReadBackend(a) \/ BackendFails(a)
  \/ Enter(a) \/ Refused(a) \/ Insert(a) \/ InsertCount(a) \/ InsertList(a)

Handle(c) ==
  \/ Observe(c) \/ Compare(c) \/ Lock(c) \/ Refresh(c) \/ Rebuild(c)
  \/ LookupHit(c) \/ LookupMiss(c) \/ CacheClear(c)
  \/ PersistedHit(c) \/ PersistedMiss(c) \/ Read(c)

Maintain ==
  \/ StatusCounts \/ WriteFastStatus \/ ScanSecurity \/ PersistStatus
  \/ DropList \/ InsertStatus \/ Read(Worker)

\* Nothing is in flight: the daemon waits for the next request or tick.
Quiescent == (\A a \in Actors : pc[a] = "idle") /\ UNCHANGED vars

Environment ==
  \/ DatabasesChange \/ ExpirePersisted \/ DebounceElapses \/ Crash
  \/ \E s \in Subs : Expire(s)

Next ==
  \/ Environment \/ StartLoad \/ StartServe \/ StartFails
  \/ \E c \in Clients : (\E k \in Kinds : Begin(c, k)) \/ Handle(c) \/ TimeOut(c)
  \/ BeginMaintenance \/ Maintain \/ NativeTaskEnds \/ Quiescent

Spec == Init /\ [][Next]_vars


\* The runtime keeps polling every task.  tokio's Mutex hands refresh_lock
\* over in FIFO order and std's RwLock does not starve a waiting writer, hence
\* strong fairness for the two lock acquisitions; timeouts are not relied on.
Fairness ==
  /\ \A c \in Clients : WF_vars(Handle(c)) /\ SF_vars(Lock(c)) /\ SF_vars(Publish(c))
  /\ WF_vars(Maintain) /\ WF_vars(NativeTaskEnds)

FairSpec == Spec /\ Fairness

-----------------------------------------------------------------------------
(* Properties.                                                             *)

CatalogType ==
  /\ disk \in Version /\ daemon \in {"down", "loading", "up"}
  /\ index \in Published /\ build \in Build
  /\ writer \in Clients \cup {Free} /\ readers \subseteq Actors
  /\ refreshLock \in Clients \cup {Free, Native}

StoreType ==
  /\ cache \in [Subs -> SUBSET Entry]
  /\ persisted \in SUBSET Snapshot
  /\ fastStatus \in SUBSET Version

ActorType ==
  /\ pc \in [Actors -> PCs]
  /\ kind \in [Actors -> AllKinds \cup {"maintain"}]
  /\ loc \in [Actors -> [gen : Nat, ver : Version, sub : Subs]]
  /\ began \in [Clients -> Version]
  /\ answer \in [Clients -> [ver : Version, via : Vias]]

FlagType == debounce \in BOOLEAN /\ legible \in BOOLEAN

SpentType == spent \in [requests : [Clients -> Nat], rounds : Nat, crashes : Nat]

\* Every variable has its type; the load is tried at most three times.
TypeOK == CatalogType /\ StoreType /\ ActorType /\ FlagType /\ SpentType

\* Holding the read lock through the insertion keeps an in-flight request
\* from repopulating a cache after a refresh cleared it (with_current_index):
\* outside the publication itself, every cached value was produced under the
\* generation that is published now.
CachesCurrent ==
  (\A c \in Clients : pc[c] # "clear") =>
     \A s \in Subs : \A e \in cache[s] : e.gen = index.gen

\* The part of a version a backend can observe, compared.
Covers(v, w) == /\ Backend = "arch" => AtLeast(v, w)
                /\ Backend = "dnf" => v.inst >= w.inst

\* On Arch a cached value is never older than the databases the index was
\* built from: once disk and index agree, every sub-cache (the explicit list
\* and the explicit count among them) holds exactly the current databases.
CacheExact ==
  (writer = Free /\ Backend = "arch" /\ disk = index.epoch) =>
     \A s \in Subs : \A e \in cache[s] : e.ver = disk

\* "Daemon queries that must not serve a frozen libalpm or index snapshot":
\* the answer to a healed request is at least as new as the databases were
\* when the request began, whichever cache, index or backend gave it.  Only a
\* status snapshot that could not be deleted, or that a dead daemon left, is
\* exempt.
ReadsFresh ==
  \A c \in Clients :
     answer[c].via \in {"cache", "index", "live", "persisted"} /\ Heals(kind[c])
       => Covers(answer[c].ver, began[c])

\* The observations around a rebuild refuse a catalogue that changed while it
\* was read, so a published index is never a mixture of two versions.
IndexUntorn ==
  daemon = "up" =>
    /\ Backend = "arch" => index.lo = index.hi /\ index.lo = index.epoch
    /\ Backend = "dnf" => index.lo.inst = index.hi.inst

\* A refresh that rebuilt, or that was debounced, leaves an index at least as
\* new as the databases were when it was asked for: the debounce never hides
\* a newer catalogue where the backend can see one.
RefreshFresh ==
  \A c \in Clients :
     /\ answer[c].via = "rebuilt" => AtLeast(answer[c].ver, began[c])
     /\ answer[c].via = "debounced" /\ Backend # "apt" => AtLeast(answer[c].ver, began[c])

\* "Invalidate the old list before publishing the new count so callers cannot
\* observe values from different refresh epochs" (src/daemon/cache.rs,
\* update_status): with no insertion under way, while the cached count is the
\* one a status refresh published, a cached list is of the same inventory.
ListMatchesCount ==
  readers = {} =>
    \A t \in cache["status"], f \in cache["count"], e \in cache["list"] :
       f.ver = t.ver => e.ver.inst = f.ver.inst

\* Every request is answered, whoever holds the two locks and however often
\* the rebuild is retried, and a refresh_lock that a timed-out request left
\* with its native task comes free again when the task ends.
RequestsComplete ==
  /\ \A c \in Clients : pc[c] # "idle" ~> pc[c] = "idle"
  /\ refreshLock # Free ~> refreshLock = Free

=============================================================================
