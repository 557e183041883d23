# TLA+ verification of OMG

OMG is a package and runtime manager written in Rust: one command line, `omg`, over the native
package manager of the machine (pacman/libalpm and the AUR, DNF, APT/dpkg, Homebrew) and over the
language runtimes in the user's home, and one optional daemon, `omgd`, that keeps a package index
and status counters in memory and answers queries over a Unix socket.  This directory holds TLA+
models of the parts of that program in which order matters, the TLC runs that check them on small
instances, and TLAPS proofs of the results that hold for every instance.

## 1. Inventory

Paths are below the repository root.  "State" is what outlives one call.

| Component | State | Operations | Talks to | What is hard |
| :-- | :-- | :-- | :-- | :-- |
| Catalogue of the daemon: `src/daemon/handlers.rs`, `cache.rs`, `db.rs` | published index with generation and epoch, seven sub-caches, status snapshot on disk, `refresh_lock`, debounce stamp | heal before a read, refresh, rebuild, publish, cached reads, cache clear | clients (IPC), native databases (files written by others), status worker | requests, rebuilds and the worker interleave between awaits; databases change at any time; a request is dropped at an await by its timeout |
| Status worker: `src/daemon/server.rs`, `status_policy.rs` | the maintenance future, `omg.status` | refresh status, pre-warm, socket health | catalogue, scanner | a worker round spans several index generations |
| Server life cycle: `src/daemon/server.rs` | connection permits, task sets, cancellation token, failure channel | accept, serve, idle/write/request timeouts, drain, exit result | signal handlers, catalogue, native backends, audit queue | shutdown races with accepts, with running requests and with a failure report |
| Native backends: `src/daemon/handlers.rs`, `src/package_managers/alpm_worker.rs` | current ALPM worker, leases on it, request queue, task tracker | swap, lease, retire, drain | catalogue rebuilds, requests, shutdown | a retired worker still has leases; native calls cannot be cancelled |
| Singleton claim: `src/bin/omgd.rs` | lock file, socket node and its inode | claim, probe, remove stale socket, bind, clean up | other `omgd` processes | several daemons start, die and clean up in any order |
| IPC client: `src/core/client.rs`, `src/daemon/protocol.rs` | one stream, request ids | connect with retry, call | server | a late answer after a timeout must not answer the next call |
| Audit log: `src/core/security/audit.rs` | hash-chained log, rotations, lock file, queue, incomplete marker | append, rotate, verify, recover, drain | every command, daemon | several processes append; a crash leaves half a line |
| Transaction history: `src/core/history.rs` | `history.json`, archive, lock | load, add, retire to archive, quarantine | every mutating command | concurrent writers, crash between archive and save |
| dpkg transaction: `src/package_managers/debian_db/transaction.rs` | dpkg locks, journal, unpacked files, status file | none outside unit tests: `execute` and `execute_removal` refuse | dpkg | nothing that can be reached |
| Sync of pacman databases: `src/package_managers/parallel_sync.rs` | live and staged databases, db lock | race mirrors, stage, verify, commit, roll back | libalpm users | several files become current together or not at all |
| Runtime store: `src/runtimes/common.rs` and one module per runtime | version directories, `current` link, install locks | download, stage, complete, replace, activate, uninstall | shells, other installs | two installs of one version, crash while staging, uninstall of the active version |
| Self-update: `src/cli/self_update.rs` | the `omg`/`omgd` pair, backups | download, verify, swap pair, roll back | running daemon | the pair must never be mixed |
| AUR builds: `src/package_managers/aur/` | build directories shared by all invocations, locks per package base, lifecycle lock | review, build in waves, build dependencies, install, clean | makepkg, git, pacman | two invocations share checkouts; sources change between review and build; failures of dependencies |
| Task runner: `src/core/task_runner.rs` | none on disk | detect, resolve, run, run in parallel, watch | child processes | watch events during a run, parallel failures |
| Usage, telemetry, licence: `src/core/usage.rs`, `telemetry.rs`, `license.rs` | JSON files with locks, queue of events | record, roll over, post, note the post | service API | several processes update one file; a post is answered late |
| Policy and trust: `src/core/security/` (policy, pgp, slsa, vulnerability, secrets, sbom) | policy file, keyrings | evaluate, verify, scan | installers | pure decisions over data; no interleaving |
| Resolver and databases: `src/package_managers/debian_db/`, `pacman_db/`, `dnf.rs`, `apt.rs`, `homebrew.rs`, `alpm_ops.rs` | mapped databases, caches with time stamps | parse, search, resolve | files | parsing; staleness is covered by the catalogue |
| Search index: `src/daemon/index.rs` | none after construction | build, search, suggest | catalogue | pure ranking |
| Everything else: CLI, TUI, hooks, config, containers, environments and teams, services in `services/`, scripts | files of their own | | | presentation, I/O, or code of other languages |

What makes each component correct:

- *Catalogue*: a cached value belongs to the published index; an answer that healed is at least as
  new as the databases were when the request came; an index is built from one version of the
  databases; a lock is always given back and every request is answered.
- *Server and native backends*: `Ok` from `run()` means that nothing is still running and that no
  noticed failure is hidden; `run()` returns although native calls may hang; `refresh_lock` always has
  an owner that gives it back; no async task joins a native thread.
- *Singleton claim*: one daemon serves a socket path; nobody removes the socket of a live daemon.
- *IPC client*: a call returns the answer to its own request.
- *Audit log and history*: entries that were acknowledged stay and stay in order, and a gap is
  marked unless the marker cannot be written either.
- *Database sync, self-update*: success means everything was replaced, an ordinary failure that
  nothing was, and until then the old files can be restored.
- *Runtime store*: what looks installed is whole, and the version in use is not damaged.
- *AUR builds*: what is installed was reviewed, in the order of the dependencies, the summary is true,
  and invocations do not block each other for ever.
- *Usage*: no saved command is lost, and day, month and streak agree with the calendar while the
  local date does not go back.

## 2. Plan

The daemon comes first: it is the only long-lived part, all others are sequential programs whose
concurrency is that of processes sharing files.

| Order | Module | Models | Status |
| :-- | :-- | :-- | :-- |
| 1 | `DaemonCatalog` | catalogue, caches, persisted status, status worker rounds | done |
| 2 | `DaemonServer` | process life cycle, connections, native backends, shutdown | done |
| 3 | `OneDaemon`, `DaemonClaim` | abstract singleton; `omgd` start and exit, shown to implement it | done |
| 4 | `IpcClient` | connect and call over one connection | done |
| 5 | `AuditLog` | chain, rotation, recovery, queue and its overflow mark | done |
| 6 | `RuntimeStore` | staged install, replace, activate, uninstall under leases; crashes | done |
| 7 | `AllOrNothing`, `DatabaseSync`, `SelfUpdate` | publication of several files and its roll back; one abstract promise, implemented by both | done |
| 8 | `HistoryLog`, `UsageStats` | locked read-change-write, archive before save, late answers | done |
| 9 | `AurBuild` | waves of AUR builds, dependency builds, review, cleaning | done |

Each component has a proof of every safety property its runs check (section 5).  A module for the task
runner (parallel children, watching) would be the next one to write.

## 3. Modules and code

### DaemonCatalog (`handlers.rs`, `cache.rs`, `db.rs`, `server.rs`)

Package data is abstracted to the *version* of the databases it was read from, a pair of counters:
repository databases and installed-package database.  Each of the seven sub-caches has one
representative key.  `index` is `PublishedIndex` with `index_generation`; `writer` and `readers` are
the `RwLock` around it; `refreshLock` is the tokio mutex; `build` is what the holder of that mutex
has loaded; `persisted` and `fastStatus` are `status-cache.json` and `omg.status`.  Each client has a
control point and locals, because a handler is cut at its awaits and locks:

| Code | Actions |
| :-- | :-- |
| `heal` before a read | `Observe`, `Compare`, `Lock`, then the rebuild |
| `handle_refresh_index` | `ObserveGeneration`, `Lock`, `Coalesce`, `Decide`, `Debounced`, `RecordCompletion` |
| `load_observed_index` and `rebuild_production_index` | `ObserveEpoch`, `LoadStart`, `LoadEnd`, `LoadRetry`, `SwapBackends`, `Recheck`, `BuildFails` |
| `replace_observed_index` | `Publish`, `ClearCaches`, `InvalidateStatus` under the write lock |
| cached reads | `LookupHit`, `LookupMiss`, `PersistedHit`, `PersistedMiss`, `TakeSnapshot`, `ReadBackend`, `BackendFails` |
| `with_current_index` | `Enter` or `Refused`, then the `Insert` actions under the read lock |
| status worker | `BeginMaintenance`, `StatusCounts`, `WriteFastStatus`, `ScanSecurity`, `PersistStatus`, `DropList`, `InsertStatus` |
| request timeout; the spawned native task | `TimeOut`, `NativeTaskEnds` |
| start of `omgd` | `StartLoad`, `StartServe`, `StartFails` |
| environment | `DatabasesChange`, `Expire`, `ExpirePersisted`, `DebounceElapses`, `Crash` |

`Backend` selects the observation the build makes: `"arch"` compares both parts of the version,
`"dnf"` the installed part, and `"apt"` (any other backend) nothing.  An observation that fails counts as
a difference on Arch (`Stale`) and is an error of the request under DNF.

### DaemonServer (`server.rs`, `SystemBackendAccess` in `handlers.rs`)

`stage` is the position of `run()`: the accept loop (`"intake"`), `drain_daemon_tasks` (`"drain"`,
`"abort"`), `drain_native_backends` (`"close"`, `"native"`, `"wait"`), the audit queue, and the end.
`pc`, `lease`, `asked` belong to the connection tasks; `lock`, `task`, `current`, `alive` to the
native side.  ALPM workers are numbered in the order they are made, and `alive` holds those whose
thread was not joined.  A request is plain, takes a lease (`ListUpdates`), or replaces the worker.
`SpawnRefresh` moves the `refresh_lock` guard into the native task and `EndTask` moves it back, or
drops it when the request is gone.  `errors` collects which of the shutdown steps returned `Err`; with
`failure` it is the result of `run()`.  The model ends there: `#[tokio::main]` (`omgd.rs:44`) then drops
the runtime, which waits without limit for the `spawn_blocking` tasks that have started
(`handlers.rs:319`, `:354`), so `ShutdownCompletes` is about `run()` and not about the process.

### OneDaemon and DaemonClaim (`omgd.rs`)

`OneDaemon` is the promise: at most one daemon is up, and clients reach that one or nobody.
`DaemonClaim` has the control points of `main()`: flock, probe and ping, inspection and removal of a
stale node, bind, guard, chmod, serving, and on the way out the check of device and inode, removal
and the release of the flock.  Inode numbers may be reused.  A process may be killed anywhere; the
node may be removed by others; the cleanup is given up when the directory no longer passes its check,
and a removal that fails is only a warning (`GiveUp`; `hindered` remembers these processes); at the start
the node may be that of a *legacy* daemon that holds no
flock and that answers the ping until it dies.  The mapping is `up <- Up, reach <- Reach`.

### IpcClient (`client.rs`, `protocol.rs`)

The client side is the retry loop of `connect_to` and `call`, which takes the framed stream out of
the client and puts it back only after an accepted answer.  The wire is two queues (a Unix stream
neither loses nor reorders).  The server side reads one frame, answers it, rejects it, or hangs up.  Request ids are
drawn from a set in which they repeat, because callers choose them (`cli/daemon_status.rs` sends 0
each time), so correlation by id alone is not enough.

### AuditLog (`core/security/audit.rs`)

A line of the log is its number in the order of writing (which stands for its hash), the number it
follows, and its form: complete with or without newline, cut short, or cut inside a character.  A
write behind a line without newline becomes part of that line, as it does in the file.  `last` is
`AuditLogger::last_hash`, `prev` what `log_locked` read under the lock.

| Code | Actions |
| :-- | :-- |
| `AuditLogger::new_in`, used by `record_operation` and by scans | `Open` |
| `log`, `log_locked` | `Lock`, `ReadTail`, `Newline`, `Write`, `EndLine`, `Return`, `Fail`; `WriteFails` leaves half a line, `StepFails` nothing |
| `rotate_if_needed` | `Rotate`, `Shift` (one rename each), `RotateLog` |
| `recover_audit_logger` | `RecoverLock`, `Diagnose`, `DiagnoseCorrupt` (marker first), `Quarantine`, `DiagnoseUnreadable` and `RecoverFails` (refused) |
| queue, writer thread, drain | `Enqueue`, `Receive`, `Mark`, `StartDrain`, `DrainSend`, `DrainTimesOut` |
| environment | `Killed`, `StartDaemon`, `DaemonEnds` |

A lost event is marked by `MarkOrLog`: a marker that cannot be written is only logged, and `count.unmarked`
counts the events lost that way.

### RuntimeStore (`runtimes/common.rs` and the managers)

A version directory is the set of its parts: launcher, everything else, and the marker of an unfinished
install.  `lease` is `.mutation.lock`, `installLease` the lock of one version, `current` the symlink.
`manager` selects how installation starts, because the managers differ in what they lock and clear:
`InstallPlain` (node and the managers like it, pi), `InstallPhp`, `InstallLeased` (swift, erlang),
`InstallRust`, `ExtendRust` (components and targets are added to a copy of the published
toolchain).  Publication is `CompleteStagedInstall` (refuses an existing path) or
`ReplaceStagedInstall` (exchange), for a copy `PublishCopy`, which publishes what was copied, whole or not;
erlang then runs its script in the published directory (`Setup`,
`Smoke`).  `Use` and `Link` are activation, and removal takes the parts away one by one (`RemovePart`,
`RemoveDirectory`).  `Stop` ends a process anywhere.  `good` and `cut` are history variables.

### AllOrNothing, DatabaseSync, SelfUpdate (`parallel_sync.rs`, `self_update.rs`)

`AllOrNothing` is what a caller may believe: `"ok"` only when all files are new, `"failed"` only when
none is, anything else is reported as in need of attention or ends in a kill.  `DatabaseSync` has the
phases of `commit_staged_files` (lock, links to the live files, renames, directory sync, removal of
the links) and of `rollback_database_publication` (`Withdraw`, `Restore`, `RolledBack`), each of whose
steps may fail.  A repository whose `SigLevel` does not ask for database signatures fetches none, whatever
signature is live.  `SelfUpdate` copies both binaries, replaces `omgd` and `omg`, and restores both when a
replacement fails.  The contents of a file are the process that made it.  The mappings are
`state <- SyncState, report <- told` and `state <- UpdateState, report <- answer`.

### HistoryLog and UsageStats (`core/history.rs`, `core/usage.rs`)

`HistoryLog`: live file, archive, quarantined files; an entry is its number.  The live file is replaced
by a rename, the archive is appended to, so `torn` records half a line at its end.  `Loaded` is what
`load` returns.  `UsageStats`: `usage` is `usage.json` reduced to its counters, the day and month of the
last command and the time of the last post; `Post` reads it without the lock, `LoadToNote` and
`NotePost` are `update_locked` after the answer.  The date is the local one: it may pause, advance
(`Midnight`) or go back (`DateGoesBack`); `rewound` records that a command was saved under an earlier date
than the one before.

### AurBuild (`aur/parallel_build.rs`, `aur/client.rs`)

A source is its revision in the AUR (`upstream`), in the shared build directory (`checkout`) and in the
system (`installed`).  `batch[r]` is the call of `build_packages` in invocation `r`, `reviewed` the
`AuthorizedBuild` of each job, `task` the spawned build with a stack of builds: the job and, above it,
the dependency that is built for the one below (`build_only` calls itself).

| Code | Actions |
| :-- | :-- |
| `build_packages` | `BuildPackages` (levels, cycle refused), `Authorize`, `FirstWave`, `RunFails` |
| `build_level` | `Spawn`, `InstallWave`, `InstallWaveFails` |
| `install_authorized_package_outputs`, `build_only_inner` | `Plan` or `Pull` (first critical section), `BuildDependency`, `InstallDependency`, `StartMakepkg` (locks again, sources verified again), `EndMakepkg`, `TaskFails` |
| `clean_all`; maintainers | `Clean`, `Cleaned`; `Push` |

A refresh removes the checkout and then clones, so whoever fails or is cut short while it has a base to
clone leaves the old checkout, none, or the new one (`CutShort`).  A build that writes into its checkout
is not modelled: the next verification refuses such a checkout, as it refuses another revision.

`Levels` is `topological_levels` as a recursive function.  The build cache is not modelled because
`cached_artifacts` always returns `None`.

## 4. Runs

| Run | Question | Properties |
| :-- | :-- | :-- |
| `catalog_arch` | the nine request kinds that use the catalogue, of two clients, with database changes, overlapping and debounced refreshes, and timeouts | `CachesCurrent`, `ReadsFresh`, `RefreshFresh` |
| `catalog_restart` | a worker round with pre-warming against reads; crash, left-over snapshot, restart | `CacheExact`, `IndexUntorn`, `ReadsFresh` |
| `catalog_dnf` | observed load with retries | `TypeOK`, `ReadsFresh` |
| `catalog_live` | every request ends, the lock comes back | `RequestsComplete` |
| `server_safety` | two connections, three workers, every way down | `CleanExit`, `LeaseNeverLast`, `TwoWorkersAtMost`, `FailureReported`, `GuardAccounted` |
| `server_live` | `run()` returns and requests end although native work may hang | `ShutdownCompletes`, `RequestsEnd` |
| `claim` | three daemons on one path | `NoStaleAfterExit`, `BindSucceeds`, `LiveSocketKept`, `ImplementsOneDaemon` |
| `client` | four calls, late answers, repeated ids | `AnswerIsOwn`, `ReusableIsQuiet` |
| `audit` | a command and the daemon on one log, with torn writes, failing steps, kills and restarts | `VerifiesUnlessTorn`, `RetentionInOrder`, `DrainedIsSettled`, `QueueSettles` |
| `stores`: runtime versions | two processes, two versions, six kinds of manager | `LooksInstalledIsWhole`, `GoodActiveSurvives` |
| `stores`: pacman databases | two syncs of two databases with signatures, steps of the roll back failing | `OldSetRecoverable`, `SyncAllOrNothing` |
| `stores`: binaries | two self-updates | `OldPairRecoverable`, `UpdateAllOrNothing` |
| `stores`: history | two recorders, two live entries, damage of the live file | `NothingForgotten` |
| `stores`: usage | two processes, tracking and posting over three days, in either direction | `EveryCommandCounted`, `StreaksAreRuns` |
| `aur` | two invocations over every dependency graph of two bases, a push, cleaning | `BuiltIsReviewed`, `DependenciesFirst`, `SummaryTrue`, `SourcesStay`, `BuildsEnd` |
| `catalog_epochs` | the finding below | `ListMatchesCount` |

The five stores share no state, so `MCStores` looks at one of them in each behaviour (`store`) and keeps
the variables of the others at their initial values: one run, and the sum of their states instead
of the product.

Every passing property has a mutant in `PROJECT.json`: a changed definition, next to the original in
the module, under which TLC finds the property violated.

**Bounds.**  Two clients are enough for one to be between any two steps of the other; the worker is a
third actor.  One change of a database (`MaxRepo`, `MaxInst`) gives "before" and "after"; `catalog_dnf`
has three changes of the installed rows, one per attempt, so that the third attempt can fail.  `catalog_restart`
has two requests, one for each side of the crash.  `MaxWorkers = 3` lets a second replacement begin while leases on the first worker
are out.  In `DaemonClaim` three daemons allow a predecessor that cleans up late, a successor, and a
third that probes; three inodes allow both reuse and difference.  `client` has two retries and two
back-off entries, the relation of `MAX_CONNECT_RETRIES` to its table, and four calls, so that a
connection is used, lost and replaced.  `audit` has files of two lines and two archives, so that the third append
rotates and a rotation can be interrupted between its renames; a queue of one place overflows with the second event; one
fault per behaviour, at any step.  `stores` has two processes per store (one may be between any two steps of
the other), two versions (one in use, one not), two databases with signatures, which may or may not be
there at the start, five entries over a live file of two, so that retirement happens, is interrupted and is
repeated, and three days in months of two with four commands, so that a pause, a day, a month and a streak end
and the date goes back and forth.  `aur` has two bases, the smallest
number with a dependency, a cycle and two jobs in a wave, and one push, which makes reviewed and current
sources differ.  Clients, connections and daemons are symmetric; the runs
with temporal properties use no symmetry.

**Deadlock** is checked in the runs of the daemon; `client`, `audit`, `stores` and `aur` are of programs that come to an end
(`BuildsEnd` shows that a build does not end by waiting).  `DaemonCatalog`
may stand still only when every actor is idle (`Quiescent`), `DaemonServer` only after `run()` has
returned (`Done`), and a daemon of `DaemonClaim` can always start or be killed: any other state in
which nothing can happen is an error.

**Fairness.**  `DaemonCatalog`: the runtime polls every task (weak fairness of each handler, the
worker, and the native task); strong fairness for `Lock` and `Publish`, since tokio's mutex is FIFO
and a waiting writer of the index lock is not overtaken for ever.  Timeouts are not needed.
`DaemonServer`: weak fairness of the accept loop's receiving branches, of the worker's timer, of the
shutdown steps, and of the timeout and reply of each connection.  None for clients, handlers before
their timeout, or native tasks: these may hang, and the deadlines have to do the work.
`AuditLog`: every writer is scheduled, and whoever waits for the file lock gets it eventually, since a
holder keeps it for one record only; no fairness for faults, kills, new events or the timeout of the drain.
`AurBuild`: one weak fairness condition per invocation: if something it can do stays possible, it does
something.  It covers git, the reviewer and makepkg coming to an end, and a check that fails being an
error at once; none for failures that need not happen, pushes or cleaning.

## 5. Proofs

All theorems are of the form `Spec => ...`, for every value of the constants that satisfies the
named assumption of the module: distinct names, natural bounds, at least one day, one live entry,
one line per log and one place in the queue, a finite set of package bases, and for the client a back-off table at least as long as the
retries.  Every invariant, action property and refinement of a passing run is the statement of a
theorem; every inductive invariant was also checked by TLC before it was proved.

| Module | Theorems | Inductive invariant |
| :-- | :-- | :-- |
| `DaemonCatalogProofs` | `TypeCorrect` | `TypeOK` |
| | `CachesStayCurrent` | `TypeOK` and `Discipline` |
| | `IndexStaysUntorn`, `CachesStayExact`, `ReadsStayFresh`, `RefreshesStayFresh` | these and `Fresh` |
| `DaemonServerProofs` | `LeasesNeverLast`, `CleanExits`, `AtMostTwoWorkers`, `GuardsAreAccounted` | `IInv` |
| | `FailuresAreReported` | `FailuresKept` |
| `DaemonClaimProofs` | `NoStaleSocket`, `BindNeverRefused`, `LiveSocketsStay`, `ImplementsSingleton` | `IInv` |
| `IpcClientProofs` | `AnswersAreOwn`, `ReusableStreamsAreQuiet`, `BackoffTableSuffices` | `IInv` |
| `AuditLogProofs` | `LogsVerify`, `OldestGoFirst`, `DrainsSettle` | `AuditInv` |
| `StoreProofs` | `InstalledIsWhole`, `GoodActiveStays` | `StoreInv` |
| | `NothingIsForgotten` | `HistoryInv` and `OrderInv` |
| | `CommandsCounted`, `StreaksStayRuns` | `UsageInv` |
| | `OldPairStays`, `UpdateImplements` | `UpdateInv` |
| | `OldSetStays`, `SyncImplements` | `SyncInv` |
| `AurBuildProofs` | `BuildsStayReviewed`, `SourcesAreKept` | `AurInv` |
| | `DependenciesComeFirst`, `SummariesStayTrue` | `AurInv` and `WavesInv` |
| `Induction` | (the lemma `NatSets`) | |

- *Caches.*  `CachesCurrent` alone is not inductive: an insertion keeps it only if the actor's
  generation is still the published one.  `ReaderInv` says so for actors under the read lock,
  `WriterInv` that no reader is inside while a publication clears, `LockInv` that one request at a time
  rebuilds, `GenInv` that no actor is ahead of the index, and `DownInv` what a crash leaves.
- *Freshness.*  An answer is fresh because of the order of several earlier steps, so `Fresh` says what
  is known at each control point.  Nothing the daemon holds is newer than the databases
  (`DiskIsNewest`); a rebuild observed them after its request began and after the index it replaces
  (`BuildSound`); what an actor is about to store covers the index of its generation
  (`StoresCovering`), hence outside a publication all caches and the persisted status do
  (`CachesCover`, `PersistedCovers`); and a healed request that looks something up finds an index that
  covers the databases it began with (`ReadSound`), which stays so because no published index is
  older than the one before.
- *Server.*  The argument is about `refresh_lock`.  Who works under it owns its guard and nobody
  else does (`GuardOwned`; this gives `GuardAccounted`), so at most one native task exists,
  and the workers alive are the current one and the one that task
  installs or retires (`WorkersOwned`).  A lease is on one of these (`LeasesCovered`).  The shutdown
  takes the same lock, so no replacement can follow it (`DownInOrder`).  `FailuresKept` follows a
  failure from where it was found to the exit status: it is on the channel, in `internal_failure`,
  among the errors of the drains, or in a worker thread that is still to be joined.
- *Claim.*  A process past its claim holds the flock (`Exclusive`); so a node that exists while a
  process listens is its own (`OneNode`), the inode its guard recorded is that node (`GuardExact`), and
  the path is free at bind (`PathFree`).  The refinement is proved step by step from these.
- *Client.*  `AnswerIsOwn` needs that only the exchange of the current call is on a stream in use
  (`OneExchange`), which needs that a stream is put back only when its exchange is over
  (`ReusableIsQuiet`).
- *Audit log.*  The chain holds because between the read of the tail and the write nobody else
  changes it (`LockSound`, `WriterSound`).  Rotation keeps the order of the files because the slot a
  file moves to is empty (`RotationSound`); an entry can only be lost with the oldest archive.  For the
  drain, `QueueSound` counts: settled events, those whose marker failed, the one in hand and those
  queued are the submitted ones, or the mark is set, or the daemon is down or in the middle of a failure.
- *Runtime store.*  A process removes what it saw unselected, under the lease that a selection needs
  too (`LeasesHeld`); an unfinished tree of `swift.rs` and `erlang.rs` is left alone by the others
  (`UnfinishedIsLeft`), and what they clear away is not good (`ClearedIsBroken`).
  A copy of a toolchain is published as it was made because the lease keeps the original as it was
  (`CopyIsCurrent`).
- *History.*  That nothing is lost needs that the entries in memory, with the archive, cover the live
  file (`HistoryInv`).  That `load` returns each once and in order needs `OrderInv`: at most the oldest
  entry moves at a time, so the archive may repeat an entry but never runs ahead of the live file.
  What the deduplication then keeps is shown by induction (`KeepsWell`).
- *Usage.*  The statistics a process is going to save are those of the file with one command more,
  and their counters and streaks fit the days recorded so far, or a date has gone back and only the
  bounds by the number of commands remain (`UsageInv`).
- *Publications.*  The lock makes its holder the only process that changes the files
  (`UpdateLocked`, `SyncLocked`), so at each control point the files visited and those to come are
  known (`UpdateProgress`, `SyncProgress`).  The refinement also needs that a process never finds
  its own files (`UpdateFresh`, `SyncFresh`), else "all replaced" would equal "none replaced".
- *AUR builds.*  `BuiltIsReviewed` is about the end of a build, and rests on its beginning: a task that
  compiles holds the lock of its base and the checkout is the revision it saw (`BuildSound`), and
  nobody cleans while a task has its share of the lifecycle lock (`TaskSound`); a source in use is
  under such a share, which leaves only a failed clone to remove it (`SourcesStay`).  A step of another
  task respects both (`Bystander`).  For the waves, what was installed is exactly the levels before the
  current one, and only jobs of the current level run (`WavesInv`); that level n has the jobs all of
  whose dependencies are in lower ones is shown by induction (`LevelsGrow`).
- *Induction.*  The library's induction theorems take a predicate as a parameter, which the provers
  cannot instantiate.  `NatSets` states induction for a set of numbers instead and follows from the
  well-foundedness of the natural numbers; with it the recursive functions `Levels` and `keep` (in
  `Loaded`) are shown to exist and to satisfy their equations.

Only model-checked: the liveness properties `RequestsComplete`, `ShutdownCompletes`, `RequestsEnd`,
`QueueSettles` and `BuildsEnd` (the prover does neither fairness nor `ENABLED`), and the one expected
violation.  `BackoffTableSuffices` has no run of its own.  Most type invariants are not listed in a run:
they are parts of the inductive invariants, and the runs spend their time on the other properties.

## 6. Findings

`catalog_epochs`: `cache.rs:163` drops the explicit list before the new count is published "so
callers cannot observe values from different refresh epochs", but a client's insertion of an older
list may follow the drop, because both run under the shared lock.

Behaviour the models contain and no property excludes, because the code does not claim more:

- A refresh that waited for `refresh_lock` is acknowledged with the publication of the one it waited for
  (`handlers.rs:839`), which may have read the databases before the sync.
- The drain of a shutdown gives up after 30 seconds and drops requests (`server.rs:560`); the exit is
  an error then.  A handler that panics, or whose answer cannot be written, during intake is only logged
  (`server.rs:433`), and `run()` may still return `Ok`.
- A process whose `run()` has returned still waits for blocking native tasks that hang.
- A cleanup of the socket that is stopped by an error leaves the node (`omgd.rs:232`, `:245`); the next
  daemon removes it.
- A line of the audit log cut inside a character is a read error, which refuses the start of the daemon,
  while any other half line is quarantined (`audit.rs:906`, `:1017`).
- An event that cannot be written and whose marker cannot be written either (`audit.rs:2568`) is only in the
  tracing output, and the drain reports success, although `audit.rs:1195` speaks of events "written or
  marked incomplete".
- After the local date went back, days are counted twice in a streak (`usage.rs:327`).
- A kill during an append to the history archive leaves half a line, after which retirement and `load` fail
  until the file is repaired by hand (`history.rs:394`).
- A removal of a runtime version that was cut short leaves a directory that still looks installed
  (`common.rs:1705`).
- A failed clone leaves no checkout (`client.rs:3624`), also where another invocation has reviewed it; that
  one's build is then refused.
- An AUR build of an older reviewed revision may be installed over a newer one that another invocation
  installed meanwhile.

## 7. Not modelled

- Ranking and contents of search results, encoding of frames, rate limits, logging, metrics.
- The request queue inside the ALPM worker thread; libalpm, DNF, APT and dpkg themselves are the
  environment.
- `debian_db/transaction.rs`: `execute` and `execute_removal` begin with `ensure!(cfg!(test), ...)`, so the
  journal and the pipelined unpacking cannot run in the program.
- Task runner: it starts child processes and watches files; its own state is the set of running children.
- Telemetry and licence calls, the mirror race, downloads and extraction: network and file I/O that ends in
  success or in an error, which the models have as a choice.
- Parsing, signature checks, policy evaluation, vulnerability matching: functions of one document,
  without state, for which unit tests and fuzzing are the better tool.
- CLI, TUI, hooks, containers, environments, the services in `services/`, scripts and the vendored
  `rust-apt`: presentation, child processes, network I/O, or other languages.
