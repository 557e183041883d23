------------------------------ MODULE AurBuild ------------------------------
(***************************************************************************)
(* AUR builds (package_managers/aur): invocations of omg clone, review,    *)
(* build and install package bases in one shared build directory, while    *)
(* maintainers push new revisions and somebody cleans the directory.       *)
(*                                                                         *)
(* An invocation reviews all its jobs first and then builds them in waves. *)
(* A job is a task with a stack of builds: the job itself and, above it,   *)
(* the dependency that is being built for the one below.                   *)
(*                                                                         *)
(* A source is its revision; 0 stands for none.  Every critical section of *)
(* a package base that waits for nothing but git or the reviewer is one    *)
(* step, taken only while nobody holds the lock of the base.               *)
(***************************************************************************)
EXTENDS Naturals, FiniteSets, Sequences

CONSTANTS
  Runs,           \* invocations of omg
  Bases,          \* package bases
  None,           \* no task
  MaxConcurrent,  \* setting aur.build_concurrency
  MaxPushes       \* bound: bases that get a new revision

ASSUME AurConstants ==
  IsFiniteSet(Bases) /\ None \notin Runs \X Bases /\ MaxConcurrent \in Nat /\ MaxPushes \in Nat

VARIABLES
  needs,      \* per base: the bases it depends on
  upstream,   \* per base: newest revision in the AUR
  checkout,   \* per base: revision in the build directory
  baseLock,   \* per base: the task that holds its locks
  cleaning,   \* clean_all holds the lifecycle lock
  installed,  \* per base: installed revision
  batch,      \* per run: the call of build_packages
  reviewed,   \* per run and job: the revision of its AuthorizedBuild
  task        \* per run and job: outcome, archive and stack of builds

aurVars == <<needs, upstream, checkout, baseLock, cleaning, installed, batch, reviewed, task>>

Revisions == 0..2
Batch(point, jobs) ==
  [at |-> point, jobs |-> jobs, wave |-> 0, ok |-> {}, failed |-> {}, skipped |-> {}, placed |-> {}]
Idle == [state |-> "none", archive |-> 0, stack |-> <<>>]
Ended == {"summary", "error"}

Jobs(r) == batch[r].jobs
Top(r, j) == task[r][j].stack[Len(task[r][j].stack)]
OnTop(r, j, build) == [task[r][j].stack EXCEPT ![Len(task[r][j].stack)] = build]
Popped(r, j) == SubSeq(task[r][j].stack, 1, Len(task[r][j].stack) - 1)
Build(b, point, seen, todo) == [base |-> b, at |-> point, seen |-> seen, todo |-> todo, archive |-> 0]
Missing(b) == {d \in needs[b] : installed[d] = 0}
Running(r, j) == task[r][j].state = "running"
SetStack(r, j, stack) == task' = [task EXCEPT ![r][j].stack = stack]

\* topological_levels: the bases in the first n levels.
Levels(jobs) ==
  LET first[n \in 0..Cardinality(jobs)] ==
        IF n = 0 THEN {} ELSE first[n - 1] \cup {b \in jobs : needs[b] \cap jobs \subseteq first[n - 1]}
  IN first

\* Mutation: all jobs are one wave.
OneLevel(jobs, n) == IF n = 1 THEN jobs ELSE {}

\* The jobs of the n-th wave
Level(jobs, n) == {j \in jobs : j \in Levels(jobs)[n] /\ j \notin Levels(jobs)[n - 1]}
Wave(r) == Level(Jobs(r), batch[r].wave)

\* An authorised job keeps its share of the lifecycle lock until its task is over.
Leased(r, j) == reviewed[r][j] # 0 /\ task[r][j].state \in {"none", "running"}

AurInit ==
  /\ needs \in {n \in [Bases -> SUBSET Bases] : \A b \in Bases : b \notin n[b]}
  /\ upstream = [b \in Bases |-> 1] /\ checkout = [b \in Bases |-> 0]
  /\ \E revision \in {0, 1} : installed = [b \in Bases |-> revision]
  /\ baseLock = [b \in Bases |-> None] /\ cleaning = FALSE
  /\ batch = [r \in Runs |-> Batch("idle", {})]
  /\ reviewed = [r \in Runs |-> [b \in Bases |-> 0]]
  /\ task = [r \in Runs |-> [b \in Bases |-> Idle]]

-----------------------------------------------------------------------------
(* The environment: a push, and clean_all.                                 *)

Push(b) ==
  /\ upstream[b] = 1 /\ Cardinality({c \in Bases : upstream[c] = 2}) < MaxPushes
  /\ upstream' = [upstream EXCEPT ![b] = 2]
  /\ UNCHANGED <<needs, checkout, baseLock, cleaning, installed, batch, reviewed, task>>

\* Mutation: cleaning does not ask for the lifecycle lock.
CleanUnlocked ==
  /\ ~cleaning /\ cleaning' = TRUE
  /\ UNCHANGED <<needs, upstream, checkout, baseLock, installed, batch, reviewed, task>>

\* try_lock: cleaning never waits for a build.
Clean ==
  /\ ~cleaning /\ \A r \in Runs, j \in Bases : ~Leased(r, j)
  /\ cleaning' = TRUE
  /\ UNCHANGED <<needs, upstream, checkout, baseLock, installed, batch, reviewed, task>>

Cleaned ==
  /\ cleaning /\ cleaning' = FALSE /\ checkout' = [b \in Bases |-> 0]
  /\ UNCHANGED <<needs, upstream, baseLock, installed, batch, reviewed, task>>

-----------------------------------------------------------------------------
(* build_packages.                                                         *)

\* The local state of the call goes when it returns.
Return(r) ==
  /\ reviewed' = [reviewed EXCEPT ![r] = [b \in Bases |-> 0]]
  /\ task' = [task EXCEPT ![r] = [b \in Bases |-> Idle]]

\* An error ends the call and drops the locks.
GiveUp(r) ==
  /\ batch' = [batch EXCEPT ![r] = Batch("error", {})] /\ Return(r)
  /\ baseLock' = [b \in Bases |-> IF baseLock[b] # None /\ baseLock[b][1] = r
                                  THEN None ELSE baseLock[b]]
  /\ UNCHANGED <<needs, upstream, cleaning>>

\* Clones that are cut short: refresh_checkout_from removes the old one first, so it
\* is still there, gone, or replaced by one that did not pass the review.
CutShort(bases) ==
  checkout' \in {[b \in Bases |-> IF b \in gone THEN 0
                                  ELSE IF b \in unreviewed THEN upstream[b] ELSE checkout[b]] :
                   gone \in SUBSET bases, unreviewed \in SUBSET bases}

\* The levels are known, and a cycle refused, before anything is touched.
BuildPackages(r) ==
  /\ batch[r].at = "idle"
  /\ \E jobs \in (SUBSET Bases) \ {{}} :
       batch' = [batch EXCEPT ![r] = IF Levels(jobs)[Cardinality(jobs)] = jobs
                                     THEN Batch("authorize", jobs) ELSE Batch("error", {})]
  /\ UNCHANGED <<needs, upstream, checkout, baseLock, cleaning, installed, reviewed, task>>

\* authorize_package_outputs has its share of the lifecycle lock and the locks of
\* the base: a fresh clone, and its review.
Authorizing(r, j) ==
  /\ batch[r].at = "authorize" /\ j \in Jobs(r) /\ reviewed[r][j] = 0
  /\ ~cleaning /\ baseLock[j] = None

Authorize(r, j) ==
  /\ Authorizing(r, j)
  /\ checkout' = [checkout EXCEPT ![j] = upstream[j]]
  /\ reviewed' = [reviewed EXCEPT ![r][j] = upstream[j]]
  /\ UNCHANGED <<needs, upstream, baseLock, cleaning, installed, batch, task>>

\* All are authorised, privileges are there: the first wave.
FirstWave(r) ==
  /\ batch[r].at = "authorize" /\ \A j \in Jobs(r) : reviewed[r][j] # 0
  /\ batch' = [batch EXCEPT ![r].at = "wave", ![r].wave = 1]
  /\ UNCHANGED <<needs, upstream, checkout, baseLock, cleaning, installed, reviewed, task>>

\* concurrency_for_level; a zero setting counts as one.
Concurrency == IF MaxConcurrent = 0 THEN 1 ELSE MaxConcurrent

Spawn(r, j) ==
  /\ batch[r].at = "wave" /\ j \in Wave(r) /\ task[r][j].state = "none"
  /\ Cardinality({k \in Wave(r) : Running(r, k)}) < Concurrency
  /\ task' = [task EXCEPT ![r][j] =
                [state |-> "running", archive |-> 0,
                 stack |-> <<Build(j, "start", reviewed[r][j], {})>>]]
  /\ UNCHANGED <<needs, upstream, checkout, baseLock, cleaning, installed, batch, reviewed>>

WaveOver(r) == batch[r].at = "wave" /\ \A j \in Wave(r) : task[r][j].state \in {"ok", "failed"}
Built(r) == {j \in Wave(r) : task[r][j].state = "ok"}
Place(r, bases) ==
  installed' = [b \in Bases |-> IF b \in bases THEN task[r][b].archive ELSE installed[b]]

\* After a failure the later waves are skipped; otherwise the next one follows.
AfterWave(r) ==
  LET lost == Wave(r) \ Built(r)
      later == Jobs(r) \ Levels(Jobs(r))[batch[r].wave]
      last == lost # {} \/ later = {}
  IN
  /\ batch' = [batch EXCEPT
       ![r].ok = @ \cup Built(r), ![r].failed = @ \cup lost, ![r].placed = @ \cup Built(r),
       ![r].skipped = IF last THEN later ELSE @,
       ![r].at = IF last THEN "summary" ELSE @, ![r].wave = IF last THEN @ ELSE @ + 1]
  /\ IF last THEN Return(r) ELSE UNCHANGED <<reviewed, task>>

\* install_built_packages, once for the wave, if it built anything
InstallWave(r) ==
  /\ WaveOver(r) /\ Place(r, Built(r)) /\ AfterWave(r)
  /\ UNCHANGED <<needs, upstream, checkout, baseLock, cleaning>>

\* Mutation: a failed installation is counted as done.
InstallFailureIgnored(r) ==
  /\ WaveOver(r) /\ Built(r) # {}
  /\ batch' = [batch EXCEPT ![r].ok = @ \cup Built(r), ![r].at = "summary"]
  /\ UNCHANGED <<needs, upstream, checkout, baseLock, cleaning, installed, reviewed, task>>

\* The transaction fails, with whatever it had done: no summary at all.
InstallWaveFails(r) ==
  /\ WaveOver(r) /\ Built(r) # {}
  /\ \E done \in SUBSET Built(r) : Place(r, done)
  /\ GiveUp(r) /\ UNCHANGED checkout

\* A dependency is cloned again where it is built.
Pulling(r, j) ==
  /\ Running(r, j) /\ Top(r, j).at = "start" /\ Len(task[r][j].stack) > 1
  /\ baseLock[Top(r, j).base] = None

\* A lease refused, a clone, a review or the privileges that fail; a kill anywhere.
\* Jobs are authorised one by one, but several tasks may be cloning.
RunFails(r) ==
  /\ batch[r].at \in {"authorize", "wave"} /\ GiveUp(r) /\ UNCHANGED installed
  /\ \/ CutShort({Top(r, j).base : j \in {k \in Bases : Pulling(r, k)}})
     \/ \E j \in Bases : Authorizing(r, j) /\ CutShort({j})

-----------------------------------------------------------------------------
(* install_authorized_package_outputs and build_only: one build, the top   *)
(* of the stack of a task.                                                 *)

\* Mutation: the lock is kept while dependencies are built.
PlanHoldingLock(r, j) ==
  LET b == Top(r, j).base IN
  /\ Running(r, j) /\ Top(r, j).at = "start" /\ Len(task[r][j].stack) = 1
  /\ baseLock[b] = None /\ checkout[b] = Top(r, j).seen
  /\ baseLock' = [baseLock EXCEPT ![b] = <<r, j>>]
  /\ SetStack(r, j, OnTop(r, j, Build(b, "dependencies", Top(r, j).seen, Missing(b))))
  /\ UNCHANGED <<needs, upstream, checkout, cleaning, installed, batch, reviewed>>

\* The job: the sources are still the reviewed ones; what is missing is planned,
\* and the lock dropped.
Plan(r, j) ==
  LET b == Top(r, j).base IN
  /\ Running(r, j) /\ Top(r, j).at = "start" /\ Len(task[r][j].stack) = 1
  /\ baseLock[b] = None /\ checkout[b] = Top(r, j).seen
  /\ SetStack(r, j, OnTop(r, j, Build(b, "dependencies", Top(r, j).seen, Missing(b))))
  /\ UNCHANGED <<needs, upstream, checkout, baseLock, cleaning, installed, batch, reviewed>>

\* A dependency: cloned again and reviewed here.
Pull(r, j) ==
  LET b == Top(r, j).base IN
  /\ Pulling(r, j)
  /\ checkout' = [checkout EXCEPT ![b] = upstream[b]]
  /\ SetStack(r, j, OnTop(r, j, Build(b, "dependencies", upstream[b], Missing(b))))
  /\ UNCHANGED <<needs, upstream, baseLock, cleaning, installed, batch, reviewed>>

\* build_only refuses a base that is already being built below.
BuildDependency(r, j) ==
  /\ Running(r, j) /\ Top(r, j).at = "dependencies"
  /\ \E d \in Top(r, j).todo :
       /\ \A i \in DOMAIN task[r][j].stack : task[r][j].stack[i].base # d
       /\ SetStack(r, j, Append(task[r][j].stack, Build(d, "start", 0, {})))
  /\ UNCHANGED <<needs, upstream, checkout, baseLock, cleaning, installed, batch, reviewed>>

\* The built dependency is installed and its build is over.
InstallDependency(r, j) ==
  LET b == Top(r, j).base
      below == Popped(r, j)
  IN
  /\ Running(r, j) /\ Top(r, j).at = "built" /\ Len(task[r][j].stack) > 1
  /\ installed' = [installed EXCEPT ![b] = Top(r, j).archive]
  /\ SetStack(r, j, [below EXCEPT ![Len(below)].todo = @ \ {b}])
  /\ UNCHANGED <<needs, upstream, checkout, baseLock, cleaning, batch, reviewed>>

\* Mutation: the sources are not verified again.
StartUnverified(r, j) ==
  LET b == Top(r, j).base IN
  /\ Running(r, j) /\ Top(r, j).at = "dependencies" /\ Top(r, j).todo = {}
  /\ Missing(b) = {} /\ baseLock[b] = None
  /\ baseLock' = [baseLock EXCEPT ![b] = <<r, j>>]
  /\ SetStack(r, j, OnTop(r, j, [Top(r, j) EXCEPT !.at = "makepkg"]))
  /\ UNCHANGED <<needs, upstream, checkout, cleaning, installed, batch, reviewed>>

\* ensure_dependencies_satisfied, the locks again, the sources verified again
StartMakepkg(r, j) ==
  LET b == Top(r, j).base IN
  /\ Running(r, j) /\ Top(r, j).at = "dependencies" /\ Top(r, j).todo = {}
  /\ Missing(b) = {} /\ baseLock[b] = None /\ checkout[b] = Top(r, j).seen
  /\ baseLock' = [baseLock EXCEPT ![b] = <<r, j>>]
  /\ SetStack(r, j, OnTop(r, j, [Top(r, j) EXCEPT !.at = "makepkg"]))
  /\ UNCHANGED <<needs, upstream, checkout, cleaning, installed, batch, reviewed>>

\* run_build and the second build of authorize_with_paired_build, under the locks;
\* the archive is what the checkout holds.  A job is done with it.
EndMakepkg(r, j) ==
  LET b == Top(r, j).base IN
  /\ Running(r, j) /\ Top(r, j).at = "makepkg"
  /\ baseLock' = [baseLock EXCEPT ![b] = None]
  /\ \/ /\ Len(task[r][j].stack) > 1
        /\ SetStack(r, j, OnTop(r, j, [Top(r, j) EXCEPT !.at = "built", !.archive = checkout[b]]))
     \/ /\ Len(task[r][j].stack) = 1
        /\ task' = [task EXCEPT ![r][j] =
                      [state |-> "ok", archive |-> checkout[b], stack |-> <<>>]]
  /\ UNCHANGED <<needs, upstream, checkout, cleaning, installed, batch, reviewed>>

\* Sources that changed after their review, a cycle, a failed clone, build or install.
TaskFails(r, j) ==
  /\ Running(r, j)
  /\ UNCHANGED checkout \/ (Pulling(r, j) /\ CutShort({Top(r, j).base}))
  /\ task' = [task EXCEPT ![r][j] = [state |-> "failed", archive |-> 0, stack |-> <<>>]]
  /\ baseLock' = [b \in Bases |-> IF baseLock[b] = <<r, j>> THEN None ELSE baseLock[b]]
  /\ UNCHANGED <<needs, upstream, cleaning, installed, batch, reviewed>>

-----------------------------------------------------------------------------
TaskStep(r, j) ==
  \/ Plan(r, j) \/ Pull(r, j) \/ BuildDependency(r, j) \/ InstallDependency(r, j)
  \/ StartMakepkg(r, j) \/ EndMakepkg(r, j)

RunStep(r) ==
  \/ FirstWave(r) \/ InstallWave(r)
  \/ \E j \in Bases : Authorize(r, j) \/ Spawn(r, j) \/ TaskStep(r, j)

AurNext ==
  \/ Clean \/ Cleaned \/ \E b \in Bases : Push(b)
  \/ \E r \in Runs :
       \/ BuildPackages(r) \/ RunStep(r) \/ RunFails(r) \/ InstallWaveFails(r)
       \/ \E j \in Bases : TaskFails(r, j)

AurSpec == AurInit /\ [][AurNext]_aurVars

\* A check that fails is an error at once: the task or the call does not wait for
\* it to succeed later.
Refused(r, j) ==
  \/ Top(r, j).at = "start" /\ Len(task[r][j].stack) = 1 /\ baseLock[Top(r, j).base] = None
     /\ checkout[Top(r, j).base] # Top(r, j).seen
  \/ Top(r, j).at = "dependencies" /\ \E d \in Top(r, j).todo :
       \E i \in DOMAIN task[r][j].stack : task[r][j].stack[i].base = d
  \/ Top(r, j).at = "dependencies" /\ Top(r, j).todo = {}
     /\ (Missing(Top(r, j).base) # {} \/ (baseLock[Top(r, j).base] = None
                                           /\ checkout[Top(r, j).base] # Top(r, j).seen))

Progress(r) ==
  \/ RunStep(r)
  \/ batch[r].at = "authorize" /\ cleaning /\ RunFails(r)
  \/ \E j \in Bases : Running(r, j) /\ Refused(r, j) /\ TaskFails(r, j)

\* An invocation that can proceed does: its runtime polls what is ready, the lock
\* of a base is handed on, and git, the reviewer and makepkg come to an end.
AurFairness == \A r \in Runs : WF_aurVars(Progress(r))

AurFairSpec == AurSpec /\ AurFairness

-----------------------------------------------------------------------------
(* Properties.                                                             *)

BuildType ==
  [base : Bases, at : {"start", "dependencies", "makepkg", "built"}, seen : Revisions,
   todo : SUBSET Bases, archive : Revisions]

TaskType ==
  [state : {"none", "running", "ok", "failed"}, archive : Revisions, stack : Seq(BuildType)]

BatchType ==
  [at : {"idle", "authorize", "wave"} \cup Ended, jobs : SUBSET Bases, wave : Nat,
   ok : SUBSET Bases, failed : SUBSET Bases, skipped : SUBSET Bases, placed : SUBSET Bases]

\* Every variable has its type.
AurTypeOK ==
  /\ needs \in [Bases -> SUBSET Bases] /\ upstream \in [Bases -> Revisions]
  /\ checkout \in [Bases -> Revisions] /\ installed \in [Bases -> Revisions]
  /\ baseLock \in [Bases -> (Runs \X Bases) \cup {None}] /\ cleaning \in BOOLEAN
  /\ batch \in [Runs -> BatchType] /\ reviewed \in [Runs -> [Bases -> Revisions]]
  /\ task \in [Runs -> [Bases -> TaskType]]

\* Whatever other invocations pull into the shared checkout between the review,
\* the dependencies and the build, an archive that is going to be installed was
\* made from the revision its own invocation reviewed (ReviewedSource::verify).
BuiltIsReviewed ==
  \A r \in Runs, j \in Bases :
    /\ task[r][j].state = "ok" => task[r][j].archive = reviewed[r][j]
    /\ \A i \in DOMAIN task[r][j].stack :
         task[r][j].stack[i].at = "built" => task[r][j].stack[i].archive = task[r][j].stack[i].seen

\* A job is compiled only after this invocation has installed the new revisions
\* of the jobs it depends on, although older ones would satisfy makepkg
\* (topological_levels, build_level).
DependenciesFirst ==
  \A r \in Runs, j \in Bases :
    Running(r, j) /\ Top(r, j).at = "makepkg" /\ Len(task[r][j].stack) = 1
      => needs[j] \cap Jobs(r) \subseteq batch[r].placed

\* The summary accounts for every job once, and calls upgraded only what was
\* installed: no failed install and no skipped wave is counted (ParallelBuildSummary).
SummaryTrue ==
  \A r \in Runs : batch[r].at = "summary" =>
    /\ batch[r].ok \subseteq batch[r].placed
    /\ batch[r].ok \cup batch[r].failed \cup batch[r].skipped = Jobs(r)
    /\ batch[r].ok \cap batch[r].failed = {}
    /\ batch[r].skipped \cap (batch[r].ok \cup batch[r].failed) = {}

\* A source between its review and the end of its build.
InUse(b) ==
  \E r \in Runs, j \in Bases :
    \/ Leased(r, j) /\ j = b
    \/ \E i \in DOMAIN task[r][j].stack :
         task[r][j].stack[i].base = b /\ task[r][j].stack[i].seen # 0

\* The invocation, or a task of it, fails while it has the base to clone.
FailedRefresh(r, b) ==
  \/ Authorizing(r, b) /\ batch'[r].at = "error"
  \/ \E j \in Bases : /\ Pulling(r, j) /\ Top(r, j).base = b
                       /\ (batch'[r].at = "error" \/ task'[r][j].state = "failed")

\* A source in use, a dependency's included, which only the share of its job
\* protects, is never cleaned away (AuthorizedBuild, clean_all).  It is lost only
\* where an invocation that clones the same base again, and has removed the old
\* clone first, fails.
SourcesStay ==
  [][\A b \in Bases : checkout[b] # 0 /\ checkout'[b] = 0 /\ InUse(b)
        => \E r \in Runs : FailedRefresh(r, b)]_aurVars

\* No invocation waits for ever for the locks of another, even when they build
\* each other's dependencies.
BuildsEnd == \A r \in Runs : batch[r].at \in {"authorize", "wave"} ~> batch[r].at \in Ended
=============================================================================
