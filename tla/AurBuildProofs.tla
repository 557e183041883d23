--------------------------- MODULE AurBuildProofs ---------------------------
(***************************************************************************)
(* Proofs about AUR builds, for any number of invocations and package      *)
(* bases and any dependencies between them.                                *)
(*                                                                         *)
(* The first invariant is about one task and the shared build directory: a *)
(* task that compiles holds the lock of its base and the checkout is still *)
(* the revision it saw, and while it has a share of the lifecycle lock     *)
(* nobody cleans.  Each step changes one task; what it does to the locks   *)
(* and the checkouts does not touch the others (Bystander).                *)
(*                                                                         *)
(* The second one, WavesInv, is about one invocation: the waves that are   *)
(* over are the first levels of its jobs and all of them are installed.    *)
(* What the levels are is shown by induction (LevelsGrow).                 *)
(***************************************************************************)
EXTENDS AurBuild, Induction, FiniteSetTheorems, TLAPS

\* The i-th build on the stack of a task.
BuildSound(r, j, i) ==
  LET stack == task[r][j].stack
      build == stack[i]
  IN
  /\ build.at = "makepkg" => baseLock[build.base] = <<r, j>> /\ checkout[build.base] = build.seen
  /\ build.at = "built" => build.archive = build.seen
  /\ i < Len(stack) => build.at = "dependencies"
  /\ i = 1 => build.base = j /\ build.seen = reviewed[r][j]

TaskSound(r, j) ==
  /\ Running(r, j) <=> task[r][j].stack # <<>>
  /\ Running(r, j) => reviewed[r][j] # 0
  /\ task[r][j].state = "ok" => task[r][j].archive = reviewed[r][j]
  /\ task[r][j].state # "none" => batch[r].at = "wave"
  /\ batch[r].at = "wave" /\ j \in Jobs(r) => reviewed[r][j] # 0
  /\ Leased(r, j) => ~cleaning
  /\ \A i \in 1..Len(task[r][j].stack) : BuildSound(r, j, i)

AurInv ==
  /\ AurTypeOK /\ \A b \in Bases : upstream[b] # 0
  /\ \A r \in Runs, j \in Bases : TaskSound(r, j)

-----------------------------------------------------------------------------
(* Stacks of builds.                                                       *)

LEMMA Replaced ==
  ASSUME NEW s \in Seq(BuildType), s # <<>>, NEW e \in BuildType
  PROVE  LET t == [s EXCEPT ![Len(s)] = e] IN
         /\ t \in Seq(BuildType) /\ t # <<>> /\ Len(t) = Len(s) /\ t[Len(s)] = e
         /\ \A i \in 1..Len(s) : i # Len(s) => t[i] = s[i]
<1>1. Len(s) \in 1..Len(s) /\ Len(s) \in Nat
  OBVIOUS
<1>2. PICK n \in Nat : n = Len(s)
  BY <1>1
<1>3. [s EXCEPT ![n] = e] \in Seq(BuildType) /\ Len([s EXCEPT ![n] = e]) = n
  BY <1>1, <1>2
<1>4. [s EXCEPT ![n] = e][n] = e /\ \A i \in 1..n : i # n => [s EXCEPT ![n] = e][i] = s[i]
  BY <1>1, <1>2
<1>5. [s EXCEPT ![n] = e] # <<>>
  BY <1>1, <1>2, <1>3
<1> QED
  BY <1>2, <1>3, <1>4, <1>5

LEMMA Pushed ==
  ASSUME NEW s \in Seq(BuildType), NEW e \in BuildType
  PROVE  LET t == Append(s, e) IN
         /\ t \in Seq(BuildType) /\ t # <<>> /\ Len(t) = Len(s) + 1 /\ t[Len(s) + 1] = e
         /\ \A i \in 1..Len(s) : t[i] = s[i]
OBVIOUS

\* A stack with more than one build.
LEMMA Deep ==
  ASSUME NEW s \in Seq(BuildType), Len(s) > 1
  PROVE  Len(s) # 1 /\ \E n \in Nat \ {0} : Len(s) = n + 1 /\ Len(s) - 1 = n
<1>1. PICK m \in Nat : m = Len(s)
  OBVIOUS
<1>2. m > 1
  BY <1>1
<1>3. m # 1 /\ m - 1 \in Nat \ {0} /\ m = (m - 1) + 1
  BY <1>2
<1> QED
  BY <1>1, <1>3

\* The stack without its top, whose base is no longer to do.
Below(s, n, d) == [SubSeq(s, 1, n) EXCEPT ![n].todo = @ \ {d}]

LEMMA TakenOff ==
  ASSUME NEW s \in Seq(BuildType), NEW n \in Nat \ {0}, Len(s) = n + 1, NEW d
  PROVE  LET t == Below(s, n, d) IN
         /\ t \in Seq(BuildType) /\ t # <<>> /\ Len(t) = n /\ Len(SubSeq(s, 1, n)) = n
         /\ \A i \in 1..n : /\ t[i].base = s[i].base /\ t[i].at = s[i].at
                            /\ t[i].seen = s[i].seen /\ t[i].archive = s[i].archive
<1> DEFINE below == SubSeq(s, 1, n)
           e == [below[n] EXCEPT !.todo = @ \ {d}]
<1>1. \A i \in 1..n : s[i] \in BuildType
  OBVIOUS
<1>2. below \in Seq(BuildType) /\ Len(below) = n /\ \A i \in 1..n : below[i] = s[i]
  BY <1>1
<1>3. below # <<>> /\ n \in 1..n /\ below[n] \in BuildType
  BY <1>2
<1> HIDE DEF below
<1>4. /\ e \in BuildType /\ e.base = below[n].base /\ e.at = below[n].at
      /\ e.seen = below[n].seen /\ e.archive = below[n].archive
  BY <1>3 DEF BuildType
<1> HIDE DEF e
<1>5. LET u == [below EXCEPT ![n] = e] IN
      /\ u \in Seq(BuildType) /\ u # <<>> /\ Len(u) = n /\ u[n] = e
      /\ \A i \in 1..n : i # n => u[i] = below[i]
  BY <1>2, <1>3, <1>4, Replaced
<1>6. Below(s, n, d) = [below EXCEPT ![n] = e]
  BY DEF e, below, Below
<1> QED
  BY <1>2, <1>4, <1>5, <1>6 DEF below

-----------------------------------------------------------------------------
(* One task and the others.                                                *)

OnlyTask(r, j) ==
  \A q \in Runs, k \in Bases : (q # r \/ k # j) => task'[q][k] = task[q][k]

LEMMA NewTask ==
  ASSUME AurTypeOK, NEW r \in Runs, NEW j \in Bases, NEW t \in TaskType,
         task' = [task EXCEPT ![r][j] = t]
  PROVE  task' \in [Runs -> [Bases -> TaskType]] /\ task'[r][j] = t /\ OnlyTask(r, j)
BY DEF AurTypeOK, OnlyTask

LEMMA NewStack ==
  ASSUME AurTypeOK, NEW r \in Runs, NEW j \in Bases, NEW s \in Seq(BuildType),
         SetStack(r, j, s)
  PROVE  /\ task' \in [Runs -> [Bases -> TaskType]] /\ OnlyTask(r, j)
         /\ task'[r][j].stack = s /\ task'[r][j].state = task[r][j].state
         /\ task'[r][j].archive = task[r][j].archive
<1>1. task[r][j] \in TaskType
  BY DEF AurTypeOK
<1>2. PICK t \in TaskType : /\ t = [task[r][j] EXCEPT !.stack = s] /\ t.stack = s
                            /\ t.state = task[r][j].state /\ t.archive = task[r][j].archive
  <2> DEFINE t == [task[r][j] EXCEPT !.stack = s]
  <2>1. t \in TaskType
    BY <1>1 DEF TaskType
  <2>2. t.stack = s /\ t.state = task[r][j].state /\ t.archive = task[r][j].archive
    BY <1>1 DEF TaskType
  <2> QED
    BY <2>1, <2>2
<1>3. task' = [task EXCEPT ![r][j] = t]
  BY <1>2 DEF SetStack
<1> QED
  BY <1>2, <1>3, NewTask

\* A step of somebody else that respects the lock of a base, and does not begin
\* to clean, leaves a task as it was.
LEMMA Bystander ==
  ASSUME AurTypeOK, NEW q \in Runs, NEW k \in Bases, TaskSound(q, k),
         task'[q][k] = task[q][k], reviewed'[q][k] = reviewed[q][k],
         batch'[q].at = batch[q].at, batch'[q].jobs = batch[q].jobs,
         \A b \in Bases : checkout'[b] = checkout[b] \/ baseLock[b] # <<q, k>>,
         \A b \in Bases : baseLock[b] = <<q, k>> => baseLock'[b] = <<q, k>>,
         cleaning' => cleaning
  PROVE  TaskSound(q, k)'
<1> DEFINE s == task[q][k].stack
<1>1. s \in Seq(BuildType) /\ \A i \in 1..Len(s) : s[i] \in BuildType /\ s[i].base \in Bases
  <2>1. s \in Seq(BuildType)
    BY DEF AurTypeOK, TaskType
  <2>2. \A e \in BuildType : e.base \in Bases
    BY DEF BuildType
  <2> QED
    BY <2>1, <2>2
<1>2. ASSUME NEW i \in 1..Len(s) PROVE BuildSound(q, k, i)'
  <2>1. BuildSound(q, k, i)
    BY <1>2 DEF TaskSound
  <2> QED
    BY <2>1, <1>1 DEF BuildSound
<1>3. Leased(q, k)' = Leased(q, k) /\ Running(q, k)' = Running(q, k)
  BY DEF Leased, Running
<1> QED
  BY <1>2, <1>3 DEF TaskSound, Jobs

\* A step of one task that takes locks that are free, gives up its own and pulls
\* only into a checkout that nobody locks.
LEMMA OneTask ==
  ASSUME AurInv, AurTypeOK', NEW r \in Runs, NEW j \in Bases, OnlyTask(r, j),
         UNCHANGED <<upstream, batch, reviewed, cleaning>>,
         \A b \in Bases : checkout'[b] = checkout[b] \/ baseLock[b] = None,
         \A b \in Bases : baseLock[b] \in {None, <<r, j>>} \/ baseLock'[b] = baseLock[b],
         TaskSound(r, j)'
  PROVE  AurInv'
<1>1. ASSUME NEW q \in Runs, NEW k \in Bases PROVE TaskSound(q, k)'
  <2>1. CASE q = r /\ k = j
    BY <2>1
  <2>2. CASE q # r \/ k # j
    <3>1. <<q, k>> # <<r, j>> /\ <<q, k>> # None
      BY <2>2, AurConstants
    <3>2. AurTypeOK /\ TaskSound(q, k)
      BY DEF AurInv
    <3>3. task'[q][k] = task[q][k]
      BY <2>2 DEF OnlyTask
    <3> QED
      BY <3>1, <3>2, <3>3, Bystander
  <2> QED
    BY <2>1, <2>2
<1> QED
  BY <1>1 DEF AurInv

\* A run without tasks is sound.
LEMMA NoTasks ==
  ASSUME NEW r \in Runs, NEW j \in Bases, task'[r][j] = Idle, reviewed'[r][j] = 0,
         batch'[r].at # "wave"
  PROVE  TaskSound(r, j)'
BY DEF TaskSound, Running, Leased, Idle

-----------------------------------------------------------------------------
(* The steps of a task.                                                    *)

\* What a running task has.
LEMMA RunningTask ==
  ASSUME AurInv, NEW r \in Runs, NEW j \in Bases, Running(r, j)
  PROVE  LET s == task[r][j].stack IN
         /\ s \in Seq(BuildType) /\ s # <<>> /\ Len(s) \in Nat \ {0} /\ Len(s) \in 1..Len(s)
         /\ Top(r, j) = s[Len(s)] /\ Top(r, j) \in BuildType
         /\ Top(r, j).base \in Bases /\ Top(r, j).seen \in Revisions
         /\ \A i \in 1..Len(s) : BuildSound(r, j, i) /\ s[i].base \in Bases
         /\ reviewed[r][j] # 0 /\ ~cleaning /\ batch[r].at = "wave"
         /\ TaskSound(r, j)
<1> DEFINE s == task[r][j].stack
<1>1. TaskSound(r, j) /\ AurTypeOK
  BY DEF AurInv
<1>2. s \in Seq(BuildType)
  BY <1>1 DEF AurTypeOK, TaskType
<1>3. s # <<>> /\ reviewed[r][j] # 0 /\ \A i \in 1..Len(s) : BuildSound(r, j, i)
  BY <1>1 DEF TaskSound
<1>4. Leased(r, j) /\ ~cleaning /\ batch[r].at = "wave"
  BY <1>1, <1>3 DEF TaskSound, Leased, Running
<1>5. Len(s) \in Nat \ {0} /\ Len(s) \in 1..Len(s) /\ \A i \in 1..Len(s) : s[i] \in BuildType
  BY <1>2, <1>3
<1>6. \A e \in BuildType : e.base \in Bases /\ e.seen \in Revisions
  BY DEF BuildType
<1> QED
  BY <1>1, <1>2, <1>3, <1>4, <1>5, <1>6 DEF Top

\* A running task with another stack is sound if the builds on it are.
LEMMA SoundStack ==
  ASSUME AurInv, NEW r \in Runs, NEW j \in Bases, Running(r, j),
         NEW t \in Seq(BuildType), t # <<>>, SetStack(r, j, t),
         UNCHANGED <<batch, reviewed, cleaning>>,
         \A i \in 1..Len(t) : BuildSound(r, j, i)'
  PROVE  TaskSound(r, j)'
<1>1. task'[r][j].stack = t /\ task'[r][j].state = "running"
  BY NewStack DEF AurInv, Running
<1>2. reviewed[r][j] # 0 /\ ~cleaning /\ batch[r].at = "wave"
  BY RunningTask
<1> QED
  BY <1>1, <1>2 DEF TaskSound, Running, Leased

\* Only the top of the stack is replaced, by a build of the same base.
LEMMA TopStep ==
  ASSUME AurInv, NEW r \in Runs, NEW j \in Bases, Running(r, j), NEW e \in BuildType,
         SetStack(r, j, OnTop(r, j, e)), e.base = Top(r, j).base,
         UNCHANGED <<needs, upstream, cleaning, installed, batch, reviewed>>,
         checkout' \in [Bases -> Revisions],
         \A b \in Bases : checkout'[b] = checkout[b] \/ baseLock[b] = None,
         baseLock' \in [Bases -> (Runs \X Bases) \cup {None}],
         \A b \in Bases : baseLock[b] \in {None, <<r, j>>} \/ baseLock'[b] = baseLock[b],
         e.at = "makepkg" => baseLock'[e.base] = <<r, j>> /\ checkout'[e.base] = e.seen,
         e.at = "built" => e.archive = e.seen,
         Len(task[r][j].stack) = 1 => e.seen = Top(r, j).seen
  PROVE  AurInv'
<1> DEFINE s == task[r][j].stack
           t == OnTop(r, j, e)
<1>1. /\ s \in Seq(BuildType) /\ s # <<>> /\ Len(s) \in Nat \ {0} /\ Len(s) \in 1..Len(s)
      /\ Top(r, j) = s[Len(s)] /\ AurTypeOK
      /\ \A i \in 1..Len(s) : BuildSound(r, j, i) /\ s[i].base \in Bases
  BY RunningTask DEF AurInv
<1>2. /\ t \in Seq(BuildType) /\ t # <<>> /\ Len(t) = Len(s) /\ t[Len(s)] = e
      /\ \A i \in 1..Len(s) : i # Len(s) => t[i] = s[i]
  BY <1>1, Replaced DEF OnTop
<1> HIDE DEF t
<1>3. /\ task' \in [Runs -> [Bases -> TaskType]] /\ OnlyTask(r, j) /\ task'[r][j].stack = t
  BY <1>1, <1>2, NewStack DEF t
<1>4. AurTypeOK'
  BY <1>1, <1>3 DEF AurTypeOK
<1>5. ASSUME NEW i \in 1..Len(t) PROVE BuildSound(r, j, i)'
  <2>1. BuildSound(r, j, i) /\ i \in 1..Len(s) /\ s[i].base \in Bases
    BY <1>1, <1>2
  <2>2. CASE i = Len(s)
    <3>1. t[i] = e /\ e.base = s[i].base /\ ~(i < Len(t))
      BY <1>1, <1>2, <2>2
    <3>2. i = 1 => e.base = j /\ e.seen = reviewed[r][j]
      BY <2>1, <2>2, <3>1, <1>1 DEF BuildSound
    <3> QED
      BY <3>1, <3>2, <1>3 DEF BuildSound
  <2>3. CASE i # Len(s)
    <3>1. t[i] = s[i] /\ i < Len(s) /\ s[i].at = "dependencies"
      <4>1. i < Len(s)
        BY <1>1, <2>1, <2>3
      <4> QED
        BY <4>1, <1>2, <2>1, <2>3 DEF BuildSound
    <3> QED
      BY <3>1, <2>1, <1>2, <1>3 DEF BuildSound
  <2> QED
    BY <2>2, <2>3
<1>6. TaskSound(r, j)'
  BY <1>1, <1>2, <1>5, SoundStack DEF t
<1> QED
  BY <1>3, <1>4, <1>6, OneTask

LEMMA NewBuild ==
  ASSUME NEW b \in Bases, NEW point \in {"start", "dependencies", "makepkg", "built"},
         NEW seen \in Revisions, NEW todo \in SUBSET Bases
  PROVE  LET e == Build(b, point, seen, todo) IN
         e \in BuildType /\ e.base = b /\ e.at = point /\ e.seen = seen
BY DEF Build, BuildType, Revisions

LEMMA EmptyStack ==
  ASSUME NEW state \in {"none", "running", "ok", "failed"}, NEW archive \in Revisions
  PROVE  \E t \in TaskType : /\ t = [state |-> state, archive |-> archive, stack |-> <<>>]
                              /\ t.state = state /\ t.archive = archive /\ t.stack = <<>>
<1> DEFINE t == [state |-> state, archive |-> archive, stack |-> <<>>]
<1>1. <<>> \in Seq(BuildType)
  OBVIOUS
<1>2. t \in TaskType
  BY <1>1 DEF TaskType
<1>3. t.state = state /\ t.archive = archive /\ t.stack = <<>>
  OBVIOUS
<1> QED
  BY <1>2, <1>3

LEMMA MissingBases ==
  ASSUME AurTypeOK, NEW b \in Bases
  PROVE  Missing(b) \subseteq Bases
BY DEF AurTypeOK, Missing

LEMMA PlanStep ==
  ASSUME AurInv, NEW r \in Runs, NEW j \in Bases, Plan(r, j)
  PROVE  AurInv'
<1> DEFINE b == Top(r, j).base
           e == Build(b, "dependencies", Top(r, j).seen, Missing(b))
<1>1. AurTypeOK /\ Running(r, j)
  BY DEF AurInv, Plan
<1>2. b \in Bases /\ Top(r, j).seen \in Revisions /\ BuildSound(r, j, Len(task[r][j].stack))
      /\ Top(r, j) = task[r][j].stack[Len(task[r][j].stack)]
  BY <1>1, RunningTask
<1>3. e \in BuildType /\ e.base = b /\ e.at = "dependencies" /\ e.seen = Top(r, j).seen
  BY <1>1, <1>2, NewBuild, MissingBases
<1> HIDE DEF e
<1> QED
  BY <1>1, <1>3, TopStep DEF Plan, e, AurTypeOK

LEMMA PullStep ==
  ASSUME AurInv, NEW r \in Runs, NEW j \in Bases, Pull(r, j)
  PROVE  AurInv'
<1> DEFINE b == Top(r, j).base
           e == Build(b, "dependencies", upstream[b], Missing(b))
<1>1. AurTypeOK /\ Running(r, j) /\ Len(task[r][j].stack) # 1
  <2>1. AurTypeOK /\ Running(r, j) /\ Len(task[r][j].stack) > 1
    BY DEF AurInv, Pull, Pulling
  <2>2. task[r][j].stack \in Seq(BuildType)
    BY <2>1, RunningTask
  <2> QED
    BY <2>1, <2>2, Deep
<1>2. b \in Bases
  BY <1>1, RunningTask
<1>3. upstream[b] \in Revisions /\ upstream[b] # 0
  BY <1>1, <1>2 DEF AurInv, AurTypeOK
<1>4. e \in BuildType /\ e.base = b /\ e.at = "dependencies" /\ e.seen = upstream[b]
  BY <1>1, <1>2, <1>3, NewBuild, MissingBases
<1> HIDE DEF e
<1>5. /\ checkout' = [checkout EXCEPT ![b] = upstream[b]] /\ baseLock[b] = None
      /\ SetStack(r, j, OnTop(r, j, e)) /\ baseLock' = baseLock
      /\ UNCHANGED <<needs, upstream, cleaning, installed, batch, reviewed>>
  BY DEF Pull, Pulling, e
<1>6. /\ checkout' \in [Bases -> Revisions]
      /\ \A a \in Bases : checkout'[a] = checkout[a] \/ baseLock[a] = None
  BY <1>1, <1>2, <1>3, <1>5 DEF AurTypeOK
<1>7. baseLock' \in [Bases -> (Runs \X Bases) \cup {None}]
  BY <1>1, <1>5 DEF AurTypeOK
<1> HIDE DEF b
<1> QED
  BY <1>1, <1>4, <1>5, <1>6, <1>7, TopStep DEF b

LEMMA BuildDependencyStep ==
  ASSUME AurInv, NEW r \in Runs, NEW j \in Bases, BuildDependency(r, j)
  PROVE  AurInv'
<1> DEFINE s == task[r][j].stack
<1>1. /\ Running(r, j) /\ Top(r, j).at = "dependencies" /\ AurTypeOK
      /\ UNCHANGED <<needs, upstream, checkout, baseLock, cleaning, installed, batch, reviewed>>
  BY DEF AurInv, BuildDependency
<1>2. /\ s \in Seq(BuildType) /\ s # <<>> /\ Len(s) \in Nat \ {0} /\ Len(s) \in 1..Len(s)
      /\ Top(r, j) = s[Len(s)] /\ Top(r, j) \in BuildType
      /\ \A i \in 1..Len(s) : BuildSound(r, j, i)
  BY <1>1, RunningTask
<1>3. PICK d \in Top(r, j).todo : SetStack(r, j, Append(s, Build(d, "start", 0, {})))
  BY DEF BuildDependency
<1>4. d \in Bases
  BY <1>2 DEF BuildType
<1>5. PICK e \in BuildType : e = Build(d, "start", 0, {}) /\ e.at = "start" /\ e.seen = 0
  BY <1>4, NewBuild DEF Revisions
<1>6. PICK t : t = Append(s, e)
  OBVIOUS
<1>7. /\ t \in Seq(BuildType) /\ t # <<>> /\ Len(t) = Len(s) + 1 /\ t[Len(s) + 1] = e
      /\ \A i \in 1..Len(s) : t[i] = s[i]
  BY <1>2, <1>6, Pushed
<1>8. SetStack(r, j, t)
  BY <1>3, <1>5, <1>6
<1>9. task' \in [Runs -> [Bases -> TaskType]] /\ OnlyTask(r, j) /\ task'[r][j].stack = t
  BY <1>1, <1>7, <1>8, NewStack
<1>10. ASSUME NEW i \in 1..Len(t) PROVE BuildSound(r, j, i)'
  <2>1. CASE i = Len(s) + 1
    <3>1. t[i] = e /\ i # 1 /\ ~(i < Len(t))
      BY <1>2, <1>7, <2>1
    <3> QED
      BY <3>1, <1>5, <1>9 DEF BuildSound
  <2>2. CASE i # Len(s) + 1
    <3>1. i \in 1..Len(s) /\ t[i] = s[i]
      BY <1>2, <1>7, <2>2
    <3>2. BuildSound(r, j, i) /\ s[i].at = "dependencies"
      <4>1. i = Len(s) \/ i < Len(s)
        BY <3>1, <1>2
      <4> QED
        BY <4>1, <3>1, <1>1, <1>2 DEF BuildSound
    <3> QED
      BY <3>1, <3>2, <1>1, <1>9 DEF BuildSound
  <2> QED
    BY <2>1, <2>2
<1>11. TaskSound(r, j)'
  BY <1>1, <1>2, <1>7, <1>8, <1>10, SoundStack
<1>12. AurTypeOK'
  BY <1>1, <1>9 DEF AurTypeOK
<1> QED
  BY <1>1, <1>9, <1>11, <1>12, OneTask

LEMMA InstallDependencyStep ==
  ASSUME AurInv, NEW r \in Runs, NEW j \in Bases, InstallDependency(r, j)
  PROVE  AurInv'
<1> DEFINE s == task[r][j].stack
           b == Top(r, j).base
<1>1. /\ Running(r, j) /\ Len(s) > 1 /\ AurTypeOK
      /\ installed' = [installed EXCEPT ![b] = Top(r, j).archive]
      /\ UNCHANGED <<needs, upstream, checkout, baseLock, cleaning, batch, reviewed>>
  BY DEF AurInv, InstallDependency
<1>2. /\ s \in Seq(BuildType) /\ Len(s) \in Nat \ {0}
      /\ Top(r, j) \in BuildType /\ \A i \in 1..Len(s) : BuildSound(r, j, i)
  BY <1>1, RunningTask
<1>3. PICK n \in Nat \ {0} : Len(s) = n + 1 /\ Len(s) - 1 = n
  BY <1>1, <1>2, Deep
<1>4. PICK t : t = Below(s, n, b)
  OBVIOUS
<1>5. /\ t \in Seq(BuildType) /\ t # <<>> /\ Len(t) = n /\ Len(SubSeq(s, 1, n)) = n
      /\ \A i \in 1..n : /\ t[i].base = s[i].base /\ t[i].at = s[i].at
                         /\ t[i].seen = s[i].seen /\ t[i].archive = s[i].archive
  <2>1. s \in Seq(BuildType) /\ Len(s) = n + 1
    BY <1>2, <1>3
  <2> HIDE DEF s, b
  <2> QED
    BY <2>1, <1>4, TakenOff
<1>6. SetStack(r, j, t)
  BY <1>3, <1>4, <1>5 DEF InstallDependency, Popped, Below
<1>7. task' \in [Runs -> [Bases -> TaskType]] /\ OnlyTask(r, j) /\ task'[r][j].stack = t
  BY <1>1, <1>5, <1>6, NewStack
<1>8. ASSUME NEW i \in 1..Len(t) PROVE BuildSound(r, j, i)'
  <2>1. i \in 1..Len(s) /\ i \in 1..n /\ i < Len(s)
    BY <1>3, <1>5
  <2>2. BuildSound(r, j, i) /\ s[i].at = "dependencies"
    BY <2>1, <1>2 DEF BuildSound
  <2> QED
    BY <2>1, <2>2, <1>1, <1>5, <1>7 DEF BuildSound
<1>9. TaskSound(r, j)'
  BY <1>1, <1>2, <1>5, <1>6, <1>8, SoundStack
<1>10. AurTypeOK'
  <2>1. Top(r, j).archive \in Revisions
    BY <1>2 DEF BuildType
  <2>2. installed' \in [Bases -> Revisions]
    BY <2>1, <1>1 DEF AurTypeOK
  <2> QED
    BY <2>2, <1>1, <1>7 DEF AurTypeOK
<1> QED
  BY <1>1, <1>7, <1>9, <1>10, OneTask

LEMMA StartMakepkgStep ==
  ASSUME AurInv, NEW r \in Runs, NEW j \in Bases, StartMakepkg(r, j)
  PROVE  AurInv'
<1> DEFINE b == Top(r, j).base
<1>1. /\ Running(r, j) /\ AurTypeOK /\ baseLock[b] = None /\ checkout[b] = Top(r, j).seen
      /\ baseLock' = [baseLock EXCEPT ![b] = <<r, j>>]
      /\ SetStack(r, j, OnTop(r, j, [Top(r, j) EXCEPT !.at = "makepkg"]))
      /\ UNCHANGED <<needs, upstream, checkout, cleaning, installed, batch, reviewed>>
  BY DEF AurInv, StartMakepkg
<1>2. Top(r, j) \in BuildType /\ b \in Bases
  BY <1>1, RunningTask
<1>3. PICK e \in BuildType : /\ e = [Top(r, j) EXCEPT !.at = "makepkg"] /\ e.base = b
                             /\ e.at = "makepkg" /\ e.seen = Top(r, j).seen
  <2> DEFINE e == [Top(r, j) EXCEPT !.at = "makepkg"]
  <2>1. e \in BuildType
    BY <1>2 DEF BuildType
  <2>2. e.base = b /\ e.at = "makepkg" /\ e.seen = Top(r, j).seen
    BY <1>2 DEF BuildType
  <2> QED
    BY <2>1, <2>2
<1>4. /\ baseLock' \in [Bases -> (Runs \X Bases) \cup {None}] /\ baseLock'[b] = <<r, j>>
      /\ \A a \in Bases : baseLock[a] \in {None, <<r, j>>} \/ baseLock'[a] = baseLock[a]
  BY <1>1, <1>2 DEF AurTypeOK
<1>5. checkout' \in [Bases -> Revisions] /\ SetStack(r, j, OnTop(r, j, e))
  BY <1>1, <1>3 DEF AurTypeOK
<1> HIDE DEF b
<1> QED
  BY <1>1, <1>3, <1>4, <1>5, TopStep DEF b

LEMMA EndMakepkgStep ==
  ASSUME AurInv, NEW r \in Runs, NEW j \in Bases, EndMakepkg(r, j)
  PROVE  AurInv'
<1> DEFINE b == Top(r, j).base
           n == Len(task[r][j].stack)
<1>1. /\ Running(r, j) /\ AurTypeOK /\ Top(r, j).at = "makepkg"
      /\ baseLock' = [baseLock EXCEPT ![b] = None]
      /\ UNCHANGED <<needs, upstream, checkout, cleaning, installed, batch, reviewed>>
  BY DEF AurInv, EndMakepkg
<1>2. Top(r, j) \in BuildType /\ b \in Bases /\ BuildSound(r, j, n)
      /\ Top(r, j) = task[r][j].stack[n] /\ checkout[b] \in Revisions
  BY <1>1, RunningTask DEF AurTypeOK
<1>3. baseLock[b] = <<r, j>> /\ checkout[b] = Top(r, j).seen
  BY <1>1, <1>2 DEF BuildSound
<1>4. /\ baseLock' \in [Bases -> (Runs \X Bases) \cup {None}]
      /\ \A a \in Bases : baseLock[a] \in {None, <<r, j>>} \/ baseLock'[a] = baseLock[a]
  BY <1>1, <1>2, <1>3 DEF AurTypeOK
<1>n. n \in Nat /\ n # 0 /\ task[r][j].stack \in Seq(BuildType)
  BY <1>1, RunningTask
<1>5. CASE /\ n > 1
           /\ SetStack(r, j, OnTop(r, j, [Top(r, j) EXCEPT !.at = "built", !.archive = checkout[b]]))
  <2>1. n # 1
    BY <1>5, <1>n, Deep
  <2>2. PICK e \in BuildType :
          /\ e = [Top(r, j) EXCEPT !.at = "built", !.archive = checkout[b]] /\ e.base = b
          /\ e.at = "built" /\ e.seen = Top(r, j).seen /\ e.archive = checkout[b]
    <3> DEFINE e == [Top(r, j) EXCEPT !.at = "built", !.archive = checkout[b]]
    <3>1. e \in BuildType
      BY <1>2 DEF BuildType
    <3>2. e.base = b /\ e.at = "built" /\ e.seen = Top(r, j).seen /\ e.archive = checkout[b]
      BY <1>2 DEF BuildType
    <3> QED
      BY <3>1, <3>2
  <2>3. checkout' \in [Bases -> Revisions] /\ SetStack(r, j, OnTop(r, j, e))
    BY <1>1, <1>5, <2>2 DEF AurTypeOK
  <2> HIDE DEF b
  <2> QED
    BY <1>1, <1>3, <1>4, <2>1, <2>2, <2>3, TopStep DEF b
<1>6. CASE /\ n = 1
           /\ task' = [task EXCEPT ![r][j] =
                         [state |-> "ok", archive |-> checkout[b], stack |-> <<>>]]
  <2>2. PICK t \in TaskType : /\ t = [state |-> "ok", archive |-> checkout[b], stack |-> <<>>]
                              /\ t.state = "ok" /\ t.archive = checkout[b] /\ t.stack = <<>>
    <3>1. PICK a \in Revisions : a = checkout[b]
      BY <1>2
    <3> QED
      BY <3>1, EmptyStack
  <2>3. task' \in [Runs -> [Bases -> TaskType]] /\ OnlyTask(r, j) /\ task'[r][j] = t
    BY <1>1, <1>6, <2>2, NewTask
  <2>4. checkout[b] = reviewed[r][j] /\ batch[r].at = "wave"
        /\ reviewed[r][j] # 0
    <3>1. BuildSound(r, j, 1) /\ Top(r, j) = task[r][j].stack[1]
      BY <1>2, <1>6
    <3>2. Top(r, j).seen = reviewed[r][j]
      BY <3>1 DEF BuildSound
    <3> QED
      BY <3>2, <1>1, <1>3, RunningTask
  <2>5. TaskSound(r, j)'
    BY <2>2, <2>3, <2>4, <1>1 DEF TaskSound, Running, Leased
  <2>6. AurTypeOK'
    BY <1>1, <1>4, <2>3 DEF AurTypeOK
  <2> QED
    BY <1>1, <1>4, <2>3, <2>5, <2>6, OneTask
<1> QED
  BY <1>5, <1>6 DEF EndMakepkg

\* Clones that are cut short touch nothing but their own checkouts.
LEMMA OnlyTheirs ==
  ASSUME AurTypeOK, NEW bases, CutShort(bases)
  PROVE  /\ checkout' \in [Bases -> Revisions]
         /\ \A b \in Bases : b \notin bases => checkout'[b] = checkout[b]
<1>1. PICK gone \in SUBSET bases, unreviewed \in SUBSET bases :
        checkout' = [b \in Bases |-> IF b \in gone THEN 0
                                     ELSE IF b \in unreviewed THEN upstream[b] ELSE checkout[b]]
  BY DEF CutShort
<1>2. \A b \in Bases : 0 \in Revisions /\ upstream[b] \in Revisions /\ checkout[b] \in Revisions
  BY DEF AurTypeOK, Revisions
<1> QED
  BY <1>1, <1>2

\* Whoever clones a dependency has the lock of its base, so nobody compiles it.
LEMMA FailedPull ==
  ASSUME AurInv, NEW r \in Runs, NEW j \in Bases,
         UNCHANGED checkout \/ (Pulling(r, j) /\ CutShort({Top(r, j).base}))
  PROVE  /\ checkout' \in [Bases -> Revisions]
         /\ \A b \in Bases : checkout'[b] = checkout[b] \/ baseLock[b] = None
<1>1. AurTypeOK /\ checkout \in [Bases -> Revisions]
  BY DEF AurInv, AurTypeOK
<1>2. CASE UNCHANGED checkout
  BY <1>1, <1>2
<1>3. CASE Pulling(r, j) /\ CutShort({Top(r, j).base})
  <2>1. baseLock[Top(r, j).base] = None
    BY <1>3 DEF Pulling
  <2>2. /\ checkout' \in [Bases -> Revisions]
        /\ \A b \in Bases : b \notin {Top(r, j).base} => checkout'[b] = checkout[b]
    BY <1>1, <1>3, OnlyTheirs
  <2> QED
    BY <2>1, <2>2
<1> QED
  BY <1>2, <1>3

LEMMA TaskFailsStep ==
  ASSUME AurInv, NEW r \in Runs, NEW j \in Bases, TaskFails(r, j)
  PROVE  AurInv'
<1>1. /\ Running(r, j) /\ AurTypeOK
      /\ task' = [task EXCEPT ![r][j] = [state |-> "failed", archive |-> 0, stack |-> <<>>]]
      /\ baseLock' = [b \in Bases |-> IF baseLock[b] = <<r, j>> THEN None ELSE baseLock[b]]
      /\ UNCHANGED <<needs, upstream, cleaning, installed, batch, reviewed>>
  BY DEF AurInv, TaskFails
<1>c. /\ checkout' \in [Bases -> Revisions]
      /\ \A b \in Bases : checkout'[b] = checkout[b] \/ baseLock[b] = None
  BY FailedPull DEF TaskFails
<1>2. PICK t \in TaskType : /\ t = [state |-> "failed", archive |-> 0, stack |-> <<>>]
                            /\ t.state = "failed" /\ t.stack = <<>>
  BY EmptyStack DEF Revisions
<1>3. task' \in [Runs -> [Bases -> TaskType]] /\ OnlyTask(r, j) /\ task'[r][j] = t
  BY <1>1, <1>2, NewTask
<1>4. /\ baseLock' \in [Bases -> (Runs \X Bases) \cup {None}]
      /\ \A a \in Bases : baseLock[a] \in {None, <<r, j>>} \/ baseLock'[a] = baseLock[a]
  BY <1>1 DEF AurTypeOK
<1>5. TaskSound(r, j)'
  BY <1>1, <1>2, <1>3, RunningTask DEF TaskSound, Running, Leased
<1>6. AurTypeOK'
  BY <1>1, <1>c, <1>3, <1>4 DEF AurTypeOK
<1> QED
  BY <1>1, <1>c, <1>3, <1>4, <1>5, <1>6, OneTask

-----------------------------------------------------------------------------
(* The steps of a run and of its environment.                              *)

LEMMA IdleTask == Idle \in TaskType
BY EmptyStack DEF Idle, Revisions

LEMMA NewBatch ==
  ASSUME NEW point \in {"idle", "authorize", "wave"} \cup Ended, NEW jobs \in SUBSET Bases
  PROVE  Batch(point, jobs) \in BatchType /\ Batch(point, jobs).at = point
BY DEF Batch, BatchType

\* A run that returns without its locks is sound, and the others do not notice.
LEMMA RunEnds ==
  ASSUME AurInv, NEW r \in Runs, Return(r), NEW e \in BatchType, e.at # "wave",
         batch' = [batch EXCEPT ![r] = e], installed' \in [Bases -> Revisions],
         \/ baseLock' = baseLock
         \/ baseLock' = [b \in Bases |-> IF baseLock[b] # None /\ baseLock[b][1] = r
                                         THEN None ELSE baseLock[b]],
         checkout' \in [Bases -> Revisions],
         \A b \in Bases : checkout'[b] = checkout[b] \/ baseLock[b] = None,
         UNCHANGED <<needs, upstream, cleaning>>
  PROVE  AurInv'
<1>1. AurTypeOK
  BY DEF AurInv
<1>2. /\ task' = [task EXCEPT ![r] = [b \in Bases |-> Idle]]
      /\ reviewed' = [reviewed EXCEPT ![r] = [b \in Bases |-> 0]]
  BY DEF Return
<1>3. /\ task' \in [Runs -> [Bases -> TaskType]] /\ reviewed' \in [Runs -> [Bases -> Revisions]]
      /\ batch' \in [Runs -> BatchType]
  <2>1. [b \in Bases |-> Idle] \in [Bases -> TaskType]
    BY IdleTask
  <2>2. [b \in Bases |-> 0] \in [Bases -> Revisions]
    BY DEF Revisions
  <2> QED
    BY <1>1, <1>2, <2>1, <2>2 DEF AurTypeOK
<1>4. baseLock' \in [Bases -> (Runs \X Bases) \cup {None}]
  BY <1>1 DEF AurTypeOK
<1>5. AurTypeOK'
  BY <1>1, <1>3, <1>4 DEF AurTypeOK
<1>6. ASSUME NEW q \in Runs, NEW k \in Bases PROVE TaskSound(q, k)'
  <2>1. CASE q = r
    <3>1. task'[q][k] = Idle /\ reviewed'[q][k] = 0 /\ batch'[q] = e
      BY <1>1, <1>2, <2>1 DEF AurTypeOK
    <3> QED
      BY <3>1, NoTasks
  <2>2. CASE q # r
    <3>1. task'[q][k] = task[q][k] /\ reviewed'[q][k] = reviewed[q][k] /\ batch'[q] = batch[q]
      BY <1>1, <1>2, <2>2 DEF AurTypeOK
    <3>2. <<q, k>> # None /\ <<q, k>>[1] # r
      BY <2>2, AurConstants
    <3>3. ASSUME NEW b \in Bases, baseLock[b] = <<q, k>> PROVE baseLock'[b] = <<q, k>>
      BY <3>2, <3>3
    <3>4. TaskSound(q, k) /\ \A b \in Bases : checkout'[b] = checkout[b] \/ baseLock[b] # <<q, k>>
      BY <3>2 DEF AurInv
    <3> QED
      BY <1>1, <3>1, <3>3, <3>4, Bystander
  <2> QED
    BY <2>1, <2>2
<1> QED
  BY <1>5, <1>6 DEF AurInv

\* A run whose call goes on with its tasks as they are.
LEMMA RunGoesOn ==
  ASSUME AurInv, NEW r \in Runs, NEW e \in BatchType, batch' = [batch EXCEPT ![r] = e],
         batch[r].at = "wave" => e.at = "wave",
         \A j \in Bases : e.at = "wave" /\ j \in e.jobs => reviewed[r][j] # 0,
         installed' \in [Bases -> Revisions],
         UNCHANGED <<needs, upstream, checkout, baseLock, cleaning, reviewed, task>>
  PROVE  AurInv'
<1>1. AurTypeOK
  BY DEF AurInv
<1>2. AurTypeOK'
  BY <1>1 DEF AurTypeOK
<1>3. ASSUME NEW q \in Runs, NEW k \in Bases PROVE TaskSound(q, k)'
  <2>1. TaskSound(q, k)
    BY DEF AurInv
  <2>2. CASE q = r
    <3>1. batch'[q] = e
      BY <1>1, <2>2 DEF AurTypeOK
    <3>2. \A i \in 1..Len(task[q][k].stack) : BuildSound(q, k, i)'
      BY <2>1 DEF TaskSound, BuildSound
    <3> QED
      BY <2>1, <2>2, <3>1, <3>2 DEF TaskSound, Running, Leased, Jobs
  <2>3. CASE q # r
    <3>1. batch'[q] = batch[q]
      BY <1>1, <2>3 DEF AurTypeOK
    <3> QED
      BY <1>1, <2>1, <3>1, Bystander
  <2> QED
    BY <2>2, <2>3
<1> QED
  BY <1>2, <1>3 DEF AurInv

LEMMA BuildPackagesStep ==
  ASSUME AurInv, NEW r \in Runs, BuildPackages(r)
  PROVE  AurInv'
<1>1. PICK e \in BatchType : /\ batch' = [batch EXCEPT ![r] = e] /\ e.at # "wave"
  <2>1. PICK jobs \in SUBSET Bases :
          \/ batch' = [batch EXCEPT ![r] = Batch("authorize", jobs)]
          \/ batch' = [batch EXCEPT ![r] = Batch("error", {})]
    BY DEF BuildPackages
  <2>2. Batch("authorize", jobs) \in BatchType /\ Batch("authorize", jobs).at = "authorize"
    BY NewBatch
  <2>3. Batch("error", {}) \in BatchType /\ Batch("error", {}).at = "error"
    BY NewBatch DEF Ended
  <2> QED
    BY <2>1, <2>2, <2>3
<1>2. batch[r].at = "idle" /\ installed' \in [Bases -> Revisions]
      /\ UNCHANGED <<needs, upstream, checkout, baseLock, cleaning, reviewed, task>>
  BY DEF BuildPackages, AurInv, AurTypeOK
<1> QED
  BY <1>1, <1>2, RunGoesOn

LEMMA FirstWaveStep ==
  ASSUME AurInv, NEW r \in Runs, FirstWave(r)
  PROVE  AurInv'
<1>1. AurTypeOK /\ batch[r] \in BatchType
  BY DEF AurInv, AurTypeOK
<1>2. PICK e \in BatchType : /\ e = [batch[r] EXCEPT !.at = "wave", !.wave = 1]
                             /\ e.jobs = batch[r].jobs /\ e.at = "wave"
  <2> DEFINE e == [batch[r] EXCEPT !.at = "wave", !.wave = 1]
  <2>1. e \in BatchType
    BY <1>1 DEF BatchType
  <2>2. e.jobs = batch[r].jobs /\ e.at = "wave"
    BY <1>1 DEF BatchType
  <2> QED
    BY <2>1, <2>2
<1>3. batch' = [batch EXCEPT ![r] = e]
  BY <1>2 DEF FirstWave
<1>4. /\ \A j \in batch[r].jobs : reviewed[r][j] # 0
      /\ UNCHANGED <<needs, upstream, checkout, baseLock, cleaning, installed, reviewed, task>>
  BY DEF FirstWave, Jobs
<1> QED
  BY <1>1, <1>2, <1>3, <1>4, RunGoesOn DEF AurTypeOK

LEMMA PlaceTyped ==
  ASSUME AurTypeOK, NEW r \in Runs, NEW bases, Place(r, bases)
  PROVE  installed' \in [Bases -> Revisions]
<1>1. \A b \in Bases : task[r][b] \in TaskType /\ installed[b] \in Revisions
  BY DEF AurTypeOK
<1>2. \A t \in TaskType : t.archive \in Revisions
  BY DEF TaskType
<1> QED
  BY <1>1, <1>2 DEF Place

LEMMA InstallWaveStep ==
  ASSUME AurInv, NEW r \in Runs, InstallWave(r)
  PROVE  AurInv'
<1> DEFINE lost == Wave(r) \ Built(r)
           later == Jobs(r) \ Levels(Jobs(r))[batch[r].wave]
           over == lost # {} \/ later = {}
           ok == batch[r].ok \cup Built(r)
           failed == batch[r].failed \cup lost
           placed == batch[r].placed \cup Built(r)
           skipped == IF over THEN later ELSE batch[r].skipped
           at == IF over THEN "summary" ELSE batch[r].at
           wave == IF over THEN batch[r].wave ELSE batch[r].wave + 1
           e == [batch[r] EXCEPT !.ok = ok, !.failed = failed, !.placed = placed,
                                 !.skipped = skipped, !.at = at, !.wave = wave]
<1>1. AurTypeOK /\ batch[r] \in BatchType /\ batch[r].at = "wave" /\ Jobs(r) \subseteq Bases
  BY DEF AurInv, AurTypeOK, InstallWave, WaveOver, BatchType, Jobs
<1>2. Wave(r) \subseteq Bases /\ Built(r) \subseteq Bases /\ later \subseteq Bases
  BY <1>1 DEF Wave, Level, Built
<1>3. /\ ok \subseteq Bases /\ failed \subseteq Bases /\ placed \subseteq Bases
      /\ skipped \subseteq Bases /\ wave \in Nat /\ at \in {"wave", "summary"}
  BY <1>1, <1>2 DEF BatchType
<1>4. batch' = [batch EXCEPT ![r] = e] /\ IF over THEN Return(r) ELSE UNCHANGED <<reviewed, task>>
  BY DEF InstallWave, AfterWave
<1>5. installed' \in [Bases -> Revisions] /\ UNCHANGED <<needs, upstream, checkout, baseLock, cleaning>>
  BY <1>1, PlaceTyped DEF InstallWave
<1>6. over => at = "summary"
  OBVIOUS
<1>7. ~over => at = "wave"
  BY <1>1
<1> HIDE DEF ok, failed, placed, skipped, at, wave, over
<1>8. e \in BatchType
  BY <1>1, <1>3 DEF BatchType, Ended
<1>9. e.at = at /\ e.jobs = batch[r].jobs
  BY <1>1 DEF BatchType
<1> HIDE DEF e
<1>c. checkout' \in [Bases -> Revisions] /\ \A b \in Bases : checkout'[b] = checkout[b]
  BY <1>1, <1>5 DEF AurTypeOK
<1>10. CASE over
  BY <1>c, <1>4, <1>5, <1>6, <1>8, <1>9, <1>10, RunEnds
<1>11. CASE ~over
  <2>1. \A j \in Bases : j \in e.jobs => reviewed[r][j] # 0
    BY <1>1, <1>9 DEF AurInv, TaskSound, Jobs
  <2> QED
    BY <1>4, <1>5, <1>7, <1>8, <1>9, <1>11, <2>1, RunGoesOn
<1> QED
  BY <1>10, <1>11

LEMMA GiveUpStep ==
  ASSUME AurInv, NEW r \in Runs, GiveUp(r), installed' \in [Bases -> Revisions],
         checkout' \in [Bases -> Revisions],
         \A b \in Bases : checkout'[b] = checkout[b] \/ baseLock[b] = None
  PROVE  AurInv'
<1>1. Batch("error", {}) \in BatchType /\ Batch("error", {}).at = "error"
  BY NewBatch DEF Ended
<1> QED
  BY <1>1, RunEnds DEF GiveUp

LEMMA AuthorizeStep ==
  ASSUME AurInv, NEW r \in Runs, NEW j \in Bases, Authorize(r, j)
  PROVE  AurInv'
<1>1. /\ AurTypeOK /\ TaskSound(r, j) /\ batch[r].at = "authorize" /\ ~cleaning
      /\ baseLock[j] = None /\ checkout' = [checkout EXCEPT ![j] = upstream[j]]
      /\ reviewed' = [reviewed EXCEPT ![r][j] = upstream[j]]
      /\ UNCHANGED <<needs, upstream, baseLock, cleaning, installed, batch, task>>
  BY DEF AurInv, Authorize, Authorizing
<1>2. upstream[j] \in Revisions /\ upstream[j] # 0
  BY <1>1 DEF AurInv, AurTypeOK
<1>3. /\ checkout' \in [Bases -> Revisions] /\ reviewed' \in [Runs -> [Bases -> Revisions]]
      /\ checkout'[j] = upstream[j] /\ reviewed'[r][j] = upstream[j]
      /\ \A b \in Bases : b # j => checkout'[b] = checkout[b]
      /\ \A q \in Runs, k \in Bases : (q # r \/ k # j) => reviewed'[q][k] = reviewed[q][k]
  BY <1>1, <1>2 DEF AurTypeOK
<1>4. AurTypeOK'
  BY <1>1, <1>3 DEF AurTypeOK
<1>5. ASSUME NEW q \in Runs, NEW k \in Bases PROVE TaskSound(q, k)'
  <2>1. CASE q = r /\ k = j
    <3>1. task[r][j].state = "none" /\ task[r][j].stack = <<>>
      BY <1>1 DEF TaskSound, Running
    <3> QED
      BY <1>1, <1>2, <1>3, <2>1, <3>1 DEF TaskSound, Running, Leased
  <2>2. CASE q # r \/ k # j
    <3>1. TaskSound(q, k) /\ <<q, k>> # None
      BY AurConstants DEF AurInv
    <3>2. \A b \in Bases : checkout'[b] = checkout[b] \/ baseLock[b] # <<q, k>>
      <4> SUFFICES ASSUME NEW b \in Bases
                   PROVE  checkout'[b] = checkout[b] \/ baseLock[b] # <<q, k>>
        OBVIOUS
      <4>1. CASE b = j
        BY <1>1, <1>2, <1>3, <3>1, <4>1
      <4>2. CASE b # j
        BY <1>3, <4>2
      <4> QED
        BY <4>1, <4>2
    <3>3. reviewed'[q][k] = reviewed[q][k]
      BY <1>3, <2>2
    <3>4. /\ AurTypeOK /\ task'[q][k] = task[q][k] /\ (cleaning' => cleaning)
          /\ batch'[q].at = batch[q].at /\ batch'[q].jobs = batch[q].jobs
          /\ \A b \in Bases : baseLock[b] = <<q, k>> => baseLock'[b] = <<q, k>>
      BY <1>1
    <3>5. TaskSound(q, k)
      BY <3>1
    <3> QED
      BY <3>2, <3>3, <3>4, <3>5, Bystander
  <2> QED
    BY <2>1, <2>2
<1> QED
  BY <1>1, <1>4, <1>5 DEF AurInv

LEMMA SpawnStep ==
  ASSUME AurInv, NEW r \in Runs, NEW j \in Bases, Spawn(r, j)
  PROVE  AurInv'
<1> DEFINE e == Build(j, "start", reviewed[r][j], {})
           t == [state |-> "running", archive |-> 0, stack |-> <<e>>]
<1>1. /\ AurTypeOK /\ TaskSound(r, j) /\ batch[r].at = "wave" /\ task[r][j].state = "none"
      /\ j \in Wave(r) /\ task' = [task EXCEPT ![r][j] = t]
      /\ UNCHANGED <<needs, upstream, checkout, baseLock, cleaning, installed, batch, reviewed>>
  BY DEF AurInv, Spawn
<1>2. j \in Jobs(r)
  BY <1>1 DEF Wave, Level
<1>3. reviewed[r][j] # 0 /\ ~cleaning /\ reviewed[r][j] \in Revisions
  BY <1>1, <1>2 DEF TaskSound, Leased, AurTypeOK
<1>4. e \in BuildType /\ e.base = j /\ e.at = "start" /\ e.seen = reviewed[r][j]
  BY <1>3, NewBuild
<1> HIDE DEF e
<1>5. <<e>> \in Seq(BuildType) /\ Len(<<e>>) = 1 /\ <<e>>[1] = e /\ <<e>> # <<>>
  BY <1>4
<1>6. t \in TaskType /\ t.state = "running" /\ t.stack = <<e>>
  BY <1>5 DEF TaskType, Revisions
<1> HIDE DEF t
<1>7. task' \in [Runs -> [Bases -> TaskType]] /\ OnlyTask(r, j) /\ task'[r][j] = t
  BY <1>1, <1>6, NewTask
<1>8. ASSUME NEW i \in 1..Len(task'[r][j].stack) PROVE BuildSound(r, j, i)'
  <2>1. i = 1 /\ task'[r][j].stack = <<e>> /\ Len(<<e>>) = 1
    <3>1. task'[r][j].stack = <<e>>
      BY <1>6, <1>7
    <3>2. i \in 1..Len(<<e>>) /\ Len(<<e>>) = 1
      BY <1>5, <3>1
    <3> QED
      BY <3>1, <3>2
  <2>2. task'[r][j].stack[i] = e /\ ~(i < Len(task'[r][j].stack))
    BY <1>5, <2>1
  <2>3. reviewed'[r][j] = reviewed[r][j]
    BY <1>1
  <2> QED
    BY <2>2, <2>3, <1>4 DEF BuildSound
<1>9. TaskSound(r, j)'
  BY <1>1, <1>3, <1>5, <1>6, <1>7, <1>8 DEF TaskSound, Running, Leased, Jobs
<1>10. AurTypeOK'
  BY <1>1, <1>7 DEF AurTypeOK
<1> QED
  BY <1>1, <1>7, <1>9, <1>10, OneTask

\* A push, and the two ends of a cleaning.
LEMMA WorldStep ==
  ASSUME AurInv, Clean \/ Cleaned \/ (\E b \in Bases : Push(b)) \/ UNCHANGED aurVars
  PROVE  AurInv'
<1>1. AurTypeOK /\ \A q \in Runs, k \in Bases : TaskSound(q, k)
  BY DEF AurInv
<1>2. ASSUME NEW b \in Bases, Push(b) PROVE AurInv'
  <2>1. /\ upstream' = [upstream EXCEPT ![b] = 2]
        /\ UNCHANGED <<needs, checkout, baseLock, cleaning, installed, batch, reviewed, task>>
    BY <1>2 DEF Push
  <2>2. upstream' \in [Bases -> Revisions] /\ \A a \in Bases : upstream'[a] # 0
    BY <1>1, <2>1 DEF AurInv, AurTypeOK, Revisions
  <2>3. AurTypeOK'
    BY <1>1, <2>1, <2>2 DEF AurTypeOK
  <2>4. \A q \in Runs, k \in Bases : TaskSound(q, k)'
    BY <1>1, <2>1, Bystander
  <2> QED
    BY <2>2, <2>3, <2>4 DEF AurInv
<1>3. CASE Clean
  <2>1. /\ cleaning' = TRUE /\ \A q \in Runs, k \in Bases : ~Leased(q, k)
        /\ UNCHANGED <<needs, upstream, checkout, baseLock, installed, batch, reviewed, task>>
    BY <1>3 DEF Clean
  <2>2. AurTypeOK'
    BY <1>1, <2>1 DEF AurTypeOK
  <2>3. ASSUME NEW q \in Runs, NEW k \in Bases PROVE TaskSound(q, k)'
    <3>1. \A i \in 1..Len(task[q][k].stack) : BuildSound(q, k, i)'
      <4> SUFFICES ASSUME NEW i \in 1..Len(task[q][k].stack) PROVE BuildSound(q, k, i)'
        OBVIOUS
      <4>1. BuildSound(q, k, i)
        BY <1>1 DEF TaskSound
      <4> QED
        BY <2>1, <4>1 DEF BuildSound
    <3>2. Leased(q, k)' = Leased(q, k) /\ Running(q, k)' = Running(q, k) /\ Jobs(q)' = Jobs(q)
      BY <2>1 DEF Leased, Running, Jobs
    <3>3. ~Leased(q, k) /\ TaskSound(q, k)
      BY <1>1, <2>1
    <3> QED
      BY <2>1, <3>1, <3>2, <3>3 DEF TaskSound
  <2> QED
    BY <2>1, <2>2, <2>3 DEF AurInv
<1>4. CASE Cleaned
  <2>1. /\ cleaning /\ cleaning' = FALSE /\ checkout' = [b \in Bases |-> 0]
        /\ UNCHANGED <<needs, upstream, baseLock, installed, batch, reviewed, task>>
    BY <1>4 DEF Cleaned
  <2>2. AurTypeOK'
    <3>1. cleaning' \in BOOLEAN /\ checkout' = [b \in Bases |-> 0]
      BY <2>1
    <3>2. 0 \in Revisions
      BY DEF Revisions
    <3>3. checkout' \in [Bases -> Revisions]
      BY <3>1, <3>2
    <3> QED
      BY <1>1, <2>1, <3>1, <3>3 DEF AurTypeOK
  <2>3. ASSUME NEW q \in Runs, NEW k \in Bases PROVE TaskSound(q, k)'
    <3>1. ~Leased(q, k) /\ ~Running(q, k) /\ task[q][k].stack = <<>>
      <4>1. TaskSound(q, k)
        BY <1>1
      <4>2. ~Leased(q, k)
        BY <2>1, <4>1 DEF TaskSound
      <4>3. ~Running(q, k)
        BY <4>1, <4>2 DEF TaskSound, Leased, Running
      <4> QED
        BY <4>1, <4>2, <4>3 DEF TaskSound
    <3>2. Leased(q, k)' = Leased(q, k) /\ Running(q, k)' = Running(q, k) /\ Jobs(q)' = Jobs(q)
      BY <2>1 DEF Leased, Running, Jobs
    <3>3. TaskSound(q, k) /\ task'[q][k].stack = <<>> /\ Len(<<>>) = 0 /\ 1..0 = {}
      BY <1>1, <2>1, <3>1
    <3> QED
      BY <2>1, <3>1, <3>2, <3>3 DEF TaskSound
  <2> QED
    BY <2>1, <2>2, <2>3 DEF AurInv
<1>5. CASE UNCHANGED aurVars
  <2>1. AurTypeOK'
    BY <1>1, <1>5 DEF aurVars, AurTypeOK
  <2>2. \A q \in Runs, k \in Bases : TaskSound(q, k)'
    BY <1>1, <1>5, Bystander DEF aurVars
  <2> QED
    BY <1>5, <2>1, <2>2 DEF AurInv, aurVars
<1> QED
  BY <1>2, <1>3, <1>4, <1>5

-----------------------------------------------------------------------------
(* The theorems.                                                           *)

LEMMA AurInitInv == AurInit => AurInv
<1> SUFFICES ASSUME AurInit PROVE AurInv
  OBVIOUS
<1>1. AurTypeOK
  <2>1. batch \in [Runs -> BatchType]
    BY NewBatch DEF AurInit
  <2>2. task \in [Runs -> [Bases -> TaskType]]
    BY IdleTask DEF AurInit
  <2>3. PICK revision \in {0, 1} : installed = [b \in Bases |-> revision]
    BY DEF AurInit
  <2>4. installed \in [Bases -> Revisions] /\ upstream \in [Bases -> Revisions]
    BY <2>3 DEF AurInit, Revisions
  <2>5. checkout \in [Bases -> Revisions] /\ reviewed \in [Runs -> [Bases -> Revisions]]
    BY DEF AurInit, Revisions
  <2>6. /\ needs \in [Bases -> SUBSET Bases] /\ cleaning \in BOOLEAN
        /\ baseLock \in [Bases -> (Runs \X Bases) \cup {None}]
    BY DEF AurInit
  <2> QED
    BY <2>1, <2>2, <2>4, <2>5, <2>6 DEF AurTypeOK
<1>2. ASSUME NEW r \in Runs, NEW j \in Bases PROVE TaskSound(r, j)
  <2>1. task[r][j] = Idle /\ reviewed[r][j] = 0 /\ batch[r] = Batch("idle", {})
    BY DEF AurInit
  <2>2. batch[r].at = "idle"
    BY <2>1, NewBatch
  <2> QED
    BY <2>1, <2>2 DEF TaskSound, Running, Leased, Idle
<1> QED
  BY <1>1, <1>2 DEF AurInv, AurInit

\* What is left of the checkouts when a run fails.
LEMMA FailedRun ==
  ASSUME AurInv, NEW r \in Runs, RunFails(r) \/ InstallWaveFails(r)
  PROVE  /\ checkout' \in [Bases -> Revisions]
         /\ \A b \in Bases : checkout'[b] = checkout[b] \/ baseLock[b] = None
<1>1. AurTypeOK /\ checkout \in [Bases -> Revisions]
  BY DEF AurInv, AurTypeOK
<1>2. CASE checkout' = checkout
  BY <1>1, <1>2
<1>3. CASE CutShort({Top(r, j).base : j \in {k \in Bases : Pulling(r, k)}})
  <2>1. \A b \in {Top(r, j).base : j \in {k \in Bases : Pulling(r, k)}} : baseLock[b] = None
    BY DEF Pulling
  <2> QED
    BY <1>1, <1>3, <2>1, OnlyTheirs
<1>4. CASE \E j \in Bases : Authorizing(r, j) /\ CutShort({j})
  <2>1. PICK j \in Bases : Authorizing(r, j) /\ CutShort({j})
    BY <1>4
  <2>2. baseLock[j] = None
    BY <2>1 DEF Authorizing
  <2> QED
    BY <1>1, <2>1, <2>2, OnlyTheirs
<1> QED
  BY <1>2, <1>3, <1>4 DEF RunFails, InstallWaveFails

LEMMA AurStepInv == AurInv /\ [AurNext]_aurVars => AurInv'
<1> SUFFICES ASSUME AurInv, [AurNext]_aurVars PROVE AurInv'
  OBVIOUS
<1>1. ASSUME NEW r \in Runs, NEW j \in Bases, TaskStep(r, j) PROVE AurInv'
  BY <1>1, PlanStep, PullStep, BuildDependencyStep, InstallDependencyStep,
     StartMakepkgStep,
     EndMakepkgStep DEF TaskStep
<1>2. ASSUME NEW r \in Runs, RunStep(r) PROVE AurInv'
  BY <1>1, <1>2, FirstWaveStep, InstallWaveStep, AuthorizeStep, SpawnStep
     DEF RunStep
<1>3. ASSUME NEW r \in Runs, RunFails(r) \/ InstallWaveFails(r) PROVE AurInv'
  <2>1. AurTypeOK /\ installed \in [Bases -> Revisions]
    BY DEF AurInv, AurTypeOK
  <2>2. installed' \in [Bases -> Revisions] /\ GiveUp(r)
    BY <1>3, <2>1, PlaceTyped DEF RunFails, InstallWaveFails
  <2> QED
    BY <1>3, <2>2, FailedRun, GiveUpStep
<1> QED
  BY <1>2, <1>3, BuildPackagesStep, TaskFailsStep, WorldStep DEF AurNext

\* A task that compiles holds the lock of its base and the reviewed revision is
\* still checked out, and while it has a share of the lifecycle lock nobody cleans
\* (install_authorized_package_outputs, build_only, clean_all).
THEOREM AurInvariant == AurSpec => []AurInv
<1>1. AurInit => AurInv
  BY AurInitInv
<1>2. AurInv /\ [AurNext]_aurVars => AurInv'
  BY AurStepInv
<1> QED
  BY <1>1, <1>2, PTL DEF AurSpec

\* Whatever other invocations pull into the shared checkout, an archive is made
\* from the revision its own invocation reviewed (ReviewedSource::verify).
THEOREM BuildsStayReviewed == AurSpec => []BuiltIsReviewed
<1>1. AurInv => BuiltIsReviewed
  <2> SUFFICES ASSUME AurInv, NEW r \in Runs, NEW j \in Bases
               PROVE  /\ task[r][j].state = "ok" => task[r][j].archive = reviewed[r][j]
                      /\ \A i \in DOMAIN task[r][j].stack :
                           task[r][j].stack[i].at = "built" =>
                             task[r][j].stack[i].archive = task[r][j].stack[i].seen
    BY DEF BuiltIsReviewed
  <2>1. TaskSound(r, j) /\ task[r][j].stack \in Seq(BuildType)
    BY DEF AurInv, AurTypeOK, TaskType
  <2>2. DOMAIN task[r][j].stack = 1..Len(task[r][j].stack)
    BY <2>1
  <2> QED
    BY <2>1, <2>2 DEF TaskSound, BuildSound
<1> QED
  BY <1>1, AurInvariant, PTL

\* A checkout that a step empties.
LEMMA Emptied ==
  ASSUME AurInv, [AurNext]_aurVars, NEW b \in Bases, checkout[b] # 0, checkout'[b] = 0, ~cleaning
  PROVE  \E r \in Runs : FailedRefresh(r, b)
<1>1. AurTypeOK /\ checkout' # checkout /\ checkout[b] # checkout'[b]
  BY DEF AurInv
<1>2. ~Clean /\ ~Cleaned /\ (\A a \in Bases : ~Push(a)) /\ ~UNCHANGED aurVars
  BY <1>1 DEF Clean, Cleaned, Push, aurVars
<1>3. ASSUME NEW a \in Bases PROVE upstream[a] # 0
  BY DEF AurInv
<1>4. ASSUME NEW r \in Runs, NEW j \in Bases PROVE ~Pull(r, j)
  <2> SUFFICES ASSUME Pull(r, j) PROVE FALSE
    OBVIOUS
  <2>1. Running(r, j) /\ checkout' = [checkout EXCEPT ![Top(r, j).base] = upstream[Top(r, j).base]]
    BY DEF Pull, Pulling
  <2>2. Top(r, j).base \in Bases
    BY <2>1, RunningTask
  <2> QED
    BY <1>1, <1>3, <2>1, <2>2 DEF AurTypeOK
<1>5. ASSUME NEW r \in Runs, NEW j \in Bases PROVE ~Authorize(r, j)
  BY <1>1, <1>3 DEF Authorize, AurTypeOK
<1>6. ASSUME NEW r \in Runs PROVE ~RunStep(r) /\ ~BuildPackages(r) /\ ~InstallWaveFails(r)
  BY <1>1, <1>4, <1>5 DEF RunStep, BuildPackages, InstallWaveFails, FirstWave, InstallWave, Spawn,
     TaskStep, Plan, BuildDependency, InstallDependency, StartMakepkg, EndMakepkg
<1>7. ASSUME NEW r \in Runs, NEW j \in Bases, TaskFails(r, j) PROVE FailedRefresh(r, b)
  <2>1. Pulling(r, j) /\ CutShort({Top(r, j).base})
    BY <1>1, <1>7 DEF TaskFails
  <2>2. Top(r, j).base = b
    BY <1>1, <2>1, OnlyTheirs
  <2>3. task'[r][j] = [state |-> "failed", archive |-> 0, stack |-> <<>>]
    BY <1>1, <1>7 DEF TaskFails, AurTypeOK
  <2>4. task'[r][j].state = "failed"
    BY <2>3
  <2> QED
    BY <2>1, <2>2, <2>4 DEF FailedRefresh
<1>8. ASSUME NEW r \in Runs, RunFails(r) PROVE FailedRefresh(r, b)
  <2>1. batch'[r].at = "error"
    <3>1. batch'[r] = Batch("error", {})
      BY <1>1, <1>8 DEF RunFails, GiveUp, AurTypeOK
    <3> QED
      BY <3>1 DEF Batch
  <2>2. CASE CutShort({Top(r, j).base : j \in {k \in Bases : Pulling(r, k)}})
    <3>1. b \in {Top(r, j).base : j \in {k \in Bases : Pulling(r, k)}}
      BY <1>1, <2>2, OnlyTheirs
    <3>2. PICK j \in Bases : Pulling(r, j) /\ Top(r, j).base = b
      BY <3>1
    <3> QED
      BY <2>1, <3>2 DEF FailedRefresh
  <2>3. CASE \E j \in Bases : Authorizing(r, j) /\ CutShort({j})
    <3>1. PICK j \in Bases : Authorizing(r, j) /\ CutShort({j})
      BY <2>3
    <3>2. j = b
      BY <1>1, <3>1, OnlyTheirs
    <3> QED
      BY <2>1, <3>1, <3>2 DEF FailedRefresh
  <2> QED
    BY <1>8, <2>2, <2>3 DEF RunFails
<1> QED
  BY <1>2, <1>6, <1>7, <1>8 DEF AurNext

\* A source in use is never cleaned away, because a build on the stack of a task
\* means that its job still has its share of the lifecycle lock; it is lost only
\* where an invocation fails that clones the same base (AuthorizedBuild, clean_all).
THEOREM SourcesAreKept == AurSpec => SourcesStay
<1>1. AurInv => \A b \in Bases : InUse(b) => ~cleaning
  <2> SUFFICES ASSUME AurInv, NEW b \in Bases, InUse(b) PROVE ~cleaning
    OBVIOUS
  <2>1. PICK r \in Runs, j \in Bases : Leased(r, j) \/ \E i \in DOMAIN task[r][j].stack : TRUE
    BY DEF InUse
  <2>2. TaskSound(r, j)
    BY DEF AurInv
  <2>3. CASE Leased(r, j)
    BY <2>2, <2>3 DEF TaskSound
  <2>4. CASE \E i \in DOMAIN task[r][j].stack : TRUE
    <3>1. task[r][j].stack # <<>>
      BY <2>4
    <3> QED
      BY <2>2, <3>1, RunningTask DEF TaskSound
  <2> QED
    BY <2>1, <2>3, <2>4
<1>2. AurInv /\ [AurNext]_aurVars =>
        [\A b \in Bases : checkout[b] # 0 /\ checkout'[b] = 0 /\ InUse(b)
            => \E r \in Runs : FailedRefresh(r, b)]_aurVars
  BY <1>1, Emptied
<1> QED
  BY <1>2, AurInvariant, PTL DEF AurSpec, SourcesStay

-----------------------------------------------------------------------------
(* Levels.                                                                 *)

\* One level more, and the levels as a function that is given.
After(jobs, done) == done \cup {b \in jobs : needs[b] \cap jobs \subseteq done}
Ladder(jobs, c, f) ==
  f = [n \in 0..c |-> IF n = 0 THEN {}
                      ELSE f[n - 1] \cup {b \in jobs : needs[b] \cap jobs \subseteq f[n - 1]}]

LEMMA LadderExists ==
  ASSUME NEW jobs
  PROVE  \A c \in Nat : \E f : Ladder(jobs, c, f)
<1> DEFINE S == {c \in Nat : \E f : Ladder(jobs, c, f)}
<1>1. 0 \in S
  <2> DEFINE f == [n \in 0..0 |-> {}]
  <2>1. \A n \in 0..0 : n = 0
    OBVIOUS
  <2>2. Ladder(jobs, 0, f)
    BY <2>1 DEF Ladder
  <2> QED
    BY <2>2
<1>2. ASSUME NEW c \in Nat, c \in S PROVE c + 1 \in S
  <2>1. PICK f : Ladder(jobs, c, f)
    BY <1>2
  <2> DEFINE g == [n \in 0..(c + 1) |-> IF n = c + 1 THEN After(jobs, f[c]) ELSE f[n]]
             h == [n \in 0..(c + 1) |-> IF n = 0 THEN {}
                     ELSE g[n - 1] \cup {b \in jobs : needs[b] \cap jobs \subseteq g[n - 1]}]
  <2>2. \A n \in 0..c : g[n] = f[n]
    OBVIOUS
  <2>3. g[c + 1] = After(jobs, f[c])
    OBVIOUS
  <2>4. ASSUME NEW n \in 0..c PROVE f[n] = IF n = 0 THEN {} ELSE After(jobs, f[n - 1])
    BY <2>1 DEF Ladder, After
  <2>5. ASSUME NEW n \in 0..(c + 1) PROVE g[n] = h[n]
    <3>1. CASE n = c + 1
      <4>1. n # 0 /\ n - 1 = c /\ c \in 0..c
        BY <3>1
      <4>2. h[n] = After(jobs, g[c])
        BY <4>1 DEF After
      <4> QED
        BY <3>1, <4>2, <4>1, <2>2, <2>3
    <3>2. CASE n # c + 1 /\ n # 0
      <4>1. n \in 0..c /\ n - 1 \in 0..c
        BY <3>2
      <4> HIDE DEF g
      <4>2. h[n] = After(jobs, g[n - 1])
        BY <3>2 DEF After
      <4> QED
        BY <3>2, <4>2, <4>1, <2>2, <2>4
    <3>3. CASE n # c + 1 /\ n = 0
      <4>1. h[0] = {} /\ 0 \in 0..c
        BY <3>3
      <4> HIDE DEF h, g
      <4> QED
        BY <4>1, <3>3, <2>2, <2>4
    <3> QED
      BY <3>1, <3>2, <3>3
  <2>6. g = h
    BY <2>5
  <2>7. Ladder(jobs, c + 1, g)
    BY <2>6 DEF Ladder
  <2>8. c + 1 \in Nat
    OBVIOUS
  <2> QED
    BY <2>7, <2>8
<1> HIDE DEF S
<1>3. \A c \in Nat : c \in S
  BY <1>1, <1>2, NatSets
<1> QED
  BY <1>3 DEF S

LEMMA LevelsLadder ==
  ASSUME NEW jobs, Cardinality(jobs) \in Nat
  PROVE  Ladder(jobs, Cardinality(jobs), Levels(jobs))
<1>1. \E f : Ladder(jobs, Cardinality(jobs), f)
  BY LadderExists
<1>2. Levels(jobs) = CHOOSE f : Ladder(jobs, Cardinality(jobs), f)
  BY DEF Levels, Ladder
<1> QED
  BY <1>1, <1>2

\* What topological_levels computes.
LEMMA LevelsGrow ==
  ASSUME NEW jobs, Cardinality(jobs) \in Nat
  PROVE  /\ Levels(jobs)[0] = {}
         /\ \A n \in 1..Cardinality(jobs) : Levels(jobs)[n] = After(jobs, Levels(jobs)[n - 1])
<1> DEFINE c == Cardinality(jobs)
<1>1. PICK f : f = Levels(jobs) /\ Ladder(jobs, c, f)
  BY LevelsLadder
<1>2. 0 \in 0..c /\ \A n \in 1..c : n \in 0..c /\ n # 0
  OBVIOUS
<1>3. \A n \in 0..c : f[n] = IF n = 0 THEN {} ELSE After(jobs, f[n - 1])
  BY <1>1 DEF Ladder, After
<1> QED
  BY <1>1, <1>2, <1>3

-----------------------------------------------------------------------------
(* Waves.                                                                  *)

\* The waves that are over are the first levels, all of them installed, and only
\* jobs of the current wave run.
WaveSound(r) ==
  LET b == batch[r] IN
  /\ b.at \in {"authorize", "wave"} =>
       /\ b.jobs # {} /\ Levels(b.jobs)[Cardinality(b.jobs)] = b.jobs
       /\ b.failed = {} /\ b.placed = b.ok /\ b.ok \subseteq b.jobs
  /\ b.at = "authorize" => b.ok = {}
  /\ b.at = "wave" =>
       b.wave \in 1..Cardinality(b.jobs) /\ b.ok = Levels(b.jobs)[b.wave - 1]
  /\ \A j \in Bases : Running(r, j) => j \in Wave(r)

\* What SummaryTrue says of one invocation.
SummarySound(r) ==
  batch[r].at = "summary" =>
    /\ batch[r].ok \subseteq batch[r].placed
    /\ batch[r].ok \cup batch[r].failed \cup batch[r].skipped = batch[r].jobs
    /\ batch[r].ok \cap batch[r].failed = {}
    /\ batch[r].skipped \cap (batch[r].ok \cup batch[r].failed) = {}

WavesInv == \A r \in Runs : WaveSound(r) /\ SummarySound(r)

\* The levels depend on the jobs and on what they need.
Steps(need, jobs) ==
  LET first[n \in 0..Cardinality(jobs)] ==
        IF n = 0 THEN {}
        ELSE first[n - 1] \cup {b \in jobs : need[b] \cap jobs \subseteq first[n - 1]}
  IN first

LEMMA LevelsSame ==
  ASSUME needs' = needs, NEW r, batch'[r].jobs = batch[r].jobs
  PROVE  Levels(batch[r].jobs)' = Levels(batch[r].jobs)
<1>1. Levels(batch[r].jobs)' = Steps(needs', batch'[r].jobs)
  BY DEF Levels, Steps
<1>2. Levels(batch[r].jobs) = Steps(needs, batch[r].jobs)
  BY DEF Levels, Steps
<1> QED
  BY <1>1, <1>2

LEMMA JobsFinite ==
  ASSUME NEW jobs \in SUBSET Bases
  PROVE  Cardinality(jobs) \in Nat /\ (jobs # {} => Cardinality(jobs) # 0)
<1>1. IsFiniteSet(jobs)
  BY AurConstants, FS_Subset
<1> QED
  BY <1>1, FS_CardinalityType, FS_EmptySet

\* An invocation whose batch is left alone and in which no task is started.
LEMMA WaveBystander ==
  ASSUME NEW r \in Runs, WaveSound(r), SummarySound(r), needs' = needs,
         batch'[r] = batch[r], \A j \in Bases : Running(r, j)' => Running(r, j)
  PROVE  WaveSound(r)' /\ SummarySound(r)'
<1>1. Levels(batch[r].jobs)' = Levels(batch[r].jobs)
  BY LevelsSame
<1>2. Wave(r)' = Wave(r)
  BY <1>1 DEF Wave, Level, Jobs
<1> QED
  BY <1>1, <1>2 DEF WaveSound, SummarySound

\* No invocation but one.
LEMMA OneBatch ==
  ASSUME AurInv, WavesInv, needs' = needs, NEW r \in Runs,
         \A q \in Runs : q # r => batch'[q] = batch[q],
         \A q \in Runs, j \in Bases : q # r => (Running(q, j)' => Running(q, j)),
         WaveSound(r)', SummarySound(r)'
  PROVE  WavesInv'
<1>1. ASSUME NEW q \in Runs PROVE WaveSound(q)' /\ SummarySound(q)'
  <2>1. CASE q = r
    BY <2>1
  <2>2. CASE q # r
    BY <2>2, WaveBystander DEF WavesInv
  <2> QED
    BY <2>1, <2>2
<1> QED
  BY <1>1 DEF WavesInv

LEMMA SameState ==
  ASSUME AurTypeOK, NEW r \in Runs, NEW j \in Bases, NEW s, SetStack(r, j, s)
  PROVE  \A q \in Runs, k \in Bases : task'[q][k].state = task[q][k].state
<1>1. \A q \in Runs, k \in Bases : task[q][k] \in TaskType
  BY DEF AurTypeOK
<1>2. \A q \in Runs, k \in Bases : (q # r \/ k # j) => task'[q][k] = task[q][k]
  BY DEF AurTypeOK, SetStack
<1>3. task'[r][j] = [task[r][j] EXCEPT !.stack = s]
  BY DEF AurTypeOK, SetStack
<1>4. task'[r][j].state = task[r][j].state
  BY <1>1, <1>3 DEF TaskType
<1> QED
  BY <1>2, <1>4

\* The steps that start no task and leave the batches alone.
LEMMA NoTaskStarts ==
  ASSUME AurInv, WavesInv, needs' = needs, batch' = batch,
         \A q \in Runs, j \in Bases : Running(q, j)' => Running(q, j)
  PROVE  WavesInv'
<1>1. \A q \in Runs : WaveSound(q)' /\ SummarySound(q)'
  BY WaveBystander DEF WavesInv
<1> QED
  BY <1>1 DEF WavesInv

LEMMA TaskWaves ==
  ASSUME AurInv, WavesInv, NEW r \in Runs, NEW j \in Bases, TaskStep(r, j) \/ TaskFails(r, j)
  PROVE  WavesInv'
<1> DEFINE Over(t, a) == [state |-> t, archive |-> a, stack |-> <<>>]
<1>1. needs' = needs /\ batch' = batch
  BY DEF TaskStep, TaskFails, Plan, Pull, BuildDependency,
     InstallDependency, StartMakepkg, EndMakepkg
<1>2. \/ \E s : SetStack(r, j, s)
      \/ \E t \in {"ok", "failed"} : \E a : task' = [task EXCEPT ![r][j] = Over(t, a)]
  BY DEF TaskStep, TaskFails, Plan, Pull, BuildDependency,
     InstallDependency, StartMakepkg, EndMakepkg
<1>3. AurTypeOK
  BY DEF AurInv
<1>4. CASE \E s : SetStack(r, j, s)
  <2>1. \A q \in Runs, k \in Bases : Running(q, k)' => Running(q, k)
    BY <1>3, <1>4, SameState DEF Running
  <2> QED
    BY <1>1, <2>1, NoTaskStarts
<1>5. CASE \E t \in {"ok", "failed"} : \E a : task' = [task EXCEPT ![r][j] = Over(t, a)]
  <2>1. PICK t \in {"ok", "failed"} : \E a : task' = [task EXCEPT ![r][j] = Over(t, a)]
    BY <1>5
  <2>2. PICK a : task' = [task EXCEPT ![r][j] = Over(t, a)]
    BY <2>1
  <2>3. /\ task'[r][j] = Over(t, a)
        /\ \A q \in Runs, k \in Bases : (q # r \/ k # j) => task'[q][k] = task[q][k]
    BY <1>3, <2>2 DEF AurTypeOK
  <2>4. task'[r][j].state # "running"
    BY <2>1, <2>3
  <2>5. \A q \in Runs, k \in Bases : Running(q, k)' => Running(q, k)
    BY <2>3, <2>4 DEF Running
  <2> QED
    BY <1>1, <2>5, NoTaskStarts
<1> QED
  BY <1>2, <1>4, <1>5

\* The tasks of the others, when one invocation drops its own.
LEMMA OthersRun ==
  ASSUME AurTypeOK, NEW r \in Runs, Return(r)
  PROVE  /\ \A q \in Runs, j \in Bases : q # r => (Running(q, j)' => Running(q, j))
         /\ \A j \in Bases : ~Running(r, j)'
<1>1. task' = [task EXCEPT ![r] = [b \in Bases |-> Idle]]
  BY DEF Return
<1>2. (\A q \in Runs : q # r => task'[q] = task[q]) /\ \A j \in Bases : task'[r][j] = Idle
  BY <1>1 DEF AurTypeOK
<1>3. Idle.state = "none"
  BY DEF Idle
<1> QED
  BY <1>2, <1>3 DEF Running

LEMMA GiveUpWaves ==
  ASSUME AurInv, WavesInv, NEW r \in Runs, GiveUp(r)
  PROVE  WavesInv'
<1>1. /\ AurTypeOK /\ needs' = needs /\ Return(r)
      /\ batch' = [batch EXCEPT ![r] = Batch("error", {})]
  BY DEF GiveUp, AurInv
<1>2. batch'[r].at = "error" /\ \A q \in Runs : q # r => batch'[q] = batch[q]
  <2>1. Batch("error", {}).at = "error"
    BY DEF Batch
  <2> QED
    BY <1>1, <2>1 DEF AurTypeOK
<1>3. WaveSound(r)' /\ SummarySound(r)'
  BY <1>1, <1>2, OthersRun DEF WaveSound, SummarySound
<1> QED
  BY <1>1, <1>2, <1>3, OthersRun, OneBatch

LEMMA SpawnWaves ==
  ASSUME AurInv, WavesInv, NEW r \in Runs, NEW j \in Bases, Spawn(r, j)
  PROVE  WavesInv'
<1>1. AurTypeOK /\ needs' = needs /\ batch' = batch /\ j \in Wave(r)
  BY DEF Spawn, AurInv
<1>2. PICK t : task' = [task EXCEPT ![r][j] = t]
  BY DEF Spawn
<1>3. \A q \in Runs, k \in Bases : (q # r \/ k # j) => task'[q][k] = task[q][k]
  BY <1>1, <1>2 DEF AurTypeOK
<1>4. \A q \in Runs, k \in Bases : (q # r \/ k # j) => (Running(q, k)' => Running(q, k))
  BY <1>3 DEF Running
<1>5. Levels(batch[r].jobs)' = Levels(batch[r].jobs)
  BY <1>1, LevelsSame
<1>9. Wave(r)' = Wave(r)
  BY <1>1, <1>5 DEF Wave, Level, Jobs
<1>6. \A k \in Bases : Running(r, k)' => k \in Wave(r)'
  BY <1>1, <1>4, <1>9 DEF WavesInv, WaveSound
<1>7. WaveSound(r)'
  BY <1>1, <1>5, <1>6 DEF WavesInv, WaveSound
<1>8. SummarySound(r)'
  BY <1>1 DEF WavesInv, SummarySound
<1> QED
  BY <1>1, <1>4, <1>7, <1>8, OneBatch

LEMMA BuildPackagesWaves ==
  ASSUME AurInv, WavesInv, NEW r \in Runs, BuildPackages(r)
  PROVE  WavesInv'
<1>1. AurTypeOK /\ needs' = needs /\ task' = task /\ batch[r].at = "idle"
  BY DEF BuildPackages, AurInv
<1>2. PICK jobs \in (SUBSET Bases) \ {{}} :
        batch' = [batch EXCEPT ![r] = IF Levels(jobs)[Cardinality(jobs)] = jobs
                                      THEN Batch("authorize", jobs) ELSE Batch("error", {})]
  BY DEF BuildPackages
<1>3. \A q \in Runs : q # r => batch'[q] = batch[q]
  BY <1>1, <1>2 DEF AurTypeOK
<1>4. \A q \in Runs, j \in Bases : Running(q, j)' => Running(q, j)
  BY <1>1 DEF Running
<1>5. \A j \in Bases : ~Running(r, j)'
  BY <1>1, <1>4 DEF AurInv, TaskSound, Running
<1>6. ASSUME batch'[r].jobs = jobs PROVE Levels(batch[r].jobs)' = Levels(jobs)
  <2>1. Levels(batch[r].jobs)' = Steps(needs', batch'[r].jobs)
    BY DEF Levels, Steps
  <2>2. Levels(jobs) = Steps(needs, jobs)
    BY DEF Levels, Steps
  <2> QED
    BY <1>1, <1>6, <2>1, <2>2
<1>7. CASE Levels(jobs)[Cardinality(jobs)] = jobs
  <2>1. batch'[r] = Batch("authorize", jobs)
    BY <1>1, <1>2, <1>7 DEF AurTypeOK
  <2>2. /\ batch'[r].at = "authorize" /\ batch'[r].jobs = jobs /\ batch'[r].ok = {}
        /\ batch'[r].failed = {} /\ batch'[r].placed = {}
    BY <2>1 DEF Batch
  <2>3. Levels(batch[r].jobs)' = Levels(jobs) /\ jobs # {}
    BY <1>2, <1>6, <2>2
  <2>4. Levels(batch[r].jobs)'[Cardinality(batch'[r].jobs)] = batch'[r].jobs
    BY <1>7, <2>2, <2>3
  <2>5. SummarySound(r)'
    BY <2>2 DEF SummarySound
  <2>6. WaveSound(r)'
    BY <1>5, <2>2, <2>3, <2>4 DEF WaveSound
  <2> QED
    BY <1>1, <1>3, <1>4, <2>5, <2>6, OneBatch
<1>8. CASE Levels(jobs)[Cardinality(jobs)] # jobs
  <2>1. batch'[r] = Batch("error", {})
    BY <1>1, <1>2, <1>8 DEF AurTypeOK
  <2>2. batch'[r].at = "error"
    BY <2>1 DEF Batch
  <2>3. WaveSound(r)' /\ SummarySound(r)'
    BY <1>5, <2>2 DEF WaveSound, SummarySound
  <2> QED
    BY <1>1, <1>3, <1>4, <2>3, OneBatch
<1> QED
  BY <1>7, <1>8

LEMMA FirstWaveWaves ==
  ASSUME AurInv, WavesInv, NEW r \in Runs, FirstWave(r)
  PROVE  WavesInv'
<1>1. /\ AurTypeOK /\ needs' = needs /\ task' = task /\ batch[r].at = "authorize"
      /\ batch[r] \in BatchType /\ batch' = [batch EXCEPT ![r].at = "wave", ![r].wave = 1]
  BY DEF FirstWave, AurInv, AurTypeOK
<1>2. \A q \in Runs : q # r => batch'[q] = batch[q]
  BY <1>1 DEF AurTypeOK
<1>3. batch'[r] = [batch[r] EXCEPT !.at = "wave", !.wave = 1]
  BY <1>1 DEF AurTypeOK
<1>4. /\ batch'[r].at = "wave" /\ batch'[r].wave = 1 /\ batch'[r].jobs = batch[r].jobs
      /\ batch'[r].ok = batch[r].ok /\ batch'[r].failed = batch[r].failed
      /\ batch'[r].placed = batch[r].placed /\ batch[r].jobs \subseteq Bases
  <2>1. PICK e \in BatchType : e = batch[r]
    BY <1>1
  <2>2. LET f == [e EXCEPT !.at = "wave", !.wave = 1] IN
        /\ f.at = "wave" /\ f.wave = 1 /\ f.jobs = e.jobs /\ f.ok = e.ok
        /\ f.failed = e.failed /\ f.placed = e.placed /\ e.jobs \subseteq Bases
    BY DEF BatchType
  <2> QED
    BY <1>3, <2>1, <2>2
<1>5. \A q \in Runs, j \in Bases : Running(q, j)' => Running(q, j)
  BY <1>1 DEF Running
<1>6. \A j \in Bases : ~Running(r, j)'
  BY <1>1, <1>5 DEF AurInv, TaskSound, Running
<1>7. Levels(batch[r].jobs)' = Levels(batch[r].jobs)
  BY <1>1, <1>4, LevelsSame
<1>8. WaveSound(r)
  BY DEF WavesInv
<1>9. Cardinality(batch[r].jobs) \in Nat \ {0} /\ Levels(batch[r].jobs)[0] = {}
  BY <1>1, <1>4, <1>8, JobsFinite, LevelsGrow DEF WaveSound
<1>10. 1 \in 1..Cardinality(batch[r].jobs) /\ 1 - 1 = 0
  BY <1>9
<1>11. SummarySound(r)'
  BY <1>4 DEF SummarySound
<1>12. WaveSound(r)'
  BY <1>1, <1>4, <1>6, <1>7, <1>8, <1>9, <1>10 DEF WaveSound
<1> QED
  BY <1>1, <1>2, <1>5, <1>11, <1>12, OneBatch

LEMMA InstallWaveWaves ==
  ASSUME AurInv, WavesInv, NEW r \in Runs, InstallWave(r)
  PROVE  WavesInv'
<1> DEFINE jobs == batch[r].jobs
           n == batch[r].wave
           c == Cardinality(jobs)
           built == Built(r)
           lost == Wave(r) \ built
           later == jobs \ Levels(jobs)[n]
           over == lost # {} \/ later = {}
           e == [batch[r] EXCEPT !.ok = batch[r].ok \cup built,
                                 !.failed = batch[r].failed \cup lost,
                                 !.placed = batch[r].placed \cup built,
                                 !.skipped = IF over THEN later ELSE batch[r].skipped,
                                 !.at = IF over THEN "summary" ELSE batch[r].at,
                                 !.wave = IF over THEN n ELSE n + 1]
<1>1. /\ AurTypeOK /\ needs' = needs /\ batch[r].at = "wave" /\ batch[r] \in BatchType
      /\ jobs \subseteq Bases
      /\ \A j \in Wave(r) : task[r][j].state \in {"ok", "failed"}
  BY DEF InstallWave, WaveOver, AurInv, AurTypeOK, BatchType
<1>2. batch' = [batch EXCEPT ![r] = e] /\ IF over THEN Return(r) ELSE UNCHANGED <<reviewed, task>>
  BY DEF InstallWave, AfterWave, Jobs
<1>3. /\ jobs # {} /\ Levels(jobs)[c] = jobs /\ batch[r].failed = {}
      /\ batch[r].placed = batch[r].ok /\ batch[r].ok \subseteq jobs /\ n \in 1..c
      /\ batch[r].ok = Levels(jobs)[n - 1] /\ \A j \in Bases : Running(r, j) => j \in Wave(r)
  BY <1>1 DEF WavesInv, WaveSound
<1>4. c \in Nat /\ Levels(jobs)[n] = After(jobs, Levels(jobs)[n - 1])
  BY <1>1, <1>3, JobsFinite, LevelsGrow
<1>5. /\ Wave(r) = {j \in jobs : j \in Levels(jobs)[n] /\ j \notin Levels(jobs)[n - 1]}
      /\ built \subseteq Wave(r)
  BY DEF Wave, Level, Jobs, Built
<1>6. batch[r].ok \cup Wave(r) = Levels(jobs)[n] /\ Levels(jobs)[n] \subseteq jobs
  BY <1>3, <1>4, <1>5 DEF After
<1>7. \A j \in Bases : ~Running(r, j)
  BY <1>1, <1>3 DEF Running
<1>8. /\ e.ok = batch[r].ok \cup built /\ e.failed = batch[r].failed \cup lost
      /\ e.placed = batch[r].placed \cup built /\ e.jobs = jobs
      /\ e.skipped = IF over THEN later ELSE batch[r].skipped
      /\ e.at = IF over THEN "summary" ELSE "wave"
      /\ e.wave = IF over THEN n ELSE n + 1
  BY <1>1 DEF BatchType
<1>9. batch'[r] = e /\ \A q \in Runs : q # r => batch'[q] = batch[q]
  BY <1>1, <1>2 DEF AurTypeOK
<1>10. /\ \A q \in Runs, j \in Bases : q # r => (Running(q, j)' => Running(q, j))
       /\ \A j \in Bases : ~Running(r, j)'
  <2>1. CASE over
    BY <1>1, <1>2, <2>1, OthersRun
  <2>2. CASE ~over
    BY <1>2, <1>7, <2>2 DEF Running
  <2> QED
    BY <2>1, <2>2
<1> HIDE DEF e, over, later, lost, built
<1>11. CASE over
  <2>1. /\ batch'[r].at = "summary" /\ batch'[r].ok = batch[r].ok \cup built
        /\ batch'[r].failed = lost /\ batch'[r].placed = batch[r].ok \cup built
        /\ batch'[r].jobs = jobs /\ batch'[r].skipped = later
    BY <1>3, <1>8, <1>9, <1>11
  <2>2. /\ batch[r].ok \cup built \cup lost \cup later = jobs
        /\ (batch[r].ok \cup built) \cap lost = {}
        /\ later \cap (batch[r].ok \cup built \cup lost) = {}
    BY <1>3, <1>5, <1>6 DEF later, lost
  <2>3. SummarySound(r)'
    BY <2>1, <2>2 DEF SummarySound
  <2>4. WaveSound(r)'
    BY <1>10, <2>1 DEF WaveSound
  <2> QED
    BY <1>1, <1>9, <1>10, <2>3, <2>4, OneBatch
<1>12. CASE ~over
  <2>1. lost = {} /\ later # {}
    BY <1>12 DEF over
  <2>2. /\ batch'[r].at = "wave" /\ batch'[r].ok = Levels(jobs)[n]
        /\ batch'[r].failed = {} /\ batch'[r].placed = Levels(jobs)[n]
        /\ batch'[r].jobs = jobs /\ batch'[r].wave = n + 1
    <3>1. built = Wave(r)
      BY <1>5, <2>1 DEF lost
    <3>2. batch[r].ok \cup built = Levels(jobs)[n]
      BY <1>6, <3>1
    <3> QED
      BY <1>3, <1>8, <1>9, <1>12, <2>1, <3>2
  <2>3. n # c
    BY <1>3, <2>1 DEF later
  <2>4. n + 1 \in 1..c /\ (n + 1) - 1 = n
    BY <1>3, <1>4, <2>3
  <2>5. Levels(batch[r].jobs)' = Levels(batch[r].jobs)
    BY <1>1, <2>2, LevelsSame
  <2>6. SummarySound(r)'
    BY <2>2 DEF SummarySound
  <2>7. WaveSound(r)'
    BY <1>3, <1>6, <1>10, <2>2, <2>4, <2>5 DEF WaveSound
  <2> QED
    BY <1>1, <1>9, <1>10, <2>6, <2>7, OneBatch
<1> QED
  BY <1>11, <1>12

LEMMA WavesInit == AurInit => WavesInv
<1> SUFFICES ASSUME AurInit, NEW r \in Runs PROVE WaveSound(r) /\ SummarySound(r)
  BY DEF WavesInv
<1>1. batch[r].at = "idle"
  BY DEF AurInit, Batch
<1>2. \A j \in Bases : ~Running(r, j)
  BY DEF AurInit, Running, Idle
<1> QED
  BY <1>1, <1>2 DEF WaveSound, SummarySound

LEMMA WavesStep == AurInv /\ WavesInv /\ [AurNext]_aurVars => WavesInv'
<1> SUFFICES ASSUME AurInv, WavesInv, [AurNext]_aurVars PROVE WavesInv'
  OBVIOUS
<1>1. CASE Clean \/ Cleaned \/ (\E b \in Bases : Push(b)) \/ UNCHANGED aurVars
  <2>1. needs' = needs /\ batch' = batch /\ task' = task
    BY <1>1 DEF Clean, Cleaned, Push, aurVars
  <2>2. \A q \in Runs, j \in Bases : Running(q, j)' => Running(q, j)
    BY <2>1 DEF Running
  <2> QED
    BY <2>1, <2>2, NoTaskStarts
<1>2. ASSUME NEW r \in Runs, NEW j \in Bases, Authorize(r, j) PROVE WavesInv'
  <2>1. needs' = needs /\ batch' = batch /\ task' = task
    BY <1>2 DEF Authorize
  <2>2. \A q \in Runs, k \in Bases : Running(q, k)' => Running(q, k)
    BY <2>1 DEF Running
  <2> QED
    BY <2>1, <2>2, NoTaskStarts
<1>3. ASSUME NEW r \in Runs, RunStep(r) PROVE WavesInv'
  BY <1>2, <1>3, FirstWaveWaves, InstallWaveWaves, SpawnWaves, TaskWaves
     DEF RunStep
<1>4. ASSUME NEW r \in Runs, RunFails(r) \/ InstallWaveFails(r) PROVE WavesInv'
  BY <1>4, GiveUpWaves DEF RunFails, InstallWaveFails
<1> QED
  BY <1>1, <1>3, <1>4, BuildPackagesWaves, TaskWaves DEF AurNext

\* The waves that are over are the first levels of the jobs, all of them built and
\* installed, and only jobs of the current wave run (topological_levels, build_level).
THEOREM WavesInvariant == AurSpec => []WavesInv
<1>1. AurInit => WavesInv
  BY WavesInit
<1>2. AurInv /\ WavesInv /\ [AurNext]_aurVars => WavesInv'
  BY WavesStep
<1> QED
  BY <1>1, <1>2, AurInvariant, PTL DEF AurSpec

\* A job is compiled only after the invocation has installed the new revisions of
\* the jobs it depends on, for any dependencies between any jobs
\* (topological_levels, build_level).
THEOREM DependenciesComeFirst == AurSpec => []DependenciesFirst
<1>1. AurInv /\ WavesInv => DependenciesFirst
  <2> SUFFICES ASSUME AurInv, WavesInv, NEW r \in Runs, NEW j \in Bases, Running(r, j)
               PROVE  needs[j] \cap Jobs(r) \subseteq batch[r].placed
    BY DEF DependenciesFirst
  <2> DEFINE jobs == batch[r].jobs
             n == batch[r].wave
  <2>1. batch[r].at = "wave" /\ jobs \subseteq Bases
    BY DEF AurInv, AurTypeOK, TaskSound, Running, BatchType
  <2>2. /\ n \in 1..Cardinality(jobs) /\ batch[r].placed = Levels(jobs)[n - 1]
        /\ j \in Wave(r)
    BY <2>1 DEF WavesInv, WaveSound
  <2>3. Levels(jobs)[n] = After(jobs, Levels(jobs)[n - 1])
    BY <2>1, <2>2, JobsFinite, LevelsGrow
  <2>4. j \in Levels(jobs)[n] /\ j \notin Levels(jobs)[n - 1]
    BY <2>2 DEF Wave, Level, Jobs
  <2>5. needs[j] \cap jobs \subseteq Levels(jobs)[n - 1]
    BY <2>3, <2>4 DEF After
  <2> QED
    BY <2>2, <2>5 DEF Jobs
<1> QED
  BY <1>1, AurInvariant, WavesInvariant, PTL

\* The summary accounts for every job once and calls upgraded only what was
\* installed (ParallelBuildSummary).
THEOREM SummariesStayTrue == AurSpec => []SummaryTrue
<1>1. WavesInv => SummaryTrue
  BY DEF WavesInv, SummarySound, SummaryTrue, Jobs
<1> QED
  BY <1>1, WavesInvariant, PTL
=============================================================================
