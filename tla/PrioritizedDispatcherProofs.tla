--------------------- MODULE PrioritizedDispatcherProofs ---------------------
(***************************************************************************)
(* Proofs about PrioritizedDispatcher, for any set of jobs, any number of  *)
(* priorities and any limits.                                              *)
(***************************************************************************)
EXTENDS PrioritizedDispatcher, PriorityQueueProofs, FiniteSetTheorems

\* f is the sum of the reserved slots up to each priority of D.
IsSum(f, D, slots) ==
  f = [i \in D |-> IF i = Lowest THEN slots[i] ELSE f[i - 1] + slots[i]]

\* The loop of SetLimits computes what its recursion says.
LEMMA ReservedUpToDef ==
  ASSUME NEW limits, limits.reserved_slots \in [Priority -> Nat]
  PROVE  /\ ReservedUpTo(limits) \in [Priority -> Nat]
         /\ IsSum(ReservedUpTo(limits), Priority, limits.reserved_slots)
<1> DEFINE slots == limits.reserved_slots
           SumTo(f, n) ==
             /\ f \in [0 .. n -> Nat]
             /\ \A i \in 0 .. n :
                  f[i] = IF i = Lowest THEN slots[i] ELSE f[i - 1] + slots[i]
           T == {n \in Priority : \A f : ~ SumTo(f, n)}
<1>1. T = {}
  <2> SUFFICES ASSUME T # {} PROVE FALSE
    OBVIOUS
  <2>1. T \subseteq Nat
    BY NumPrioritiesAssumption DEF Priority
  <2>2. PICK x \in T : \A y \in T : x <= y
    <3> HIDE DEF T
    <3> QED BY <2>1, LeastNat
  <2>3. x \in Nat /\ x \in Priority /\ \A f : ~ SumTo(f, x)
    BY <2>1, <2>2
  <2>4. CASE x = 0
    <3>1. PICK f : f = [i \in 0 .. 0 |-> slots[0]]
      OBVIOUS
    <3>2. slots[0] \in Nat
      BY <2>3, <2>4
    <3>3. f \in [0 .. 0 -> Nat]
      BY <3>1, <3>2
    <3>4. \A i \in 0 .. 0 : i = 0 /\ f[i] = slots[i]
      BY <3>1
    <3>5. SumTo(f, 0)
      BY <3>3, <3>4 DEF Lowest
    <3> QED BY <2>3, <2>4, <3>5
  <2>5. CASE x # 0
    <3>1. x - 1 \in Priority /\ x - 1 \in Nat
      BY <2>3, <2>5, NumPrioritiesAssumption DEF Priority
    <3>2. x - 1 \notin T
      BY <2>2, <2>3
    <3>3. PICK f : SumTo(f, x - 1)
      BY <3>1, <3>2
    <3>4. PICK g : g = [i \in 0 .. x |->
                          IF i = x THEN f[x - 1] + slots[x] ELSE f[i]]
      OBVIOUS
    <3>5. slots[x] \in Nat /\ f[x - 1] \in Nat
      BY <2>3, <3>1, <3>3
    <3>6. g \in [0 .. x -> Nat]
      BY <2>3, <3>3, <3>4, <3>5
    <3>7. \A i \in 0 .. x :
            g[i] = IF i = Lowest THEN slots[i] ELSE g[i - 1] + slots[i]
      BY <2>3, <2>5, <3>1, <3>3, <3>4 DEF Lowest
    <3> QED BY <2>3, <3>6, <3>7
  <2> QED BY <2>4, <2>5
<1>2. Highest \in Priority /\ Highest \in Nat /\ Priority = 0 .. Highest
  BY NumPrioritiesAssumption DEF Highest, Priority
<1>3. PICK f : SumTo(f, Highest)
  BY <1>1, <1>2, SMTT(30)
<1>4. f = [i \in Priority |-> IF i = Lowest THEN slots[i]
                                           ELSE f[i - 1] + slots[i]]
  BY <1>2, <1>3
<1>5. IsSum(ReservedUpTo(limits), Priority, slots)
  BY <1>4, Zenon DEF ReservedUpTo, IsSum
<1>6. PICK h : h = ReservedUpTo(limits)
  OBVIOUS
<1>7. /\ DOMAIN h = Priority
      /\ h = [i \in Priority |-> h[i]]
      /\ \A i \in Priority :
           h[i] = IF i = Lowest THEN slots[i] ELSE h[i - 1] + slots[i]
  BY <1>5, <1>6 DEF IsSum
<1> DEFINE U == {n \in Priority : h[n] \notin Nat}
<1>8. U = {}
  <2> SUFFICES ASSUME U # {} PROVE FALSE
    OBVIOUS
  <2>1. U \subseteq Nat
    BY NumPrioritiesAssumption DEF Priority
  <2>2. PICK x \in U : \A y \in U : x <= y
    <3> HIDE DEF U
    <3> QED BY <2>1, LeastNat
  <2>3. x \in Nat /\ x \in Priority /\ h[x] \notin Nat /\ slots[x] \in Nat
    BY <2>1, <2>2
  <2>4. x # Lowest
    BY <1>7, <2>3
  <2>5. x - 1 \in Priority /\ x - 1 \notin U
    BY <2>2, <2>3, <2>4, NumPrioritiesAssumption DEF Priority, Lowest
  <2> QED BY <1>7, <2>3, <2>4, <2>5
<1>9. h \in [Priority -> Nat]
  BY <1>7, <1>8
<1> QED
  BY <1>5, <1>6, <1>9

\* A sum that grows from one priority to the next grows over any distance.
LEMMA StepwiseMonotonic ==
  ASSUME NEW f \in [Priority -> Nat],
         \A i \in Priority : i # Lowest => f[i - 1] <= f[i]
  PROVE  \A p, r \in Priority : p <= r => f[p] <= f[r]
<1> SUFFICES ASSUME NEW p \in Priority
             PROVE  \A r \in Priority : p <= r => f[p] <= f[r]
  OBVIOUS
<1> DEFINE T == {r \in Priority : p <= r /\ ~ (f[p] <= f[r])}
<1>1. T = {}
  <2> SUFFICES ASSUME T # {} PROVE FALSE
    OBVIOUS
  <2>1. T \subseteq Nat
    BY NumPrioritiesAssumption DEF Priority
  <2>2. PICK x \in T : \A y \in T : x <= y
    <3> HIDE DEF T
    <3> QED BY <2>1, LeastNat
  <2>3. /\ x \in Priority /\ p <= x /\ ~ (f[p] <= f[x])
        /\ x \in Nat /\ p \in Nat /\ f[x] \in Nat /\ f[p] \in Nat
    BY <2>1, <2>2, NumPrioritiesAssumption DEF Priority
  <2>4. x # p
    BY <2>3
  <2>5. x # Lowest /\ x - 1 \in Priority /\ p <= x - 1 /\ x - 1 \notin T
    BY <2>2, <2>3, <2>4, NumPrioritiesAssumption DEF Priority, Lowest
  <2>6. f[p] <= f[x - 1] /\ f[x - 1] <= f[x] /\ f[x - 1] \in Nat
    BY <2>3, <2>5
  <2> QED BY <2>3, <2>6
<1> QED
  BY <1>1

\* The limits SetLimits accepts.
IsLegal(limits) ==
  /\ limits \in [total_jobs : Nat, reserved_slots : [Priority -> Nat]]
  /\ ReservedUpTo(limits)[Highest] <= limits.total_jobs

\* SetLimits gives every priority a limit, and a higher one no smaller limit.
LEMMA MaxRunningJobsProperties ==
  ASSUME NEW limits, IsLegal(limits)
  PROVE  /\ MaxRunningJobs(limits) \in [Priority -> Nat]
         /\ \A p, r \in Priority :
              p <= r => MaxRunningJobs(limits)[p] <= MaxRunningJobs(limits)[r]
<1>1. PICK f : f = ReservedUpTo(limits)
  OBVIOUS
<1>2. limits.reserved_slots \in [Priority -> Nat] /\ limits.total_jobs \in Nat
  BY DEF IsLegal
<1>3. f \in [Priority -> Nat] /\ IsSum(f, Priority, limits.reserved_slots)
  BY <1>1, <1>2, ReservedUpToDef
<1>4. \A i \in Priority : i # Lowest => f[i - 1] <= f[i]
  <2> SUFFICES ASSUME NEW i \in Priority, i # Lowest PROVE f[i - 1] <= f[i]
    OBVIOUS
  <2>1. i - 1 \in Priority
    BY NumPrioritiesAssumption DEF Priority, Lowest
  <2>2. f[i] = f[i - 1] + limits.reserved_slots[i]
    BY <1>3 DEF IsSum
  <2>3. f[i - 1] \in Nat /\ limits.reserved_slots[i] \in Nat
    BY <1>2, <1>3, <2>1
  <2> QED BY <2>2, <2>3
<1>5. \A p, r \in Priority : p <= r => f[p] <= f[r]
  BY <1>3, <1>4, StepwiseMonotonic
<1>6. PICK spare : spare = limits.total_jobs - f[Highest]
  OBVIOUS
<1>7. spare \in Nat
  <2>1. f[Highest] \in Nat
    BY <1>3, NumPrioritiesAssumption DEF Highest, Priority
  <2> QED BY <1>1, <1>2, <1>6, <2>1 DEF IsLegal
<1>8. MaxRunningJobs(limits) = [i \in Priority |-> f[i] + spare]
  BY <1>1, <1>6 DEF MaxRunningJobs
<1> QED
  BY <1>3, <1>5, <1>7, <1>8

\* The limits SetLimitsToZero passes on are legal.
LEMMA ZeroLimitsLegal == IsLegal(ZeroLimits)
<1>1. ZeroLimits \in [total_jobs : Nat, reserved_slots : [Priority -> Nat]]
  BY DEF ZeroLimits
<1>2. /\ ZeroLimits.reserved_slots \in [Priority -> Nat]
      /\ \A i \in Priority : ZeroLimits.reserved_slots[i] = 0
      /\ ZeroLimits.total_jobs = 0
  BY DEF ZeroLimits
<1>3. PICK f : f = ReservedUpTo(ZeroLimits)
  OBVIOUS
<1>4. f \in [Priority -> Nat] /\ IsSum(f, Priority, ZeroLimits.reserved_slots)
  BY <1>2, <1>3, ReservedUpToDef
<1> DEFINE T == {i \in Priority : f[i] # 0}
<1>5. T = {}
  <2> SUFFICES ASSUME T # {} PROVE FALSE
    OBVIOUS
  <2>1. T \subseteq Nat
    BY NumPrioritiesAssumption DEF Priority
  <2>2. PICK x \in T : \A y \in T : x <= y
    <3> HIDE DEF T
    <3> QED BY <2>1, LeastNat
  <2>3. x \in Nat /\ x \in Priority /\ f[x] # 0
    BY <2>1, <2>2
  <2>4. f[x] = IF x = Lowest THEN 0 ELSE f[x - 1] + 0
    <3>1. f[x] = IF x = Lowest THEN ZeroLimits.reserved_slots[x]
                               ELSE f[x - 1] + ZeroLimits.reserved_slots[x]
      BY <1>4, <2>3 DEF IsSum
    <3> QED BY <1>2, <2>3, <3>1
  <2>5. x # Lowest
    BY <2>3, <2>4
  <2>6. x - 1 \in Priority /\ x - 1 \notin T
    BY <2>2, <2>3, <2>5, NumPrioritiesAssumption DEF Priority, Lowest
  <2> QED BY <2>3, <2>4, <2>5, <2>6
<1>6. f[Highest] = 0
  BY <1>5, NumPrioritiesAssumption DEF Highest, Priority
<1> QED
  BY <1>1, <1>2, <1>3, <1>6 DEF IsLegal

-----------------------------------------------------------------------------
\* The inductive invariant.  HigherMayUseMore makes the single look of
\* MaybeDispatchNextJob at the highest waiting job enough; the others give
\* each other the types, the counts and the places they need.
Inv ==
  /\ TypeOK
  /\ HigherMayUseMore
  /\ RunningJobsAreCounted
  /\ JobInOnePlace
  /\ NoStartableJobQueued

\* No waiting job may start when n jobs run.
NoneMayStart(q, n, max) == \A p \in Priority : q[p] # << >> => n >= max[p]

\* If the first job of the highest waiting priority may not start, no job may.
LEMMA NextJobDecides ==
  ASSUME queue \in [Priority -> Seq(Job)], NEW n \in Nat,
         NEW max \in [Priority -> Nat],
         \A p, r \in Priority : p <= r => max[p] <= max[r],
         ~ NextJobMayStart(n, max)
  PROVE  NoneMayStart(queue, n, max)
<1>1. CASE empty(queue)
  BY <1>1 DEF empty, NoneMayStart
<1>2. CASE ~ empty(queue)
  <2>1. Highest \in Nat /\ Priority = 0 .. Highest
    BY NumPrioritiesAssumption DEF Highest, Priority
  <2>2. PICK m : m = Max(NonEmpty(queue))
    OBVIOUS
  <2>3. /\ m \in Priority
        /\ \A r \in Priority : queue[r] # << >> => r <= m
    BY <1>2, <2>1, <2>2, FirstMaxProperties
  <2>4. n >= max[m]
    BY <1>2, <2>2, <2>3 DEF NextJobMayStart
  <2>5. ASSUME NEW p \in Priority, queue[p] # << >> PROVE n >= max[p]
    <3>1. max[p] <= max[m] /\ max[p] \in Nat /\ max[m] \in Nat
      BY <2>3, <2>5
    <3> QED BY <2>4, <3>1
  <2> QED BY <2>5 DEF NoneMayStart
<1> QED
  BY <1>1, <1>2

\* EraseProperties for the queue of a dispatcher.
LEMMA QueueAfterErase ==
  ASSUME queue \in [Priority -> Seq(Job)], NoDuplicates(queue),
         NEW job \in Values(queue), NEW q, q = Erase(queue, job)
  PROVE  /\ q \in [Priority -> Seq(Job)]
         /\ Values(queue) = Values(q) \union {job}
         /\ NoDuplicates(q) /\ job \notin Values(q)
         /\ \A s \in Priority : queue[s] = << >> => q[s] = << >>
<1>1. /\ Erase(queue, job) \in [Priority -> Seq(Job)]
      /\ Values(queue) = Values(Erase(queue, job)) \union {job}
      /\ NoDuplicates(queue) => /\ NoDuplicates(Erase(queue, job))
                                /\ job \notin Values(Erase(queue, job))
      /\ \A s \in Priority : queue[s] = << >> => Erase(queue, job)[s] = << >>
  BY EraseProperties
<1> QED
  BY <1>1

\* What one call of MaybeDispatchNextJob keeps.
LEMMA DispatchProperties ==
  ASSUME queue \in [Priority -> Seq(Job)],
         NEW n \in Nat, NEW r \in SUBSET Job,
         NEW max \in [Priority -> Nat],
         \A p, s \in Priority : p <= s => max[p] <= max[s],
         IsFiniteSet(r), Cardinality(r) = n,
         NoDuplicates(queue), r \intersect Values(queue) = {},
         MaybeDispatchNextJob(n, r, max)
  PROVE  /\ queue' \in [Priority -> Seq(Job)]
         /\ num_running_jobs' \in Nat
         /\ running' \subseteq Job
         /\ IsFiniteSet(running')
         /\ num_running_jobs' = Cardinality(running')
         /\ NoDuplicates(queue')
         /\ running' \intersect Values(queue') = {}
         /\ ~ NextJobMayStart(n, max) =>
              NoneMayStart(queue', num_running_jobs', max)
         /\ NoneMayStart(queue, n + 1, max) =>
              NoneMayStart(queue', num_running_jobs', max)
<1>1. CASE ~ NextJobMayStart(n, max)
  <2>1. num_running_jobs' = n /\ running' = r /\ queue' = queue
    BY <1>1 DEF MaybeDispatchNextJob
  <2>2. NoneMayStart(queue, n, max)
    BY <1>1, NextJobDecides
  <2> QED BY <2>1, <2>2
<1>2. CASE NextJobMayStart(n, max)
  <2>1. PICK job : job = FirstMax(queue)
    OBVIOUS
  <2>2. /\ num_running_jobs' = n + 1
        /\ running' = r \union {job}
        /\ queue' = Erase(queue, job)
    BY <1>2, <2>1 DEF MaybeDispatchNextJob
  <2>3. job \in Values(queue)
    <3>1. Highest \in Nat /\ Priority = 0 .. Highest
      BY NumPrioritiesAssumption DEF Highest, Priority
    <3>2. ~ empty(queue)
      BY <1>2 DEF NextJobMayStart
    <3> QED BY <2>1, <3>1, <3>2, FirstMaxProperties
  <2>4. /\ queue' \in [Priority -> Seq(Job)]
        /\ Values(queue) = Values(queue') \union {job}
        /\ NoDuplicates(queue') /\ job \notin Values(queue')
        /\ \A s \in Priority : queue[s] = << >> => queue'[s] = << >>
    BY <2>2, <2>3, QueueAfterErase
  <2>5. job \in Job /\ job \notin r
    BY <2>3, ValuesType
  <2>6. IsFiniteSet(running') /\ Cardinality(running') = n + 1
    BY <2>2, <2>5, FS_AddElement
  <2>7. NoneMayStart(queue, n + 1, max) => NoneMayStart(queue', n + 1, max)
    BY <2>4 DEF NoneMayStart
  <2>8. running' \intersect Values(queue') = {}
    BY <2>2, <2>4
  <2> QED BY <1>2, <2>2, <2>4, <2>5, <2>6, <2>7, <2>8
<1> QED
  BY <1>1, <1>2

-----------------------------------------------------------------------------
\* Inv, spelled out for the state after a step that keeps the limits or sets
\* them to max.
LEMMA InvIntro ==
  ASSUME queue' \in [Priority -> Seq(Job)],
         max_running_jobs' \in [Priority -> Nat],
         num_running_jobs' \in Nat,
         running' \subseteq Job,
         loops' \in 0 .. MaxLoops,
         \A p, r \in Priority :
           p <= r => max_running_jobs'[p] <= max_running_jobs'[r],
         IsFiniteSet(running'), num_running_jobs' = Cardinality(running'),
         NoDuplicates(queue'), running' \intersect Values(queue') = {},
         loops' = 0 =>
           NoneMayStart(queue', num_running_jobs', max_running_jobs')
  PROVE  Inv'
<1>1. TypeOK'
  BY DEF TypeOK
<1>2. HigherMayUseMore'
  BY DEF HigherMayUseMore
<1>3. RunningJobsAreCounted'
  BY DEF RunningJobsAreCounted
<1>4. JobInOnePlace'
  BY DEF JobInOnePlace
<1>5. NoStartableJobQueued'
  BY DEF NoStartableJobQueued, NoneMayStart
<1> QED
  BY <1>1, <1>2, <1>3, <1>4, <1>5 DEF Inv

\* Inv, spelled out for the state before a step.
LEMMA InvElim ==
  ASSUME Inv
  PROVE  /\ queue \in [Priority -> Seq(Job)]
         /\ max_running_jobs \in [Priority -> Nat]
         /\ num_running_jobs \in Nat
         /\ running \subseteq Job
         /\ loops \in 0 .. MaxLoops
         /\ \A p, r \in Priority :
              p <= r => max_running_jobs[p] <= max_running_jobs[r]
         /\ IsFiniteSet(running) /\ num_running_jobs = Cardinality(running)
         /\ NoDuplicates(queue) /\ running \intersect Values(queue) = {}
         /\ loops = 0 => NoneMayStart(queue, num_running_jobs, max_running_jobs)
  BY DEF Inv, TypeOK, HigherMayUseMore, RunningJobsAreCounted, JobInOnePlace,
         NoStartableJobQueued, NoneMayStart

\* A dispatcher that was just constructed satisfies the invariant.
LEMMA InitInv ==
  ASSUME Init
  PROVE  Inv
<1>1. /\ queue \in [Priority -> Seq(Job)]
      /\ Values(queue) = {}
      /\ NoDuplicates(queue)
      /\ \A p \in Priority : queue[p] = << >>
  BY EmptyQueueProperties DEF Init
<1>2. PICK limits \in Limits : max_running_jobs = MaxRunningJobs(limits)
  BY DEF Init
<1>3. IsLegal(limits)
  BY LimitsAssumption DEF IsLegal
<1>4. /\ max_running_jobs \in [Priority -> Nat]
      /\ \A p, r \in Priority :
           p <= r => max_running_jobs[p] <= max_running_jobs[r]
  BY <1>2, <1>3, MaxRunningJobsProperties
<1>5. TypeOK
  BY <1>1, <1>4, MaxLoopsAssumption DEF TypeOK, Init
<1>6. RunningJobsAreCounted
  BY FS_EmptySet DEF RunningJobsAreCounted, Init
<1>7. JobInOnePlace
  BY <1>1 DEF JobInOnePlace, Init
<1> QED
  BY <1>1, <1>4, <1>5, <1>6, <1>7
     DEF Inv, HigherMayUseMore, NoStartableJobQueued

\* Add and AddAtHead: the job starts, or waits in the queue q.
LEMMA AddToInv ==
  ASSUME Inv, NEW job \in Job, NEW p \in Priority, NEW q,
         AddTo(job, p, q),
         q \in [Priority -> Seq(Job)],
         Values(q) = Values(queue) \union {job},
         NoDuplicates(queue) /\ job \notin Values(queue) => NoDuplicates(q),
         \A r \in Priority : r # p => q[r] = queue[r]
  PROVE  Inv'
<1>1. job \notin running /\ job \notin Values(queue)
  BY DEF AddTo
<1>2. max_running_jobs' = max_running_jobs /\ loops' = loops
  BY DEF AddTo
<1>3. CASE num_running_jobs < max_running_jobs[p]
  <2>1. /\ num_running_jobs' = num_running_jobs + 1
        /\ running' = running \union {job}
        /\ queue' = queue
    BY <1>3, InvElim DEF AddTo
  <2>2. IsFiniteSet(running') /\ Cardinality(running') = num_running_jobs + 1
    BY <1>1, <2>1, InvElim, FS_AddElement
  <2>3. loops' = 0 =>
          NoneMayStart(queue', num_running_jobs', max_running_jobs')
    BY <1>2, <2>1, InvElim DEF NoneMayStart
  <2> QED BY <1>1, <1>2, <2>1, <2>2, <2>3, InvElim, InvIntro
<1>4. CASE num_running_jobs >= max_running_jobs[p]
  <2>1. queue' = q /\ num_running_jobs' = num_running_jobs /\ running' = running
    BY <1>4, InvElim DEF AddTo
  <2>2. loops' = 0 =>
          NoneMayStart(queue', num_running_jobs', max_running_jobs')
    BY <1>2, <1>4, <2>1, InvElim DEF NoneMayStart
  <2>3. running' \intersect Values(queue') = {} /\ NoDuplicates(queue')
    BY <1>1, <2>1, InvElim
  <2> QED BY <1>2, <2>1, <2>2, <2>3, InvElim, InvIntro
<1> QED
  BY <1>3, <1>4, InvElim

\* Add keeps the invariant.
LEMMA AddInv ==
  ASSUME Inv, NEW job \in Job, NEW p \in Priority, Add(job, p)
  PROVE  Inv'
<1>1. PICK q : q = Insert(queue, job, p)
  OBVIOUS
<1>2. queue \in [Priority -> Seq(Job)]
  BY InvElim
<1>3. /\ q \in [Priority -> Seq(Job)]
      /\ Values(q) = Values(queue) \union {job}
      /\ NoDuplicates(queue) /\ job \notin Values(queue) => NoDuplicates(q)
  BY <1>1, <1>2, InsertProperties
<1>4. \A r \in Priority : r # p => q[r] = queue[r]
  BY <1>1, <1>2 DEF Insert
<1>5. AddTo(job, p, q)
  BY <1>1 DEF Add
<1> QED
  BY <1>3, <1>4, <1>5, AddToInv

\* AddAtHead keeps the invariant.
LEMMA AddAtHeadInv ==
  ASSUME Inv, NEW job \in Job, NEW p \in Priority, AddAtHead(job, p)
  PROVE  Inv'
<1>1. PICK q : q = InsertAtFront(queue, job, p)
  OBVIOUS
<1>2. queue \in [Priority -> Seq(Job)]
  BY InvElim
<1>3. /\ q \in [Priority -> Seq(Job)]
      /\ Values(q) = Values(queue) \union {job}
      /\ NoDuplicates(queue) /\ job \notin Values(queue) => NoDuplicates(q)
  BY <1>1, <1>2, InsertAtFrontProperties
<1>4. \A r \in Priority : r # p => q[r] = queue[r]
  BY <1>1, <1>2 DEF InsertAtFront
<1>5. AddTo(job, p, q)
  BY <1>1 DEF AddAtHead
<1> QED
  BY <1>3, <1>4, <1>5, AddToInv

\* Cancel and EvictOldestLowest: a job leaves the queue.
LEMMA RemoveInv ==
  ASSUME Inv, NEW job \in Values(queue), queue' = Erase(queue, job),
         UNCHANGED <<max_running_jobs, num_running_jobs, running, loops>>
  PROVE  Inv'
<1>1. /\ queue' \in [Priority -> Seq(Job)]
      /\ Values(queue) = Values(queue') \union {job}
      /\ NoDuplicates(queue')
      /\ \A s \in Priority : queue[s] = << >> => queue'[s] = << >>
  BY InvElim, QueueAfterErase
<1>2. NoneMayStart(queue, num_running_jobs, max_running_jobs) =>
        NoneMayStart(queue', num_running_jobs', max_running_jobs')
  BY <1>1 DEF NoneMayStart
<1> QED
  BY <1>1, <1>2, InvElim, InvIntro

\* ChangePriority keeps the invariant: the job starts, or moves to another
\* list whose limit it may not pass.
LEMMA ChangePriorityInv ==
  ASSUME Inv, NEW job \in Job, NEW p \in Priority, ChangePriority(job, p)
  PROVE  Inv'
<1>1. /\ job \in Values(queue)
      /\ max_running_jobs' = max_running_jobs /\ loops' = loops
  BY DEF ChangePriority
<1>2. PICK e : e = Erase(queue, job)
  OBVIOUS
<1>3. /\ e \in [Priority -> Seq(Job)]
      /\ Values(queue) = Values(e) \union {job}
      /\ NoDuplicates(e) /\ job \notin Values(e)
      /\ \A s \in Priority : queue[s] = << >> => e[s] = << >>
  BY <1>1, <1>2, InvElim, QueueAfterErase
<1>4. CASE num_running_jobs < max_running_jobs[p]
  <2>1. /\ num_running_jobs' = num_running_jobs + 1
        /\ running' = running \union {job}
        /\ queue' = e
    BY <1>2, <1>4, InvElim DEF ChangePriority
  <2>2. IsFiniteSet(running') /\ Cardinality(running') = num_running_jobs + 1
    BY <1>1, <2>1, InvElim, FS_AddElement
  <2>3. loops' = 0 =>
          NoneMayStart(queue', num_running_jobs', max_running_jobs')
    BY <1>1, <1>3, <2>1, InvElim DEF NoneMayStart
  <2>4. running' \intersect Values(queue') = {}
    BY <1>3, <2>1, InvElim
  <2> QED BY <1>1, <1>3, <2>1, <2>2, <2>3, <2>4, InvElim, InvIntro
<1>5. CASE num_running_jobs >= max_running_jobs[p]
  <2>1. /\ queue' = Insert(e, job, p)
        /\ num_running_jobs' = num_running_jobs /\ running' = running
    BY <1>2, <1>5, InvElim DEF ChangePriority
  <2>2. /\ queue' \in [Priority -> Seq(Job)]
        /\ Values(queue') = Values(e) \union {job}
        /\ NoDuplicates(queue')
    BY <1>3, <2>1, InsertProperties
  <2>3. \A r \in Priority : r # p => queue'[r] = e[r]
    BY <1>3, <2>1 DEF Insert
  <2>4. loops' = 0 =>
          NoneMayStart(queue', num_running_jobs', max_running_jobs')
    BY <1>1, <1>3, <1>5, <2>1, <2>3, InvElim DEF NoneMayStart
  <2>5. running' \intersect Values(queue') = {}
    BY <1>3, <2>1, <2>2, InvElim
  <2> QED BY <1>1, <2>1, <2>2, <2>4, <2>5, InvElim, InvIntro
<1> QED
  BY <1>4, <1>5, InvElim

\* OnJobFinished keeps the invariant: one slot is free, one job is tried.
LEMMA OnJobFinishedInv ==
  ASSUME Inv, NEW job \in Job, OnJobFinished(job)
  PROVE  Inv'
<1>1. PICK n : n = num_running_jobs - 1
  OBVIOUS
<1>2. PICK r : r = running \ {job}
  OBVIOUS
<1>3. /\ job \in running
      /\ MaybeDispatchNextJob(n, r, max_running_jobs)
      /\ max_running_jobs' = max_running_jobs /\ loops' = loops
  BY <1>1, <1>2 DEF OnJobFinished
<1>4. IsFiniteSet(r) /\ Cardinality(r) = n
  BY <1>1, <1>2, <1>3, InvElim, FS_RemoveElement
<1>5. n \in Nat /\ n + 1 = num_running_jobs
  BY <1>1, <1>4, InvElim, FS_CardinalityType
<1>6. r \in SUBSET Job /\ r \intersect Values(queue) = {}
  BY <1>2, InvElim
<1>7. PICK max : max = max_running_jobs
  OBVIOUS
<1>8. /\ queue' \in [Priority -> Seq(Job)]
      /\ num_running_jobs' \in Nat
      /\ running' \subseteq Job
      /\ IsFiniteSet(running')
      /\ num_running_jobs' = Cardinality(running')
      /\ NoDuplicates(queue')
      /\ running' \intersect Values(queue') = {}
      /\ NoneMayStart(queue, n + 1, max) =>
           NoneMayStart(queue', num_running_jobs', max)
  BY <1>3, <1>4, <1>5, <1>6, <1>7, InvElim, DispatchProperties
<1>9. loops' = 0 => NoneMayStart(queue', num_running_jobs', max_running_jobs')
  BY <1>3, <1>5, <1>7, <1>8, InvElim
<1> QED
  BY <1>3, <1>8, <1>9, InvElim, InvIntro

\* SetLimits, and the rest of its loop, which keeps the limits max.
LEMMA DispatchInv ==
  ASSUME Inv, NEW max \in [Priority -> Nat],
         \A p, r \in Priority : p <= r => max[p] <= max[r],
         max_running_jobs' = max,
         MaybeDispatchNextJob(num_running_jobs, running, max),
         loops' \in 0 .. MaxLoops,
         loops' = 0 => ~ NextJobMayStart(num_running_jobs, max)
  PROVE  Inv'
<1>1. PICK n : n = num_running_jobs
  OBVIOUS
<1>2. PICK r : r = running
  OBVIOUS
<1>3. /\ queue' \in [Priority -> Seq(Job)]
      /\ num_running_jobs' \in Nat
      /\ running' \subseteq Job
      /\ IsFiniteSet(running')
      /\ num_running_jobs' = Cardinality(running')
      /\ NoDuplicates(queue')
      /\ running' \intersect Values(queue') = {}
      /\ ~ NextJobMayStart(n, max) =>
           NoneMayStart(queue', num_running_jobs', max)
  BY <1>1, <1>2, InvElim, DispatchProperties
<1> QED
  BY <1>1, <1>3, InvIntro

\* SetLimits keeps the invariant, whatever the legal limits.
LEMMA SetLimitsInv ==
  ASSUME Inv, NEW limits, IsLegal(limits), SetLimits(limits)
  PROVE  Inv'
<1>1. PICK max : max = MaxRunningJobs(limits)
  OBVIOUS
<1>2. /\ max \in [Priority -> Nat]
      /\ \A p, r \in Priority : p <= r => max[p] <= max[r]
  BY <1>1, MaxRunningJobsProperties
<1>3. /\ loops < MaxLoops
      /\ max_running_jobs' = max
      /\ MaybeDispatchNextJob(num_running_jobs, running, max)
      /\ loops' = IF NextJobMayStart(num_running_jobs, max) THEN loops + 1
                                                            ELSE loops
  BY <1>1 DEF SetLimits
<1>4. /\ loops' \in 0 .. MaxLoops
      /\ loops' = 0 => ~ NextJobMayStart(num_running_jobs, max)
  BY <1>3, InvElim, MaxLoopsAssumption
<1> QED
  BY <1>2, <1>3, <1>4, DispatchInv

\* One more iteration of the loop of SetLimits keeps the invariant.
LEMMA SetLimitsLoopInv ==
  ASSUME Inv, SetLimitsLoop
  PROVE  Inv'
<1>1. PICK max : max = max_running_jobs
  OBVIOUS
<1>2. /\ loops > 0
      /\ MaybeDispatchNextJob(num_running_jobs, running, max)
      /\ loops' = IF NextJobMayStart(num_running_jobs, max) THEN loops
                                                            ELSE loops - 1
      /\ max_running_jobs' = max
  BY <1>1 DEF SetLimitsLoop
<1>3. /\ loops' \in 0 .. MaxLoops
      /\ loops' = 0 => ~ NextJobMayStart(num_running_jobs, max)
  BY <1>2, InvElim, MaxLoopsAssumption
<1> QED
  BY <1>1, <1>2, <1>3, InvElim, DispatchInv

\* Every step keeps the invariant.
LEMMA NextInv ==
  ASSUME Inv, [Next]_vars
  PROVE  Inv'
<1>1. CASE UNCHANGED vars
  BY <1>1 DEF vars, Inv, TypeOK, HigherMayUseMore, RunningJobsAreCounted,
              JobInOnePlace, NoStartableJobQueued
<1>2. ASSUME NEW job \in Job, NEW p \in Priority,
             Add(job, p) \/ AddAtHead(job, p) \/ ChangePriority(job, p)
      PROVE  Inv'
  BY <1>2, AddInv, AddAtHeadInv, ChangePriorityInv
<1>3. ASSUME NEW job \in Job, Cancel(job) PROVE Inv'
  BY <1>3, RemoveInv DEF Cancel
<1>4. ASSUME NEW job \in Job, OnJobFinished(job) PROVE Inv'
  BY <1>4, OnJobFinishedInv
<1>5. ASSUME NEW limits \in Limits, SetLimits(limits) PROVE Inv'
  <2>1. IsLegal(limits)
    BY LimitsAssumption DEF IsLegal
  <2> QED BY <1>5, <2>1, SetLimitsInv
<1>6. CASE EvictOldestLowest
  <2>1. /\ ~ empty(queue)
        /\ queue' = Erase(queue, FirstMin(queue))
        /\ UNCHANGED <<max_running_jobs, num_running_jobs, running, loops>>
    BY <1>6 DEF EvictOldestLowest
  <2>2. Highest \in Nat /\ Priority = 0 .. Highest
    BY NumPrioritiesAssumption DEF Highest, Priority
  <2>3. FirstMin(queue) \in Values(queue)
    BY <2>1, <2>2, InvElim, FirstMinProperties
  <2> QED BY <2>1, <2>3, RemoveInv
<1>7. CASE SetLimitsToZero
  BY <1>7, ZeroLimitsLegal, SetLimitsInv DEF SetLimitsToZero
<1>8. CASE SetLimitsLoop
  BY <1>8, SetLimitsLoopInv
<1> QED
  BY <1>1, <1>2, <1>3, <1>4, <1>5, <1>6, <1>7, <1>8 DEF Next

\* The invariant holds throughout every behaviour of the dispatcher.
THEOREM Invariance == Spec => []Inv
<1>1. Init => Inv
  BY InitInv
<1>2. Inv /\ [Next]_vars => Inv'
  BY NextInv
<1> QED
  BY <1>1, <1>2, PTL DEF Spec

\* TypeOK: the dispatcher's variables have their types; in particular
\* num_running_jobs_ never wraps below zero.
THEOREM TypeCorrect == Spec => []TypeOK
<1>1. Inv => TypeOK
  BY DEF Inv
<1> QED
  BY <1>1, Invariance, PTL

\* num_running_jobs_ is always the number of jobs started and not finished.
THEOREM CountCorrect == Spec => []RunningJobsAreCounted
<1>1. Inv => RunningJobsAreCounted
  BY DEF Inv
<1> QED
  BY <1>1, Invariance, PTL

\* A job is queued at most once, and never while it runs.
THEOREM PlaceCorrect == Spec => []JobInOnePlace
<1>1. Inv => JobInOnePlace
  BY DEF Inv
<1> QED
  BY <1>1, Invariance, PTL

\* A higher priority may use every slot a lower one may use, whatever limits
\* SetLimits was given.
THEOREM LimitsMonotonic == Spec => []HigherMayUseMore
<1>1. Inv => HigherMayUseMore
  BY DEF Inv
<1>2. QED
  BY <1>1, Invariance, PTL

\* Outside the loop of SetLimits, no job waits for a slot it may use.
THEOREM DispatchComplete == Spec => []NoStartableJobQueued
<1>1. Inv => NoStartableJobQueued
  BY DEF Inv
<1> QED
  BY <1>1, Invariance, PTL

\* SetLimits(GetLimits()) changes nothing, whatever limits were set before:
\* HostResolverImpl may keep the limits across SetLimitsToZero.
THEOREM RoundTrip == Spec => []LimitsRoundTrip
<1>1. ASSUME Inv PROVE LimitsRoundTrip
  <2>1. PICK max : max = max_running_jobs
    OBVIOUS
  <2>2. /\ max \in [Priority -> Nat]
        /\ \A p, r \in Priority : p <= r => max[p] <= max[r]
    BY <1>1, <2>1, InvElim
  <2>3. Lowest \in Priority /\ Highest \in Priority
    BY NumPrioritiesAssumption DEF Lowest, Highest, Priority
  <2>4. PICK slots : slots = GetLimits.reserved_slots
    OBVIOUS
  <2>5. /\ GetLimits.total_jobs = max[Highest]
        /\ slots = [i \in Priority |-> IF i = Lowest THEN 0
                                       ELSE max[i] - max[i - 1]]
    BY <2>1, <2>4 DEF GetLimits
  <2>6. slots \in [Priority -> Nat]
    <3> SUFFICES ASSUME NEW i \in Priority, i # Lowest
                 PROVE  max[i] - max[i - 1] \in Nat
      BY <2>5
    <3>1. i - 1 \in Priority /\ i - 1 <= i
      BY NumPrioritiesAssumption DEF Priority, Lowest
    <3>2. max[i - 1] <= max[i] /\ max[i] \in Nat /\ max[i - 1] \in Nat
      BY <2>2, <3>1
    <3> QED BY <3>2
  <2>7. PICK f : f = ReservedUpTo(GetLimits)
    OBVIOUS
  <2>8. f \in [Priority -> Nat] /\ IsSum(f, Priority, slots)
    BY <2>4, <2>6, <2>7, ReservedUpToDef
  <2> DEFINE T == {i \in Priority : f[i] # max[i] - max[Lowest]}
  <2>9. T = {}
    <3> SUFFICES ASSUME T # {} PROVE FALSE
      OBVIOUS
    <3>1. T \subseteq Nat
      BY NumPrioritiesAssumption DEF Priority
    <3>2. PICK x \in T : \A y \in T : x <= y
      <4> HIDE DEF T
      <4> QED BY <3>1, LeastNat
    <3>3. x \in Nat /\ x \in Priority /\ f[x] # max[x] - max[Lowest]
      BY <3>1, <3>2
    <3>4. f[x] = IF x = Lowest THEN slots[x] ELSE f[x - 1] + slots[x]
      BY <2>8, <3>3 DEF IsSum
    <3>5. slots[x] = IF x = Lowest THEN 0 ELSE max[x] - max[x - 1]
      BY <2>5, <3>3
    <3>6. x # Lowest
      BY <2>2, <2>3, <3>3, <3>4, <3>5
    <3>7. x - 1 \in Priority /\ x - 1 \notin T
      BY <3>2, <3>3, <3>6, NumPrioritiesAssumption DEF Priority, Lowest
    <3>8. f[x - 1] = max[x - 1] - max[Lowest]
      BY <3>7
    <3>9. max[x] \in Nat /\ max[x - 1] \in Nat /\ max[Lowest] \in Nat
      BY <2>2, <2>3, <3>3, <3>7
    <3> QED BY <3>3, <3>4, <3>5, <3>6, <3>8, <3>9
  <2>10. MaxRunningJobs(GetLimits) =
           [i \in Priority |-> f[i] + (max[Highest] - f[Highest])]
    BY <2>5, <2>7 DEF MaxRunningJobs
  <2>11. \A i \in Priority : f[i] + (max[Highest] - f[Highest]) = max[i]
    <3> SUFFICES ASSUME NEW i \in Priority
                 PROVE  f[i] + (max[Highest] - f[Highest]) = max[i]
      OBVIOUS
    <3>1. f[i] = max[i] - max[Lowest] /\ f[Highest] = max[Highest] - max[Lowest]
      BY <2>3, <2>9
    <3>2. max[i] \in Nat /\ max[Lowest] \in Nat /\ max[Highest] \in Nat
      BY <2>2, <2>3
    <3> QED BY <3>1, <3>2
  <2>12. MaxRunningJobs(GetLimits) = max
    BY <2>2, <2>10, <2>11
  <2> QED BY <2>1, <2>12 DEF LimitsRoundTrip
<1> QED
  BY <1>1, Invariance, PTL

\* A step in which jobs stop running is OnJobFinished.
LEMMA OnlyFinishedStops ==
  ASSUME Inv, [Next]_vars, running \ running' # {}
  PROVE  \E job \in Job : OnJobFinished(job)
<1>1. ASSUME NEW max, MaybeDispatchNextJob(num_running_jobs, running, max)
      PROVE  FALSE
  BY <1>1 DEF MaybeDispatchNextJob
<1>2. ~ UNCHANGED vars
  BY DEF vars
<1>3. ASSUME NEW job \in Job, NEW p \in Priority,
             Add(job, p) \/ AddAtHead(job, p) \/ ChangePriority(job, p)
      PROVE  FALSE
  BY <1>3 DEF Add, AddAtHead, AddTo, ChangePriority
<1>4. ASSUME NEW job \in Job, Cancel(job) PROVE FALSE
  BY <1>4 DEF Cancel
<1>5. ASSUME NEW limits, SetLimits(limits) PROVE FALSE
  BY <1>1, <1>5 DEF SetLimits
<1>6. ~ EvictOldestLowest
  BY DEF EvictOldestLowest
<1>7. ~ SetLimitsToZero
  BY <1>5 DEF SetLimitsToZero
<1>8. ~ SetLimitsLoop
  BY <1>1 DEF SetLimitsLoop
<1> QED
  BY <1>2, <1>3, <1>4, <1>5, <1>6, <1>7, <1>8 DEF Next

\* When a job finishes and a queued job starts, it is ahead of the jobs left.
THEOREM DispatchesInOrder == Spec => DispatchOrder
<1> DEFINE Ahead(job, other) ==
      LET p == PriorityOf(queue, job)
          r == PriorityOf(queue, other)
      IN  \/ r < p
          \/ /\ r = p
             /\ IndexOf(queue[p], job) < IndexOf(queue[p], other)
<1>1. ASSUME Inv, [Next]_vars,
             NEW job \in Values(queue) \intersect running',
             running \ running' # {}, NEW other \in Values(queue')
      PROVE  Ahead(job, other)
  <2>1. PICK done \in Job : OnJobFinished(done)
    BY <1>1, OnlyFinishedStops
  <2>2. PICK n : n = num_running_jobs - 1
    OBVIOUS
  <2>3. MaybeDispatchNextJob(n, running \ {done}, max_running_jobs)
    BY <2>1, <2>2 DEF OnJobFinished
  <2>4. job \notin running
    BY <1>1, InvElim
  <2>5. /\ ~ empty(queue)
        /\ queue' = Erase(queue, FirstMax(queue))
        /\ job = FirstMax(queue)
    BY <1>1, <2>3, <2>4 DEF MaybeDispatchNextJob, NextJobMayStart
  <2>6. other \in Values(queue) /\ other # job
    <3>1. PICK q : q = queue'
      OBVIOUS
    <3>2. Values(queue) = Values(q) \union {job} /\ job \notin Values(q)
      BY <1>1, <2>5, <3>1, InvElim, QueueAfterErase
    <3> QED BY <1>1, <3>1, <3>2
  <2>7. Highest \in Nat /\ Priority = 0 .. Highest
    BY NumPrioritiesAssumption DEF Highest, Priority
  <2>8. PICK m : m = Max(NonEmpty(queue))
    OBVIOUS
  <2>9. /\ m \in Priority
        /\ queue[m] # << >>
        /\ \A r \in Priority : queue[r] # << >> => r <= m
    BY <1>1, <2>5, <2>7, <2>8, InvElim, FirstMaxProperties
  <2>10. job = Head(queue[m])
    BY <2>5, <2>8 DEF FirstMax
  <2>11. Priority \subseteq Int
    BY <2>7
  <2>12. queue \in [Priority -> Seq(Job)] /\ NoDuplicates(queue)
    BY <1>1, InvElim
  <2>13. IsAhead(queue, job, other)
    BY <2>6, <2>9, <2>10, <2>11, <2>12, HighestHeadIsAhead, Zenon
  <2> QED BY <2>13 DEF IsAhead
<1>2. Inv /\ [Next]_vars =>
        [\A job \in Values(queue) \intersect running' :
           running \ running' # {} =>
             \A other \in Values(queue') : Ahead(job, other)]_vars
  BY <1>1
<1> QED
  BY <1>2, Invariance, PTL DEF Spec, DispatchOrder
=============================================================================
