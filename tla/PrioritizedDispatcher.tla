------------------------ MODULE PrioritizedDispatcher ------------------------
(***************************************************************************)
(* base/prioritized_dispatcher.{h,cc}: jobs are started by priority, FIFO  *)
(* within a priority, as long as the number of running jobs stays below    *)
(* the limit of their priority.                                            *)
(*                                                                         *)
(* Job::Start is a call out of the dispatcher, and the header allows it to *)
(* call back into any method.  In Add, AddAtHead, ChangePriority and       *)
(* OnJobFinished that call is the last thing the method does, so a nested  *)
(* call is the same as a call made just after; in SetLimits it is made     *)
(* inside a loop, whose remaining iterations run after the nested calls.   *)
(* loops counts the SetLimits loops on the stack: whenever it is positive, *)
(* the Start of a job dispatched by the innermost loop is running.         *)
(*                                                                         *)
(* A member of Job is one submission, known by the Handle it gets: a Job   *)
(* object that is added a second time while it runs, as the DNS jobs of    *)
(* HostResolverImpl are for their second transaction, is two of them.      *)
(***************************************************************************)
EXTENDS PriorityQueue

CONSTANTS
  Job,            \* the submissions of jobs the clients may make
  NumPriorities,  \* num_priorities(): reserved_slots.size() of the limits
  Limits,         \* the limits a client may set
  MaxLoops        \* bound: how deep SetLimits calls may nest through Start

ASSUME NumPrioritiesAssumption == NumPriorities \in Nat \ {0}

ASSUME MaxLoopsAssumption == MaxLoops \in Nat

Priority == 0 .. NumPriorities - 1

Lowest == 0

Highest == NumPriorities - 1

\* The first loop of SetLimits: the slots reserved for a priority and all the
\* lower ones.
ReservedUpTo(limits) ==
  LET total[i \in Priority] ==
        IF i = Lowest THEN limits.reserved_slots[i]
                      ELSE total[i - 1] + limits.reserved_slots[i]
  IN  total

\* Mutant of MaxRunningJobs: the spare slots are lost.
MaxRunningJobsNoSpare(limits) == ReservedUpTo(limits)

\* What SetLimits makes of the limits: the reserved slots summed up, and the
\* spare ones available to every priority.
MaxRunningJobs(limits) ==
  LET total == ReservedUpTo(limits)
      spare == limits.total_jobs - total[Highest]
  IN  [i \in Priority |-> total[i] + spare]

\* SetLimits DCHECKs sum(reserved_slots) <= total_jobs.
ASSUME LimitsAssumption ==
  \A limits \in Limits :
     /\ limits \in [total_jobs : Nat, reserved_slots : [Priority -> Nat]]
     /\ ReservedUpTo(limits)[Highest] <= limits.total_jobs

\* The limits SetLimitsToZero passes on.
ZeroLimits == [total_jobs |-> 0, reserved_slots |-> [i \in Priority |-> 0]]

VARIABLES
  queue,             \* queue_
  max_running_jobs,  \* max_running_jobs_, per priority
  num_running_jobs,  \* num_running_jobs_
  running,           \* the jobs started that did not yet call OnJobFinished
  loops              \* SetLimits loops on the stack

vars == <<queue, max_running_jobs, num_running_jobs, running, loops>>

\* GetLimits, which HostResolverImpl keeps across SetLimitsToZero.
GetLimits ==
  [total_jobs     |-> max_running_jobs[Highest],
   reserved_slots |-> [i \in Priority |->
                         IF i = Lowest THEN 0
                         ELSE max_running_jobs[i] - max_running_jobs[i - 1]]]

-----------------------------------------------------------------------------
\* The constructor: an empty queue, and SetLimits with nothing to dispatch.
Init ==
  /\ queue = EmptyQueue(Priority)
  /\ \E limits \in Limits : max_running_jobs = MaxRunningJobs(limits)
  /\ num_running_jobs = 0
  /\ running = {}
  /\ loops = 0

\* Mutant of NextJobMayStart: the limit of the lowest waiting job decides.
LowestJobMayStart(n, max) == ~ empty(queue) /\ n < max[Min(NonEmpty(queue))]

\* MaybeDispatchNextJob would start a job when n jobs run under the limits max.
NextJobMayStart(n, max) == ~ empty(queue) /\ n < max[Max(NonEmpty(queue))]

\* Mutant of MaybeDispatchNextJob: the lowest priority is served first.
MaybeDispatchLowestJob(n, r, max) ==
  LET job == FirstMin(queue)
  IN
  \/ /\ NextJobMayStart(n, max)
     /\ queue' = Erase(queue, job)
     /\ num_running_jobs' = n + 1
     /\ running' = r \union {job}
  \/ /\ ~ NextJobMayStart(n, max)
     /\ num_running_jobs' = n
     /\ running' = r
     /\ UNCHANGED queue

\* MaybeDispatchNextJob when n jobs, the ones in r, run under the limits max.
MaybeDispatchNextJob(n, r, max) ==
  \/ /\ NextJobMayStart(n, max)
     /\ queue' = Erase(queue, FirstMax(queue))
     /\ num_running_jobs' = n + 1
     /\ running' = r \union {FirstMax(queue)}
  \/ /\ ~ NextJobMayStart(n, max)
     /\ num_running_jobs' = n
     /\ running' = r
     /\ UNCHANGED queue

\* The part Add and AddAtHead share; q is the queue with the job inserted.
AddTo(job, p, q) ==
  /\ job \notin running \union Values(queue)
  /\ \/ /\ num_running_jobs < max_running_jobs[p]
        /\ num_running_jobs' = num_running_jobs + 1
        /\ running' = running \union {job}
        /\ UNCHANGED queue
     \/ /\ num_running_jobs >= max_running_jobs[p]
        /\ queue' = q
        /\ UNCHANGED <<num_running_jobs, running>>
  /\ UNCHANGED <<max_running_jobs, loops>>

Add(job, p) == AddTo(job, p, Insert(queue, job, p))

AddAtHead(job, p) == AddTo(job, p, InsertAtFront(queue, job, p))

Cancel(job) ==
  /\ job \in Values(queue)
  /\ queue' = Erase(queue, job)
  /\ UNCHANGED <<max_running_jobs, num_running_jobs, running, loops>>

EvictOldestLowest ==
  /\ ~ empty(queue)
  /\ queue' = Erase(queue, FirstMin(queue))
  /\ UNCHANGED <<max_running_jobs, num_running_jobs, running, loops>>

\* Mutant of ChangePriority: the job is not taken from its old list.
ChangePriorityNoErase(job, p) ==
  /\ job \in Values(queue)
  /\ p # PriorityOf(queue, job)
  /\ num_running_jobs >= max_running_jobs[p]
  /\ queue' = Insert(queue, job, p)
  /\ UNCHANGED <<max_running_jobs, num_running_jobs, running, loops>>

\* Mutant of ChangePriority: a job that is started at once is not counted.
ChangePriorityUncounted(job, p) ==
  /\ job \in Values(queue)
  /\ p # PriorityOf(queue, job)
  /\ num_running_jobs < max_running_jobs[p]
  /\ queue' = Erase(queue, job)
  /\ running' = running \union {job}
  /\ UNCHANGED <<max_running_jobs, num_running_jobs, loops>>

ChangePriority(job, p) ==
  /\ job \in Values(queue)
  /\ p # PriorityOf(queue, job)
  /\ \/ /\ num_running_jobs < max_running_jobs[p]
        /\ queue' = Erase(queue, job)
        /\ num_running_jobs' = num_running_jobs + 1
        /\ running' = running \union {job}
     \/ /\ num_running_jobs >= max_running_jobs[p]
        /\ queue' = Insert(Erase(queue, job), job, p)
        /\ UNCHANGED <<num_running_jobs, running>>
  /\ UNCHANGED <<max_running_jobs, loops>>

\* Mutant of OnJobFinished: the slot is offered to nobody.
OnJobFinishedNoDispatch(job) ==
  /\ job \in running
  /\ num_running_jobs' = num_running_jobs - 1
  /\ running' = running \ {job}
  /\ UNCHANGED <<queue, max_running_jobs, loops>>

\* Mutant of OnJobFinished: the job is counted out twice.
OnJobFinishedTwice(job) ==
  /\ job \in running
  /\ num_running_jobs' = num_running_jobs - 2
  /\ running' = running \ {job}
  /\ UNCHANGED <<queue, max_running_jobs, loops>>

\* A running job finished and says so.
OnJobFinished(job) ==
  /\ job \in running
  /\ MaybeDispatchNextJob(num_running_jobs - 1, running \ {job},
                          max_running_jobs)
  /\ UNCHANGED <<max_running_jobs, loops>>

\* The limits change and the loop makes its first iteration; it stays on the
\* stack when that iteration started a job.
SetLimits(limits) ==
  /\ loops < MaxLoops
  /\ max_running_jobs' = MaxRunningJobs(limits)
  /\ MaybeDispatchNextJob(num_running_jobs, running, MaxRunningJobs(limits))
  /\ loops' = IF NextJobMayStart(num_running_jobs, MaxRunningJobs(limits))
                THEN loops + 1
                ELSE loops

SetLimitsToZero == SetLimits(ZeroLimits)

\* The Start called by the innermost loop returns and the loop goes on.
SetLimitsLoop ==
  /\ loops > 0
  /\ MaybeDispatchNextJob(num_running_jobs, running, max_running_jobs)
  /\ loops' = IF NextJobMayStart(num_running_jobs, max_running_jobs)
                THEN loops
                ELSE loops - 1
  /\ UNCHANGED max_running_jobs

Next ==
  \/ \E job \in Job, p \in Priority : \/ Add(job, p)
                                      \/ AddAtHead(job, p)
                                      \/ ChangePriority(job, p)
  \/ \E job \in Job : Cancel(job) \/ OnJobFinished(job)
  \/ \E limits \in Limits : SetLimits(limits)
  \/ EvictOldestLowest
  \/ SetLimitsToZero
  \/ SetLimitsLoop

Spec == Init /\ [][Next]_vars

-----------------------------------------------------------------------------
\* Type invariant.
TypeOK ==
  /\ queue \in [Priority -> Seq(Job)]
  /\ max_running_jobs \in [Priority -> Nat]
  /\ num_running_jobs \in Nat
  /\ running \subseteq Job
  /\ loops \in 0 .. MaxLoops

\* num_running_jobs_ is kept by hand in five places; it is always the number
\* of jobs that were started and did not finish, so a slot is neither lost nor
\* used twice.
RunningJobsAreCounted ==
  /\ IsFiniteSet(running)
  /\ num_running_jobs = Cardinality(running)

\* A job is in one place: it is never queued twice, under one priority or
\* under two, and never queued while it runs.
JobInOnePlace ==
  /\ running \intersect Values(queue) = {}
  /\ NoDuplicates(queue)

\* A higher priority may use every slot a lower one may use.  OnJobFinished
\* tries only the first job of the highest non-empty list; that nothing of a
\* lower priority is left waiting for the slot rests on this.
HigherMayUseMore ==
  \A p, r \in Priority : p <= r => max_running_jobs[p] <= max_running_jobs[r]

\* The message of ChangePriority's DCHECK, "Job should not be in queue when
\* limits permit it to start": with no SetLimits loop on the stack, no method
\* leaves a job waiting for a slot that it may use.
NoStartableJobQueued ==
  loops = 0 =>
    \A p \in Priority :
       queue[p] # << >> => num_running_jobs >= max_running_jobs[p]

\* The same DCHECK as the header's comment on the class has it: "It is safe to
\* execute any method, including destructor, from within Job::Start."  A Start
\* called from the loop of SetLimits may call ChangePriority as well.
\* Stated, and not true of the code: README, section 5.
ChangePriorityIsSafeFromStart ==
  \A p \in Priority :
     queue[p] # << >> => num_running_jobs >= max_running_jobs[p]

\* HostResolverImpl restores the limits it read with GetLimits before it set
\* them to zero: SetLimits(GetLimits()) gives back max_running_jobs_.
LimitsRoundTrip == MaxRunningJobs(GetLimits) = max_running_jobs

\* "Dispatch order is by priority (highest first) and then FIFO": when the end
\* of a job lets a queued job start, that job is ahead of every job left in
\* the queue.
DispatchOrder ==
  [][\A job \in Values(queue) \intersect running' :
       running \ running' # {} =>
         \A other \in Values(queue') :
           LET p == PriorityOf(queue, job)
               r == PriorityOf(queue, other)
           IN  \/ r < p
               \/ /\ r = p
                  /\ IndexOf(queue[p], job) < IndexOf(queue[p], other)]_vars

-----------------------------------------------------------------------------
\* Without AddAtHead nothing overtakes a job of the highest priority.
NextInOrder ==
  \/ \E job \in Job, p \in Priority : Add(job, p) \/ ChangePriority(job, p)
  \/ \E job \in Job : Cancel(job) \/ OnJobFinished(job)
  \/ \E limits \in Limits : SetLimits(limits)
  \/ EvictOldestLowest
  \/ SetLimitsToZero
  \/ SetLimitsLoop

\* A job must call OnJobFinished once it finishes, and a Start returns.
FairSpec ==
  /\ Init /\ [][NextInOrder]_vars
  /\ \A job \in Job : WF_vars(OnJobFinished(job))
  /\ WF_vars(SetLimitsLoop)

\* No job of the highest priority waits forever, unless the limits leave no
\* slot at all: every slot that is released reaches the head of its list.
HighestIsServed ==
  \A job \in Job :
    job \in ToSet(queue[Highest])
      ~> (job \notin ToSet(queue[Highest]) \/ max_running_jobs[Highest] = 0)

=============================================================================
