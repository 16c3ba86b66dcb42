------------------------- MODULE HostResolverProofs -------------------------
(***************************************************************************)
(* Nothing the resolver runs or caches is stale, and jobs and requests     *)
(* agree, for any requests, keys, limits and scenarios.  What the calls on *)
(* the stack have still to do is told by the set of them: their order      *)
(* matters in one place only.                                              *)
(***************************************************************************)
EXTENDS HostResolver, PriorityQueueProofs, FiniteSetTheorems

Result == {"ok", "failed", "evicted", "cancelled", "network changed"}

Jobs ==
  [status : {"unborn", "alive", "deleted"}, key : Key, prio : Priority,
   requests : Seq(Request), popped : Nat, handle : BOOLEAN, slots : Nat,
   task : {"none", "dns", "proc"}, a : {"none", "started", "done"},
   aaaa : {"none", "started", "done"}, dns_error : BOOLEAN, since : Nat]

Requests ==
  [state : {"new", "busy", "pending", "dropped"} \cup Result,
   job : Request \cup {NoRequest}, prio : Priority]

IsSeq(s) == \E S : s \in Seq(S)

Typed ==
  /\ queue \in [Priority -> Seq(Slot)]
  /\ jobs \in [Key -> Request \cup {NoRequest}]
  /\ job \in [Request -> Jobs]
  /\ req \in [Request -> Requests]
  /\ cache \in [Key -> Int]
  /\ around \in [changes : Nat, scenario : Scenarios]
  /\ IsSeq(calls)

\* The jobs that were created.
Born == {j \in Request : job[j].status # "unborn"}

\* The calls that are for one job, and those for several.
ForOne == {"clear handle", "overflow", "attach", "complete", "finish slot", "callbacks",
           "start proc", "second", "destroy", "destroy orphan", "hosts"}
ForMany == {"abort", "abort dns"}

\* A call is for jobs that were created.
FrameIsBorn(f, born) ==
  /\ f.call = "start" => f.slot \in born \X {1, 2}
  /\ f.call \in ForOne => f.j \in born
  /\ f.call \in ForMany => f.js \in Seq(born)
  /\ f.call \in {"complete", "callbacks"} => f.result \in Result

Frames == ToSet(calls)

OnlyBorn ==
  /\ Values(queue) \subseteq Born \X {1, 2}
  /\ \A f \in Frames : FrameIsBorn(f, Born)

\* A request that was not made has no job, a job that was not created has no
\* task, one that is gone no requests, and who waits does so for one.
Lives ==
  \A r \in Request :
    /\ req[r].state = "new" => job[r].status = "unborn"
    /\ job[r].status # "alive" => job[r].requests = <<>>
    /\ job[r].status = "unborn" => job[r].task = "none"
    /\ req[r].state = "pending" => req[r].job \in Born

\* jobs_ has jobs that are alive, at their keys.
JobsAreRight ==
  \A k \in Key : jobs[k] # NoRequest => jobs[k] \in Alive /\ job[jobs[k]].key = k

\* The jobs that a call deletes, or has deleted; jobs_ does not have them.
Leaves(f) ==
  CASE f.call \in {"callbacks", "destroy", "destroy orphan"} -> {f.j}
    [] f.call = "abort" -> ToSet(f.js)
    [] OTHER -> {}
Left == \A f \in Frames : \A k \in Key : jobs[k] \notin Leaves(f)

\* Nor will they be put there: a job enters jobs_ once, before anything deletes it,
\* and what does so in between is above it on the stack.
Enters(f) == f.call \in {"overflow", "attach"}
Claims(f) == Leaves(f) \cup (IF Enters(f) THEN {f.j} ELSE {})
First(c) ==
  \A i, k \in DOMAIN c : i < k /\ Enters(c[i]) => c[i].j \notin Claims(c[k])
EntersFirst == First(calls)

\* The calls that will put a job into jobs_, or delete it.
Owns(f, j) ==
  \/ f.call = "overflow" /\ f.j = j
  \/ f.call = "attach" /\ f.j = j /\ f.evicted # j
  \/ f.call = "complete" /\ f.j = j
  \/ j \in Leaves(f)
Known == \A j \in Alive : jobs[job[j].key] = j \/ \E f \in Frames : Owns(f, j)

\* The calls that end the tasks of a job.
Ends(f, j) ==
  f.call # "callbacks" /\ ((f.call = "complete" /\ f.j = j) \/ j \in Leaves(f))

OldAreEnded ==
  \A j \in Alive : IsRunning(j) /\ job[j].since # changes => \E f \in Frames : Ends(f, j)

\* What the calls on the stack will use, or report, is of now.
Fresh(f, j) ==
  \/ f.call \in {"complete", "callbacks"} /\ f.j = j /\ f.result = "ok"
  \/ f.call = "start proc" /\ f.j = j
  \/ f.call = "abort dns" /\ j \in ToSet(f.js)
UsesAreFresh ==
  \A j \in Alive : (\E f \in Frames : Fresh(f, j)) => job[j].since = changes

CacheIsFresh == \A k \in Key : cache[k] \in {-1, changes}

\* Without a configuration there is a call that ends the DnsTask.
DnsIsEnded ==
  \A j \in Alive : job[j].task = "dns" /\ config # "on" =>
    \E f \in Frames : Ends(f, j) \/ (f.call = "abort dns" /\ j \in ToSet(f.js))

\* A request that waits is in the list of its job, once, and in no other.
ListsAreRight ==
  \A j \in Request :
    /\ IsInjective(job[j].requests)
    /\ \A r \in Request : r \in ToSet(job[j].requests) <=>
                            req[r].state = "pending" /\ req[r].job = j

\* One that Resolve has not told yet has its call on the stack.
BusyEnter ==
  \A r \in Request : req[r].state = "busy" <=> \E f \in Frames : Enters(f) /\ f.j = r

\* A job without requests is about to get one, or to be deleted.
EmptyAreOwned ==
  \A j \in Alive : job[j].requests = <<>> => \E f \in Frames : Owns(f, j)

\* A job that told some of its requests is telling the others.
Tells(f, j) == f.call = "callbacks" /\ f.j = j
PoppedAreTold == \A j \in Alive : job[j].popped > 0 => \E f \in Frames : Tells(f, j)

JoinInv == ListsAreRight /\ BusyEnter /\ EmptyAreOwned /\ PoppedAreTold

ResolverInv ==
  /\ JoinInv /\ Typed /\ OnlyBorn /\ Lives /\ JobsAreRight /\ Left /\ EntersFirst /\ Known
  /\ OldAreEnded /\ UsesAreFresh /\ CacheIsFresh /\ DnsIsEnded

-----------------------------------------------------------------------------
(* The dispatcher.                                                         *)

\* The queue of the dispatcher is that of PriorityQueue.
LEMMA SameQueue ==
  /\ \A q : D!Values(q) = Values(q)
  /\ \A q : D!empty(q) <=> empty(q)
  /\ \A q : D!FirstMax(q) = FirstMax(q)
  /\ \A q : D!FirstMin(q) = FirstMin(q)
  /\ \A q, v : D!PriorityOf(q, v) = PriorityOf(q, v)
  /\ \A q, v : D!Erase(q, v) = Erase(q, v)
  /\ \A q, v, p : D!Insert(q, v, p) = Insert(q, v, p)
  /\ \A q, v, p : D!InsertAtFront(q, v, p) = InsertAtFront(q, v, p)
  /\ D!Priority = Priority
  /\ \A P : D!EmptyQueue(P) = EmptyQueue(P)
<1>1. \A q : D!Values(q) = Values(q)
  BY DEF D!Values, Values, D!ToSet, ToSet
<1>2. \A q : D!empty(q) <=> empty(q)
  BY DEF D!empty, empty
<1>3. \A q : D!FirstMax(q) = FirstMax(q)
  BY DEF D!FirstMax, FirstMax, D!Max, Max, D!NonEmpty, NonEmpty
<1>4. \A q : D!FirstMin(q) = FirstMin(q)
  BY DEF D!FirstMin, FirstMin, D!Min, Min, D!NonEmpty, NonEmpty
<1>5. \A q, v : D!PriorityOf(q, v) = PriorityOf(q, v)
  BY DEF D!PriorityOf, PriorityOf, D!ToSet, ToSet
<1>6. \A s, v : D!IndexOf(s, v) = IndexOf(s, v)
  BY DEF D!IndexOf, IndexOf
<1>7. \A q, v : D!Erase(q, v) = Erase(q, v)
  BY <1>5, <1>6 DEF D!Erase, Erase, D!RemoveAt, RemoveAt
<1>8. \A q, v, p : /\ D!Insert(q, v, p) = Insert(q, v, p)
                   /\ D!InsertAtFront(q, v, p) = InsertAtFront(q, v, p)
  BY DEF D!Insert, Insert, D!InsertAtFront, InsertAtFront
<1>9. D!Priority = Priority /\ \A P : D!EmptyQueue(P) = EmptyQueue(P)
  BY DEF D!Priority, Priority, D!EmptyQueue, EmptyQueue
<1> QED BY <1>1, <1>2, <1>3, <1>4, <1>5, <1>7, <1>8, <1>9

\* What a method of the dispatcher may do: it keeps and starts what is in T.
DispatcherDoes(T) ==
  /\ queue' \in [Priority -> Seq(Slot)]
  /\ Values(queue') \subseteq T
  /\ \A s \in running' \ running : s \in T
  /\ \E x : running' \ running \subseteq {x}

\* The dispatcher's first and last job.
LEMMA QueueEnds ==
  ASSUME queue \in [Priority -> Seq(Slot)], ~ empty(queue)
  PROVE  FirstMax(queue) \in Values(queue) /\ FirstMin(queue) \in Values(queue)
<1>1. NumPriorities - 1 \in Nat /\ Priority = 0 .. (NumPriorities - 1)
  BY HostResolverAssumption DEF Priority
<1> QED BY <1>1, FirstMaxProperties, FirstMinProperties

\* MaybeDispatchNextJob starts nothing that is not in the queue.
LEMMA Dispatching ==
  ASSUME queue \in [Priority -> Seq(Slot)], NEW n, NEW r, r \subseteq running, NEW max,
         D!MaybeDispatchNextJob(n, r, max)
  PROVE  DispatcherDoes(Values(queue))
<1>1. CASE D!NextJobMayStart(n, max)
  <2>1. ~ empty(queue)
    BY <1>1, SameQueue DEF D!NextJobMayStart
  <2>2. FirstMax(queue) \in Values(queue)
    BY <2>1, QueueEnds
  <2>3. queue' = Erase(queue, FirstMax(queue)) /\ running' = r \cup {FirstMax(queue)}
    BY <1>1, SameQueue DEF D!MaybeDispatchNextJob
  <2>4. queue' \in [Priority -> Seq(Slot)] /\ Values(queue') \subseteq Values(queue)
    BY <2>2, <2>3, EraseProperties
  <2>5. running' \ running \subseteq {FirstMax(queue)}
    BY <2>3
  <2> QED BY <2>2, <2>4, <2>5 DEF DispatcherDoes
<1>2. CASE ~ D!NextJobMayStart(n, max)
  BY <1>2 DEF D!MaybeDispatchNextJob, DispatcherDoes
<1> QED BY <1>1, <1>2

\* Add and AddAtHead.
LEMMA Adding ==
  ASSUME queue \in [Priority -> Seq(Slot)], NEW s \in Slot, NEW p \in Priority,
         D!Add(s, p) \/ D!AddAtHead(s, p)
  PROVE  DispatcherDoes(Values(queue) \cup {s})
<1>1. \/ running' = running \cup {s} /\ queue' = queue
      \/ queue' = Insert(queue, s, p) /\ running' = running
      \/ queue' = InsertAtFront(queue, s, p) /\ running' = running
  BY SameQueue DEF D!Add, D!AddAtHead, D!AddTo
<1>2. /\ Insert(queue, s, p) \in [Priority -> Seq(Slot)]
      /\ Values(Insert(queue, s, p)) = Values(queue) \cup {s}
  BY InsertProperties
<1>4. /\ InsertAtFront(queue, s, p) \in [Priority -> Seq(Slot)]
      /\ Values(InsertAtFront(queue, s, p)) = Values(queue) \cup {s}
  BY InsertAtFrontProperties
<1>5. /\ queue' \in [Priority -> Seq(Slot)] /\ Values(queue') \subseteq Values(queue) \cup {s}
  BY <1>1, <1>2, <1>4
<1>3. running' \ running \subseteq {s}
  BY <1>1
<1> QED BY <1>3, <1>5 DEF DispatcherDoes

\* A job is put into another list.
LEMMA Moving ==
  ASSUME NEW P, NEW V, NEW q \in [P -> Seq(V)], NEW v \in Values(q), NEW p \in P
  PROVE  /\ Insert(Erase(q, v), v, p) \in [P -> Seq(V)]
         /\ Values(Insert(Erase(q, v), v, p)) = Values(q)
<1>1. PICK e : e = Erase(q, v)
  OBVIOUS
<1>2. e \in [P -> Seq(V)] /\ Values(q) = Values(e) \cup {v}
  BY <1>1, EraseProperties
<1>3. v \in V
  BY ValuesType
<1>4. PICK n : n = Insert(e, v, p)
  OBVIOUS
<1>5. /\ n \in [P -> Seq(V)] /\ Values(n) = Values(e) \union {v}
      /\ NoDuplicates(e) /\ v \notin Values(e) => NoDuplicates(n)
  BY <1>2, <1>3, <1>4, InsertProperties
<1> QED BY <1>1, <1>2, <1>4, <1>5

\* ChangePriority.
LEMMA Rescheduling ==
  ASSUME queue \in [Priority -> Seq(Slot)], NEW s, NEW p \in Priority, D!ChangePriority(s, p)
  PROVE  DispatcherDoes(Values(queue))
<1>1. /\ s \in Values(queue)
      /\ \/ queue' = Erase(queue, s) /\ running' = running \cup {s}
         \/ queue' = Insert(Erase(queue, s), s, p) /\ running' = running
  BY SameQueue DEF D!ChangePriority
<1>3. PICK q : q = Erase(queue, s)
  OBVIOUS
<1>4. q \in [Priority -> Seq(Slot)] /\ Values(queue) = Values(q) \cup {s}
  BY <1>1, <1>3, EraseProperties
<1>5. /\ Insert(Erase(queue, s), s, p) \in [Priority -> Seq(Slot)]
      /\ Values(Insert(Erase(queue, s), s, p)) = Values(queue)
  BY <1>1, Moving
<1>6. queue' \in [Priority -> Seq(Slot)] /\ Values(queue') \subseteq Values(queue)
  BY <1>1, <1>3, <1>4, <1>5
<1>7. running' \ running \subseteq {s}
  BY <1>1
<1> QED BY <1>1, <1>6, <1>7 DEF DispatcherDoes

\* The methods that take nothing new.
LEMMA Taking ==
  ASSUME queue \in [Priority -> Seq(Slot)],
         \/ \E s : D!Cancel(s) \/ D!OnJobFinished(s)
         \/ \E s, p : p \in Priority /\ D!ChangePriority(s, p)
         \/ D!EvictOldestLowest \/ D!SetLimitsToZero \/ D!SetLimitsLoop
         \/ \E limits : D!SetLimits(limits)
         \/ UNCHANGED dispatcher
  PROVE  DispatcherDoes(Values(queue))
<1>1. ASSUME NEW s, D!Cancel(s) PROVE DispatcherDoes(Values(queue))
  <2>1. s \in Values(queue) /\ queue' = Erase(queue, s) /\ running' = running
    BY <1>1, SameQueue DEF D!Cancel
  <2>2. queue' \in [Priority -> Seq(Slot)] /\ Values(queue') \subseteq Values(queue)
    BY <2>1, EraseProperties
  <2> QED BY <2>1, <2>2 DEF DispatcherDoes
<1>2. ASSUME NEW s, D!OnJobFinished(s) PROVE DispatcherDoes(Values(queue))
  <2>1. D!MaybeDispatchNextJob(num_running_jobs - 1, running \ {s}, max_running_jobs)
    BY <1>2 DEF D!OnJobFinished
  <2> QED BY <2>1, Dispatching
<1>3. ASSUME NEW s, NEW p \in Priority, D!ChangePriority(s, p)
      PROVE  DispatcherDoes(Values(queue))
  BY <1>3, Rescheduling
<1>4. ASSUME D!EvictOldestLowest PROVE DispatcherDoes(Values(queue))
  <2>1. ~ empty(queue) /\ queue' = Erase(queue, FirstMin(queue)) /\ running' = running
    BY <1>4, SameQueue DEF D!EvictOldestLowest
  <2>2. queue' \in [Priority -> Seq(Slot)] /\ Values(queue') \subseteq Values(queue)
    BY <2>1, QueueEnds, EraseProperties
  <2> QED BY <2>1, <2>2 DEF DispatcherDoes
<1>5. ASSUME NEW limits, D!SetLimits(limits) PROVE DispatcherDoes(Values(queue))
  <2>1. D!MaybeDispatchNextJob(num_running_jobs, running, D!MaxRunningJobs(limits))
    BY <1>5 DEF D!SetLimits
  <2> QED BY <2>1, Dispatching
<1>6. ASSUME D!SetLimitsLoop PROVE DispatcherDoes(Values(queue))
  <2>1. D!MaybeDispatchNextJob(num_running_jobs, running, max_running_jobs)
    BY <1>6 DEF D!SetLimitsLoop
  <2> QED BY <2>1, Dispatching
<1>7. ASSUME UNCHANGED dispatcher PROVE DispatcherDoes(Values(queue))
  BY <1>7 DEF DispatcherDoes, dispatcher
<1>8. D!SetLimitsToZero => \E limits : D!SetLimits(limits)
  BY DEF D!SetLimitsToZero
<1> QED BY <1>1, <1>2, <1>3, <1>4, <1>5, <1>6, <1>7, <1>8

-----------------------------------------------------------------------------
(* The stack.                                                              *)

\* Sequences of calls that are put together.
LEMMA Joining ==
  ASSUME NEW s, IsSeq(s), NEW t, IsSeq(t)
  PROVE  /\ IsSeq(s \o t) /\ Len(s \o t) = Len(s) + Len(t)
         /\ DOMAIN s = 1 .. Len(s) /\ Len(s) \in Nat
         /\ \A i \in 1 .. Len(s) + Len(t) :
              (s \o t)[i] = IF i <= Len(s) THEN s[i] ELSE t[i - Len(s)]
         /\ ToSet(s \o t) = ToSet(s) \cup ToSet(t)
<1>1. PICK S : s \in Seq(S)
  BY DEF IsSeq
<1>2. PICK T : t \in Seq(T)
  BY DEF IsSeq
<1>3. s \in Seq(S \cup T) /\ t \in Seq(S \cup T)
  BY <1>1, <1>2, SeqMonotonic
<1>4. /\ s \o t \in Seq(S \cup T) /\ Len(s \o t) = Len(s) + Len(t)
      /\ \A i \in 1 .. Len(s) + Len(t) :
              (s \o t)[i] = IF i <= Len(s) THEN s[i] ELSE t[i - Len(s)]
  BY <1>3, ConcatProperties
<1>5. /\ DOMAIN s = 1 .. Len(s) /\ Len(s) \in Nat
      /\ DOMAIN t = 1 .. Len(t) /\ Len(t) \in Nat
      /\ DOMAIN (s \o t) = 1 .. Len(s) + Len(t)
  BY <1>3, <1>4, LenProperties
<1>6. ToSet(s \o t) \subseteq ToSet(s) \cup ToSet(t)
  <2> SUFFICES ASSUME NEW i \in 1 .. Len(s) + Len(t)
               PROVE  (s \o t)[i] \in ToSet(s) \cup ToSet(t)
    BY <1>5 DEF ToSet
  <2>1. CASE i <= Len(s)
    <3>1. i \in 1 .. Len(s) /\ (s \o t)[i] = s[i]
      BY <2>1, <1>4, <1>5
    <3> QED BY <3>1, <1>5 DEF ToSet
  <2>2. CASE ~ (i <= Len(s))
    <3>1. i - Len(s) \in 1 .. Len(t) /\ (s \o t)[i] = t[i - Len(s)]
      BY <2>2, <1>4, <1>5
    <3> QED BY <3>1, <1>5 DEF ToSet
  <2> QED BY <2>1, <2>2
<1>7. ASSUME NEW i \in 1 .. Len(s) PROVE s[i] \in ToSet(s \o t)
  <2>1. i \in 1 .. Len(s) + Len(t) /\ (s \o t)[i] = s[i]
    BY <1>4, <1>5
  <2> QED BY <2>1, <1>5 DEF ToSet
<1>8. ASSUME NEW i \in 1 .. Len(t) PROVE t[i] \in ToSet(s \o t)
  <2>1. i + Len(s) \in 1 .. Len(s) + Len(t) /\ (s \o t)[i + Len(s)] = t[i]
    BY <1>4, <1>5
  <2> QED BY <2>1, <1>5 DEF ToSet
<1>9. ToSet(s \o t) = ToSet(s) \cup ToSet(t)
  BY <1>5, <1>6, <1>7, <1>8 DEF ToSet
<1> QED BY <1>4, <1>5, <1>9 DEF IsSeq

\* Short sequences.
LEMMA Short ==
  /\ IsSeq(<<>>) /\ ToSet(<<>>) = {} /\ Len(<<>>) = 0
  /\ \A x : IsSeq(<<x>>) /\ ToSet(<<x>>) = {x} /\ Len(<<x>>) = 1 /\ <<x>>[1] = x
  /\ \A x, y : /\ IsSeq(<<x, y>>) /\ ToSet(<<x, y>>) = {x, y} /\ Len(<<x, y>>) = 2
               /\ <<x, y>>[1] = x /\ <<x, y>>[2] = y
<1>1. IsSeq(<<>>) /\ ToSet(<<>>) = {} /\ Len(<<>>) = 0
  <2>1. <<>> \in Seq({}) /\ Len(<<>>) = 0 /\ DOMAIN <<>> = {}
    BY EmptySeq, LenProperties
  <2> QED BY <2>1 DEF IsSeq, ToSet
<1>2. ASSUME NEW x PROVE IsSeq(<<x>>) /\ ToSet(<<x>>) = {x} /\ Len(<<x>>) = 1 /\ <<x>>[1] = x
  <2>1. <<x>> \in Seq({x}) /\ Len(<<x>>) = 1 /\ DOMAIN <<x>> = {1} /\ <<x>>[1] = x
    OBVIOUS
  <2> QED BY <2>1 DEF IsSeq, ToSet
<1>3. ASSUME NEW x, NEW y
      PROVE  /\ IsSeq(<<x, y>>) /\ ToSet(<<x, y>>) = {x, y} /\ Len(<<x, y>>) = 2
             /\ <<x, y>>[1] = x /\ <<x, y>>[2] = y
  <2>1. /\ <<x, y>> \in Seq({x, y}) /\ Len(<<x, y>>) = 2 /\ DOMAIN <<x, y>> = {1, 2}
        /\ <<x, y>>[1] = x /\ <<x, y>>[2] = y
    OBVIOUS
  <2> QED BY <2>1 DEF IsSeq, ToSet
<1> QED BY <1>1, <1>2, <1>3

\* The empty list has no two equal members.
LEMMA EmptyIsInjective == IsInjective(<<>>)
<1>1. <<>> \in Seq({}) /\ Len(<<>>) = 0 /\ DOMAIN <<>> = {}
  BY EmptySeq, LenProperties
<1> QED BY <1>1 DEF IsInjective

\* The first call and the others.
LEMMA Popping ==
  ASSUME NEW s, IsSeq(s), s # <<>>
  PROVE  /\ IsSeq(Tail(s)) /\ Len(s) \in Nat /\ Len(s) > 0 /\ Len(Tail(s)) = Len(s) - 1
         /\ DOMAIN s = 1 .. Len(s) /\ DOMAIN Tail(s) = 1 .. Len(s) - 1
         /\ \A i \in 1 .. Len(s) - 1 : Tail(s)[i] = s[i + 1]
         /\ s = <<Head(s)>> \o Tail(s) /\ Head(s) = s[1]
         /\ ToSet(s) = {Head(s)} \cup ToSet(Tail(s))
<1>1. PICK S : s \in Seq(S)
  BY DEF IsSeq
<1>2. /\ Head(s) \in S /\ Tail(s) \in Seq(S) /\ s = <<Head(s)>> \o Tail(s)
      /\ Len(Tail(s)) = Len(s) - 1 /\ Head(s) = s[1]
      /\ \A i \in 1 .. Len(Tail(s)) : Tail(s)[i] = s[i + 1]
  BY <1>1, HeadTailProperties
<1>3. /\ DOMAIN s = 1 .. Len(s) /\ Len(s) \in Nat /\ Len(s) > 0
      /\ DOMAIN Tail(s) = 1 .. Len(Tail(s))
  BY <1>1, <1>2, LenProperties, EmptySeq
<1>4. ToSet(s) = {Head(s)} \cup ToSet(Tail(s))
  <2>1. IsSeq(<<Head(s)>>) /\ IsSeq(Tail(s)) /\ ToSet(<<Head(s)>>) = {Head(s)}
    BY <1>2, Short DEF IsSeq
  <2> QED BY <1>2, <2>1, Joining
<1> QED BY <1>2, <1>3, <1>4 DEF IsSeq

\* Calls that are put on the stack: those that put a job into jobs_ come last.
LEMMA FirstOfBoth ==
  ASSUME NEW s, IsSeq(s), NEW t, IsSeq(t), First(t),
         \A i \in DOMAIN s : Enters(s[i]) =>
           i = Len(s) /\ \A g \in ToSet(t) : s[i].j \notin Claims(g)
  PROVE  First(s \o t)
<1>1. /\ DOMAIN s = 1 .. Len(s) /\ Len(s) \in Nat
      /\ DOMAIN t = 1 .. Len(t) /\ Len(t) \in Nat
      /\ IsSeq(s \o t) /\ Len(s \o t) = Len(s) + Len(t)
      /\ DOMAIN (s \o t) = 1 .. Len(s) + Len(t)
      /\ \A i \in 1 .. Len(s) + Len(t) :
           (s \o t)[i] = IF i <= Len(s) THEN s[i] ELSE t[i - Len(s)]
  <2>1. IsSeq(s \o t) /\ Len(s \o t) = Len(s) + Len(t)
    BY Joining
  <2>2. DOMAIN (s \o t) = 1 .. Len(s \o t)
    BY <2>1, Joining
  <2> QED BY <2>1, <2>2, Joining
<1> SUFFICES ASSUME NEW i \in DOMAIN (s \o t), NEW k \in DOMAIN (s \o t), i < k,
                    Enters((s \o t)[i])
             PROVE  (s \o t)[i].j \notin Claims((s \o t)[k])
  BY DEF First
<1>2. CASE i <= Len(s)
  <2>1. i \in DOMAIN s /\ (s \o t)[i] = s[i] /\ Enters(s[i])
    BY <1>1, <1>2
  <2>2. i = Len(s) /\ \A g \in ToSet(t) : s[i].j \notin Claims(g)
    BY <2>1
  <2>3. k - Len(s) \in DOMAIN t /\ (s \o t)[k] = t[k - Len(s)]
    BY <1>1, <2>2
  <2>4. (s \o t)[k] \in ToSet(t)
    BY <2>3 DEF ToSet
  <2> QED BY <2>1, <2>2, <2>4
<1>3. CASE ~ (i <= Len(s))
  <2>1. /\ i - Len(s) \in DOMAIN t /\ k - Len(s) \in DOMAIN t /\ i - Len(s) < k - Len(s)
        /\ (s \o t)[i] = t[i - Len(s)] /\ (s \o t)[k] = t[k - Len(s)]
    BY <1>1, <1>3
  <2> QED BY <2>1 DEF First
<1> QED BY <1>2, <1>3

\* What is below the first call.
LEMMA FirstOfRest ==
  ASSUME NEW s, IsSeq(s), s # <<>>, First(s)
  PROVE  /\ First(Tail(s))
         /\ Enters(Head(s)) => \A g \in ToSet(Tail(s)) : Head(s).j \notin Claims(g)
<1>1. /\ Len(s) \in Nat /\ Len(s) > 0 /\ DOMAIN s = 1 .. Len(s)
      /\ DOMAIN Tail(s) = 1 .. Len(s) - 1 /\ Head(s) = s[1]
      /\ \A i \in 1 .. Len(s) - 1 : Tail(s)[i] = s[i + 1]
  BY Popping
<1>2. First(Tail(s))
  <2> SUFFICES ASSUME NEW i \in 1 .. Len(s) - 1, NEW k \in 1 .. Len(s) - 1, i < k,
                      Enters(Tail(s)[i])
               PROVE  Tail(s)[i].j \notin Claims(Tail(s)[k])
    BY <1>1 DEF First
  <2>1. /\ i + 1 \in DOMAIN s /\ k + 1 \in DOMAIN s /\ i + 1 < k + 1
        /\ Tail(s)[i] = s[i + 1] /\ Tail(s)[k] = s[k + 1]
    BY <1>1
  <2> QED BY <2>1 DEF First
<1>3. ASSUME Enters(Head(s)), NEW g \in ToSet(Tail(s)) PROVE Head(s).j \notin Claims(g)
  <2>1. PICK k \in 1 .. Len(s) - 1 : g = Tail(s)[k]
    BY <1>1 DEF ToSet
  <2>2. 1 \in DOMAIN s /\ k + 1 \in DOMAIN s /\ 1 < k + 1 /\ g = s[k + 1]
    BY <1>1, <2>1
  <2> QED BY <1>1, <1>3, <2>2 DEF First
<1> QED BY <1>2, <1>3

\* The calls in H were replaced by those in N, and other calls are still there.
Replaced(H, N) ==
  /\ IsSeq(calls') /\ EntersFirst'
  /\ \E R : Frames = R \cup H /\ Frames' = R \cup N

\* A call returns, and others are made in its place.
LEMMA Returning ==
  ASSUME IsSeq(calls), EntersFirst, calls # <<>>, NEW new, IsSeq(new),
         calls' = new \o Rest,
         \A i \in DOMAIN new : Enters(new[i]) =>
           i = Len(new) /\ Enters(Head(calls)) /\ new[i].j = Head(calls).j
  PROVE  Replaced({Head(calls)}, ToSet(new))
<1>1. /\ IsSeq(Rest) /\ Frames = ToSet(Rest) \cup {Head(calls)}
  BY Popping DEF Frames, Rest
<1>2. IsSeq(calls') /\ Frames' = ToSet(Rest) \cup ToSet(new)
  BY <1>1, Joining DEF Frames
<1>3. /\ First(Rest)
      /\ Enters(Head(calls)) => \A g \in ToSet(Rest) : Head(calls).j \notin Claims(g)
  BY FirstOfRest DEF EntersFirst, Rest
<1>4. \A i \in DOMAIN new : Enters(new[i]) =>
        i = Len(new) /\ \A g \in ToSet(Rest) : new[i].j \notin Claims(g)
  BY <1>3
<1>5. EntersFirst'
  BY <1>1, <1>3, <1>4, FirstOfBoth DEF EntersFirst
<1> QED BY <1>1, <1>2, <1>5 DEF Replaced

\* Calls are made on top of the others.
LEMMA Stacking ==
  ASSUME IsSeq(calls), EntersFirst, NEW new, IsSeq(new), calls' = new \o calls,
         \A i \in DOMAIN new : Enters(new[i]) =>
           i = Len(new) /\ \A g \in Frames : new[i].j \notin Claims(g)
  PROVE  Replaced({}, ToSet(new))
<1>1. IsSeq(calls') /\ Frames' = Frames \cup ToSet(new)
  BY Joining DEF Frames
<1>2. EntersFirst'
  BY FirstOfBoth DEF EntersFirst, Frames
<1> QED BY <1>1, <1>2 DEF Replaced

\* Calls are made from the message loop.
LEMMA Beginning ==
  ASSUME Ready, NEW new, IsSeq(new), calls' = new, \A f \in ToSet(new) : ~ Enters(f)
  PROVE  Replaced({}, ToSet(new)) /\ Frames = {} /\ Frames' = ToSet(new)
<1>1. Frames = {} /\ Frames' = ToSet(new)
  BY Short DEF Frames, Ready
<1>2. EntersFirst'
  BY DEF EntersFirst, First, ToSet
<1> QED BY <1>1, <1>2 DEF Replaced

\* Nothing happens to the calls.
LEMMA Staying ==
  ASSUME IsSeq(calls), EntersFirst, calls' = calls
  PROVE  Replaced({}, {})
BY DEF Replaced, EntersFirst, Frames

\* The Start that the dispatcher calls, if any.
LEMMA StartedIs ==
  ASSUME NEW T, DispatcherDoes(T)
  PROVE  IsSeq(Started) /\ \A f \in ToSet(Started) : \E s \in T : f = Start(s)
<1>1. PICK x : running' \ running \subseteq {x}
  BY DEF DispatcherDoes
<1> DEFINE StartedOf(d) == [i \in 1 .. Cardinality(d) |-> Start(CHOOSE s \in d : TRUE)]
<1>2. Started = StartedOf(running' \ running)
  BY DEF Started
<1>3. CASE running' \ running = {}
  <2>1. StartedOf({}) = <<>>
    <3>1. Cardinality({}) = 0
      BY FS_EmptySet
    <3> QED BY <3>1
  <2> HIDE DEF StartedOf
  <2>2. Started = <<>>
    BY <1>2, <1>3, <2>1
  <2> QED BY <2>2, Short
<1>4. CASE running' \ running # {}
  <2>1. running' \ running = {x} /\ x \in T
    BY <1>1, <1>4 DEF DispatcherDoes
  <2>2. StartedOf({x}) = <<Start(x)>>
    <3>1. Cardinality({x}) = 1
      BY FS_Singleton
    <3>2. (CHOOSE s \in {x} : TRUE) = x
      OBVIOUS
    <3>3. StartedOf({x}) = [i \in 1 .. 1 |-> Start(x)]
      BY <3>1, <3>2
    <3> QED BY <3>3
  <2> HIDE DEF StartedOf
  <2>3. Started = <<Start(x)>>
    BY <1>2, <2>1, <2>2
  <2> QED BY <2>1, <2>3, Short
<1> QED BY <1>3, <1>4

\* A call that neither moves nor ends a job, nor relies on what it looks up.
Idle(f) ==
  /\ ~ Enters(f) /\ Leaves(f) = {}
  /\ \A i : ~ Owns(f, i) /\ ~ Ends(f, i) /\ ~ Fresh(f, i)
  /\ f.call # "abort dns"

\* The calls, one by one.
LEMMA IdleCalls ==
  /\ \A s : Idle(Start(s)) /\ \A B : FrameIsBorn(Start(s), B) <=> s \in B \X {1, 2}
  /\ \A j : /\ Idle(ClearHandle(j)) /\ Idle(FinishSlot(j)) /\ Idle(Second(j)) /\ Idle(Hosts(j))
            /\ \A B : /\ FrameIsBorn(ClearHandle(j), B) <=> j \in B
                      /\ FrameIsBorn(FinishSlot(j), B) <=> j \in B
                      /\ FrameIsBorn(Second(j), B) <=> j \in B
                      /\ FrameIsBorn(Hosts(j), B) <=> j \in B
  /\ \A l : Idle(Restore(l)) /\ \A B : FrameIsBorn(Restore(l), B)
  /\ Idle(Callback) /\ Idle(LimitsLoop) /\ Idle(HostsBegin)
  /\ \A B : FrameIsBorn(Callback, B) /\ FrameIsBorn(LimitsLoop, B) /\ FrameIsBorn(HostsBegin, B)
BY DEF Idle, Enters, Leaves, Owns, Ends, Fresh, FrameIsBorn, ForOne, ForMany, Start, ClearHandle,
       FinishSlot, Second, Hosts, Restore, Callback, LimitsLoop, HostsBegin

\* The same of a call that is on the stack.
LEMMA CallsByName ==
  ASSUME NEW f
  PROVE  /\ f.call \in {"start", "clear handle", "finish slot", "second", "hosts", "restore",
                        "callback", "limits loop", "hosts begin"} => Idle(f)
         /\ f.call = "start proc" => /\ ~ Enters(f) /\ Leaves(f) = {}
                                     /\ \A i : ~ Owns(f, i) /\ ~ Ends(f, i)
                                     /\ \A i : Fresh(f, i) <=> i = f.j
         /\ f.call = "overflow" => /\ Enters(f) /\ Leaves(f) = {}
                                   /\ \A i : ~ Ends(f, i) /\ ~ Fresh(f, i)
                                   /\ \A i : Owns(f, i) <=> i = f.j
         /\ f.call = "attach" => /\ Enters(f) /\ Leaves(f) = {}
                                 /\ \A i : ~ Ends(f, i) /\ ~ Fresh(f, i)
                                 /\ \A i : Owns(f, i) <=> i = f.j /\ f.evicted # i
         /\ f.call = "complete" => /\ ~ Enters(f) /\ Leaves(f) = {}
                                   /\ \A i : Owns(f, i) <=> i = f.j
                                   /\ \A i : Ends(f, i) <=> i = f.j
                                   /\ \A i : Fresh(f, i) <=> i = f.j /\ f.result = "ok"
         /\ f.call = "callbacks" => /\ ~ Enters(f) /\ Leaves(f) = {f.j}
                                    /\ \A i : Owns(f, i) <=> i = f.j
                                    /\ \A i : ~ Ends(f, i)
                                    /\ \A i : Fresh(f, i) <=> i = f.j /\ f.result = "ok"
         /\ f.call \in {"destroy", "destroy orphan"} =>
                                    /\ ~ Enters(f) /\ Leaves(f) = {f.j}
                                    /\ \A i : Owns(f, i) <=> i = f.j
                                    /\ \A i : Ends(f, i) <=> i = f.j
                                    /\ \A i : ~ Fresh(f, i)
         /\ f.call = "abort" => /\ ~ Enters(f) /\ Leaves(f) = ToSet(f.js)
                                /\ \A i : Owns(f, i) <=> i \in ToSet(f.js)
                                /\ \A i : Ends(f, i) <=> i \in ToSet(f.js)
                                /\ \A i : ~ Fresh(f, i)
         /\ f.call = "abort dns" => /\ ~ Enters(f) /\ Leaves(f) = {}
                                    /\ \A i : ~ Owns(f, i) /\ ~ Ends(f, i)
                                    /\ \A i : Fresh(f, i) <=> i \in ToSet(f.js)
BY DEF Idle, Enters, Leaves, Owns, Ends, Fresh

\* The calls that are not idle, as they are made.
LEMMA MadeCalls ==
  /\ \A j : StartProc(j).call = "start proc" /\ StartProc(j).j = j
  /\ \A j : Overflow(j).call = "overflow" /\ Overflow(j).j = j
  /\ \A j, e : /\ Attach(j, e).call = "attach" /\ Attach(j, e).j = j
               /\ Attach(j, e).evicted = e
  /\ \A j, r : /\ Complete(j, r).call = "complete" /\ Complete(j, r).j = j
               /\ Complete(j, r).result = r
  /\ \A j, r : /\ Callbacks(j, r).call = "callbacks" /\ Callbacks(j, r).j = j
               /\ Callbacks(j, r).result = r
  /\ \A j : Destroy(j).call = "destroy" /\ Destroy(j).j = j
  /\ \A j : DestroyOrphan(j).call = "destroy orphan" /\ DestroyOrphan(j).j = j
  /\ \A js : AbortJobs(js).call = "abort" /\ AbortJobs(js).js = js
  /\ \A js : AbortDns(js).call = "abort dns" /\ AbortDns(js).js = js
BY DEF StartProc, Overflow, Attach, Complete, Callbacks, Destroy, DestroyOrphan, AbortJobs, AbortDns

\* For which jobs they are.
LEMMA BornCalls ==
  ASSUME NEW f, NEW B
  PROVE  /\ f.call = "start" => (FrameIsBorn(f, B) <=> f.slot \in B \X {1, 2})
         /\ f.call \in {"complete", "callbacks"} =>
              (FrameIsBorn(f, B) <=> f.j \in B /\ f.result \in Result)
         /\ f.call \in ForOne \ {"complete", "callbacks"} => (FrameIsBorn(f, B) <=> f.j \in B)
         /\ f.call \in ForMany => (FrameIsBorn(f, B) <=> f.js \in Seq(B))
BY DEF FrameIsBorn, ForOne, ForMany

\* Calls delete, and rely on, jobs that were created.
LEMMA CallsAreBorn ==
  ASSUME NEW f, NEW B, FrameIsBorn(f, B)
  PROVE  /\ Leaves(f) \subseteq B /\ Claims(f) \subseteq B
         /\ \A i : Fresh(f, i) => i \in B
<1>1. ASSUME NEW js \in Seq(B) PROVE ToSet(js) \subseteq B
  BY <1>1, ElementOfSeq, LenProperties DEF ToSet
<1>2. Leaves(f) \subseteq B /\ \A i : Fresh(f, i) => i \in B
  BY <1>1 DEF FrameIsBorn, ForOne, ForMany, Leaves, Fresh
<1>3. Enters(f) => f.j \in B
  BY DEF FrameIsBorn, ForOne, Enters
<1> QED BY <1>2, <1>3 DEF Claims

-----------------------------------------------------------------------------
(* The lists of requests.                                                  *)

\* A request joins a list,
LEMMA Appending ==
  ASSUME NEW S, NEW s \in Seq(S), IsInjective(s), NEW r \in S, r \notin ToSet(s)
  PROVE  /\ IsInjective(Append(s, r)) /\ ToSet(Append(s, r)) = ToSet(s) \cup {r}
         /\ Append(s, r) # <<>>
<1>1. /\ Len(s) \in Nat /\ DOMAIN s = 1 .. Len(s)
      /\ Append(s, r) \in Seq(S) /\ Len(Append(s, r)) = Len(s) + 1
      /\ \A i \in 1 .. Len(s) : Append(s, r)[i] = s[i]
      /\ Append(s, r)[Len(s) + 1] = r
  BY AppendProperties, LenProperties
<1>2. DOMAIN Append(s, r) = 1 .. Len(s) + 1
  BY <1>1, LenProperties
<1>3. PICK t : t = Append(s, r)
  OBVIOUS
<1>4. /\ DOMAIN t = 1 .. Len(s) + 1 /\ t[Len(s) + 1] = r
      /\ \A i \in 1 .. Len(s) : t[i] = s[i] /\ s[i] # r
  BY <1>1, <1>2, <1>3 DEF ToSet
<1>5. IsInjective(t)
  <2> SUFFICES ASSUME NEW a \in 1 .. Len(s) + 1, NEW b \in 1 .. Len(s) + 1, t[a] = t[b]
               PROVE  a = b
    BY <1>4 DEF IsInjective
  <2>1. (a \in 1 .. Len(s) \/ a = Len(s) + 1) /\ (b \in 1 .. Len(s) \/ b = Len(s) + 1)
    BY <1>1
  <2> QED BY <1>1, <1>4, <2>1 DEF IsInjective
<1>6. ToSet(t) = ToSet(s) \cup {r}
  <2>1. \A i \in DOMAIN t : t[i] \in ToSet(s) \cup {r}
    <3> TAKE i \in DOMAIN t
    <3>1. i \in 1 .. Len(s) \/ i = Len(s) + 1
      BY <1>1, <1>4
    <3> QED BY <1>1, <1>4, <3>1 DEF ToSet
  <2>2. \A i \in DOMAIN s : i \in DOMAIN t /\ t[i] = s[i]
    BY <1>1, <1>4
  <2>3. Len(s) + 1 \in DOMAIN t
    BY <1>1, <1>4
  <2> QED BY <1>4, <2>1, <2>2, <2>3 DEF ToSet
<1>7. t # <<>>
  BY <1>1, <1>3, Short
<1> QED BY <1>3, <1>5, <1>6, <1>7

\* the first one leaves it,
LEMMA TakingFirst ==
  ASSUME NEW s, IsSeq(s), s # <<>>, IsInjective(s)
  PROVE  IsInjective(Tail(s)) /\ ToSet(Tail(s)) = ToSet(s) \ {Head(s)} /\ Head(s) \in ToSet(s)
<1>1. /\ Len(s) \in Nat /\ Len(s) > 0 /\ DOMAIN s = 1 .. Len(s)
      /\ DOMAIN Tail(s) = 1 .. Len(s) - 1 /\ Head(s) = s[1]
      /\ \A i \in 1 .. Len(s) - 1 : Tail(s)[i] = s[i + 1]
      /\ ToSet(s) = {Head(s)} \cup ToSet(Tail(s))
  BY Popping
<1>2. ASSUME NEW a \in 1 .. Len(s) - 1, NEW b \in 1 .. Len(s) - 1, Tail(s)[a] = Tail(s)[b]
      PROVE  a = b
  <2>1. a + 1 \in DOMAIN s /\ b + 1 \in DOMAIN s /\ s[a + 1] = s[b + 1]
    BY <1>1, <1>2
  <2>2. a + 1 = b + 1
    BY <2>1 DEF IsInjective
  <2> QED BY <2>2
<1>3. \A a \in 1 .. Len(s) - 1 : Tail(s)[a] # Head(s)
  <2> TAKE a \in 1 .. Len(s) - 1
  <2>1. a + 1 \in DOMAIN s /\ 1 \in DOMAIN s /\ a + 1 # 1 /\ Tail(s)[a] = s[a + 1]
    BY <1>1
  <2> QED BY <1>1, <2>1 DEF IsInjective
<1>4. Head(s) \notin ToSet(Tail(s))
  BY <1>1, <1>3 DEF ToSet
<1> QED BY <1>1, <1>2, <1>4 DEF IsInjective

\* or any one.
LEMMA TakingOne ==
  ASSUME NEW S, NEW s \in Seq(S), IsInjective(s), NEW e \in ToSet(s)
  PROVE  IsInjective(RemoveFirst(s, e)) /\ ToSet(RemoveFirst(s, e)) = ToSet(s) \ {e}
<1>1. Len(s) \in Nat /\ DOMAIN s = 1 .. Len(s)
  BY LenProperties
<1>2. \E i \in 1 .. Len(s) : s[i] = e
  BY <1>1 DEF ToSet
<1> DEFINE I == {i \in 1 .. Len(s) : s[i] = e}
<1>3. I \subseteq Nat /\ I # {}
  BY <1>1, <1>2
<1>4. \E x \in I : \A y \in I : x <= y
  BY <1>3, LeastNat
<1>5. Min(I) \in I
  BY <1>4 DEF Min
<1>6. RemoveFirst(s, e) = RemoveAt(s, Min(I))
  BY <1>2, <1>3 DEF RemoveFirst, SelectInSeq
<1>7. PICK m \in 1 .. Len(s) : /\ s[m] = e
                               /\ RemoveFirst(s, e) = SubSeq(s, 1, m - 1) \o SubSeq(s, m + 1, Len(s))
  BY <1>5, <1>6 DEF RemoveAt
<1>8. PICK a, b : a = SubSeq(s, 1, m - 1) /\ b = SubSeq(s, m + 1, Len(s))
  OBVIOUS
<1>9. /\ a \in Seq(S) /\ Len(a) = m - 1 /\ \A i \in 1 .. m - 1 : a[i] = s[i]
      /\ b \in Seq(S) /\ Len(b) = Len(s) - m /\ \A i \in 1 .. Len(s) - m : b[i] = s[m + i]
  <2>1. m - 1 \in Int /\ m + 1 \in Int /\ Len(s) \in Int /\ 1 \in Int
    BY <1>1
  <2>2. (\A i \in 1 .. m - 1 : s[i] \in S) /\ (\A i \in m + 1 .. Len(s) : s[i] \in S)
    BY <1>1, ElementOfSeq
  <2>3. /\ a \in Seq(S) /\ Len(a) = (IF 1 <= m - 1 THEN m - 1 - 1 + 1 ELSE 0)
        /\ \A i \in 1 .. m - 1 - 1 + 1 : a[i] = s[1 + i - 1]
    BY <1>8, <2>1, <2>2, SubSeqProperties
  <2>4. /\ b \in Seq(S) /\ Len(b) = (IF m + 1 <= Len(s) THEN Len(s) - (m + 1) + 1 ELSE 0)
        /\ \A i \in 1 .. Len(s) - (m + 1) + 1 : b[i] = s[(m + 1) + i - 1]
    BY <1>8, <2>1, <2>2, SubSeqProperties
  <2>5. \A i \in 1 .. m - 1 : i \in 1 .. m - 1 - 1 + 1 /\ 1 + i - 1 = i
    BY <1>1
  <2>6. \A i \in 1 .. Len(s) - m : i \in 1 .. Len(s) - (m + 1) + 1 /\ (m + 1) + i - 1 = m + i
    BY <1>1
  <2>7. Len(a) = m - 1
    <3>1. 1 <= m - 1 => m - 1 - 1 + 1 = m - 1
      BY <1>1
    <3>2. ~ (1 <= m - 1) => m - 1 = 0
      BY <1>1
    <3> QED BY <2>3, <3>1, <3>2
  <2>8. Len(b) = Len(s) - m
    <3>1. PICK l \in Nat : l = Len(s) /\ m \in 1 .. l
      BY <1>1
    <3>2. m + 1 <= l => l - (m + 1) + 1 = l - m
      BY <3>1
    <3>3. ~ (m + 1 <= l) => l - m = 0
      BY <3>1
    <3> QED BY <2>4, <3>1, <3>2, <3>3
  <2> QED BY <2>3, <2>4, <2>5, <2>6, <2>7, <2>8
<1>10. PICK t : t = a \o b
  OBVIOUS
<1>11. /\ t \in Seq(S) /\ Len(t) = Len(s) - 1
       /\ \A i \in 1 .. Len(s) - 1 : t[i] = IF i < m THEN s[i] ELSE s[i + 1]
  <2>1. /\ t \in Seq(S) /\ Len(t) = Len(a) + Len(b)
        /\ \A i \in 1 .. Len(a) + Len(b) : t[i] = IF i <= Len(a) THEN a[i] ELSE b[i - Len(a)]
    BY <1>9, <1>10, ConcatProperties
  <2>2. Len(a) + Len(b) = Len(s) - 1
    BY <1>1, <1>9
  <2>3. ASSUME NEW i \in 1 .. Len(s) - 1 PROVE t[i] = IF i < m THEN s[i] ELSE s[i + 1]
    <3>1. t[i] = IF i <= m - 1 THEN a[i] ELSE b[i - (m - 1)]
      BY <1>9, <2>1, <2>2
    <3>2. CASE i < m
      <4>1. i \in 1 .. m - 1 /\ i <= m - 1
        BY <1>1, <3>2
      <4> QED BY <1>9, <3>1, <3>2, <4>1
    <3>3. CASE ~ (i < m)
      <4>1. i - (m - 1) \in 1 .. Len(s) - m /\ ~ (i <= m - 1) /\ m + (i - (m - 1)) = i + 1
        BY <1>1, <3>3
      <4> QED BY <1>9, <3>1, <3>3, <4>1
    <3> QED BY <3>2, <3>3
  <2> QED BY <2>1, <2>2, <2>3
<1>12. DOMAIN t = 1 .. Len(s) - 1
  BY <1>11, LenProperties
<1> DEFINE Was(i) == IF i < m THEN i ELSE i + 1
<1>13. \A i \in DOMAIN t : Was(i) \in DOMAIN s /\ Was(i) # m /\ t[i] = s[Was(i)]
  BY <1>1, <1>11, <1>12
<1>14. \A i, k \in DOMAIN t : Was(i) = Was(k) => i = k
  BY <1>1, <1>12
<1>15. \A k \in DOMAIN s : k # m => \E i \in DOMAIN t : Was(i) = k
  <2> TAKE k \in DOMAIN s
  <2>1. k < m => k \in DOMAIN t /\ Was(k) = k
    BY <1>1, <1>12
  <2>2. k > m => k - 1 \in DOMAIN t /\ Was(k - 1) = k
    BY <1>1, <1>12
  <2> QED BY <1>1, <2>1, <2>2
<1> HIDE DEF Was
<1>16. IsInjective(t)
  <2> SUFFICES ASSUME NEW i \in DOMAIN t, NEW k \in DOMAIN t, t[i] = t[k] PROVE i = k
    BY DEF IsInjective
  <2>1. Was(i) = Was(k)
    BY <1>13 DEF IsInjective
  <2> QED BY <1>14, <2>1
<1>17. ToSet(t) \subseteq ToSet(s) \ {e}
  <2> SUFFICES ASSUME NEW i \in DOMAIN t PROVE t[i] \in ToSet(s) /\ t[i] # e
    BY DEF ToSet
  <2>1. Was(i) \in DOMAIN s /\ Was(i) # m /\ t[i] = s[Was(i)] /\ m \in DOMAIN s
    BY <1>1, <1>13
  <2> QED BY <1>7, <2>1 DEF ToSet, IsInjective
<1>18. ToSet(s) \ {e} \subseteq ToSet(t)
  <2> SUFFICES ASSUME NEW k \in DOMAIN s, s[k] # e PROVE s[k] \in ToSet(t)
    BY DEF ToSet
  <2>1. PICK i \in DOMAIN t : Was(i) = k
    BY <1>7, <1>15
  <2> QED BY <1>13, <2>1 DEF ToSet
<1> QED BY <1>7, <1>8, <1>10, <1>16, <1>17, <1>18

-----------------------------------------------------------------------------
(* A step that creates no job and is not a change around the resolver.     *)

\* Job n is job b but for what it is doing.
Alike(b, n) ==
  /\ n \in Jobs /\ n.status = b.status /\ n.key = b.key /\ n.requests = b.requests
  /\ n.prio = b.prio /\ n.popped = b.popped

\* Job j becomes n.
Settles(j, n) ==
  LET b == job[j] IN
  /\ n \in Jobs /\ n.status = b.status /\ n.key = b.key
  /\ b.status # "alive" => n.requests = <<>>
  /\ b.status = "unborn" => n.task = "none"
  /\ n.since = b.since \/ n.since = changes
  /\ b.status = "alive" /\ n.task # "none" /\ n.since # changes => b.task # "none"
  /\ b.status = "alive" /\ n.task = "dns" /\ config # "on" => b.task = "dns"

\* Job j is deleted, and is n then.
Ceases(j, n) ==
  /\ n \in Jobs /\ n.status = "deleted" /\ n.key = job[j].key
  /\ n.requests = <<>> /\ n.task = "none"
  /\ j \in Born /\ \A k \in Key : jobs'[k] # j

\* The calls in N do what was left to those in H, unless it is done.
TakeOver(H, N, j, n) ==
  /\ \A f \in H, i \in Alive : Owns(f, i) =>
       (i = j /\ n.status = "deleted") \/ jobs'[job[i].key] = i \/ \E g \in N : Owns(g, i)
  /\ \A f \in H, i \in Alive : Ends(f, i) => (i = j /\ n.task = "none") \/ \E g \in N : Ends(g, i)
  /\ \A f \in H : f.call = "abort dns" => \A i \in Alive : i \in ToSet(f.js) =>
       (i = j /\ n.task # "dns") \/ \E g \in N : g.call = "abort dns" /\ i \in ToSet(g.js)
  /\ \A g \in N : FrameIsBorn(g, Born)
  /\ \A g \in N : \A i : i \in Leaves(g) =>
       (\E f \in H : i \in Leaves(f)) \/ \A k \in Key : jobs'[k] # i
  /\ \A g \in N, i \in Alive : Fresh(g, i) => job[i].since = changes \/ (i = j /\ n.since = changes)

\* A job leaves jobs_ when a call owns it, and enters when no call will delete it.
Relocates(N) ==
  /\ jobs' \in [Key -> Request \cup {NoRequest}]
  /\ \A k \in Key :
       \/ jobs'[k] = jobs[k]
       \/ jobs'[k] = NoRequest /\ \E g \in N : Owns(g, jobs[k])
       \/ /\ jobs[k] = NoRequest /\ jobs'[k] \in Alive /\ job[jobs'[k]].key = k
          /\ \A g \in Frames' : jobs'[k] \notin Leaves(g)

\* The requests and the cache of after.
RequestsAre ==
  /\ req' \in [Request -> Requests]
  /\ \A r \in Request : /\ req'[r].state = "new" => req[r].state = "new"
                        /\ req'[r].state = "pending" => req'[r].job \in Born
CacheIs == cache' \in [Key -> Int] /\ \A k \in Key : cache'[k] \in {-1, changes}

\* No list changes.
LEMMA SameLists ==
  ASSUME ResolverInv, NEW j, NEW n, job' = [job EXCEPT ![j] = n],
         j \in Request => n.requests = job[j].requests,
         \A r \in Request : \/ req'[r].state = req[r].state /\ req'[r].job = req[r].job
                            \/ req[r].state # "pending" /\ req'[r].state # "pending"
  PROVE  ListsAreRight'
<1>1. \A i \in Request : job'[i].requests = job[i].requests
  BY DEF ResolverInv, Typed
<1>2. \A i \in Request : IsInjective(job'[i].requests)
  BY <1>1 DEF ResolverInv, JoinInv, ListsAreRight
<1>3. \A i \in Request, r \in Request : r \in ToSet(job'[i].requests) <=>
                                         req'[r].state = "pending" /\ req'[r].job = i
  BY <1>1 DEF ResolverInv, JoinInv, ListsAreRight
<1> QED BY <1>2, <1>3 DEF ListsAreRight

\* One list changes by one request: it joins, or leaves.
LEMMA OtherList ==
  ASSUME ResolverInv, NEW j \in Request, NEW n, job' = [job EXCEPT ![j] = n], NEW r \in Request,
         \A q \in Request : q # r => req'[q] = req[q], IsInjective(n.requests),
         \/ /\ req[r].state # "pending" /\ req'[r].state = "pending" /\ req'[r].job = j
            /\ ToSet(n.requests) = ToSet(job[j].requests) \cup {r}
         \/ /\ r \in ToSet(job[j].requests) /\ req'[r].state # "pending"
            /\ ToSet(n.requests) = ToSet(job[j].requests) \ {r}
  PROVE  ListsAreRight'
<1>1. job'[j] = n /\ \A i \in Request : i # j => job'[i] = job[i]
  BY DEF ResolverInv, Typed
<1>2. \A i \in Request : IsInjective(job'[i].requests)
  BY <1>1 DEF ResolverInv, JoinInv, ListsAreRight
<1>3. ASSUME NEW i \in Request, NEW q \in Request
      PROVE  q \in ToSet(job'[i].requests) <=> req'[q].state = "pending" /\ req'[q].job = i
  <2>1. /\ q \in ToSet(job[i].requests) <=> req[q].state = "pending" /\ req[q].job = i
        /\ r \in ToSet(job[j].requests) => req[r].state = "pending" /\ req[r].job = j
    BY DEF ResolverInv, JoinInv, ListsAreRight
  <2>2. CASE i = j
    BY <1>1, <2>1, <2>2
  <2>3. CASE i # j
    BY <1>1, <2>1, <2>3
  <2> QED BY <2>2, <2>3
<1> QED BY <1>2, <1>3 DEF ListsAreRight

\* What the calls in H have still to do for jobs is done, or left to those in N,
Owed(H, N) ==
  \A f \in H, i \in Alive' :
    /\ Owns(f, i) => job'[i].requests # <<>> \/ \E g \in N : Owns(g, i)
    /\ Tells(f, i) => \E g \in N : Tells(g, i)

\* and what they have to do for requests is.
HandsOver(H, N) ==
  /\ Owed(H, N)
  /\ \A f \in H : Enters(f) => \E g \in N : Enters(g) /\ g.j = f.j
  /\ \A g \in N : Enters(g) => \E f \in H : Enters(f) /\ f.j = g.j

\* The calls on the stack see to the jobs without requests.
LEMMA StillOwned ==
  ASSUME ResolverInv, NEW H, NEW N, Replaced(H, N), Owed(H, N),
         \A i \in Alive' : i \in Alive,
         \A i \in Alive' : job'[i].requests = <<>> =>
           job[i].requests = <<>> \/ \E f \in Frames' : Owns(f, i),
         \A i \in Alive' : job'[i].popped > 0 =>
           job[i].popped > 0 \/ \E f \in Frames' : Tells(f, i)
  PROVE  EmptyAreOwned' /\ PoppedAreTold'
<1>1. PICK R : Frames = R \cup H /\ Frames' = R \cup N
  BY DEF Replaced
<1>2. EmptyAreOwned'
  <2> SUFFICES ASSUME NEW i \in Alive', job'[i].requests = <<>>
               PROVE  \E f \in Frames' : Owns(f, i)
    BY DEF EmptyAreOwned
  <2>1. CASE job[i].requests = <<>>
    <3>1. PICK f \in Frames : Owns(f, i)
      BY <2>1 DEF ResolverInv, JoinInv, EmptyAreOwned
    <3> QED BY <1>1, <3>1 DEF Owed
  <2> QED BY <2>1
<1>3. PoppedAreTold'
  <2> SUFFICES ASSUME NEW i \in Alive', job'[i].popped > 0
               PROVE  \E f \in Frames' : Tells(f, i)
    BY DEF PoppedAreTold
  <2>1. CASE job[i].popped > 0
    <3>1. PICK f \in Frames : Tells(f, i)
      BY <2>1 DEF ResolverInv, JoinInv, PoppedAreTold
    <3> QED BY <1>1, <3>1 DEF Owed
  <2> QED BY <2>1
<1> QED BY <1>2, <1>3

\* If the lists are right too, all is.
LEMMA StillJoined ==
  ASSUME ResolverInv, NEW H, NEW N, Replaced(H, N), HandsOver(H, N), ListsAreRight',
         \A r \in Request : req'[r].state = "busy" <=> req[r].state = "busy",
         \A i \in Alive' : i \in Alive,
         \A i \in Alive' : job'[i].requests = <<>> =>
           job[i].requests = <<>> \/ \E f \in Frames' : Owns(f, i),
         \A i \in Alive' : job'[i].popped > 0 =>
           job[i].popped > 0 \/ \E f \in Frames' : Tells(f, i)
  PROVE  JoinInv'
<1>1. PICK R : Frames = R \cup H /\ Frames' = R \cup N
  BY DEF Replaced
<1>2. BusyEnter'
  <2> SUFFICES ASSUME NEW r \in Request
               PROVE  req'[r].state = "busy" <=> \E f \in Frames' : Enters(f) /\ f.j = r
    BY DEF BusyEnter
  <2>1. req[r].state = "busy" <=> \E f \in Frames : Enters(f) /\ f.j = r
    BY DEF ResolverInv, JoinInv, BusyEnter
  <2> QED BY <1>1, <2>1 DEF HandsOver
<1>3. EmptyAreOwned' /\ PoppedAreTold'
  <2>1. Owed(H, N)
    BY DEF HandsOver
  <2> QED BY <2>1, StillOwned
<1> QED BY <1>2, <1>3 DEF JoinInv

\* Resolve returns: its request is told what became of it.
LEMMA Entered ==
  ASSUME ResolverInv, calls # <<>>, Enters(Head(calls)), NEW new, IsSeq(new),
         calls' = new \o Rest, \A f \in ToSet(new) : ~ Enters(f),
         NEW r \in Request, r = Head(calls).j, req'[r].state # "busy",
         \A q \in Request : q # r => req'[q] = req[q]
  PROVE  BusyEnter' /\ req[r].state = "busy"
<1>1. IsSeq(calls) /\ EntersFirst
  BY DEF ResolverInv, Typed
<1>2. IsSeq(Rest) /\ Frames = {Head(calls)} \cup ToSet(Rest)
  BY <1>1, Popping DEF Frames, Rest
<1>3. Frames' = ToSet(new) \cup ToSet(Rest)
  BY <1>2, Joining DEF Frames
<1>4. \A g \in ToSet(Rest) : r \notin Claims(g)
  BY <1>1, FirstOfRest DEF EntersFirst, Rest
<1>5. \A g \in ToSet(Rest) : Enters(g) => g.j # r
  BY <1>4 DEF Claims
<1>6. \A q \in Request : req[q].state = "busy" <=> \E f \in Frames : Enters(f) /\ f.j = q
  BY DEF ResolverInv, JoinInv, BusyEnter
<1>7. ASSUME NEW q \in Request
      PROVE  req'[q].state = "busy" <=> \E f \in Frames' : Enters(f) /\ f.j = q
  <2>1. CASE q = r
    BY <1>3, <1>5, <2>1
  <2>2. CASE q # r
    BY <1>2, <1>3, <1>6, <2>2
  <2> QED BY <2>1, <2>2
<1> QED BY <1>2, <1>6, <1>7 DEF BusyEnter

\* A step that is no concern of the requests.
LEMMA CalmStep ==
  ASSUME ResolverInv, NEW j, NEW n, j \in Request => Alike(job[j], n),
         job' = [job EXCEPT ![j] = n],
         \A r \in Request : \/ req'[r].state = req[r].state /\ req'[r].job = req[r].job
                            \/ {req[r].state, req'[r].state} \cap {"pending", "busy"} = {},
         NEW H, NEW N, Replaced(H, N), HandsOver(H, N)
  PROVE  JoinInv'
<1>1. \A i \in Request : /\ job'[i].requests = job[i].requests /\ job'[i].popped = job[i].popped
                         /\ job'[i].status = job[i].status
  BY DEF ResolverInv, Typed, Alike
<1>2. ListsAreRight'
  <2>1. \A r \in Request : \/ req'[r].state = req[r].state /\ req'[r].job = req[r].job
                           \/ req[r].state # "pending" /\ req'[r].state # "pending"
    OBVIOUS
  <2>2. j \in Request => n.requests = job[j].requests
    BY DEF Alike
  <2> QED BY <2>1, <2>2, SameLists
<1>5. \A r \in Request : req'[r].state = "busy" <=> req[r].state = "busy"
  OBVIOUS
<1>3. Alive' = Alive /\ \A i \in Alive : i \in Request
  BY <1>1 DEF Alive
<1>4. /\ \A i \in Alive' : i \in Alive
      /\ \A i \in Alive' : job'[i].requests = <<>> =>
           job[i].requests = <<>> \/ \E f \in Frames' : Owns(f, i)
      /\ \A i \in Alive' : job'[i].popped > 0 =>
           job[i].popped > 0 \/ \E f \in Frames' : Tells(f, i)
  BY <1>1, <1>3
<1> QED BY <1>2, <1>4, <1>5, StillJoined

\* The same if no job changes.
LEMMA CalmCalls ==
  ASSUME ResolverInv, job' = job, req' = req, NEW H, NEW N, Replaced(H, N), HandsOver(H, N)
  PROVE  JoinInv'
<1>1. NoRequest \notin Request
  BY HostResolverAssumption
<1>2. job' = [job EXCEPT ![NoRequest] = NoJob]
  BY <1>1 DEF ResolverInv, Typed
<1> QED BY <1>1, <1>2, CalmStep

\* Idle calls have nothing to hand over.
LEMMA IdleHandsOver ==
  ASSUME NEW H, NEW N, \A f \in H : Idle(f), \A g \in N : ~ Enters(g)
  PROVE  HandsOver(H, N)
BY DEF HandsOver, Owed, Tells, Idle, Leaves

\* Such a step keeps the invariant.
LEMMA Proceeding ==
  ASSUME ResolverInv, NEW j, NEW n, NEW H, NEW N,
         j \in Request => Settles(j, n) \/ Ceases(j, n),
         job' = [job EXCEPT ![j] = n], RequestsAre, CacheIs, DispatcherDoes(Born \X {1, 2}),
         UNCHANGED <<around, config>>, Replaced(H, N), TakeOver(H, N, j, n), Relocates(N),
         JoinInv'
  PROVE  ResolverInv'
<1> USE DEF ResolverInv
<1>1. PICK R : Frames = R \cup H /\ Frames' = R \cup N
  BY DEF Replaced
<1>2. /\ job \in [Request -> Jobs] /\ job' \in [Request -> Jobs]
      /\ j \in Request => job'[j] = n
      /\ \A i \in Request : i # j => job'[i] = job[i]
  BY DEF Typed, Settles, Ceases
<1>3. \A i \in Request :
        /\ job'[i].key = job[i].key
        /\ job'[i].status = job[i].status \/ (i = j /\ Ceases(j, n))
  BY <1>2 DEF Settles, Ceases
<1>4. Born' = Born /\ Alive' \subseteq Alive /\ (\A i \in Alive : i # j => i \in Alive')
  BY <1>2, <1>3 DEF Born, Alive, Ceases
<1>17. \A i \in Alive' : i \in Alive /\ i \in Request /\ (i = j => Settles(j, n) /\ n.status = "alive")
  BY <1>2, <1>3, <1>4 DEF Alive, Ceases
<1>5. changes' = changes
  BY DEF changes
<1>6. Typed'
  BY <1>2 DEF Typed, RequestsAre, CacheIs, DispatcherDoes, Replaced, Relocates
<1>18. \A f \in Frames' : FrameIsBorn(f, Born)
  BY <1>1 DEF OnlyBorn, TakeOver
<1>7. OnlyBorn'
  <2>1. Values(queue)' \subseteq Born \X {1, 2}
    BY DEF DispatcherDoes
  <2> QED BY <1>4, <1>18, <2>1 DEF OnlyBorn
<1>8. Lives'
  <2> SUFFICES ASSUME NEW r \in Request
               PROVE  /\ req'[r].state = "new" => job'[r].status = "unborn"
                      /\ job'[r].status # "alive" => job'[r].requests = <<>>
                      /\ job'[r].status = "unborn" => job'[r].task = "none"
                      /\ req'[r].state = "pending" => req'[r].job \in Born
    BY <1>4 DEF Lives
  <2>1. req'[r].state = "new" => job'[r].status = "unborn"
    BY <1>3 DEF Lives, RequestsAre, Ceases, Born
  <2>2. /\ job'[r].status # "alive" => job'[r].requests = <<>>
        /\ job'[r].status = "unborn" => job'[r].task = "none"
    BY <1>2, <1>3 DEF Lives, Settles, Ceases
  <2> QED BY <2>1, <2>2 DEF RequestsAre
<1>9. JobsAreRight'
  <2> SUFFICES ASSUME NEW k \in Key, jobs'[k] # NoRequest
               PROVE  jobs'[k] \in Alive' /\ job'[jobs'[k]].key = k
    BY DEF JobsAreRight
  <2>1. jobs'[k] \in Alive /\ job[jobs'[k]].key = k
    BY DEF JobsAreRight, Relocates
  <2>2. jobs'[k] \in Request /\ jobs'[k] \in Alive'
    BY <1>3, <2>1 DEF Alive, Ceases
  <2> QED BY <1>3, <2>1, <2>2
<1>10. Left'
  <2> SUFFICES ASSUME NEW f \in Frames', NEW k \in Key PROVE jobs'[k] \notin Leaves(f)
    BY DEF Left
  <2>1. CASE jobs'[k] = jobs[k]
    BY <1>1, <2>1 DEF Left, TakeOver
  <2>2. CASE jobs'[k] = NoRequest
    <3>1. Leaves(f) \subseteq Request
      BY <1>18, CallsAreBorn DEF Born
    <3> QED BY <2>2, <3>1, HostResolverAssumption
  <2> QED BY <2>1, <2>2 DEF Relocates
<1>11. EntersFirst'
  BY DEF Replaced
<1>12. Known'
  <2> SUFFICES ASSUME NEW i \in Alive'
               PROVE  jobs'[job'[i].key] = i \/ \E f \in Frames' : Owns(f, i)
    BY DEF Known
  <2>1. /\ job'[i].key = job[i].key /\ job[i].key \in Key /\ i # NoRequest
        /\ i \in Alive /\ ~ (i = j /\ n.status = "deleted")
    BY <1>2, <1>3, <1>17, HostResolverAssumption DEF Jobs
  <2>2. CASE jobs[job[i].key] = i
    BY <1>1, <2>1, <2>2 DEF Relocates
  <2>3. CASE \E f \in Frames : Owns(f, i)
    BY <1>1, <2>1, <2>3 DEF TakeOver
  <2> QED BY <2>1, <2>2, <2>3 DEF Known
<1>13. OldAreEnded'
  <2> SUFFICES ASSUME NEW i \in Alive', job'[i].task # "none", job'[i].since # changes
               PROVE  \E f \in Frames' : Ends(f, i)
    BY <1>5 DEF OldAreEnded, IsRunning
  <2>1. /\ i \in Alive /\ job[i].task # "none" /\ job[i].since # changes
        /\ i = j => n.task # "none"
    BY <1>2, <1>17 DEF Settles, Alive
  <2> QED BY <1>1, <2>1 DEF OldAreEnded, IsRunning, TakeOver
<1>14. UsesAreFresh'
  <2> SUFFICES ASSUME NEW i \in Alive', NEW f \in Frames', Fresh(f, i)
               PROVE  job'[i].since = changes
    BY <1>5 DEF UsesAreFresh
  <2>1. i \in Alive /\ (job[i].since = changes \/ (i = j /\ n.since = changes))
    BY <1>1, <1>17 DEF UsesAreFresh, TakeOver
  <2> QED BY <1>2, <1>17, <2>1 DEF Settles, Alive
<1>15. CacheIsFresh'
  BY <1>5 DEF CacheIsFresh, CacheIs
<1>16. DnsIsEnded'
  <2> SUFFICES ASSUME NEW i \in Alive', job'[i].task = "dns", config # "on"
               PROVE  \E f \in Frames' : Ends(f, i) \/ (f.call = "abort dns" /\ i \in ToSet(f.js))
    BY DEF DnsIsEnded
  <2>1. i \in Alive /\ job[i].task = "dns" /\ (i = j => n.task = "dns")
    BY <1>2, <1>17 DEF Settles, Alive
  <2>2. PICK f \in Frames : Ends(f, i) \/ (f.call = "abort dns" /\ i \in ToSet(f.js))
    BY <2>1 DEF DnsIsEnded
  <2> QED BY <1>1, <2>1, <2>2 DEF TakeOver
<1> QED BY <1>6, <1>7, <1>8, <1>9, <1>10, <1>11, <1>12, <1>13, <1>14, <1>15, <1>16

\* The same if jobs_ and the cache are left alone and no job is deleted.
LEMMA Settling ==
  ASSUME ResolverInv, NEW j, NEW n, NEW H, NEW N, j \in Request => Settles(j, n),
         job' = [job EXCEPT ![j] = n], RequestsAre, DispatcherDoes(Born \X {1, 2}),
         UNCHANGED <<jobs, cache, around, config>>, Replaced(H, N), TakeOver(H, N, j, n),
         JoinInv'
  PROVE  ResolverInv'
<1>1. Relocates(N) /\ CacheIs
  BY DEF Relocates, CacheIs, ResolverInv, Typed, CacheIsFresh
<1> QED BY <1>1, Proceeding


\* The same if no job changes.
LEMMA SettlingCalls ==
  ASSUME ResolverInv, NEW H, NEW N, job' = job, RequestsAre, DispatcherDoes(Born \X {1, 2}),
         UNCHANGED <<jobs, cache, around, config>>, Replaced(H, N),
         TakeOver(H, N, NoRequest, NoJob), JoinInv'
  PROVE  ResolverInv'
<1>1. NoRequest \notin Request
  BY HostResolverAssumption
<1>2. job \in [Request -> Jobs]
  BY DEF ResolverInv, Typed
<1>3. job' = [job EXCEPT ![NoRequest] = NoJob]
  BY <1>1, <1>2
<1> QED BY <1>1, <1>3, Settling

\* Calls that are idle leave nothing to others.
LEMMA IdleTakeOver ==
  ASSUME NEW H, NEW N, NEW j, NEW n, \A f \in H : Idle(f),
         \A g \in N : Idle(g) /\ FrameIsBorn(g, Born)
  PROVE  TakeOver(H, N, j, n)
BY DEF TakeOver, Idle

\* The call that runs.
LEMMA HeadIs ==
  ASSUME ResolverInv, NEW what, Calling(what)
  PROVE  /\ calls # <<>> /\ Head(calls) \in Frames /\ Head(calls).call = what
         /\ FrameIsBorn(Head(calls), Born)
<1>1. calls # <<>> /\ Head(calls).call = what
  BY DEF Calling
<1>2. Head(calls) \in Frames
  BY <1>1, Popping DEF ResolverInv, Typed, Frames
<1> QED BY <1>1, <1>2 DEF ResolverInv, OnlyBorn

\* A call returns; others that are not Overflow or Attach may be made.
LEMMA PlainReturn ==
  ASSUME ResolverInv, calls # <<>>
  PROVE  /\ calls' = Rest => Replaced({Head(calls)}, {})
         /\ \A new : /\ IsSeq(new) /\ calls' = new \o Rest
                     /\ \A f \in ToSet(new) : ~ Enters(f)
                     => Replaced({Head(calls)}, ToSet(new))
<1>1. IsSeq(calls) /\ EntersFirst
  BY DEF ResolverInv, Typed
<1>2. ASSUME NEW new, IsSeq(new), calls' = new \o Rest, \A f \in ToSet(new) : ~ Enters(f)
      PROVE  Replaced({Head(calls)}, ToSet(new))
  <2>1. \A i \in DOMAIN new : ~ Enters(new[i])
    BY <1>2 DEF ToSet
  <2> QED BY <1>1, <1>2, <2>1, Returning
<1>3. ASSUME calls' = Rest PROVE Replaced({Head(calls)}, {})
  <2>1. IsSeq(Rest)
    BY <1>1, Popping DEF Rest
  <2>2. <<>> \o Rest = Rest
    BY <2>1, ConcatEmptySeq DEF IsSeq
  <2> QED BY <1>2, <1>3, <2>2, Short
<1> QED BY <1>2, <1>3

\* What was queued is for jobs that were created.
LEMMA QueueIsBorn ==
  ASSUME ResolverInv
  PROVE  /\ queue \in [Priority -> Seq(Slot)] /\ Values(queue) \subseteq Born \X {1, 2}
         /\ \A T : T \subseteq Born \X {1, 2} /\ DispatcherDoes(T) => DispatcherDoes(Born \X {1, 2})
         /\ DispatcherDoes(Values(queue)) => DispatcherDoes(Born \X {1, 2})
         /\ UNCHANGED dispatcher => DispatcherDoes(Born \X {1, 2})
<1>1. queue \in [Priority -> Seq(Slot)] /\ Values(queue) \subseteq Born \X {1, 2}
  BY DEF ResolverInv, Typed, OnlyBorn
<1>2. ASSUME NEW T, T \subseteq Born \X {1, 2}, DispatcherDoes(T)
      PROVE  DispatcherDoes(Born \X {1, 2})
  BY <1>2 DEF DispatcherDoes
<1>3. UNCHANGED dispatcher => DispatcherDoes(Values(queue))
  BY <1>1, Taking
<1> QED BY <1>1, <1>2, <1>3

\* The Start that the dispatcher calls is idle.
LEMMA StartedIsIdle ==
  ASSUME ResolverInv, DispatcherDoes(Born \X {1, 2})
  PROVE  IsSeq(Started) /\ \A f \in ToSet(Started) : Idle(f) /\ FrameIsBorn(f, Born)
BY StartedIs, IdleCalls

\* No request changes.
LEMMA SameRequests ==
  ASSUME ResolverInv, req' = req
  PROVE  RequestsAre
BY DEF RequestsAre, ResolverInv, Typed, Lives

\* Jobs and what may be done to them.
LEMMA JobIs ==
  ASSUME ResolverInv, NEW j \in Request
  PROVE  /\ job[j] \in Jobs /\ job \in [Request -> Jobs]
         /\ job[j].status # "alive" => job[j].requests = <<>>
BY DEF ResolverInv, Typed, Lives

\* The fields of a job, one by one.
LEMMA Updates ==
  ASSUME NEW b \in Jobs
  PROVE  /\ \A x \in BOOLEAN : LET n == [b EXCEPT !.handle = x] IN
              Alike(b, n) /\ n.since = b.since /\ n.task = b.task /\ n.slots = b.slots
         /\ \A x \in Nat : LET n == [b EXCEPT !.slots = x] IN
              Alike(b, n) /\ n.since = b.since /\ n.task = b.task
         /\ \A x \in Nat : LET n == [b EXCEPT !.since = x] IN
              Alike(b, n) /\ n.since = x /\ n.task = b.task
         /\ \A x \in {"none", "dns", "proc"} : LET n == [b EXCEPT !.task = x] IN
              Alike(b, n) /\ n.since = b.since /\ n.task = x
         /\ \A x \in {"none", "started", "done"} : LET n == [b EXCEPT !.a = x] IN
              Alike(b, n) /\ n.since = b.since /\ n.task = b.task
         /\ \A x \in {"none", "started", "done"} : LET n == [b EXCEPT !.aaaa = x] IN
              Alike(b, n) /\ n.since = b.since /\ n.task = b.task
         /\ \A x \in BOOLEAN : LET n == [b EXCEPT !.dns_error = x] IN
              Alike(b, n) /\ n.since = b.since /\ n.task = b.task
<1>1. \A x \in BOOLEAN : LET n == [b EXCEPT !.handle = x] IN
              Alike(b, n) /\ n.since = b.since /\ n.task = b.task /\ n.slots = b.slots
  BY DEF Jobs, Alike
<1>2. \A x \in Nat : LET n == [b EXCEPT !.slots = x] IN
              Alike(b, n) /\ n.since = b.since /\ n.task = b.task
  BY DEF Jobs, Alike
<1>3. \A x \in Nat : LET n == [b EXCEPT !.since = x] IN
              Alike(b, n) /\ n.since = x /\ n.task = b.task
  BY DEF Jobs, Alike
<1>4. \A x \in {"none", "dns", "proc"} : LET n == [b EXCEPT !.task = x] IN
              Alike(b, n) /\ n.since = b.since /\ n.task = x
  BY DEF Jobs, Alike
<1>5. \A x \in {"none", "started", "done"} : LET n == [b EXCEPT !.a = x] IN
              Alike(b, n) /\ n.since = b.since /\ n.task = b.task
  BY DEF Jobs, Alike
<1>6. \A x \in {"none", "started", "done"} : LET n == [b EXCEPT !.aaaa = x] IN
              Alike(b, n) /\ n.since = b.since /\ n.task = b.task
  BY DEF Jobs, Alike
<1>7. \A x \in BOOLEAN : LET n == [b EXCEPT !.dns_error = x] IN
              Alike(b, n) /\ n.since = b.since /\ n.task = b.task
  BY DEF Jobs, Alike
<1> QED BY <1>1, <1>2, <1>3, <1>4, <1>5, <1>6, <1>7

\* A job that goes on with what it does, or begins something now.
LEMMA AlikeSettles ==
  ASSUME ResolverInv, NEW j \in Born, NEW n, Alike(job[j], n),
         n.since = job[j].since \/ n.since = changes,
         \/ n.task = "none" \/ n.since = changes
         \/ job[j].status = "alive" => job[j].task # "none",
         n.task = "dns" => job[j].task = "dns" \/ config = "on"
  PROVE  Settles(j, n)
BY JobIs DEF Settles, Alike, Born

\* Job::Start takes a slot, and may begin to look up.
WithSlot(b) == [b EXCEPT !.handle = FALSE, !.slots = @ + 1]
Begun(b, now) == [WithSlot(b) EXCEPT !.since = now]
DnsBegun(b, now) == [Begun(b, now) EXCEPT !.task = "dns", !.a = "started"]
ProcBegun(b, now) == [Begun(b, now) EXCEPT !.task = "proc"]
SecondBegun(b) == [WithSlot(b) EXCEPT !.aaaa = "started"]
DnsQueued(b, now, x) == [DnsBegun(b, now) EXCEPT !.handle = x]

\* What starting does to the record of a job: key, requests and status stay.
LEMMA StartsOf ==
  ASSUME NEW b \in Jobs, NEW now \in Nat
  PROVE  /\ Alike(b, SecondBegun(b))
         /\ SecondBegun(b).since = b.since /\ SecondBegun(b).task = b.task
         /\ Alike(b, ProcBegun(b, now))
         /\ ProcBegun(b, now).since = now /\ ProcBegun(b, now).task = "proc"
         /\ Alike(b, DnsBegun(b, now))
         /\ DnsBegun(b, now).since = now /\ DnsBegun(b, now).task = "dns"
         /\ WithSlot(b).prio \in Priority
         /\ \A x \in BOOLEAN :
              /\ Alike(b, DnsQueued(b, now, x))
              /\ DnsQueued(b, now, x).since = now /\ DnsQueued(b, now, x).task = "dns"
<1>1. PICK h : h = [b EXCEPT !.handle = FALSE]
  OBVIOUS
<1>2. Alike(b, h) /\ h.since = b.since /\ h.task = b.task /\ h.slots = b.slots
  BY <1>1, Updates
<1>3. h.slots + 1 \in Nat /\ h \in Jobs
  BY <1>2 DEF Alike, Jobs
<1>4. PICK s : s = [h EXCEPT !.slots = h.slots + 1]
  OBVIOUS
<1>20. Alike(h, s) /\ s.since = h.since /\ s.task = h.task
  BY <1>3, <1>4, Updates
<1>5. s \in Jobs /\ Alike(h, s) /\ s.since = b.since /\ s.task = b.task
  BY <1>2, <1>20 DEF Alike
<1>6. s = [b EXCEPT !.handle = FALSE, !.slots = @ + 1]
  BY <1>1, <1>4
<1>7. PICK first : first = [s EXCEPT !.since = now]
  OBVIOUS
<1>21. Alike(s, first) /\ first.since = now
  BY <1>5, <1>7, Updates
<1>8. first \in Jobs /\ Alike(s, first) /\ first.since = now
  BY <1>21 DEF Alike
<1>9. PICK t : t = [first EXCEPT !.task = "dns"]
  OBVIOUS
<1>10. t \in Jobs /\ Alike(first, t) /\ t.since = now /\ t.task = "dns"
  BY <1>8, <1>9, Updates DEF Alike
<1>11. PICK dns : dns = [t EXCEPT !.a = "started"]
  OBVIOUS
<1>12. dns \in Jobs /\ Alike(t, dns) /\ dns.since = now /\ dns.task = "dns"
  BY <1>10, <1>11, Updates DEF Alike
<1>13. dns = [first EXCEPT !.task = "dns", !.a = "started"]
  BY <1>9, <1>11
<1>14. \A x \in BOOLEAN : LET n == [dns EXCEPT !.handle = x] IN
         Alike(dns, n) /\ n.since = now /\ n.task = "dns"
  BY <1>12, Updates
<1>15. LET n == [s EXCEPT !.aaaa = "started"] IN
         Alike(s, n) /\ n.since = b.since /\ n.task = b.task
  BY <1>5, Updates
<1>16. LET n == [first EXCEPT !.task = "proc"] IN
         Alike(first, n) /\ n.since = now /\ n.task = "proc"
  BY <1>8, Updates
<1>17. Alike(b, s) /\ Alike(b, first) /\ Alike(b, dns)
  BY <1>2, <1>5, <1>8, <1>10, <1>12 DEF Alike
<1>18. \A n : Alike(dns, n) \/ Alike(s, n) \/ Alike(first, n) => Alike(b, n)
  BY <1>17 DEF Alike
<1>19. s.prio \in Priority
  BY <1>5 DEF Jobs
<1> HIDE DEF Alike
<1>22. /\ s = WithSlot(b) /\ first = Begun(b, now) /\ dns = DnsBegun(b, now)
       /\ [s EXCEPT !.aaaa = "started"] = SecondBegun(b)
       /\ [first EXCEPT !.task = "proc"] = ProcBegun(b, now)
       /\ \A x : [dns EXCEPT !.handle = x] = DnsQueued(b, now, x)
  BY <1>6, <1>7, <1>13 DEF WithSlot, Begun, DnsBegun, SecondBegun, ProcBegun, DnsQueued
<1>23. /\ Alike(s, SecondBegun(b))
       /\ SecondBegun(b).since = b.since /\ SecondBegun(b).task = b.task
  BY <1>15, <1>22
<1>24. /\ Alike(first, ProcBegun(b, now))
       /\ ProcBegun(b, now).since = now /\ ProcBegun(b, now).task = "proc"
  BY <1>16, <1>22
<1>25. \A x \in BOOLEAN :
         /\ Alike(dns, DnsQueued(b, now, x))
         /\ DnsQueued(b, now, x).since = now /\ DnsQueued(b, now, x).task = "dns"
  BY <1>14, <1>22
<1>26. dns = DnsBegun(b, now) /\ s = WithSlot(b)
  BY <1>22
<1> QED BY <1>12, <1>17, <1>18, <1>19, <1>23, <1>24, <1>25, <1>26

-----------------------------------------------------------------------------
(* The actions that are such steps.                                        *)

\* The rest of UpdatePriority, after ChangePriority has started the job.
LEMMA HandleClearedKeeps ==
  ASSUME ResolverInv, HandleCleared
  PROVE  ResolverInv'
<1> DEFINE j == Head(calls).j
           n == [job[j] EXCEPT !.handle = FALSE]
<1>1. Calling("clear handle") /\ job' = [job EXCEPT ![j] = n] /\ calls' = Rest
      /\ UNCHANGED <<dispatcher, resolver, req>>
  BY DEF HandleCleared
<1>2. calls # <<>> /\ Idle(Head(calls)) /\ j \in Born
  BY <1>1, HeadIs, CallsByName, BornCalls DEF ForOne
<1>3. j \in Request
  BY <1>2 DEF Born
<1>4. Settles(j, n)
  BY <1>2, <1>3, JobIs DEF Settles, Jobs, Born
<1>5. Replaced({Head(calls)}, {})
  BY <1>1, <1>2, PlainReturn
<1>6. TakeOver({Head(calls)}, {}, j, n)
  BY <1>2, IdleTakeOver
<1>7. RequestsAre /\ DispatcherDoes(Born \X {1, 2}) /\ UNCHANGED <<jobs, cache, around, config>>
  BY <1>1, SameRequests, QueueIsBorn DEF resolver
<1>8. Alike(job[j], n)
  BY <1>3, JobIs, Updates
<1> HIDE DEF j, n
<1>9. HandsOver({Head(calls)}, {})
  BY <1>2, IdleHandsOver
<1>10. JoinInv'
  BY <1>1, <1>5, <1>8, <1>9, CalmStep
<1> QED BY <1>1, <1>4, <1>5, <1>6, <1>7, <1>10, Settling

\* Start: what it begins is of now.
LEMMA StartJobKeeps ==
  ASSUME ResolverInv, StartJob
  PROVE  ResolverInv'
<1> DEFINE j == Head(calls).slot[1]
           b == WithSlot(job[j])
<1>1. Calling("start") /\ UNCHANGED <<resolver, req>>
  BY DEF StartJob
<1>2. calls # <<>> /\ Idle(Head(calls)) /\ j \in Born
  <2>1. Head(calls).slot \in Born \X {1, 2}
    BY <1>1, HeadIs, BornCalls
  <2> QED BY <1>1, <2>1, HeadIs, CallsByName
<1>3. j \in Request
  BY <1>2 DEF Born
<1>4. job[j] \in Jobs /\ (job[j].status # "alive" => job[j].requests = <<>>) /\ changes \in Nat
  BY <1>3, JobIs DEF ResolverInv, Typed, changes
<1>6. RequestsAre /\ UNCHANGED <<jobs, cache, around, config>>
  BY <1>1, SameRequests DEF resolver
<1>7. ASSUME NEW n, Settles(j, n), Alike(job[j], n), job' = [job EXCEPT ![j] = n], calls' = Rest,
             UNCHANGED dispatcher
      PROVE  ResolverInv'
  <2>1. Replaced({Head(calls)}, {})
    BY <1>2, <1>7, PlainReturn
  <2>2. TakeOver({Head(calls)}, {}, j, n)
    BY <1>2, IdleTakeOver
  <2>3. DispatcherDoes(Born \X {1, 2})
    BY <1>7, QueueIsBorn
  <2> HIDE DEF j
  <2>4. HandsOver({Head(calls)}, {})
    BY <1>2, IdleHandsOver
  <2>5. JoinInv'
    BY <1>1, <1>7, <2>1, <2>4, CalmStep
  <2> QED BY <1>6, <1>7, <2>1, <2>2, <2>3, <2>5, Settling
<1>8. Settles(j, SecondBegun(job[j])) /\ Alike(job[j], SecondBegun(job[j]))
  BY <1>2, <1>4, StartsOf, AlikeSettles
<1>9. Settles(j, ProcBegun(job[j], changes)) /\ Alike(job[j], ProcBegun(job[j], changes))
  BY <1>2, <1>4, StartsOf, AlikeSettles
<1>10. config = "on" => /\ Settles(j, DnsBegun(job[j], changes))
                        /\ Alike(job[j], DnsBegun(job[j], changes))
                        /\ \A x \in BOOLEAN : Settles(j, DnsQueued(job[j], changes, x))
  BY <1>2, <1>4, StartsOf, AlikeSettles
<1>11. CASE /\ b.slots = 1 /\ config = "on" /\ b.key \in TwoFamilies \ SystemOnly
            /\ D!AddAtHead(<<j, 2>>, b.prio)
            /\ job' = [job EXCEPT ![j] = DnsQueued(job[j], changes, running' = running)]
            /\ calls' = Started \o Rest
  <2> DEFINE n == DnsQueued(job[j], changes, running' = running)
  <2>1. Settles(j, n) /\ Alike(job[j], n)
    BY <1>4, <1>10, <1>11, StartsOf
  <2>2. <<j, 2>> \in Slot /\ <<j, 2>> \in Born \X {1, 2} /\ b.prio \in Priority
    BY <1>2, <1>3, <1>4, StartsOf DEF Slot
  <2> HIDE DEF j
  <2>3. DispatcherDoes(Values(queue) \cup {<<j, 2>>})
    BY <1>11, <2>2, QueueIsBorn, Adding
  <2>4. Values(queue) \cup {<<j, 2>>} \subseteq Born \X {1, 2}
    BY <2>2, QueueIsBorn
  <2>5. DispatcherDoes(Born \X {1, 2})
    BY <2>3, <2>4, QueueIsBorn
  <2>6. IsSeq(Started) /\ \A f \in ToSet(Started) : Idle(f) /\ FrameIsBorn(f, Born)
    BY <2>5, StartedIsIdle
  <2>7. Replaced({Head(calls)}, ToSet(Started))
    BY <1>2, <1>11, <2>6, PlainReturn DEF Idle
  <2>8. TakeOver({Head(calls)}, ToSet(Started), j, n)
    BY <1>2, <2>6, IdleTakeOver
  <2>9. job' = [job EXCEPT ![j] = n]
    BY <1>11
  <2> HIDE DEF n
  <2>10. HandsOver({Head(calls)}, ToSet(Started))
    BY <1>2, <2>6, IdleHandsOver DEF Idle
  <2>11. JoinInv'
    BY <1>1, <2>1, <2>7, <2>9, <2>10, CalmStep
  <2> QED BY <1>6, <2>1, <2>5, <2>7, <2>8, <2>9, <2>11, Settling
<1>12. \/ /\ job' = [job EXCEPT ![j] = SecondBegun(job[j])]
          /\ calls' = Rest /\ UNCHANGED dispatcher
       \/ /\ job' = [job EXCEPT ![j] = ProcBegun(job[j], changes)]
          /\ calls' = Rest /\ UNCHANGED dispatcher
       \/ /\ config = "on" /\ job' = [job EXCEPT ![j] = DnsBegun(job[j], changes)]
          /\ calls' = Rest /\ UNCHANGED dispatcher
       \/ /\ b.slots = 1 /\ config = "on" /\ b.key \in TwoFamilies \ SystemOnly
          /\ D!AddAtHead(<<j, 2>>, b.prio)
          /\ job' = [job EXCEPT ![j] = DnsQueued(job[j], changes, running' = running)]
          /\ calls' = Started \o Rest
  BY DEF StartJob, WithSlot, Begun, SecondBegun, ProcBegun, DnsBegun, DnsQueued
<1> HIDE DEF j, b
<1> QED BY <1>7, <1>8, <1>9, <1>10, <1>11, <1>12

\* The fallback to a system lookup, in the DnsTask's turn.
LEMMA ProcStartedKeeps ==
  ASSUME ResolverInv, ProcStarted
  PROVE  ResolverInv'
<1> DEFINE j == Head(calls).j
           n == [job[j] EXCEPT !.task = "proc"]
<1>1. Calling("start proc") /\ job' = [job EXCEPT ![j] = n] /\ calls' = Rest
      /\ UNCHANGED <<dispatcher, resolver, req>>
  BY DEF ProcStarted
<1>2. /\ calls # <<>> /\ Head(calls) \in Frames /\ Head(calls).call = "start proc" /\ j \in Born
  BY <1>1, HeadIs, BornCalls DEF ForOne
<1>3. j \in Request
  BY <1>2 DEF Born
<1>4. job[j].status = "alive" => job[j].since = changes
  <2>1. Fresh(Head(calls), j)
    BY <1>2 DEF Fresh
  <2> QED BY <1>2, <1>3, <2>1 DEF ResolverInv, UsesAreFresh, Alive
<1>5. Settles(j, n)
  BY <1>2, <1>3, <1>4, JobIs DEF Settles, Jobs, Born
<1>6. Replaced({Head(calls)}, {})
  BY <1>1, <1>2, PlainReturn
<1>7. TakeOver({Head(calls)}, {}, j, n)
  BY <1>2, CallsByName DEF TakeOver
<1>8. RequestsAre /\ DispatcherDoes(Born \X {1, 2}) /\ UNCHANGED <<jobs, cache, around, config>>
  BY <1>1, SameRequests, QueueIsBorn DEF resolver
<1>9. Alike(job[j], n)
  BY <1>3, JobIs, Updates
<1> HIDE DEF j, n
<1>10. HandsOver({Head(calls)}, {})
  BY <1>2, CallsByName DEF HandsOver, Owed, Tells
<1>11. JoinInv'
  BY <1>1, <1>6, <1>9, <1>10, CalmStep
<1> QED BY <1>1, <1>5, <1>6, <1>7, <1>8, <1>11, Settling

\* OnJobFinished gives back the last slot, and may start another job.
LEMMA SlotFinishedKeeps ==
  ASSUME ResolverInv, SlotFinished
  PROVE  ResolverInv'
<1> DEFINE j == Head(calls).j
           n == [job[j] EXCEPT !.slots = 0]
<1>1. /\ Calling("finish slot") /\ job' = [job EXCEPT ![j] = n] /\ calls' = Started \o Rest
      /\ D!OnJobFinished(<<j, 1>>) /\ UNCHANGED <<resolver, req>>
  BY DEF SlotFinished
<1>2. calls # <<>> /\ Idle(Head(calls)) /\ j \in Born
  BY <1>1, HeadIs, CallsByName, BornCalls DEF ForOne
<1>3. j \in Request
  BY <1>2 DEF Born
<1>4. Settles(j, n)
  BY <1>2, <1>3, JobIs DEF Settles, Jobs, Born
<1>5. DispatcherDoes(Born \X {1, 2})
  BY <1>1, Taking, QueueIsBorn
<1>6. IsSeq(Started) /\ \A f \in ToSet(Started) : Idle(f) /\ FrameIsBorn(f, Born)
  BY <1>5, StartedIsIdle
<1>7. Replaced({Head(calls)}, ToSet(Started))
  BY <1>1, <1>2, <1>6, PlainReturn DEF Idle
<1>8. TakeOver({Head(calls)}, ToSet(Started), j, n)
  BY <1>2, <1>6, IdleTakeOver
<1>9. RequestsAre /\ UNCHANGED <<jobs, cache, around, config>>
  BY <1>1, SameRequests DEF resolver
<1>10. Alike(job[j], n)
  BY <1>3, JobIs, Updates
<1> HIDE DEF j, n
<1>11. HandsOver({Head(calls)}, ToSet(Started))
  BY <1>2, <1>6, IdleHandsOver DEF Idle
<1>12. JoinInv'
  BY <1>1, <1>7, <1>10, <1>11, CalmStep
<1> QED BY <1>1, <1>4, <1>5, <1>7, <1>8, <1>9, <1>12, Settling

\* The second transaction of a DnsTask.
LEMMA SecondStartedKeeps ==
  ASSUME ResolverInv, SecondStarted
  PROVE  ResolverInv'
<1> DEFINE j == Head(calls).j
           x == IF job[j].aaaa = "none" THEN "started" ELSE job[j].aaaa
           n == [job[j] EXCEPT !.aaaa = x]
<1>1. Calling("second") /\ job' = [job EXCEPT ![j] = n] /\ calls' = Rest
      /\ UNCHANGED <<dispatcher, resolver, req>>
  BY DEF SecondStarted
<1>2. calls # <<>> /\ Idle(Head(calls)) /\ j \in Born
  BY <1>1, HeadIs, CallsByName, BornCalls DEF ForOne
<1>3. j \in Request
  BY <1>2 DEF Born
<1>8. job[j] \in Jobs /\ x \in {"none", "started", "done"}
  BY <1>3, JobIs DEF Jobs
<1>9. Alike(job[j], n) /\ n.since = job[j].since /\ n.task = job[j].task
  BY <1>8, Updates
<1>4. Settles(j, n)
  BY <1>2, <1>9, AlikeSettles
<1>5. Replaced({Head(calls)}, {})
  BY <1>1, <1>2, PlainReturn
<1>6. TakeOver({Head(calls)}, {}, j, n)
  BY <1>2, IdleTakeOver
<1>7. RequestsAre /\ DispatcherDoes(Born \X {1, 2}) /\ UNCHANGED <<jobs, cache, around, config>>
  BY <1>1, SameRequests, QueueIsBorn DEF resolver
<1> HIDE DEF j, n
<1>10. HandsOver({Head(calls)}, {})
  BY <1>2, IdleHandsOver
<1>11. JoinInv'
  BY <1>1, <1>5, <1>9, <1>10, CalmStep
<1> QED BY <1>1, <1>4, <1>5, <1>6, <1>7, <1>11, Settling

\* A call that is idle just returns.
LEMMA IdleReturns ==
  ASSUME ResolverInv, CallbackReturns \/ LifeCheck
  PROVE  ResolverInv'
<1>1. /\ \E what \in {"callback", "restore", "hosts begin", "hosts"} : Calling(what)
      /\ calls' = Rest /\ UNCHANGED <<dispatcher, resolver, job, req>>
  BY DEF CallbackReturns, LifeCheck
<1>2. calls # <<>> /\ Idle(Head(calls))
  BY <1>1, HeadIs, CallsByName
<1>3. Replaced({Head(calls)}, {})
  BY <1>1, <1>2, PlainReturn
<1>4. TakeOver({Head(calls)}, {}, NoRequest, NoJob)
  BY <1>2, IdleTakeOver
<1>5. RequestsAre /\ DispatcherDoes(Born \X {1, 2}) /\ UNCHANGED <<jobs, cache, around, config>>
  BY <1>1, SameRequests, QueueIsBorn DEF resolver
<1>6. HandsOver({Head(calls)}, {})
  BY <1>2, IdleHandsOver
<1>7. JoinInv'
  BY <1>1, <1>3, <1>6, CalmCalls
<1> QED BY <1>1, <1>3, <1>4, <1>5, <1>7, SettlingCalls

\* LimitsRestored and LimitsLoopGoesOn.
LEMMA LimitsKeep ==
  ASSUME ResolverInv, LimitsRestored \/ LimitsLoopGoesOn
  PROVE  ResolverInv'
<1>1. /\ \E what \in {"restore", "limits loop"} : Calling(what)
      /\ D!SetLimitsLoop \/ \E limits : D!SetLimits(limits)
      /\ \E loop \in {<<LimitsLoop>>, <<>>} : calls' = Started \o loop \o Rest
      /\ UNCHANGED <<resolver, job, req>>
  BY DEF LimitsRestored, LimitsLoopGoesOn
<1>2. PICK loop \in {<<LimitsLoop>>, <<>>} : calls' = Started \o loop \o Rest
  BY <1>1
<1>3. calls # <<>> /\ Idle(Head(calls))
  BY <1>1, HeadIs, CallsByName
<1>4. DispatcherDoes(Born \X {1, 2})
  BY <1>1, Taking, QueueIsBorn
<1>5. IsSeq(Started) /\ \A f \in ToSet(Started) : Idle(f) /\ FrameIsBorn(f, Born)
  BY <1>4, StartedIsIdle
<1>6. IsSeq(loop) /\ \A f \in ToSet(loop) : Idle(f) /\ FrameIsBorn(f, Born)
  BY Short, IdleCalls
<1>11. IsSeq(Started \o loop) /\ ToSet(Started \o loop) = ToSet(Started) \cup ToSet(loop)
  BY <1>5, <1>6, Joining
<1>7. IsSeq(Started \o loop) /\ \A f \in ToSet(Started \o loop) : Idle(f) /\ FrameIsBorn(f, Born)
  BY <1>5, <1>6, <1>11
<1>8. Replaced({Head(calls)}, ToSet(Started \o loop))
  BY <1>2, <1>3, <1>7, PlainReturn DEF Idle
<1>9. TakeOver({Head(calls)}, ToSet(Started \o loop), NoRequest, NoJob)
  BY <1>3, <1>7, IdleTakeOver
<1>10. RequestsAre /\ UNCHANGED <<jobs, cache, around, config>>
  BY <1>1, SameRequests DEF resolver
<1>12. HandsOver({Head(calls)}, ToSet(Started \o loop))
  BY <1>3, <1>7, IdleHandsOver DEF Idle
<1>13. JoinInv'
  BY <1>1, <1>8, <1>12, CalmCalls
<1> QED BY <1>1, <1>4, <1>8, <1>9, <1>10, <1>13, SettlingCalls

\* The end of a DnsTask, for the job.
LEMMA KilledIs ==
  ASSUME NEW b \in Jobs
  PROVE  /\ Alike(b, Reduced(b)) /\ Reduced(b).since = b.since /\ Reduced(b).task = b.task
         /\ Alike(b, Killed(b)) /\ Killed(b).since = b.since /\ Killed(b).task = "none"
         /\ \A x \in BOOLEAN : LET n == [Killed(b) EXCEPT !.dns_error = x] IN
              Alike(b, n) /\ n.since = b.since /\ n.task = "none"
         /\ LET n == [Killed(b) EXCEPT !.dns_error = FALSE, !.task = "proc"] IN
              Alike(b, n) /\ n.since = b.since /\ n.task = "proc"
<1> DEFINE Same(c, n) == Alike(c, n) /\ n.since = c.since
<1>0. \A c \in Jobs : \A n, m : Same(c, n) /\ Same(n, m) => n \in Jobs /\ Same(c, m)
  BY DEF Alike
<1>1. PICK h : h = [b EXCEPT !.handle = FALSE]
  OBVIOUS
<1>2. Same(b, h) /\ h.task = b.task
  BY <1>1, Updates
<1>3. PICK r : r = [h EXCEPT !.slots = 1]
  OBVIOUS
<1>4. h \in Jobs /\ 1 \in Nat
  BY <1>2 DEF Alike
<1>5. Same(h, r) /\ r.task = h.task
  BY <1>3, <1>4, Updates
<1>6. r = Reduced(b)
  BY <1>1, <1>3 DEF Reduced
<1>7. r \in Jobs
  BY <1>5 DEF Alike
<1>8. PICK t : t = [r EXCEPT !.task = "none"]
  OBVIOUS
<1>9. Same(r, t) /\ t.task = "none"
  BY <1>7, <1>8, Updates
<1>10. t \in Jobs
  BY <1>9 DEF Alike
<1>11. PICK a : a = [t EXCEPT !.a = "none"]
  OBVIOUS
<1>12. Same(t, a) /\ a.task = "none"
  BY <1>9, <1>10, <1>11, Updates
<1>13. a \in Jobs
  BY <1>12 DEF Alike
<1>14. PICK k : k = [a EXCEPT !.aaaa = "none"]
  OBVIOUS
<1>15. Same(a, k) /\ k.task = "none"
  BY <1>12, <1>13, <1>14, Updates
<1>16. k \in Jobs
  BY <1>15 DEF Alike
<1>17. k = Killed(b)
  BY <1>6, <1>8, <1>11, <1>14 DEF Killed
<1>18. \A x \in BOOLEAN : Same(k, [k EXCEPT !.dns_error = x]) /\ [k EXCEPT !.dns_error = x].task = "none"
  BY <1>15, <1>16, Updates
<1>19. PICK d : d = [k EXCEPT !.dns_error = FALSE]
  OBVIOUS
<1>20. Same(k, d)
  BY <1>18, <1>19
<1>21. d \in Jobs
  BY <1>20 DEF Alike
<1>22. Same(d, [d EXCEPT !.task = "proc"]) /\ [d EXCEPT !.task = "proc"].task = "proc"
  BY <1>21, Updates
<1>23. [d EXCEPT !.task = "proc"] = [Killed(b) EXCEPT !.dns_error = FALSE, !.task = "proc"]
  BY <1>17, <1>19
<1> HIDE DEF Same
<1>24. Same(b, r) /\ Same(b, t)
  BY <1>0, <1>2, <1>5, <1>9
<1>25. Same(b, k)
  BY <1>0, <1>24, <1>12, <1>15
<1>26. /\ \A x \in BOOLEAN : Same(b, [k EXCEPT !.dns_error = x])
       /\ Same(b, d)
  BY <1>0, <1>25, <1>18, <1>20
<1>27. Same(b, [d EXCEPT !.task = "proc"])
  BY <1>0, <1>26, <1>22
<1>28. Same(b, Reduced(b)) /\ Reduced(b).task = b.task
  BY <1>24, <1>2, <1>5, <1>6
<1>29. Same(b, Killed(b)) /\ Killed(b).task = "none"
  BY <1>25, <1>15, <1>17
<1>30. \A x \in BOOLEAN : Same(b, [Killed(b) EXCEPT !.dns_error = x])
                          /\ [Killed(b) EXCEPT !.dns_error = x].task = "none"
  BY <1>26, <1>17, <1>18
<1>31. /\ Same(b, [Killed(b) EXCEPT !.dns_error = FALSE, !.task = "proc"])
       /\ [Killed(b) EXCEPT !.dns_error = FALSE, !.task = "proc"].task = "proc"
  BY <1>27, <1>22, <1>23
<1> QED BY <1>28, <1>29, <1>30, <1>31 DEF Same

\* The dispatcher takes back what a job had or waited for.
LEMMA Reducing ==
  ASSUME ResolverInv, NEW j, ReduceToOneJobSlot(j)
  PROVE  DispatcherDoes(Born \X {1, 2})
<1>1. \/ \E s : D!Cancel(s) \/ D!OnJobFinished(s)
      \/ UNCHANGED dispatcher
  BY DEF ReduceToOneJobSlot
<1> QED BY <1>1, Taking, QueueIsBorn

\* The greatest of some priorities, and the least of some keys.
LEMMA GreatestPriority ==
  ASSUME NEW T, T \subseteq Priority, T # {}
  PROVE  Max(T) \in Priority
<1>1. NumPriorities - 1 \in Nat /\ Priority = 0 .. (NumPriorities - 1)
  BY HostResolverAssumption DEF Priority
<1>2. \E x \in T : \A y \in T : x >= y
  BY <1>1, GreatestNat
<1>3. Max(T) \in T
  BY <1>2 DEF Max
<1> QED BY <1>3

\* The same for the least key of a set.
LEMMA LeastKey ==
  ASSUME NEW T, T \subseteq Key, T # {}
  PROVE  Min(T) \in T
<1>1. Key \subseteq Nat
  BY HostResolverAssumption DEF Key
<1>2. \E x \in T : \A y \in T : x <= y
  BY <1>1, LeastNat
<1> QED BY <1>2 DEF Min

\* UpdatePriority makes idle calls only.
LEMMA Updating ==
  ASSUME ResolverInv, NEW j \in Born, NEW b, b.prio \in Priority, NEW then, IsSeq(then),
         UpdatePriority(j, b, then)
  PROVE  /\ DispatcherDoes(Born \X {1, 2})
         /\ \E new : /\ IsSeq(new) /\ calls' = new \o then
                     /\ \A f \in ToSet(new) : Idle(f) /\ FrameIsBorn(f, Born)
<1> DEFINE s == <<j, b.slots + 1>>
<1>1. CASE b.handle /\ PriorityOf(queue, s) # b.prio
  <2>1. /\ D!ChangePriority(s, b.prio)
        /\ \E c \in {<<>>, <<ClearHandle(j)>>} : calls' = Started \o c \o then
    BY <1>1 DEF UpdatePriority
  <2>2. PICK c \in {<<>>, <<ClearHandle(j)>>} : calls' = Started \o c \o then
    BY <2>1
  <2>3. DispatcherDoes(Born \X {1, 2})
    BY <2>1, Taking, QueueIsBorn
  <2>4. IsSeq(Started) /\ \A f \in ToSet(Started) : Idle(f) /\ FrameIsBorn(f, Born)
    BY <2>3, StartedIsIdle
  <2>5. IsSeq(c) /\ \A f \in ToSet(c) : Idle(f) /\ FrameIsBorn(f, Born)
    BY Short, IdleCalls
  <2>6. IsSeq(Started \o c) /\ ToSet(Started \o c) = ToSet(Started) \cup ToSet(c)
    BY <2>4, <2>5, Joining
  <2> QED BY <2>2, <2>3, <2>4, <2>5, <2>6
<1>2. CASE ~ (b.handle /\ PriorityOf(queue, s) # b.prio)
  <2>1. calls' = then /\ UNCHANGED dispatcher
    BY <1>2 DEF UpdatePriority
  <2>2. calls' = <<>> \o then
    BY <2>1, ConcatEmptySeq DEF IsSeq
  <2> QED BY <2>1, <2>2, Short, QueueIsBorn
<1> QED BY <1>1, <1>2

\* A request is taken out of the list of its job.
LEMMA RemoveFirstType ==
  ASSUME NEW S, NEW s \in Seq(S), NEW e
  PROVE  RemoveFirst(s, e) \in Seq(S)
<1>1. CASE \E i \in 1 .. Len(s) : s[i] = e
  <2> DEFINE I == {i \in 1 .. Len(s) : s[i] = e}
  <2>1. I \subseteq Nat /\ I # {} /\ Len(s) \in Nat
    BY <1>1, LenProperties
  <2>2. \E x \in I : \A y \in I : x <= y
    BY <2>1, LeastNat
  <2>3. Min(I) \in I
    BY <2>2 DEF Min
  <2>4. RemoveFirst(s, e) = RemoveAt(s, Min(I))
    BY <1>1, <2>1 DEF RemoveFirst, SelectInSeq
  <2>5. PICK m \in 1 .. Len(s) : RemoveFirst(s, e) = SubSeq(s, 1, m - 1) \o SubSeq(s, m + 1, Len(s))
    BY <2>3, <2>4 DEF RemoveAt
  <2>6. SubSeq(s, 1, m - 1) \in Seq(S) /\ SubSeq(s, m + 1, Len(s)) \in Seq(S)
    <3>1. m - 1 \in Int /\ m + 1 \in Int /\ Len(s) \in Int /\ 1 \in Int
      BY <2>1
    <3>2. (\A i \in 1 .. m - 1 : s[i] \in S) /\ (\A i \in m + 1 .. Len(s) : s[i] \in S)
      BY <2>1, ElementOfSeq
    <3> QED BY <3>1, <3>2, SubSeqProperties
  <2> QED BY <2>5, <2>6, ConcatProperties
<1>2. CASE ~ \E i \in 1 .. Len(s) : s[i] = e
  BY <1>2 DEF RemoveFirst
<1> QED BY <1>1, <1>2

\* The calls that are not idle, one by one: Complete,
LEMMA CompleteIs ==
  ASSUME NEW j, NEW r
  PROVE  LET f == Complete(j, r) IN
         /\ f.call = "complete" /\ ~ Enters(f) /\ Leaves(f) = {}
         /\ \A i : /\ Owns(f, i) <=> i = j
                   /\ Ends(f, i) <=> i = j
                   /\ Fresh(f, i) <=> i = j /\ r = "ok"
         /\ \A B : FrameIsBorn(f, B) <=> j \in B /\ r \in Result
<1> DEFINE f == Complete(j, r)
<1>1. f.call = "complete" /\ f.j = j /\ f.result = r
  BY DEF Complete
<1> HIDE DEF f
<1>2. ~ Enters(f) /\ Leaves(f) = {}
  BY <1>1 DEF Enters, Leaves
<1>3. ASSUME NEW i
      PROVE  /\ Owns(f, i) <=> i = j
             /\ Ends(f, i) <=> i = j
             /\ Fresh(f, i) <=> i = j /\ r = "ok"
  BY <1>1, <1>2 DEF Owns, Ends, Fresh
<1>4. ASSUME NEW B PROVE FrameIsBorn(f, B) <=> j \in B /\ r \in Result
  BY <1>1 DEF FrameIsBorn, ForOne, ForMany
<1> QED BY <1>1, <1>2, <1>3, <1>4 DEF f

\* Callbacks,
LEMMA CallbacksIs ==
  ASSUME NEW j, NEW r
  PROVE  LET f == Callbacks(j, r) IN
         /\ f.call = "callbacks" /\ ~ Enters(f) /\ Leaves(f) = {j}
         /\ \A i : /\ Owns(f, i) <=> i = j
                   /\ Fresh(f, i) <=> i = j /\ r = "ok"
         /\ \A B : FrameIsBorn(f, B) <=> j \in B /\ r \in Result
<1> DEFINE f == Callbacks(j, r)
<1>1. f.call = "callbacks" /\ f.j = j /\ f.result = r
  BY DEF Callbacks
<1> HIDE DEF f
<1>2. ~ Enters(f) /\ Leaves(f) = {j}
  BY <1>1 DEF Enters, Leaves
<1>3. ASSUME NEW i
      PROVE  /\ Owns(f, i) <=> i = j
             /\ Fresh(f, i) <=> i = j /\ r = "ok"
  BY <1>1, <1>2 DEF Owns, Fresh
<1>4. ASSUME NEW B PROVE FrameIsBorn(f, B) <=> j \in B /\ r \in Result
  BY <1>1 DEF FrameIsBorn, ForOne, ForMany
<1> QED BY <1>1, <1>2, <1>3, <1>4 DEF f

\* StartProc, Overflow and Attach,
LEMMA StartProcIs ==
  ASSUME NEW j
  PROVE  LET f == StartProc(j) IN
         /\ f.call = "start proc" /\ ~ Enters(f) /\ Leaves(f) = {}
         /\ \A i : Fresh(f, i) <=> i = j
         /\ \A B : FrameIsBorn(f, B) <=> j \in B
<1> DEFINE f == StartProc(j)
<1>1. f.call = "start proc" /\ f.j = j
  BY DEF StartProc
<1> HIDE DEF f
<1>2. ~ Enters(f) /\ Leaves(f) = {} /\ \A i : Fresh(f, i) <=> i = j
  BY <1>1 DEF Enters, Leaves, Fresh
<1>3. ASSUME NEW B PROVE FrameIsBorn(f, B) <=> j \in B
  BY <1>1 DEF FrameIsBorn, ForOne, ForMany
<1> QED BY <1>1, <1>2, <1>3 DEF f

\* which put a job into jobs_,
LEMMA OverflowIs ==
  ASSUME NEW j
  PROVE  LET f == Overflow(j) IN
         /\ f.call = "overflow" /\ f.j = j /\ Enters(f) /\ Leaves(f) = {}
         /\ \A i : (Owns(f, i) <=> i = j) /\ ~ Fresh(f, i)
         /\ \A B : FrameIsBorn(f, B) <=> j \in B
<1> DEFINE f == Overflow(j)
<1>1. f.call = "overflow" /\ f.j = j
  BY DEF Overflow
<1> HIDE DEF f
<1>2. Enters(f) /\ Leaves(f) = {} /\ \A i : (Owns(f, i) <=> i = j) /\ ~ Fresh(f, i)
  BY <1>1 DEF Enters, Leaves, Fresh, Owns
<1>3. ASSUME NEW B PROVE FrameIsBorn(f, B) <=> j \in B
  BY <1>1 DEF FrameIsBorn, ForOne, ForMany
<1> QED BY <1>1, <1>2, <1>3 DEF f

\* unless it was evicted meanwhile,
LEMMA AttachIs ==
  ASSUME NEW j, NEW e
  PROVE  LET f == Attach(j, e) IN
         /\ f.call = "attach" /\ f.j = j /\ Enters(f) /\ Leaves(f) = {}
         /\ \A i : (Owns(f, i) <=> i = j /\ e # i) /\ ~ Fresh(f, i)
         /\ \A B : FrameIsBorn(f, B) <=> j \in B
<1> DEFINE f == Attach(j, e)
<1>1. f.call = "attach" /\ f.j = j /\ f.evicted = e
  BY DEF Attach
<1> HIDE DEF f
<1>2. Enters(f) /\ Leaves(f) = {} /\ \A i : (Owns(f, i) <=> i = j /\ e # i) /\ ~ Fresh(f, i)
  BY <1>1 DEF Enters, Leaves, Fresh, Owns
<1>3. ASSUME NEW B PROVE FrameIsBorn(f, B) <=> j \in B
  BY <1>1 DEF FrameIsBorn, ForOne, ForMany
<1> QED BY <1>1, <1>2, <1>3 DEF f

\* the destructors,
LEMMA DestroyIs ==
  ASSUME NEW j
  PROVE  \A f \in {Destroy(j), DestroyOrphan(j)} :
         /\ f.call # "abort dns" /\ ~ Enters(f) /\ Leaves(f) = {j}
         /\ \A i : (Owns(f, i) <=> i = j) /\ (Ends(f, i) <=> i = j) /\ ~ Fresh(f, i)
         /\ \A B : FrameIsBorn(f, B) <=> j \in B
<1> TAKE f \in {Destroy(j), DestroyOrphan(j)}
<1>1. f.call \in {"destroy", "destroy orphan"} /\ f.j = j
  <2>1. Destroy(j).call = "destroy" /\ Destroy(j).j = j
    BY DEF Destroy
  <2>2. DestroyOrphan(j).call = "destroy orphan" /\ DestroyOrphan(j).j = j
    BY DEF DestroyOrphan
  <2> QED BY <2>1, <2>2
<1>2. ~ Enters(f) /\ Leaves(f) = {j}
  BY <1>1 DEF Enters, Leaves
<1>3. \A i : (Owns(f, i) <=> i = j) /\ (Ends(f, i) <=> i = j) /\ ~ Fresh(f, i)
  BY <1>1, <1>2 DEF Fresh, Owns, Ends
<1>4. ASSUME NEW B PROVE FrameIsBorn(f, B) <=> j \in B
  BY <1>1 DEF FrameIsBorn, ForOne, ForMany
<1> QED BY <1>1, <1>2, <1>3, <1>4

\* and the loops over lists of jobs.
LEMMA AbortIs ==
  ASSUME NEW js
  PROVE  LET f == AbortJobs(js) IN
         /\ f.call = "abort" /\ ~ Enters(f) /\ Leaves(f) = ToSet(js)
         /\ \A i : /\ Owns(f, i) <=> i \in ToSet(js)
                   /\ Ends(f, i) <=> i \in ToSet(js)
                   /\ ~ Fresh(f, i)
         /\ \A B : FrameIsBorn(f, B) <=> js \in Seq(B)
<1> DEFINE f == AbortJobs(js)
<1>1. f.call = "abort" /\ f.js = js
  BY DEF AbortJobs
<1> HIDE DEF f
<1>2. ~ Enters(f) /\ Leaves(f) = ToSet(js)
  BY <1>1 DEF Enters, Leaves
<1>3. ASSUME NEW i
      PROVE  (Owns(f, i) <=> i \in ToSet(js)) /\ (Ends(f, i) <=> i \in ToSet(js)) /\ ~ Fresh(f, i)
  BY <1>1, <1>2 DEF Owns, Ends, Fresh
<1>4. ASSUME NEW B PROVE FrameIsBorn(f, B) <=> js \in Seq(B)
  BY <1>1 DEF FrameIsBorn, ForOne, ForMany
<1> QED BY <1>1, <1>2, <1>3, <1>4 DEF f

\* AbortDns leaves the jobs where they are.
LEMMA AbortDnsIs ==
  ASSUME NEW js
  PROVE  LET f == AbortDns(js) IN
         /\ f.call = "abort dns" /\ f.js = js /\ ~ Enters(f) /\ Leaves(f) = {}
         /\ \A i : ~ Owns(f, i) /\ ~ Ends(f, i) /\ (Fresh(f, i) <=> i \in ToSet(js))
         /\ \A B : FrameIsBorn(f, B) <=> js \in Seq(B)
<1> DEFINE f == AbortDns(js)
<1>1. f.call = "abort dns" /\ f.js = js
  BY DEF AbortDns
<1> HIDE DEF f
<1>2. ~ Enters(f) /\ Leaves(f) = {}
  BY <1>1 DEF Enters, Leaves
<1>3. ASSUME NEW i
      PROVE  ~ Owns(f, i) /\ ~ Ends(f, i) /\ (Fresh(f, i) <=> i \in ToSet(js))
  BY <1>1, <1>2 DEF Owns, Ends, Fresh
<1>4. ASSUME NEW B PROVE FrameIsBorn(f, B) <=> js \in Seq(B)
  BY <1>1 DEF FrameIsBorn, ForOne, ForMany
<1> QED BY <1>1, <1>2, <1>3, <1>4 DEF f

\* The jobs that a list of them names.
LEMMA ListOf ==
  ASSUME NEW B, NEW js \in Seq(B)
  PROVE  /\ ToSet(js) \subseteq B
         /\ js # <<>> => /\ Head(js) \in B /\ Tail(js) \in Seq(B)
                         /\ ToSet(js) = {Head(js)} \cup ToSet(Tail(js))
<1>1. ToSet(js) \subseteq B
  BY ElementOfSeq, LenProperties DEF ToSet
<1>2. ASSUME js # <<>>
      PROVE  Head(js) \in B /\ Tail(js) \in Seq(B) /\ ToSet(js) = {Head(js)} \cup ToSet(Tail(js))
  BY <1>2, HeadTailProperties, Popping DEF IsSeq
<1> QED BY <1>1, <1>2

\* Job::AbortDnsTask: the job goes on with a ProcTask, which begins now.
LEMMA DnsTaskAbortedKeeps ==
  ASSUME ResolverInv, DnsTaskAborted
  PROVE  ResolverInv'
<1> DEFINE js == Head(calls).js
           j == Head(js)
           n == [Killed(job[j]) EXCEPT !.dns_error = FALSE, !.task = "proc"]
<1>1. Calling("abort dns") /\ UNCHANGED <<resolver, req>>
  BY DEF DnsTaskAborted
<1>2. calls # <<>> /\ Head(calls) \in Frames /\ Head(calls).call = "abort dns" /\ js \in Seq(Born)
  BY <1>1, HeadIs, BornCalls DEF ForMany
<1>3. /\ \A i : ~ Owns(Head(calls), i) /\ ~ Ends(Head(calls), i)
      /\ Leaves(Head(calls)) = {}
      /\ \A i : Fresh(Head(calls), i) <=> i \in ToSet(js)
  BY <1>2, CallsByName
<1>4. RequestsAre /\ UNCHANGED <<jobs, cache, around, config>>
  BY <1>1, SameRequests DEF resolver
<1>7. \A N : (\A g \in N : ~ Enters(g)) => HandsOver({Head(calls)}, N)
  BY <1>2, CallsByName DEF HandsOver, Owed, Tells
<1>5. CASE js = <<>>
  <2>1. calls' = Rest /\ job' = job /\ UNCHANGED dispatcher
    BY <1>5 DEF DnsTaskAborted
  <2>2. Replaced({Head(calls)}, {})
    BY <1>2, <2>1, PlainReturn
  <2>3. ToSet(js) = {}
    BY <1>5, Short
  <2>4. TakeOver({Head(calls)}, {}, NoRequest, NoJob)
    BY <1>3, <2>3 DEF TakeOver
  <2>5. DispatcherDoes(Born \X {1, 2})
    BY <2>1, QueueIsBorn
  <2>6. HandsOver({Head(calls)}, {})
    BY <1>7
  <2>7. JoinInv'
    BY <1>1, <2>1, <2>2, <2>6, CalmCalls
  <2> QED BY <1>4, <2>1, <2>2, <2>4, <2>5, <2>7, SettlingCalls
<1>6. CASE js # <<>>
  <2>1. /\ ReduceToOneJobSlot(j) /\ job' = [job EXCEPT ![j] = n]
        /\ calls' = Started \o <<AbortDns(Tail(js))>> \o Rest
    BY <1>6 DEF DnsTaskAborted
  <2>2. j \in Born /\ Tail(js) \in Seq(Born) /\ ToSet(js) = {j} \cup ToSet(Tail(js))
    BY <1>2, <1>6, ListOf
  <2>3. j \in Request
    BY <2>2 DEF Born
  <2>4. \A i \in Alive : i \in ToSet(js) => job[i].since = changes
    BY <1>2, <1>3 DEF ResolverInv, UsesAreFresh
  <2>5. job[j].status = "alive" => job[j].since = changes
    BY <2>2, <2>3, <2>4 DEF Alive
  <2>6. Alike(job[j], n) /\ n.since = job[j].since /\ n.task = "proc"
    BY <2>3, JobIs, KilledIs
  <2>7. Settles(j, n)
    <3> HIDE DEF n, j
    <3> QED BY <2>2, <2>3, <2>5, <2>6, JobIs DEF Settles, Alike, Born
  <2> HIDE DEF n, j
  <2>8. DispatcherDoes(Born \X {1, 2})
    BY <2>1, Reducing
  <2>9. IsSeq(Started) /\ \A f \in ToSet(Started) : Idle(f) /\ FrameIsBorn(f, Born)
    BY <2>8, StartedIsIdle
  <2>10. PICK a : a = AbortDns(Tail(js))
    OBVIOUS
  <2>11. a.call = "abort dns" /\ a.js = Tail(js)
    BY <2>10, AbortDnsIs
  <2>12. /\ ~ Enters(a) /\ Leaves(a) = {} /\ FrameIsBorn(a, Born)
         /\ \A i : Fresh(a, i) <=> i \in ToSet(Tail(js))
    BY <2>2, <2>10, AbortDnsIs
  <2>16. IsSeq(<<a>>) /\ ToSet(<<a>>) = {a}
    BY Short
  <2>13. /\ IsSeq(Started \o <<a>>) /\ ToSet(Started \o <<a>>) = ToSet(Started) \cup {a}
         /\ calls' = (Started \o <<a>>) \o Rest
    BY <2>1, <2>9, <2>10, <2>16, Joining
  <2>14. Replaced({Head(calls)}, ToSet(Started) \cup {a})
    <3>1. \A f \in ToSet(Started \o <<a>>) : ~ Enters(f)
      BY <2>9, <2>12, <2>13 DEF Idle
    <3> QED BY <1>2, <2>13, <3>1, PlainReturn
  <2>15. TakeOver({Head(calls)}, ToSet(Started) \cup {a}, j, n)
    BY <1>3, <2>2, <2>4, <2>6, <2>9, <2>11, <2>12 DEF TakeOver, Idle
  <2>17. JoinInv'
    BY <1>1, <1>7, <2>1, <2>6, <2>9, <2>12, <2>14, CalmStep DEF Idle
  <2> QED BY <1>4, <2>1, <2>7, <2>8, <2>14, <2>15, <2>17, Settling
<1> QED BY <1>5, <1>6

\* Calls are put into a list by name.
LEMMA OrphansOf ==
  ASSUME NEW B, NEW js \in Seq(B)
  PROVE  LET new == [i \in DOMAIN js |-> DestroyOrphan(js[i])]
             end == [i \in DOMAIN js |-> Destroy(js[i])] IN
         /\ IsSeq(new) /\ ToSet(new) = {DestroyOrphan(j) : j \in ToSet(js)}
         /\ IsSeq(end) /\ ToSet(end) = {Destroy(j) : j \in ToSet(js)}
<1>1. DOMAIN js = 1 .. Len(js) /\ Len(js) \in Nat
  BY LenProperties
<1> DEFINE new == [i \in DOMAIN js |-> DestroyOrphan(js[i])]
           end == [i \in DOMAIN js |-> Destroy(js[i])]
<1>2. /\ DOMAIN new = DOMAIN js /\ \A i \in DOMAIN js : new[i] = DestroyOrphan(js[i])
      /\ DOMAIN end = DOMAIN js /\ \A i \in DOMAIN js : end[i] = Destroy(js[i])
  OBVIOUS
<1>3. ToSet(new) = {DestroyOrphan(j) : j \in ToSet(js)} /\ ToSet(end) = {Destroy(j) : j \in ToSet(js)}
  BY <1>2 DEF ToSet
<1>4. new \in Seq(ToSet(new)) /\ end \in Seq(ToSet(end))
  <2>1. /\ new \in [1 .. Len(js) -> ToSet(new)]
        /\ end \in [1 .. Len(js) -> ToSet(end)]
    BY <1>1, <1>2 DEF ToSet
  <2> HIDE DEF new, end
  <2> QED BY <1>1, <2>1, IsASeq
<1> QED BY <1>3, <1>4 DEF IsSeq

\* Job::Abort: the jobs complete one after the other, or are deleted.
LEMMA JobAbortedKeeps ==
  ASSUME ResolverInv, JobAborted
  PROVE  ResolverInv'
<1> DEFINE js == Head(calls).js
<1>1. Calling("abort") /\ UNCHANGED <<dispatcher, resolver, job, req>>
  BY DEF JobAborted
<1>2. calls # <<>> /\ Head(calls).call = "abort" /\ js \in Seq(Born)
  BY <1>1, HeadIs, BornCalls DEF ForMany
<1>3. /\ \A i : /\ Owns(Head(calls), i) <=> i \in ToSet(js)
                /\ Ends(Head(calls), i) <=> i \in ToSet(js)
      /\ Leaves(Head(calls)) = ToSet(js)
  BY <1>2, CallsByName
<1>4. /\ RequestsAre /\ DispatcherDoes(Born \X {1, 2}) /\ job' = job
      /\ UNCHANGED <<jobs, cache, around, config>>
  BY <1>1, SameRequests, QueueIsBorn DEF resolver
<1>5. ASSUME NEW N, Replaced({Head(calls)}, N), \A g \in N : FrameIsBorn(g, Born),
             \A i \in ToSet(js) : \E g \in N : Owns(g, i) /\ Ends(g, i),
             \A g \in N : ~ Enters(g) /\ Leaves(g) \subseteq ToSet(js) /\ \A i : ~ Fresh(g, i)
      PROVE  ResolverInv'
  <2>1. TakeOver({Head(calls)}, N, NoRequest, NoJob)
    BY <1>2, <1>3, <1>5 DEF TakeOver
  <2>2. HandsOver({Head(calls)}, N)
    BY <1>2, <1>3, <1>5, CallsByName DEF HandsOver, Owed, Tells
  <2>3. JoinInv'
    BY <1>1, <1>5, <2>2, CalmCalls
  <2> QED BY <1>4, <1>5, <2>1, <2>3, SettlingCalls
<1>6. CASE destroyed
  <2>1. PICK new : new = [i \in DOMAIN js |-> DestroyOrphan(js[i])]
    OBVIOUS
  <2>2. calls' = new \o Rest
    BY <1>6, <2>1 DEF JobAborted
  <2>3. IsSeq(new) /\ ToSet(new) = {DestroyOrphan(j) : j \in ToSet(js)}
    BY <1>2, <2>1, OrphansOf
  <2>4. ASSUME NEW j \in ToSet(js)
        PROVE  LET g == DestroyOrphan(j) IN
               /\ ~ Enters(g) /\ Leaves(g) = {j} /\ Owns(g, j) /\ Ends(g, j)
               /\ (\A i : ~ Fresh(g, i)) /\ FrameIsBorn(g, Born)
    <3>1. j \in Born
      BY <1>2, ListOf
    <3> QED BY <3>1, DestroyIs
  <2> HIDE DEF js
  <2>5. Replaced({Head(calls)}, ToSet(new))
    BY <1>2, <2>2, <2>3, <2>4, PlainReturn
  <2> QED BY <1>5, <2>3, <2>4, <2>5
<1>7. CASE ~ destroyed /\ js = <<>>
  <2>1. calls' = Rest
    BY <1>7 DEF JobAborted
  <2>2. Replaced({Head(calls)}, {}) /\ ToSet(js) = {}
    BY <1>2, <1>7, <2>1, PlainReturn, Short
  <2> QED BY <1>5, <2>2
<1>8. CASE ~ destroyed /\ js # <<>>
  <2>1. PICK c, a : c = Complete(Head(js), "network changed") /\ a = AbortJobs(Tail(js))
    OBVIOUS
  <2>2. calls' = <<c, a>> \o Rest
    BY <1>8, <2>1 DEF JobAborted
  <2>3. Head(js) \in Born /\ Tail(js) \in Seq(Born) /\ ToSet(js) = {Head(js)} \cup ToSet(Tail(js))
    BY <1>2, <1>8, ListOf
  <2>5. /\ ~ Enters(c) /\ Leaves(c) = {} /\ Owns(c, Head(js)) /\ Ends(c, Head(js))
        /\ (\A i : ~ Fresh(c, i)) /\ FrameIsBorn(c, Born)
    BY <2>1, <2>3, CompleteIs DEF Result
  <2>6. /\ ~ Enters(a) /\ Leaves(a) = ToSet(Tail(js))
        /\ \A i : (i \in ToSet(Tail(js)) => Owns(a, i) /\ Ends(a, i)) /\ ~ Fresh(a, i)
        /\ FrameIsBorn(a, Born)
    BY <2>1, <2>3, AbortIs
  <2>7. IsSeq(<<c, a>>) /\ ToSet(<<c, a>>) = {c, a}
    BY Short
  <2>8. Replaced({Head(calls)}, {c, a})
    BY <1>2, <2>2, <2>5, <2>6, <2>7, PlainReturn
  <2> HIDE DEF js
  <2> QED BY <1>5, <2>3, <2>5, <2>6, <2>8
<1> QED BY <1>6, <1>7, <1>8

\* Check for queue overflow: the evicted job completes before the other is attached.
LEMMA EvictOnOverflowKeeps ==
  ASSUME ResolverInv, EvictOnOverflow
  PROVE  ResolverInv'
<1> DEFINE r == Head(calls).j
           e == FirstMin(queue)[1]
           n == [job[e] EXCEPT !.handle = FALSE]
<1>1. Calling("overflow") /\ UNCHANGED <<resolver, req>>
  BY DEF EvictOnOverflow
<1>2. calls # <<>> /\ Head(calls).call = "overflow" /\ r \in Born
  BY <1>1, HeadIs, BornCalls DEF ForOne
<1>3. /\ Enters(Head(calls)) /\ Leaves(Head(calls)) = {}
      /\ \A i : ~ Ends(Head(calls), i) /\ (Owns(Head(calls), i) <=> i = r)
  BY <1>2, CallsByName
<1>4. RequestsAre /\ UNCHANGED <<jobs, cache, around, config>>
  BY <1>1, SameRequests DEF resolver
<1>5. IsSeq(calls) /\ EntersFirst
  BY DEF ResolverInv, Typed
<1>6. CASE size(queue) > MaxQueued
  <2>1. /\ D!EvictOldestLowest /\ job' = [job EXCEPT ![e] = n]
        /\ calls' = <<Complete(e, "evicted"), Attach(r, e)>> \o Rest
    BY <1>6 DEF EvictOnOverflow
  <2>2. e \in Born
    <3>1. ~ empty(queue)
      BY <2>1, SameQueue DEF D!EvictOldestLowest
    <3>2. FirstMin(queue) \in Born \X {1, 2}
      BY <3>1, QueueEnds, QueueIsBorn
    <3> QED BY <3>2
  <2>3. e \in Request
    BY <2>2 DEF Born
  <2> HIDE DEF r, e
  <2>4. Settles(e, n) /\ Alike(job[e], n)
    <3>1. job[e] \in Jobs
      BY <2>3, JobIs
    <3>2. Alike(job[e], n) /\ n.since = job[e].since /\ n.task = job[e].task
      BY <3>1, Updates
    <3> QED BY <2>2, <3>2, AlikeSettles
  <2> HIDE DEF n
  <2>5. DispatcherDoes(Born \X {1, 2})
    BY <2>1, Taking, QueueIsBorn
  <2> DEFINE c == Complete(e, "evicted")
             a == Attach(r, e)
  <2>6. /\ ~ Enters(c) /\ Leaves(c) = {} /\ Owns(c, e) /\ (\A i : ~ Fresh(c, i))
        /\ FrameIsBorn(c, Born)
    BY <2>2, CompleteIs DEF Result
  <2>7. /\ a.j = r /\ Enters(a) /\ Leaves(a) = {} /\ (\A i : (Owns(a, i) <=> i = r /\ e # i) /\ ~ Fresh(a, i))
        /\ FrameIsBorn(a, Born)
    BY <1>2, AttachIs DEF r
  <2>8. calls' = <<c, a>> \o Rest
    BY <2>1
  <2> HIDE DEF c, a
  <2>9. /\ IsSeq(<<c, a>>) /\ ToSet(<<c, a>>) = {c, a} /\ Len(<<c, a>>) = 2
        /\ <<c, a>>[1] = c /\ <<c, a>>[2] = a /\ DOMAIN <<c, a>> = {1, 2}
    BY Short
  <2>10. Replaced({Head(calls)}, {c, a})
    <3>1. \A i \in DOMAIN <<c, a>> : Enters(<<c, a>>[i]) =>
             i = Len(<<c, a>>) /\ Enters(Head(calls)) /\ <<c, a>>[i].j = Head(calls).j
      BY <1>3, <2>6, <2>7, <2>9 DEF r
    <3> HIDE <2>6, <2>7
    <3> QED BY <1>2, <1>5, <2>8, <2>9, <3>1, Returning
  <2>11. TakeOver({Head(calls)}, {c, a}, e, n)
    BY <1>2, <1>3, <2>6, <2>7 DEF TakeOver
  <2>12. HandsOver({Head(calls)}, {c, a})
    BY <1>2, <1>3, <2>6, <2>7 DEF HandsOver, Owed, Tells, r
  <2>13. JoinInv'
    BY <1>1, <2>1, <2>4, <2>10, <2>12, CalmStep
  <2> QED BY <1>4, <2>1, <2>4, <2>5, <2>10, <2>11, <2>13, Settling
<1>7. CASE ~ (size(queue) > MaxQueued)
  <2>1. calls' = <<Attach(r, NoRequest)>> \o Rest /\ job' = job /\ UNCHANGED dispatcher
    BY <1>7 DEF EvictOnOverflow
  <2>2. r # NoRequest
    BY <1>2, HostResolverAssumption DEF Born
  <2> HIDE DEF r
  <2> DEFINE a == Attach(r, NoRequest)
  <2>3. /\ a.j = r /\ Enters(a) /\ Leaves(a) = {} /\ (\A i : (Owns(a, i) <=> i = r) /\ ~ Fresh(a, i))
        /\ FrameIsBorn(a, Born)
    BY <1>2, <2>2, AttachIs DEF r
  <2>4. calls' = <<a>> \o Rest
    BY <2>1
  <2> HIDE DEF a
  <2>5. IsSeq(<<a>>) /\ ToSet(<<a>>) = {a} /\ Len(<<a>>) = 1 /\ <<a>>[1] = a /\ DOMAIN <<a>> = {1}
    BY Short
  <2>6. Replaced({Head(calls)}, {a})
    <3>1. \A i \in DOMAIN <<a>> : Enters(<<a>>[i]) =>
             i = Len(<<a>>) /\ Enters(Head(calls)) /\ <<a>>[i].j = Head(calls).j
      BY <1>3, <2>3, <2>5 DEF r
    <3> QED BY <1>2, <1>5, <2>4, <2>5, <3>1, Returning
  <2>7. TakeOver({Head(calls)}, {a}, NoRequest, NoJob)
    BY <1>2, <1>3, <2>3 DEF TakeOver
  <2>8. DispatcherDoes(Born \X {1, 2})
    BY <2>1, QueueIsBorn
  <2>9. HandsOver({Head(calls)}, {a})
    BY <1>2, <1>3, <2>3 DEF HandsOver, Owed, Tells, r
  <2>10. JoinInv'
    BY <1>1, <2>1, <2>6, <2>9, CalmCalls
  <2> QED BY <1>4, <2>1, <2>6, <2>7, <2>8, <2>10, SettlingCalls
<1> QED BY <1>6, <1>7

\* The iterator over jobs_ is at a job that is alive.
LEMMA HostsAtIs ==
  ASSUME ResolverInv, NEW keys, keys \subseteq Key
  PROVE  IsSeq(HostsAt(keys)) /\ \A f \in ToSet(HostsAt(keys)) : Idle(f) /\ FrameIsBorn(f, Born)
<1> DEFINE ks == {k \in keys : jobs[k] # NoRequest}
<1>1. CASE ks = {}
  <2>1. HostsAt(keys) = <<>>
    BY <1>1 DEF HostsAt
  <2> QED BY <2>1, Short
<1>2. CASE ks # {}
  <2>1. Min(ks) \in ks
    BY <1>2, LeastKey
  <2>2. PICK k \in keys : jobs[k] # NoRequest /\ k = Min(ks)
    BY <2>1
  <2>3. jobs[k] \in Born
    BY <2>2 DEF ResolverInv, JobsAreRight, Alive, Born
  <2>4. HostsAt(keys) = <<Hosts(jobs[k])>>
    BY <1>2, <2>2 DEF HostsAt
  <2>5. Idle(Hosts(jobs[k])) /\ FrameIsBorn(Hosts(jobs[k]), Born)
    BY <2>3, IdleCalls
  <2>6. IsSeq(<<Hosts(jobs[k])>>) /\ ToSet(<<Hosts(jobs[k])>>) = {Hosts(jobs[k])}
    BY Short
  <2> QED BY <2>4, <2>5, <2>6
<1> QED BY <1>1, <1>2

\* TryServingAllJobsFromHosts begins.
LEMMA HostsBeginKeeps ==
  ASSUME ResolverInv, TryServingAllJobsFromHosts
  PROVE  ResolverInv'
<1>1. Calling("hosts begin") /\ UNCHANGED <<dispatcher, resolver, job, req>>
  BY DEF TryServingAllJobsFromHosts
<1>2. PICK new \in {HostsAt(Key), <<>>} : calls' = new \o Rest
  BY DEF TryServingAllJobsFromHosts
<1>3. calls # <<>> /\ Idle(Head(calls))
  BY <1>1, HeadIs, CallsByName
<1>4. IsSeq(new) /\ \A f \in ToSet(new) : Idle(f) /\ FrameIsBorn(f, Born)
  BY HostsAtIs, Short
<1>5. Replaced({Head(calls)}, ToSet(new))
  BY <1>2, <1>3, <1>4, PlainReturn DEF Idle
<1>6. TakeOver({Head(calls)}, ToSet(new), NoRequest, NoJob)
  BY <1>3, <1>4, IdleTakeOver
<1>7. RequestsAre /\ DispatcherDoes(Born \X {1, 2}) /\ UNCHANGED <<jobs, cache, around, config>>
  BY <1>1, SameRequests, QueueIsBorn DEF resolver
<1>8. HandsOver({Head(calls)}, ToSet(new))
  BY <1>3, <1>4, IdleHandsOver DEF Idle
<1>9. JoinInv'
  BY <1>1, <1>5, <1>8, CalmCalls
<1> QED BY <1>1, <1>5, <1>6, <1>7, <1>9, SettlingCalls

\* Job::ServeFromHosts: the file of hosts is of now.
LEMMA ServeFromHostsKeeps ==
  ASSUME ResolverInv, NEW served, ServeFromHosts(served)
  PROVE  ResolverInv'
<1> DEFINE j == Head(calls).j
           k == job[j].key
           n == [job[j] EXCEPT !.since = changes]
           hosts == HostsAt(k + 1 .. NumKeys)
           c == Complete(j, "ok")
<1>1. Calling("hosts") /\ UNCHANGED <<dispatcher, resolver, req>>
  BY DEF ServeFromHosts
<1>2. calls # <<>> /\ Idle(Head(calls)) /\ j \in Born
  BY <1>1, HeadIs, CallsByName, BornCalls DEF ForOne
<1>3. j \in Request
  BY <1>2 DEF Born
<1>4. job[j] \in Jobs /\ changes \in Nat
  BY <1>3, JobIs DEF ResolverInv, Typed, changes
<1>5. k + 1 .. NumKeys \subseteq Key
  <2>1. k \in Key
    BY <1>4 DEF Jobs
  <2> QED BY <2>1, HostResolverAssumption DEF Key
<1>6. IsSeq(hosts) /\ \A f \in ToSet(hosts) : Idle(f) /\ FrameIsBorn(f, Born)
  BY <1>5, HostsAtIs
<1>7. RequestsAre /\ DispatcherDoes(Born \X {1, 2}) /\ UNCHANGED <<jobs, cache, around, config>>
  BY <1>1, SameRequests, QueueIsBorn DEF resolver
<1>8. CASE served
  <2>1. calls' = <<c>> \o hosts \o Rest /\ job' = [job EXCEPT ![j] = n]
    BY <1>8 DEF ServeFromHosts
  <2>2. Alike(job[j], n) /\ n.since = changes /\ n.task = job[j].task
    BY <1>4, Updates
  <2>3. Settles(j, n)
    BY <1>2, <2>2, AlikeSettles
  <2>4. /\ ~ Enters(c) /\ Leaves(c) = {} /\ (\A i : Fresh(c, i) => i = j)
        /\ FrameIsBorn(c, Born)
    BY <1>2, CompleteIs DEF Result
  <2> HIDE DEF c, n, j, hosts
  <2>5. IsSeq(<<c>>) /\ ToSet(<<c>>) = {c}
    BY Short
  <2>6. IsSeq(<<c>> \o hosts) /\ ToSet(<<c>> \o hosts) = {c} \cup ToSet(hosts)
    BY <1>6, <2>5, Joining
  <2>7. \A f \in ToSet(<<c>> \o hosts) : ~ Enters(f)
    BY <1>6, <2>4, <2>6 DEF Idle
  <2>8. Replaced({Head(calls)}, {c} \cup ToSet(hosts))
    BY <1>2, <2>1, <2>6, <2>7, PlainReturn
  <2>9. TakeOver({Head(calls)}, {c} \cup ToSet(hosts), j, n)
    BY <1>2, <1>6, <2>2, <2>4 DEF TakeOver, Idle
  <2>10. HandsOver({Head(calls)}, {c} \cup ToSet(hosts))
    BY <1>2, <2>6, <2>7, IdleHandsOver
  <2>11. JoinInv'
    BY <1>1, <2>1, <2>2, <2>8, <2>10, CalmStep
  <2> QED BY <1>7, <2>1, <2>3, <2>8, <2>9, <2>11, Settling
<1>9. CASE ~ served
  <2>1. calls' = <<>> \o hosts \o Rest /\ job' = job
    BY <1>9 DEF ServeFromHosts
  <2> HIDE DEF hosts
  <2>2. <<>> \o hosts = hosts
    BY <1>6, ConcatEmptySeq DEF IsSeq
  <2>3. Replaced({Head(calls)}, ToSet(hosts))
    BY <1>2, <1>6, <2>1, <2>2, PlainReturn DEF Idle
  <2>4. TakeOver({Head(calls)}, ToSet(hosts), NoRequest, NoJob)
    BY <1>2, <1>6, IdleTakeOver
  <2>5. HandsOver({Head(calls)}, ToSet(hosts))
    BY <1>2, <1>6, IdleHandsOver DEF Idle
  <2>6. JoinInv'
    BY <1>1, <2>1, <2>3, <2>5, CalmCalls
  <2> QED BY <1>7, <2>1, <2>3, <2>4, <2>6, SettlingCalls
<1> QED BY <1>8, <1>9

\* The client calls: what is called is put on top.
LEMMA ClientCalls ==
  ASSUME ResolverInv, NEW new, IsSeq(new), \A f \in ToSet(new) : ~ Enters(f),
         \/ calls' = new \o calls
         \/ Ready /\ calls' = new
         \/ Ready /\ calls' = new \o <<>>
  PROVE  Replaced({}, ToSet(new))
<1>1. IsSeq(calls) /\ EntersFirst
  BY DEF ResolverInv, Typed
<1>2. new \o <<>> = new
  BY ConcatEmptySeq DEF IsSeq
<1>3. calls' = new \o calls
  BY <1>2 DEF Ready
<1>4. \A i \in DOMAIN new : ~ Enters(new[i])
  BY DEF ToSet
<1> QED BY <1>1, <1>3, <1>4, Stacking

\* A step of the client that changes a job and its priority in the queue.
LEMMA ClientSettles ==
  ASSUME ResolverInv, NEW j \in Born, NEW n, Settles(j, n), job' = [job EXCEPT ![j] = n],
         RequestsAre, UNCHANGED resolver, ListsAreRight', n.popped = job[j].popped,
         \A r \in Request : req'[r].state = "busy" <=> req[r].state = "busy",
         n.requests = <<>> /\ n.status = "alive" =>
           job[j].requests = <<>> \/ \E f \in Frames : Owns(f, j),
         UpdatePriority(j, n, calls) \/ (Ready /\ UpdatePriority(j, n, <<>>))
  PROVE  ResolverInv'
<1>1. n.prio \in Priority
  BY DEF Settles, Jobs
<1>2. IsSeq(calls) /\ IsSeq(<<>>)
  BY Short DEF ResolverInv, Typed
<1>3. /\ DispatcherDoes(Born \X {1, 2})
      /\ \E new : /\ IsSeq(new) /\ (calls' = new \o calls \/ (Ready /\ calls' = new \o <<>>))
                  /\ \A f \in ToSet(new) : Idle(f) /\ FrameIsBorn(f, Born)
  BY <1>1, <1>2, Updating
<1>4. PICK new : /\ IsSeq(new) /\ (calls' = new \o calls \/ (Ready /\ calls' = new \o <<>>))
                 /\ \A f \in ToSet(new) : Idle(f) /\ FrameIsBorn(f, Born)
  BY <1>3
<1>5. Replaced({}, ToSet(new))
  BY <1>4, ClientCalls DEF Idle
<1>6. TakeOver({}, ToSet(new), j, n)
  BY <1>4, IdleTakeOver
<1>7. UNCHANGED <<jobs, cache, around, config>>
  BY DEF resolver
<1>8. HandsOver({}, ToSet(new))
  BY <1>4, IdleHandsOver DEF Idle
<1>9. /\ job'[j] = n /\ j \in Request /\ n.status = job[j].status
      /\ \A i \in Request : i # j => job'[i] = job[i]
  BY DEF Born, Settles, ResolverInv, Typed
<1>10. Frames \subseteq Frames'
  BY <1>5 DEF Replaced
<1>11. \A i \in Alive' : i \in Alive
  BY <1>9 DEF Alive
<1>12. \A i \in Alive' : job'[i].requests = <<>> =>
         job[i].requests = <<>> \/ \E f \in Frames' : Owns(f, i)
  BY <1>9, <1>10 DEF Alive
<1>13. \A i \in Alive' : job'[i].popped > 0 =>
         job[i].popped > 0 \/ \E f \in Frames' : Tells(f, i)
  BY <1>9 DEF Alive
<1>14. JoinInv'
  BY <1>5, <1>8, <1>11, <1>12, <1>13, StillJoined
<1> QED BY <1>3, <1>5, <1>6, <1>7, <1>14, Settling

\* A request is added to a job that is alive.
LEMMA AddedIs ==
  ASSUME ResolverInv, NEW j \in Alive, NEW r \in Request, NEW p \in Priority
  PROVE  LET n == [job[j] EXCEPT !.requests = Append(@, r), !.prio = Max({@, p})] IN
         Settles(j, n) /\ n.popped = job[j].popped /\ n.requests = Append(job[j].requests, r)
<1>1. j \in Request /\ job[j].status = "alive"
  BY DEF Alive
<1>2. job[j] \in Jobs
  BY <1>1, JobIs
<1>3. job[j].prio \in Priority
  BY <1>2 DEF Jobs
<1>4. Max({job[j].prio, p}) \in Priority
  BY <1>3, GreatestPriority
<1>5. Append(job[j].requests, r) \in Seq(Request)
  BY <1>2 DEF Jobs
<1> QED BY <1>1, <1>2, <1>4, <1>5 DEF Settles, Jobs

\* It is in the list of that job then.
LEMMA JoiningList ==
  ASSUME ResolverInv, NEW j \in Request, NEW r \in Request, NEW n,
         n.requests = Append(job[j].requests, r), job' = [job EXCEPT ![j] = n],
         req[r].state # "pending", req'[r].state = "pending", req'[r].job = j,
         \A q \in Request : q # r => req'[q] = req[q]
  PROVE  ListsAreRight' /\ n.requests # <<>>
<1>1. job[j].requests \in Seq(Request)
  BY JobIs DEF Jobs
<1>2. IsInjective(job[j].requests) /\ r \notin ToSet(job[j].requests)
  BY DEF ResolverInv, JoinInv, ListsAreRight
<1>3. /\ IsInjective(n.requests) /\ ToSet(n.requests) = ToSet(job[j].requests) \cup {r}
      /\ n.requests # <<>>
  BY <1>1, <1>2, Appending
<1> QED BY <1>3, OtherList

\* Resolve, if the answer is there, or a job looks it up.
LEMMA ResolveJoins ==
  ASSUME ResolverInv, NEW r \in Request, NEW k \in Key, NEW p \in Priority,
         Resolve(r, k, p), ResolveHelper(r, k) \/ jobs[k] # NoRequest
  PROVE  ResolverInv'
<1>1. ClientMay("resolve") /\ req[r].state = "new" /\ UNCHANGED resolver
  BY DEF Resolve
<1>2. req \in [Request -> Requests]
  BY DEF ResolverInv, Typed
<1>3. CASE ResolveHelper(r, k)
  <2>1. req' = [req EXCEPT ![r].state = "ok"] /\ job' = job /\ calls' = calls /\ UNCHANGED dispatcher
    BY <1>3 DEF ResolveHelper
  <2>2. RequestsAre
    BY <1>2, <2>1 DEF RequestsAre, Requests, Result, ResolverInv, Lives
  <2>3. IsSeq(calls) /\ EntersFirst
    BY DEF ResolverInv, Typed
  <2>4. Replaced({}, {})
    BY <2>1, <2>3, Staying
  <2>5. TakeOver({}, {}, NoRequest, NoJob)
    BY IdleTakeOver
  <2>6. DispatcherDoes(Born \X {1, 2}) /\ UNCHANGED <<jobs, cache, around, config>>
    BY <1>1, <2>1, QueueIsBorn DEF resolver
  <2>7. JoinInv'
    <3>1. HandsOver({}, {})
      BY IdleHandsOver
    <3>2. req'[r].state = "ok" /\ \A q \in Request : q # r => req'[q] = req[q]
      BY <1>2, <2>1 DEF Requests
    <3>3. \A q \in Request : \/ req'[q].state = req[q].state /\ req'[q].job = req[q].job
                             \/ {req[q].state, req'[q].state} \cap {"pending", "busy"} = {}
      BY <1>1, <3>2
    <3>4. NoRequest \notin Request /\ job' = [job EXCEPT ![NoRequest] = NoJob]
      BY <2>1, HostResolverAssumption DEF ResolverInv, Typed
    <3> QED BY <2>4, <3>1, <3>3, <3>4, CalmStep
  <2> QED BY <2>1, <2>2, <2>4, <2>5, <2>6, <2>7, SettlingCalls
<1>4. CASE ~ ResolveHelper(r, k) /\ jobs[k] # NoRequest
  <2> DEFINE j == jobs[k]
             n == [job[j] EXCEPT !.requests = Append(@, r), !.prio = Max({@, p})]
  <2>1. AddRequest(j, job[j], r, p)
    BY <1>4 DEF Resolve
  <2>2. j \in Alive
    BY <1>4 DEF ResolverInv, JobsAreRight
  <2>3. j \in Born /\ j \in Request
    BY <2>2 DEF Alive, Born
  <2>4. /\ job' = [job EXCEPT ![j] = n]
        /\ req' = [req EXCEPT ![r] = [state |-> "pending", job |-> j, prio |-> p]]
    BY <2>1 DEF AddRequest
  <2>5. UpdatePriority(j, n, calls) \/ (Ready /\ UpdatePriority(j, n, <<>>))
    <3>1. UpdatePriority(j, n, IF Ready THEN <<>> ELSE IF Calling("callback") THEN calls ELSE Rest)
      BY <2>1 DEF AddRequest
    <3> HIDE DEF n, j
    <3> QED BY <1>1, <3>1 DEF ClientMay
  <2>6. RequestsAre
    <3>1. [state |-> "pending", job |-> j, prio |-> p] \in Requests
      BY <2>3 DEF Requests
    <3> HIDE DEF n, j
    <3> QED BY <1>2, <2>3, <2>4, <3>1 DEF RequestsAre, ResolverInv, Lives
  <2>7. Settles(j, n) /\ n.popped = job[j].popped /\ n.requests = Append(job[j].requests, r)
    BY <2>2, AddedIs
  <2> HIDE DEF n, j
  <2>8. /\ req'[r].state = "pending" /\ req'[r].job = j
        /\ \A q \in Request : q # r => req'[q] = req[q]
    BY <1>2, <2>4
  <2>9. ListsAreRight' /\ n.requests # <<>>
    BY <1>1, <2>3, <2>4, <2>7, <2>8, JoiningList
  <2>10. \A q \in Request : req'[q].state = "busy" <=> req[q].state = "busy"
    BY <1>1, <2>8
  <2> QED BY <1>1, <2>3, <2>4, <2>5, <2>6, <2>7, <2>9, <2>10, ClientSettles
<1> QED BY <1>3, <1>4

\* The requests that wait, and their jobs.
LEMMA PendingIs ==
  ASSUME ResolverInv, NEW r \in Request, req[r].state = "pending"
  PROVE  /\ req \in [Request -> Requests]
         /\ req[r].job \in Born /\ req[r].job \in Request /\ job[req[r].job] \in Jobs
         /\ \A S : S \subseteq Request => {req[q].prio : q \in S} \subseteq Priority
<1>1. req \in [Request -> Requests] /\ req[r].job \in Born
  BY DEF ResolverInv, Typed, Lives
<1>2. \A q \in Request : req[q].prio \in Priority
  BY <1>1 DEF Requests
<1> QED BY <1>1, <1>2, JobIs DEF Born

\* A request is cancelled: its job goes on for the others, or completes.
LEMMA CancelRequestKeeps ==
  ASSUME ResolverInv, NEW r \in Request, CancelRequest(r)
  PROVE  ResolverInv'
<1> DEFINE j == req[r].job
           left == RemoveFirst(job[j].requests, r)
           prio == Max({0} \cup {req[q].prio : q \in ToSet(left)})
           n == [job[j] EXCEPT !.requests = left, !.prio = prio]
<1>1. /\ ClientMay("cancel") /\ req[r].state = "pending" /\ UNCHANGED resolver
      /\ req' = [req EXCEPT ![r].state = "cancelled", ![r].job = NoRequest]
      /\ job' = [job EXCEPT ![j] = n]
      /\ IF NumActive(n) > 0
           THEN UpdatePriority(j, n, calls)
           ELSE calls' = <<Complete(j, "cancelled")>> \o calls /\ UNCHANGED dispatcher
  BY DEF CancelRequest
<1>2. /\ req \in [Request -> Requests] /\ j \in Born /\ j \in Request /\ job[j] \in Jobs
      /\ \A S : S \subseteq Request => {req[q].prio : q \in S} \subseteq Priority
  BY <1>1, PendingIs
<1>3. RequestsAre
  BY <1>1, <1>2 DEF RequestsAre, Requests, Result, ResolverInv, Lives
<1>4. left \in Seq(Request)
  BY <1>2, RemoveFirstType DEF Jobs
<1>5. prio \in Priority
  <2>1. 0 \in Priority
    BY HostResolverAssumption DEF Priority
  <2>2. ToSet(left) \subseteq Request
    BY <1>4, ListOf
  <2> QED BY <1>2, <2>1, <2>2, GreatestPriority
<1>6. job[j].requests = <<>> => left = <<>>
  <2>1. Len(<<>>) = 0
    BY Short
  <2> QED BY <2>1 DEF RemoveFirst
<1>7. Settles(j, n)
  <2>1. job[j].status # "alive" => left = <<>>
    BY <1>2, <1>6, JobIs
  <2>2. job[j].status # "unborn"
    BY <1>2 DEF Born
  <2> HIDE DEF left, prio, j
  <2> QED BY <1>2, <1>4, <1>5, <2>1, <2>2 DEF Settles, Jobs
<1>10. n.requests = left /\ n.popped = job[j].popped /\ n.status = job[j].status
  BY <1>2 DEF Jobs
<1>11. /\ r \in ToSet(job[j].requests) /\ IsInjective(job[j].requests)
       /\ job[j].requests \in Seq(Request)
  BY <1>1, <1>2 DEF ResolverInv, JoinInv, ListsAreRight, Jobs
<1>12. IsInjective(left) /\ ToSet(left) = ToSet(job[j].requests) \ {r}
  BY <1>11, TakingOne
<1>13. req'[r].state = "cancelled" /\ \A q \in Request : q # r => req'[q] = req[q]
  BY <1>1, <1>2 DEF Requests
<1> HIDE DEF n
<1>14. ListsAreRight'
  <2> HIDE DEF left, j
  <2> QED BY <1>1, <1>2, <1>10, <1>11, <1>12, <1>13, OtherList
<1>15. \A q \in Request : req'[q].state = "busy" <=> req[q].state = "busy"
  BY <1>1, <1>13
<1>8. CASE NumActive(n) > 0
  <2>1. ASSUME n.requests = <<>>, n.status = "alive" PROVE \E f \in Frames : Owns(f, j)
    <3>1. n.popped > 0
      <4>1. Len(n.requests) = 0
        BY <2>1, Short
      <4>2. n.popped \in Nat
        BY <1>2, <1>10 DEF Jobs
      <4> QED BY <1>8, <4>1, <4>2 DEF NumActive
    <3>2. j \in Alive /\ job[j].popped > 0
      BY <1>2, <1>10, <2>1, <3>1 DEF Alive
    <3>3. PICK f \in Frames : Tells(f, j)
      BY <3>2 DEF ResolverInv, JoinInv, PoppedAreTold
    <3> QED BY <3>3, CallsByName DEF Tells
  <2> HIDE DEF j
  <2> QED BY <1>1, <1>2, <1>3, <1>7, <1>8, <1>10, <1>14, <1>15, <2>1, ClientSettles
<1>9. CASE ~ (NumActive(n) > 0)
  <2> DEFINE c == Complete(j, "cancelled")
  <2>1. calls' = <<c>> \o calls /\ UNCHANGED dispatcher
    BY <1>1, <1>9
  <2>2. /\ ~ Enters(c) /\ Leaves(c) = {} /\ (\A i : ~ Fresh(c, i)) /\ FrameIsBorn(c, Born)
        /\ Owns(c, j)
    <3>1. "cancelled" \in Result /\ "cancelled" # "ok"
      BY DEF Result
    <3> HIDE DEF j
    <3> QED BY <1>2, <3>1, CompleteIs
  <2> HIDE DEF c, j
  <2>3. IsSeq(<<c>>) /\ ToSet(<<c>>) = {c}
    BY Short
  <2>4. Replaced({}, {c})
    BY <2>1, <2>2, <2>3, ClientCalls
  <2>5. TakeOver({}, {c}, j, n)
    BY <2>2 DEF TakeOver
  <2>6. DispatcherDoes(Born \X {1, 2}) /\ UNCHANGED <<jobs, cache, around, config>>
    BY <1>1, <2>1, QueueIsBorn DEF resolver
  <2>7. HandsOver({}, {c})
    BY <2>2 DEF HandsOver, Owed
  <2>8. /\ job'[j] = n /\ c \in Frames'
        /\ \A i \in Request : i # j => job'[i] = job[i]
    BY <1>1, <1>2, <2>4 DEF ResolverInv, Typed, Replaced
  <2>9. /\ \A i \in Alive' : i \in Alive
        /\ \A i \in Alive' : job'[i].requests = <<>> =>
             job[i].requests = <<>> \/ \E f \in Frames' : Owns(f, i)
        /\ \A i \in Alive' : job'[i].popped > 0 =>
             job[i].popped > 0 \/ \E f \in Frames' : Tells(f, i)
    BY <1>10, <2>2, <2>8 DEF Alive
  <2>10. JoinInv'
    BY <1>14, <1>15, <2>4, <2>7, <2>9, StillJoined
  <2> QED BY <1>1, <1>3, <1>7, <2>4, <2>5, <2>6, <2>10, Settling
<1> QED BY <1>8, <1>9

\* ChangeRequestPriority.
LEMMA ChangeRequestPriorityKeeps ==
  ASSUME ResolverInv, NEW r \in Request, NEW p \in Priority, ChangeRequestPriority(r, p)
  PROVE  ResolverInv'
<1> DEFINE j == req[r].job
           prio == Max({p} \cup {req[q].prio : q \in ToSet(job[j].requests) \ {r}})
           n == [job[j] EXCEPT !.prio = prio]
<1>1. /\ Ready /\ req[r].state = "pending" /\ UNCHANGED resolver
      /\ req' = [req EXCEPT ![r].prio = p]
      /\ job' = [job EXCEPT ![j] = n] /\ UpdatePriority(j, n, <<>>)
  BY DEF ChangeRequestPriority
<1>2. /\ req \in [Request -> Requests] /\ j \in Born /\ j \in Request /\ job[j] \in Jobs
      /\ \A S : S \subseteq Request => {req[q].prio : q \in S} \subseteq Priority
  BY <1>1, PendingIs
<1>3. RequestsAre
  BY <1>1, <1>2 DEF RequestsAre, Requests, ResolverInv, Lives
<1>4. prio \in Priority
  <2>1. job[j].requests \in Seq(Request)
    BY <1>2 DEF Jobs
  <2>2. ToSet(job[j].requests) \ {r} \subseteq Request
    BY <2>1, ListOf
  <2> QED BY <1>2, <2>2, GreatestPriority
<1>5. Settles(j, n)
  <2>1. job[j].status # "alive" => job[j].requests = <<>>
    BY <1>2, JobIs
  <2>2. job[j].status # "unborn"
    BY <1>2 DEF Born
  <2> HIDE DEF prio, j
  <2> QED BY <1>2, <1>4, <2>1, <2>2 DEF Settles, Jobs
<1>6. n.requests = job[j].requests /\ n.popped = job[j].popped
  BY <1>2 DEF Jobs
<1>7. \A q \in Request : req'[q].state = req[q].state /\ req'[q].job = req[q].job
  BY <1>1, <1>2 DEF Requests
<1> HIDE DEF n, j
<1>8. ListsAreRight'
  BY <1>1, <1>6, <1>7, SameLists
<1>9. \A q \in Request : req'[q].state = "busy" <=> req[q].state = "busy"
  BY <1>7
<1> QED BY <1>1, <1>2, <1>3, <1>5, <1>6, <1>8, <1>9, ClientSettles

\* What runs when no call is on the stack is alive, or goes on, since the last change.
LEMMA RunsFresh ==
  ASSUME ResolverInv, Ready, NEW j \in Request, IsRunning(j)
  PROVE  /\ j \in Born /\ job[j] \in Jobs
         /\ j \in Alive => job[j].since = changes /\ (job[j].task = "dns" => config = "on")
<1>1. Frames = {}
  BY Short DEF Ready, Frames
<1>2. j \in Born
  BY DEF ResolverInv, Lives, Born, IsRunning
<1> QED BY <1>1, <1>2, JobIs DEF ResolverInv, OldAreEnded, DnsIsEnded

\* A step of the message loop that makes calls for a job.
LEMMA LookupSettles ==
  ASSUME ResolverInv, Ready, NEW j \in Born, NEW n, Settles(j, n), Alike(job[j], n),
         job' = [job EXCEPT ![j] = n],
         NEW new, IsSeq(new), calls' = new, DispatcherDoes(Born \X {1, 2}),
         \A f \in ToSet(new) : ~ Enters(f) /\ Leaves(f) = {} /\ FrameIsBorn(f, Born),
         \A f \in ToSet(new), i \in Alive : Fresh(f, i) => job[i].since = changes,
         UNCHANGED <<jobs, cache, around, config, req>>
  PROVE  ResolverInv'
<1>1. Replaced({}, ToSet(new))
  BY ClientCalls
<1>2. TakeOver({}, ToSet(new), j, n)
  BY DEF TakeOver
<1>3. RequestsAre
  BY SameRequests
<1>4. HandsOver({}, ToSet(new))
  BY DEF HandsOver, Owed, Tells
<1>5. JoinInv'
  BY <1>1, <1>4, CalmStep
<1> QED BY <1>1, <1>2, <1>3, <1>5, Settling

\* The same for the calls of the dispatcher and another one.
LEMMA StartedThen ==
  ASSUME ResolverInv, DispatcherDoes(Born \X {1, 2}), NEW f
  PROVE  /\ IsSeq(Started \o <<f>>) /\ ToSet(Started \o <<f>>) = ToSet(Started) \cup {f}
         /\ \A g \in ToSet(Started) : Idle(g) /\ FrameIsBorn(g, Born)
         /\ IsSeq(<<f>>) /\ ToSet(<<f>>) = {f} /\ IsSeq(Started)
<1>1. IsSeq(Started) /\ \A g \in ToSet(Started) : Idle(g) /\ FrameIsBorn(g, Born)
  BY StartedIsIdle
<1>2. IsSeq(<<f>>) /\ ToSet(<<f>>) = {f}
  BY Short
<1> QED BY <1>1, <1>2, Joining

\* A transaction of a DnsTask ends.
LEMMA TransactionCompleteKeeps ==
  ASSUME ResolverInv, NEW j \in Request, NEW t \in {"a", "aaaa"}, NEW ok, TransactionComplete(j, t, ok)
  PROVE  ResolverInv'
<1> DEFINE b == [job[j] EXCEPT ![t] = "done"]
           failed == [b EXCEPT !.dns_error = TRUE]
           fallen == [Killed(b) EXCEPT !.dns_error = TRUE]
<1>1. /\ Ready /\ job[j].task = "dns" /\ UNCHANGED <<jobs, cache, around, config, req>>
  BY DEF TransactionComplete
<1>2. j \in Born /\ job[j] \in Jobs /\ (j \in Alive => job[j].since = changes /\ config = "on")
  BY <1>1, RunsFresh DEF IsRunning
<1>3. Alike(job[j], b) /\ b.since = job[j].since /\ b.task = "dns"
  <2>1. CASE t = "a"
    <3>1. b = [job[j] EXCEPT !.a = "done"]
      BY <2>1
    <3> HIDE DEF b
    <3> QED BY <1>1, <1>2, <3>1, Updates
  <2>2. CASE t = "aaaa"
    <3>1. b = [job[j] EXCEPT !.aaaa = "done"]
      BY <2>2
    <3> HIDE DEF b
    <3> QED BY <1>1, <1>2, <3>1, Updates
  <2> QED BY <2>1, <2>2
<1>4. b \in Jobs
  BY <1>3 DEF Alike
<1> HIDE DEF b
<1>5. ASSUME NEW n, Alike(b, n), n.since = b.since, n.task \in {"none", "dns"}
      PROVE  Settles(j, n) /\ Alike(job[j], n)
  <2>1. Alike(job[j], n) /\ n.since = job[j].since
    BY <1>3, <1>5 DEF Alike
  <2> QED BY <1>1, <1>2, <1>5, <2>1, AlikeSettles
<1>6. \A n \in {b, Reduced(b), fallen, failed} : Settles(j, n) /\ Alike(job[j], n)
  <2>1. Alike(b, b)
    BY <1>4 DEF Alike
  <2>2. /\ Alike(b, Reduced(b)) /\ Reduced(b).since = b.since /\ Reduced(b).task = "dns"
        /\ Alike(b, fallen) /\ fallen.since = b.since /\ fallen.task = "none"
    BY <1>3, <1>4, KilledIs
  <2>3. Alike(b, failed) /\ failed.since = b.since /\ failed.task = "dns"
    BY <1>3, <1>4, Updates
  <2> HIDE DEF fallen, failed
  <2> QED BY <1>3, <1>5, <2>1, <2>2, <2>3
<1> DEFINE Calls(f) == ~ Enters(f) /\ Leaves(f) = {} /\ FrameIsBorn(f, Born)
                       /\ \A i \in Alive : Fresh(f, i) => job[i].since = changes
<1>7. \A r \in {"ok", "failed"} : Calls(Complete(j, r))
  BY <1>2, CompleteIs DEF Result
<1>8. Calls(StartProc(j))
  BY <1>2, StartProcIs
<1>9. Calls(Second(j)) /\ \A f : Idle(f) /\ FrameIsBorn(f, Born) => Calls(f)
  BY <1>2, IdleCalls DEF Idle
<1>10. ASSUME NEW n, Settles(j, n), Alike(job[j], n), job' = [job EXCEPT ![j] = n], NEW f, Calls(f),
              \/ calls' = <<f>> /\ UNCHANGED dispatcher
              \/ calls' = Started \o <<f>> /\ ReduceToOneJobSlot(j)
       PROVE  ResolverInv'
  <2>1. DispatcherDoes(Born \X {1, 2})
    BY <1>10, Reducing, QueueIsBorn
  <2>2. /\ IsSeq(Started \o <<f>>) /\ ToSet(Started \o <<f>>) = ToSet(Started) \cup {f}
        /\ \A g \in ToSet(Started) : Idle(g) /\ FrameIsBorn(g, Born)
        /\ IsSeq(<<f>>) /\ ToSet(<<f>>) = {f}
    BY <2>1, StartedThen
  <2>3. PICK new : IsSeq(new) /\ calls' = new /\ ToSet(new) \subseteq ToSet(Started) \cup {f}
    BY <1>10, <2>2
  <2>4. \A g \in ToSet(new) : Calls(g)
    BY <1>9, <1>10, <2>2, <2>3
  <2> QED BY <1>1, <1>2, <1>10, <2>1, <2>3, <2>4, LookupSettles
<1>11. \/ /\ ReduceToOneJobSlot(j) /\ job' = [job EXCEPT ![j] = fallen]
          /\ calls' = Started \o <<StartProc(j)>>
       \/ /\ job' = [job EXCEPT ![j] = failed] /\ calls' = <<Complete(j, "failed")>>
          /\ UNCHANGED dispatcher
       \/ /\ ReduceToOneJobSlot(j) /\ job' = [job EXCEPT ![j] = Reduced(b)]
          /\ calls' = Started \o <<Second(j)>>
       \/ /\ job' = [job EXCEPT ![j] = b] /\ UNCHANGED dispatcher
          /\ \E r \in {"ok", "failed"} : calls' = <<Complete(j, r)>>
  BY DEF TransactionComplete, b
<1> HIDE DEF fallen, failed, Calls
<1> QED BY <1>6, <1>7, <1>8, <1>9, <1>10, <1>11

\* CompleteRequests: the lookup is over, jobs_ has forgotten the job, and the
\* callbacks report what was found.
LEMMA CompleteRequestsKeeps ==
  ASSUME ResolverInv, CompleteRequests
  PROVE  ResolverInv'
<1> DEFINE j == Head(calls).j
           result == Head(calls).result
           c == Callbacks(j, result)
<1>1. /\ Calling("complete") /\ jobs' = RemoveJob(j)
      /\ UNCHANGED <<cache, config, failures, around, destroyed, req>>
  BY DEF CompleteRequests
<1>2. /\ calls # <<>> /\ Head(calls) \in Frames /\ Head(calls).call = "complete"
      /\ j \in Born /\ result \in Result
  BY <1>1, HeadIs, BornCalls
<1>3. /\ Leaves(Head(calls)) = {}
      /\ \A i : /\ Owns(Head(calls), i) <=> i = j
                /\ Ends(Head(calls), i) <=> i = j
                /\ Fresh(Head(calls), i) <=> i = j /\ result = "ok"
  BY <1>2, CallsByName
<1>4. j \in Request /\ job[j] \in Jobs
  BY <1>2, JobIs DEF Born
<1>5. /\ ~ Enters(c) /\ Leaves(c) = {j} /\ FrameIsBorn(c, Born)
      /\ \A i : (Owns(c, i) <=> i = j) /\ (Fresh(c, i) <=> i = j /\ result = "ok")
  BY <1>2, CallbacksIs
<1>6. Idle(FinishSlot(j)) /\ FrameIsBorn(FinishSlot(j), Born)
  BY <1>2, IdleCalls
<1>7. \A i \in Alive : Fresh(Head(calls), i) => job[i].since = changes
  BY <1>2 DEF ResolverInv, UsesAreFresh
<1> DEFINE N == ToSet(Started) \cup {FinishSlot(j), c}
<1>8. \A k \in Key : jobs'[k] # j /\ (jobs'[k] = jobs[k] \/ (jobs'[k] = NoRequest /\ jobs[k] = j))
  <2>1. j # NoRequest
    BY <1>4, HostResolverAssumption
  <2> QED BY <1>1, <2>1 DEF RemoveJob
<1>9. jobs' \in [Key -> Request \cup {NoRequest}]
  BY <1>1 DEF RemoveJob, ResolverInv, Typed
<1>10. RequestsAre /\ CacheIs /\ UNCHANGED <<around, config>>
  BY <1>1, SameRequests DEF CacheIs, ResolverInv, Typed, CacheIsFresh
<1>11. ASSUME NEW n, Alike(job[j], n), n.since = job[j].since, n.task = "none",
              job' = [job EXCEPT ![j] = n], DispatcherDoes(Born \X {1, 2}),
              \/ calls' = <<c>> \o Rest
              \/ calls' = <<FinishSlot(j), c>> \o Rest
              \/ calls' = Started \o <<FinishSlot(j), c>> \o Rest
       PROVE  ResolverInv'
  <2> HIDE DEF c, j, result
  <2>1. Settles(j, n)
    BY <1>2, <1>11, AlikeSettles
  <2>2. /\ IsSeq(<<c>>) /\ ToSet(<<c>>) = {c}
        /\ IsSeq(<<FinishSlot(j), c>>) /\ ToSet(<<FinishSlot(j), c>>) = {FinishSlot(j), c}
    BY Short
  <2>3. IsSeq(Started) /\ \A f \in ToSet(Started) : Idle(f) /\ FrameIsBorn(f, Born)
    BY <1>11, StartedIsIdle
  <2>4. /\ IsSeq(Started \o <<FinishSlot(j), c>>)
        /\ ToSet(Started \o <<FinishSlot(j), c>>) = ToSet(Started) \cup {FinishSlot(j), c}
    BY <2>2, <2>3, Joining
  <2>5. PICK new : /\ IsSeq(new) /\ calls' = new \o Rest /\ c \in ToSet(new)
                   /\ ToSet(new) \subseteq ToSet(Started) \cup {FinishSlot(j), c}
    BY <1>11, <2>2, <2>4
  <2>6. \A f \in ToSet(new) : f = c \/ (Idle(f) /\ FrameIsBorn(f, Born))
    BY <1>6, <2>3, <2>5
  <2>7. Replaced({Head(calls)}, ToSet(new))
    BY <1>2, <1>5, <2>5, <2>6, PlainReturn DEF Idle
  <2>8. TakeOver({Head(calls)}, ToSet(new), j, n)
    BY <1>2, <1>3, <1>5, <1>7, <1>8, <1>11, <2>5, <2>6 DEF TakeOver, Idle
  <2>9. Relocates(ToSet(new))
    BY <1>5, <1>8, <1>9, <2>5 DEF Relocates
  <2>10. HandsOver({Head(calls)}, ToSet(new))
    BY <1>2, <1>3, <1>5, <2>5, <2>6, CallsByName DEF HandsOver, Owed, Tells, Idle
  <2>11. JoinInv'
    BY <1>1, <1>11, <2>7, <2>10, CalmStep
  <2> QED BY <1>10, <1>11, <2>1, <2>7, <2>8, <2>9, <2>11, Proceeding
<1>12. CASE job[j].task = "dns"
  <2>1. /\ ReduceToOneJobSlot(j) /\ job' = [job EXCEPT ![j] = Killed(job[j])]
        /\ calls' = Started \o <<FinishSlot(j), c>> \o Rest
    BY <1>12 DEF CompleteRequests
  <2>2. /\ Alike(job[j], Killed(job[j])) /\ Killed(job[j]).since = job[j].since
        /\ Killed(job[j]).task = "none"
    BY <1>4, KilledIs
  <2>3. DispatcherDoes(Born \X {1, 2})
    BY <2>1, Reducing
  <2> HIDE DEF c, j, result
  <2> QED BY <1>11, <2>1, <2>2, <2>3
<1>13. CASE job[j].task = "proc"
  <2> DEFINE n == [job[j] EXCEPT !.task = "none"]
  <2>1. /\ job' = [job EXCEPT ![j] = n] /\ UNCHANGED dispatcher
        /\ calls' = <<FinishSlot(j), c>> \o Rest
    BY <1>13 DEF CompleteRequests
  <2>2. Alike(job[j], n) /\ n.since = job[j].since /\ n.task = "none"
    BY <1>4, Updates
  <2>3. DispatcherDoes(Born \X {1, 2})
    BY <2>1, QueueIsBorn
  <2> HIDE DEF c, j, result, n
  <2> QED BY <1>11, <2>1, <2>2, <2>3
<1>14. CASE job[j].task = "none" /\ job[j].handle
  <2> DEFINE n == [job[j] EXCEPT !.handle = FALSE]
  <2>1. /\ job' = [job EXCEPT ![j] = n] /\ D!Cancel(<<j, 1>>)
        /\ calls' = <<c>> \o Rest
    BY <1>14 DEF CompleteRequests
  <2>2. Alike(job[j], n) /\ n.since = job[j].since /\ n.task = "none"
    BY <1>4, <1>14, Updates
  <2>3. DispatcherDoes(Born \X {1, 2})
    BY <2>1, Taking, QueueIsBorn
  <2> HIDE DEF c, j, result, n
  <2> QED BY <1>11, <2>1, <2>2, <2>3
<1>15. CASE job[j].task = "none" /\ ~ job[j].handle
  <2>1. /\ job' = job /\ UNCHANGED dispatcher /\ calls' = <<c>> \o Rest
    BY <1>15 DEF CompleteRequests
  <2>2. Alike(job[j], job[j]) /\ job' = [job EXCEPT ![j] = job[j]]
    BY <1>4, <2>1, JobIs DEF Alike
  <2>3. DispatcherDoes(Born \X {1, 2})
    BY <2>1, QueueIsBorn
  <2> HIDE DEF c, j, result
  <2> QED BY <1>11, <1>15, <2>1, <2>2, <2>3
<1>16. job[j].task \in {"dns", "proc", "none"}
  BY <1>4 DEF Jobs
<1> QED BY <1>12, <1>13, <1>14, <1>15, <1>16

\* The rank of a key among some keys finds it again.
LEMMA RankOf ==
  ASSUME NEW keys, keys \subseteq Key
  PROVE  /\ Cardinality(keys) \in Nat
         /\ \A i \in 1 .. Cardinality(keys) :
              \E k \in keys : Cardinality({l \in keys : l <= k}) = i
         /\ \A k \in keys : Cardinality({l \in keys : l <= k}) \in 1 .. Cardinality(keys)
         /\ \A k, m \in keys :
              Cardinality({l \in keys : l <= k}) = Cardinality({l \in keys : l <= m}) => k = m
<1> DEFINE Upto(k) == {l \in keys : l <= k}
           n == Cardinality(keys)
<1>1. Key \subseteq Int /\ NumKeys \in Int /\ Key = 1 .. NumKeys
  BY HostResolverAssumption DEF Key
<1>2. IsFiniteSet(keys) /\ n \in Nat
  <2>1. IsFiniteSet(Key)
    BY <1>1, FS_Interval
  <2>2. IsFiniteSet(keys)
    BY <2>1, FS_Subset
  <2> QED BY <2>2, FS_CardinalityType
<1>3. \A k \in keys : /\ IsFiniteSet(Upto(k)) /\ Cardinality(Upto(k)) \in Nat
                      /\ Cardinality(Upto(k)) <= n
  <2> TAKE k \in keys
  <2>1. Upto(k) \in SUBSET keys
    OBVIOUS
  <2> HIDE DEF Upto
  <2> QED BY <1>2, <2>1, FS_Subset, FS_CardinalityType
<1>4. \A k \in keys : Cardinality(Upto(k)) # 0
  <2> TAKE k \in keys
  <2>1. k \in Upto(k)
    BY <1>1
  <2> HIDE DEF Upto
  <2> QED BY <1>3, <2>1, FS_EmptySet
<1>5. ASSUME NEW k \in keys, NEW m \in keys, k < m
      PROVE  Cardinality(Upto(k)) # Cardinality(Upto(m))
  <2>2. k \in Int /\ m \in Int /\ \A l \in keys : l \in Int
    BY <1>1
  <2>3. \A l \in keys : l <= k => l <= m
    BY <1>5, <2>2
  <2>4. m <= m /\ ~ (m <= k)
    BY <1>5, <2>2
  <2>1. Upto(k) \in SUBSET Upto(m) /\ m \in Upto(m) /\ m \notin Upto(k)
    BY <2>3, <2>4
  <2> HIDE DEF Upto
  <2> QED BY <1>3, <2>1, FS_Subset
<1>6. \A k, m \in keys : Cardinality(Upto(k)) = Cardinality(Upto(m)) => k = m
  BY <1>1, <1>5
<1>7. \A k \in keys : Cardinality(Upto(k)) \in 1 .. n
  BY <1>2, <1>3, <1>4
<1> DEFINE rank == [k \in keys |-> Cardinality(Upto(k))]
<1> HIDE DEF Upto
<1>8. rank \in [keys -> 1 .. n] /\ \A k \in keys : rank[k] = Cardinality(Upto(k))
  BY <1>7
<1> HIDE DEF rank
<1>9. rank \in Injection(keys, 1 .. n)
  BY <1>6, <1>8 DEF Injection, IsInjective
<1>10. IsFiniteSet(1 .. n) /\ Cardinality(1 .. n) = n
  BY <1>2, FS_Interval
<1>11. rank \in Surjection(keys, 1 .. n)
  BY <1>9, <1>10, FS_Injection
<1>12. \A i \in 1 .. n : \E k \in keys : Cardinality(Upto(k)) = i
  BY <1>8, <1>11 DEF Surjection
<1> QED BY <1>2, <1>6, <1>7, <1>12 DEF Upto

\* The jobs of some keys, in a list.
LEMMA JobsAtIs ==
  ASSUME ResolverInv, NEW keys, keys \subseteq Key, \A k \in keys : jobs[k] # NoRequest
  PROVE  JobsAt(keys) \in Seq(Born) /\ ToSet(JobsAt(keys)) = {jobs[k] : k \in keys}
<1> DEFINE Rank(k) == Cardinality({l \in keys : l <= k})
           n == Cardinality(keys)
           At(i) == CHOOSE k \in keys : Rank(k) = i
<1>1. /\ n \in Nat /\ (\A i \in 1 .. n : \E k \in keys : Rank(k) = i)
      /\ (\A k \in keys : Rank(k) \in 1 .. n)
      /\ \A k, m \in keys : Rank(k) = Rank(m) => k = m
  BY RankOf
<1> HIDE DEF Rank
<1>2. \A i \in 1 .. n : At(i) \in keys /\ Rank(At(i)) = i
  BY <1>1
<1> HIDE DEF At
<1>3. \A k \in keys : At(Rank(k)) = k
  BY <1>1, <1>2
<1>4. JobsAt(keys) = [i \in 1 .. n |-> jobs[At(i)]]
  BY DEF JobsAt, At, Rank
<1>5. \A k \in keys : jobs[k] \in Born
  BY DEF ResolverInv, JobsAreRight, Alive, Born
<1> HIDE DEF n
<1>6. JobsAt(keys) \in [1 .. n -> Born]
  BY <1>2, <1>4, <1>5
<1>7. JobsAt(keys) \in Seq(Born)
  BY <1>1, <1>6, IsASeq
<1>8. ToSet(JobsAt(keys)) = {jobs[k] : k \in keys}
  <2>1. ToSet(JobsAt(keys)) = {jobs[At(i)] : i \in 1 .. n}
    BY <1>4 DEF ToSet
  <2>2. \A i \in 1 .. n : \E k \in keys : jobs[At(i)] = jobs[k]
    BY <1>2
  <2>3. \A k \in keys : \E i \in 1 .. n : jobs[At(i)] = jobs[k]
    BY <1>1, <1>3
  <2> QED BY <2>1, <2>2, <2>3
<1> QED BY <1>7, <1>8

\* The destructor of a job, in the place of the call that owned it.
LEMMA Deleting ==
  ASSUME ResolverInv, calls # <<>>, Head(calls) \in Frames, NEW j \in Born,
         Leaves(Head(calls)) = {j}, Head(calls).call # "abort dns",
         \A i : Owns(Head(calls), i) \/ Ends(Head(calls), i) => i = j,
         NEW state \in {"cancelled", "dropped"}, Deleted(j, state),
         NEW new, IsSeq(new), calls' = new \o Rest,
         \A f \in ToSet(new) : Idle(f) /\ FrameIsBorn(f, Born),
         DispatcherDoes(Born \X {1, 2}), UNCHANGED <<jobs, cache, around, config>>
  PROVE  ResolverInv'
<1> DEFINE n == [job[j] EXCEPT !.status = "deleted", !.task = "none", !.requests = <<>>]
<1>1. j \in Request /\ job[j] \in Jobs
  BY JobIs DEF Born
<1>2. job' = [job EXCEPT ![j] = n]
  BY DEF Deleted
<1>3. \A k \in Key : jobs'[k] # j
  BY DEF ResolverInv, Left
<1>4. <<>> \in Seq(Request)
  BY EmptySeq
<1>5. /\ n \in Jobs /\ n.status = "deleted" /\ n.key = job[j].key
      /\ n.requests = <<>> /\ n.task = "none"
  BY <1>1, <1>4 DEF Jobs
<1> HIDE DEF n
<1>6. Ceases(j, n)
  BY <1>3, <1>5 DEF Ceases
<1>7. RequestsAre
  <2>1. req \in [Request -> Requests]
    BY DEF ResolverInv, Typed
  <2>2. \A r \in Request : req'[r] = req[r] \/ req'[r] = [req[r] EXCEPT !.state = state, !.job = NoRequest]
    BY DEF Deleted
  <2>3. \A r \in Request : LET c == [req[r] EXCEPT !.state = state, !.job = NoRequest] IN
          c \in Requests /\ c.state \notin {"new", "pending"}
    BY <2>1 DEF Requests, Result
  <2>4. req' \in [Request -> Requests]
    <3>1. \A r \in Request : req'[r] \in Requests
      BY <2>1, <2>2, <2>3
    <3>2. req' = [r \in Request |-> req'[r]]
      BY DEF Deleted
    <3> QED BY <3>1, <3>2
  <2> QED BY <2>2, <2>3, <2>4 DEF RequestsAre, ResolverInv, Lives
<1>8. CacheIs /\ Relocates(ToSet(new))
  BY DEF CacheIs, Relocates, ResolverInv, Typed, CacheIsFresh
<1>9. Replaced({Head(calls)}, ToSet(new))
  BY PlainReturn DEF Idle
<1>10. TakeOver({Head(calls)}, ToSet(new), j, n)
  BY <1>5 DEF TakeOver, Idle
<1>11. /\ job'[j] = n /\ \A i \in Request : i # j => job'[i] = job[i]
       /\ \A i \in Alive' : i \in Request /\ i # j /\ i \in Alive
  BY <1>1, <1>2, <1>5, JobIs DEF Alive
<1>12. ListsAreRight'
  <2>1. \A i \in Request : IsInjective(job'[i].requests)
    BY <1>5, <1>11, EmptyIsInjective DEF ResolverInv, JoinInv, ListsAreRight
  <2>2. ASSUME NEW i \in Request, NEW r \in Request
        PROVE  r \in ToSet(job'[i].requests) <=> req'[r].state = "pending" /\ req'[r].job = i
    <3>1. /\ r \in ToSet(job[i].requests) <=> req[r].state = "pending" /\ req[r].job = i
          /\ r \in ToSet(job[j].requests) <=> req[r].state = "pending" /\ req[r].job = j
      BY <1>1 DEF ResolverInv, JoinInv, ListsAreRight
    <3>2. CASE r \in ToSet(job[j].requests)
      <4>1. req'[r].state = state
        BY <3>2 DEF Deleted, ResolverInv, Typed, Requests
      <4>2. r \notin ToSet(job'[i].requests)
        <5>1. CASE i = j
          BY <1>5, <1>11, <5>1, Short
        <5>2. CASE i # j
          BY <1>11, <3>1, <3>2, <5>2
        <5> QED BY <5>1, <5>2
      <4> QED BY <4>1, <4>2
    <3>3. CASE r \notin ToSet(job[j].requests)
      <4>1. req'[r] = req[r]
        BY <3>3 DEF Deleted
      <4>2. CASE i = j
        BY <1>5, <1>11, <3>1, <3>3, <4>1, <4>2, Short
      <4>3. CASE i # j
        BY <1>11, <3>1, <4>1, <4>3
      <4> QED BY <4>2, <4>3
    <3> QED BY <3>2, <3>3
  <2> QED BY <2>1, <2>2 DEF ListsAreRight
<1>13. HandsOver({Head(calls)}, ToSet(new))
  <2>1. ~ Enters(Head(calls))
    BY DEF Enters, Leaves
  <2>2. \A i : Tells(Head(calls), i) => i = j
    BY DEF Tells, Leaves
  <2> QED BY <1>11, <2>1, <2>2 DEF HandsOver, Owed, Idle
<1>14. \A r \in Request : req'[r].state = "busy" <=> req[r].state = "busy"
  <2> TAKE r \in Request
  <2>1. CASE r \in ToSet(job[j].requests)
    <3>1. req'[r].state = state
      BY <2>1 DEF Deleted, ResolverInv, Typed, Requests
    <3>2. req[r].state = "pending"
      BY <1>1, <2>1 DEF ResolverInv, JoinInv, ListsAreRight
    <3> QED BY <3>1, <3>2
  <2>2. CASE r \notin ToSet(job[j].requests)
    BY <2>2 DEF Deleted
  <2> QED BY <2>1, <2>2
<1>15. JoinInv'
  BY <1>9, <1>11, <1>12, <1>13, <1>14, StillJoined
<1> QED BY <1>2, <1>6, <1>7, <1>8, <1>9, <1>10, <1>15, Proceeding

\* DestroyJob and DestroyOrphanJob.
LEMMA DestroyKeeps ==
  ASSUME ResolverInv, DestroyJob \/ DestroyOrphanJob
  PROVE  ResolverInv'
<1> DEFINE j == Head(calls).j
<1>1. PICK what \in {"destroy", "destroy orphan"} : Calling(what)
  BY DEF DestroyJob, DestroyOrphanJob
<1>2. calls # <<>> /\ Head(calls) \in Frames /\ Head(calls).call = what /\ j \in Born
  BY <1>1, HeadIs, BornCalls DEF ForOne
<1>3. /\ Leaves(Head(calls)) = {j} /\ Head(calls).call # "abort dns"
      /\ \A i : Owns(Head(calls), i) \/ Ends(Head(calls), i) => i = j
  BY <1>2, CallsByName
<1>4. IsSeq(calls)
  BY DEF ResolverInv, Typed
<1>5. Rest = <<>> \o Rest
  BY <1>2, <1>4, Popping, ConcatEmptySeq DEF IsSeq, Rest
<1>6. /\ \E state \in {"cancelled", "dropped"} : Deleted(j, state)
      /\ ReduceToOneJobSlot(j) \/ UNCHANGED dispatcher
      /\ calls' = Started \o Rest \/ calls' = <<>> \o Rest
      /\ UNCHANGED <<jobs, cache, around, config>>
  BY <1>5 DEF DestroyJob, DestroyOrphanJob, resolver
<1>7. DispatcherDoes(Born \X {1, 2})
  BY <1>6, Reducing, QueueIsBorn
<1>8. /\ IsSeq(Started) /\ (\A f \in ToSet(Started) : Idle(f) /\ FrameIsBorn(f, Born))
      /\ IsSeq(<<>>) /\ \A f \in ToSet(<<>>) : Idle(f) /\ FrameIsBorn(f, Born)
  BY <1>7, StartedIsIdle, Short
<1> HIDE DEF j
<1> QED BY <1>2, <1>3, <1>6, <1>7, <1>8, Deleting

\* CompleteRequests runs the callbacks, one at a time; what is cached is of now.
LEMMA RunCallbacksKeeps ==
  ASSUME ResolverInv, RunCallbacks
  PROVE  ResolverInv'
<1> DEFINE j == Head(calls).j
           b == job[j]
           result == Head(calls).result
           r == Head(b.requests)
<1>1. Calling("callbacks") /\ UNCHANGED <<dispatcher, jobs, config, around>>
  BY DEF RunCallbacks
<1>2. /\ calls # <<>> /\ Head(calls) \in Frames /\ Head(calls).call = "callbacks"
      /\ j \in Born /\ result \in Result
  BY <1>1, HeadIs, BornCalls
<1>3. /\ Leaves(Head(calls)) = {j}
      /\ \A i : /\ Owns(Head(calls), i) <=> i = j
                /\ ~ Ends(Head(calls), i)
                /\ Fresh(Head(calls), i) <=> i = j /\ result = "ok"
  BY <1>2, CallsByName
<1>4. j \in Request /\ job[j] \in Jobs
  BY <1>2, JobIs DEF Born
<1>5. IsSeq(calls) /\ req \in [Request -> Requests] /\ cache \in [Key -> Int] /\ changes \in Nat
  BY DEF ResolverInv, Typed, changes
<1>6. DispatcherDoes(Born \X {1, 2})
  BY <1>1, QueueIsBorn
<1>7. CASE b.requests = <<>> \/ destroyed
  <2>1. Deleted(j, "cancelled") /\ calls' = Rest /\ cache' = cache
    BY <1>7 DEF RunCallbacks
  <2>2. calls' = <<>> \o Rest
    BY <1>2, <1>5, <2>1, Popping, ConcatEmptySeq DEF IsSeq, Rest
  <2>3. IsSeq(<<>>) /\ \A f \in ToSet(<<>>) : Idle(f) /\ FrameIsBorn(f, Born)
    BY Short
  <2>4. UNCHANGED <<jobs, cache, around, config>>
    BY <1>1, <2>1
  <2> HIDE DEF j
  <2> QED BY <1>2, <1>3, <1>6, <2>1, <2>2, <2>3, <2>4, Deleting
<1>8. CASE ~ (b.requests = <<>> \/ destroyed)
  <2> DEFINE n == [b EXCEPT !.requests = Tail(@), !.popped = @ + 1]
  <2>1. /\ job' = [job EXCEPT ![j].requests = Tail(@), ![j].popped = @ + 1]
        /\ req' = [req EXCEPT ![r].state = result, ![r].job = NoRequest]
        /\ cache' = IF b.popped = 0 /\ result = "ok"
                      THEN [cache EXCEPT ![b.key] = b.since] ELSE cache
        /\ calls' = <<Callback>> \o calls
    BY <1>8 DEF RunCallbacks
  <2>2. job' = [job EXCEPT ![j] = n]
    BY <1>4, <2>1, JobIs
  <2>3. b.requests \in Seq(Request) /\ b.requests # <<>> /\ b.popped \in Nat /\ b.key \in Key /\ b.since \in Nat
    BY <1>4, <1>8 DEF Jobs
  <2>4. r \in Request /\ Tail(b.requests) \in Seq(Request)
    BY <2>3, ListOf
  <2>5. j \in Alive
    BY <1>4, <2>3, JobIs DEF Alive
  <2>6. Settles(j, n)
    <3>1. PICK t, p : t = Tail(b.requests) /\ p = b.popped + 1
      OBVIOUS
    <3>2. t \in Seq(Request) /\ p \in Nat /\ n = [b EXCEPT !.requests = t, !.popped = p]
      BY <2>3, <2>4, <3>1
    <3>3. /\ n \in Jobs /\ n.status = b.status /\ n.key = b.key /\ n.since = b.since
          /\ n.task = b.task
      BY <1>4, <3>2 DEF Jobs
    <3> HIDE DEF n, j
    <3> QED BY <2>5, <3>3 DEF Settles, Alive
  <2>7. result = "ok" => b.since = changes
    BY <1>2, <1>3, <2>5 DEF ResolverInv, UsesAreFresh
  <2>8. CacheIs
    <3>1. cache' = cache \/ cache' = [cache EXCEPT ![b.key] = changes]
      BY <2>1, <2>7
    <3>2. \A k \in Key : cache[k] \in {-1, changes}
      BY DEF ResolverInv, CacheIsFresh
    <3> HIDE DEF b
    <3> QED BY <1>5, <2>3, <3>1, <3>2 DEF CacheIs
  <2>9. RequestsAre
    <3>1. PICK q : q = [req[r] EXCEPT !.state = result, !.job = NoRequest]
      OBVIOUS
    <3>2. req' = [req EXCEPT ![r] = q]
      BY <1>5, <2>1, <2>4, <3>1
    <3>3. q \in Requests /\ q.state \in Result
      BY <1>2, <1>5, <2>4, <3>1 DEF Requests
    <3>4. \A x \in Request : req[x].state = "pending" => req[x].job \in Born
      BY DEF ResolverInv, Lives
    <3> HIDE DEF r
    <3> QED BY <1>5, <2>4, <3>2, <3>3, <3>4 DEF RequestsAre, Result
  <2>10. Idle(Callback) /\ FrameIsBorn(Callback, Born) /\ IsSeq(<<Callback>>) /\ ToSet(<<Callback>>) = {Callback}
    BY IdleCalls, Short
  <2>11. Replaced({}, {Callback})
    BY <2>1, <2>10, ClientCalls DEF Idle
  <2> HIDE DEF n, j
  <2>12. TakeOver({}, {Callback}, j, n)
    BY <2>10, IdleTakeOver
  <2>13. Relocates({Callback})
    BY <1>1 DEF Relocates, ResolverInv, Typed
  <2>14. UNCHANGED <<around, config>>
    BY <1>1
  <2>15. /\ IsInjective(b.requests) /\ IsSeq(b.requests)
         /\ \A q \in Request : q \in ToSet(b.requests) => req[q].state = "pending"
    BY <1>4, <2>3 DEF ResolverInv, JoinInv, ListsAreRight, IsSeq
  <2>16. /\ IsInjective(Tail(b.requests)) /\ ToSet(Tail(b.requests)) = ToSet(b.requests) \ {r}
         /\ r \in ToSet(b.requests)
    BY <2>3, <2>15, TakingFirst
  <2>17. n.requests = Tail(b.requests)
    BY <1>4 DEF n, Jobs
  <2>18. req'[r].state = result /\ \A q \in Request : q # r => req'[q] = req[q]
    BY <1>5, <2>1, <2>4 DEF Requests
  <2>19. req[r].state = "pending" /\ result # "pending" /\ result # "busy"
    BY <1>2, <2>4, <2>15, <2>16 DEF Result
  <2> HIDE DEF r, result
  <2>20. ListsAreRight'
    <3>1. /\ IsInjective(n.requests) /\ r \in ToSet(job[j].requests)
          /\ ToSet(n.requests) = ToSet(job[j].requests) \ {r}
      BY <2>16, <2>17
    <3>2. req'[r].state # "pending"
      BY <2>18, <2>19
    <3> HIDE DEF b
    <3> QED BY <1>4, <2>2, <2>4, <2>18, <3>1, <3>2, OtherList
  <2>21. \A q \in Request : req'[q].state = "busy" <=> req[q].state = "busy"
    BY <2>18, <2>19
  <2>22. HandsOver({}, {Callback})
    BY <2>10 DEF HandsOver, Owed, Idle
  <2>23. Head(calls) \in Frames' /\ Owns(Head(calls), j) /\ Tells(Head(calls), j)
    BY <1>2, <1>3, <2>11 DEF Replaced, Tells, j
  <2>24. /\ \A i \in Request : i # j => job'[i] = job[i]
         /\ \A i \in Alive' : i \in Request
    BY <2>2 DEF Alive, ResolverInv, Typed
  <2>25. /\ \A i \in Alive' : i \in Alive
         /\ \A i \in Alive' : job'[i].requests = <<>> =>
              job[i].requests = <<>> \/ \E f \in Frames' : Owns(f, i)
         /\ \A i \in Alive' : job'[i].popped > 0 =>
              job[i].popped > 0 \/ \E f \in Frames' : Tells(f, i)
    BY <2>5, <2>23, <2>24 DEF Alive
  <2>26. JoinInv'
    BY <2>11, <2>20, <2>21, <2>22, <2>25, StillJoined
  <2> QED BY <1>6, <2>2, <2>6, <2>8, <2>9, <2>11, <2>12, <2>13, <2>14, <2>26, Proceeding
<1> QED BY <1>7, <1>8

\* The rest of Resolve: the job enters jobs_, or takes the place of another.
LEMMA AttachRequestKeeps ==
  ASSUME ResolverInv, AttachRequest
  PROVE  ResolverInv'
<1> DEFINE r == Head(calls).j
           k == job[r].key
           evicted == Head(calls).evicted
<1>1. Calling("attach") /\ UNCHANGED <<cache, config, around>>
  BY DEF AttachRequest
<1>2. calls # <<>> /\ Head(calls) \in Frames /\ Head(calls).call = "attach" /\ r \in Born
  BY <1>1, HeadIs, BornCalls DEF ForOne
<1>3. /\ Enters(Head(calls)) /\ Leaves(Head(calls)) = {}
      /\ \A i : ~ Ends(Head(calls), i) /\ (Owns(Head(calls), i) <=> i = r /\ evicted # i)
  BY <1>2, CallsByName
<1>4. r \in Request /\ job[r] \in Jobs /\ r # NoRequest
  BY <1>2, JobIs, HostResolverAssumption DEF Born
<1>5. k \in Key
  BY <1>4 DEF Jobs
<1>6. /\ IsSeq(calls) /\ EntersFirst /\ req \in [Request -> Requests]
      /\ jobs \in [Key -> Request \cup {NoRequest}]
  BY DEF ResolverInv, Typed
<1>7. CacheIs /\ UNCHANGED <<around, config>>
  BY <1>1 DEF CacheIs, ResolverInv, Typed, CacheIsFresh
<1>8. CASE evicted = r
  <2>1. /\ req' = [req EXCEPT ![r].state = "evicted"] /\ calls' = Rest
        /\ job' = job /\ UNCHANGED dispatcher /\ UNCHANGED jobs
    BY <1>8 DEF AttachRequest
  <2>2. RequestsAre
    BY <1>4, <1>6, <2>1 DEF RequestsAre, Requests, Result, ResolverInv, Lives
  <2>3. Replaced({Head(calls)}, {})
    BY <1>2, <2>1, PlainReturn
  <2>4. TakeOver({Head(calls)}, {}, NoRequest, NoJob)
    BY <1>2, <1>3, <1>8 DEF TakeOver
  <2>5. DispatcherDoes(Born \X {1, 2}) /\ UNCHANGED <<jobs, cache, around, config>>
    BY <1>1, <2>1, QueueIsBorn
  <2>6. IsSeq(<<>>) /\ ToSet(<<>>) = {} /\ calls' = <<>> \o Rest
    BY <1>2, <1>6, <2>1, Popping, Short, ConcatEmptySeq DEF IsSeq, Rest
  <2>7. req'[r].state = "evicted" /\ \A q \in Request : q # r => req'[q] = req[q]
    BY <1>4, <1>6, <2>1 DEF Requests
  <2>8. BusyEnter' /\ req[r].state = "busy"
    BY <1>2, <1>3, <1>4, <2>6, <2>7, Entered
  <2>9. ListsAreRight'
    <3>1. NoRequest \notin Request /\ job' = [job EXCEPT ![NoRequest] = NoJob]
      BY <2>1, HostResolverAssumption DEF ResolverInv, Typed
    <3>2. \A q \in Request : \/ req'[q].state = req[q].state /\ req'[q].job = req[q].job
                             \/ req[q].state # "pending" /\ req'[q].state # "pending"
      BY <2>7, <2>8
    <3> QED BY <3>1, <3>2, SameLists
  <2>10. EmptyAreOwned' /\ PoppedAreTold'
    <3>1. Owed({Head(calls)}, {})
      BY <1>2, <1>3, <1>8 DEF Owed, Tells
    <3>2. Alive' = Alive
      BY <2>1 DEF Alive
    <3>3. /\ \A i \in Alive' : i \in Alive
          /\ \A i \in Alive' : job'[i].requests = <<>> =>
               job[i].requests = <<>> \/ \E f \in Frames' : Owns(f, i)
          /\ \A i \in Alive' : job'[i].popped > 0 =>
               job[i].popped > 0 \/ \E f \in Frames' : Tells(f, i)
      BY <2>1, <3>2
    <3> QED BY <2>3, <3>1, <3>3, StillOwned
  <2>11. JoinInv'
    BY <2>8, <2>9, <2>10 DEF JoinInv
  <2> QED BY <2>1, <2>2, <2>3, <2>4, <2>5, <2>11, SettlingCalls
<1>9. CASE evicted # r /\ jobs[k] = NoRequest
  <2> DEFINE n == [job[r] EXCEPT !.requests = Append(@, r), !.prio = Max({@, req[r].prio})]
  <2>1. job[r].status = "alive" /\ jobs' = [jobs EXCEPT ![k] = r] /\ AddRequest(r, job[r], r, req[r].prio)
    BY <1>9 DEF AttachRequest
  <2>2. r \in Alive /\ req[r].prio \in Priority
    BY <1>4, <1>6, <2>1 DEF Alive, Requests
  <2>3. /\ job' = [job EXCEPT ![r] = n]
        /\ req' = [req EXCEPT ![r] = [state |-> "pending", job |-> r, prio |-> req[r].prio]]
        /\ UpdatePriority(r, n, IF Ready THEN <<>> ELSE IF Calling("callback") THEN calls ELSE Rest)
    BY <2>1 DEF AddRequest
  <2>4. ~ Ready /\ ~ Calling("callback")
    BY <1>2 DEF Ready, Calling
  <2>5. Settles(r, n) /\ n.popped = job[r].popped /\ n.requests = Append(job[r].requests, r)
    BY <1>4, <2>2, AddedIs
  <2> HIDE DEF n
  <2>6. UpdatePriority(r, n, Rest) /\ n.prio \in Priority /\ IsSeq(Rest)
    BY <1>2, <1>6, <2>3, <2>4, <2>5, Popping DEF Settles, Jobs, Rest
  <2>7. /\ DispatcherDoes(Born \X {1, 2})
        /\ \E new : /\ IsSeq(new) /\ calls' = new \o Rest
                    /\ \A f \in ToSet(new) : Idle(f) /\ FrameIsBorn(f, Born)
    <3> HIDE DEF r
    <3> QED BY <1>2, <2>6, Updating
  <2>8. PICK new : /\ IsSeq(new) /\ calls' = new \o Rest
                   /\ \A f \in ToSet(new) : Idle(f) /\ FrameIsBorn(f, Born)
    BY <2>7
  <2>9. Replaced({Head(calls)}, ToSet(new))
    BY <1>2, <2>8, PlainReturn DEF Idle
  <2>10. Frames' = ToSet(new) \cup ToSet(Rest)
    BY <2>6, <2>8, Joining DEF Frames
  <2>11. \A g \in ToSet(Rest) : r \notin Leaves(g)
    BY <1>2, <1>3, <1>6, FirstOfRest DEF EntersFirst, Rest, Claims
  <2>12. \A g \in Frames' : r \notin Leaves(g)
    BY <2>8, <2>10, <2>11 DEF Idle
  <2>13. /\ jobs' \in [Key -> Request \cup {NoRequest}] /\ jobs'[k] = r
         /\ \A l \in Key : l # k => jobs'[l] = jobs[l]
    BY <1>4, <1>5, <1>6, <2>1
  <2>14. Relocates(ToSet(new))
    BY <1>9, <2>2, <2>12, <2>13 DEF Relocates
  <2>15. TakeOver({Head(calls)}, ToSet(new), r, n)
    BY <1>2, <1>3, <2>8, <2>13 DEF TakeOver, Idle
  <2>16. RequestsAre
    <3>1. [state |-> "pending", job |-> r, prio |-> req[r].prio] \in Requests
      BY <1>4, <2>2 DEF Requests
    <3> HIDE DEF r
    <3> QED BY <1>2, <1>4, <1>6, <2>3, <3>1 DEF RequestsAre, ResolverInv, Lives
  <2>17. /\ req'[r].state = "pending" /\ req'[r].job = r
         /\ \A q \in Request : q # r => req'[q] = req[q]
    BY <1>4, <1>6, <2>3
  <2>18. BusyEnter' /\ req[r].state = "busy"
    BY <1>2, <1>3, <1>4, <2>8, <2>17, Entered DEF Idle
  <2> HIDE DEF r
  <2>19. ListsAreRight' /\ n.requests # <<>>
    BY <1>4, <2>3, <2>5, <2>17, <2>18, JoiningList
  <2>20. /\ job'[r] = n /\ n.status = job[r].status
         /\ \A i \in Request : i # r => job'[i] = job[i]
         /\ \A i \in Alive' : i \in Request
    BY <1>4, <2>3, <2>5 DEF Alive, Settles, ResolverInv, Typed
  <2>21. EmptyAreOwned' /\ PoppedAreTold'
    <3>1. Owed({Head(calls)}, ToSet(new))
      BY <1>2, <1>3, <2>19, <2>20 DEF Owed, Tells
    <3>2. /\ \A i \in Alive' : i \in Alive
          /\ \A i \in Alive' : job'[i].requests = <<>> =>
               job[i].requests = <<>> \/ \E f \in Frames' : Owns(f, i)
          /\ \A i \in Alive' : job'[i].popped > 0 =>
               job[i].popped > 0 \/ \E f \in Frames' : Tells(f, i)
      BY <2>5, <2>19, <2>20 DEF Alive
    <3> QED BY <2>9, <3>1, <3>2, StillOwned
  <2>22. JoinInv'
    BY <2>18, <2>19, <2>21 DEF JoinInv
  <2> QED BY <1>7, <2>3, <2>5, <2>7, <2>9, <2>14, <2>15, <2>16, <2>22, Proceeding
<1>10. CASE evicted # r /\ jobs[k] # NoRequest
  <2> DEFINE d == Destroy(jobs[k])
  <2>1. /\ jobs' = [jobs EXCEPT ![k] = NoRequest] /\ calls' = <<d>> \o calls
        /\ UNCHANGED dispatcher /\ job' = job /\ req' = req
    BY <1>10 DEF AttachRequest
  <2>2. jobs[k] \in Alive /\ jobs[k] \in Born
    BY <1>5, <1>10 DEF ResolverInv, JobsAreRight, Alive, Born
  <2>3. \A l \in Key : l # k => jobs[l] # jobs[k]
    BY <1>5, <1>10 DEF ResolverInv, JobsAreRight
  <2>4. /\ ~ Enters(d) /\ Leaves(d) = {jobs[k]} /\ Owns(d, jobs[k]) /\ FrameIsBorn(d, Born)
        /\ \A i : ~ Fresh(d, i)
    BY <2>2, DestroyIs
  <2> HIDE DEF d
  <2>5. IsSeq(<<d>>) /\ ToSet(<<d>>) = {d}
    BY Short
  <2>6. Replaced({}, {d})
    BY <2>1, <2>4, <2>5, ClientCalls
  <2>7. /\ jobs' \in [Key -> Request \cup {NoRequest}] /\ jobs'[k] = NoRequest
        /\ \A l \in Key : l # k => jobs'[l] = jobs[l]
    BY <1>5, <1>6, <2>1
  <2>8. Relocates({d})
    BY <2>4, <2>7 DEF Relocates
  <2>9. TakeOver({}, {d}, NoRequest, NoJob)
    BY <1>10, <2>3, <2>4, <2>7 DEF TakeOver
  <2>10. RequestsAre /\ DispatcherDoes(Born \X {1, 2})
    BY <2>1, SameRequests, QueueIsBorn
  <2>11. NoRequest \notin Request /\ job' = [job EXCEPT ![NoRequest] = NoJob]
    BY <1>4, <2>1, HostResolverAssumption, JobIs
  <2>12. HandsOver({}, {d})
    BY <2>4 DEF HandsOver, Owed
  <2>13. JoinInv'
    BY <2>1, <2>6, <2>12, CalmCalls
  <2> QED BY <1>7, <2>6, <2>8, <2>9, <2>10, <2>11, <2>13, Proceeding
<1> QED BY <1>8, <1>9, <1>10

\* The destructor of the resolver.
LEMMA DestroyResolverKeeps ==
  ASSUME ResolverInv, DestroyResolver
  PROVE  ResolverInv'
<1> DEFINE busy == {k \in Key : jobs[k] # NoRequest}
           js == JobsAt(busy)
           new == [i \in DOMAIN js |-> Destroy(js[i])]
<1>1. /\ D!SetLimitsToZero /\ calls' = new \o calls /\ jobs' = [k \in Key |-> NoRequest]
      /\ UNCHANGED <<cache, config, around, job, req>>
  BY DEF DestroyResolver
<1>2. js \in Seq(Born) /\ ToSet(js) = {jobs[k] : k \in busy}
  BY JobsAtIs
<1> HIDE DEF js
<1>3. IsSeq(new) /\ ToSet(new) = {Destroy(j) : j \in ToSet(js)}
  BY <1>2, OrphansOf
<1> HIDE DEF new
<1>4. ToSet(js) \subseteq Born /\ Born \subseteq Request /\ NoRequest \notin Request
  BY <1>2, ListOf, HostResolverAssumption DEF Born
<1>5. ASSUME NEW j \in ToSet(js)
      PROVE  /\ ~ Enters(Destroy(j)) /\ Leaves(Destroy(j)) = {j} /\ Owns(Destroy(j), j)
             /\ FrameIsBorn(Destroy(j), Born) /\ \A i : ~ Fresh(Destroy(j), i)
  BY <1>4, DestroyIs
<1>6. Replaced({}, ToSet(new))
  BY <1>1, <1>3, <1>5, ClientCalls
<1>7. \A k \in Key : jobs'[k] = NoRequest
  BY <1>1
<1>8. Relocates(ToSet(new))
  <2>1. ASSUME NEW k \in Key, jobs[k] # NoRequest PROVE \E g \in ToSet(new) : Owns(g, jobs[k])
    <3>1. jobs[k] \in ToSet(js)
      BY <1>2, <2>1
    <3> QED BY <1>3, <1>5, <3>1
  <2> QED BY <1>1, <1>7, <2>1 DEF Relocates
<1>9. TakeOver({}, ToSet(new), NoRequest, NoJob)
  <2>1. \A g \in ToSet(new) : /\ FrameIsBorn(g, Born) /\ (\A i : ~ Fresh(g, i))
                              /\ \A i : i \in Leaves(g) => i \in Request
    BY <1>3, <1>4, <1>5
  <2> QED BY <1>4, <1>7, <2>1 DEF TakeOver
<1>10. RequestsAre /\ CacheIs /\ UNCHANGED <<around, config>>
  BY <1>1, SameRequests DEF CacheIs, ResolverInv, Typed, CacheIsFresh
<1>11. DispatcherDoes(Born \X {1, 2})
  BY <1>1, Taking, QueueIsBorn
<1>12. job' = [job EXCEPT ![NoRequest] = NoJob]
  BY <1>1, <1>4 DEF ResolverInv, Typed
<1>13. HandsOver({}, ToSet(new))
  BY <1>3, <1>5 DEF HandsOver, Owed, Tells
<1>14. JoinInv'
  BY <1>1, <1>6, <1>13, CalmCalls
<1> QED BY <1>4, <1>6, <1>8, <1>9, <1>10, <1>11, <1>12, <1>14, Proceeding

\* Resolve, if nobody looks the key up: a job is created, which Overflow owns.
LEMMA ResolveCreates ==
  ASSUME ResolverInv, NEW r \in Request, NEW k \in Key, NEW p \in Priority,
         Resolve(r, k, p), ~ ResolveHelper(r, k), jobs[k] = NoRequest
  PROVE  ResolverInv'
<1> USE DEF ResolverInv
<1> DEFINE n == [NoJob EXCEPT !.status = "alive", !.key = k, !.prio = p, !.handle = running' = running]
           o == Overflow(r)
           new == Started \o <<o>>
           q == [state |-> "busy", job |-> NoRequest, prio |-> p]
<1>1. /\ req[r].state = "new" /\ D!Add(<<r, 1>>, p) /\ job' = [job EXCEPT ![r] = n]
      /\ req' = [req EXCEPT ![r] = q] /\ calls' = Started \o <<o>> \o calls
      /\ UNCHANGED <<jobs, cache, config, around>>
  BY DEF Resolve, resolver
<1>2. /\ n \in Jobs /\ n.status = "alive" /\ n.key = k /\ n.task = "none"
      /\ n.requests = <<>> /\ n.popped = 0
  BY EmptySeq DEF Jobs, NoJob
<1>3. q \in Requests /\ q.state = "busy"
  BY DEF Requests
<1> HIDE DEF n, q
<1>4. job[r].status = "unborn" /\ r \notin Born /\ r \notin Alive
  BY <1>1 DEF Lives, Born, Alive
<1>5. /\ job \in [Request -> Jobs] /\ job' \in [Request -> Jobs] /\ job'[r] = n
      /\ \A i \in Request : i # r => job'[i] = job[i]
  BY <1>1, <1>2 DEF Typed
<1>6. Born' = Born \cup {r} /\ Alive' = Alive \cup {r}
  BY <1>2, <1>5 DEF Born, Alive
<1>7. changes' = changes
  BY <1>1 DEF changes
<1>8. DispatcherDoes(Values(queue) \cup {<<r, 1>>})
  <2>1. <<r, 1>> \in Slot
    BY DEF Slot
  <2> QED BY <1>1, <2>1, QueueIsBorn, Adding
<1>9. \A s \in Values(queue) \cup {<<r, 1>>} : s \in (Born \cup {r}) \X {1, 2}
  <2>1. Values(queue) \subseteq Born \X {1, 2}
    BY QueueIsBorn
  <2>2. <<r, 1>> \in (Born \cup {r}) \X {1, 2}
    OBVIOUS
  <2> QED BY <2>1, <2>2
<1>10. IsSeq(Started) /\ \A f \in ToSet(Started) : Idle(f) /\ FrameIsBorn(f, Born \cup {r})
  BY <1>8, <1>9, StartedIs, IdleCalls
<1>11. /\ o.j = r /\ Enters(o) /\ Leaves(o) = {} /\ FrameIsBorn(o, Born \cup {r})
       /\ \A i : (Owns(o, i) <=> i = r) /\ ~ Fresh(o, i)
  BY OverflowIs
<1> HIDE DEF o
<1>12. IsSeq(<<o>>) /\ ToSet(<<o>>) = {o} /\ Len(<<o>>) = 1 /\ <<o>>[1] = o
  BY Short
<1>13. /\ IsSeq(new) /\ ToSet(new) = ToSet(Started) \cup {o} /\ Len(new) = Len(Started) + 1
       /\ DOMAIN new = 1 .. Len(Started) + 1 /\ Len(Started) \in Nat
       /\ DOMAIN Started = 1 .. Len(Started)
       /\ \A i \in 1 .. Len(Started) + 1 : new[i] = IF i <= Len(Started) THEN Started[i] ELSE o
  <2>1. /\ IsSeq(new) /\ Len(new) = Len(Started) + 1 /\ ToSet(new) = ToSet(Started) \cup {o}
        /\ DOMAIN Started = 1 .. Len(Started) /\ Len(Started) \in Nat
        /\ \A i \in 1 .. Len(Started) + 1 :
             new[i] = IF i <= Len(Started) THEN Started[i] ELSE <<o>>[i - Len(Started)]
    BY <1>10, <1>12, Joining
  <2>2. DOMAIN new = 1 .. Len(new)
    BY <2>1, Joining
  <2>3. \A i \in 1 .. Len(Started) + 1 : ~ (i <= Len(Started)) => i - Len(Started) = 1
    BY <2>1
  <2> QED BY <1>12, <2>1, <2>2, <2>3
<1>14. calls' = new \o calls
  BY <1>1
<1> HIDE DEF new
<1>15. \A f \in Frames : FrameIsBorn(f, Born) /\ Claims(f) \subseteq Born /\ ~ Fresh(f, r)
  BY <1>4, CallsAreBorn DEF OnlyBorn
<1>16. Replaced({}, ToSet(new))
  <2>1. ASSUME NEW i \in DOMAIN new, Enters(new[i])
        PROVE  i = Len(new) /\ \A g \in Frames : new[i].j \notin Claims(g)
    <3>1. ~ (i <= Len(Started))
      <4>1. i <= Len(Started) => new[i] = Started[i] /\ Started[i] \in ToSet(Started)
        BY <1>13, <2>1 DEF ToSet
      <4> QED BY <1>10, <2>1, <4>1 DEF Idle
    <3>2. i = Len(new) /\ new[i] = o
      BY <1>13, <2>1, <3>1
    <3> QED BY <1>4, <1>11, <1>15, <3>2
  <2>2. IsSeq(calls) /\ EntersFirst
    BY DEF Typed
  <2> QED BY <1>13, <1>14, <2>1, <2>2, Stacking
<1>17. Frames' = Frames \cup ToSet(Started) \cup {o} /\ IsSeq(calls') /\ EntersFirst'
  <2>1. ToSet(new \o calls) = ToSet(new) \cup ToSet(calls)
    BY <1>13, Joining DEF Typed
  <2> QED BY <1>13, <1>14, <1>16, <2>1 DEF Replaced, Frames
<1>18. Typed'
  BY <1>1, <1>3, <1>5, <1>8, <1>17 DEF Typed, DispatcherDoes
<1>19. OnlyBorn'
  <2>1. \A f : FrameIsBorn(f, Born) => FrameIsBorn(f, Born \cup {r})
    <3>1. Seq(Born) \subseteq Seq(Born \cup {r})
      BY SeqMonotonic
    <3> QED BY <3>1 DEF FrameIsBorn
  <2>2. \A f \in Frames' : FrameIsBorn(f, Born')
    BY <1>6, <1>10, <1>11, <1>15, <1>17, <2>1
  <2>3. Values(queue') \subseteq Born' \X {1, 2}
    BY <1>6, <1>8, <1>9 DEF DispatcherDoes
  <2> QED BY <2>2, <2>3 DEF OnlyBorn
<1>20. Lives'
  <2> SUFFICES ASSUME NEW x \in Request
               PROVE  /\ req'[x].state = "new" => job'[x].status = "unborn"
                      /\ job'[x].status # "alive" => job'[x].requests = <<>>
                      /\ job'[x].status = "unborn" => job'[x].task = "none"
                      /\ req'[x].state = "pending" => req'[x].job \in Born \cup {r}
    BY <1>6 DEF Lives
  <2>1. req'[x] = IF x = r THEN q ELSE req[x]
    BY <1>1 DEF Typed
  <2> QED BY <1>2, <1>3, <1>5, <2>1 DEF Lives
<1>21. JobsAreRight'
  <2> SUFFICES ASSUME NEW l \in Key, jobs[l] # NoRequest
               PROVE  jobs[l] \in Alive' /\ job'[jobs[l]].key = l
    BY <1>1 DEF JobsAreRight
  <2>1. jobs[l] \in Alive /\ job[jobs[l]].key = l
    BY DEF JobsAreRight
  <2> QED BY <1>4, <1>5, <1>6, <2>1 DEF Alive
<1>22. Left'
  BY <1>1, <1>10, <1>11, <1>17 DEF Left, Idle
<1>23. Known'
  <2> SUFFICES ASSUME NEW i \in Alive'
               PROVE  jobs[job'[i].key] = i \/ \E f \in Frames' : Owns(f, i)
    BY <1>1 DEF Known
  <2>1. i = r => Owns(o, i)
    BY <1>11
  <2>2. i # r => i \in Alive /\ job'[i] = job[i]
    BY <1>5, <1>6 DEF Alive
  <2> QED BY <1>17, <2>1, <2>2 DEF Known
<1>24. OldAreEnded'
  <2> SUFFICES ASSUME NEW i \in Alive', job'[i].task # "none", job'[i].since # changes
               PROVE  \E f \in Frames' : Ends(f, i)
    BY <1>7 DEF OldAreEnded, IsRunning
  <2>1. i \in Alive /\ job'[i] = job[i]
    BY <1>2, <1>5, <1>6 DEF Alive
  <2> QED BY <1>17, <2>1 DEF OldAreEnded, IsRunning
<1>25. UsesAreFresh'
  <2> SUFFICES ASSUME NEW i \in Alive', NEW f \in Frames', Fresh(f, i)
               PROVE  job'[i].since = changes
    BY <1>7 DEF UsesAreFresh
  <2>1. f \in Frames
    BY <1>10, <1>11, <1>17 DEF Idle
  <2>2. i \in Alive /\ job'[i] = job[i]
    BY <1>5, <1>6, <1>15, <2>1 DEF Alive
  <2> QED BY <2>1, <2>2 DEF UsesAreFresh
<1>26. CacheIsFresh'
  BY <1>1, <1>7 DEF CacheIsFresh
<1>27. DnsIsEnded'
  <2> SUFFICES ASSUME NEW i \in Alive', job'[i].task = "dns", config # "on"
               PROVE  \E f \in Frames' : Ends(f, i) \/ (f.call = "abort dns" /\ i \in ToSet(f.js))
    BY <1>1 DEF DnsIsEnded
  <2>1. i \in Alive /\ job'[i] = job[i]
    BY <1>2, <1>5, <1>6 DEF Alive
  <2> QED BY <1>17, <2>1 DEF DnsIsEnded
<1>28. req'[r].state = "busy" /\ \A x \in Request : x # r => req'[x] = req[x]
  BY <1>1, <1>3 DEF Typed
<1>29. ListsAreRight'
  <2>1. n.requests = job[r].requests
    BY <1>2, <1>4 DEF Lives
  <2>2. \A x \in Request : \/ req'[x].state = req[x].state /\ req'[x].job = req[x].job
                           \/ req[x].state # "pending" /\ req'[x].state # "pending"
    BY <1>1, <1>28
  <2> QED BY <1>1, <2>1, <2>2, SameLists
<1>30. BusyEnter'
  <2> SUFFICES ASSUME NEW x \in Request
               PROVE  req'[x].state = "busy" <=> \E f \in Frames' : Enters(f) /\ f.j = x
    BY DEF BusyEnter
  <2>1. CASE x = r
    BY <1>11, <1>17, <1>28, <2>1
  <2>2. CASE x # r
    <3>1. req[x].state = "busy" <=> \E f \in Frames : Enters(f) /\ f.j = x
      BY DEF JoinInv, BusyEnter
    <3> QED BY <1>10, <1>11, <1>17, <1>28, <2>2, <3>1 DEF Idle
  <2> QED BY <2>1, <2>2
<1>31. EmptyAreOwned' /\ PoppedAreTold'
  <2>1. ASSUME NEW i \in Alive', job'[i].requests = <<>> PROVE \E f \in Frames' : Owns(f, i)
    <3>1. i # r => i \in Alive /\ job'[i] = job[i]
      BY <1>5, <1>6 DEF Alive
    <3> QED BY <1>11, <1>17, <2>1, <3>1 DEF JoinInv, EmptyAreOwned
  <2>2. ASSUME NEW i \in Alive', job'[i].popped > 0 PROVE \E f \in Frames' : Tells(f, i)
    <3>1. i \in Alive /\ job'[i] = job[i]
      BY <1>2, <1>5, <1>6, <2>2 DEF Alive
    <3> QED BY <1>17, <2>2, <3>1 DEF JoinInv, PoppedAreTold
  <2> QED BY <2>1, <2>2 DEF EmptyAreOwned, PoppedAreTold
<1>32. JoinInv'
  BY <1>29, <1>30, <1>31 DEF JoinInv
<1> QED BY <1>17, <1>18, <1>19, <1>20, <1>21, <1>22, <1>23, <1>24, <1>25, <1>26, <1>27, <1>32

\* When no call is on the stack every job that is alive is in jobs_.
LEMMA AtRest ==
  ASSUME ResolverInv, Ready
  PROVE  /\ Frames = {}
         /\ \A j \in Alive : j \in Request /\ job[j].key \in Key /\ jobs[job[j].key] = j
         /\ \A j \in Alive : IsRunning(j) => job[j].since = changes
<1>1. Frames = {}
  BY Short DEF Ready, Frames
<1>2. \A j \in Alive : j \in Request /\ job[j].key \in Key
  BY JobIs DEF Alive, Jobs
<1> QED BY <1>1, <1>2 DEF ResolverInv, Known, OldAreEnded

\* Calls that are made from the message loop.
LEMMA Opening ==
  ASSUME Ready, NEW a, NEW l, NEW then, IsSeq(then), calls' = <<a, Restore(l)>> \o then,
         ~ Enters(a), \A f \in ToSet(then) : ~ Enters(f)
  PROVE  /\ IsSeq(calls') /\ EntersFirst' /\ Frames' = {a, Restore(l)} \cup ToSet(then)
         /\ Idle(Restore(l)) /\ \A B : FrameIsBorn(Restore(l), B)
<1>1. Idle(Restore(l)) /\ \A B : FrameIsBorn(Restore(l), B)
  BY IdleCalls
<1>2. PICK s : s = <<a, Restore(l)>>
  OBVIOUS
<1>3. IsSeq(s) /\ ToSet(s) = {a, Restore(l)}
  BY <1>2, Short
<1>4. IsSeq(s \o then) /\ ToSet(s \o then) = {a, Restore(l)} \cup ToSet(then)
  BY <1>3, Joining
<1>5. \A f \in ToSet(s \o then) : ~ Enters(f)
  BY <1>1, <1>4 DEF Idle
<1>6. Replaced({}, ToSet(s \o then)) /\ Frames' = ToSet(s \o then)
  BY <1>2, <1>4, <1>5, Beginning
<1> QED BY <1>1, <1>4, <1>6 DEF Replaced

\* The configuration changes: the DnsTasks that run end before the others go on.
LEMMA ConfigChanging ==
  ASSUME ResolverInv, Ready, NEW then, IsSeq(then), AbortDnsTasks(then),
         \A f \in ToSet(then) : ~ Enters(f) /\ Leaves(f) = {} /\ FrameIsBorn(f, Born),
         \A f \in ToSet(then), i \in Alive : Fresh(f, i) => job[i].since = changes,
         UNCHANGED <<jobs, job, req, cache, around>>
  PROVE  ResolverInv'
<1> USE DEF ResolverInv
<1> DEFINE dns == {k \in Key : jobs[k] # NoRequest /\ job[jobs[k]].task = "dns"}
           js == JobsAt(dns)
           a == AbortDns(js)
           l == D!GetLimits
<1>1. D!SetLimitsToZero /\ calls' = <<a, Restore(l)>> \o then
  BY DEF AbortDnsTasks
<1>2. js \in Seq(Born) /\ ToSet(js) = {jobs[k] : k \in dns}
  BY JobsAtIs
<1> HIDE DEF js, l
<1>3. /\ a.call = "abort dns" /\ a.js = js /\ ~ Enters(a) /\ Leaves(a) = {}
      /\ (\A i : Fresh(a, i) <=> i \in ToSet(js)) /\ FrameIsBorn(a, Born)
  BY <1>2, AbortDnsIs
<1> HIDE DEF a
<1>4. /\ IsSeq(calls') /\ EntersFirst' /\ Frames' = {a, Restore(l)} \cup ToSet(then)
      /\ Idle(Restore(l)) /\ FrameIsBorn(Restore(l), Born)
  BY <1>1, <1>3, Opening
<1>5. Born' = Born /\ Alive' = Alive /\ changes' = changes
  BY DEF Born, Alive, changes
<1>6. /\ Frames = {}
      /\ \A j \in Alive : j \in Request /\ job[j].key \in Key /\ jobs[job[j].key] = j
      /\ \A j \in Alive : IsRunning(j) => job[j].since = changes
  BY AtRest
<1>7. DispatcherDoes(Born \X {1, 2})
  BY <1>1, Taking, QueueIsBorn
<1>8. Typed'
  BY <1>4, <1>7 DEF Typed, DispatcherDoes
<1>9. OnlyBorn'
  BY <1>3, <1>4, <1>5, <1>7 DEF OnlyBorn, DispatcherDoes
<1>10. Lives'
  BY <1>5 DEF Lives
<1>11. JobsAreRight'
  BY <1>5 DEF JobsAreRight
<1>12. Left'
  BY <1>3, <1>4 DEF Left, Idle
<1>13. Known'
  BY <1>5, <1>6 DEF Known
<1>14. OldAreEnded'
  BY <1>5, <1>6 DEF OldAreEnded, IsRunning
<1>15. UsesAreFresh'
  <2>1. \A i \in Alive : i \in ToSet(js) => job[i].since = changes
    BY <1>2, <1>6 DEF IsRunning
  <2> QED BY <1>3, <1>4, <1>5, <2>1 DEF UsesAreFresh, Idle
<1>16. CacheIsFresh'
  BY <1>5 DEF CacheIsFresh
<1>17. DnsIsEnded'
  <2>1. ASSUME NEW i \in Alive, job[i].task = "dns" PROVE i \in ToSet(js)
    <3>1. i # NoRequest
      BY <1>6, HostResolverAssumption
    <3>2. job[i].key \in dns /\ jobs[job[i].key] = i
      BY <1>6, <2>1, <3>1
    <3> QED BY <1>2, <3>2
  <2> QED BY <1>3, <1>4, <1>5, <2>1 DEF DnsIsEnded
<1>18. Replaced({}, Frames') /\ HandsOver({}, Frames')
  BY <1>3, <1>4, <1>6 DEF Replaced, HandsOver, Owed, Idle
<1>19. JoinInv'
  BY <1>18, CalmCalls
<1> QED BY <1>4, <1>8, <1>9, <1>10, <1>11, <1>12, <1>13, <1>14, <1>15, <1>16, <1>17, <1>19

\* SetDnsClientEnabled.
LEMMA SetDnsClientEnabledKeeps ==
  ASSUME ResolverInv, NEW valid, SetDnsClientEnabled(valid)
  PROVE  ResolverInv'
<1>1. Ready /\ AbortDnsTasks(<<>>) /\ UNCHANGED <<jobs, job, req, cache, around>>
  BY DEF SetDnsClientEnabled
<1>2. IsSeq(<<>>) /\ ToSet(<<>>) = {}
  BY Short
<1> QED BY <1>1, <1>2, ConfigChanging

\* A call of the system's resolver ends; after too many failures there is no
\* configuration any more.
LEMMA OnProcTaskCompleteKeeps ==
  ASSUME ResolverInv, NEW j \in Request, NEW ok, OnProcTaskComplete(j, ok)
  PROVE  ResolverInv'
<1>1. /\ Ready /\ job[j].task = "proc" /\ UNCHANGED <<jobs, job, req, cache, around>>
  BY DEF OnProcTaskComplete
<1>2. PICK result \in {"ok", "failed"} :
        \/ AbortDnsTasks(<<Complete(j, result)>>)
        \/ calls' = <<Complete(j, result)>> /\ UNCHANGED <<dispatcher, config>>
  BY DEF OnProcTaskComplete
<1>3. j \in Born /\ job[j] \in Jobs /\ (j \in Alive => job[j].since = changes)
  BY <1>1, RunsFresh DEF IsRunning
<1> DEFINE c == Complete(j, result)
<1>4. /\ ~ Enters(c) /\ Leaves(c) = {} /\ FrameIsBorn(c, Born)
      /\ \A i \in Alive : Fresh(c, i) => job[i].since = changes
  BY <1>3, CompleteIs DEF Result
<1>5. AbortDnsTasks(<<c>>) \/ (calls' = <<c>> /\ UNCHANGED <<dispatcher, config>>)
  BY <1>2
<1> HIDE DEF c
<1>6. IsSeq(<<c>>) /\ ToSet(<<c>>) = {c}
  BY Short
<1>7. CASE AbortDnsTasks(<<c>>)
  BY <1>1, <1>4, <1>6, <1>7, ConfigChanging
<1>8. CASE calls' = <<c>> /\ UNCHANGED <<dispatcher, config>>
  <2>1. Replaced({}, {c})
    BY <1>1, <1>4, <1>6, <1>8, ClientCalls
  <2>2. TakeOver({}, {c}, NoRequest, NoJob)
    BY <1>4 DEF TakeOver
  <2>3. RequestsAre /\ DispatcherDoes(Born \X {1, 2}) /\ UNCHANGED <<jobs, cache, around, config>>
    BY <1>1, <1>8, SameRequests, QueueIsBorn
  <2>4. HandsOver({}, {c})
    BY <1>4 DEF HandsOver, Owed, Tells
  <2>5. JoinInv'
    BY <1>1, <2>1, <2>4, CalmCalls
  <2> QED BY <1>1, <2>1, <2>2, <2>3, <2>5, SettlingCalls
<1> QED BY <1>5, <1>7, <1>8

\* The network changes: what runs is aborted, what is cached forgotten.
LEMMA NetworkChanging ==
  ASSUME ResolverInv, NetworkChange, NEW then \in {<<>>, <<HostsBegin>>},
         AbortAllInProgressJobs(then), UNCHANGED <<job, req>>
  PROVE  ResolverInv'
<1> USE DEF ResolverInv
<1> DEFINE busy == {k \in Key : jobs[k] # NoRequest /\ IsRunning(jobs[k])}
           js == JobsAt(busy)
           a == AbortJobs(js)
           l == D!GetLimits
<1>1. /\ Ready /\ around' = [around EXCEPT !.changes = @ + 1] /\ cache' = [k \in Key |-> -1]
      /\ jobs' = [k \in Key |-> IF k \in busy THEN NoRequest ELSE jobs[k]]
      /\ D!SetLimitsToZero /\ calls' = <<a, Restore(l)>> \o then
  BY DEF AbortAllInProgressJobs, NetworkChange
<1>2. js \in Seq(Born) /\ ToSet(js) = {jobs[k] : k \in busy}
  BY JobsAtIs
<1> HIDE DEF js, l
<1>3. /\ ~ Enters(a) /\ Leaves(a) = ToSet(js) /\ FrameIsBorn(a, Born)
      /\ \A i : /\ i \in ToSet(js) => Owns(a, i) /\ Ends(a, i)
                /\ ~ Fresh(a, i)
  BY <1>2, AbortIs
<1> HIDE DEF a
<1>18. IsSeq(then) /\ \A f \in ToSet(then) : Idle(f) /\ FrameIsBorn(f, Born)
  BY Short, IdleCalls
<1>4. /\ IsSeq(calls') /\ EntersFirst' /\ Frames' = {a, Restore(l)} \cup ToSet(then)
      /\ Idle(Restore(l)) /\ FrameIsBorn(Restore(l), Born)
  BY <1>1, <1>3, <1>18, Opening DEF Idle
<1>5. Born' = Born /\ Alive' = Alive
  BY DEF Born, Alive
<1>6. /\ Frames = {}
      /\ \A j \in Alive : j \in Request /\ job[j].key \in Key /\ jobs[job[j].key] = j
  BY <1>1, AtRest
<1>19. \A k \in Key : jobs'[k] = IF k \in busy THEN NoRequest ELSE jobs[k]
  BY <1>1
<1>20. \A i \in Alive : IsRunning(i) => job[i].key \in busy /\ i \in ToSet(js)
  <2> TAKE i \in Alive
  <2>1. i # NoRequest
    BY <1>6, HostResolverAssumption
  <2>2. IsRunning(i) => job[i].key \in busy /\ jobs[job[i].key] = i
    BY <1>6, <2>1
  <2> QED BY <1>2, <2>2
<1>7. DispatcherDoes(Born \X {1, 2})
  BY <1>1, Taking, QueueIsBorn
<1>8. Typed'
  <2>1. around' \in [changes : Nat, scenario : Scenarios]
    <3>1. PICK c \in Nat : c = around.changes + 1
      BY DEF Typed
    <3>2. around' = [around EXCEPT !.changes = c]
      BY <1>1, <3>1
    <3> QED BY <3>2 DEF Typed
  <2>2. jobs' \in [Key -> Request \cup {NoRequest}] /\ cache' \in [Key -> Int]
    BY <1>1 DEF Typed
  <2> QED BY <1>4, <1>7, <2>1, <2>2 DEF Typed, DispatcherDoes
<1>9. OnlyBorn'
  BY <1>3, <1>4, <1>5, <1>7, <1>18 DEF OnlyBorn, DispatcherDoes
<1>10. Lives'
  BY <1>5 DEF Lives
<1>11. JobsAreRight'
  <2> SUFFICES ASSUME NEW k \in Key, jobs'[k] # NoRequest
               PROVE  jobs'[k] \in Alive /\ job[jobs'[k]].key = k
    BY <1>5 DEF JobsAreRight
  <2> HIDE DEF busy
  <2> QED BY <1>19 DEF JobsAreRight
<1>12. Left'
  <2>1. ASSUME NEW k \in Key, jobs'[k] \in ToSet(js) PROVE FALSE
    <3>1. PICK m \in busy : jobs'[k] = jobs[m]
      BY <1>2, <2>1
    <3>2. m \in Key /\ jobs[m] # NoRequest /\ job[jobs[m]].key = m
      BY <3>1 DEF JobsAreRight
    <3>3. k \notin busy /\ jobs'[k] = jobs[k] /\ jobs[k] # NoRequest
      BY <1>19, <3>1, <3>2
    <3>4. job[jobs[k]].key = k
      BY <3>3 DEF JobsAreRight
    <3> QED BY <3>1, <3>2, <3>3, <3>4
  <2> QED BY <1>3, <1>4, <1>18, <2>1 DEF Left, Idle
<1>13. Known'
  <2> SUFFICES ASSUME NEW i \in Alive
               PROVE  jobs'[job[i].key] = i \/ \E f \in Frames' : Owns(f, i)
    BY <1>5 DEF Known
  <2>1. CASE job[i].key \in busy
    <3>1. i \in ToSet(js)
      BY <1>2, <1>6, <2>1
    <3> QED BY <1>3, <1>4, <3>1
  <2>2. CASE job[i].key \notin busy
    BY <1>6, <1>19, <2>2
  <2> QED BY <2>1, <2>2
<1>14. OldAreEnded'
  BY <1>3, <1>4, <1>5, <1>20 DEF OldAreEnded, IsRunning
<1>15. UsesAreFresh'
  BY <1>3, <1>4, <1>18 DEF UsesAreFresh, Idle
<1>16. CacheIsFresh'
  BY <1>1 DEF CacheIsFresh
<1>17. DnsIsEnded'
  <2>1. \A i \in Alive : job[i].task = "dns" => IsRunning(i)
    BY DEF IsRunning
  <2> QED BY <1>3, <1>4, <1>5, <1>20, <2>1 DEF DnsIsEnded
<1>21. Replaced({}, Frames') /\ HandsOver({}, Frames')
  BY <1>3, <1>4, <1>6, <1>18 DEF Replaced, HandsOver, Owed, Idle
<1>22. JoinInv'
  BY <1>21, CalmCalls
<1> QED BY <1>4, <1>8, <1>9, <1>10, <1>11, <1>12, <1>13, <1>14, <1>15, <1>16, <1>17, <1>22

-----------------------------------------------------------------------------
(* The theorem.                                                            *)

\* The resolver begins with nothing.
LEMMA InitIsRight ==
  ASSUME Init
  PROVE  ResolverInv
<1>1. /\ queue = EmptyQueue(Priority) /\ jobs = [k \in Key |-> NoRequest]
      /\ job = [r \in Request |-> NoJob] /\ req = [r \in Request |-> NewRequest]
      /\ cache = [k \in Key |-> -1] /\ calls = <<>>
      /\ \E s \in Scenarios : around = [changes |-> 0, scenario |-> s]
  BY SameQueue DEF Init, D!Init
<1>2. Frames = {} /\ IsSeq(calls)
  BY <1>1, Short DEF Frames
<1>3. NoJob \in Jobs /\ NewRequest \in Requests
  <2>1. 0 \in Priority /\ 1 \in Key
    BY HostResolverAssumption DEF Priority, Key
  <2> QED BY <2>1, EmptySeq DEF NoJob, NewRequest, Jobs, Requests
<1>4. queue \in [Priority -> Seq(Slot)] /\ Values(queue) = {}
  BY <1>1, EmptyQueueProperties
<1>5. \A r \in Request : job[r].status = "unborn" /\ job[r].requests = <<>> /\ job[r].task = "none"
                         /\ req[r].state = "new"
  BY <1>1 DEF NoJob, NewRequest
<1>6. Born = {} /\ Alive = {}
  BY <1>5 DEF Born, Alive
<1>7. Typed
  BY <1>1, <1>2, <1>3, <1>4 DEF Typed
<1>8. OnlyBorn /\ Left
  BY <1>2, <1>4 DEF OnlyBorn, Left
<1>9. Lives
  BY <1>5 DEF Lives
<1>10. EntersFirst
  <2>1. DOMAIN calls = {}
    BY <1>1
  <2> QED BY <2>1 DEF EntersFirst, First
<1>11. JobsAreRight /\ CacheIsFresh
  BY <1>1 DEF JobsAreRight, CacheIsFresh
<1>12. Known /\ OldAreEnded /\ UsesAreFresh /\ DnsIsEnded
  BY <1>6 DEF Known, OldAreEnded, UsesAreFresh, DnsIsEnded
<1>13. JoinInv
  <2>1. IsInjective(<<>>) /\ ToSet(<<>>) = {}
    BY Short DEF IsInjective
  <2> QED BY <1>2, <1>5, <1>6, <2>1
      DEF JoinInv, ListsAreRight, BusyEnter, EmptyAreOwned, PoppedAreTold
<1> QED BY <1>7, <1>8, <1>9, <1>10, <1>11, <1>12, <1>13 DEF ResolverInv

\* Every step keeps the invariant.
LEMMA NextIsRight ==
  ASSUME ResolverInv, [Next]_vars
  PROVE  ResolverInv'
<1>1. CASE Return
  BY <1>1, HandleClearedKeeps, StartJobKeeps, ProcStartedKeeps, CompleteRequestsKeeps,
     SlotFinishedKeeps, RunCallbacksKeeps, IdleReturns, DestroyKeeps, EvictOnOverflowKeeps,
     AttachRequestKeeps, SecondStartedKeeps, DnsTaskAbortedKeeps, LimitsKeep, JobAbortedKeeps,
     HostsBeginKeeps, ServeFromHostsKeeps DEF Return
<1>2. CASE Client
  <2>1. around.scenario \in Scenarios
    BY DEF ResolverInv, Typed
  <2>2. /\ around.scenario.requests \subseteq Request /\ around.scenario.keys \subseteq Key
        /\ around.scenario.priorities \subseteq Priority
    BY <2>1, HostResolverAssumption DEF Key, Priority
  <2>3. PICK r \in Request :
          \/ \E k \in Key, p \in Priority : Resolve(r, k, p)
          \/ CancelRequest(r)
          \/ \E p \in Priority : ChangeRequestPriority(r, p)
    BY <1>2, <2>2 DEF Client
  <2>4. ASSUME NEW k \in Key, NEW p \in Priority, Resolve(r, k, p) PROVE ResolverInv'
    BY <2>4, ResolveJoins, ResolveCreates
  <2> QED BY <2>3, <2>4, CancelRequestKeeps, ChangeRequestPriorityKeeps
<1>3. CASE Change
  <2>1. ASSUME OnIPAddressChanged PROVE ResolverInv'
    BY <2>1, NetworkChanging DEF OnIPAddressChanged
  <2>2. ASSUME NEW valid, OnDNSChanged(valid) PROVE ResolverInv'
    BY <2>2, NetworkChanging DEF OnDNSChanged
  <2> QED BY <1>3, <2>1, <2>2, DestroyResolverKeeps, SetDnsClientEnabledKeeps DEF Change
<1>4. ASSUME NEW j \in Request, LookupEnds(j) PROVE ResolverInv'
  BY <1>4, TransactionCompleteKeeps, OnProcTaskCompleteKeeps DEF LookupEnds
<1>5. CASE UNCHANGED vars
  <2>1. /\ UNCHANGED dispatcher /\ UNCHANGED <<jobs, cache, around, config>>
        /\ job' = job /\ req' = req /\ calls' = calls
    BY <1>5 DEF vars, resolver
  <2>2. Replaced({}, {})
    BY <2>1, Staying DEF ResolverInv, Typed
  <2>3. TakeOver({}, {}, NoRequest, NoJob)
    BY IdleTakeOver
  <2>4. RequestsAre /\ DispatcherDoes(Born \X {1, 2})
    BY <2>1, SameRequests, QueueIsBorn
  <2>5. HandsOver({}, {})
    BY IdleHandsOver
  <2>6. JoinInv'
    BY <2>1, <2>2, <2>5, CalmCalls
  <2> QED BY <2>1, <2>2, <2>3, <2>4, <2>6, SettlingCalls
<1> QED BY <1>1, <1>2, <1>3, <1>4, <1>5 DEF Next

\* NothingIsStale, for any requests, keys, limits and scenarios.
THEOREM NothingStale == Spec => []NothingIsStale
<1>1. Init => ResolverInv
  BY InitIsRight
<1>2. ResolverInv /\ [Next]_vars => ResolverInv'
  BY NextIsRight
<1>3. ResolverInv => NothingIsStale
  <2> SUFFICES ASSUME ResolverInv PROVE NothingIsStale
    OBVIOUS
  <2>1. Ready => Frames = {}
    BY Short DEF Ready, Frames
  <2>2. NoStaleResults
    BY <2>1 DEF NoStaleResults, ResolverInv, CacheIsFresh, OldAreEnded
  <2>3. DnsTasksHaveConfig
    BY <2>1 DEF DnsTasksHaveConfig, ResolverInv, DnsIsEnded
  <2> QED BY <2>2, <2>3 DEF NothingIsStale
<1> QED BY <1>1, <1>2, <1>3, PTL DEF Spec

\* JobsMatchRequests, whatever the callbacks do in the middle of it.
THEOREM JobsMatch == Spec => []JobsMatchRequests
<1>1. Init => ResolverInv
  BY InitIsRight
<1>2. ResolverInv /\ [Next]_vars => ResolverInv'
  BY NextIsRight
<1>3. ResolverInv => JobsMatchRequests
  <2> SUFFICES ASSUME ResolverInv PROVE JobsMatchRequests
    OBVIOUS
  <2>1. \A j \in Request :
          /\ IsInjective(job[j].requests)
          /\ \A r \in Request : r \in ToSet(job[j].requests) <=>
                                 req[r].state = "pending" /\ req[r].job = j
    BY DEF ResolverInv, JoinInv, ListsAreRight
  <2>2. ASSUME Ready, NEW j \in Alive PROVE jobs[job[j].key] = j /\ job[j].requests # <<>>
    BY <2>2, AtRest DEF ResolverInv, JoinInv, EmptyAreOwned
  <2>3. ASSUME Ready, NEW r \in Request PROVE req[r].state # "busy"
    BY <2>3, AtRest DEF ResolverInv, JoinInv, BusyEnter
  <2>4. ASSUME NEW r \in Request, req[r].state = "pending" PROVE req[r].job \in Alive
    <3>1. req[r].job \in Request
      BY <2>4, PendingIs
    <3>2. r \in ToSet(job[req[r].job].requests)
      BY <2>1, <2>4, <3>1
    <3>3. job[req[r].job].requests # <<>>
      BY <3>2, Short
    <3> QED BY <3>1, <3>3, JobIs DEF Alive
  <2> QED BY <2>1, <2>2, <2>3, <2>4 DEF JobsMatchRequests
<1> QED BY <1>1, <1>2, <1>3, PTL DEF Spec
=============================================================================
