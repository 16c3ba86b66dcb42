-------------------- MODULE ClientSocketPoolWakeupProofs --------------------
(***************************************************************************)
(* The limits of ClientSocketPool and its wakeups, for any groups, handles,*)
(* limits and bounds.                                                      *)
(*                                                                         *)
(* Why no wakeup is lost: when no call is on the stack, or none that will  *)
(* look for stalled groups, a group that wants a slot has no idle socket   *)
(* of its own, so that closing idle sockets makes no room in it; and as    *)
(* long as it has room, the pool is full of sockets that are connecting or *)
(* handed out.  A step that frees one of those puts the search for stalled *)
(* groups on the stack.                                                    *)
(***************************************************************************)
EXTENDS ClientSocketPoolProofs

NumIdle(g) == Cardinality(idle_sockets[g])

NumJobs(g) == Cardinality(jobs[g])

NumWaiting(g) == size(pending_requests[g])

\* More requests wait in the group than it has jobs.
Wants(g) == NumWaiting(g) > NumJobs(g)

Unwanted(g) == idle_sockets[g] # {} => ~ Wants(g)

Spare(g) ==
  unassigned_job_count[g] > 0 =>
    NumWaiting(g) + unassigned_job_count[g] <= NumJobs(g)

\* Every slot of the pool is connecting or handed out.
Drained == ReachedMaxSocketsLimit /\ idle_socket_count = 0

\* A group that has an idle socket wants none, except between the release of
\* a socket and its use for the next request of the group.
IdleIsUnwanted ==
  \A g \in Group : ~ Unwanted(g) =>
    frame.at = "slot" /\ frame.group = g /\ NumIdle(g) <= 1

SpareJobs == \A g \in Group : Spare(g)

Awake == \A g \in Group : CanUseAdditionalSocketSlot(g) => Drained

\* Nothing is stalled unless the search for stalled groups is on the stack.
StaysAwake == frame.at \notin {"slot", "check"} => Awake

\* The inductive invariant, over BookInv.
WakeInv ==
  /\ BookInv
  /\ IdleIsUnwanted
  /\ SpareJobs
  /\ StaysAwake

-----------------------------------------------------------------------------
\* The numbers that the limits and the wakeups are about.
LEMMA PoolNumbers ==
  ASSUME BookInv
  PROVE  /\ idle_socket_count \in Nat /\ connecting_socket_count \in Nat
         /\ handed_out_socket_count \in Nat
         /\ idle_socket_count = 0 <=> AllIdle = {}
         /\ \A g \in Group :
              /\ active_socket_count[g] \in Nat
              /\ NumJobs(g) \in Nat /\ NumIdle(g) \in Nat /\ NumWaiting(g) \in Nat
              /\ unassigned_job_count[g] \in Nat
              /\ NumIdle(g) = 0 <=> idle_sockets[g] = {}
              /\ NumActiveSocketSlots(g) =
                   active_socket_count[g] + NumJobs(g) + NumIdle(g)
         /\ max_sockets \in Nat /\ max_sockets_per_group \in Nat
<1>1. ConnTypes /\ SocketInOnePlace
  BY DEF BookInv, PoolInv, ConnInv
<1>2. /\ idle_socket_count \in Nat /\ connecting_socket_count \in Nat
      /\ handed_out_socket_count \in Nat
      /\ \A g \in Group : /\ active_socket_count[g] \in Nat
                          /\ NumJobs(g) \in Nat /\ NumIdle(g) \in Nat
  BY <1>1, CountersAreNumbers DEF BookInv, NumJobs, NumIdle
<1>3. idle_socket_count = 0 <=> AllIdle = {}
  BY <1>1, ConnsAreFinite, FS_EmptySet DEF BookInv, IdleCount
<1>4. \A g \in Group : NumIdle(g) = 0 <=> idle_sockets[g] = {}
  BY <1>1, ConnsAreFinite, FS_EmptySet DEF NumIdle
<1>5. \A g \in Group : NumWaiting(g) \in Nat
  BY ValuesAreFinite DEF NumWaiting, BookInv, BookTypes
<1>6. \A g \in Group : unassigned_job_count[g] \in Nat
  BY <1>2 DEF BookInv, UnassignedBound
<1>7. max_sockets \in Nat /\ max_sockets_per_group \in Nat
  BY LimitsAssumption
<1>8. \A g \in Group : NumActiveSocketSlots(g) =
        active_socket_count[g] + NumJobs(g) + NumIdle(g)
  BY DEF NumActiveSocketSlots, NumJobs, NumIdle
<1> QED BY <1>2, <1>3, <1>4, <1>5, <1>6, <1>7, <1>8

\* The number of idle sockets of each group follows deletions and an addition.
LEMMA IdleNumbers ==
  ASSUME ConnTypes, NEW D, NEW g, NEW added \in SUBSET Conn,
         added \intersect AllIdle = {}, UpdateIdle(D, g, added)
  PROVE  \A x \in Group :
           /\ Cardinality(idle_sockets[x] \intersect D) \in Nat
           /\ Cardinality(idle_sockets[x] \intersect D) <= NumIdle(x)
           /\ NumIdle(x)' = NumIdle(x) - Cardinality(idle_sockets[x] \intersect D)
                              + (IF x = g THEN Cardinality(added) ELSE 0)
<1> SUFFICES ASSUME NEW x \in Group
             PROVE  /\ Cardinality(idle_sockets[x] \intersect D) \in Nat
                    /\ Cardinality(idle_sockets[x] \intersect D) <= NumIdle(x)
                    /\ NumIdle(x)' =
                         NumIdle(x) - Cardinality(idle_sockets[x] \intersect D)
                           + (IF x = g THEN Cardinality(added) ELSE 0)
  OBVIOUS
<1>1. IsFiniteSet(idle_sockets[x]) /\ idle_sockets[x] \subseteq AllIdle
  BY ConnsAreFinite
<1>2. IsFiniteSet(added)
  BY ConstantsAssumption, FS_Subset
<1> DEFINE A == IF x = g THEN added ELSE {}
<1>3. idle_sockets'[x] = (idle_sockets[x] \ D) \union A
  BY IdleAfter
<1>4. /\ IsFiniteSet(idle_sockets[x] \ D) /\ IsFiniteSet(idle_sockets[x] \intersect D)
      /\ Cardinality(idle_sockets[x] \ D) =
           Cardinality(idle_sockets[x]) - Cardinality(idle_sockets[x] \intersect D)
  BY <1>1, FS_Difference, FS_Intersection
<1>5. IsFiniteSet(A) /\ (idle_sockets[x] \ D) \intersect A = {}
  BY <1>1, <1>2, FS_EmptySet
<1>6. /\ Cardinality(idle_sockets[x]) \in Nat /\ Cardinality(A) \in Nat
      /\ Cardinality(idle_sockets[x] \intersect D) \in Nat
      /\ Cardinality(idle_sockets[x] \ D) \in Nat
      /\ Cardinality({}) = 0
  BY <1>1, <1>4, <1>5, FS_CardinalityType, FS_EmptySet
<1>7. Cardinality((idle_sockets[x] \ D) \union A) =
        Cardinality(idle_sockets[x] \ D) + Cardinality(A)
  <2> HIDE DEF A
  <2>1. Cardinality((idle_sockets[x] \ D) \union A) =
          Cardinality(idle_sockets[x] \ D) + Cardinality(A)
            - Cardinality((idle_sockets[x] \ D) \intersect A)
    BY <1>4, <1>5, FS_Union
  <2>2. Cardinality((idle_sockets[x] \ D) \intersect A) = 0
    BY <1>5, <1>6, Zenon
  <2> QED BY <1>6, <2>1, <2>2
<1>8. Cardinality(A) = IF x = g THEN Cardinality(added) ELSE 0
  BY <1>6
<1>9. Cardinality(idle_sockets[x] \intersect D) <= Cardinality(idle_sockets[x])
  BY <1>4, <1>6
<1> HIDE DEF A
<1> QED BY <1>3, <1>4, <1>6, <1>7, <1>8, <1>9 DEF NumIdle


-----------------------------------------------------------------------------
\* There is room for a new connection, for the request of h or for a preconnect,
\* once the sockets in D are deleted and those in V are closed.
Room(g, h, D, V) ==
  /\ h # None => idle_sockets[g] \subseteq D /\ unassigned_job_count[g] = 0
  /\ V \subseteq AllIdle \ D /\ V \intersect idle_sockets[g] = {}
  /\ h \notin IgnoreLimits =>
       /\ NumActiveSocketSlots(g) - Cardinality(idle_sockets[g] \intersect D)
            < max_sockets_per_group
       /\ \/ TotalSockets - Cardinality(D) < max_sockets /\ V = {}
          \/ idle_socket_count - Cardinality(D) > 0 /\ \E c \in AllIdle : V = {c}

\* There is none.
NoRoom(g, h, D) ==
  h # None =>
    /\ idle_sockets[g] \subseteq D /\ unassigned_job_count[g] = 0
    /\ \/ NumActiveSocketSlots(g) - Cardinality(idle_sockets[g] \intersect D)
            >= max_sockets_per_group
       \/ /\ TotalSockets - Cardinality(D) >= max_sockets
          /\ idle_socket_count - Cardinality(D) = 0

\* What is done with a new connection c.
UsesNew(g, h, E, c, rv) ==
  \/ HandsOut(g, h, E, c, rv)
  \/ StartsJob(g, h, E, c, rv)
  \/ MakesIdle(g, h, E, c, rv)
  \/ rv = "error" /\ GetsNothing(g, h, E, rv)

\* When RequestSocketInternal does what, in terms of the limits: a pool that is
\* full closes an idle socket for a new one, and finds one to close because its
\* counter of idle sockets is exact.
LEMMA RoomOutcomes ==
  ASSUME BookInv, NEW g \in Group, NEW h \in Handle \union {None},
         NEW D, D \subseteq AllIdle, NEW rv \in Outcome,
         RequestSocketInternal(g, h, D, rv)
  PROVE  \/ \E c \in idle_sockets[g] \ D :
              rv = "ok" /\ HandsOut(g, h, D \union {c}, c, rv)
         \/ idle_sockets[g] \subseteq D /\ TakesJob(g, h, D, rv)
         \/ NoRoom(g, h, D) /\ (h # None => rv = "io_pending")
            /\ GetsNothing(g, h, D, rv)
         \/ /\ UnusedConn # {}
            /\ \E V : Room(g, h, D, V) /\ UsesNew(g, h, D \union V, NewConn, rv)
<1> DEFINE usable == idle_sockets[g] \ D
           idle == idle_socket_count - Cardinality(D)
           slots == NumActiveSocketSlots(g) - Cardinality(idle_sockets[g] \intersect D)
           full == TotalSockets - Cardinality(D) >= max_sockets /\ h \notin IgnoreLimits
           elsewhere == (AllIdle \ D) \ idle_sockets[g]
           victims == IF full THEN {{c} : c \in elsewhere} ELSE {}
           vs == IF victims = {} THEN {{}} ELSE victims
<1>1. CASE /\ h # None /\ rv = "ok"
           /\ \E c \in usable : AssignIdleSocketToRequest(c, h, g, D)
           /\ UNCHANGED jobVars
  <2>1. PICK c \in usable : AssignIdleSocketToRequest(c, h, g, D)
    BY <1>1
  <2>2. HandsOut(g, h, D \union {c}, c, rv)
    BY <1>1, <2>1 DEF HandsOut, AssignIdleSocketToRequest
  <2> QED BY <1>1, <2>2
<1>2. CASE /\ h # None /\ rv = "io_pending" /\ TryToUseUnassignedConnectJob(g)
           /\ usable = {}
           /\ UpdateIdle(D, g, {}) /\ NoSocketHandedOut
           /\ UNCHANGED <<jobs, connecting_socket_count, born>>
  <2>1. TakesJob(g, h, D, rv)
    BY <1>2 DEF TakesJob
  <2> QED BY <1>2, <2>1
<1>3. CASE /\ h = None \/ (usable = {} /\ unassigned_job_count[g] = 0)
           /\ \/ slots >= max_sockets_per_group
              \/ TotalSockets - Cardinality(D) >= max_sockets /\ idle = 0
              \/ h = None
           /\ rv = "io_pending" \/ (h = None /\ rv = "error")
           /\ UpdateIdle(D, g, {}) /\ NoSocketHandedOut /\ UNCHANGED jobVars
  <2>1. GetsNothing(g, h, D, rv)
    BY <1>3 DEF GetsNothing
  <2>2. NoRoom(g, h, D)
    BY <1>3 DEF NoRoom
  <2> QED BY <1>3, <2>1, <2>2
<1>4. CASE /\ h = None \/ (usable = {} /\ unassigned_job_count[g] = 0)
           /\ slots < max_sockets_per_group \/ h \in IgnoreLimits
           /\ full => idle > 0
           /\ h = None /\ full => victims # {}
           /\ UnusedConn # {}
           /\ \E V \in vs :
                \/ /\ rv = "ok" /\ UNCHANGED jobVars
                   /\ \/ h # None /\ HandOutSocket(NewConn, h, g)
                         /\ UpdateIdle(D \union V, g, {})
                      \/ h = None /\ NoSocketHandedOut
                         /\ UpdateIdle(D \union V, g, {NewConn})
                \/ /\ rv = "io_pending"
                   /\ AddConnectJob(NewConn, g, h = None)
                   /\ UpdateIdle(D \union V, g, {}) /\ NoSocketHandedOut
                \/ /\ rv = "error"
                   /\ \/ h # None /\ HandOutSocket(NewConn, h, g)
                      \/ NoSocketHandedOut
                   /\ UpdateIdle(D \union V, g, {}) /\ UNCHANGED jobVars
  <2>1. PICK d : d = NewConn
    OBVIOUS
  <2>2. PICK V \in vs :
                \/ /\ rv = "ok" /\ UNCHANGED jobVars
                   /\ \/ h # None /\ HandOutSocket(d, h, g)
                         /\ UpdateIdle(D \union V, g, {})
                      \/ h = None /\ NoSocketHandedOut
                         /\ UpdateIdle(D \union V, g, {d})
                \/ /\ rv = "io_pending"
                   /\ AddConnectJob(d, g, h = None)
                   /\ UpdateIdle(D \union V, g, {}) /\ NoSocketHandedOut
                \/ /\ rv = "error"
                   /\ \/ h # None /\ HandOutSocket(d, h, g)
                      \/ NoSocketHandedOut
                   /\ UpdateIdle(D \union V, g, {}) /\ UNCHANGED jobVars
    BY <1>4, <2>1, Zenon
  <2>3. UsesNew(g, h, D \union V, d, rv)
    BY <1>4, <2>2 DEF UsesNew, HandsOut, StartsJob, MakesIdle, GetsNothing
  <2>4. V \subseteq elsewhere
    BY <2>2
  <2>5. victims = {} => V = {}
    BY <2>2
  <2>6. victims # {} => \E c \in AllIdle : V = {c}
    BY <2>2
  <2>7. ASSUME full PROVE victims # {} /\ idle > 0
    <3>1. CASE h = None
      BY <1>4, <2>7, <3>1
    <3>2. CASE h # None
      <4>1. IsFiniteSet(AllIdle) /\ idle_socket_count = Cardinality(AllIdle)
        BY ConnsAreFinite DEF BookInv, PoolInv, ConnInv, IdleCount
      <4>2. AllIdle # D
        <5> SUFFICES ASSUME AllIdle = D PROVE FALSE
          OBVIOUS
        <5>1. Cardinality(AllIdle) \in Nat
          BY <4>1, FS_CardinalityType
        <5> QED BY <1>4, <2>7, <4>1, <5>1
      <4>3. elsewhere # {}
        BY <1>4, <3>2, <4>2
      <4>4. PICK c \in elsewhere : TRUE
        BY <4>3
      <4>5. {c} \in victims
        BY <2>7, <4>4
      <4> QED BY <1>4, <2>7, <4>5
    <3> QED BY <3>1, <3>2
  <2>8. ASSUME ~ full, h \notin IgnoreLimits
        PROVE  TotalSockets - Cardinality(D) < max_sockets /\ V = {}
    <3>1. V = {} /\ ~ (TotalSockets - Cardinality(D) >= max_sockets)
      BY <2>2, <2>8
    <3>2. IsFiniteSet(D)
      BY ConnsAreFinite, FS_Subset DEF BookInv, PoolInv, ConnInv
    <3>3. Cardinality(D) \in Nat /\ TotalSockets \in Nat /\ max_sockets \in Nat
      BY <3>2, PoolNumbers, FS_CardinalityType DEF TotalSockets
    <3> QED BY <3>1, <3>3
  <2>9. Room(g, h, D, V)
    BY <1>4, <2>4, <2>6, <2>7, <2>8 DEF Room
  <2> QED BY <1>4, <2>1, <2>3, <2>9
<1>5. (/\ rv = "io_pending"
       /\ \/ slots >= max_sockets_per_group /\ h \notin IgnoreLimits
          \/ slots < max_sockets_per_group /\ full /\ idle = 0) =>
        /\ \/ slots >= max_sockets_per_group
           \/ TotalSockets - Cardinality(D) >= max_sockets /\ idle = 0
           \/ h = None
        /\ rv = "io_pending" \/ (h = None /\ rv = "error")
  OBVIOUS
<1> QED
  BY <1>1, <1>2, <1>3, <1>4, <1>5, Zenon DEF RequestSocketInternal

\* The numbers after a step that deletes the idle sockets in E, makes those in A
\* idle in g, and may hand out sockets and start jobs.
LEMMA EffectNumbers ==
  ASSUME BookInv, NEW g \in Group, NEW E, E \subseteq AllIdle,
         NEW A, A \subseteq Conn, A \intersect AllIdle = {}, UpdateIdle(E, g, A),
         handed_out_socket_count' \in Int, connecting_socket_count' \in Int,
         active_socket_count'[g] \in Int, NumJobs(g)' \in Int
  PROVE  /\ Cardinality(E) \in Nat /\ Cardinality(A) \in Nat
         /\ Cardinality(idle_sockets[g] \intersect E) \in Nat
         /\ idle_socket_count' =
              idle_socket_count - Cardinality(E) + Cardinality(A)
         /\ TotalSockets' =
              handed_out_socket_count' + connecting_socket_count'
                + idle_socket_count - Cardinality(E) + Cardinality(A)
         /\ NumIdle(g)' = NumIdle(g) - Cardinality(idle_sockets[g] \intersect E)
                            + Cardinality(A)
         /\ NumActiveSocketSlots(g)' =
              active_socket_count'[g] + NumJobs(g)' + NumIdle(g)
                - Cardinality(idle_sockets[g] \intersect E) + Cardinality(A)
         /\ idle_sockets'[g] = (idle_sockets[g] \ E) \union A
         /\ \A x \in Group : x # g => idle_sockets'[x] \subseteq idle_sockets[x]
<1>1. ConnTypes /\ SocketInOnePlace
  BY DEF BookInv, PoolInv, ConnInv
<1>2. IsFiniteSet(E) /\ IsFiniteSet(A)
  BY <1>1, ConnsAreFinite, ConstantsAssumption, FS_Subset
<1>3. Cardinality(E) \in Nat /\ Cardinality(A) \in Nat
  BY <1>2, FS_CardinalityType
<1>4. /\ Cardinality(idle_sockets[g] \intersect E) \in Nat
      /\ NumIdle(g)' = NumIdle(g) - Cardinality(idle_sockets[g] \intersect E)
                         + Cardinality(A)
  <2>1. \A x \in Group :
           /\ Cardinality(idle_sockets[x] \intersect E) \in Nat
           /\ NumIdle(x)' = NumIdle(x) - Cardinality(idle_sockets[x] \intersect E)
                              + (IF x = g THEN Cardinality(A) ELSE 0)
    BY <1>1, IdleNumbers
  <2> QED BY <2>1
<1>5. idle_socket_count' = idle_socket_count - Cardinality(E) + Cardinality(A)
  BY DEF UpdateIdle
<1>6. /\ idle_sockets'[g] = (idle_sockets[g] \ E) \union A
      /\ \A x \in Group : x # g => idle_sockets'[x] \subseteq idle_sockets[x]
  BY <1>1, IdleAfter
<1>7. idle_socket_count \in Nat /\ NumIdle(g) \in Nat
  BY PoolNumbers
<1>8. TotalSockets' = handed_out_socket_count' + connecting_socket_count'
                        + idle_socket_count - Cardinality(E) + Cardinality(A)
  BY <1>3, <1>5, <1>7 DEF TotalSockets
<1>9. NumActiveSocketSlots(g)' = active_socket_count'[g] + NumJobs(g)' + NumIdle(g)'
  BY DEF NumActiveSocketSlots, NumJobs, NumIdle
<1>10. NumActiveSocketSlots(g)' =
         active_socket_count'[g] + NumJobs(g)' + NumIdle(g)
           - Cardinality(idle_sockets[g] \intersect E) + Cardinality(A)
  BY <1>3, <1>4, <1>7, <1>9
<1> QED BY <1>3, <1>4, <1>5, <1>6, <1>8, <1>10

\* What a request does to the group g: an idle socket is taken,
TakesIdle(g, h, rv) ==
  /\ h # None /\ rv = "ok" /\ idle_sockets[g] # {} /\ NumIdle(g)' < NumIdle(g)
  /\ NumJobs(g)' = NumJobs(g)
  /\ unassigned_job_count'[g] = unassigned_job_count[g]

\* or an unassigned job,
TakesSpare(g, h, rv) ==
  /\ h # None /\ rv = "io_pending" /\ idle_sockets'[g] = {}
  /\ NumJobs(g)' = NumJobs(g)
  /\ unassigned_job_count[g] > 0
  /\ unassigned_job_count'[g] = unassigned_job_count[g] - 1

\* or it has to wait, at a limit,
HasToWait(g, h, D, rv) ==
  /\ h # None => /\ rv = "io_pending" /\ idle_sockets'[g] = {}
                 /\ unassigned_job_count[g] = 0
                 /\ \/ NumActiveSocketSlots(g)' >= max_sockets_per_group
                    \/ Drained'
  /\ rv # "ok"
  /\ D = {} => idle_sockets'[g] = idle_sockets[g]
  /\ NumJobs(g)' = NumJobs(g) /\ active_socket_count'[g] = active_socket_count[g]
  /\ unassigned_job_count'[g] = unassigned_job_count[g]

\* or there is room for a new connection.
GetsNew(g, h, D, rv) ==
  /\ h # None => idle_sockets'[g] = {} /\ unassigned_job_count[g] = 0
  /\ h = None /\ D = {} => HasAvailableSocketSlot(g) /\ ~ Drained
  /\ NumJobs(g)' = IF rv = "io_pending" THEN NumJobs(g) + 1 ELSE NumJobs(g)
  /\ active_socket_count'[g] >= active_socket_count[g]
  /\ unassigned_job_count'[g] =
       IF rv = "io_pending" /\ h = None THEN unassigned_job_count[g] + 1
                                        ELSE unassigned_job_count[g]

\* What a step on behalf of the group g leaves of the group x.
LeavesAlone(x) ==
  /\ idle_sockets'[x] \subseteq idle_sockets[x]
  /\ jobs'[x] = jobs[x]
  /\ active_socket_count'[x] = active_socket_count[x]
  /\ unassigned_job_count'[x] = unassigned_job_count[x]

\* The numbers of sockets grow within the limits.
GrowsWithin(g) ==
  /\ TotalSockets' <= TotalSockets \/ TotalSockets' <= max_sockets
  /\ \/ NumActiveSocketSlots(g)' <= NumActiveSocketSlots(g)
     \/ NumActiveSocketSlots(g)' <= max_sockets_per_group

\* The step is for a client that does not respect the limits.
Ignored(g, h, rv) ==
  /\ h \in IgnoreLimits
  /\ rv # "error" \/ \E c \in Conn : HandOutSocket(c, h, g)

\* HandOutSocket, in numbers.
LEMMA HandedOutNumbers ==
  ASSUME BookInv, NEW g \in Group, NEW h, NEW c, HandOutSocket(c, h, g)
  PROVE  /\ handed_out_socket_count' = handed_out_socket_count + 1
         /\ active_socket_count'[g] = active_socket_count[g] + 1
         /\ \A x \in Group : x # g => active_socket_count'[x] = active_socket_count[x]
BY DEF BookInv, BookTypes, HandOutSocket

LEMMA NotHandedOutNumbers ==
  ASSUME BookInv, NoSocketHandedOut
  PROVE  /\ handed_out_socket_count' = handed_out_socket_count + 0
         /\ \A x \in Group : active_socket_count'[x] = active_socket_count[x] + 0
         /\ \A x \in Group : active_socket_count'[x] = active_socket_count[x]
<1>1. handed_out_socket_count \in Nat /\ \A x \in Group : active_socket_count[x] \in Nat
  BY PoolNumbers
<1>2. /\ handed_out_socket_count' = handed_out_socket_count
      /\ active_socket_count' = active_socket_count
  BY DEF NoSocketHandedOut, activeVars
<1> QED BY <1>1, <1>2

LEMMA SameJobsNumbers ==
  ASSUME BookInv, jobs' = jobs, connecting_socket_count' = connecting_socket_count
  PROVE  /\ connecting_socket_count' = connecting_socket_count + 0
         /\ \A x \in Group : NumJobs(x)' = NumJobs(x) + 0
         /\ \A x \in Group : NumJobs(x)' = NumJobs(x)
<1>1. connecting_socket_count \in Nat /\ \A x \in Group : NumJobs(x) \in Nat
  BY PoolNumbers
<1> QED BY <1>1 DEF NumJobs

\* AddConnectJob, in numbers.
LEMMA AddedJobNumbers ==
  ASSUME BookInv, NEW g \in Group, NEW c \in UnusedConn,
         NEW is_preconnect \in BOOLEAN, AddConnectJob(c, g, is_preconnect)
  PROVE  /\ connecting_socket_count' = connecting_socket_count + 1
         /\ NumJobs(g)' = NumJobs(g) + 1
         /\ unassigned_job_count'[g] =
              IF is_preconnect THEN unassigned_job_count[g] + 1
                               ELSE unassigned_job_count[g]
         /\ \A x \in Group : x # g => /\ jobs'[x] = jobs[x]
                                      /\ unassigned_job_count'[x] = unassigned_job_count[x]
<1>1. /\ jobs' = [jobs EXCEPT ![g] = @ \union {c}]
      /\ connecting_socket_count' = connecting_socket_count + 1
      /\ unassigned_job_count' =
           [unassigned_job_count EXCEPT ![g] = IF is_preconnect THEN @ + 1 ELSE @]
  BY DEF AddConnectJob
<1>2. ConnTypes /\ JobCount
  BY DEF BookInv, PoolInv, ConnInv
<1>3. Cardinality(jobs'[g]) = Cardinality(jobs[g]) + 1
  BY <1>1, <1>2, JobCountAfterStart
<1>4. \A x \in Group : x # g => jobs'[x] = jobs[x]
  BY <1>1, <1>2 DEF ConnTypes
<1>5. unassigned_job_count \in [Group -> Int]
  BY DEF BookInv, BookTypes
<1> QED BY <1>1, <1>3, <1>4, <1>5 DEF NumJobs

\* Sockets are counted apart.
LEMMA UnionNumbers ==
  ASSUME BookInv, NEW g \in Group, NEW D, D \subseteq AllIdle,
         NEW V, V \subseteq AllIdle \ D
  PROVE  /\ Cardinality(D) \in Nat /\ Cardinality(V) \in Nat
         /\ Cardinality(idle_sockets[g] \intersect D) \in Nat
         /\ Cardinality(D \union V) = Cardinality(D) + Cardinality(V)
         /\ V \intersect idle_sockets[g] = {} =>
              idle_sockets[g] \intersect (D \union V) = idle_sockets[g] \intersect D
<1>1. IsFiniteSet(AllIdle) /\ IsFiniteSet(idle_sockets[g])
  BY ConnsAreFinite DEF BookInv, PoolInv, ConnInv
<1>2. IsFiniteSet(D) /\ IsFiniteSet(V) /\ IsFiniteSet(idle_sockets[g] \intersect D)
  BY <1>1, FS_Subset
<1>3. /\ Cardinality(D) \in Nat /\ Cardinality(V) \in Nat
      /\ Cardinality(idle_sockets[g] \intersect D) \in Nat
      /\ Cardinality({}) = 0
  BY <1>2, FS_CardinalityType, FS_EmptySet
<1>4. D \intersect V = {}
  OBVIOUS
<1>5. Cardinality(D \union V) = Cardinality(D) + Cardinality(V) - Cardinality(D \intersect V)
  BY <1>2, FS_Union
<1>6. Cardinality(D \intersect V) = 0
  BY <1>3, <1>4, Zenon
<1>7. V \intersect idle_sockets[g] = {} =>
        idle_sockets[g] \intersect (D \union V) = idle_sockets[g] \intersect D
  OBVIOUS
<1> QED BY <1>3, <1>5, <1>6, <1>7

\* A new connection: at most one socket more, and never in the place of nothing.
LEMMA NewInNumbers ==
  ASSUME BookInv, NEW g \in Group, NEW h \in Handle \union {None},
         NEW D, D \subseteq AllIdle, NEW rv \in Outcome, NEW V, Room(g, h, D, V),
         NEW c \in UnusedConn, UsesNew(g, h, D \union V, c, rv)
  PROVE  /\ Drained => Drained'
         /\ \A x \in Group : x # g => LeavesAlone(x)
         /\ GrowsWithin(g) \/ Ignored(g, h, rv)
         /\ GetsNew(g, h, D, rv)
<1> DEFINE E == D \union V
<1>1. /\ V \subseteq AllIdle \ D /\ V \intersect idle_sockets[g] = {}
      /\ h # None => idle_sockets[g] \subseteq D /\ unassigned_job_count[g] = 0
      /\ h \notin IgnoreLimits =>
           /\ NumActiveSocketSlots(g) - Cardinality(idle_sockets[g] \intersect D)
                < max_sockets_per_group
           /\ \/ TotalSockets - Cardinality(D) < max_sockets /\ V = {}
              \/ idle_socket_count - Cardinality(D) > 0 /\ \E d \in AllIdle : V = {d}
  BY DEF Room
<1>2. /\ E \subseteq AllIdle
      /\ Cardinality(D) \in Nat /\ Cardinality(V) \in Nat
      /\ Cardinality(idle_sockets[g] \intersect D) \in Nat
      /\ Cardinality(E) = Cardinality(D) + Cardinality(V)
      /\ idle_sockets[g] \intersect E = idle_sockets[g] \intersect D
  BY <1>1, UnionNumbers
<1>3. c \in Conn /\ c \notin AllIdle
  BY DEF UnusedConn
<1>4. PICK A \in SUBSET Conn, da \in {0, 1}, dj \in {0, 1} :
        /\ UpdateIdle(E, g, A) /\ A \intersect AllIdle = {}
        /\ Cardinality(A) \in Nat /\ da + dj + Cardinality(A) <= 1
        /\ h # None => A = {} /\ Cardinality(A) = 0
        /\ da = 1 => \E d \in Conn : HandOutSocket(d, h, g)
        /\ dj = (IF rv = "io_pending" THEN 1 ELSE 0)
        /\ handed_out_socket_count' = handed_out_socket_count + da
        /\ active_socket_count'[g] = active_socket_count[g] + da
        /\ \A x \in Group : x # g => active_socket_count'[x] = active_socket_count[x]
        /\ connecting_socket_count' = connecting_socket_count + dj
        /\ NumJobs(g)' = NumJobs(g) + dj
        /\ unassigned_job_count'[g] =
             IF rv = "io_pending" /\ h = None THEN unassigned_job_count[g] + 1
                                              ELSE unassigned_job_count[g]
        /\ \A x \in Group : x # g => /\ jobs'[x] = jobs[x]
                                     /\ unassigned_job_count'[x] = unassigned_job_count[x]
  <2>1. Cardinality({}) = 0 /\ Cardinality({c}) = 1
    BY FS_EmptySet, FS_Singleton
  <2>2. ASSUME UNCHANGED jobVars
        PROVE  /\ connecting_socket_count' = connecting_socket_count + 0
               /\ NumJobs(g)' = NumJobs(g) + 0
               /\ jobs' = jobs /\ unassigned_job_count' = unassigned_job_count
    BY <2>2, SameJobsNumbers DEF jobVars
  <2>3. CASE HandsOut(g, h, E, c, rv)
    <3>1. /\ rv # "io_pending" /\ UpdateIdle(E, g, {}) /\ UNCHANGED jobVars
          /\ HandOutSocket(c, h, g)
      BY <2>3 DEF HandsOut
    <3>2. /\ handed_out_socket_count' = handed_out_socket_count + 1
          /\ active_socket_count'[g] = active_socket_count[g] + 1
          /\ \A x \in Group : x # g => active_socket_count'[x] = active_socket_count[x]
      BY <3>1, HandedOutNumbers
    <3>3. {} \in SUBSET Conn /\ 1 \in {0, 1} /\ 0 \in {0, 1} /\ 1 + 0 + Cardinality({}) <= 1
      BY <2>1
    <3> QED BY <1>3, <2>1, <2>2, <3>1, <3>2, <3>3
  <2>4. CASE StartsJob(g, h, E, c, rv)
    <3>1. /\ rv = "io_pending" /\ UpdateIdle(E, g, {}) /\ NoSocketHandedOut
          /\ AddConnectJob(c, g, h = None)
      BY <2>4 DEF StartsJob
    <3>2. /\ connecting_socket_count' = connecting_socket_count + 1
          /\ NumJobs(g)' = NumJobs(g) + 1
          /\ unassigned_job_count'[g] =
               IF h = None THEN unassigned_job_count[g] + 1 ELSE unassigned_job_count[g]
          /\ \A x \in Group : x # g => /\ jobs'[x] = jobs[x]
                                       /\ unassigned_job_count'[x] = unassigned_job_count[x]
      BY <3>1, AddedJobNumbers
    <3>3. {} \in SUBSET Conn /\ 1 \in {0, 1} /\ 0 \in {0, 1} /\ 0 + 1 + Cardinality({}) <= 1
      BY <2>1
    <3>4. /\ handed_out_socket_count' = handed_out_socket_count + 0
          /\ \A x \in Group : active_socket_count'[x] = active_socket_count[x] + 0
          /\ \A x \in Group : active_socket_count'[x] = active_socket_count[x]
      BY <3>1, NotHandedOutNumbers
    <3> QED BY <2>1, <3>1, <3>2, <3>3, <3>4
  <2>5. CASE MakesIdle(g, h, E, c, rv)
    <3>1. /\ rv = "ok" /\ h = None /\ UpdateIdle(E, g, {c}) /\ NoSocketHandedOut
          /\ UNCHANGED jobVars
      BY <2>5 DEF MakesIdle
    <3>2. /\ handed_out_socket_count' = handed_out_socket_count + 0
          /\ \A x \in Group : active_socket_count'[x] = active_socket_count[x] + 0
          /\ \A x \in Group : active_socket_count'[x] = active_socket_count[x]
      BY <3>1, NotHandedOutNumbers
    <3>3. /\ {c} \in SUBSET Conn /\ {c} \intersect AllIdle = {} /\ 0 \in {0, 1}
          /\ 0 + 0 + Cardinality({c}) <= 1 /\ Cardinality({c}) \in Nat
      BY <1>3, <2>1
    <3> QED BY <2>2, <3>1, <3>2, <3>3
  <2>6. CASE rv = "error" /\ GetsNothing(g, h, E, rv)
    <3>1. /\ rv = "error" /\ UpdateIdle(E, g, {}) /\ NoSocketHandedOut
          /\ UNCHANGED jobVars
      BY <2>6 DEF GetsNothing
    <3>2. /\ handed_out_socket_count' = handed_out_socket_count + 0
          /\ \A x \in Group : active_socket_count'[x] = active_socket_count[x] + 0
          /\ \A x \in Group : active_socket_count'[x] = active_socket_count[x]
      BY <3>1, NotHandedOutNumbers
    <3>3. /\ {} \in SUBSET Conn /\ 0 \in {0, 1} /\ 0 + 0 + Cardinality({}) <= 1
      BY <2>1
    <3> QED BY <2>1, <2>2, <3>1, <3>2, <3>3
  <2> QED BY <2>3, <2>4, <2>5, <2>6 DEF UsesNew
<1>5. /\ idle_socket_count \in Nat /\ TotalSockets \in Nat /\ max_sockets \in Nat
      /\ max_sockets_per_group \in Nat /\ NumActiveSocketSlots(g) \in Nat
      /\ active_socket_count[g] \in Nat /\ NumJobs(g) \in Nat
      /\ idle_socket_count = 0 <=> AllIdle = {}
  BY PoolNumbers DEF TotalSockets
<1>6. /\ idle_socket_count' = idle_socket_count - Cardinality(E) + Cardinality(A)
      /\ TotalSockets' = TotalSockets + da + dj - Cardinality(E) + Cardinality(A)
      /\ NumActiveSocketSlots(g)' =
           NumActiveSocketSlots(g) + da + dj
             - Cardinality(idle_sockets[g] \intersect E) + Cardinality(A)
      /\ idle_sockets'[g] = (idle_sockets[g] \ E) \union A
      /\ \A x \in Group : x # g => idle_sockets'[x] \subseteq idle_sockets[x]
  <2> HIDE DEF E
  <2>1. A \subseteq Conn
    BY <1>4
  <2>2. /\ handed_out_socket_count \in Nat /\ connecting_socket_count \in Nat
        /\ active_socket_count[g] \in Nat /\ NumJobs(g) \in Nat /\ NumIdle(g) \in Nat
        /\ idle_socket_count \in Nat
        /\ NumActiveSocketSlots(g) =
             active_socket_count[g] + NumJobs(g) + NumIdle(g)
    BY PoolNumbers
  <2>3. /\ handed_out_socket_count' \in Int /\ connecting_socket_count' \in Int
        /\ active_socket_count'[g] \in Int /\ NumJobs(g)' \in Int
    BY <1>4, <2>2
  <2>4. /\ Cardinality(E) \in Nat /\ Cardinality(A) \in Nat
        /\ Cardinality(idle_sockets[g] \intersect E) \in Nat
        /\ idle_socket_count' =
             idle_socket_count - Cardinality(E) + Cardinality(A)
        /\ TotalSockets' =
             handed_out_socket_count' + connecting_socket_count'
               + idle_socket_count - Cardinality(E) + Cardinality(A)
        /\ NumActiveSocketSlots(g)' =
             active_socket_count'[g] + NumJobs(g)' + NumIdle(g)
               - Cardinality(idle_sockets[g] \intersect E) + Cardinality(A)
        /\ idle_sockets'[g] = (idle_sockets[g] \ E) \union A
        /\ \A x \in Group : x # g => idle_sockets'[x] \subseteq idle_sockets[x]
    BY <1>2, <1>4, <2>1, <2>3, EffectNumbers, SMTT(30)
  <2>5. TotalSockets = handed_out_socket_count + connecting_socket_count + idle_socket_count
    BY DEF TotalSockets
  <2> QED BY <1>4, <2>2, <2>4, <2>5
<1>7. Cardinality({}) = 0 /\ \A d : Cardinality({d}) = 1
  BY FS_EmptySet, FS_Singleton
<1>8. h \notin IgnoreLimits => Cardinality(V) \in {0, 1}
  BY <1>1, <1>7
<1>9. ASSUME h \notin IgnoreLimits
      PROVE  GrowsWithin(g)
  <2>1. \/ TotalSockets - Cardinality(D) < max_sockets /\ Cardinality(V) = 0
        \/ Cardinality(V) = 1
    BY <1>1, <1>7, <1>9
  <2>2. TotalSockets' <= TotalSockets \/ TotalSockets' <= max_sockets
    <3> HIDE DEF E
    <3> QED BY <1>2, <1>4, <1>6, <1>5, <2>1
  <2>3. NumActiveSocketSlots(g)' <= max_sockets_per_group
    <3> HIDE DEF E
    <3>1. NumActiveSocketSlots(g) - Cardinality(idle_sockets[g] \intersect E)
            < max_sockets_per_group
      BY <1>1, <1>2, <1>9
    <3>2. Cardinality(idle_sockets[g] \intersect E) \in Nat
      BY <1>2
    <3> QED BY <1>4, <1>6, <1>5, <3>1, <3>2
  <2> QED BY <2>2, <2>3 DEF GrowsWithin
<1>10. None \notin IgnoreLimits
  BY ConstantsAssumption
<1>11. ASSUME Drained PROVE h # None /\ h \in IgnoreLimits /\ Drained'
  <2>1. /\ idle_socket_count = 0 /\ AllIdle = {} /\ TotalSockets >= max_sockets
    BY <1>5, <1>11 DEF Drained, ReachedMaxSocketsLimit
  <2>2. D = {} /\ V = {} /\ E = {} /\ Cardinality(D) = 0 /\ Cardinality(E) = 0
    BY <1>1, <1>2, <1>7, <2>1
  <2>3. h \in IgnoreLimits
    BY <1>1, <1>5, <2>1, <2>2
  <2>4. Cardinality(A) = 0 /\ h # None
    BY <1>4, <1>10, <2>3
  <2> HIDE DEF E
  <2>5. idle_socket_count' = 0 /\ TotalSockets' >= max_sockets
    BY <1>4, <1>6, <1>5, <2>1, <2>2, <2>4
  <2> QED BY <2>3, <2>4, <2>5 DEF Drained, ReachedMaxSocketsLimit
<1>12. GetsNew(g, h, D, rv)
  <2>1. h # None => idle_sockets'[g] = {}
    BY <1>1, <1>4, <1>6
  <2>2. ASSUME h = None, D = {} PROVE HasAvailableSocketSlot(g)
    <3>1. Cardinality(idle_sockets[g] \intersect D) = 0
      <4>1. idle_sockets[g] \intersect D = {}
        BY <2>2
      <4> QED BY <1>7, <4>1, Zenon
    <3> QED BY <1>1, <1>5, <1>10, <2>2, <3>1 DEF HasAvailableSocketSlot
  <2>3. NumJobs(g)' = IF rv = "io_pending" THEN NumJobs(g) + 1 ELSE NumJobs(g)
    BY <1>4, <1>5
  <2>4. active_socket_count'[g] >= active_socket_count[g]
    BY <1>4, <1>5
  <2>5. unassigned_job_count'[g] =
          IF rv = "io_pending" /\ h = None THEN unassigned_job_count[g] + 1
                                           ELSE unassigned_job_count[g]
    BY <1>4
  <2> QED BY <1>1, <1>11, <2>1, <2>2, <2>3, <2>4, <2>5 DEF GetsNew
<1>13. \A x \in Group : x # g => LeavesAlone(x)
  BY <1>4, <1>6 DEF LeavesAlone
<1>14. ASSUME h \in IgnoreLimits
       PROVE  GrowsWithin(g) \/ Ignored(g, h, rv)
  <2>1. CASE rv # "error"
    BY <1>14, <2>1 DEF Ignored
  <2>2. CASE rv = "error" /\ da = 1
    BY <1>4, <1>14, <2>2 DEF Ignored
  <2>3. CASE rv = "error" /\ da = 0
    <3> HIDE DEF E
    <3>1. h # None
      BY <1>10, <1>14
    <3>2. dj = 0 /\ Cardinality(A) = 0 /\ Cardinality(E) \in Nat
      BY <1>2, <1>4, <2>3, <3>1
    <3>3. TotalSockets' <= TotalSockets
      BY <1>5, <1>6, <2>3, <3>2
    <3>4. Cardinality(idle_sockets[g] \intersect E) \in Nat
      BY <1>2
    <3>5. NumActiveSocketSlots(g)' <= NumActiveSocketSlots(g)
      BY <1>5, <1>6, <2>3, <3>2, <3>4
    <3> QED BY <3>3, <3>5 DEF GrowsWithin
  <2> QED BY <1>4, <2>1, <2>2, <2>3
<1> QED BY <1>9, <1>11, <1>12, <1>13, <1>14

\* RequestSocketInternal, in numbers: whatever it does stays within the limits
\* unless the request ignores them, and closes no idle socket of a pool that is
\* drained.
LEMMA RequestInNumbers ==
  ASSUME BookInv, NEW g \in Group, NEW h \in Handle \union {None},
         NEW D, D \subseteq AllIdle, NEW rv \in Outcome,
         RequestSocketInternal(g, h, D, rv)
  PROVE  /\ Drained => Drained'
         /\ \A x \in Group : x # g => LeavesAlone(x)
         /\ GrowsWithin(g) \/ Ignored(g, h, rv)
         /\ \/ TakesIdle(g, h, rv)
            \/ TakesSpare(g, h, rv)
            \/ HasToWait(g, h, D, rv)
            \/ GetsNew(g, h, D, rv)
<1>1. PICK n : n = NewConn
  OBVIOUS
<1>2. \/ \E c \in idle_sockets[g] \ D :
           rv = "ok" /\ HandsOut(g, h, D \union {c}, c, rv)
      \/ idle_sockets[g] \subseteq D /\ TakesJob(g, h, D, rv)
      \/ /\ NoRoom(g, h, D) /\ (h # None => rv = "io_pending")
         /\ GetsNothing(g, h, D, rv)
      \/ /\ UnusedConn # {}
         /\ \E V : Room(g, h, D, V) /\ UsesNew(g, h, D \union V, n, rv)
  BY <1>1, RoomOutcomes
<1>3. /\ idle_socket_count \in Nat /\ TotalSockets \in Nat /\ max_sockets \in Nat
      /\ max_sockets_per_group \in Nat /\ NumActiveSocketSlots(g) \in Nat
      /\ active_socket_count[g] \in Nat /\ NumJobs(g) \in Nat /\ NumIdle(g) \in Nat
      /\ idle_socket_count = 0 <=> AllIdle = {}
      /\ handed_out_socket_count \in Nat /\ connecting_socket_count \in Nat
      /\ NumActiveSocketSlots(g) =
           active_socket_count[g] + NumJobs(g) + NumIdle(g)
      /\ TotalSockets =
           handed_out_socket_count + connecting_socket_count + idle_socket_count
  BY PoolNumbers DEF TotalSockets
<1>4. Cardinality({}) = 0
  BY FS_EmptySet
<1>5. PICK A : A = {}
  OBVIOUS
<1>6. ASSUME UNCHANGED jobVars
      PROVE  /\ connecting_socket_count' = connecting_socket_count + 0
             /\ NumJobs(g)' = NumJobs(g) + 0 /\ NumJobs(g)' = NumJobs(g)
             /\ jobs' = jobs /\ unassigned_job_count' = unassigned_job_count
  BY <1>6, SameJobsNumbers DEF jobVars
<1>7. idle_sockets[g] \subseteq AllIdle
  BY DEF AllIdle
<1>8. CASE \E c \in idle_sockets[g] \ D :
             rv = "ok" /\ HandsOut(g, h, D \union {c}, c, rv)
  <2>1. PICK c \in idle_sockets[g] \ D :
          rv = "ok" /\ HandsOut(g, h, D \union {c}, c, rv)
    BY <1>8
  <2>2. PICK E : E = D \union {c}
    OBVIOUS
  <2>3. /\ h # None /\ UpdateIdle(E, g, {}) /\ UNCHANGED jobVars
        /\ HandOutSocket(c, h, g) /\ E \subseteq AllIdle
    BY <1>7, <2>1, <2>2 DEF HandsOut
  <2>4. /\ handed_out_socket_count' = handed_out_socket_count + 1
        /\ active_socket_count'[g] = active_socket_count[g] + 1
        /\ \A x \in Group : x # g => active_socket_count'[x] = active_socket_count[x]
    BY <2>3, HandedOutNumbers
  <2>5. /\ Cardinality(E) \in Nat
        /\ Cardinality(idle_sockets[g] \intersect E) \in Nat
        /\ TotalSockets' =
             handed_out_socket_count' + connecting_socket_count'
               + idle_socket_count - Cardinality(E) + Cardinality(A)
        /\ NumIdle(g)' = NumIdle(g) - Cardinality(idle_sockets[g] \intersect E)
                           + Cardinality(A)
        /\ NumActiveSocketSlots(g)' =
             active_socket_count'[g] + NumJobs(g)' + NumIdle(g)
               - Cardinality(idle_sockets[g] \intersect E) + Cardinality(A)
        /\ \A x \in Group : x # g => idle_sockets'[x] \subseteq idle_sockets[x]
    <3>1. /\ A \subseteq Conn /\ A \intersect AllIdle = {} /\ UpdateIdle(E, g, A)
          /\ handed_out_socket_count' \in Int /\ connecting_socket_count' \in Int
          /\ active_socket_count'[g] \in Int /\ NumJobs(g)' \in Int
      BY <1>3, <1>5, <1>6, <2>3, <2>4
    <3>2. /\ Cardinality(E) \in Nat /\ Cardinality(A) \in Nat
          /\ Cardinality(idle_sockets[g] \intersect E) \in Nat
      BY <2>3, <3>1, EffectNumbers
    <3> QED BY <1>3, <2>3, <3>1, <3>2, EffectNumbers
  <2>6. Cardinality(E) # 0 /\ Cardinality(idle_sockets[g] \intersect E) # 0
    <3>1. /\ IsFiniteSet(AllIdle) /\ IsFiniteSet(idle_sockets[g])
      BY ConnsAreFinite DEF BookInv, PoolInv, ConnInv
    <3>2. IsFiniteSet(E) /\ IsFiniteSet(idle_sockets[g] \intersect E)
      BY <2>3, <3>1, FS_Subset
    <3>3. E # {} /\ idle_sockets[g] \intersect E # {}
      BY <2>1, <2>2
    <3> QED BY <3>2, <3>3, FS_EmptySet
  <2>7. GrowsWithin(g)
    BY <1>3, <1>4, <1>5, <1>6, <2>3, <2>4, <2>5, <2>6 DEF GrowsWithin
  <2>8. ~ Drained
    BY <1>3, <1>7, <2>1 DEF Drained
  <2>9. TakesIdle(g, h, rv)
    BY <1>3, <1>4, <1>5, <1>6, <2>1, <2>3, <2>5, <2>6 DEF TakesIdle
  <2>10. \A x \in Group : x # g => LeavesAlone(x)
    BY <1>6, <2>3, <2>4, <2>5 DEF LeavesAlone
  <2> QED BY <2>7, <2>8, <2>9, <2>10
<1>9. CASE \/ idle_sockets[g] \subseteq D /\ TakesJob(g, h, D, rv)
           \/ /\ NoRoom(g, h, D) /\ (h # None => rv = "io_pending")
              /\ GetsNothing(g, h, D, rv)
  <2>1. UpdateIdle(D, g, {}) /\ NoSocketHandedOut
        /\ jobs' = jobs /\ connecting_socket_count' = connecting_socket_count
    BY <1>9 DEF TakesJob, GetsNothing, jobVars
  <2>2. /\ handed_out_socket_count' = handed_out_socket_count + 0
        /\ active_socket_count'[g] = active_socket_count[g] + 0
        /\ \A x \in Group : active_socket_count'[x] = active_socket_count[x]
    BY <2>1, NotHandedOutNumbers
  <2>3. /\ connecting_socket_count' = connecting_socket_count + 0
        /\ NumJobs(g)' = NumJobs(g) + 0 /\ NumJobs(g)' = NumJobs(g)
    BY <2>1, SameJobsNumbers
  <2>4. /\ Cardinality(D) \in Nat
        /\ Cardinality(idle_sockets[g] \intersect D) \in Nat
        /\ idle_socket_count' = idle_socket_count - Cardinality(D) + Cardinality(A)
        /\ TotalSockets' =
             handed_out_socket_count' + connecting_socket_count'
               + idle_socket_count - Cardinality(D) + Cardinality(A)
        /\ NumActiveSocketSlots(g)' =
             active_socket_count'[g] + NumJobs(g)' + NumIdle(g)
               - Cardinality(idle_sockets[g] \intersect D) + Cardinality(A)
        /\ idle_sockets'[g] = (idle_sockets[g] \ D) \union A
        /\ \A x \in Group : x # g => idle_sockets'[x] \subseteq idle_sockets[x]
    <3>1. /\ A \subseteq Conn /\ A \intersect AllIdle = {} /\ UpdateIdle(D, g, A)
          /\ handed_out_socket_count' \in Int /\ connecting_socket_count' \in Int
          /\ active_socket_count'[g] \in Int /\ NumJobs(g)' \in Int
      BY <1>3, <1>5, <2>1, <2>2, <2>3
    <3>2. /\ Cardinality(D) \in Nat /\ Cardinality(A) \in Nat
          /\ Cardinality(idle_sockets[g] \intersect D) \in Nat
      BY <3>1, EffectNumbers
    <3> QED BY <1>3, <3>1, <3>2, EffectNumbers
  <2>5. /\ idle_socket_count' = idle_socket_count - Cardinality(D)
        /\ TotalSockets' = TotalSockets - Cardinality(D)
        /\ NumActiveSocketSlots(g)' =
             NumActiveSocketSlots(g) - Cardinality(idle_sockets[g] \intersect D)
        /\ idle_sockets'[g] = idle_sockets[g] \ D
    BY <1>3, <1>4, <1>5, <2>1, <2>2, <2>3, <2>4
  <2>6. GrowsWithin(g)
    BY <1>3, <2>4, <2>5 DEF GrowsWithin
  <2>7. ASSUME Drained PROVE Drained'
    <3>1. /\ idle_socket_count = 0 /\ AllIdle = {} /\ TotalSockets >= max_sockets
      BY <1>3, <2>7 DEF Drained, ReachedMaxSocketsLimit
    <3>2. Cardinality(D) = 0
      BY <1>4, <3>1
    <3>3. idle_socket_count' = 0 /\ TotalSockets' >= max_sockets
      BY <1>3, <2>5, <3>1, <3>2
    <3> QED BY <3>3 DEF Drained, ReachedMaxSocketsLimit
  <2>8. CASE idle_sockets[g] \subseteq D /\ TakesJob(g, h, D, rv)
    <3>1. /\ h # None /\ rv = "io_pending" /\ unassigned_job_count[g] > 0
          /\ unassigned_job_count' = [unassigned_job_count EXCEPT ![g] = @ - 1]
      BY <2>8 DEF TakesJob, TryToUseUnassignedConnectJob
    <3>2. /\ unassigned_job_count'[g] = unassigned_job_count[g] - 1
          /\ \A x \in Group : x # g => unassigned_job_count'[x] = unassigned_job_count[x]
      BY <3>1 DEF BookInv, BookTypes
    <3>3. TakesSpare(g, h, rv)
      BY <2>3, <2>5, <2>8, <3>1, <3>2 DEF TakesSpare
    <3>4. \A x \in Group : x # g => LeavesAlone(x)
      BY <2>1, <2>2, <2>4, <3>2 DEF LeavesAlone
    <3> QED BY <2>6, <2>7, <3>3, <3>4
  <2>9. CASE /\ NoRoom(g, h, D) /\ (h # None => rv = "io_pending")
             /\ GetsNothing(g, h, D, rv)
    <3>1. unassigned_job_count' = unassigned_job_count /\ rv # "ok"
      BY <2>9 DEF GetsNothing, jobVars
    <3>2. h # None => \/ NumActiveSocketSlots(g)' >= max_sockets_per_group
                      \/ TotalSockets' >= max_sockets /\ idle_socket_count' = 0
      BY <2>5, <2>9 DEF NoRoom
    <3>3. h # None => \/ NumActiveSocketSlots(g)' >= max_sockets_per_group
                      \/ Drained'
      BY <3>2 DEF Drained, ReachedMaxSocketsLimit
    <3>4. h # None => idle_sockets'[g] = {} /\ unassigned_job_count[g] = 0
      BY <2>5, <2>9 DEF NoRoom
    <3>5. HasToWait(g, h, D, rv)
      BY <2>2, <2>3, <2>5, <2>9, <3>1, <3>3, <3>4 DEF HasToWait
    <3>6. \A x \in Group : x # g => LeavesAlone(x)
      BY <2>1, <2>2, <2>4, <3>1 DEF LeavesAlone
    <3> QED BY <2>6, <2>7, <3>5, <3>6
  <2> QED BY <1>9, <2>8, <2>9
<1>10. CASE /\ UnusedConn # {}
            /\ \E V : Room(g, h, D, V) /\ UsesNew(g, h, D \union V, n, rv)
  <2>1. n \in UnusedConn
    BY <1>1, <1>10, NewConnIsUnused
  <2>2. PICK V : Room(g, h, D, V) /\ UsesNew(g, h, D \union V, n, rv)
    BY <1>10
  <2> QED BY <2>1, <2>2, NewInNumbers
<1> QED BY <1>2, <1>8, <1>9, <1>10

-----------------------------------------------------------------------------
\* A group that a step leaves alone, with its queue: it may only lose idle
\* sockets.  If it wants a slot, it has none to lose.
LEMMA LeftAlone ==
  ASSUME BookInv, NEW x \in Group, LeavesAlone(x), NumWaiting(x)' = NumWaiting(x)
  PROVE  /\ Unwanted(x) => Unwanted(x)'
         /\ Unwanted(x) /\ CanUseAdditionalSocketSlot(x)' => CanUseAdditionalSocketSlot(x)
         /\ Spare(x) => Spare(x)'
         /\ NumActiveSocketSlots(x)' <= NumActiveSocketSlots(x)
<1>1. /\ idle_sockets'[x] \subseteq idle_sockets[x] /\ jobs'[x] = jobs[x]
      /\ active_socket_count'[x] = active_socket_count[x]
      /\ unassigned_job_count'[x] = unassigned_job_count[x]
  BY DEF LeavesAlone
<1>2. NumJobs(x)' = NumJobs(x)
  BY <1>1 DEF NumJobs
<1>3. IsFiniteSet(idle_sockets[x])
  BY ConnsAreFinite DEF BookInv, PoolInv, ConnInv
<1>4. /\ Cardinality(idle_sockets'[x]) \in Nat
      /\ Cardinality(idle_sockets'[x]) <= Cardinality(idle_sockets[x])
  BY <1>1, <1>3, FS_Subset, FS_CardinalityType
<1>5. /\ active_socket_count[x] \in Nat /\ NumJobs(x) \in Nat /\ NumIdle(x) \in Nat
      /\ max_sockets_per_group \in Nat
      /\ NumIdle(x) = 0 <=> idle_sockets[x] = {}
      /\ NumActiveSocketSlots(x) = active_socket_count[x] + NumJobs(x) + NumIdle(x)
  BY PoolNumbers
<1>6. NumActiveSocketSlots(x)' = active_socket_count[x] + NumJobs(x) + NumIdle(x)'
  BY <1>1, <1>2 DEF NumActiveSocketSlots, NumJobs, NumIdle
<1>7. NumIdle(x)' \in Nat /\ NumIdle(x)' <= NumIdle(x)
  BY <1>4 DEF NumIdle
<1>8. NumActiveSocketSlots(x)' <= NumActiveSocketSlots(x)
  BY <1>5, <1>6, <1>7
<1>9. Wants(x)' <=> Wants(x)
  BY <1>2 DEF Wants
<1>10. Unwanted(x) => Unwanted(x)'
  BY <1>1, <1>9 DEF Unwanted
<1>11. ASSUME Unwanted(x), CanUseAdditionalSocketSlot(x)'
       PROVE  CanUseAdditionalSocketSlot(x)
  <2>1. Wants(x) /\ NumActiveSocketSlots(x)' < max_sockets_per_group
    BY <1>9, <1>11 DEF CanUseAdditionalSocketSlot, HasAvailableSocketSlot, Wants,
                       NumJobs, NumWaiting
  <2>2. NumIdle(x) = 0
    BY <1>5, <1>11, <2>1 DEF Unwanted
  <2>3. NumActiveSocketSlots(x) < max_sockets_per_group
    BY <1>5, <1>6, <1>7, <2>1, <2>2
  <2> QED
    BY <2>1, <2>3 DEF CanUseAdditionalSocketSlot, HasAvailableSocketSlot, Wants,
                      NumJobs, NumWaiting
<1>12. Spare(x) => Spare(x)'
  BY <1>1, <1>2 DEF Spare
<1> QED BY <1>8, <1>10, <1>11, <1>12

\* A step that concerns only the group g: nothing is stalled after it if that
\* was so before, g does not become stalled and the pool stays drained.
LEMMA StepOfGroup ==
  ASSUME WakeInv, BookInv', NEW g \in Group, frame.at # "slot",
         \A x \in Group : x # g => LeavesAlone(x) /\ NumWaiting(x)' = NumWaiting(x),
         Unwanted(g)', Spare(g)',
         \/ frame'.at \in {"slot", "check"}
         \/ /\ frame.at # "check" /\ (Drained => Drained')
            /\ CanUseAdditionalSocketSlot(g)' =>
                 CanUseAdditionalSocketSlot(g) \/ Drained'
  PROVE  WakeInv'
<1> USE DEF WakeInv
<1>1. \A x \in Group : Unwanted(x)
  BY DEF IdleIsUnwanted
<1>2. \A x \in Group : x # g =>
        /\ Unwanted(x)'
        /\ CanUseAdditionalSocketSlot(x)' => CanUseAdditionalSocketSlot(x)
        /\ Spare(x)'
  BY <1>1, LeftAlone DEF SpareJobs
<1>3. \A x \in Group : Unwanted(x)'
  BY <1>2
<1>4. IdleIsUnwanted'
  BY <1>3 DEF IdleIsUnwanted
<1>5. SpareJobs'
  BY <1>2 DEF SpareJobs
<1>6. CASE frame'.at \in {"slot", "check"}
  BY <1>4, <1>5, <1>6 DEF StaysAwake
<1>7. CASE /\ frame.at # "check" /\ (Drained => Drained')
           /\ CanUseAdditionalSocketSlot(g)' =>
                CanUseAdditionalSocketSlot(g) \/ Drained'
  <2>1. Awake
    BY <1>7 DEF StaysAwake
  <2>2. \A x \in Group : CanUseAdditionalSocketSlot(x)' => Drained'
    BY <1>2, <1>7, <2>1 DEF Awake
  <2>3. Awake'
    BY <2>2 DEF Awake
  <2> QED BY <1>4, <1>5, <2>3 DEF StaysAwake
<1> QED BY <1>6, <1>7

\* What CanUseAdditionalSocketSlot says, in numbers.
LEMMA CanUseInNumbers ==
  ASSUME NEW g
  PROVE  /\ CanUseAdditionalSocketSlot(g) <=>
              NumActiveSocketSlots(g) < max_sockets_per_group /\ Wants(g)
         /\ CanUseAdditionalSocketSlot(g)' <=>
              NumActiveSocketSlots(g)' < max_sockets_per_group /\ Wants(g)'
BY DEF CanUseAdditionalSocketSlot, HasAvailableSocketSlot, Wants, NumJobs, NumWaiting

\* The numbers of a state, and of the state after a step.
Numbers ==
  /\ TotalSockets \in Nat /\ idle_socket_count \in Nat
  /\ \A x \in Group :
       /\ active_socket_count[x] \in Nat
       /\ NumJobs(x) \in Nat /\ NumIdle(x) \in Nat /\ NumWaiting(x) \in Nat
       /\ unassigned_job_count[x] \in Nat
       /\ NumIdle(x) = 0 <=> idle_sockets[x] = {}
       /\ NumActiveSocketSlots(x) =
            active_socket_count[x] + NumJobs(x) + NumIdle(x)

LEMMA NumbersHold == BookInv => Numbers
BY PoolNumbers DEF Numbers, TotalSockets

LEMMA NextNumbers ==
  ASSUME BookInv', NEW g \in Group
  PROVE  /\ active_socket_count'[g] \in Nat
         /\ NumJobs(g)' \in Nat /\ NumIdle(g)' \in Nat /\ NumWaiting(g)' \in Nat
         /\ unassigned_job_count'[g] \in Nat
         /\ NumIdle(g)' = 0 <=> idle_sockets'[g] = {}
         /\ NumActiveSocketSlots(g)' =
              active_socket_count'[g] + NumJobs(g)' + NumIdle(g)'
         /\ TotalSockets' \in Nat /\ idle_socket_count' \in Nat
<1>1. Numbers'
  BY NumbersHold, PTL
<1> QED BY <1>1 DEF Numbers


-----------------------------------------------------------------------------
\* FindTopStalledGroup looks at the groups in the map, and misses none: a group
\* that has a request is there.
LEMMA NoneStalled ==
  ASSUME BookInv, StalledGroups = {}
  PROVE  \A x \in Group : ~ CanUseAdditionalSocketSlot(x)
<1> SUFFICES ASSUME NEW x \in Group, CanUseAdditionalSocketSlot(x) PROVE FALSE
  OBVIOUS
<1>1. NumWaiting(x) # 0
  <2>1. NumWaiting(x) \in Nat /\ NumJobs(x) \in Nat
    BY PoolNumbers
  <2>2. NumWaiting(x) > NumJobs(x)
    BY DEF CanUseAdditionalSocketSlot, NumWaiting, NumJobs
  <2> QED BY <2>1, <2>2
<1>2. ~ empty(pending_requests[x])
  BY <1>1, EmptyHasNoValues DEF NumWaiting, BookInv, BookTypes
<1>3. x \in group_map
  BY <1>2 DEF BookInv, RemovedAreEmpty, IsEmpty
<1> QED BY <1>3 DEF StalledGroups

\* A step that only deletes idle sockets wakes up nobody and need not.
LEMMA IdleGoneWakes ==
  ASSUME WakeInv, BookInv', NEW g, NEW D, D \subseteq AllIdle,
         UpdateIdle(D, g, {}), OnlyIdleSocketsChange, frame.at # "slot",
         \/ frame.at # "check"
         \/ frame'.at \in {"slot", "check"}
         \/ StalledGroups = {}
  PROVE  /\ WakeInv'
         /\ TotalSockets' <= TotalSockets
         /\ \A x \in Group : NumActiveSocketSlots(x)' <= NumActiveSocketSlots(x)
<1> USE DEF WakeInv
<1>1. UNCHANGED <<pending_requests, jobs, unassigned_job_count, active_socket_count,
                  connecting_socket_count, handed_out_socket_count>>
  BY DEF OnlyIdleSocketsChange, requestVars, jobVars, activeVars
<1>2. ConnTypes
  BY DEF BookInv, PoolInv, ConnInv
<1>3. \A x \in Group : idle_sockets'[x] \subseteq idle_sockets[x]
  BY <1>2, IdleAfter
<1>4. \A x \in Group : LeavesAlone(x) /\ NumWaiting(x)' = NumWaiting(x)
  BY <1>1, <1>3 DEF LeavesAlone, NumWaiting
<1>5. \A x \in Group : Unwanted(x)
  BY DEF IdleIsUnwanted
<1>6. \A x \in Group :
        /\ Unwanted(x)'
        /\ CanUseAdditionalSocketSlot(x)' => CanUseAdditionalSocketSlot(x)
        /\ Spare(x)'
        /\ NumActiveSocketSlots(x)' <= NumActiveSocketSlots(x)
  BY <1>4, <1>5, LeftAlone DEF SpareJobs
<1>7. /\ idle_socket_count \in Nat /\ connecting_socket_count \in Nat
      /\ handed_out_socket_count \in Nat
      /\ idle_socket_count = 0 <=> AllIdle = {}
  BY PoolNumbers
<1>8. Cardinality({}) = 0
  BY FS_EmptySet
<1>9. Cardinality(D) \in Nat
  BY <1>2, ConnsAreFinite, FS_Subset, FS_CardinalityType
<1>10. idle_socket_count' = idle_socket_count - Cardinality(D)
  <2>1. idle_socket_count' = idle_socket_count - Cardinality(D) + Cardinality({})
    BY DEF UpdateIdle
  <2> QED BY <1>7, <1>8, <1>9, <2>1
<1>11. TotalSockets' = TotalSockets - Cardinality(D) /\ TotalSockets \in Nat
  BY <1>1, <1>7, <1>9, <1>10 DEF TotalSockets
<1>12. ASSUME Drained PROVE Drained'
  <2>1. idle_socket_count = 0 /\ TotalSockets >= max_sockets /\ AllIdle = {}
    BY <1>7, <1>12 DEF Drained, ReachedMaxSocketsLimit
  <2>2. Cardinality(D) = 0
    BY <1>8, <2>1
  <2>3. idle_socket_count' = 0 /\ TotalSockets' >= max_sockets
    BY <1>10, <1>11, <2>1, <2>2
  <2> QED BY <2>3 DEF Drained, ReachedMaxSocketsLimit
<1>13. IdleIsUnwanted' /\ SpareJobs'
  BY <1>6 DEF IdleIsUnwanted, SpareJobs
<1>14. StaysAwake'
  <2>1. CASE frame.at # "check"
    <3>1. Awake
      BY <2>1 DEF StaysAwake
    <3>2. Awake'
      BY <1>6, <1>12, <3>1 DEF Awake
    <3> QED BY <3>2 DEF StaysAwake
  <2>2. CASE frame'.at \in {"slot", "check"}
    BY <2>2 DEF StaysAwake
  <2>3. CASE StalledGroups = {}
    <3>1. \A x \in Group : ~ CanUseAdditionalSocketSlot(x)
      BY <2>3, NoneStalled
    <3>2. Awake'
      BY <1>6, <3>1 DEF Awake
    <3> QED BY <3>2 DEF StaysAwake
  <2> QED BY <2>1, <2>2, <2>3
<1> QED BY <1>6, <1>9, <1>11, <1>13, <1>14

\* The queue after RequestSocket has put a request into it.
LEMMA InsertedNumber ==
  ASSUME BookInv, NEW g \in Group, NEW h \in Handle, NEW p \in Priority,
         h \notin Values(pending_requests[g]),
         pending_requests' =
           [pending_requests EXCEPT ![g] = InsertPendingRequest(@, h, p)]
  PROVE  /\ NumWaiting(g)' = NumWaiting(g) + 1
         /\ \A x \in Group : x # g => NumWaiting(x)' = NumWaiting(x)
<1>1. PICK q \in [Priority -> Seq(Handle)] : q = pending_requests[g]
  BY DEF BookInv, BookTypes
<1>2. Values(InsertPendingRequest(q, h, p)) = Values(q) \union {h}
  BY <1>1, InsertedProperties
<1>3. IsFiniteSet(Values(q))
  BY ValuesAreFinite
<1>4. pending_requests'[g] = InsertPendingRequest(q, h, p)
  BY <1>1 DEF BookInv, BookTypes
<1>5. size(pending_requests'[g]) = size(q) + 1
  <2>1. h \notin Values(q) /\ Values(pending_requests'[g]) = Values(q) \union {h}
    BY <1>1, <1>2, <1>4
  <2>2. Cardinality(Values(q) \union {h}) = Cardinality(Values(q)) + 1
    BY <1>3, <2>1, FS_AddElement
  <2> QED BY <2>1, <2>2 DEF size
<1>6. \A x \in Group : x # g => pending_requests'[x] = pending_requests[x]
  BY DEF BookInv, BookTypes
<1> QED BY <1>1, <1>5, <1>6 DEF NumWaiting

\* The numbers of sockets, in all and in each group, grow within the limits.
Within ==
  /\ TotalSockets' > TotalSockets => TotalSockets' <= max_sockets
  /\ \A g \in Group :
       NumActiveSocketSlots(g)' > NumActiveSocketSlots(g) =>
         NumActiveSocketSlots(g)' <= max_sockets_per_group

LEMMA GroupWithin ==
  ASSUME BookInv, BookInv', NEW g \in Group, GrowsWithin(g),
         \A x \in Group : x # g => LeavesAlone(x) /\ NumWaiting(x)' = NumWaiting(x)
  PROVE  Within
<1>1. \A x \in Group : x # g => NumActiveSocketSlots(x)' <= NumActiveSocketSlots(x)
  BY LeftAlone
<1>2. \A x \in Group : NumActiveSocketSlots(x)' \in Nat /\ NumActiveSocketSlots(x) \in Nat
  BY PoolNumbers, NextNumbers
<1>3. \A x \in Group : NumActiveSocketSlots(x)' > NumActiveSocketSlots(x) => x = g
  BY <1>1, <1>2
<1>4. NumActiveSocketSlots(g)' > NumActiveSocketSlots(g) =>
        NumActiveSocketSlots(g)' <= max_sockets_per_group
  BY <1>2 DEF GrowsWithin
<1>5. TotalSockets \in Nat /\ TotalSockets' \in Nat
  BY PoolNumbers, NextNumbers DEF TotalSockets
<1>6. TotalSockets' > TotalSockets => TotalSockets' <= max_sockets
  BY <1>5 DEF GrowsWithin
<1> QED BY <1>3, <1>4, <1>6 DEF Within

\* A step that adds no socket.
LEMMA NoneAdded ==
  ASSUME BookInv, BookInv', TotalSockets' <= TotalSockets,
         \A x \in Group : NumActiveSocketSlots(x)' <= NumActiveSocketSlots(x)
  PROVE  Within
<1>1. \A x \in Group : NumActiveSocketSlots(x)' \in Nat /\ NumActiveSocketSlots(x) \in Nat
  BY PoolNumbers, NextNumbers
<1>2. TotalSockets \in Nat /\ TotalSockets' \in Nat
  <2>1. Numbers /\ Numbers'
    BY NumbersHold, PTL
  <2> QED BY <2>1 DEF Numbers
<1> QED BY <1>1, <1>2 DEF Within

\* ClientSocketHandle::Init: a request waits at a limit, or for a job.
LEMMA RequestSocketWakes ==
  ASSUME WakeInv, NEW h \in Handle, NEW g \in Group, NEW p \in Priority,
         RequestSocket(h, g, p)
  PROVE  WakeInv' /\ (IgnoresLimits \/ Within)
<1>0. BookInv /\ BookInv'
  BY RequestSocketKeepsBooks DEF WakeInv
<1>1. PICK D \in SUBSET AllIdle, rv \in Outcome :
         /\ RequestSocketInternal(g, h, D, rv)
         /\ pending_requests' =
              IF rv = "io_pending"
                THEN [pending_requests EXCEPT ![g] = InsertPendingRequest(@, h, p)]
                ELSE pending_requests
         /\ group_name' =
              [group_name EXCEPT ![h] =
                 IF rv = "error" /\ socket'[h] = None THEN None ELSE g]
  BY DEF RequestSocket
<1>2. group_name[h] = None /\ frame = Ready /\ frame' = frame
  BY DEF RequestSocket
<1>3. frame.at = "ready" /\ frame'.at = "ready"
  BY <1>2, FrameFacts
<1>4. h # None
  BY ConstantsAssumption
<1>5. /\ Drained => Drained'
      /\ \A x \in Group : x # g => LeavesAlone(x)
      /\ GrowsWithin(g) \/ Ignored(g, h, rv)
      /\ \/ TakesIdle(g, h, rv)
         \/ TakesSpare(g, h, rv)
         \/ HasToWait(g, h, D, rv)
         \/ GetsNew(g, h, D, rv)
  <2>1. RequestSocketInternal(g, h, D, rv) /\ D \subseteq AllIdle /\ rv \in Outcome
    BY <1>1
  <2>2. h \in Handle \union {None}
    OBVIOUS
  <2> QED BY <1>0, <2>1, <2>2, RequestInNumbers
<1>6. h \notin Values(pending_requests[g])
  BY <1>0, <1>2, NotAsked DEF BookInv, RequestStates
<1>7. /\ NumWaiting(g)' = IF rv = "io_pending" THEN NumWaiting(g) + 1 ELSE NumWaiting(g)
      /\ \A x \in Group : x # g => NumWaiting(x)' = NumWaiting(x)
  <2>1. CASE rv = "io_pending"
    BY <1>0, <1>1, <1>6, <2>1, InsertedNumber
  <2>2. CASE rv # "io_pending"
    BY <1>1, <2>2 DEF NumWaiting
  <2> QED BY <2>1, <2>2
<1>8. /\ active_socket_count[g] \in Nat /\ NumJobs(g) \in Nat /\ NumIdle(g) \in Nat
      /\ NumWaiting(g) \in Nat /\ unassigned_job_count[g] \in Nat
      /\ max_sockets_per_group \in Nat
      /\ NumIdle(g) = 0 <=> idle_sockets[g] = {}
      /\ NumActiveSocketSlots(g) = active_socket_count[g] + NumJobs(g) + NumIdle(g)
  BY <1>0, PoolNumbers
<1>9. /\ active_socket_count'[g] \in Nat /\ NumIdle(g)' \in Nat
      /\ NumActiveSocketSlots(g)' =
           active_socket_count'[g] + NumJobs(g)' + NumIdle(g)'
  BY <1>0, NextNumbers
<1>10. Unwanted(g) /\ Spare(g)
  BY <1>3 DEF WakeInv, IdleIsUnwanted, SpareJobs
<1>11. /\ Unwanted(g)' /\ Spare(g)'
       /\ CanUseAdditionalSocketSlot(g)' => CanUseAdditionalSocketSlot(g) \/ Drained'
  <2>1. CASE TakesIdle(g, h, rv)
    <3>1. ~ Wants(g) /\ NumWaiting(g)' = NumWaiting(g) /\ NumJobs(g)' = NumJobs(g)
      BY <1>7, <1>10, <2>1 DEF TakesIdle, Unwanted
    <3>2. ~ Wants(g)'
      BY <3>1 DEF Wants
    <3>3. Spare(g)'
      BY <1>10, <2>1, <3>1 DEF TakesIdle, Spare
    <3> QED BY <3>2, <3>3, CanUseInNumbers DEF Unwanted
  <2>2. CASE TakesSpare(g, h, rv)
    <3>1. /\ NumWaiting(g)' = NumWaiting(g) + 1 /\ NumJobs(g)' = NumJobs(g)
          /\ NumWaiting(g) + unassigned_job_count[g] <= NumJobs(g)
          /\ unassigned_job_count[g] > 0
          /\ unassigned_job_count'[g] = unassigned_job_count[g] - 1
      BY <1>7, <1>10, <2>2 DEF TakesSpare, Spare
    <3>2. ~ Wants(g)'
      BY <1>8, <3>1 DEF Wants
    <3>3. Spare(g)'
      BY <1>8, <3>1 DEF Spare
    <3> QED BY <3>2, <3>3, CanUseInNumbers DEF Unwanted
  <2>3. CASE HasToWait(g, h, D, rv)
    <3>1. /\ idle_sockets'[g] = {} /\ unassigned_job_count'[g] = 0
          /\ NumActiveSocketSlots(g)' >= max_sockets_per_group \/ Drained'
      BY <1>4, <2>3 DEF HasToWait
    <3>2. CanUseAdditionalSocketSlot(g)' => Drained'
      BY <1>8, <1>9, <2>3, <3>1, CanUseInNumbers DEF HasToWait
    <3> QED BY <3>1, <3>2 DEF Unwanted, Spare
  <2>4. CASE GetsNew(g, h, D, rv)
    <3>1. /\ idle_sockets'[g] = {} /\ unassigned_job_count'[g] = 0
          /\ active_socket_count'[g] >= active_socket_count[g]
          /\ NumJobs(g)' = IF rv = "io_pending" THEN NumJobs(g) + 1 ELSE NumJobs(g)
      BY <1>4, <2>4 DEF GetsNew
    <3>2. Wants(g)' => Wants(g)
      BY <1>7, <1>8, <3>1 DEF Wants
    <3>3. ASSUME CanUseAdditionalSocketSlot(g)' PROVE CanUseAdditionalSocketSlot(g)
      <4>1. Wants(g) /\ NumActiveSocketSlots(g)' < max_sockets_per_group
        BY <3>2, <3>3, CanUseInNumbers
      <4>2. NumIdle(g) = 0
        BY <1>8, <1>10, <4>1 DEF Unwanted
      <4>3. NumJobs(g)' >= NumJobs(g) /\ NumJobs(g)' \in Nat
        BY <1>8, <3>1
      <4>4. NumActiveSocketSlots(g) < max_sockets_per_group
        BY <1>8, <1>9, <3>1, <4>1, <4>2, <4>3
      <4> QED BY <4>1, <4>4, CanUseInNumbers
    <3> QED BY <3>1, <3>3 DEF Unwanted, Spare
  <2> QED BY <1>5, <2>1, <2>2, <2>3, <2>4
<1>12. frame.at # "slot" /\ frame.at # "check"
  BY <1>3
<1>13. WakeInv'
  BY <1>0, <1>5, <1>7, <1>11, <1>12, StepOfGroup
<1>14. CASE Ignored(g, h, rv)
  <2>1. group_name'[h] = IF rv = "error" /\ socket'[h] = None THEN None ELSE g
    BY <1>0, <1>1 DEF BookInv, BookTypes
  <2>2. rv = "error" => socket'[h] # None
    <3> SUFFICES ASSUME rv = "error" PROVE socket'[h] # None
      OBVIOUS
    <3>1. PICK c \in Conn : HandOutSocket(c, h, g)
      BY <1>14 DEF Ignored
    <3>2. socket'[h] = c
      BY <1>0, <3>1 DEF HandOutSocket, BookInv, PoolInv, ConnInv, ConnTypes
    <3> QED BY <3>2, ConstantsAssumption
  <2>3. group_name'[h] # None
    BY <2>1, <2>2, ConstantsAssumption
  <2> QED BY <1>2, <1>13, <1>14, <2>3 DEF Ignored, IgnoresLimits
<1>15. CASE GrowsWithin(g)
  BY <1>0, <1>5, <1>7, <1>13, <1>15, GroupWithin
<1> QED BY <1>5, <1>14, <1>15

\* RequestSockets, up to its loop.
LEMMA RequestSocketsWakes ==
  ASSUME WakeInv, NEW g \in Group, NEW num \in 1 .. max_sockets_per_group,
         RequestSockets(g, num)
  PROVE  WakeInv' /\ Within
<1>1. BookInv /\ BookInv'
  BY RequestSocketsKeepsBooks DEF WakeInv
<1>2. PICK D : D \subseteq AllIdle /\ UpdateIdle(D, g, {})
  BY DEF RequestSockets
<1>3. OnlyIdleSocketsChange /\ frame = Ready
  BY DEF RequestSockets
<1>4. frame.at # "slot" /\ frame.at # "check"
  BY <1>3, FrameFacts
<1>5. /\ WakeInv' /\ TotalSockets' <= TotalSockets
      /\ \A x \in Group : NumActiveSocketSlots(x)' <= NumActiveSocketSlots(x)
  BY <1>1, <1>2, <1>3, <1>4, IdleGoneWakes
<1> QED BY <1>1, <1>5, NoneAdded

\* A step that no number notices.
LEMMA SameNumbersWakes ==
  ASSUME WakeInv, BookInv',
         UNCHANGED <<idleVars, jobVars, activeVars>>,
         \A x \in Group : NumWaiting(x)' = NumWaiting(x),
         frame' = frame \/ frame.at \notin {"slot", "check"}
  PROVE  WakeInv' /\ Within
<1> USE DEF WakeInv
<1>1. UNCHANGED <<idle_sockets, idle_socket_count, jobs, unassigned_job_count,
                  connecting_socket_count, active_socket_count,
                  handed_out_socket_count>>
  BY DEF idleVars, jobVars, activeVars
<1>2. /\ TotalSockets' = TotalSockets
      /\ Drained' <=> Drained
  BY <1>1 DEF TotalSockets, Drained, ReachedMaxSocketsLimit
<1>3. \A x \in Group :
        /\ NumJobs(x)' = NumJobs(x) /\ NumIdle(x)' = NumIdle(x)
        /\ NumActiveSocketSlots(x)' = NumActiveSocketSlots(x)
  BY <1>1 DEF NumJobs, NumIdle, NumActiveSocketSlots
<1>4. \A x \in Group : /\ Wants(x)' <=> Wants(x)
                       /\ Unwanted(x)' <=> Unwanted(x)
                       /\ Spare(x)' <=> Spare(x)
  BY <1>1, <1>3 DEF Wants, Unwanted, Spare
<1>5. \A x \in Group : CanUseAdditionalSocketSlot(x)' <=> CanUseAdditionalSocketSlot(x)
  BY <1>3, <1>4, CanUseInNumbers
<1>6. IdleIsUnwanted'
  BY <1>3, <1>4 DEF IdleIsUnwanted
<1>7. SpareJobs'
  BY <1>4 DEF SpareJobs
<1>8. Awake' <=> Awake
  BY <1>2, <1>5 DEF Awake
<1>9. StaysAwake'
  BY <1>8 DEF StaysAwake
<1>10. WakeInv'
  BY <1>6, <1>7, <1>9
<1>11. TotalSockets' <= TotalSockets
  BY <1>2, PoolNumbers DEF TotalSockets
<1>12. \A x \in Group : NumActiveSocketSlots(x)' <= NumActiveSocketSlots(x)
  BY <1>3, PoolNumbers
<1> QED BY <1>10, <1>11, <1>12, NoneAdded

\* An iteration of the loop of RequestSockets: it connects, or makes a socket
\* idle, only in a group that does not want one for its requests.
LEMMA PreconnectOneWakes ==
  ASSUME WakeInv, PreconnectOne
  PROVE  WakeInv' /\ Within
<1>0. BookInv /\ BookInv'
  BY PreconnectOneKeepsBooks DEF WakeInv
<1>1. PICK g : g = frame.group
  OBVIOUS
<1>2. g \in Group /\ frame.at = "preconnect"
  BY <1>0, <1>1 DEF PreconnectOne, BookInv, PoolInv, FrameHasGroup
<1>3. PICK rv \in Outcome : RequestSocketInternal(g, None, {}, rv)
  BY <1>1 DEF PreconnectOne
<1>4. UNCHANGED pending_requests
  BY DEF PreconnectOne
<1>5. PICK h \in Handle \union {None}, D \in SUBSET AllIdle : h = None /\ D = {}
  OBVIOUS
<1>6. /\ Drained => Drained'
      /\ \A x \in Group : x # g => LeavesAlone(x)
      /\ GrowsWithin(g) \/ Ignored(g, h, rv)
      /\ \/ TakesIdle(g, h, rv)
         \/ TakesSpare(g, h, rv)
         \/ HasToWait(g, h, D, rv)
         \/ GetsNew(g, h, D, rv)
  <2>1. RequestSocketInternal(g, h, D, rv) /\ D \subseteq AllIdle
    BY <1>3, <1>5
  <2> QED BY <1>0, <1>2, <2>1, RequestInNumbers
<1>7. GrowsWithin(g)
  BY <1>5, <1>6, ConstantsAssumption DEF Ignored
<1>8. \A x \in Group : NumWaiting(x)' = NumWaiting(x)
  BY <1>4 DEF NumWaiting
<1>9. Within
  BY <1>0, <1>2, <1>6, <1>7, <1>8, GroupWithin
<1>10. /\ Unwanted(g) /\ Spare(g) /\ (CanUseAdditionalSocketSlot(g) => Drained)
  BY <1>2 DEF WakeInv, IdleIsUnwanted, SpareJobs, StaysAwake, Awake
<1>11. /\ NumJobs(g) \in Nat /\ NumWaiting(g) \in Nat /\ unassigned_job_count[g] \in Nat
  BY <1>0, <1>2, PoolNumbers
<1>12. /\ Unwanted(g)' /\ Spare(g)'
       /\ CanUseAdditionalSocketSlot(g)' => CanUseAdditionalSocketSlot(g) \/ Drained'
  <2>1. CASE HasToWait(g, h, D, rv)
    <3>1. /\ idle_sockets'[g] = idle_sockets[g] /\ NumJobs(g)' = NumJobs(g)
          /\ active_socket_count'[g] = active_socket_count[g]
          /\ unassigned_job_count'[g] = unassigned_job_count[g]
      BY <1>5, <2>1 DEF HasToWait
    <3>2. Wants(g)' <=> Wants(g)
      BY <1>2, <1>8, <3>1 DEF Wants
    <3>3. Unwanted(g)' /\ Spare(g)'
      BY <1>2, <1>8, <1>10, <3>1, <3>2 DEF Unwanted, Spare
    <3>4. NumActiveSocketSlots(g)' = NumActiveSocketSlots(g)
      BY <3>1 DEF NumActiveSocketSlots, NumJobs
    <3> QED BY <3>2, <3>3, <3>4, CanUseInNumbers
  <2>2. CASE GetsNew(g, h, D, rv)
    <3>1. /\ HasAvailableSocketSlot(g) /\ ~ Drained
          /\ NumJobs(g)' = IF rv = "io_pending" THEN NumJobs(g) + 1 ELSE NumJobs(g)
          /\ unassigned_job_count'[g] =
               IF rv = "io_pending" THEN unassigned_job_count[g] + 1
                                    ELSE unassigned_job_count[g]
      BY <1>5, <2>2 DEF GetsNew
    <3>2. ~ Wants(g)
      BY <1>10, <3>1, CanUseInNumbers DEF HasAvailableSocketSlot
    <3>3. NumWaiting(g)' = NumWaiting(g)
      BY <1>2, <1>8
    <3>4. ~ Wants(g)'
      BY <1>11, <3>1, <3>2, <3>3 DEF Wants
    <3>5. Spare(g)'
      BY <1>10, <1>11, <3>1, <3>2, <3>3 DEF Spare, Wants
    <3> QED BY <3>4, <3>5, CanUseInNumbers DEF Unwanted
  <2> QED BY <1>5, <1>6, <2>1, <2>2 DEF TakesIdle, TakesSpare
<1>13. frame.at # "slot" /\ frame.at # "check"
  BY <1>2
<1>14. WakeInv'
  BY <1>0, <1>2, <1>6, <1>8, <1>12, <1>13, StepOfGroup
<1> QED BY <1>9, <1>14

\* The end of RequestSockets.
LEMMA PreconnectDoneWakes ==
  ASSUME WakeInv, PreconnectDone
  PROVE  WakeInv' /\ Within
<1>1. BookInv'
  BY PreconnectDoneKeepsBooks DEF WakeInv
<1>2. /\ UNCHANGED <<idleVars, jobVars, activeVars>> /\ UNCHANGED pending_requests
      /\ frame.at = "preconnect"
  BY DEF PreconnectDone, requestVars
<1>3. \A x \in Group : NumWaiting(x)' = NumWaiting(x)
  BY <1>2 DEF NumWaiting
<1>4. frame.at \notin {"slot", "check"}
  BY <1>2
<1> QED BY <1>1, <1>2, <1>3, <1>4, SameNumbersWakes

-----------------------------------------------------------------------------
\* ReleaseSocket: a socket that becomes idle is offered to its group, and the
\* slot of one that does not to the groups that are stalled.
LEMMA ReleaseWakes ==
  ASSUME WakeInv, BookInv', NEW h \in Handle, NEW connected \in BOOLEAN,
         ReleaseSocket(h, connected), ClearHandle(h), socket[h] # None, frame = Ready
  PROVE  WakeInv' /\ Within
<1> USE DEF WakeInv
<1>1. PICK g : g = group_name[h]
  OBVIOUS
<1>2. PICK can_reuse \in BOOLEAN : can_reuse = CanReuseSocket(h, connected)
  BY DEF CanReuseSocket
<1>3. PICK A : A = IF can_reuse THEN {socket[h]} ELSE {}
  OBVIOUS
<1>4. /\ g \in Group
      /\ handed_out_socket_count' = handed_out_socket_count - 1
      /\ active_socket_count' = [active_socket_count EXCEPT ![g] = @ - 1]
      /\ UpdateIdle({}, g, A)
      /\ frame' = IF can_reuse THEN Slot(g) ELSE Check
      /\ UNCHANGED <<pending_requests, jobs, unassigned_job_count,
                     connecting_socket_count>>
  <2>1. g \in Group
    BY <1>1 DEF ReleaseSocket, BookInv, PoolInv
  <2>2. UpdateIdle({}, g, A)
    BY <1>1, <1>2, <1>3 DEF ReleaseSocket
  <2>3. frame' = IF can_reuse THEN Slot(g) ELSE Check
    BY <1>1, <1>2 DEF ReleaseSocket, AfterRelease
  <2> QED BY <1>1, <2>1, <2>2, <2>3 DEF ReleaseSocket, jobVars
<1>5. ConnTypes /\ SocketInOnePlace
  BY DEF BookInv, PoolInv, ConnInv
<1>6. socket[h] \in Conn /\ socket[h] \notin AllIdle
  <2>1. socket[h] \in Conn
    BY <1>5 DEF ConnTypes
  <2>2. socket[h] \in HandedOut
    BY DEF HandedOut
  <2>3. HandedOut \intersect (AllIdle \union AllJobs) = {}
    BY <1>5 DEF SocketInOnePlace
  <2> QED BY <2>1, <2>2, <2>3
<1>7. /\ A \subseteq Conn /\ A \intersect AllIdle = {} /\ {} \subseteq AllIdle
      /\ Cardinality(A) \in {0, 1} /\ Cardinality({}) = 0
  BY <1>3, <1>6, FS_Singleton, FS_EmptySet
<1>8. /\ active_socket_count[g] \in Nat /\ NumJobs(g) \in Nat /\ NumIdle(g) \in Nat
      /\ handed_out_socket_count \in Nat /\ connecting_socket_count \in Nat
      /\ idle_socket_count \in Nat
      /\ NumActiveSocketSlots(g) = active_socket_count[g] + NumJobs(g) + NumIdle(g)
      /\ NumIdle(g) = 0 <=> idle_sockets[g] = {}
  BY <1>4, PoolNumbers
<1>9. /\ active_socket_count'[g] = active_socket_count[g] - 1
      /\ \A x \in Group : x # g => active_socket_count'[x] = active_socket_count[x]
  BY <1>4 DEF BookInv, BookTypes
<1>10. NumJobs(g)' = NumJobs(g)
  BY <1>4 DEF NumJobs
<1>11. PICK E : E = {}
  OBVIOUS
<1>12. Cardinality(idle_sockets[g] \intersect E) = 0 /\ Cardinality(E) = 0
  <2>1. idle_sockets[g] \intersect E = {} /\ E = {}
    BY <1>11
  <2> QED BY <1>7, <2>1, Zenon
<1>13. /\ TotalSockets' = handed_out_socket_count' + connecting_socket_count'
                            + idle_socket_count - Cardinality(E) + Cardinality(A)
       /\ NumIdle(g)' = NumIdle(g) - Cardinality(idle_sockets[g] \intersect E)
                          + Cardinality(A)
       /\ NumActiveSocketSlots(g)' =
            active_socket_count'[g] + NumJobs(g)' + NumIdle(g)
              - Cardinality(idle_sockets[g] \intersect E) + Cardinality(A)
       /\ idle_sockets'[g] = (idle_sockets[g] \ E) \union A
       /\ \A x \in Group : x # g => idle_sockets'[x] \subseteq idle_sockets[x]
  <2>1. /\ UpdateIdle(E, g, A) /\ E \subseteq AllIdle /\ A \subseteq Conn
        /\ A \intersect AllIdle = {}
        /\ handed_out_socket_count' \in Int /\ connecting_socket_count' \in Int
        /\ active_socket_count'[g] \in Int /\ NumJobs(g)' \in Int
    BY <1>4, <1>7, <1>8, <1>9, <1>10, <1>11
  <2>2. Cardinality(A) \in Nat
    BY <1>7
  <2> QED BY <1>4, <1>8, <1>12, <2>1, <2>2, EffectNumbers
<1>14. NumWaiting(g)' = NumWaiting(g)
       /\ \A x \in Group : x # g => LeavesAlone(x) /\ NumWaiting(x)' = NumWaiting(x)
  BY <1>4, <1>9, <1>13 DEF NumWaiting, LeavesAlone
<1>15. GrowsWithin(g)
  <2>1. TotalSockets = handed_out_socket_count + connecting_socket_count + idle_socket_count
    BY DEF TotalSockets
  <2>2. TotalSockets' <= TotalSockets
    BY <1>4, <1>7, <1>8, <1>12, <1>13, <2>1
  <2>3. NumActiveSocketSlots(g)' <= NumActiveSocketSlots(g)
    BY <1>7, <1>8, <1>9, <1>10, <1>12, <1>13
  <2> QED BY <2>2, <2>3 DEF GrowsWithin
<1>16. Within
  BY <1>4, <1>14, <1>15, GroupWithin
<1>17. frame.at = "ready"
  BY FrameFacts
<1>18. \A x \in Group : Unwanted(x) /\ Spare(x)
  BY <1>17 DEF IdleIsUnwanted, SpareJobs
<1>19. \A x \in Group : x # g => Unwanted(x)' /\ Spare(x)'
  BY <1>14, <1>18, LeftAlone
<1>20. Spare(g)'
  BY <1>4, <1>10, <1>14, <1>18 DEF Spare
<1>21. ~ Unwanted(g)' => frame'.at = "slot" /\ frame'.group = g /\ NumIdle(g)' <= 1
  <2> SUFFICES ASSUME ~ Unwanted(g)'
               PROVE  frame'.at = "slot" /\ frame'.group = g /\ NumIdle(g)' <= 1
    OBVIOUS
  <2>1. Wants(g) /\ idle_sockets'[g] # {}
    BY <1>10, <1>14 DEF Unwanted, Wants
  <2>2. idle_sockets[g] = {}
    BY <1>4, <1>18, <2>1 DEF Unwanted
  <2>3. can_reuse
    BY <1>3, <1>13, <2>1, <2>2
  <2>4. frame'.at = "slot" /\ frame'.group = g
    BY <1>4, <2>3, FrameFacts
  <2>5. NumIdle(g)' <= 1
    BY <1>7, <1>8, <1>12, <1>13, <2>2
  <2> QED BY <2>4, <2>5
<1>22. IdleIsUnwanted' /\ SpareJobs'
  BY <1>19, <1>20, <1>21 DEF IdleIsUnwanted, SpareJobs
<1>23. StaysAwake'
  BY <1>4, FrameFacts DEF StaysAwake
<1> QED BY <1>16, <1>22, <1>23

\* Reset of a handle that has a socket.
LEMMA ResetInitializedWakes ==
  ASSUME WakeInv, NEW h \in Handle, ResetInitialized(h)
  PROVE  WakeInv' /\ Within
<1>1. BookInv /\ BookInv'
  BY ResetInitializedKeepsBooks DEF WakeInv
<1>2. PICK connected \in BOOLEAN : ReleaseSocket(h, connected)
  BY DEF ResetInitialized
<1>3. frame = Ready /\ is_initialized[h] /\ ClearHandle(h) /\ group_name[h] # None
  BY <1>1, <1>2, ConstantsAssumption
     DEF ResetInitialized, ReleaseSocket, BookInv, PoolInv
<1>4. socket[h] # None
  BY <1>1, <1>3 DEF BookInv, RequestStates, RequestState
<1> QED BY <1>1, <1>2, <1>3, <1>4, ReleaseWakes

\* Reset of a handle whose callback is pending.
LEMMA CancelCallbackWakes ==
  ASSUME WakeInv, NEW h \in Handle, CancelCallback(h)
  PROVE  WakeInv' /\ Within
<1>1. BookInv /\ BookInv'
  BY CancelCallbackKeepsBooks DEF WakeInv
<1>2. CASE socket[h] # None
  <2>1. PICK connected \in BOOLEAN : ReleaseSocket(h, connected)
    BY <1>2 DEF CancelCallback
  <2>2. frame = Ready /\ ClearHandle(h)
    BY DEF CancelCallback
  <2> QED BY <1>1, <1>2, <2>1, <2>2, ReleaseWakes
<1>3. CASE socket[h] = None
  <2>1. UNCHANGED <<idleVars, jobVars, activeVars>> /\ UNCHANGED <<pending_requests, frame>>
    BY <1>3 DEF CancelCallback
  <2>2. \A x \in Group : NumWaiting(x)' = NumWaiting(x)
    BY <2>1 DEF NumWaiting
  <2>3. frame' = frame
    BY <2>1
  <2> QED BY <1>1, <2>1, <2>2, <2>3, SameNumbersWakes
<1> QED BY <1>2, <1>3

\* The task that reports the result of a request.
LEMMA InvokeUserCallbackWakes ==
  ASSUME WakeInv, NEW h \in Handle, InvokeUserCallback(h)
  PROVE  WakeInv' /\ Within
<1>1. BookInv'
  BY InvokeUserCallbackKeepsBooks DEF WakeInv
<1>2. UNCHANGED <<idleVars, jobVars, activeVars>> /\ UNCHANGED <<pending_requests, frame>>
  BY DEF InvokeUserCallback
<1>3. \A x \in Group : NumWaiting(x)' = NumWaiting(x)
  BY <1>2 DEF NumWaiting
<1>4. frame' = frame
  BY <1>2
<1> QED BY <1>1, <1>2, <1>3, <1>4, SameNumbersWakes

\* SetPriority: the request goes to another place of the same queue.
LEMMA SetPriorityWakes ==
  ASSUME WakeInv, NEW h \in Handle, NEW p \in Priority, SetPriority(h, p)
  PROVE  WakeInv' /\ Within
<1>1. BookInv /\ BookInv'
  BY SetPriorityKeepsBooks DEF WakeInv
<1>2. PICK g : g = group_name[h]
  OBVIOUS
<1>3. /\ g \in Group /\ h \in Values(pending_requests[g]) /\ frame' = frame
      /\ UNCHANGED <<idleVars, jobVars, activeVars>>
      /\ pending_requests' =
           [pending_requests EXCEPT
              ![g] = InsertPendingRequest(Erase(pending_requests[g], h), h, p)]
  BY <1>1, <1>2 DEF SetPriority, BookInv, PoolInv
<1>4. PICK q \in [Priority -> Seq(Handle)] : q = pending_requests[g]
  BY <1>1, <1>3 DEF BookInv, BookTypes
<1>5. PICK r \in [Priority -> Seq(Handle)] :
        r = Erase(q, h) /\ Values(q) = Values(r) \union {h}
  BY <1>3, <1>4, EraseProperties
<1>6. Values(InsertPendingRequest(r, h, p)) = Values(q)
  BY <1>5, InsertedProperties
<1>7. pending_requests'[g] = InsertPendingRequest(r, h, p)
      /\ \A x \in Group : x # g => pending_requests'[x] = pending_requests[x]
  BY <1>1, <1>3, <1>4, <1>5 DEF BookInv, BookTypes
<1>8. NumWaiting(g)' = NumWaiting(g)
  BY <1>4, <1>6, <1>7 DEF NumWaiting, size
<1>9. \A x \in Group : NumWaiting(x)' = NumWaiting(x)
  BY <1>7, <1>8 DEF NumWaiting
<1> QED BY <1>1, <1>3, <1>9, SameNumbersWakes

\* RemoveConnectJob, in numbers.
LEMMA RemovedJobNumbers ==
  ASSUME BookInv, NEW g \in Group, NEW c \in jobs[g], RemoveConnectJob(c, g)
  PROVE  /\ connecting_socket_count' = connecting_socket_count - 1
         /\ NumJobs(g)' = NumJobs(g) - 1
         /\ unassigned_job_count'[g] \in Int
         /\ unassigned_job_count'[g] <= unassigned_job_count[g]
         /\ unassigned_job_count'[g] <= NumJobs(g) - 1
         /\ \A x \in Group : x # g => /\ jobs'[x] = jobs[x]
                                      /\ unassigned_job_count'[x] = unassigned_job_count[x]
<1>1. /\ connecting_socket_count' = connecting_socket_count - 1
      /\ jobs' = [jobs EXCEPT ![g] = @ \ {c}]
      /\ unassigned_job_count' =
           [unassigned_job_count EXCEPT ![g] = UnassignedAfterRemoval(c, g)]
  BY DEF RemoveConnectJob, RemoveJob
<1>2. /\ ConnTypes /\ SocketInOnePlace /\ JobCount /\ UnassignedBound
      /\ unassigned_job_count \in [Group -> Int]
  BY DEF BookInv, PoolInv, ConnInv, BookTypes
<1>3. Cardinality(jobs'[g]) = Cardinality(jobs[g]) - 1
  BY <1>1, <1>2, JobCountAfterRemoval
<1>4. jobs'[g] = jobs[g] \ {c} /\ \A x \in Group : x # g => jobs'[x] = jobs[x]
  BY <1>1, <1>2 DEF ConnTypes
<1>5. /\ UnassignedAfterRemoval(c, g) \in 0 .. Cardinality(jobs[g] \ {c})
      /\ UnassignedAfterRemoval(c, g) <= unassigned_job_count[g]
  BY <1>2, UnassignedAfterRemovalBound
<1>6. PICK u : u = UnassignedAfterRemoval(c, g)
  OBVIOUS
<1>7. /\ unassigned_job_count'[g] = u
      /\ \A x \in Group : x # g => unassigned_job_count'[x] = unassigned_job_count[x]
  BY <1>1, <1>2, <1>6
<1>8. Cardinality(jobs[g]) \in Nat
  BY <1>2, ConnsAreFinite, FS_CardinalityType
<1>9. u \in Int /\ u <= unassigned_job_count[g] /\ u <= Cardinality(jobs[g]) - 1
  BY <1>3, <1>4, <1>5, <1>6, <1>8
<1> QED BY <1>1, <1>3, <1>4, <1>7, <1>9 DEF NumJobs

\* CancelRequest of a handle that waits: the slot of a job that is cancelled is
\* offered to the stalled groups.
LEMMA CancelPendingWakes ==
  ASSUME WakeInv, NEW h \in Handle, CancelPending(h)
  PROVE  WakeInv' /\ Within
<1>0. BookInv /\ BookInv'
  BY CancelPendingKeepsBooks DEF WakeInv
<1>1. PICK g : g = group_name[h]
  OBVIOUS
<1>2. /\ g \in Group /\ h \in Values(pending_requests[g]) /\ frame = Ready
      /\ pending_requests' =
           [pending_requests EXCEPT ![g] = Erase(pending_requests[g], h)]
      /\ UNCHANGED <<idle_sockets, idle_socket_count, active_socket_count,
                     handed_out_socket_count>>
  BY <1>0, <1>1 DEF CancelPending, BookInv, PoolInv, idleVars, activeVars
<1>3. \/ (\E c \in jobs[g] : RemoveConnectJob(c, g)) /\ frame' = Check
      \/ UNCHANGED jobVars /\ frame' = frame
  BY <1>1 DEF CancelPending
<1>4. /\ NumWaiting(g)' = NumWaiting(g) - 1
      /\ \A x \in Group : x # g => NumWaiting(x)' = NumWaiting(x)
  <2>1. BookTypes /\ QueuesHoldOnce
    BY <1>0 DEF BookInv
  <2>2. /\ size(pending_requests'[g]) = size(pending_requests[g]) - 1
        /\ \A x \in Group : x # g => pending_requests'[x] = pending_requests[x]
    BY <1>2, <2>1, ErasedFromQueue
  <2> QED BY <2>2 DEF NumWaiting
<1>5. /\ NumJobs(g) \in Nat /\ NumWaiting(g) \in Nat /\ unassigned_job_count[g] \in Nat
      /\ active_socket_count[g] \in Nat /\ NumIdle(g) \in Nat
      /\ connecting_socket_count \in Nat /\ handed_out_socket_count \in Nat
      /\ idle_socket_count \in Nat
      /\ NumActiveSocketSlots(g) = active_socket_count[g] + NumJobs(g) + NumIdle(g)
  BY <1>0, <1>2, PoolNumbers
<1>6. frame.at = "ready" /\ Check.at = "check"
  BY <1>2, FrameFacts
<1>7. Unwanted(g) /\ Spare(g)
  BY <1>2, <1>6 DEF WakeInv, IdleIsUnwanted, SpareJobs
<1>8. NumIdle(g)' = NumIdle(g)
  BY <1>2 DEF NumIdle
<1>9. NumActiveSocketSlots(g)' = active_socket_count'[g] + NumJobs(g)' + NumIdle(g)'
  BY <1>0, <1>2, NextNumbers
<1>10. CASE (\E c \in jobs[g] : RemoveConnectJob(c, g)) /\ frame' = Check
  <2>1. PICK c \in jobs[g] : RemoveConnectJob(c, g)
    BY <1>10
  <2>2. /\ connecting_socket_count' = connecting_socket_count - 1
        /\ NumJobs(g)' = NumJobs(g) - 1
        /\ unassigned_job_count'[g] \in Int
        /\ unassigned_job_count'[g] <= unassigned_job_count[g]
        /\ \A x \in Group : x # g => /\ jobs'[x] = jobs[x]
                                     /\ unassigned_job_count'[x] = unassigned_job_count[x]
    BY <1>0, <1>2, <2>1, RemovedJobNumbers
  <2>3. Wants(g)' <=> Wants(g)
    BY <1>4, <1>5, <2>2 DEF Wants
  <2>4. Unwanted(g)'
    BY <1>2, <1>7, <2>3 DEF Unwanted
  <2>5. Spare(g)'
    BY <1>4, <1>5, <1>7, <2>2 DEF Spare
  <2>6. \A x \in Group : x # g => LeavesAlone(x) /\ NumWaiting(x)' = NumWaiting(x)
    BY <1>2, <1>4, <2>2 DEF LeavesAlone
  <2>7. frame.at # "slot" /\ frame'.at \in {"slot", "check"}
    BY <1>6, <1>10
  <2>8. WakeInv'
    BY <1>0, <1>2, <2>4, <2>5, <2>6, <2>7, StepOfGroup
  <2>9. GrowsWithin(g)
    <3>1. TotalSockets' <= TotalSockets
      BY <1>2, <1>5, <2>2 DEF TotalSockets
    <3>2. NumActiveSocketSlots(g)' <= NumActiveSocketSlots(g)
      BY <1>2, <1>5, <1>8, <1>9, <2>2
    <3> QED BY <3>1, <3>2 DEF GrowsWithin
  <2> QED BY <1>0, <1>2, <2>6, <2>8, <2>9, GroupWithin
<1>11. CASE UNCHANGED jobVars /\ frame' = frame
  <2>1. UNCHANGED <<jobs, unassigned_job_count, connecting_socket_count>>
    BY <1>11 DEF jobVars
  <2>2. NumJobs(g)' = NumJobs(g)
    BY <2>1 DEF NumJobs
  <2>3. Wants(g)' => Wants(g)
    BY <1>4, <1>5, <2>2 DEF Wants
  <2>4. Unwanted(g)'
    BY <1>2, <1>7, <2>3 DEF Unwanted
  <2>5. Spare(g)'
    BY <1>4, <1>5, <1>7, <2>1, <2>2 DEF Spare
  <2>6. \A x \in Group : x # g => LeavesAlone(x) /\ NumWaiting(x)' = NumWaiting(x)
    BY <1>2, <1>4, <2>1 DEF LeavesAlone
  <2>7. TotalSockets' = TotalSockets /\ (Drained => Drained')
    BY <1>2, <2>1 DEF TotalSockets, Drained, ReachedMaxSocketsLimit
  <2>8. NumActiveSocketSlots(g)' = NumActiveSocketSlots(g)
    BY <1>2, <1>5, <1>8, <1>9, <2>2
  <2>9. CanUseAdditionalSocketSlot(g)' => CanUseAdditionalSocketSlot(g)
    BY <2>3, <2>8, CanUseInNumbers
  <2>10. frame.at # "slot" /\ frame.at # "check"
    BY <1>6
  <2>11. WakeInv'
    BY <1>0, <1>2, <2>4, <2>5, <2>6, <2>7, <2>9, <2>10, StepOfGroup
  <2>12. GrowsWithin(g)
    <3>1. TotalSockets' <= TotalSockets
      BY <1>2, <1>5, <2>7 DEF TotalSockets
    <3>2. NumActiveSocketSlots(g)' <= NumActiveSocketSlots(g)
      BY <1>5, <2>8
    <3> QED BY <3>1, <3>2 DEF GrowsWithin
  <2> QED BY <1>0, <1>2, <2>6, <2>11, <2>12, GroupWithin
<1> QED BY <1>3, <1>10, <1>11

\* A ConnectJob ends: the request at the front takes its place, whether with its
\* socket or with an error, so that as many requests as before want a job; and
\* the slot of a job that leaves no socket behind is offered to the group.
LEMMA ConnectJobCompleteWakes ==
  ASSUME WakeInv, NEW g \in Group, NEW c \in jobs[g], NEW result \in Result,
         NEW with_socket \in BOOLEAN,
         OnConnectJobComplete(g, c, result, with_socket)
  PROVE  WakeInv' /\ Within
<1>0. BookInv /\ BookInv'
  BY ConnectJobCompleteKeepsBooks DEF WakeInv
<1>1. PICK h : h = NextPendingRequest(g)
  OBVIOUS
<1>2. RemoveConnectJob(c, g) /\ frame \in {Ready, Complete(g, c)}
  BY DEF OnConnectJobComplete
<1>3. ConnTypes /\ SocketInOnePlace
  BY <1>0 DEF BookInv, PoolInv, ConnInv
<1>4. c \in Conn /\ c \notin AllIdle
  BY <1>3, OnePlaceElim DEF AllIdle, ConnTypes
<1>5. frame.at # "slot" /\ frame.at # "check"
  BY <1>2, <1>4, FrameFacts
<1>6. /\ NumJobs(g) \in Nat /\ NumWaiting(g) \in Nat /\ unassigned_job_count[g] \in Nat
      /\ active_socket_count[g] \in Nat /\ NumIdle(g) \in Nat
      /\ connecting_socket_count \in Nat /\ handed_out_socket_count \in Nat
      /\ idle_socket_count \in Nat /\ TotalSockets \in Nat
      /\ NumActiveSocketSlots(g) = active_socket_count[g] + NumJobs(g) + NumIdle(g)
  BY <1>0, PoolNumbers DEF TotalSockets
<1>7. /\ connecting_socket_count' = connecting_socket_count - 1
      /\ NumJobs(g)' = NumJobs(g) - 1
      /\ unassigned_job_count'[g] \in Int
      /\ unassigned_job_count'[g] <= unassigned_job_count[g]
      /\ unassigned_job_count'[g] <= NumJobs(g) - 1
      /\ \A x \in Group : x # g => /\ jobs'[x] = jobs[x]
                                   /\ unassigned_job_count'[x] = unassigned_job_count[x]
  BY <1>0, <1>2, RemovedJobNumbers
<1>8. Unwanted(g) /\ Spare(g)
  BY <1>5 DEF WakeInv, IdleIsUnwanted, SpareJobs
<1>9. TotalSockets = handed_out_socket_count + connecting_socket_count + idle_socket_count
  BY DEF TotalSockets
<1>10. Cardinality({}) = 0
  BY FS_EmptySet
<1>11. ASSUME NEW A, A \subseteq Conn, A \intersect AllIdle = {}, UpdateIdle({}, g, A),
              handed_out_socket_count' \in Int, active_socket_count'[g] \in Int
       PROVE  /\ Cardinality(A) \in Nat
              /\ idle_socket_count' = idle_socket_count + Cardinality(A)
              /\ TotalSockets' = handed_out_socket_count' + connecting_socket_count'
                                   + idle_socket_count + Cardinality(A)
              /\ NumActiveSocketSlots(g)' =
                   active_socket_count'[g] + NumJobs(g)' + NumIdle(g) + Cardinality(A)
              /\ idle_sockets'[g] = idle_sockets[g] \union A
              /\ \A x \in Group : x # g => idle_sockets'[x] \subseteq idle_sockets[x]
  <2>1. PICK E : E = {}
    OBVIOUS
  <2>2. /\ UpdateIdle(E, g, A) /\ E \subseteq AllIdle
        /\ connecting_socket_count' \in Int /\ NumJobs(g)' \in Int
    BY <1>6, <1>7, <1>11, <2>1
  <2>3. Cardinality(idle_sockets[g] \intersect E) = 0 /\ Cardinality(E) = 0
    <3>1. idle_sockets[g] \intersect E = {} /\ E = {}
      BY <2>1
    <3> QED BY <1>10, <3>1, Zenon
  <2>4. Cardinality(A) \in Nat
    BY <1>0, <1>11, <2>2, EffectNumbers
  <2>5. /\ idle_socket_count' = idle_socket_count - Cardinality(E) + Cardinality(A)
        /\ TotalSockets' =
              handed_out_socket_count' + connecting_socket_count'
                + idle_socket_count - Cardinality(E) + Cardinality(A)
        /\ NumActiveSocketSlots(g)' =
              active_socket_count'[g] + NumJobs(g)' + NumIdle(g)
                - Cardinality(idle_sockets[g] \intersect E) + Cardinality(A)
        /\ idle_sockets'[g] = (idle_sockets[g] \ E) \union A
        /\ \A x \in Group : x # g => idle_sockets'[x] \subseteq idle_sockets[x]
    BY <1>0, <1>6, <1>11, <2>2, <2>3, <2>4, EffectNumbers
  <2> QED BY <1>6, <1>7, <1>11, <2>1, <2>2, <2>3, <2>4, <2>5
<1>12. CASE ~ empty(pending_requests[g])
  <2>1. h \in Handle /\ h \in Values(pending_requests[g])
    BY <1>0, <1>1, <1>12, NextIsInQueue DEF BookInv
  <2>2. /\ pending_requests' =
             [pending_requests EXCEPT ![g] = Erase(pending_requests[g], h)]
        /\ UpdateIdle({}, g, {})
    BY <1>1, <1>12 DEF OnConnectJobComplete
  <2>3. \/ HandOutSocket(c, NextPendingRequest(g), g) /\ frame' = Ready
        \/ NoSocketHandedOut /\ frame' = Slot(g)
    BY <1>12, Zenon DEF OnConnectJobComplete
  <2>4. \/ HandOutSocket(c, h, g) /\ frame' = Ready
        \/ NoSocketHandedOut /\ frame' = Slot(g)
    BY <1>1, <2>3
  <2>5. /\ NumWaiting(g)' = NumWaiting(g) - 1
        /\ \A x \in Group : x # g => NumWaiting(x)' = NumWaiting(x)
    <3>1. BookTypes /\ QueuesHoldOnce
      BY <1>0 DEF BookInv
    <3>2. /\ size(pending_requests'[g]) = size(pending_requests[g]) - 1
          /\ \A x \in Group : x # g => pending_requests'[x] = pending_requests[x]
      BY <2>1, <2>2, <3>1, ErasedFromQueue
    <3> QED BY <3>2 DEF NumWaiting
  <2>6. Wants(g)' <=> Wants(g)
    BY <1>6, <1>7, <2>5 DEF Wants
  <2>7. Spare(g)'
    BY <1>6, <1>7, <1>8, <2>5 DEF Spare
  <2>8. CASE HandOutSocket(c, h, g) /\ frame' = Ready
    <3>1. /\ handed_out_socket_count' = handed_out_socket_count + 1
          /\ active_socket_count'[g] = active_socket_count[g] + 1
          /\ \A x \in Group : x # g => active_socket_count'[x] = active_socket_count[x]
      BY <1>0, <2>8, HandedOutNumbers
    <3>2. PICK A : A = {}
      OBVIOUS
    <3>3. Cardinality(A) = 0 /\ A \subseteq Conn /\ A \intersect AllIdle = {}
          /\ UpdateIdle({}, g, A)
      BY <1>10, <2>2, <3>2
    <3>4. handed_out_socket_count' \in Int /\ active_socket_count'[g] \in Int
      BY <1>6, <3>1
    <3>5. /\ idle_socket_count' = idle_socket_count + Cardinality(A)
          /\ TotalSockets' = handed_out_socket_count' + connecting_socket_count'
                               + idle_socket_count + Cardinality(A)
          /\ NumActiveSocketSlots(g)' =
               active_socket_count'[g] + NumJobs(g)' + NumIdle(g) + Cardinality(A)
          /\ idle_sockets'[g] = idle_sockets[g] \union A
          /\ \A x \in Group : x # g => idle_sockets'[x] \subseteq idle_sockets[x]
      BY <1>11, <3>3, <3>4
    <3>6. /\ idle_socket_count' = idle_socket_count /\ TotalSockets' = TotalSockets
          /\ NumActiveSocketSlots(g)' = NumActiveSocketSlots(g)
      BY <1>6, <1>7, <1>9, <3>1, <3>3, <3>5
    <3>7. idle_sockets'[g] = idle_sockets[g]
      BY <3>2, <3>5
    <3>8. Drained => Drained'
      BY <3>6 DEF Drained, ReachedMaxSocketsLimit
    <3>9. CanUseAdditionalSocketSlot(g)' => CanUseAdditionalSocketSlot(g)
      BY <2>6, <3>6, CanUseInNumbers
    <3>10. Unwanted(g)'
      BY <1>8, <2>6, <3>7 DEF Unwanted
    <3>11. \A x \in Group : x # g => LeavesAlone(x) /\ NumWaiting(x)' = NumWaiting(x)
      BY <1>7, <2>5, <3>1, <3>5 DEF LeavesAlone
    <3>12. WakeInv'
      BY <1>0, <1>5, <2>7, <3>8, <3>9, <3>10, <3>11, StepOfGroup
    <3>13. GrowsWithin(g)
      BY <1>6, <3>6 DEF GrowsWithin
    <3> QED BY <1>0, <3>11, <3>12, <3>13, GroupWithin
  <2>9. CASE NoSocketHandedOut /\ frame' = Slot(g)
    <3>1. /\ handed_out_socket_count' = handed_out_socket_count
          /\ \A x \in Group : active_socket_count'[x] = active_socket_count[x]
      BY <1>6, <2>9 DEF NoSocketHandedOut, activeVars
    <3>2. PICK A : A = {}
      OBVIOUS
    <3>3. Cardinality(A) = 0 /\ A \subseteq Conn /\ A \intersect AllIdle = {}
          /\ UpdateIdle({}, g, A)
      BY <1>10, <2>2, <3>2
    <3>4. handed_out_socket_count' \in Int /\ active_socket_count'[g] \in Int
      BY <1>6, <3>1
    <3>5. /\ TotalSockets' = handed_out_socket_count' + connecting_socket_count'
                               + idle_socket_count + Cardinality(A)
          /\ NumActiveSocketSlots(g)' =
               active_socket_count'[g] + NumJobs(g)' + NumIdle(g) + Cardinality(A)
          /\ idle_sockets'[g] = idle_sockets[g] \union A
          /\ \A x \in Group : x # g => idle_sockets'[x] \subseteq idle_sockets[x]
      BY <1>11, <3>3, <3>4
    <3>6. TotalSockets' <= TotalSockets
      BY <1>6, <1>7, <1>9, <3>1, <3>3, <3>5
    <3>7. NumActiveSocketSlots(g)' <= NumActiveSocketSlots(g)
      BY <1>6, <1>7, <3>1, <3>3, <3>5
    <3>8. idle_sockets'[g] = idle_sockets[g]
      BY <3>2, <3>5
    <3>9. Unwanted(g)'
      BY <1>8, <2>6, <3>8 DEF Unwanted
    <3>10. \A x \in Group : x # g => LeavesAlone(x) /\ NumWaiting(x)' = NumWaiting(x)
      BY <1>7, <2>5, <3>1, <3>5 DEF LeavesAlone
    <3>11. frame'.at \in {"slot", "check"}
      BY <2>9, FrameFacts
    <3>12. WakeInv'
      BY <1>0, <1>5, <2>7, <3>9, <3>10, <3>11, StepOfGroup
    <3>13. GrowsWithin(g)
      BY <3>6, <3>7 DEF GrowsWithin
    <3> QED BY <1>0, <3>10, <3>12, <3>13, GroupWithin
  <2> QED BY <2>4, <2>8, <2>9
<1>13. CASE empty(pending_requests[g])
  <2>1. PICK A : A = IF result = "ok" THEN {c} ELSE {}
    OBVIOUS
  <2>2. /\ UpdateIdle({}, g, A) /\ NoSocketHandedOut /\ frame' = Slot(g)
        /\ UNCHANGED pending_requests
    BY <1>13, <2>1 DEF OnConnectJobComplete, requestVars
  <2>3. /\ A \subseteq Conn /\ A \intersect AllIdle = {}
        /\ Cardinality(A) \in {0, 1}
    BY <1>4, <1>10, <2>1, FS_Singleton
  <2>4. /\ handed_out_socket_count' = handed_out_socket_count
        /\ \A x \in Group : active_socket_count'[x] = active_socket_count[x]
    BY <2>2 DEF NoSocketHandedOut, activeVars
  <2>5. handed_out_socket_count' \in Int /\ active_socket_count'[g] \in Int
    BY <1>6, <2>4
  <2>6. /\ TotalSockets' = handed_out_socket_count' + connecting_socket_count'
                             + idle_socket_count + Cardinality(A)
        /\ NumActiveSocketSlots(g)' =
             active_socket_count'[g] + NumJobs(g)' + NumIdle(g) + Cardinality(A)
        /\ \A x \in Group : x # g => idle_sockets'[x] \subseteq idle_sockets[x]
    BY <1>11, <2>2, <2>3, <2>5
  <2>7. TotalSockets' <= TotalSockets
    BY <1>6, <1>7, <1>9, <2>3, <2>4, <2>6
  <2>8. NumActiveSocketSlots(g)' <= NumActiveSocketSlots(g)
    BY <1>6, <1>7, <2>3, <2>4, <2>6
  <2>9. NumWaiting(g)' = 0
    <3>1. size(pending_requests[g]) = 0
      BY <1>0, <1>13, EmptyHasNoValues DEF BookInv, BookTypes
    <3> QED BY <2>2, <3>1 DEF NumWaiting
  <2>10. NumJobs(g)' \in Nat
    BY <1>0, NextNumbers
  <2>11. Unwanted(g)'
    BY <2>9, <2>10 DEF Unwanted, Wants
  <2>12. Spare(g)'
    BY <1>6, <1>7, <2>9 DEF Spare
  <2>13. \A x \in Group : x # g => LeavesAlone(x) /\ NumWaiting(x)' = NumWaiting(x)
    BY <1>7, <2>2, <2>4, <2>6 DEF LeavesAlone, NumWaiting
  <2>14. frame'.at \in {"slot", "check"}
    BY <2>2, FrameFacts
  <2>15. WakeInv'
    BY <1>0, <1>5, <2>11, <2>12, <2>13, <2>14, StepOfGroup
  <2>16. GrowsWithin(g)
    BY <2>7, <2>8 DEF GrowsWithin
  <2> QED BY <1>0, <2>13, <2>15, <2>16, GroupWithin
<1> QED BY <1>12, <1>13

\* The backup job timer fires: a backup job is started only below both limits,
\* and then no request of the group wants a slot, or it would have got it.
LEMMA BackupJobTimerFiredWakes ==
  ASSUME WakeInv, NEW g \in Group, OnBackupJobTimerFired(g)
  PROVE  WakeInv' /\ Within
<1>0. BookInv /\ BookInv'
  BY BackupJobTimerFiredKeepsBooks DEF WakeInv
<1>1. frame = Ready /\ UNCHANGED <<pending_requests, idleVars, activeVars>>
  BY DEF OnBackupJobTimerFired, requestVars
<1>2. \A x \in Group : NumWaiting(x)' = NumWaiting(x)
  BY <1>1 DEF NumWaiting
<1>3. CASE UNCHANGED jobVars /\ frame' = frame
  BY <1>0, <1>1, <1>2, <1>3, SameNumbersWakes
<1>4. CASE /\ jobs[g] # {} /\ UnusedConn # {} /\ AddConnectJob(NewConn, g, FALSE)
           /\ frame' \in {Ready, Complete(g, NewConn)}
  <2>1. PICK c \in UnusedConn :
          AddConnectJob(c, g, FALSE) /\ frame' \in {Ready, Complete(g, c)}
    BY <1>4, NewConnIsUnused
  <2>2. PICK is_preconnect \in BOOLEAN :
          ~ is_preconnect /\ AddConnectJob(c, g, is_preconnect)
    BY <2>1
  <2>3. ~ ReachedMaxSocketsLimit /\ HasAvailableSocketSlot(g)
    BY <1>4 DEF OnBackupJobTimerFired
  <2>4. /\ NumJobs(g) \in Nat /\ NumWaiting(g) \in Nat /\ unassigned_job_count[g] \in Nat
        /\ active_socket_count[g] \in Nat /\ NumIdle(g) \in Nat
        /\ connecting_socket_count \in Nat /\ handed_out_socket_count \in Nat
        /\ idle_socket_count \in Nat /\ TotalSockets \in Nat
        /\ NumActiveSocketSlots(g) = active_socket_count[g] + NumJobs(g) + NumIdle(g)
        /\ max_sockets \in Nat /\ max_sockets_per_group \in Nat
    BY <1>0, PoolNumbers DEF TotalSockets
  <2>5. /\ connecting_socket_count' = connecting_socket_count + 1
        /\ NumJobs(g)' = NumJobs(g) + 1
        /\ unassigned_job_count'[g] = unassigned_job_count[g]
        /\ \A x \in Group : x # g => /\ jobs'[x] = jobs[x]
                                     /\ unassigned_job_count'[x] = unassigned_job_count[x]
    BY <1>0, <2>2, AddedJobNumbers
  <2>6. frame.at = "ready" /\ frame'.at \in {"ready", "complete"}
    BY <1>1, <2>1, FrameFacts DEF UnusedConn
  <2>7. Spare(g) /\ (CanUseAdditionalSocketSlot(g) => Drained)
    BY <2>6 DEF WakeInv, SpareJobs, StaysAwake, Awake
  <2>8. ~ Drained /\ ~ Wants(g)
    BY <2>3, <2>7, CanUseInNumbers DEF Drained, HasAvailableSocketSlot
  <2>9. NumWaiting(g)' = NumWaiting(g)
    BY <1>2
  <2>10. ~ Wants(g)'
    BY <2>4, <2>5, <2>8, <2>9 DEF Wants
  <2>11. Spare(g)'
    BY <2>4, <2>5, <2>7, <2>9 DEF Spare
  <2>12. UNCHANGED <<idle_sockets, idle_socket_count, active_socket_count,
                     handed_out_socket_count>>
    BY <1>1 DEF idleVars, activeVars
  <2>13. \A x \in Group : x # g => LeavesAlone(x) /\ NumWaiting(x)' = NumWaiting(x)
    BY <1>2, <2>5, <2>12 DEF LeavesAlone
  <2>14. Unwanted(g)' /\ ~ CanUseAdditionalSocketSlot(g)'
    BY <2>10, CanUseInNumbers DEF Unwanted
  <2>15. frame.at # "slot" /\ frame.at # "check"
    BY <2>6
  <2>16. WakeInv'
    BY <1>0, <2>8, <2>11, <2>13, <2>14, <2>15, StepOfGroup
  <2>17. TotalSockets' <= max_sockets
    <3>1. TotalSockets' = TotalSockets + 1
      BY <2>4, <2>5, <2>12 DEF TotalSockets
    <3>2. TotalSockets < max_sockets
      BY <2>3, <2>4 DEF ReachedMaxSocketsLimit
    <3> QED BY <2>4, <3>1, <3>2
  <2>18. NumActiveSocketSlots(g)' <= max_sockets_per_group
    <3>1. NumActiveSocketSlots(g)' = active_socket_count'[g] + NumJobs(g)' + NumIdle(g)'
      BY <1>0, NextNumbers
    <3>2. NumIdle(g)' = NumIdle(g) /\ active_socket_count'[g] = active_socket_count[g]
      BY <2>12 DEF NumIdle
    <3>3. NumActiveSocketSlots(g) < max_sockets_per_group
      BY <2>3 DEF HasAvailableSocketSlot
    <3> QED BY <2>4, <2>5, <3>1, <3>2, <3>3
  <2>19. GrowsWithin(g)
    BY <2>17, <2>18 DEF GrowsWithin
  <2> QED BY <1>0, <2>13, <2>16, <2>19, GroupWithin
<1> QED BY <1>3, <1>4 DEF OnBackupJobTimerFired

\* OnAvailableSocketSlot: the group serves its next request from the idle socket
\* it was offered, or from its free slot.
LEMMA AvailableSocketSlotWakes ==
  ASSUME WakeInv, OnAvailableSocketSlot
  PROVE  WakeInv' /\ (IgnoresLimits \/ Within)
<1>0. BookInv /\ BookInv'
  BY AvailableSocketSlotKeepsBooks DEF WakeInv
<1>1. PICK g : g = frame.group
  OBVIOUS
<1>2. g \in Group /\ frame' = Check /\ frame.at = "slot"
  BY <1>0, <1>1 DEF OnAvailableSocketSlot, BookInv, PoolInv, FrameHasGroup
<1>3. frame'.at = "check"
  BY <1>2, FrameFacts
<1>4. StaysAwake'
  BY <1>3 DEF StaysAwake
<1>5. /\ \A x \in Group : x # g => Unwanted(x)
      /\ ~ Unwanted(g) => NumIdle(g) <= 1
      /\ \A x \in Group : Spare(x)
  BY <1>1, <1>2 DEF WakeInv, IdleIsUnwanted, SpareJobs
<1>6. /\ NumJobs(g) \in Nat /\ NumWaiting(g) \in Nat /\ unassigned_job_count[g] \in Nat
      /\ NumIdle(g) \in Nat
      /\ NumIdle(g) = 0 <=> idle_sockets[g] = {}
  BY <1>0, <1>2, PoolNumbers
<1>7. /\ NumIdle(g)' \in Nat
      /\ NumIdle(g)' = 0 <=> idle_sockets'[g] = {}
  BY <1>0, <1>2, NextNumbers
<1>8. CASE /\ ~ empty(pending_requests[g])
           /\ idle_sockets[g] # {} \/ CanUseAdditionalSocketSlot(g)
  <2>1. ProcessPendingRequest(g)
    BY <1>1, <1>8 DEF OnAvailableSocketSlot
  <2>2. PICK h : h = NextPendingRequest(g)
    OBVIOUS
  <2>3. h \in Handle /\ h \in Values(pending_requests[g]) /\ h # None
    BY <1>0, <1>2, <1>8, <2>2, NextIsInQueue, ConstantsAssumption DEF BookInv
  <2>4. PICK D, rv :
          /\ D \in SUBSET idle_sockets[g] /\ rv \in Outcome
          /\ RequestSocketInternal(g, h, D, rv)
          /\ IF rv = "io_pending"
               THEN UNCHANGED requestVars
               ELSE pending_requests' =
                      [pending_requests EXCEPT ![g] = Erase(pending_requests[g], h)]
    BY <2>1, <2>2 DEF ProcessPendingRequest
  <2>5. D \subseteq AllIdle /\ h \in Handle \union {None}
    BY <1>2, <2>3, <2>4 DEF AllIdle
  <2>6. /\ \A x \in Group : x # g => LeavesAlone(x)
        /\ GrowsWithin(g) \/ Ignored(g, h, rv)
        /\ \/ TakesIdle(g, h, rv)
           \/ TakesSpare(g, h, rv)
           \/ HasToWait(g, h, D, rv)
           \/ GetsNew(g, h, D, rv)
    BY <1>0, <1>2, <2>4, <2>5, RequestInNumbers
  <2>7. /\ NumWaiting(g)' = IF rv = "io_pending" THEN NumWaiting(g) ELSE NumWaiting(g) - 1
        /\ \A x \in Group : x # g => NumWaiting(x)' = NumWaiting(x)
    <3>1. CASE rv = "io_pending"
      BY <2>4, <3>1 DEF NumWaiting, requestVars
    <3>2. CASE rv # "io_pending"
      <4>1. BookTypes /\ QueuesHoldOnce
        BY <1>0 DEF BookInv
      <4>2. pending_requests' =
              [pending_requests EXCEPT ![g] = Erase(pending_requests[g], h)]
        BY <2>4, <3>2
      <4>3. /\ size(pending_requests'[g]) = size(pending_requests[g]) - 1
            /\ \A x \in Group : x # g => pending_requests'[x] = pending_requests[x]
        BY <1>2, <2>3, <4>1, <4>2, ErasedFromQueue
      <4> QED BY <3>2, <4>3 DEF NumWaiting
    <3> QED BY <3>1, <3>2
  <2>8. \A x \in Group : x # g => Unwanted(x)' /\ Spare(x)'
    BY <1>0, <1>5, <2>6, <2>7, LeftAlone
  <2>9. Unwanted(g)' /\ Spare(g)'
    <3>1. CASE TakesIdle(g, h, rv)
      <4>1. /\ NumWaiting(g)' = NumWaiting(g) - 1 /\ NumJobs(g)' = NumJobs(g)
            /\ NumIdle(g)' < NumIdle(g)
            /\ unassigned_job_count'[g] = unassigned_job_count[g]
            /\ idle_sockets[g] # {}
        BY <2>7, <3>1 DEF TakesIdle
      <4>2. Spare(g)'
        BY <1>2, <1>5, <1>6, <4>1 DEF Spare
      <4>3. CASE Unwanted(g)
        BY <1>6, <4>1, <4>2, <4>3 DEF Unwanted, Wants
      <4>4. CASE ~ Unwanted(g)
        <5>1. idle_sockets'[g] = {}
          BY <1>5, <1>6, <1>7, <4>1, <4>4
        <5> QED BY <4>2, <5>1 DEF Unwanted
      <4> QED BY <4>3, <4>4
    <3>2. CASE TakesSpare(g, h, rv)
      <4>1. /\ NumWaiting(g)' = NumWaiting(g) /\ NumJobs(g)' = NumJobs(g)
            /\ unassigned_job_count[g] > 0
            /\ unassigned_job_count'[g] = unassigned_job_count[g] - 1
            /\ idle_sockets'[g] = {}
        BY <2>7, <3>2 DEF TakesSpare
      <4>2. Spare(g)'
        BY <1>2, <1>5, <1>6, <4>1 DEF Spare
      <4> QED BY <4>1, <4>2 DEF Unwanted
    <3>3. CASE HasToWait(g, h, D, rv)
      BY <2>3, <3>3 DEF HasToWait, Unwanted, Spare
    <3>4. CASE GetsNew(g, h, D, rv)
      BY <2>3, <3>4 DEF GetsNew, Unwanted, Spare
    <3> QED BY <2>6, <3>1, <3>2, <3>3, <3>4
  <2>10. IdleIsUnwanted' /\ SpareJobs'
    BY <2>8, <2>9 DEF IdleIsUnwanted, SpareJobs
  <2>11. WakeInv'
    BY <1>0, <1>4, <2>10 DEF WakeInv
  <2>12. CASE Ignored(g, h, rv)
    BY <1>1, <1>2, <1>8, <2>2, <2>11, <2>12 DEF Ignored, IgnoresLimits
  <2>13. CASE GrowsWithin(g)
    BY <1>0, <1>2, <2>6, <2>7, <2>11, <2>13, GroupWithin
  <2> QED BY <2>6, <2>12, <2>13
<1>9. CASE ~ (/\ ~ empty(pending_requests[g])
              /\ idle_sockets[g] # {} \/ CanUseAdditionalSocketSlot(g))
  <2>1. UNCHANGED <<requestVars, idleVars, jobVars, activeVars>>
    BY <1>1, <1>9 DEF OnAvailableSocketSlot
  <2>2. UNCHANGED <<pending_requests, idle_sockets, idle_socket_count, jobs,
                    unassigned_job_count, connecting_socket_count,
                    active_socket_count, handed_out_socket_count>>
    BY <2>1 DEF requestVars, idleVars, jobVars, activeVars
  <2>3. Unwanted(g)
    <3>1. CASE empty(pending_requests[g])
      <4>1. NumWaiting(g) = 0
        BY <1>0, <1>2, <3>1, EmptyHasNoValues DEF BookInv, BookTypes, NumWaiting
      <4> QED BY <1>6, <4>1 DEF Unwanted, Wants
    <3>2. CASE idle_sockets[g] = {}
      BY <3>2 DEF Unwanted
    <3> QED BY <1>9, <3>1, <3>2
  <2>4. \A x \in Group : Unwanted(x)' /\ Spare(x)'
    <3>1. \A x \in Group : LeavesAlone(x) /\ NumWaiting(x)' = NumWaiting(x)
      BY <2>2 DEF LeavesAlone, NumWaiting
    <3> QED BY <1>0, <1>2, <1>5, <2>3, <3>1, LeftAlone
  <2>5. IdleIsUnwanted' /\ SpareJobs'
    BY <2>4 DEF IdleIsUnwanted, SpareJobs
  <2>6. WakeInv'
    BY <1>0, <1>4, <2>5 DEF WakeInv
  <2>7. TotalSockets' <= TotalSockets
    BY <1>0, <2>2, PoolNumbers DEF TotalSockets
  <2>8. \A x \in Group : NumActiveSocketSlots(x)' <= NumActiveSocketSlots(x)
    <3>1. \A x \in Group : NumActiveSocketSlots(x)' = NumActiveSocketSlots(x)
      BY <2>2 DEF NumActiveSocketSlots
    <3> QED BY <1>0, <3>1, PoolNumbers
  <2> QED BY <1>0, <2>6, <2>7, <2>8, NoneAdded
<1> QED BY <1>8, <1>9

\* An iteration of CheckForStalledSocketGroups: it ends only when no group is
\* stalled, or when there is no slot to give.
LEMMA CheckForStalledWakes ==
  ASSUME WakeInv, CheckForStalledSocketGroups
  PROVE  WakeInv' /\ Within
<1>0. BookInv /\ BookInv'
  BY CheckForStalledKeepsBooks DEF WakeInv
<1>1. /\ frame.at = "check" /\ frame.at # "slot"
      /\ OnlyIdleSocketsChange
  BY DEF CheckForStalledSocketGroups
<1>2. TopStalledGroups \subseteq Group
  BY <1>0 DEF TopStalledGroups, StalledGroups, BookInv, PoolInv
<1>3. ASSUME NEW g \in Group, NEW c \in idle_sockets[g], CloseIdleSocket(c, g),
             frame'.at \in {"slot", "check"} \/ StalledGroups = {}
      PROVE  WakeInv' /\ Within
  <2>1. UpdateIdle({c}, g, {})
    BY <1>3 DEF CloseIdleSocket
  <2>2. {c} \subseteq AllIdle
    BY <1>3 DEF AllIdle
  <2>3. /\ WakeInv' /\ TotalSockets' <= TotalSockets
        /\ \A x \in Group : NumActiveSocketSlots(x)' <= NumActiveSocketSlots(x)
    BY <1>0, <1>1, <1>3, <2>1, <2>2, IdleGoneWakes
  <2> QED BY <1>0, <2>3, NoneAdded
<1>4. ASSUME UNCHANGED idleVars, frame'.at \in {"slot", "check"} \/ Awake
      PROVE  WakeInv' /\ Within
  <2>1. UNCHANGED <<pending_requests, idle_sockets, idle_socket_count, jobs,
                    unassigned_job_count, connecting_socket_count,
                    active_socket_count, handed_out_socket_count>>
    BY <1>1, <1>4 DEF OnlyIdleSocketsChange, requestVars, idleVars, jobVars, activeVars
  <2>2. \A x \in Group :
          /\ NumJobs(x)' = NumJobs(x) /\ NumIdle(x)' = NumIdle(x)
          /\ NumWaiting(x)' = NumWaiting(x)
          /\ NumActiveSocketSlots(x)' = NumActiveSocketSlots(x)
          /\ Wants(x)' <=> Wants(x)
    BY <2>1 DEF NumJobs, NumIdle, NumActiveSocketSlots, NumWaiting, Wants
  <2>3. /\ TotalSockets' = TotalSockets
        /\ Drained' <=> Drained
    BY <2>1 DEF TotalSockets, Drained, ReachedMaxSocketsLimit
  <2>4. \A x \in Group : Unwanted(x) /\ Spare(x)
    BY <1>1 DEF WakeInv, IdleIsUnwanted, SpareJobs
  <2>5. \A x \in Group : Unwanted(x)' /\ Spare(x)'
    BY <2>1, <2>2, <2>4 DEF Unwanted, Spare
  <2>6. IdleIsUnwanted' /\ SpareJobs'
    BY <2>5 DEF IdleIsUnwanted, SpareJobs
  <2>7. Awake => Awake'
    BY <2>2, <2>3, CanUseInNumbers DEF Awake
  <2>8. StaysAwake'
    BY <1>4, <2>7 DEF StaysAwake
  <2>9. WakeInv'
    BY <1>0, <2>6, <2>8 DEF WakeInv
  <2>10. TotalSockets' <= TotalSockets
    BY <1>0, <2>3, PoolNumbers DEF TotalSockets
  <2>11. \A x \in Group : NumActiveSocketSlots(x)' <= NumActiveSocketSlots(x)
    BY <1>0, <2>2, PoolNumbers
  <2> QED BY <1>0, <2>9, <2>10, <2>11, NoneAdded
<1>5. CASE \E top \in TopStalledGroups :
             /\ frame' = Slot(top)
             /\ \/ \E g \in Group : \E c \in idle_sockets[g] : CloseIdleSocket(c, g)
                \/ UNCHANGED idleVars
  <2>1. frame'.at = "slot"
    BY <1>2, <1>5, FrameFacts
  <2> QED BY <1>3, <1>4, <1>5, <2>1
<1>6. CASE /\ StalledGroups = {} \/ Drained
           /\ UNCHANGED idleVars
  <2>1. Awake
    <3>1. CASE Drained
      BY <3>1 DEF Awake
    <3>2. CASE StalledGroups = {}
      BY <1>0, <3>2, NoneStalled DEF Awake
    <3> QED BY <1>6, <3>1, <3>2
  <2> QED BY <1>4, <1>6, <2>1
<1>7. CASE /\ StalledGroups = {}
           /\ \E g \in Group : \E c \in idle_sockets[g] : CloseIdleSocket(c, g)
  BY <1>3, <1>7
<1> QED BY <1>5, <1>6, <1>7 DEF CheckForStalledSocketGroups, Drained

\* CloseIdleSockets, CloseIdleSocketsInGroup and CloseOneIdleSocket.
LEMMA CloseWakes ==
  ASSUME WakeInv,
         \/ CloseIdleSockets
         \/ \E g \in Group : CloseIdleSocketsInGroup(g)
         \/ CloseOneIdleSocket
  PROVE  WakeInv' /\ Within
<1>0. BookInv /\ BookInv'
  BY CloseKeepsBooks DEF WakeInv
<1>1. frame = Ready
  BY DEF CloseIdleSockets, CloseIdleSocketsInGroup, CloseOneIdleSocket
<1>2. frame.at # "slot" /\ frame.at # "check"
  BY <1>1, FrameFacts
<1>3. PICK g, D : D \subseteq AllIdle /\ UpdateIdle(D, g, {}) /\ OnlyIdleSocketsChange
  <2>1. CASE CloseIdleSockets
    BY <2>1 DEF CloseIdleSockets
  <2>2. CASE \E g \in Group : CloseIdleSocketsInGroup(g)
    <3>1. PICK g \in Group : CloseIdleSocketsInGroup(g)
      BY <2>2
    <3>2. idle_sockets[g] \subseteq AllIdle
      BY DEF AllIdle
    <3> QED BY <3>1, <3>2 DEF CloseIdleSocketsInGroup
  <2>3. CASE CloseOneIdleSocket
    <3>1. PICK g \in Group : \E c \in idle_sockets[g] : CloseIdleSocket(c, g)
      BY <2>3 DEF CloseOneIdleSocket
    <3>2. PICK c \in idle_sockets[g] : CloseIdleSocket(c, g)
      BY <3>1
    <3>3. {c} \subseteq AllIdle
      BY DEF AllIdle
    <3> QED BY <3>2, <3>3 DEF CloseIdleSocket
  <2> QED BY <2>1, <2>2, <2>3
<1>4. /\ WakeInv' /\ TotalSockets' <= TotalSockets
      /\ \A x \in Group : NumActiveSocketSlots(x)' <= NumActiveSocketSlots(x)
  BY <1>0, <1>2, <1>3, IdleGoneWakes
<1> QED BY <1>0, <1>4, NoneAdded

\* FlushWithError: nothing waits any more.
LEMMA FlushWakes ==
  ASSUME WakeInv, FlushWithError
  PROVE  WakeInv' /\ Within
<1>0. BookInv /\ BookInv'
  BY FlushKeepsBooks DEF WakeInv
<1>1. /\ jobs' = [g \in Group |-> {}]
      /\ unassigned_job_count' = [g \in Group |-> 0]
      /\ pending_requests' = [g \in Group |-> EmptyQueue(Priority)]
      /\ connecting_socket_count' = connecting_socket_count - Cardinality(AllJobs)
      /\ UpdateIdle(AllIdle, None, {})
      /\ UNCHANGED <<active_socket_count, handed_out_socket_count>>
  BY DEF FlushWithError, CancelAllConnectJobs, RemoveAllJobs, CancelAllRequestsWithError
<1>2. ConnTypes
  BY <1>0 DEF BookInv, PoolInv, ConnInv
<1>3. Cardinality({}) = 0
  BY FS_EmptySet
<1>4. size(EmptyQueue(Priority)) = 0
  <2>1. Values(EmptyQueue(Priority)) = {}
    BY EmptyQueueProperties
  <2> QED BY <1>3, <2>1 DEF size
<1>5. \A x \in Group : NumWaiting(x)' = 0 /\ NumJobs(x)' = 0 /\ unassigned_job_count'[x] = 0
  BY <1>1, <1>3, <1>4 DEF NumWaiting, NumJobs
<1>6. \A x \in Group : ~ Wants(x)' /\ Spare(x)'
  BY <1>5 DEF Wants, Spare
<1>7. \A x \in Group : Unwanted(x)' /\ ~ CanUseAdditionalSocketSlot(x)'
  BY <1>6, CanUseInNumbers DEF Unwanted
<1>8. WakeInv'
  BY <1>0, <1>6, <1>7 DEF WakeInv, IdleIsUnwanted, SpareJobs, StaysAwake, Awake
<1>9. /\ Cardinality(AllJobs) \in Nat /\ Cardinality(AllIdle) \in Nat
      /\ connecting_socket_count \in Nat /\ handed_out_socket_count \in Nat
      /\ idle_socket_count \in Nat
  BY <1>0, <1>2, ConnsAreFinite, FS_CardinalityType, PoolNumbers
<1>10. TotalSockets' <= TotalSockets
  <2>1. idle_socket_count' = idle_socket_count - Cardinality(AllIdle) + Cardinality({})
    BY <1>1 DEF UpdateIdle
  <2>2. idle_socket_count' = idle_socket_count - Cardinality(AllIdle)
    BY <1>3, <1>9, <2>1
  <2> QED BY <1>1, <1>9, <2>2 DEF TotalSockets
<1>11. \A x \in Group : NumActiveSocketSlots(x)' <= NumActiveSocketSlots(x)
  <2> SUFFICES ASSUME NEW x \in Group
               PROVE  NumActiveSocketSlots(x)' <= NumActiveSocketSlots(x)
    OBVIOUS
  <2>1. idle_sockets'[x] = {}
    <3>1. idle_sockets'[x] = idle_sockets[x] \ AllIdle
      BY <1>1, <1>2, ConstantsAssumption, IdleAfter
    <3>2. idle_sockets[x] \subseteq AllIdle
      BY DEF AllIdle
    <3> QED BY <3>1, <3>2
  <2>2. NumIdle(x)' = 0 /\ NumJobs(x)' = 0
    BY <1>3, <1>5, <2>1 DEF NumIdle
  <2>3. NumActiveSocketSlots(x)' = active_socket_count'[x] + NumJobs(x)' + NumIdle(x)'
    BY <1>0, NextNumbers
  <2>4. /\ active_socket_count[x] \in Nat /\ NumJobs(x) \in Nat /\ NumIdle(x) \in Nat
        /\ NumActiveSocketSlots(x) = active_socket_count[x] + NumJobs(x) + NumIdle(x)
    BY <1>0, PoolNumbers
  <2> QED BY <1>1, <2>2, <2>3, <2>4
<1> QED BY <1>0, <1>8, <1>10, <1>11, NoneAdded

-----------------------------------------------------------------------------
\* A pool that was just made has nothing to wake up.
LEMMA InitWakeInv == Init => WakeInv
<1> SUFFICES ASSUME Init PROVE WakeInv
  OBVIOUS
<1>1. BookInv
  BY InitBookInv
<1>2. Cardinality({}) = 0
  BY FS_EmptySet
<1>3. size(EmptyQueue(Priority)) = 0
  <2>1. Values(EmptyQueue(Priority)) = {}
    BY EmptyQueueProperties
  <2> QED BY <1>2, <2>1 DEF size
<1>4. \A x \in Group : NumWaiting(x) = 0 /\ NumJobs(x) = 0 /\ unassigned_job_count[x] = 0
  BY <1>2, <1>3 DEF Init, NumWaiting, NumJobs
<1>5. \A x \in Group : ~ Wants(x) /\ Spare(x)
  BY <1>4 DEF Wants, Spare
<1>6. \A x \in Group : Unwanted(x) /\ ~ CanUseAdditionalSocketSlot(x)
  BY <1>5, CanUseInNumbers DEF Unwanted
<1> QED
  BY <1>1, <1>5, <1>6 DEF WakeInv, IdleIsUnwanted, SpareJobs, StaysAwake, Awake

\* Every step keeps the invariant, and the limits unless it serves a request
\* that ignores them.
LEMMA NextWakeInv == WakeInv /\ [Next]_vars => WakeInv' /\ (IgnoresLimits \/ Within)
<1> SUFFICES ASSUME WakeInv, [Next]_vars PROVE WakeInv' /\ (IgnoresLimits \/ Within)
  OBVIOUS
<1>1. CASE \E h \in Handle, g \in Group, p \in Priority : RequestSocket(h, g, p)
  BY <1>1, RequestSocketWakes
<1>2. CASE \E g \in Group, n \in 1 .. max_sockets_per_group : RequestSockets(g, n)
  BY <1>2, RequestSocketsWakes
<1>3. CASE PreconnectOne
  BY <1>3, PreconnectOneWakes
<1>4. CASE PreconnectDone
  BY <1>4, PreconnectDoneWakes
<1>5. CASE \E h \in Handle : ResetInitialized(h)
  BY <1>5, ResetInitializedWakes
<1>6. CASE \E h \in Handle : CancelCallback(h)
  BY <1>6, CancelCallbackWakes
<1>7. CASE \E h \in Handle : CancelPending(h)
  BY <1>7, CancelPendingWakes
<1>8. CASE \E h \in Handle : InvokeUserCallback(h)
  BY <1>8, InvokeUserCallbackWakes
<1>9. CASE \E h \in Handle : \E p \in Priority : SetPriority(h, p)
  BY <1>9, SetPriorityWakes
<1>10. CASE \E g \in Group : \E c \in jobs[g] :
              \E result \in Result, with_socket \in BOOLEAN :
                OnConnectJobComplete(g, c, result, with_socket)
  BY <1>10, ConnectJobCompleteWakes
<1>11. CASE \E g \in Group : OnBackupJobTimerFired(g)
  BY <1>11, BackupJobTimerFiredWakes
<1>12. CASE OnAvailableSocketSlot
  BY <1>12, AvailableSocketSlotWakes
<1>13. CASE CheckForStalledSocketGroups
  BY <1>13, CheckForStalledWakes
<1>14. CASE FlushWithError
  BY <1>14, FlushWakes
<1>15. CASE \/ CloseIdleSockets
            \/ \E g \in Group : CloseIdleSocketsInGroup(g)
            \/ CloseOneIdleSocket
  BY <1>15, CloseWakes
<1>16. CASE UNCHANGED vars
  <2>1. BookInv'
    BY NextBookInv DEF WakeInv
  <2>2. UNCHANGED <<idleVars, jobVars, activeVars>> /\ UNCHANGED <<requestVars, frame>>
    BY <1>16 DEF vars
  <2>3. \A x \in Group : NumWaiting(x)' = NumWaiting(x)
    BY <2>2 DEF NumWaiting, requestVars
  <2>4. frame' = frame
    BY <2>2
  <2> QED BY <2>1, <2>2, <2>3, <2>4, SameNumbersWakes
<1> QED
  BY <1>1, <1>2, <1>3, <1>4, <1>5, <1>6, <1>7, <1>8, <1>9, <1>10, <1>11,
     <1>12, <1>13, <1>14, <1>15, <1>16 DEF Next

\* The invariant holds in every state of the pool.
THEOREM WakeInvariant == Spec => []WakeInv
BY InitWakeInv, NextWakeInv, PTL DEF Spec

\* No wakeup is lost: when a call into the pool returns, a group that has room
\* and more requests than jobs waits only because every slot of the pool is
\* connecting or handed out.  For any number of groups, handles and priorities
\* and any limits.
THEOREM NoWakeupIsLost == Spec => []NoLostWakeup
<1>1. WakeInv => NoLostWakeup
  <2> SUFFICES ASSUME WakeInv, frame = Ready PROVE Awake
    BY DEF NoLostWakeup, Awake, Drained, WakeInv, BookInv, PoolInv
  <2>1. frame.at = "ready"
    BY FrameFacts
  <2> QED BY <2>1 DEF WakeInv, StaysAwake
<1> QED BY <1>1, WakeInvariant, PTL

\* The counters are exact and the jobs counted as unassigned are spare: the
\* first half of this is the DCHECK of Group::SanityCheck, the second is what
\* TryToUseUnassignedConnectJob counts on.
THEOREM ExactBooks == Spec => []BooksAreExact
<1>1. WakeInv => CountersAreExact
  BY DEF WakeInv, BookInv, IdleCount, JobCount, HolderCount, Holders, HoldersIn,
         CountersAreExact
<1>2. WakeInv => UnassignedJobsAreSpare
  BY DEF WakeInv, BookInv, UnassignedBound, SpareJobs, Spare, NumWaiting, NumJobs,
         UnassignedJobsAreSpare
<1>3. WakeInv => BooksAreExact
  BY <1>1, <1>2 DEF BooksAreExact
<1> QED BY <1>3, WakeInvariant, PTL

\* The number of sockets, in all and in each group, grows past its limit only
\* for a request that asked to ignore the limits.
THEOREM RespectedLimits == Spec => LimitsAreRespected
<1>1. WakeInv /\ [Next]_vars =>
        [IgnoresLimits
         \/ /\ TotalSockets' > TotalSockets => TotalSockets' <= max_sockets
            /\ \A g \in Group :
                 NumActiveSocketSlots(g)' > NumActiveSocketSlots(g) =>
                   NumActiveSocketSlots(g)' <= max_sockets_per_group]_vars
  BY NextWakeInv DEF Within
<1> QED BY <1>1, WakeInvariant, PTL DEF Spec, LimitsAreRespected
=============================================================================
