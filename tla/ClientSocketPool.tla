-------------------------- MODULE ClientSocketPool --------------------------
(***************************************************************************)
(* socket/client_socket_pool_base.{h,cc}, class ClientSocketPoolBaseHelper,*)
(* with the ClientSocketHandles of its clients                             *)
(* (socket/client_socket_handle.{h,cc}).                                   *)
(*                                                                         *)
(* The pool hands out connected sockets to handles, per group, within a    *)
(* total limit and a limit per group.  It keeps released sockets idle for  *)
(* reuse, runs ConnectJobs, queues the requests it cannot serve, and wakes *)
(* them up when a slot becomes free.                                       *)
(*                                                                         *)
(* Everything runs on one thread.  A call into the pool that loops or that *)
(* calls further methods after it changed the state is split into steps;   *)
(* frame says what is left to do of the call that is on the stack, and a   *)
(* new call, task or timer starts only when nothing is (Ready).            *)
(*                                                                         *)
(* A ConnectJob and the socket it yields are one member of Conn.  Time is  *)
(* abstracted: whether an idle socket has timed out or was closed by its   *)
(* peer, and how and when a ConnectJob ends, are nondeterministic.         *)
(***************************************************************************)
EXTENDS PriorityQueue

CONSTANTS
  Group,              \* the group names
  Handle,             \* the ClientSocketHandles
  Conn,               \* identities for ConnectJobs and their sockets; a bound
  None,               \* a null pointer, an empty group name
  NumPriorities,      \* NUM_PRIORITIES
  IgnoreLimits,       \* the handles that ask with RespectLimits::DISABLED
  max_sockets,        \* max_sockets_
  max_sockets_per_group,
  BackupJobs,         \* connect_backup_jobs_enabled_
  HasLowerPool,       \* whether lower_pools_ is non-empty
  MaxGeneration,      \* bound: how often the pool is flushed
  MaxTasks            \* bound: posted callback tasks per handle

\* The constructor DCHECKs 0 <= max_sockets_per_group <= max_sockets.
ASSUME LimitsAssumption ==
  /\ max_sockets \in Nat
  /\ max_sockets_per_group \in 0 .. max_sockets

ASSUME ConstantsAssumption ==
  /\ NumPriorities \in Nat \ {0}
  /\ IgnoreLimits \subseteq Handle
  /\ BackupJobs \in BOOLEAN
  /\ HasLowerPool \in BOOLEAN
  /\ MaxGeneration \in Nat
  /\ MaxTasks \in Nat
  /\ None \notin Group \union Handle \union Conn \union {"ok", "error"}
  /\ IsFiniteSet(Conn)

Priority == 0 .. NumPriorities - 1

MAXIMUM_PRIORITY == NumPriorities - 1

VARIABLES
  \* ClientSocketPoolBaseHelper
  group_map,                \* the groups that exist
  pending_callback_map,     \* per handle: None, or the result to report
  tasks,                    \* per handle: posted InvokeUserCallback tasks
  idle_socket_count,
  connecting_socket_count,
  handed_out_socket_count,
  pool_generation_number,
  \* Group, per group name
  pending_requests,         \* the queue of handles that wait
  jobs,                     \* the ConnectJobs
  unassigned_job_count,
  idle_sockets,
  active_socket_count,
  backup_job_timer,         \* the groups whose timer runs
  \* ClientSocketHandle, per handle
  group_name,
  socket,
  pool_id,
  is_initialized,
  \* the call on the stack
  frame,
  \* the generation in which a connection was started (history)
  born

requestVars == <<pending_requests, pending_callback_map, tasks>>
idleVars == <<idle_sockets, idle_socket_count>>
jobVars == <<jobs, unassigned_job_count, connecting_socket_count>>
activeVars == <<active_socket_count, handed_out_socket_count>>
handleVars == <<group_name, socket, pool_id, is_initialized>>
vars == <<group_map, requestVars, idleVars, jobVars, activeVars, handleVars,
          backup_job_timer, pool_generation_number, frame, born>>

-----------------------------------------------------------------------------
\* Frames: nothing on the stack; OnAvailableSocketSlot(g) and then
\* CheckForStalledSocketGroups; the loop of CheckForStalledSocketGroups; the
\* loop of RequestSockets; OnConnectJobComplete of a backup job whose Connect
\* completed synchronously.
Ready == [at |-> "ready", group |-> None, job |-> None, num |-> 0, left |-> 0]
Slot(g) == [Ready EXCEPT !.at = "slot", !.group = g]
Check == [Ready EXCEPT !.at = "check"]
Preconnect(g, n, left) ==
  [Ready EXCEPT !.at = "preconnect", !.group = g, !.num = n, !.left = left]
Complete(g, c) == [Ready EXCEPT !.at = "complete", !.group = g, !.job = c]

Frames ==
  [at : {"ready", "slot", "check", "preconnect", "complete"},
   group : Group \union {None}, job : Conn \union {None},
   num : Nat, left : Nat]

\* The results a request can be told asynchronously: OK or an error.
Result == {"ok", "error"}

AllIdle == UNION {idle_sockets[g] : g \in Group}

AllJobs == UNION {jobs[g] : g \in Group}

HandedOut == {socket[h] : h \in Handle} \ {None}

\* A connection identity that is not in use.
UnusedConn == Conn \ (AllIdle \union AllJobs \union HandedOut)

NewConn == CHOOSE c \in UnusedConn : TRUE

\* Mutant of IsEmpty that forgets the ConnectJobs.
IsEmptyButForJobs(g) ==
  /\ active_socket_count[g] = 0
  /\ idle_sockets[g] = {}
  /\ empty(pending_requests[g])

\* Group::IsEmpty.
IsEmpty(g) ==
  /\ active_socket_count[g] = 0
  /\ idle_sockets[g] = {}
  /\ jobs[g] = {}
  /\ empty(pending_requests[g])

\* Group::NumActiveSocketSlots.
NumActiveSocketSlots(g) ==
  active_socket_count[g] + Cardinality(jobs[g]) + Cardinality(idle_sockets[g])

\* Mutant of HasAvailableSocketSlot: off by one.
HasSlotOffByOne(g) == NumActiveSocketSlots(g) <= max_sockets_per_group

HasAvailableSocketSlot(g) == NumActiveSocketSlots(g) < max_sockets_per_group

\* Group::CanUseAdditionalSocketSlot.
CanUseAdditionalSocketSlot(g) ==
  /\ HasAvailableSocketSlot(g)
  /\ size(pending_requests[g]) > Cardinality(jobs[g])

TotalSockets ==
  handed_out_socket_count + connecting_socket_count + idle_socket_count

\* Mutant of ReachedMaxSocketsLimit: off by one.
ExceededMaxSocketsLimit == TotalSockets > max_sockets

ReachedMaxSocketsLimit == TotalSockets >= max_sockets

\* Group::TopPendingPriority.
TopPendingPriority(g) == Max(NonEmpty(pending_requests[g]))

\* Group::InsertPendingRequest.
InsertPendingRequest(q, h, p) ==
  IF h \in IgnoreLimits THEN InsertAtFront(q, h, p) ELSE Insert(q, h, p)

\* The handles a ConnectJob result or a free slot goes to: PopNextPendingRequest.
NextPendingRequest(g) == FirstMax(pending_requests[g])

-----------------------------------------------------------------------------
\* The constructor.
Init ==
  /\ group_map = {}
  /\ pending_callback_map = [h \in Handle |-> None]
  /\ tasks = [h \in Handle |-> 0]
  /\ idle_socket_count = 0
  /\ connecting_socket_count = 0
  /\ handed_out_socket_count = 0
  /\ pool_generation_number = 0
  /\ pending_requests = [g \in Group |-> EmptyQueue(Priority)]
  /\ jobs = [g \in Group |-> {}]
  /\ unassigned_job_count = [g \in Group |-> 0]
  /\ idle_sockets = [g \in Group |-> {}]
  /\ active_socket_count = [g \in Group |-> 0]
  /\ backup_job_timer = {}
  /\ group_name = [h \in Handle |-> None]
  /\ socket = [h \in Handle |-> None]
  /\ pool_id = [h \in Handle |-> -1]
  /\ is_initialized = [h \in Handle |-> FALSE]
  /\ frame = Ready
  /\ born = [c \in Conn |-> 0]

\* HandOutSocket.
HandOutSocket(c, h, g) ==
  /\ socket' = [socket EXCEPT ![h] = c]
  /\ pool_id' = [pool_id EXCEPT ![h] = pool_generation_number]
  /\ handed_out_socket_count' = handed_out_socket_count + 1
  /\ active_socket_count' = [active_socket_count EXCEPT ![g] = @ + 1]

NoSocketHandedOut == UNCHANGED <<activeVars, socket, pool_id>>

\* The idle sockets in D are deleted, and added becomes idle in g.
UpdateIdle(D, g, added) ==
  /\ idle_sockets' = [x \in Group |->
        IF x = g THEN (idle_sockets[x] \ D) \union added
                 ELSE idle_sockets[x] \ D]
  /\ idle_socket_count' =
        idle_socket_count - Cardinality(D) + Cardinality(added)

OnlyIdleSocketsChange ==
  UNCHANGED <<requestVars, jobVars, activeVars, handleVars, backup_job_timer,
              pool_generation_number, born>>

\* AddJob and the count of connecting sockets.
AddConnectJob(c, g, is_preconnect) ==
  /\ jobs' = [jobs EXCEPT ![g] = @ \union {c}]
  /\ connecting_socket_count' = connecting_socket_count + 1
  /\ unassigned_job_count' =
        [unassigned_job_count EXCEPT ![g] = IF is_preconnect THEN @ + 1 ELSE @]

\* Mutant of UnassignedAfterRemoval: the count is left as it is.
UnassignedUnclamped(c, g) == unassigned_job_count[g]

\* Group::RemoveJob: there are no more unassigned jobs than jobs.
UnassignedAfterRemoval(c, g) ==
  Min({unassigned_job_count[g], Cardinality(jobs[g] \ {c})})

\* Group::RemoveJob; StopTimer has its effect on the timer.
RemoveJob(c, g) ==
  /\ jobs' = [jobs EXCEPT ![g] = @ \ {c}]
  /\ unassigned_job_count' =
        [unassigned_job_count EXCEPT ![g] = UnassignedAfterRemoval(c, g)]

RemoveConnectJob(c, g) ==
  /\ connecting_socket_count' = connecting_socket_count - 1
  /\ RemoveJob(c, g)

\* Mutant of StopTimer: the end of the last job does not stop the timer.
StopTimerForRequests(g, job_removed, request_removed) ==
  backup_job_timer' =
    IF request_removed /\ empty(pending_requests'[g])
      THEN backup_job_timer \ {g}
      ELSE backup_job_timer

\* RemoveJob stops the backup job timer of a group without jobs, and
\* RemovePendingRequest the one of a group without requests.
StopTimer(g, job_removed, request_removed) ==
  backup_job_timer' =
    IF \/ job_removed /\ jobs'[g] = {}
       \/ request_removed /\ empty(pending_requests'[g])
      THEN backup_job_timer \ {g}
      ELSE backup_job_timer

\* StartBackupJobTimer: a ConnectJob was added to a group that had nothing.
StartTimer(g) ==
  backup_job_timer' =
    IF /\ BackupJobs
       /\ jobs[g] = {} /\ jobs'[g] # {}
       /\ active_socket_count[g] = 0
       /\ idle_sockets'[g] = {}
       /\ empty(pending_requests[g])
      THEN backup_job_timer \union {g}
      ELSE backup_job_timer

\* InvokeUserCallbackLater.
InvokeUserCallbackLater(h, result) ==
  /\ pending_callback_map' = [pending_callback_map EXCEPT ![h] = result]
  /\ tasks' = [tasks EXCEPT ![h] = @ + 1]

\* Group::TryToUseUnassignedConnectJob, when there is one.
TryToUseUnassignedConnectJob(g) ==
  /\ unassigned_job_count[g] > 0
  /\ unassigned_job_count' = [unassigned_job_count EXCEPT ![g] = @ - 1]

\* Mutant of AssignIdleSocketToRequest: the socket stays in the list.
AssignIdleSocketAndKeepIt(c, h, g, D) ==
  /\ HandOutSocket(c, h, g)
  /\ UpdateIdle(D, g, {})

\* AssignIdleSocketToRequest, which deleted the unusable sockets in D and came
\* upon the usable socket c.
AssignIdleSocketToRequest(c, h, g, D) ==
  /\ HandOutSocket(c, h, g)
  /\ UpdateIdle(D \union {c}, g, {})

-----------------------------------------------------------------------------
(***************************************************************************)
(* RequestSocketInternal for the group g and the handle h, None for a      *)
(* preconnect, when the idle sockets in D turn out to be unusable.  rv is  *)
(* the outcome: "ok", "error", or "io_pending".  The caller updates the    *)
(* queue, the group map, the timers and the frame.                         *)
(***************************************************************************)
RequestSocketInternal(g, h, D, rv) ==
  LET preconnecting == h = None
      respects == h \notin IgnoreLimits
      usable == idle_sockets[g] \ D
      idle == idle_socket_count - Cardinality(D)
      slots == NumActiveSocketSlots(g) - Cardinality(idle_sockets[g] \intersect D)
      full == TotalSockets - Cardinality(D) >= max_sockets /\ respects
      elsewhere == (AllIdle \ D) \ idle_sockets[g]
      \* What CloseOneIdleSocketExceptInGroup may close.
      victims == IF full THEN {{c} : c \in elsewhere} ELSE {}
  IN
  \/ /\ ~ preconnecting
     /\ rv = "ok"
     /\ \E c \in usable : AssignIdleSocketToRequest(c, h, g, D)
     /\ UNCHANGED jobVars /\ UNCHANGED born
  \/ /\ ~ preconnecting /\ usable = {}
     /\ TryToUseUnassignedConnectJob(g)
     /\ rv = "io_pending"
     /\ UpdateIdle(D, g, {}) /\ NoSocketHandedOut
     /\ UNCHANGED <<jobs, connecting_socket_count, born>>
  \/ /\ preconnecting \/ (usable = {} /\ unassigned_job_count[g] = 0)
     /\ \* The group is full, or the pool is and has nothing idle to close.
        \/ /\ \/ slots >= max_sockets_per_group /\ respects
              \/ slots < max_sockets_per_group /\ full /\ idle = 0
           /\ rv = "io_pending"
           /\ UpdateIdle(D, g, {}) /\ NoSocketHandedOut /\ UNCHANGED jobVars
           /\ UNCHANGED born
        \* ERR_PRECONNECT_MAX_SOCKET_LIMIT: only this group has idle sockets.
        \/ /\ preconnecting
           /\ slots < max_sockets_per_group /\ full /\ idle > 0 /\ victims = {}
           /\ rv = "error"
           /\ UpdateIdle(D, g, {}) /\ NoSocketHandedOut /\ UNCHANGED jobVars
           /\ UNCHANGED born
        \* A new ConnectJob, in the place of an idle socket when the pool is
        \* full.
        \/ /\ slots < max_sockets_per_group \/ ~ respects
           /\ full => idle > 0
           /\ preconnecting /\ full => victims # {}
           /\ UnusedConn # {}
           /\ \E V \in (IF victims = {} THEN {{}} ELSE victims) :
                \* Connect() succeeds at once
                \/ /\ rv = "ok"
                   /\ \/ ~ preconnecting /\ HandOutSocket(NewConn, h, g)
                                         /\ UpdateIdle(D \union V, g, {})
                      \/ preconnecting /\ NoSocketHandedOut
                                       /\ UpdateIdle(D \union V, g, {NewConn})
                   /\ UNCHANGED jobVars
                   /\ born' = [born EXCEPT ![NewConn] = pool_generation_number]
                \* ... or is under way
                \/ /\ rv = "io_pending"
                   /\ AddConnectJob(NewConn, g, preconnecting)
                   /\ UpdateIdle(D \union V, g, {}) /\ NoSocketHandedOut
                   /\ born' = [born EXCEPT ![NewConn] = pool_generation_number]
                \* ... or fails, and the job may hand out a socket with the
                \* error
                \/ /\ rv = "error"
                   /\ \/ /\ ~ preconnecting /\ HandOutSocket(NewConn, h, g)
                         /\ born' = [born EXCEPT
                                       ![NewConn] = pool_generation_number]
                      \/ NoSocketHandedOut /\ UNCHANGED born
                   /\ UpdateIdle(D \union V, g, {}) /\ UNCHANGED jobVars

Outcome == Result \union {"io_pending"}

-----------------------------------------------------------------------------
\* CleanupIdleSockets(false) deletes the idle sockets that timed out or are
\* unusable, and the groups that are then empty; it looks at nothing when no
\* socket is idle.  g is the group the caller goes on with: it exists after
\* the cleanup, and stays unless it is empty in the end.
GroupsAfterCleanup(g) ==
  {x \in group_map \union {g} :
     ~ (IsEmpty(x)' /\ (x = g \/ idle_socket_count > 0))}

\* ClientSocketHandle::Init, RequestSocket and, when that does not return
\* ERR_IO_PENDING, HandleInitCompletion.
RequestSocket(h, g, p) ==
  /\ frame = Ready
  /\ group_name[h] = None
  /\ tasks[h] < MaxTasks
  /\ h \in IgnoreLimits => /\ p = MAXIMUM_PRIORITY
                          /\ Cardinality(UnusedConn) > 1   \* bound
  /\ \E D \in SUBSET AllIdle, rv \in Outcome :
       /\ RequestSocketInternal(g, h, D, rv)
       /\ pending_requests' =
            IF rv = "io_pending"
              THEN [pending_requests EXCEPT ![g] = InsertPendingRequest(@, h, p)]
              ELSE pending_requests
       /\ group_name' =
            [group_name EXCEPT ![h] =
               IF rv = "error" /\ socket'[h] = None THEN None ELSE g]
       /\ is_initialized' =
            [is_initialized EXCEPT ![h] = rv # "io_pending" /\ socket'[h] # None]
  /\ StartTimer(g)
  /\ group_map' = GroupsAfterCleanup(g)
  /\ UNCHANGED <<pending_callback_map, tasks, pool_generation_number, frame>>

\* RequestSockets, a preconnect, up to its loop.
RequestSockets(g, num_sockets) ==
  /\ frame = Ready
  /\ \E D \in SUBSET AllIdle : UpdateIdle(D, g, {})
  /\ OnlyIdleSocketsChange
  /\ group_map' = {g} \union GroupsAfterCleanup(g)
  /\ LET n == Min({num_sockets, max_sockets_per_group})
     IN  frame' = Preconnect(g, n, n)

\* Mutant of PreconnectsMore: one iteration too many.
PreconnectsOnceMore ==
  NumActiveSocketSlots(frame.group) < frame.num /\ frame.left >= 0

\* The condition of its loop.
PreconnectsMore ==
  NumActiveSocketSlots(frame.group) < frame.num /\ frame.left > 0

\* One iteration of its loop; a synchronous error ends the loop.
PreconnectOne ==
  LET g == frame.group
  IN
  /\ frame.at = "preconnect"
  /\ PreconnectsMore
  /\ \E rv \in Outcome :
       /\ RequestSocketInternal(g, None, {}, rv)
       /\ frame' = IF rv = "error"
                     THEN [frame EXCEPT !.left = 0]
                     ELSE [frame EXCEPT !.left = @ - 1]
  /\ UNCHANGED pending_requests
  /\ StartTimer(g)
  /\ group_map' = {x \in group_map :
        IsEmpty(x)' => x = g \/ idle_sockets'[x] = idle_sockets[x]}
  /\ UNCHANGED <<pending_callback_map, tasks, group_name, is_initialized,
                 pool_generation_number>>

\* The end of RequestSockets: an empty group goes away.
PreconnectDone ==
  /\ frame.at = "preconnect"
  /\ ~ PreconnectsMore
  /\ group_map' = {x \in group_map : ~ (x = frame.group /\ IsEmpty(x))}
  /\ frame' = Ready
  /\ UNCHANGED <<requestVars, idleVars, jobVars, activeVars, handleVars,
                 backup_job_timer, pool_generation_number, born>>

-----------------------------------------------------------------------------
\* The handle forgets the pool: the end of ResetInternal.
ClearHandle(h) ==
  /\ group_name' = [group_name EXCEPT ![h] = None]
  /\ socket' = [socket EXCEPT ![h] = None]
  /\ pool_id' = [pool_id EXCEPT ![h] = -1]
  /\ is_initialized' = [is_initialized EXCEPT ![h] = FALSE]

\* Mutant of CanReuseSocket: the generation is not looked at.
CanReuseAnySocket(h, connected) == connected

\* ReleaseSocket keeps a socket that is still connected and of the pool's
\* current generation.
CanReuseSocket(h, connected) ==
  connected /\ pool_id[h] = pool_generation_number

\* Mutant of AfterRelease: the slot of a deleted socket is offered to nobody.
AfterReleaseNoCheck(g, can_reuse) == IF can_reuse THEN Slot(g) ELSE Ready

\* The calls at the end of ReleaseSocket.
AfterRelease(g, can_reuse) == IF can_reuse THEN Slot(g) ELSE Check

\* ReleaseSocket(group_name, socket, id), for the socket of h.
ReleaseSocket(h, connected) ==
  LET g == group_name[h]
      can_reuse == CanReuseSocket(h, connected)
  IN
  /\ g \in group_map
  /\ handed_out_socket_count' = handed_out_socket_count - 1
  /\ active_socket_count' = [active_socket_count EXCEPT ![g] = @ - 1]
  /\ UpdateIdle({}, g, IF can_reuse THEN {socket[h]} ELSE {})
  /\ frame' = AfterRelease(g, can_reuse)
  /\ UNCHANGED <<group_map, pending_requests, tasks, jobVars, backup_job_timer,
                 pool_generation_number, born>>

\* Reset of a handle that has a socket and was told so.
ResetInitialized(h) ==
  /\ frame = Ready
  /\ is_initialized[h]
  /\ \E connected \in BOOLEAN : ReleaseSocket(h, connected)
  /\ ClearHandle(h)
  /\ UNCHANGED pending_callback_map

\* Reset while the result of the request is on its way: CancelRequest finds
\* the handle in pending_callback_map_.  A socket that came with an error is
\* disconnected before it is released.
CancelCallback(h) ==
  /\ frame = Ready
  /\ pending_callback_map[h] # None
  /\ pending_callback_map' = [pending_callback_map EXCEPT ![h] = None]
  /\ \/ /\ socket[h] # None
        /\ \E connected \in BOOLEAN :
             /\ connected => pending_callback_map[h] = "ok"
             /\ ReleaseSocket(h, connected)
     \/ /\ socket[h] = None
        /\ UNCHANGED <<group_map, pending_requests, tasks, idleVars, jobVars,
                       activeVars, backup_job_timer,
                       pool_generation_number, frame, born>>
  /\ ClearHandle(h)

\* Reset while the request waits: CancelRequest takes it off the queue, and at
\* the socket limit cancels a job that no request waits for any more.
CancelPending(h) ==
  LET g == group_name[h]
      rest == Erase(pending_requests[g], h)
  IN
  /\ frame = Ready
  /\ g # None /\ ~ is_initialized[h] /\ pending_callback_map[h] = None
  /\ g \in group_map
  /\ h \in Values(pending_requests[g])
  /\ pending_requests' = [pending_requests EXCEPT ![g] = rest]
  /\ \/ /\ Cardinality(jobs[g]) > size(rest) /\ ReachedMaxSocketsLimit
        /\ \E c \in jobs[g] : RemoveConnectJob(c, g)
        /\ StopTimer(g, TRUE, TRUE)
        /\ frame' = Check
     \/ /\ ~ (Cardinality(jobs[g]) > size(rest) /\ ReachedMaxSocketsLimit)
        /\ UNCHANGED jobVars
        /\ StopTimer(g, FALSE, TRUE)
        /\ UNCHANGED frame
  /\ ClearHandle(h)
  /\ UNCHANGED <<group_map, pending_callback_map, tasks, idleVars, activeVars,
                 pool_generation_number, born>>

\* ClientSocketHandle::SetPriority of a request that waits.  Taking the only
\* request off the queue stops the backup job timer.
SetPriority(h, p) ==
  LET g == group_name[h]
  IN
  /\ frame = Ready
  /\ g \in group_map
  /\ socket[h] = None
  /\ h \notin IgnoreLimits
  /\ h \in Values(pending_requests[g])
  /\ PriorityOf(pending_requests[g], h) # p
  /\ pending_requests' =
       [pending_requests EXCEPT
          ![g] = InsertPendingRequest(Erase(@, h), h, p)]
  /\ backup_job_timer' = IF empty(Erase(pending_requests[g], h))
                           THEN backup_job_timer \ {g}
                           ELSE backup_job_timer
  /\ UNCHANGED <<group_map, pending_callback_map, tasks, idleVars, jobVars,
                 activeVars, handleVars, pool_generation_number, frame, born>>

\* ClientSocketHandle::HandleInitCompletion, which forgets the pool when there
\* is an error and no socket.
HandleInitCompletion(h, result) ==
  \/ /\ result = "error" /\ socket[h] = None
     /\ ClearHandle(h)
  \/ /\ result = "ok" \/ socket[h] # None
     /\ is_initialized' = [is_initialized EXCEPT ![h] = TRUE]
     /\ UNCHANGED <<group_name, socket, pool_id>>

\* The task InvokeUserCallback runs, and calls OnIOComplete of the handle; the
\* request may have been cancelled since the task was posted.
InvokeUserCallback(h) ==
  LET result == pending_callback_map[h]
  IN
  /\ frame = Ready
  /\ tasks[h] > 0
  /\ tasks' = [tasks EXCEPT ![h] = @ - 1]
  /\ pending_callback_map' = [pending_callback_map EXCEPT ![h] = None]
  /\ \/ result = None /\ UNCHANGED handleVars
     \/ result # None /\ HandleInitCompletion(h, result)
  /\ UNCHANGED <<group_map, pending_requests, idleVars, jobVars, activeVars,
                 backup_job_timer, pool_generation_number, frame, born>>

-----------------------------------------------------------------------------
\* OnConnectJobComplete(result, job); with_socket says whether a failed job
\* has a socket to hand out with the error.
OnConnectJobComplete(g, c, result, with_socket) ==
  LET h == NextPendingRequest(g)
      waiting == ~ empty(pending_requests[g])
  IN
  /\ frame \in {Ready, Complete(g, c)}
  /\ c \in jobs[g]
  /\ result = "ok" => with_socket
  /\ RemoveConnectJob(c, g)
  /\ \/ /\ waiting
        /\ pending_requests' = [pending_requests EXCEPT ![g] = Erase(@, h)]
        /\ InvokeUserCallbackLater(h, result)
        /\ UpdateIdle({}, g, {})
        /\ \/ with_socket /\ HandOutSocket(c, h, g) /\ frame' = Ready
           \/ ~ with_socket /\ NoSocketHandedOut /\ frame' = Slot(g)
     \/ /\ ~ waiting
        /\ UpdateIdle({}, g, IF result = "ok" THEN {c} ELSE {})
        /\ NoSocketHandedOut
        /\ frame' = Slot(g)
        /\ UNCHANGED requestVars
  /\ StopTimer(g, TRUE, waiting)
  /\ UNCHANGED <<group_map, group_name, is_initialized, pool_generation_number,
                 born>>

\* Group::OnBackupJobTimerFired.  At a limit, or while the first job resolves
\* the host, the timer is only started again, which changes nothing.
OnBackupJobTimerFired(g) ==
  /\ frame = Ready
  /\ g \in backup_job_timer
  /\ jobs[g] # {} => ~ ReachedMaxSocketsLimit /\ HasAvailableSocketSlot(g)
  /\ \/ /\ jobs[g] = {} \/ empty(pending_requests[g])
        /\ UNCHANGED jobVars
        /\ UNCHANGED <<frame, born>>
     \/ /\ jobs[g] # {} /\ ~ empty(pending_requests[g])
        /\ UnusedConn # {}
        /\ AddConnectJob(NewConn, g, FALSE)
        /\ born' = [born EXCEPT ![NewConn] = pool_generation_number]
        /\ frame' \in {Ready, Complete(g, NewConn)}
  /\ backup_job_timer' = backup_job_timer \ {g}
  /\ UNCHANGED <<group_map, requestVars, idleVars, activeVars, handleVars,
                 pool_generation_number>>

-----------------------------------------------------------------------------
\* ProcessPendingRequest, for a group that has an idle socket or can use a
\* slot.
ProcessPendingRequest(g) ==
  LET h == NextPendingRequest(g)
  IN
  /\ idle_sockets[g] # {} \/ CanUseAdditionalSocketSlot(g)
  /\ \E D \in SUBSET idle_sockets[g], rv \in Outcome :
       /\ RequestSocketInternal(g, h, D, rv)
       /\ IF rv = "io_pending"
            THEN UNCHANGED requestVars
            ELSE /\ pending_requests' =
                      [pending_requests EXCEPT ![g] = Erase(@, h)]
                 /\ InvokeUserCallbackLater(h, rv)
       /\ StopTimer(g, FALSE, rv # "io_pending")
  /\ group_map' = {x \in group_map :
        IsEmpty(x)' => x # g /\ idle_sockets'[x] = idle_sockets[x]}
  /\ UNCHANGED <<group_name, is_initialized, pool_generation_number>>

\* OnAvailableSocketSlot; CheckForStalledSocketGroups comes next.
OnAvailableSocketSlot ==
  LET g == frame.group
      process == /\ ~ empty(pending_requests[g])
                 /\ idle_sockets[g] # {} \/ CanUseAdditionalSocketSlot(g)
  IN
  /\ frame.at = "slot"
  /\ frame' = Check
  /\ \/ process /\ ProcessPendingRequest(g)
     \/ /\ ~ process
        /\ group_map' = {x \in group_map : ~ (x = g /\ IsEmpty(g))}
        /\ UNCHANGED <<requestVars, idleVars, jobVars, activeVars, handleVars,
                       backup_job_timer, pool_generation_number, born>>

\* FindTopStalledGroup: among equals the first in map order, here any.
StalledGroups == {g \in group_map : CanUseAdditionalSocketSlot(g)}

TopStalledGroups ==
  {g \in StalledGroups :
     \A x \in StalledGroups : TopPendingPriority(x) <= TopPendingPriority(g)}

\* CloseOneIdleSocketExceptInGroup(NULL): the socket c of the group g; the
\* group goes away if that was all it had.
CloseIdleSocket(c, g) ==
  /\ c \in idle_sockets[g]
  /\ OnlyIdleSocketsChange
  /\ UpdateIdle({c}, g, {})
  /\ group_map' = {x \in group_map : ~ (x = g /\ IsEmpty(x)')}

\* One iteration of the loop of CheckForStalledSocketGroups.
CheckForStalledSocketGroups ==
  /\ frame.at = "check"
  /\ OnlyIdleSocketsChange
  /\ \/ \* a stalled group gets a slot, if need be that of an idle socket
        \E top \in TopStalledGroups :
          /\ frame' = Slot(top)
          /\ \/ /\ ReachedMaxSocketsLimit
                /\ \E g \in Group : \E c \in idle_sockets[g] :
                      CloseIdleSocket(c, g)
             \/ ~ ReachedMaxSocketsLimit /\ UNCHANGED <<group_map, idleVars>>
     \/ \* no slot to give, or no group that wants one
        /\ \/ StalledGroups = {}
           \/ ReachedMaxSocketsLimit /\ idle_socket_count = 0
        /\ frame' = Ready
        /\ UNCHANGED <<group_map, idleVars>>
     \/ \* no stalled group here, but a lower layered pool is stalled
        /\ StalledGroups = {} /\ HasLowerPool
        /\ frame' = Ready
        /\ \E g \in Group : \E c \in idle_sockets[g] : CloseIdleSocket(c, g)

-----------------------------------------------------------------------------
\* Group::RemoveAllJobs, for every group.
RemoveAllJobs ==
  /\ jobs' = [g \in Group |-> {}]
  /\ unassigned_job_count' = [g \in Group |-> 0]
  /\ backup_job_timer' = {}

CancelAllConnectJobs ==
  /\ connecting_socket_count' = connecting_socket_count - Cardinality(AllJobs)
  /\ RemoveAllJobs

\* Every waiting request is told the error later.
CancelAllRequestsWithError ==
  LET failed == {h \in Handle : \E g \in group_map :
                                   h \in Values(pending_requests[g])}
  IN
  /\ pending_callback_map' =
       [h \in Handle |-> IF h \in failed THEN "error"
                                        ELSE pending_callback_map[h]]
  /\ tasks' = [h \in Handle |-> IF h \in failed THEN tasks[h] + 1
                                                 ELSE tasks[h]]
  /\ pending_requests' = [g \in Group |-> EmptyQueue(Priority)]

\* FlushWithError, also through OnIPAddressChanged.  Each of its loops removes
\* the groups that are empty by then.
FlushWithError ==
  /\ frame = Ready
  /\ pool_generation_number < MaxGeneration
  /\ pool_generation_number' = pool_generation_number + 1
  /\ CancelAllConnectJobs
  /\ UpdateIdle(AllIdle, None, {})
  /\ CancelAllRequestsWithError
  /\ UNCHANGED active_socket_count
  /\ group_map' = {g \in group_map : ~ IsEmpty(g)'}
  /\ UNCHANGED <<handed_out_socket_count, handleVars, frame, born>>

\* CloseIdleSockets: CleanupIdleSockets(true).
CloseIdleSockets ==
  /\ frame = Ready
  /\ idle_socket_count > 0
  /\ UpdateIdle(AllIdle, None, {})
  /\ OnlyIdleSocketsChange
  /\ group_map' = {g \in group_map : ~ IsEmpty(g)'}
  /\ UNCHANGED frame

CloseIdleSocketsInGroup(g) ==
  /\ frame = Ready
  /\ idle_socket_count > 0
  /\ g \in group_map
  /\ UpdateIdle(idle_sockets[g], g, {})
  /\ OnlyIdleSocketsChange
  /\ group_map' = {x \in group_map : ~ (x = g /\ IsEmpty(x)')}
  /\ UNCHANGED frame

\* CloseOneIdleSocket, on behalf of a stalled lower layered pool.
CloseOneIdleSocket ==
  /\ frame = Ready
  /\ HasLowerPool
  /\ \E g \in Group : \E c \in idle_sockets[g] : CloseIdleSocket(c, g)
  /\ UNCHANGED frame

Next ==
  \/ \E h \in Handle, g \in Group, p \in Priority : RequestSocket(h, g, p)
  \/ \E g \in Group, n \in 1 .. max_sockets_per_group : RequestSockets(g, n)
  \/ PreconnectOne
  \/ PreconnectDone
  \/ \E h \in Handle : \/ ResetInitialized(h)
                        \/ CancelCallback(h)
                        \/ CancelPending(h)
                        \/ InvokeUserCallback(h)
                        \/ \E p \in Priority : SetPriority(h, p)
  \/ \E g \in Group : \E c \in jobs[g] :
       \E result \in Result, with_socket \in BOOLEAN :
         OnConnectJobComplete(g, c, result, with_socket)
  \/ \E g \in Group : OnBackupJobTimerFired(g) \/ CloseIdleSocketsInGroup(g)
  \/ OnAvailableSocketSlot
  \/ CheckForStalledSocketGroups
  \/ FlushWithError
  \/ CloseIdleSockets
  \/ CloseOneIdleSocket

Spec == Init /\ [][Next]_vars

-----------------------------------------------------------------------------
\* Type invariant.
TypeOK ==
  /\ group_map \subseteq Group
  /\ pending_callback_map \in [Handle -> Result \union {None}]
  /\ tasks \in [Handle -> Nat]
  /\ idle_socket_count \in Int
  /\ connecting_socket_count \in Int
  /\ handed_out_socket_count \in Int
  /\ pool_generation_number \in 0 .. MaxGeneration
  /\ pending_requests \in [Group -> [Priority -> Seq(Handle)]]
  /\ jobs \in [Group -> SUBSET Conn]
  /\ unassigned_job_count \in [Group -> Int]
  /\ idle_sockets \in [Group -> SUBSET Conn]
  /\ active_socket_count \in [Group -> Int]
  /\ backup_job_timer \subseteq Group
  /\ group_name \in [Handle -> Group \union {None}]
  /\ socket \in [Handle -> Conn \union {None}]
  /\ pool_id \in [Handle -> Int]
  /\ is_initialized \in [Handle -> BOOLEAN]
  /\ frame \in Frames
  /\ born \in [Conn -> Nat]

\* The three counters of the pool and the one of each group are updated by
\* hand on every path; ReachedMaxSocketsLimit and the limit per group rest on
\* them.  They always count what is there, in the middle of a call too.
CountersAreExact ==
  /\ idle_socket_count = Cardinality(AllIdle)
  /\ connecting_socket_count = Cardinality(AllJobs)
  /\ handed_out_socket_count = Cardinality({h \in Handle : socket[h] # None})
  /\ \A g \in Group :
       active_socket_count[g] =
         Cardinality({h \in Handle : socket[h] # None /\ group_name[h] = g})

\* A connection is in one place: it is not idle in two groups, nor idle or
\* connecting while a handle has it, nor in two handles.
SocketInOnePlace ==
  /\ \A g, x \in Group : g # x =>
       (idle_sockets[g] \union jobs[g]) \intersect
         (idle_sockets[x] \union jobs[x]) = {}
  /\ \A g \in Group : idle_sockets[g] \intersect jobs[g] = {}
  /\ HandedOut \intersect (AllIdle \union AllJobs) = {}
  /\ \A h, k \in Handle : socket[h] # None /\ socket[h] = socket[k] => h = k

\* The request of h is being served on behalf of a client that does not
\* respect the limits: made in this step, or at the front when a slot is used.
IgnoresLimits ==
  \/ \E h \in IgnoreLimits : group_name[h] = None /\ group_name'[h] # None
  \/ /\ frame.at = "slot"
     /\ ~ empty(pending_requests[frame.group])
     /\ NextPendingRequest(frame.group) \in IgnoreLimits

\* The number of sockets, in all or in a group, grows past its limit only for
\* a request that asked to ignore the limits; whatever the order of requests,
\* preconnects, backup jobs, releases and completions.
LimitsAreRespected ==
  [][IgnoresLimits
     \/ /\ TotalSockets' > TotalSockets => TotalSockets' <= max_sockets
        /\ \A g \in Group :
             NumActiveSocketSlots(g)' > NumActiveSocketSlots(g) =>
               NumActiveSocketSlots(g)' <= max_sockets_per_group]_vars

\* No lost wakeup: when a call into the pool returns, a group that has more
\* requests than jobs and room for a socket waits only because every slot of
\* the pool is connecting or handed out.  Each path that frees a slot must
\* look for stalled groups.
NoLostWakeup ==
  frame = Ready =>
    \A g \in group_map :
      CanUseAdditionalSocketSlot(g) =>
        ReachedMaxSocketsLimit /\ idle_socket_count = 0

\* A request takes an unassigned job instead of starting one of its own, so
\* the jobs counted as unassigned must exist and be over and above the ones
\* the waiting requests count on (Group::SanityCheck checks the first half).
UnassignedJobsAreSpare ==
  \A g \in Group :
    /\ unassigned_job_count[g] \in 0 .. Cardinality(jobs[g])
    /\ unassigned_job_count[g] > 0 =>
         size(pending_requests[g]) + unassigned_job_count[g]
           <= Cardinality(jobs[g])

\* A handle that asked for a socket and was not told the result is known to
\* the pool in one place: in the queue of its group, which exists, or among
\* the pending callbacks, with a task to report it.  The CHECKs of
\* CancelRequest, InvokeUserCallbackLater and InvokeUserCallback rest on it.
RequestIsTracked ==
  \A h \in Handle :
    LET g == group_name[h]
        queued == {x \in Group : h \in Values(pending_requests[x])}
        reported == pending_callback_map[h] # None
    IN  /\ g = None => queued = {} /\ ~ reported /\ socket[h] = None
        /\ g # None /\ is_initialized[h] =>
             queued = {} /\ ~ reported /\ socket[h] # None /\ g \in group_map
        /\ g # None /\ ~ is_initialized[h] =>
             \/ queued = {g} /\ g \in group_map /\ ~ reported /\ socket[h] = None
             \/ /\ queued = {} /\ reported /\ tasks[h] > 0
                /\ socket[h] # None => g \in group_map

\* A group that is not in the map has nothing: no socket, job, request or
\* timer is leaked by RemoveGroup.
RemovedGroupsHaveNothing ==
  \A g \in Group \ group_map :
    /\ active_socket_count[g] = 0
    /\ idle_sockets[g] \union jobs[g] = {}
    /\ Values(pending_requests[g]) = {}
    /\ unassigned_job_count[g] = 0
    /\ g \notin backup_job_timer

\* A running backup job timer always has a job to back up: the NOTREACHED of
\* OnBackupJobTimerFired.
BackupTimerHasJob == \A g \in backup_job_timer : jobs[g] # {}

\* After a flush no connection from before it is given to a request: idle and
\* connecting sockets are of the current generation, and so is the socket of
\* a handle whose id lets ReleaseSocket keep it.
OnlyCurrentGeneration ==
  /\ \A g \in Group : \A c \in idle_sockets[g] \union jobs[g] :
       born[c] = pool_generation_number
  /\ \A h \in Handle :
       socket[h] # None /\ pool_id[h] = pool_generation_number =>
         born[socket[h]] = pool_generation_number

\* The books of the pool: its counters count what is there, and jobs counted as
\* unassigned are spare, or a request would wait for a job that is not its own.
BooksAreExact == CountersAreExact /\ UnassignedJobsAreSpare

\* Groups and requests find each other: a request that was not answered is known
\* to its group or has its callback pending, and no removed group owns anything.
GroupsAreTracked == RequestIsTracked /\ RemovedGroupsHaveNothing

-----------------------------------------------------------------------------
\* The comment on Group: it is in the map "when there are idle sockets or
\* pending requests.  Otherwise, the Group object is removed from the map."
\* Even with active sockets and jobs counted as a reason to keep it, a group
\* that is empty when a call returns contradicts this.
\* Stated, and not true of the code: README, section 5.
EmptyGroupsAreRemoved ==
  frame = Ready => \A g \in group_map : ~ IsEmpty(g)

\* The NOTREACHED at the end of Group::SetPriority: a handle that asked for a
\* socket, has none and whose group exists is in the queue of the group.
\* Stated, and not true of the code: README, section 5.
SetPriorityFindsRequest ==
  frame = Ready =>
    \A h \in Handle :
      socket[h] = None /\ group_name[h] \in group_map =>
        h \in Values(pending_requests[group_name[h]])

\* "If there are no more requests, kill the backup timer": the timer of a
\* group is stopped, before it fires, only if no request or no job is left.
\* Stated, and not true of the code: README, section 5.
TimerStopsOnlyWhenUseless ==
  [][\A g \in backup_job_timer \ backup_job_timer' :
       \/ jobs'[g] = {}
       \/ empty(pending_requests'[g])
       \/ OnBackupJobTimerFired(g)]_vars

-----------------------------------------------------------------------------
\* The rest of a call on the stack.
Return ==
  \/ PreconnectOne
  \/ PreconnectDone
  \/ OnAvailableSocketSlot
  \/ CheckForStalledSocketGroups
  \/ \E result \in Result, with_socket \in BOOLEAN :
       /\ frame.at = "complete"
       /\ OnConnectJobComplete(frame.group, frame.job, result, with_socket)

JobEnds(c) ==
  \E g \in Group, result \in Result, with_socket \in BOOLEAN :
    OnConnectJobComplete(g, c, result, with_socket)

\* A call on the stack goes on; a ConnectJob ends, by its timeout if nothing
\* else; a posted task is run; a client returns the socket it was given.  The
\* last three wait for the stack to be empty, which it is again and again.
FairSpec ==
  /\ Spec
  /\ WF_vars(Return)
  /\ \A c \in Conn : SF_vars(JobEnds(c))
  /\ \A h \in Handle : SF_vars(InvokeUserCallback(h))
                      /\ SF_vars(ResetInitialized(h))

\* The loops of CheckForStalledSocketGroups and RequestSockets end.
CallsReturn == frame # Ready ~> frame = Ready

\* Every request is answered: it does not stay in the queue forever.  This is
\* stated for two handles and one priority; a request may be passed over again
\* and again by requests of a higher priority, or by two other handles that
\* pass the sockets of their group to each other.
RequestsAreServed ==
  \A h \in Handle :
    (group_name[h] # None /\ ~ is_initialized[h])
      ~> (group_name[h] = None \/ is_initialized[h])

=============================================================================
