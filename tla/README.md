# A TLA+ development for net

This directory models parts of `net`, Chromium's network stack, in TLA+. The
modules are checked with TLC on small instances, and theorems about some of
them are proved with TLAPS for every value of the constants. Paths below are
relative to `src/`. `PROJECT.json` maps each definition to the lines it models
and lists the runs, the mutants, the findings, the hazards and the theorems.

## 1. Inventory

`net` runs almost entirely on one thread (the IO thread). What makes it hard is
not shared memory but callbacks: a method changes its state, calls out, is
re-entered, posts a task, and later meets a state that other calls have changed
in the meantime.

| component | state it keeps | operations | interacts with | what makes it correct |
|---|---|---|---|---|
| `PriorityQueue` (`base/priority_queue.h`) | one FIFO list per priority | Insert, InsertAtFront, Erase, FirstMin, FirstMax | dispatcher, socket pool | a value is where it was put; the scans find the extreme lists |
| `PrioritizedDispatcher` (`base/prioritized_dispatcher.cc`) | queue, limits, number of running jobs | Add, AddAtHead, Cancel, EvictOldestLowest, ChangePriority, OnJobFinished, GetLimits, SetLimits, SetLimitsToZero | `HostResolverImpl` through `Job::Start` and `OnJobFinished` | limits kept, no slot lost, no startable job waits, order |
| `ClientSocketPoolBaseHelper` (`socket/client_socket_pool_base.cc`) | groups (requests, jobs, idle sockets, counts, timer), counters, pending callbacks, generation | RequestSocket(s), CancelRequest, ReleaseSocket, SetPriority, OnConnectJobComplete, backup timer, flush, idle cleanup | handles, connect jobs, layered pools, the task queue | exact books, limits, no lost wakeup, every request answered once |
| `ClientSocketHandle` (`socket/client_socket_handle.cc`) | socket, group, pool id, whether initialized | Init, Reset, SetPriority, OnIOComplete | the pool | a socket is held by one handle and given back |
| layered pools (SOCKS, HTTP proxy, SSL over transport) | two pools and their references | IsStalled, CloseOneIdleConnection | each other | a stalled lower pool gets an idle socket of a higher one |
| `HostResolverImpl` (`dns/`) | jobs by key, requests per job, cache | Resolve, cancel, abort, dispatcher slots of a DNS job | dispatcher, DNS client | each request answered once; slots given back |
| `HttpCache`, `ActiveEntry`, `Writers` (`http/`) | entries, queues of transactions, writers, readers | AddTransactionToEntry, DoneWithResponseHeaders, DoneWithEntry, doom | transactions, disk cache | one writer (or a set of sharing ones), readers only of complete data, no transaction forgotten |
| `HttpStreamFactoryImpl::JobController` (`http/`) | main and alternative job, whether main is blocked | OnStreamReady, OnStreamFailed, ResumeMainJob, OrphanUnboundJob | jobs, the request | one result per request, the main job is not blocked forever |
| disk cache, simple backend | per entry a queue of operations, state, doom flag | Open, Create, Read, Write, Doom, Close | worker threads | operations appear in order, optimistic results are true |
| disk cache, block file backend | LRU lists on disk with a transaction record | Insert, Remove, CompleteTransaction | mapped files | after a crash the lists are well formed |
| SPDY sessions and streams (`spdy/chromium/`) | windows, active, created and pending streams | window updates, settings, data | peer, HTTP streams | windows stay in range; stalled streams resume |
| `WebSocketChannel` | closing handshake state, quotas, timers | SendFrame, StartClosingHandshake, HandleCloseFrame, CloseTimeout | event interface, stream | one close event, no data after it |
| `BackoffEntry` | failure count, release time | InformOfRequest, SetCustomReleaseTime | throttling | the release time never moves back |
| reporting | reports, pending and doomed sets, endpoints | add, deliver, collect | uploader | a report under way is not freed |
| cookies, proxy, cert, url_request, ftp, nqe, quic, http2, filter, ntlm, ssl, server, log, ... | | | | see `components` in `PROJECT.json` for why they are not modelled or come later |

The hazards, the places where this code can go wrong in a way that a test would
hardly reach, are listed in `PROJECT.json` with the properties that would catch
them; the ones of components that are not modelled yet carry a note.

## 2. Plan

Done:

1. `PriorityQueue`, `PrioritizedDispatcher` and their proofs;
2. `ClientSocketPool` with the handles of its clients, and the proofs of three
   of its invariants;
3. `LruLists` and `Rankings`: the crash recovery of the block file cache's LRU
   lists, shown to implement lists whose operations are atomic;
4. `SimpleCache`: the entries of one hash in the simple backend;
5. `HttpCacheEntry`: the transactions of one key of the HTTP cache;
6. `HostResolver`, composed with `PrioritizedDispatcher`;
7. `JobController`: the race of the two jobs of a stream request;
8. the proofs of every state invariant of `ClientSocketPool`, of
   `JobController`, of `Rankings` and of `SimpleCache`, of `NothingIsStale` of
   `HostResolver`, and that `Rankings` implements `LruLists` (section 6).

Next, in this order:

9. Proofs: `DispatcherMatchesJobs` and `NoDanglingPointers` of `HostResolver`, on top of
   `ResolverInv` and the dispatcher's invariants.
10. `LayeredSocketPools`: an abstract pool (slots, stalled or not, idle sockets)
   that `ClientSocketPool` is shown to implement, then two of them, one over the
   other, with `TryToCloseSocketsInLayeredPools`: no deadlock between the layers.
11. `WebSocketClose` (the closing handshake and its two timers), `FlowControl`
   (SPDY windows with their 32-bit arithmetic), `ReportingDelivery` and
   `BackoffEntry`, which are small and sequential by comparison.

## 3. Modules

| module | models | state and actions |
|---|---|---|
| `PriorityQueue` | `base/priority_queue.h` | operators on a function from priorities to sequences; a value stands for its `Pointer` |
| `PrioritizedDispatcher` | `base/prioritized_dispatcher.cc` | `queue`, `max_running_jobs`, `num_running_jobs` are the members; `running` is the set of jobs started and not finished (known only to the clients), `loops` the `SetLimits` loops on the stack; one action per method |
| `ClientSocketPool` | `socket/client_socket_pool_base.cc`, `socket/client_socket_handle.cc` | the members of the helper, of `Group` (functions of the group name) and of the handles; `frame` is the rest of the call on the stack |
| `HostResolver` | `dns/host_resolver_impl.cc` | the dispatcher's variables, `jobs` (the map), per job and per request a record, cache, failures, configuration; `calls` is the stack; one action per method or per return from one |
| `HttpCacheEntry` | `http/http_cache.cc`, `http/http_cache_writers.cc`, `http/http_cache_transaction.cc` | per transaction, per `ActiveEntry` and per disk entry a record; the `PendingOp` of the key; `calls` is the rest of the task |
| `JobController` | `http/http_stream_factory_impl_job_controller.cc`, the parts of `..._job.cc` it sees | the members as a record `c`; methods are functions of it; what the consumer was told and what was reported as broken |
| `SimpleCache` | `disk_cache/simple/simple_entry_impl.cc`, `simple_backend_impl.cc`, `simple_synchronous_entry.cc` | per entry its queue, state, task and file; the backend's map, pending dooms and index record; the linked file |
| `Rankings` | `disk_cache/blockfile/rankings.cc` | the lists' ends, sizes and the transaction record in the header, the links of the nodes; `todo` is the rest of the operation as single writes |
| `LruLists` | what `rankings.h` promises | abstract: sequences of nodes, insertion and removal atomic |
| `MC...` | | instances, scenarios and symmetry for TLC |
| `...Proofs` | | theorems and their proofs (section 6) |

`HostResolver` composes with `PrioritizedDispatcher`: the dispatcher's variables
are the resolver's, and its actions are conjuncts of the resolver's (`D!Add`,
`D!OnJobFinished`, ...). `ClientSocketPool` and the dispatcher use the operators
of `PriorityQueue`. `Rankings` is shown to implement `LruLists`.

Five modules take a constant `Scenarios`, a set of records. Which one is in
force is chosen in `Init` and never changes: it is the part of the environment
that is fixed (options, the requests there are, what may fail, what callbacks
do), so one run covers several environments, and a property whose truth depends
on one of them names it as its antecedent.

### PrioritizedDispatcher

`Job::Start` is a call out of the dispatcher, and the class comment allows it to
call any method. In `Add`, `AddAtHead`, `ChangePriority` and `OnJobFinished` the
call is the last thing the method does, so nested calls are the same as later
calls. In `SetLimits` it sits in a loop (`prioritized_dispatcher.cc:116-119`):
the model keeps the number of such loops on the stack, and between two
iterations (`SetLimitsLoop`) any other method may run. That a client calls
`OnJobFinished` only for a job that runs, and `Cancel` and `ChangePriority` only
with a handle that is in the queue, are the preconditions the header states.
A member of `Job` is one submission, known to its client by a `Handle`: a C++
`Job` that is added twice, as `HostResolverImpl` does for the two slots of a DNS
job, is two members.
`Limits` that reserve more than `total_jobs` are excluded by the DCHECK of
`SetLimits` and by `LimitsAssumption`.

### ClientSocketPool

Each call into the pool is one step, except where the code loops or calls on
after it changed the state; these are split at the points named by `frame`:
`slot` (`OnAvailableSocketSlot` is next, then `CheckForStalledSocketGroups`),
`check` (an iteration of the loop of `CheckForStalledSocketGroups`),
`preconnect` (an iteration of the loop of `RequestSockets`) and `complete`
(a backup job whose `Connect` completed inside the timer). While `frame` is not
`Ready` no other call starts, because the thread is inside the pool: what is
split is only how TLC gets there, and the invariants hold in these states too,
except where they say otherwise.

Interleaving comes from what happens between calls: requests, cancellations,
releases, priority changes, ends of connect jobs, posted tasks, timers, flushes
and idle sockets that die. `InvokeUserCallbackLater` is a posted task (`tasks`)
that may run after the request was cancelled and after the handle asked again.

Abstractions of data:

- A connect job and the socket it yields are one member of `Conn`; the identity
  is free again once the connection is gone. `Conn` bounds how many exist.
- Time: an idle socket may be found timed out or unusable whenever the code
  looks (`D` in `RequestSocket`, `RequestSockets`, `RequestSocketInternal`);
  the backup timer may fire whenever it runs. Which idle socket is assigned
  (used ones first, else the oldest) is left open: any usable one.
- Which group wins among stalled groups of equal priority, and whose idle
  socket is closed, depend on the order of a `std::map`: any.
- `result` is `ok` or `error`. A failed job may or may not hand out a socket.
- A lower layered pool is an environment that may be stalled at any check, and
  may ask to close an idle socket (`HasLowerPool`).

Not modelled of the pool: its own `IsStalled` and the calls into higher pools.
What such a call does to this pool is that a handle (the one of the higher
pool's connection) is reset, which any handle may do at any time here. Requests
with `NO_IDLE_SOCKETS` other than preconnects do not exist in the code.

### HostResolver

The thread's stack is explicit. A method that calls on (the dispatcher, which
calls `Start`; a request's callback, which may resolve, cancel or destroy the
resolver; the eviction of a job in the middle of `Resolve`) leaves a record of
what is still to do in `calls`, and the actions under `Return` take the first
record off. Client calls start when the stack is empty or a callback is on top
(`ClientMay`). A DNS job is two submissions to the dispatcher, `<<j, 1>>` and
`<<j, 2>>`; a system lookup uses the first. `AbortAllInProgressJobs` keeps its
vector of jobs in a record on the stack, reads the limits, sets them to zero and
restores them, as in the code; whether the resolver was destroyed meanwhile is
its `WeakPtr` check (`LifeCheck`). Cached results carry the network they came
from, by which `NoStaleResults` can tell.

`Resolve` first looks in the cache and the hosts file (`ResolveHelper`); names
that are invalid, IP literals or localhost are answered there too, which leaves
no state. Keys with `HOST_RESOLVER_SYSTEM_ONLY` (`system_only`) never get a
DnsTask.

Left open: results of lookups, and whether a name is in the hosts file.
Not modelled: retries of `ProcTask`, expiry and staleness in `HostCache`, IPv6
and loopback probes, the first reading of the configuration, mDNS, persistence,
and a resolver destroyed by the callback of a job that it evicts.

### HttpCacheEntry

One key of the cache and the transactions that use it. `trans[t].state` is where
`DoLoop` waits; the states it passes without waiting are records in `calls`.
Posted callbacks are `posted`, and the posted `ProcessQueuedTransactions` is
`will_process`. The backend answers later, and may fail (`disk`). A response is a
version number; the server may change the resource between requests, and what
the cache stores is the version and the number of reads of it (`size`). An entry is
overwritten in three steps, its headers, its body and its metadata, and the
writes to it are done in the order they were issued. With `disk` faults each of
them may fail; the code looks at the result of the first only, so that a
truncation that failed leaves the old body under the new headers (`mishaps` has
"not cut" then). `mixed` records that a consumer got a part of a version other than the one in its
headers.

Left open: whether a cached response needs validation, and whether it matches;
when transactions arrive and go, and how long the network takes. Not modelled:
range requests and the resumption of truncated entries by a range, so that a
truncated entry is used only by what starts over; other methods than GET, except
that a POST elsewhere dooms the entry of the URL; UPDATE mode, authentication,
hints in memory, creation and destruction of backend and cache, a backend that
answers in the call. `StopCaching` is an action only of a transaction that reads
the body and is alone among the writers; the code also accepts a call in the headers
phase ("nothing really prevents this method to be called", line 440), which is not
modelled.

### JobController

A job is seen as the controller sees it: created, throttled, connecting,
waiting, done with a result, and bound or orphaned. What comes out of a job is
left open within what its kind allows (`JobResults`): a stream, failure, a network
change, a certificate error, a request for a client certificate (of an https
server, or of the HTTPS proxy of an http request) or for proxy
credentials, a tunnel response. Results reach the controller in posted tasks.
The consumer either destroys its request in the callback (`prompt`) or keeps it.
Not modelled: stream creation after the connection, the WebSocket and
bidirectional variants of the callbacks, priorities, histograms.

### SimpleCache

All entries of one hash: the active one, those that were doomed and live on for
their holders, one that an iteration opened. An operation is queued, run, posted
to a worker (`Work`) and completed by its reply. Files are identities: a doom
unlinks the file while the holders keep it open, a create makes a new one, an
open finds the linked one. The contents of streams are abstracted to whether an
operation succeeds; the index to whether it has the hash. Closing the files is a
task of its own (`closing`), since an entry that failed goes on meanwhile. Not
modelled:
collisions of hashes, an index that is still loading, destruction of the backend,
sparse data, prefetch, checksums. An entry that becomes doomed leaves
`active_entries_` if it is the active one, where the code asks whether it has a
proxy for the map (`simple_backend_impl.cc:203-207`). The two differ only when an
iteration and an optimistic create meet, an environment in which the code is shown
to fail (section 5) and which the properties leave out.

### Rankings

The control flow of `Insert` and `Remove` depends only on the state they start
in, so an operation is the sequence of writes it will make; `Write` does the
first and `Crash` forgets the rest. That is the model of the code's own
assumption: the header is mapped memory, so what was written before the process
dies is on disk, in the order of the program. `Init` after a crash reads the
transaction record and repairs (`FinishInsert`, `RevertRemove`), again as single
writes. `UpdateRank` is a removal followed by an insertion (`reinsert`). A second
crash during the recovery is possible only with `CrashInRecovery`. Not modelled:
iterators, the dirty flag, the hash of a node, `SelfCheck`; I/O failures, of the
nodes that `Insert`, `Remove` and the recovery load (`Load` and `GetRanking`,
`rankings.cc:593`, `653`, `711`), after which the code gives the operation up or
reports a critical error; the dirty entry that the recovery reports to the backend
(`RecoveredEntry`, `691`); and the upper bound that `IncrementCounter` asserts of a
size (`917`).

## 4. Runs

| run | instance | shows |
|---|---|---|
| `dispatcher` | 5 jobs, 3 priorities, all limits up to 3 jobs, 2 nested loops | the invariants and `DispatchOrder` below |
| `dispatcher_fair` | 3 jobs, 2 priorities | a job of the highest priority is served |
| `pool` | 2 groups, 3 handles, 2 priorities, 2 slots, 3 connections, one flush, backup jobs | all safety properties of the pool |
| `pool_ignoring` | 2 groups, 2 handles of which one ignores the limits, 2 slots, 1 per group, 4 connections, a lower pool | limits and wakeups when the limit is exceeded |
| `pool_fair` | 3 groups, 2 handles, 1 slot | termination of the loops, and service |
| `rankings` | 4 nodes, 2 lists, 2 crashes | recovery, and the refinement of `LruLists` |
| `rankings_twice` | 2 nodes, 2 lists, 2 crashes, one of them in the recovery | violation: section 5 |
| `simple` | 3 entries, 4 or 5 calls, in four scenarios | files, dooms, order and progress of operations |
| `http_cache` | 1 to 3 transactions, 3 entries, 2 versions, in the scenarios of `MCHttpCacheEntry` | pointers, responses, queues, DCHECKs |
| `resolver` | 3 requests, 3 keys, 2 priorities, in six scenarios | slots, queue, priorities, stale results, dangling pointers |
| `resolver_fair` | 3 requests, 2 keys, in two scenarios | every request completes |
| `controller` | one controller, in four scenarios | one answer, right reports, progress |

Properties of the dispatcher. `RunningJobsAreCounted`: the count is the number
of jobs that run. `JobInOnePlace`: no job is queued twice or while it runs.
`NoStartableJobQueued`: outside `SetLimits`' loop no job waits that may start.
`LimitsRoundTrip`: `SetLimits(GetLimits())` restores the limits, as
`HostResolverImpl::AbortAllInProgressJobs` needs. `DispatchOrder`: highest
priority first, FIFO within one. (`HigherMayUseMore`, that limits are monotonic,
on which the choice of one candidate in `OnJobFinished` rests, is proved.)

Properties of the pool. `BooksAreExact` (`CountersAreExact`,
`UnassignedJobsAreSpare`), `SocketInOnePlace`, `GroupsAreTracked`
(`RequestIsTracked`, `RemovedGroupsHaveNothing`) and `BackupTimerHasJob` relate
the books kept by hand to what is there; the CHECKs and DCHECKs of the code
follow from them. `NoLostWakeup` says that when a call returns, a group with room
and unserved requests waits only because the whole pool is in use.
`OnlyCurrentGeneration` says that a flush is final: nothing connected before it
is handed out after it. `LimitsAreRespected` is an action property, since a
client that ignores the limits may leave the pool above them: a step may not
raise the number of sockets past a limit for anyone else.

Properties of the lists. `ListsAreWellFormed`: after any crash and its recovery
the links are proper lists. `DiskIsUnderstood`: `CriticalError`, which discards
the cache, is not called, and the DCHECKs of `RevertRemove` hold.
`CountersDriftByCrashes`: a size is off by at most the number of crashes.
`OperationsAreAtomic`: the refinement. The mapping (`Lists`) sees an insertion as
done when the transaction record is written, and a removal when the links of its
node are cleared; until then the removed node is put back where it was.

Properties of the simple cache. `EntriesAreConsistent`: the destructor's DCHECKs
(that on STATE_READY when nothing fails), and that holders of an entry that is not doomed have the one the backend finds.
`DoomsAreTracked`: `entries_pending_doom_` has the hash exactly while one doom is
under way. `FilesAreSafe`: no two entries work on one file, and a file that is
left is in the index. `OperationsRun`: queues drain, waiters for a doom are
called.

Properties of the HTTP cache. `EntryIsConsistent`: `entry_` and the queues agree,
readers exclude writers, entries nobody uses are freed. `ResponsesAreRight`: a
body is of one version, its end is its end, and the cache's own 304 is not passed
on. `WaitersAreServed`: whoever waits is in a queue that somebody will process.
`ChecksHold`: the DCHECKs that depend on other transactions (`PendingIsFound`,
`OnlyWritersSkipHeaders`, `WritersHaveNetwork`, `ErrorIsSet`).

Properties of the resolver. `DispatcherMatchesJobs`: the slots that jobs occupy
and have queued are those of the dispatcher, whatever ended them (`SlotsAreExact`);
a job has a slot or is queued for one (`LookupsHaveSlots`), with the highest
priority of its requests (`QueuedByPriority`), and a DNS job that still needs its
second slot has it queued (`SecondIsQueued`). `JobsMatchRequests`: a request that
waits is in the list of one job, which is alive and the one in the map for its key
once the calls on the stack have returned, and no job is left without requests;
this one holds in every environment. `NothingIsStale`: no cached result is from before a change of the
network, no DNS task runs without a configuration. `NoDanglingPointers`: no loop,
list or queue refers to a job that is deleted. `RequestsComplete`: liveness.

Properties of the controller. `JobsAreConsistent`: the main job waits only for
what will come, `ResumeMainJob` finds it waiting, `bound_job_` exists, and a
controller that is kept has work. `AnsweredOnce`: one final result.
`ReportsAreRight`: only services whose jobs failed are reported as broken, and all of
them have been by the time the main job has served the request. (That they are
reported only then is `MarkedWhenServed`, which the code does not keep.)
`RequestsEnd`: requests are answered and
controllers deleted.

Several of these hold only in some environments, and then their antecedents say
which (for `NoMixedResponses`: no entry is resumable, and no truncation of a body
failed); section 5 says what happens in the others.

### Bounds

`MaxLoops`, `MaxTotalJobs` (dispatcher), `Conn`, `MaxGeneration`, `MaxTasks`
(pool), `MaxCrashes` (lists), `NumEntries` and the calls of a scenario (simple
cache), `NumEntries`, `MaxVersion` and the length of the body (HTTP cache),
`max_changes` (resolver), `max_auth`, `max_resolves` (controller).

Pool: two slots and three handles in two groups give every combination of a
group at its limit, the pool at its limit, a stalled other group, idle sockets
elsewhere, more jobs than requests and more requests than jobs. One flush is
enough for a socket to outlive its generation. One outstanding task per handle
is enough for safety with three handles; `pool_ignoring` has two, so that a
stale task meets a new request of the same handle. A request is not started when
`MaxTasks` tasks of its handle are still posted; a flush or completion may add
one more. In `pool_ignoring`, requests of the handle that ignores the limits are
not started when only one connection identity is left.

Lists: with four nodes a node is at the head, in the middle, at the tail or
alone, and a move finds another list with any of these; the second crash follows
the recovery from the first.

Simple cache: three entries are a doomed one that is still held, one being
doomed, and the successor; five calls are open or create, write, doom, create and
one more. Clients make a bounded number of calls, and `OperationsRun` is about
what is left then.

HTTP cache: three transactions are a writer, one in the headers phase and one
that waits. Together with failures three are too many states for the run, so its
scenarios with failures have two, or one with everything. Three transactions with
single failures were checked apart, and where they break a property its
antecedent says so (section 5). Two versions are a response and
its replacement.

Resolver: three requests with three keys fill two slots and the queue, or share
jobs. One change of the network per behaviour is enough for a job to outlive it.

Controller: nothing is bounded but the number of requests for credentials and of
proxy resolutions.

`CHECK_DEADLOCK FALSE` is set where a run may end: clients, transactions,
requests or crashes are used up and nothing is left to do.

### Fairness

Dispatcher: a started job finishes (weak fairness on `OnJobFinished`, the
contract of `Job`), and a `Start` called by `SetLimits` returns. `AddAtHead` is
excluded, since jobs added at the head can pass a waiting job forever.

Pool: a call on the stack goes on (weak); a connect job ends, because it has a
timeout (`ConnectJob::OnTimeout`); the message loop runs posted tasks; clients
return their sockets. The last three are strong fairness because they wait for
the stack to be empty, which it is between any two calls. `RequestsAreServed`
needs one priority and two handles: a request can be starved by requests of
higher priority, and by other clients that pass the sockets of their own group
to each other, and the code does not promise otherwise.

Resolver: what is on the stack goes on (weak, `Return`), and lookups end (strong,
`LookupEnds`, since the stack must be empty for their results to arrive): system
lookups return and DNS transactions have timeouts. No fairness for clients.

Simple cache: the IO thread runs its tasks and the workers theirs (weak).

Controller: jobs end, posted and delayed tasks run, proxy resolution ends (weak,
`Progress`). The consumer is free to keep its request.

## 5. Findings

One run shows a violation: `rankings_twice`. `FinishInsert` clears the
transaction record before it calls `Insert`, which opens a new one. In the run the
insertion of a node into an empty list is interrupted after the tail was written;
a second crash comes in the recovery between clearing the record and opening the
new one. The start after that finds no record, and the list keeps the node as its
tail and has no head. The comment at `rankings.cc:40-42` says the
record "can be used to finish the operation".

The properties below were met while the modules were written: each states a
comment or a DCHECK of the code, and TLC finds a behaviour of the model that
contradicts it. They are not runs; the table says how to see them. Where the
property is one of those a run checks, its antecedent leaves the environment in
question out: drop the antecedent and use the instance given. Scenario fields
that are not named are those of `Plain` in the `MC` module.

| property | place | instance | what the code does |
|---|---|---|---|
| `ChangePriorityIsSafeFromStart` | `base/prioritized_dispatcher.cc:69` | any with two loops | "It is safe to execute any method" from within `Job::Start` (`.h:25-26`), but in the loop of `SetLimits` startable jobs are still queued when `Start` runs, and `ChangePriority` DCHECKs that there are none |
| `EmptyGroupsAreRemoved` | `socket/client_socket_pool_base.cc:581` | `pool` | an empty group is not always removed from the map (`.h:399-400` says it is); it goes with a later cleanup |
| `SetPriorityFindsRequest` | `socket/client_socket_pool_base.cc:1430` | `pool` | the NOTREACHED is reached when a request failed, its callback is pending, its group still exists and the client changes the priority |
| `TimerStopsOnlyWhenUseless` | `socket/client_socket_pool_base.cc:1416` | `pool` | `Group::SetPriority` of the only request stops the backup job timer, and nothing starts it again |
| `CounterIsPositive` | `disk_cache/blockfile/rankings.cc:925` | `rankings` | a crash between writing the head and counting leaves a size one too small; removing the last node meets size 0, against the DCHECK |
| `NoFilesLeaked` | `disk_cache/simple/simple_entry_impl.cc:1301` | faults `lazy` | a failed write to an omitted stream of a doomed entry removes the hash from the index, though a successor has files |
| `DoomsAreTracked` | `disk_cache/simple/simple_backend_impl.cc:292` | `iterate` | an iteration makes the entry it opened active while the hash is being doomed; dooming it is a second pending doom, against the DCHECK |
| `HeldEntriesAreFound` | `disk_cache/simple/simple_backend_impl.cc:432` | `iterate`, `optimistic`, 5 calls | an iteration makes its entry active while the hash is being doomed; an optimistic create then fails to insert its own, against the DCHECK, and hands out an entry nobody finds |
| `ClosedWhenUnheld` | `disk_cache/simple/simple_entry_impl.cc:1459` | `optimistic` FALSE, 4 calls | an open queued before the last `Close` runs before the files are closed: somebody holds an entry without files, against the DCHECK |
| `DestroyedWhenDone` | `disk_cache/simple/simple_entry_impl.cc:615` | `optimistic`, faults `lazy`, 7 calls, `NumEntries` 2 | an entry that failed goes on while its files are being closed and is opened again; a doom that ends late brings STATE_READY back, and the entry is destroyed in that state, against the DCHECK |
| `FilesAreNotShared` | `disk_cache/simple/simple_entry_impl.cc:736` | faults `io` | an open queued behind a failed create opens the files of the successor |
| `OnlyWritersSkipHeaders`, `WritersHaveNetwork`, `ErrorIsSet` | `http/http_cache_transaction.cc:1275` | 3 transactions, one bypasses (or extras `no-store`, or faults `disk`); for `ErrorIsSet` also 2, extras `post`, `no-store` | `done_headers_create_new_entry_` is not reset by a restart; the entry opened next is joined in READ_WRITE mode, against the DCHECK, by a transaction without network transaction |
| `PendingIsAlwaysFound` | `http/http_cache.cc:1220` | 3 transactions, faults `timeout` | the lock timeout fires between the removal from the queue and the posted ERR_CACHE_RACE: "Pending transaction not found" |
| `WritersHaveNetwork` | `http/http_cache_writers.cc:401` | 2 transactions, extras `metadata` | a transaction with a valid cached response and no network transaction becomes the first writer |
| `WaitersAreServed`, `EntriesAreUsed` | `http/http_cache.cc:925` | 3 transactions, size 2, resumable | when a truncated entry is kept, waiting transactions are not processed until another one touches the entry |
| `EndIsComplete` | `http/http_cache_transaction.cc:1809` | 2 transactions, size 2, resumable | headers updated after a 304 overwrite the truncated flag that a departed writer has just set |
| `EndIsComplete` | `http/http_cache_transaction.cc:429` | 2 transactions, size 2, extras `stop` | a late writer that stops caching is sent to the network though its offset is behind it |
| `ErrorIsSet` | `http/http_cache_writers.cc:521` | 2 transactions, faults `short` | writers removed because the connection ended short get the result 0, not an error |
| `NoMixedResponses` | `http/http_cache.cc:1166` | 2 transactions, size 2, resumable | while the last writer's truncated headers are written the writers are empty, so another transaction may write its headers; it is restarted before it cuts off the body, and leaves the new headers over the old body |
| `NoMixedResponses` | `http/http_cache_transaction.cc:1938` | 2 transactions, faults `disk` | the result of the truncation is ignored; when it failed the old body stays under the new headers, and is read from the cache |
| `ReadersOrWriters` | `http/http_cache.cc:842` | 3 transactions, extras `metadata` | one that kept READ_WRITE mode while there were writers, and then read the metadata, is made a writer though readers have come |
| `NotModifiedStaysInside` | `http/http_cache_transaction.cc:3008` | 2 transactions, faults `disk` | when the updated headers cannot be written, the 304 goes to the consumer |
| `OnlyTheFailedIsDoomed` | `http/http_cache.cc:992` | 3 transactions | an entry's failure dooms by key, and so the entry that has the key now (against `http_cache.h:380-382`) |
| `EvictedNeverRan` | `dns/host_resolver_impl.cc:1358` | 1 slot, `max_queued` 1, two families | a running job that waits for its second slot is evicted, against the DCHECK |
| `SecondIsQueued`, `SlotsAreExact`, `QueuedByPriority`, `NoDanglingJobs` | `dns/host_resolver_impl.cc:1447` | a reserved slot (for `NoDanglingJobs` also changes `ip`) | a job starts inside `ChangePriority` and queues its second slot; `UpdatePriority` overwrites that handle, and nothing takes the slot out of the queue when the job ends |
| `NoDanglingJobs` | `dns/host_resolver_impl.cc:1342` | changes `ip`, callbacks `cancel` | a callback cancels the last request of a job that `AbortAllInProgressJobs` has in its vector |
| `HostsIteratorIsValid` | `dns/host_resolver_impl.cc:2464` | changes `dns`, callbacks `cancel` | a callback erases the job the iterator points to ("iterator will remain valid") |
| `LookupsHaveSlots`, `SlotsAreExact`, `NoDanglingJobs` | `dns/host_resolver_impl.cc:1940` | 1 slot, `max_queued` 1, callbacks `resolve` | the callback of an evicted job resolves the key that `Resolve` is about to enter; its job is overwritten, and destroyed while it is in the dispatcher's queue |
| `HostsIteratorIsValid` | `dns/host_resolver_impl.cc:1358` | 6 requests, 4 keys, two families, 1 slot, `max_queued` 2, changes `dns`, callbacks `resolve` | the callback of a job that is served from the hosts file resolves until the queue overflows, and the job the iterator points to is evicted |
| `ResolvedWithClient` | `dns/host_resolver_impl.cc:2558` | changes `client` | the DNS client is removed while a fallback of its task runs, against the DCHECK |
| `OrphansHoldNothing` | `dns/host_resolver_impl.cc:2430` | changes `ip`, `destroy`; callbacks `destroy` | jobs in the vector are destroyed after the dispatcher that they give slots back to |
| `MarkedWhenServed` | `http/http_stream_factory_impl_job_controller.cc:973` | quic, direct | a service is reported as broken though the main job met a certificate error and nothing was served |
| `OnlyFailedAreMarked` | `http/http_stream_factory_impl_job_controller.cc:997` | quic, direct then proxy, others | the error of the attempt before is charged to an unknown service, against the DCHECK |
| `ReconsidersLastJob` | `http/http_stream_factory_impl_job_controller.cc:1289` | two proxies, `max_auth` 1 | after a request for credentials the main job fails while the orphan is alive, against the comment |
| `NothingIsLeaked` | `http/http_stream_factory_impl_job_controller.cc:1023` | preconnects | the controller of a preconnect whose proxy cannot be resolved is never deleted |
| `ResumeFindsWaitingJob` | `http/http_stream_factory_impl_job_controller.cc:571` | `prompt` FALSE | the delayed resumption finds no main job; the consumers in the repository destroy their requests in the callback, which nothing asks for |

## 6. Proofs

`PrioritizedDispatcherProofs` proves, for any set `Job`, any positive
`NumPriorities`, any set of legal `Limits` and any `MaxLoops`, the safety
properties the run `dispatcher` checks, from the three named assumptions of
`PrioritizedDispatcher`.

The inductive invariant `Inv` is the conjunction of the type invariant and the
four state properties. None of the four is inductive alone.
`RunningJobsAreCounted` needs `JobInOnePlace`: adding a job to `running` adds
one only if it was not there. `NoStartableJobQueued` needs
`RunningJobsAreCounted` and `HigherMayUseMore`: after `OnJobFinished` one slot
is free, and if the first job of the highest list may not use it, then, limits
being monotonic, no other job may; if it may, the number of running jobs is what
it was before. At the end of the loop of `SetLimits` the same argument applies
without knowing anything of the jobs queued before.

`HigherMayUseMore` and `LimitsRoundTrip` need what the recursive sums of
`SetLimits` compute. There is no induction over data here; the recursive
function is shown to satisfy its equation, and monotonicity follows by taking a
least counterexample (`LeastNat`). `DispatchesInOrder` follows from where
`FirstMax` stands in the queue (`HighestHeadIsAhead`).

`PriorityQueueProofs` holds the lemmas on the queue: what `Insert`,
`InsertAtFront` and `Erase` do to the values, that they keep a queue free of
duplicates, and where `FirstMax`, `FirstMin`, `PriorityOf` and `IndexOf` look.

The pool's theorems are in two modules, the second on top of the first. All
hold for any groups, handles, limits and any number of connections and flushes,
from `LimitsAssumption` and `ConstantsAssumption`, which say that a
group's limit is not above the pool's, that connections are finitely many, and that the value for
"none" is not the name of anything else.

`ClientSocketPoolProofs` first proves `SocketInOnePlace`, `OnlyCurrentGeneration`
and `BackupTimerHasJob`. The
inductive invariant `PoolInv` adds the types of the variables that say where
connections are, that the call on the stack works for a group that exists
(`FrameHasGroup`), and `IdsNotNewer`: no handle has the id of a generation to
come, and one without a socket has no id. `IdsNotNewer` is what makes a flush
final, since raising the generation must not turn the id of an old socket into a
current one. The two invariants on connections are proved together, since an
identity is used again: a socket whose generation is overwritten must be nowhere
else. Instead of one argument per action, two lemmas cover them: a step in which
connections only go away (`ShrunkKeeps`), and one that puts a single connection
in one new place (`PlacedKeeps`); each action is shown to be of one kind, or is
the flush.

Its second part proves `TypeOK`, `CountersAreExact` and `GroupsAreTracked`. These have to be proved together (`BookInv`, on top of
`PoolInv`): a group is removed when its counters say that it is empty, so that
nothing is lost only if the counters are exact; the counters stay exact only if
a request is in one place; and where a request is depends on the group being
there. The counters of the pool are sums over its groups, and change with one
group at a time: the lemmas on such sums need no induction, only that a union of
disjoint finite sets has the sum of their cardinalities.

`ClientSocketPoolWakeupProofs` proves `NoLostWakeup`, `BooksAreExact` and the
action property `LimitsAreRespected`. `NoLostWakeup` speaks of the moment when a
call returns; its inductive form `WakeInv` says of every state in between what
is still to be done: a group that wants a slot has no idle socket
(`IdleIsUnwanted`), the jobs counted as unassigned are spare (`SpareJobs`), and
while a group has room and a request without a job, either the pool is drained
(at its limit, without idle sockets) or the call on the stack has still to look
for stalled groups (`StaysAwake`). The argument is by counting: a step that
frees a slot is followed by the check, and a step that takes one leaves a
drained pool drained, because an idle socket that is closed makes no room in a
group that wants one. `LimitsAreRespected` uses the same counts (`Within`).

`JobControllerProofs` proves `JobsAreConsistent`, `AnsweredOnce` and
`ReportsAreRight` for any set of scenarios (proxies, kinds of alternative,
credentials, delays, number of attempts), from `ScenariosAssumption` alone. A
method of the controller is a composition of operators on its record, so
the invariant is stated on records and has layers. `CoreInv` holds at every
point of a method. `OpenInv` holds also while a request is being closed. Two
parts hold only between steps, and are what makes the rest inductive: an attempt
that another one follows leaves no delay of the main job behind (`DelayIsOver`),
and an alternative job that asks for credentials has resumed the main job before
(`ResumedFirst`). `AnsweredOnce` is proved with `AnswersInv`: once the consumer
has its answer the controller is quiet, no task that could report another one is
left, and an orphaned job has nobody to tell. `ReportsAreRight` needs `ReportsInv`:
the controller remembers the failure of its alternative service until it is
reported or the request goes away. To be proved about, cancelling a task takes
it out of the sequence by `RemoveAt`, and `CreateJobs` is split into the main
job and the alternatives.

`RankingsProofs` proves `ListsAreWellFormed`, `DiskIsUnderstood`,
`CountersDriftByCrashes` and the refinement `OperationsAreAtomic`, for any finite
set of nodes, any number of lists and any bound on crashes, from
`RankingsAssumption` and the hypothesis that `Init` itself is not interrupted
(`~ CrashInRecovery`). The run `rankings_twice` shows that without it the
theorems are false.

The argument goes by where things are on disk. For given lists, `HeadOf`,
`TailOf`, `NextOf` and `PrevOf` say what every link has to be; `Image` is the
same by location (the ends of a list, the two links of a node), and `Disk` is
what is there. An operation turns the lists `s` into `t`. Its writes are a
`Plan`: every location is as in `Image(s)` or as in `Image(t)`, and one write, to
the head for an insertion and to the node itself for a removal, commits: all that differs
has been written before it. That `InsertWrites` and `RemoveWrites` are plans, and
that this is still so of the writes that `FinishInsert` computes from a half-done
insertion, is the core of the proof; for a half-done removal, the writes of
`RevertWrites` restore every location that differs from `Image(s)` (`Covers`).

The inductive invariant `LruInv(a)` says that the lists, seen through the record,
are `a`, and which of six phases the disk and the process are in: no record and
the links of `a` (`Steady`), a record and nothing left to do (`Settled`), the
record being written by an operation or again by `Init` (`Starting`), the links
being written (`Working`), an interrupted operation (`Torn`), a removal
being taken back (`Undoing`). Each phase also bounds the drift of the counters.
Every step keeps `a` or changes it by one insertion or removal (`Moves`).

The properties speak of what a walk along `next` finds, and `Walk` is a recursive
function. `WalkFindsList` shows that on the links of proper lists it finds the
list, by the least step at which it would not. From it follows `Lists = a`, also
where the disk is between two images, and with `Moves` the refinement. For the
proof, `Walk` gives every prefix of the path, and `Lists` and `LruLists` cut a
sequence at an index and do not filter it.

`SimpleCacheProofs` proves `EntriesAreConsistent`, `DoomsAreTracked` and
`FilesAreSafe`, for any `NumEntries` and any scenarios, with any number of calls,
from `SimpleCacheAssumption`. The antecedents inside these properties (nobody
iterates, nothing fails) are those of section 4, and the findings of section 5
show that each is needed.

Every action is first shown to be one of a few forms of step (`Step`,
`NextIsStep`) that say what happens to the record of one entry: an operation is
queued, posted, its reply comes, the files are closed. What is proved after that
speaks of these forms only; most of them are `Tame`: they neither touch the
linked file nor change who may. The inductive invariant has four layers, each
proved with the help of those before.

- `AInv`: types, and of each record what its queue, state, task and file have to
  do with each other (`Sound`). What opens or creates stands before the doom in
  the queue (`Order`), and an optimistic create is the first operation. `Calm`
  holds if nothing fails; `Clean`, that state, task and file agree, also holds
  of the entries that are not doomed when operations may fail. It gives
  `DestroyedWhenDone`.
- `BInv`: without iteration an entry that is used and not doomed is the active
  one, and while a doom is pending the active one, if any, waits to be created
  (`FoundOnly`); with iteration, `FoundIterating` is what is left. It gives
  `HeldEntriesAreFound`.
- `CInv`: the hash is in `entries_pending_doom_` exactly when the doom is in one
  of three places, in one entry, in a call of `OnDoomComplete`, or in the doom of
  files not in use (`OneDoom`, `NoDooms`). It gives `DoomsAreTracked`.
- `FInv`: at most one entry is `Current`, that is, may still work on the linked
  file (`Alone`); those that are not have other files (`RetiredAreApart`); if no
  file is linked the current entry has yet to be created, and what opens it
  is queued behind that (`Unlinked`). A file
  that a create makes is new to all entries, which is where the number of files
  matters: three per entry and one more (`FreshFileIs`, by cardinality). With it
  `LInv` says when the index may lack the hash of a linked file: only while a
  doom is pending, or `DoomEntries` has taken it out and its doom waits
  (`HashWaits`). Both give `FilesAreSafe`.

The proof changed the model in two places. `Fresh` is a choice from the unused
entries, as a new object is. `DestroyedWhenDone` claimed the DCHECK on
STATE_READY in all environments; its induction failed, and the table in section 5
has the behaviour that shows why.

`HostResolverProofs` proves `NothingIsStale` and `JobsMatchRequests` for any
requests, keys, priorities, limits, scenarios and number of changes, from
`HostResolverAssumption`. The
properties speak mostly of the moments when the stack is empty, so the inductive
invariant `ResolverInv` says of every other state which call on the stack has
still to put things right:

- `OldAreEnded`: a lookup from before the last change has a call that ends it
  (`Ends`: the completion or the destruction of its job, or the loop of
  `AbortAllInProgressJobs` that has the job in its list). `DnsIsEnded` says the same of
  a DnsTask without a configuration, which `AbortDnsTasks` may also end.
- `UsesAreFresh`: what a call on the stack will report as a success, cache, or
  look up again is of now, which is why `CompleteRequests` may fill the cache
  (`CacheIsFresh`) although other calls come in between.
- `Known`: a job that lives is in `jobs_` or owned by a call. A change of the
  network aborts what it finds in `jobs_`; a job that is not there, because it is
  being created, evicted or completed, would escape it otherwise.
- `JobsAreRight`, `Left`, `EntersFirst`: jobs in `jobs_` are alive and at their keys; one
  that a call will delete is not there and will not enter. This is the one place
  where the order of the stack matters: `Resolve` puts a new job into `jobs_` after
  the eviction whose callbacks it ran, and what may delete the job is above it.
- `JoinInv`, for `JobsMatchRequests`: the lists of requests are right at every
  moment (`ListsAreRight`); a request that `Resolve` has not told yet has its call
  on the stack (`BusyEnter`); a job without requests is owned by a call that gives
  it one or deletes it (`EmptyAreOwned`); and a job that has told some of its
  requests is telling the others (`PoppedAreTold`), which is why the last
  cancellation may delete a job only if `num_active_requests` also counts those.
  It needs `Left` and `EntersFirst`, since the owner must not be gone before.
- `OnlyBorn`, `Lives`: the queue, the calls and the waiting requests speak of
  jobs that were created.

All else about the stack depends only on the set of calls in it (`Frames`). One
lemma (`Proceeding`) covers the steps: it replaces the call on top by others that
take over what that one had to do (`TakeOver`), changes one job, and leaves
`jobs_`, the requests and the cache within stated limits; each action is shown to
be such a step, with the calls it makes. Of the dispatcher the proof uses only
what its methods may queue and start (`DispatcherDoes`). For the proof, `JobsAt`
orders jobs by the rank of their keys, instead of by a sorting operator, and
`CancelRequest` removes the one occurrence of the request from its list.

Only model-checked: the other invariants of `HostResolver` (`DispatcherMatchesJobs`
and `NoDanglingPointers`), those of `HttpCacheEntry`, and
all liveness. Liveness under fairness is out of
the prover's reach, and so is induction over data, which is why no theorem says
what `Erase` or `SetLimits` computes for every input beyond the lemmas above.

## 7. Mutants

Every property of a passing run has a mutant, defined just before the definition
it mutates and marked as such: a dropped guard, an off-by-one, a missing call or
count. TLC finds the property violated when the mutant takes the place of the
definition.

## 8. Not modelled

`PROJECT.json` gives the reason for each component. In short:

- next in the plan (section 2): the layered pools, the closing handshake of
  `WebSocketChannel`, SPDY flow control, reporting, `BackoffEntry`;
- parsers, encoders and header rules (HTTP, HTTP/2 and HPACK, DNS messages, DER,
  cookies, filters, FTP replies): sequential code over bytes, where a model would
  repeat the program;
- thin layers over the operating system or a library (sockets, TLS, Android
  glue), and layers that forward (URLRequest);
- statistics over wall-clock time (network quality estimator);
- QUIC: imported code with its own simulator; its stream factory and flow control
  are candidates after SPDY.

What is left out inside a modelled component is said in its part of section 3.
