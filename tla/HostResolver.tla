---------------------------- MODULE HostResolver ----------------------------
(***************************************************************************)
(* dns/host_resolver_impl.cc: HostResolverImpl, its Jobs, and the use they *)
(* make of the PrioritizedDispatcher.                                      *)
(*                                                                         *)
(* A Job looks up one key for all the requests that ask for it.  It takes  *)
(* a slot of the dispatcher, and a second one, queued at the head, for the *)
(* second transaction of a DnsTask.  Completing requests runs their        *)
(* callbacks, which may call the resolver again; so may the dispatcher,    *)
(* which starts jobs from within its methods.  calls is the stack of that  *)
(* thread: what is left to be done, the first first.                       *)
(*                                                                         *)
(* A Job is known by the request it was created for, and its submissions   *)
(* to the dispatcher are its slots <<job, 1>> and <<job, 2>>.  The actions *)
(* of the dispatcher are those of its own module.                          *)
(***************************************************************************)
EXTENDS PriorityQueue

CONSTANTS
  Request,        \* the requests; a Job has the name of its first request
  NoRequest,      \* the null pointer to a Job
  NumKeys,        \* the keys are 1 .. NumKeys, in the order of jobs_
  NumPriorities,
  Scenarios       \* the options of the resolver and what happens to it

\* A scenario: the requests, keys and priorities that are used, the keys of
\* ADDRESS_FAMILY_UNSPECIFIED; options.GetDispatcherLimits(), max_queued_jobs_,
\* kMaximumDnsFailures and fallback_to_proctask_; a bound on the changes of the
\* network or of its configuration, which of them happen, and which calls the
\* callbacks of requests make.
ASSUME HostResolverAssumption ==
  /\ NoRequest \notin Request
  /\ NumKeys \in Nat \ {0}
  /\ NumPriorities \in Nat \ {0}
  /\ \A s \in Scenarios :
       /\ s.requests \subseteq Request
       /\ s.keys \subseteq 1 .. NumKeys /\ s.two_families \subseteq s.keys
       /\ s.system_only \subseteq s.keys
       /\ s.priorities \subseteq 0 .. NumPriorities - 1
       /\ s.max_queued \in Nat \ {0} /\ s.max_failures \in Nat \ {0}
       /\ s.fallback \in BOOLEAN
       /\ s.max_changes \in Nat
       /\ s.changes \subseteq {"ip", "dns", "client", "destroy"}
       /\ s.reentrant \subseteq {"resolve", "cancel", "destroy"}

Key == 1 .. NumKeys
Slot == Request \X {1, 2}
MaxLoops == 1

VARIABLES
  queue, max_running_jobs, num_running_jobs, running, loops,  \* dispatcher_
  jobs,       \* jobs_: the job of each key, or NoRequest
  job,        \* per request: the Job created for it
  req,        \* per request: the RequestImpl
  cache,      \* per key: the change after which its cached lookup began, or -1
  config,     \* "none": no dns_client_; "off": it has no config; "on"
  failures,   \* num_dns_failures_
  around,     \* how many changes there were, and the scenario
  destroyed,  \* the resolver is gone
  calls

dispatcher == <<queue, max_running_jobs, num_running_jobs, running, loops>>
resolver == <<jobs, cache, config, failures, around, destroyed>>
vars == <<dispatcher, resolver, job, req, calls>>

changes == around.changes
TwoFamilies == around.scenario.two_families
SystemOnly == around.scenario.system_only
MaxQueued == around.scenario.max_queued
MaxFailures == around.scenario.max_failures
Fallback == around.scenario.fallback
MaxChanges == around.scenario.max_changes
Changes == around.scenario.changes
Reentrant == around.scenario.reentrant

D == INSTANCE PrioritizedDispatcher WITH
       Job <- Slot, Limits <- {s.limits : s \in Scenarios}

Priority == 0 .. NumPriorities - 1

NoJob == [status |-> "unborn", key |-> 1, prio |-> 0, requests |-> <<>>,
          popped |-> 0, handle |-> FALSE, slots |-> 0, task |-> "none",
          a |-> "none", aaaa |-> "none", dns_error |-> FALSE, since |-> 0]

NewRequest == [state |-> "new", job |-> NoRequest, prio |-> 0]

-----------------------------------------------------------------------------
(* The stack.                                                              *)

Start(s) == [call |-> "start", slot |-> s]
ClearHandle(j) == [call |-> "clear handle", j |-> j]
Overflow(r) == [call |-> "overflow", j |-> r]
Attach(r, evicted) == [call |-> "attach", j |-> r, evicted |-> evicted]
Complete(j, result) == [call |-> "complete", j |-> j, result |-> result]
FinishSlot(j) == [call |-> "finish slot", j |-> j]
Callbacks(j, result) == [call |-> "callbacks", j |-> j, result |-> result]
StartProc(j) == [call |-> "start proc", j |-> j]
Second(j) == [call |-> "second", j |-> j]
Destroy(j) == [call |-> "destroy", j |-> j]
DestroyOrphan(j) == [call |-> "destroy orphan", j |-> j]
AbortJobs(js) == [call |-> "abort", js |-> js]
AbortDns(js) == [call |-> "abort dns", js |-> js]
Restore(limits) == [call |-> "restore", limits |-> limits]
Hosts(j) == [call |-> "hosts", j |-> j]
Callback == [call |-> "callback"]
LimitsLoop == [call |-> "limits loop"]
HostsBegin == [call |-> "hosts begin"]

Ready == calls = <<>>
Calling(what) == calls # <<>> /\ Head(calls).call = what
Rest == Tail(calls)

\* The client runs: on its own, or called back.
ClientMay(what) ==
  /\ ~ destroyed
  /\ Ready \/ (Calling("callback") /\ what \in Reentrant)

\* The Start of the job that the dispatcher has just taken, if any.
Started == [i \in 1 .. Cardinality(running' \ running) |->
              Start(CHOOSE s \in running' \ running : TRUE)]

IsRunning(j) == job[j].task # "none"

-----------------------------------------------------------------------------
(* Jobs.                                                                   *)

\* Mutant of ReduceToOneJobSlot: a second slot that waits is forgotten.
ReduceToOneJobSlotRunning(j) ==
  \/ job[j].slots > 1 /\ D!OnJobFinished(<<j, 2>>)
  \/ job[j].slots <= 1 /\ UNCHANGED dispatcher

\* ReduceToOneJobSlot, its effect on the dispatcher.
ReduceToOneJobSlot(j) ==
  \/ job[j].handle /\ D!Cancel(<<j, 2>>)
  \/ ~ job[j].handle /\ job[j].slots > 1 /\ D!OnJobFinished(<<j, 2>>)
  \/ ~ job[j].handle /\ job[j].slots <= 1 /\ UNCHANGED dispatcher

\* ... and on the job.
Reduced(b) == [b EXCEPT !.handle = FALSE, !.slots = 1]

\* KillDnsTask, of the job.
Killed(b) == [Reduced(b) EXCEPT !.task = "none", !.a = "none", !.aaaa = "none"]

\* Job::UpdatePriority, job j being b but for its priority: the dispatcher may
\* start the job at once, and returns a null handle then.
UpdatePriority(j, b, then) ==
  LET s == <<j, b.slots + 1>> IN
  IF b.handle /\ PriorityOf(queue, s) # b.prio
    THEN /\ D!ChangePriority(s, b.prio)
         /\ calls' = Started \o (IF running' = running THEN <<>> ELSE <<ClearHandle(j)>>)
                             \o then
    ELSE /\ calls' = then
         /\ UNCHANGED dispatcher

\* The assignment of the null handle that ChangePriority returned.
HandleCleared ==
  /\ Calling("clear handle")
  /\ job' = [job EXCEPT ![Head(calls).j].handle = FALSE]
  /\ calls' = Rest
  /\ UNCHANGED <<dispatcher, resolver, req>>

\* Job::Start, with StartDnsTask, StartProcTask and StartSecondDnsTransaction.
StartJob ==
  /\ Calling("start")
  /\ LET j == Head(calls).slot[1]
         b == [job[j] EXCEPT !.handle = FALSE, !.slots = @ + 1]
         first == [b EXCEPT !.since = changes]
         dns == [first EXCEPT !.task = "dns", !.a = "started"] IN
     \/ /\ b.slots = 2
        /\ job' = [job EXCEPT ![j] = [b EXCEPT !.aaaa = "started"]]
        /\ calls' = Rest
        /\ UNCHANGED dispatcher
     \/ /\ b.slots = 1 /\ (config # "on" \/ b.key \in SystemOnly)
        /\ job' = [job EXCEPT ![j] = [first EXCEPT !.task = "proc"]]
        /\ calls' = Rest
        /\ UNCHANGED dispatcher
     \/ /\ b.slots = 1 /\ config = "on" /\ b.key \notin TwoFamilies \cup SystemOnly
        /\ job' = [job EXCEPT ![j] = dns]
        /\ calls' = Rest
        /\ UNCHANGED dispatcher
     \/ /\ b.slots = 1 /\ config = "on" /\ b.key \in TwoFamilies \ SystemOnly
        /\ D!AddAtHead(<<j, 2>>, b.prio)
        /\ job' = [job EXCEPT ![j] = [dns EXCEPT !.handle = running' = running]]
        /\ calls' = Started \o Rest
  /\ UNCHANGED <<resolver, req>>

\* StartProcTask after the end of a DnsTask.
ProcStarted ==
  /\ Calling("start proc")
  /\ job' = [job EXCEPT ![Head(calls).j].task = "proc"]
  /\ calls' = Rest
  /\ UNCHANGED <<dispatcher, resolver, req>>

RemoveJob(j) == [k \in Key |-> IF jobs[k] = j THEN NoRequest ELSE jobs[k]]

\* Job::CompleteRequests, up to the end of the lookup.
CompleteRequests ==
  /\ Calling("complete")
  /\ LET j == Head(calls).j
         b == job[j]
         callbacks == Callbacks(j, Head(calls).result) IN
     /\ jobs' = RemoveJob(j)
     /\ \/ /\ b.task = "dns"
           /\ ReduceToOneJobSlot(j)
           /\ job' = [job EXCEPT ![j] = Killed(b)]
           /\ calls' = Started \o <<FinishSlot(j), callbacks>> \o Rest
        \/ /\ b.task = "proc"
           /\ job' = [job EXCEPT ![j].task = "none"]
           /\ calls' = <<FinishSlot(j), callbacks>> \o Rest
           /\ UNCHANGED dispatcher
        \/ /\ b.task = "none" /\ b.handle
           /\ D!Cancel(<<j, 1>>)
           /\ job' = [job EXCEPT ![j].handle = FALSE]
           /\ calls' = <<callbacks>> \o Rest
        \/ /\ b.task = "none" /\ ~ b.handle
           /\ calls' = <<callbacks>> \o Rest
           /\ UNCHANGED <<dispatcher, job>>
  /\ UNCHANGED <<cache, config, failures, around, destroyed, req>>

\* Signal dispatcher that a slot has opened.
SlotFinished ==
  /\ Calling("finish slot")
  /\ D!OnJobFinished(<<Head(calls).j, 1>>)
  /\ job' = [job EXCEPT ![Head(calls).j].slots = 0]
  /\ calls' = Started \o Rest
  /\ UNCHANGED <<resolver, req>>

\* Mutant of NumActive: the priority tracker still counts the cancelled request.
NumActiveUntracked(b) == Len(b.requests) + b.popped + 1

\* num_active_requests: those who had their callback still count.
NumActive(b) == Len(b.requests) + b.popped

\* The destructor of job j: its remaining requests hear nothing.
Deleted(j, state) ==
  /\ job' = [job EXCEPT ![j] = [@ EXCEPT !.status = "deleted", !.task = "none",
                                         !.requests = <<>>]]
  /\ req' = [r \in Request |-> IF r \in ToSet(job[j].requests)
               THEN [req[r] EXCEPT !.state = state, !.job = NoRequest] ELSE req[r]]

\* Job::CompleteRequests, one request at a time; the job deletes itself.
RunCallbacks ==
  /\ Calling("callbacks")
  /\ LET j == Head(calls).j
         b == job[j]
         result == Head(calls).result
         r == Head(b.requests) IN
     IF b.requests = <<>> \/ destroyed
       THEN /\ Deleted(j, "cancelled")
            /\ calls' = Rest
            /\ UNCHANGED cache
       ELSE /\ job' = [job EXCEPT ![j].requests = Tail(@), ![j].popped = @ + 1]
            /\ req' = [req EXCEPT ![r].state = result, ![r].job = NoRequest]
            /\ cache' = IF b.popped = 0 /\ result = "ok"
                          THEN [cache EXCEPT ![b.key] = b.since] ELSE cache
            /\ calls' = <<Callback>> \o calls
  /\ UNCHANGED <<dispatcher, jobs, config, failures, around, destroyed>>

\* The callback returns.
CallbackReturns ==
  /\ Calling("callback")
  /\ calls' = Rest
  /\ UNCHANGED <<dispatcher, resolver, job, req>>

\* The destructor of a Job that jobs_ owned.  Only the requests of a resolver
\* that is destroyed know that they are cancelled.
DestroyJob ==
  /\ Calling("destroy")
  /\ LET j == Head(calls).j IN
     /\ IF job[j].task = "dns"
          THEN ReduceToOneJobSlot(j) ELSE UNCHANGED dispatcher
     /\ Deleted(j, IF destroyed THEN "cancelled" ELSE "dropped")
     /\ calls' = Started \o Rest
  /\ UNCHANGED resolver

\* The destructor of a Job when its resolver is gone already: it may not use
\* the dispatcher any more.
DestroyOrphanJob ==
  /\ Calling("destroy orphan")
  /\ LET j == Head(calls).j IN
     /\ job[j].task = "dns" => ~ job[j].handle /\ job[j].slots = 1
     /\ Deleted(j, "cancelled")
  /\ calls' = Rest
  /\ UNCHANGED <<dispatcher, resolver>>

-----------------------------------------------------------------------------
(* Requests.                                                               *)

\* Job::AddRequest, of request r with priority p to job j, which is b.
AddRequest(j, b, r, p) ==
  LET added == [b EXCEPT !.requests = Append(@, r), !.prio = Max({@, p})] IN
  /\ job' = [job EXCEPT ![j] = added]
  /\ req' = [req EXCEPT ![r] = [state |-> "pending", job |-> j, prio |-> p]]
  /\ UpdatePriority(j, added, IF Ready THEN <<>> ELSE
                              IF Calling("callback") THEN calls ELSE Rest)

\* ResolveHelper: the cache answers, or the hosts file of the configuration.
ResolveHelper(r, k) ==
  /\ cache[k] # -1 \/ config = "on"
  /\ req' = [req EXCEPT ![r].state = "ok"]
  /\ UNCHANGED <<dispatcher, job, calls>>

\* HostResolverImpl::Resolve, up to the check for queue overflow.
Resolve(r, k, p) ==
  /\ ClientMay("resolve")
  /\ req[r].state = "new"
  /\ \/ ResolveHelper(r, k)
     \/ /\ cache[k] = -1 /\ jobs[k] # NoRequest
        /\ AddRequest(jobs[k], job[jobs[k]], r, p)
     \/ /\ cache[k] = -1 /\ jobs[k] = NoRequest
        /\ D!Add(<<r, 1>>, p)
        /\ job' = [job EXCEPT ![r] =
             [NoJob EXCEPT !.status = "alive", !.key = k, !.prio = p,
                           !.handle = running' = running]]
        /\ req' = [req EXCEPT ![r] = [state |-> "busy", job |-> NoRequest, prio |-> p]]
        /\ calls' = Started \o <<Overflow(r)>> \o calls
  /\ UNCHANGED resolver

\* Check for queue overflow, with Job::OnEvicted.
EvictOnOverflow ==
  /\ Calling("overflow")
  /\ LET r == Head(calls).j
         e == FirstMin(queue)[1] IN
     IF size(queue) > MaxQueued
       THEN /\ D!EvictOldestLowest
            /\ job' = [job EXCEPT ![e].handle = FALSE]
            /\ calls' = <<Complete(e, "evicted"), Attach(r, e)>> \o Rest
       ELSE /\ calls' = <<Attach(r, NoRequest)>> \o Rest
            /\ UNCHANGED <<dispatcher, job>>
  /\ UNCHANGED <<resolver, req>>

\* The rest of Resolve.  jobs_ owns the job from here on; one that a nested
\* Resolve has put there is destroyed first.
AttachRequest ==
  /\ Calling("attach")
  /\ LET r == Head(calls).j
         k == job[r].key IN
     IF Head(calls).evicted = r
       THEN /\ req' = [req EXCEPT ![r].state = "evicted"]
            /\ calls' = Rest
            /\ UNCHANGED <<dispatcher, job, jobs>>
       ELSE /\ job[r].status = "alive"
            /\ IF jobs[k] = NoRequest
                 THEN /\ jobs' = [jobs EXCEPT ![k] = r]
                      /\ AddRequest(r, job[r], r, req[r].prio)
                 ELSE /\ jobs' = [jobs EXCEPT ![k] = NoRequest]
                      /\ calls' = <<Destroy(jobs[k])>> \o calls
                      /\ UNCHANGED <<dispatcher, job, req>>
  /\ UNCHANGED <<cache, config, failures, around, destroyed>>

\* The destructor of a request, with Job::CancelRequest.
CancelRequest(r) ==
  /\ ClientMay("cancel")
  /\ req[r].state = "pending"
  /\ req' = [req EXCEPT ![r].state = "cancelled", ![r].job = NoRequest]
  /\ LET j == req[r].job
         left == RemoveFirst(job[j].requests, r)
         b == [job[j] EXCEPT !.requests = left,
                 !.prio = Max({0} \cup {req[q].prio : q \in ToSet(left)})] IN
     /\ job' = [job EXCEPT ![j] = b]
     /\ IF NumActive(b) > 0
          THEN UpdatePriority(j, b, calls)
          ELSE /\ calls' = <<Complete(j, "cancelled")>> \o calls
               /\ UNCHANGED dispatcher
  /\ UNCHANGED resolver

\* ChangeRequestPriority.
ChangeRequestPriority(r, p) ==
  /\ Ready
  /\ req[r].state = "pending" /\ req[r].prio # p
  /\ req' = [req EXCEPT ![r].prio = p]
  /\ LET j == req[r].job
         b == [job[j] EXCEPT !.prio =
                 Max({p} \cup {req[q].prio : q \in ToSet(job[j].requests) \ {r}})] IN
     /\ job' = [job EXCEPT ![j] = b]
     /\ UpdatePriority(j, b, <<>>)
  /\ UNCHANGED resolver

-----------------------------------------------------------------------------
(* Lookups.                                                                *)

\* OnTransactionComplete, of transaction t of the DnsTask of j, with
\* OnFirstDnsTransactionComplete, OnDnsTaskComplete and OnDnsTaskFailure.
\* Sorting the addresses is part of the transaction that ends last.
TransactionComplete(j, t, ok) ==
  /\ Ready
  /\ job[j].task = "dns" /\ job[j][t] = "started"
  /\ LET b == [job[j] EXCEPT ![t] = "done"]
         first == b.key \in TwoFamilies /\ {b.a, b.aaaa} # {"done"} IN
     \/ /\ ~ ok /\ Fallback
        /\ ReduceToOneJobSlot(j)
        /\ job' = [job EXCEPT ![j] = [Killed(b) EXCEPT !.dns_error = TRUE]]
        /\ calls' = Started \o <<StartProc(j)>>
        /\ UNCHANGED failures
     \/ /\ ~ ok /\ ~ Fallback
        /\ job' = [job EXCEPT ![j] = [b EXCEPT !.dns_error = TRUE]]
        /\ calls' = <<Complete(j, "failed")>>
        /\ UNCHANGED <<dispatcher, failures>>
     \/ /\ ok /\ first
        /\ ReduceToOneJobSlot(j)
        /\ job' = [job EXCEPT ![j] = Reduced(b)]
        /\ calls' = Started \o <<Second(j)>>
        /\ UNCHANGED failures
     \/ /\ ok /\ ~ first
        /\ job' = [job EXCEPT ![j] = b]
        /\ failures' = 0
        /\ \E result \in {"ok", "failed"} : calls' = <<Complete(j, result)>>
        /\ UNCHANGED dispatcher
  /\ UNCHANGED <<jobs, cache, config, around, destroyed, req>>

\* The slot of the first transaction is used for the second.
SecondStarted ==
  /\ Calling("second")
  /\ job' = [job EXCEPT ![Head(calls).j].aaaa = IF @ = "none" THEN "started" ELSE @]
  /\ calls' = Rest
  /\ UNCHANGED <<dispatcher, resolver, req>>

\* The jobs of a set of keys, in the order of jobs_.
JobsAt(keys) ==
  [i \in 1 .. Cardinality(keys) |->
     jobs[CHOOSE k \in keys : Cardinality({l \in keys : l <= k}) = i]]

\* AbortDnsTasks, and what is done after it.
AbortDnsTasks(then) ==
  LET dns == {k \in Key : jobs[k] # NoRequest /\ job[jobs[k]].task = "dns"} IN
  /\ D!SetLimitsToZero
  /\ calls' = <<AbortDns(JobsAt(dns)), Restore(D!GetLimits)>> \o then

\* OnProcTaskComplete of j, with OnDnsTaskResolve.  An ICANN name collision
\* fails the requests too, although the lookup went well.
OnProcTaskComplete(j, ok) ==
  /\ Ready
  /\ job[j].task = "proc"
  /\ \E result \in IF ok THEN {"ok", "failed"} ELSE {"failed"} :
     \/ /\ ok /\ job[j].dns_error /\ failures + 1 >= MaxFailures
        /\ failures' = MaxFailures
        /\ config # "none"
        /\ config' = "off"
        /\ AbortDnsTasks(<<Complete(j, result)>>)
     \/ /\ ok /\ job[j].dns_error /\ failures + 1 < MaxFailures
        /\ failures' = failures + 1
        /\ calls' = <<Complete(j, result)>>
        /\ UNCHANGED <<dispatcher, config>>
     \/ /\ ~ (ok /\ job[j].dns_error)
        /\ calls' = <<Complete(j, result)>>
        /\ UNCHANGED <<dispatcher, config, failures>>
  /\ UNCHANGED <<jobs, job, req, cache, around, destroyed>>

\* Job::AbortDnsTask, of one job after the other.
DnsTaskAborted ==
  /\ Calling("abort dns")
  /\ LET js == Head(calls).js
         j == Head(js) IN
     IF js = <<>>
       THEN /\ calls' = Rest
            /\ UNCHANGED <<dispatcher, job>>
       ELSE /\ ReduceToOneJobSlot(j)
            /\ job' = [job EXCEPT ![j] = [Killed(@) EXCEPT !.dns_error = FALSE,
                                                           !.task = "proc"]]
            /\ calls' = Started \o <<AbortDns(Tail(js))>> \o Rest
  /\ UNCHANGED <<resolver, req>>

\* The limits of the dispatcher are set again.
LimitsRestored ==
  /\ Calling("restore") /\ ~ destroyed
  /\ D!SetLimits(Head(calls).limits)
  /\ calls' = Started \o (IF loops' > loops THEN <<LimitsLoop>> ELSE <<>>) \o Rest
  /\ UNCHANGED <<resolver, job, req>>

LimitsLoopGoesOn ==
  /\ Calling("limits loop")
  /\ D!SetLimitsLoop
  /\ calls' = Started \o (IF loops' = loops THEN <<LimitsLoop>> ELSE <<>>) \o Rest
  /\ UNCHANGED <<resolver, job, req>>

-----------------------------------------------------------------------------
(* Changes.                                                                *)

\* Mutant of AbortAllInProgressJobs: jobs_ keeps the jobs until they complete.
AbortAllAndKeep(then) ==
  LET busy == {k \in Key : jobs[k] # NoRequest /\ IsRunning(jobs[k])} IN
  /\ D!SetLimitsToZero
  /\ calls' = <<AbortJobs(JobsAt(busy)), Restore(D!GetLimits)>> \o then
  /\ UNCHANGED jobs

\* Mutant of AbortAllInProgressJobs: the calls of the system's resolver go on.
AbortAllDns(then) ==
  LET busy == {k \in Key : jobs[k] # NoRequest /\ job[jobs[k]].task = "dns"} IN
  /\ jobs' = [k \in Key |-> IF k \in busy THEN NoRequest ELSE jobs[k]]
  /\ D!SetLimitsToZero
  /\ calls' = <<AbortJobs(JobsAt(busy)), Restore(D!GetLimits)>> \o then

\* Mutant of AbortAllInProgressJobs: the dispatcher stays paused.
AbortAllAndPause(then) ==
  LET busy == {k \in Key : jobs[k] # NoRequest /\ IsRunning(jobs[k])} IN
  /\ jobs' = [k \in Key |-> IF k \in busy THEN NoRequest ELSE jobs[k]]
  /\ D!SetLimitsToZero
  /\ calls' = <<AbortJobs(JobsAt(busy))>> \o then

\* AbortAllInProgressJobs, and what is done after it.
AbortAllInProgressJobs(then) ==
  LET busy == {k \in Key : jobs[k] # NoRequest /\ IsRunning(jobs[k])} IN
  /\ jobs' = [k \in Key |-> IF k \in busy THEN NoRequest ELSE jobs[k]]
  /\ D!SetLimitsToZero
  /\ calls' = <<AbortJobs(JobsAt(busy)), Restore(D!GetLimits)>> \o then

\* Job::Abort, of one job after the other.
JobAborted ==
  /\ Calling("abort")
  /\ LET js == Head(calls).js IN
     calls' = IF destroyed THEN [i \in DOMAIN js |-> DestroyOrphan(js[i])] \o Rest
              ELSE IF js = <<>> THEN Rest
              ELSE <<Complete(Head(js), "network changed"), AbortJobs(Tail(js))>> \o Rest
  /\ UNCHANGED <<dispatcher, resolver, job, req>>

\* HostCache::OnNetworkChange: what is cached is not served any more.
NetworkChange ==
  /\ Ready /\ ~ destroyed
  /\ changes < MaxChanges
  /\ around' = [around EXCEPT !.changes = @ + 1]
  /\ cache' = [k \in Key |-> -1]

OnIPAddressChanged ==
  /\ NetworkChange
  /\ AbortAllInProgressJobs(<<>>)
  /\ UNCHANGED <<config, failures, destroyed, job, req>>

\* OnDNSChanged, with UpdateDNSConfig; the new config may be invalid.
OnDNSChanged(valid) ==
  /\ NetworkChange
  /\ failures' = 0
  /\ config' = IF config = "none" THEN "none" ELSE IF valid THEN "on" ELSE "off"
  /\ AbortAllInProgressJobs(<<HostsBegin>>)
  /\ UNCHANGED <<destroyed, job, req>>

\* The iterator of TryServingAllJobsFromHosts, at the first key of a set.
HostsAt(keys) == LET ks == {k \in keys : jobs[k] # NoRequest} IN
                 IF ks = {} THEN <<>> ELSE <<Hosts(jobs[Min(ks)])>>

TryServingAllJobsFromHosts ==
  /\ Calling("hosts begin") /\ ~ destroyed
  /\ calls' = (IF config = "on" THEN HostsAt(Key) ELSE <<>>) \o Rest
  /\ UNCHANGED <<dispatcher, resolver, job, req>>

\* Job::ServeFromHosts: the iterator is moved on before the requests complete.
ServeFromHosts(served) ==
  /\ Calling("hosts") /\ ~ destroyed
  /\ LET j == Head(calls).j
         k == job[j].key IN
     /\ jobs[k] = j
     /\ calls' = (IF served THEN <<Complete(j, "ok")>> ELSE <<>>)
                 \o HostsAt(k + 1 .. NumKeys) \o Rest
     /\ job' = IF served THEN [job EXCEPT ![j].since = changes] ELSE job
  /\ UNCHANGED <<dispatcher, resolver, req>>

\* SetDnsClientEnabled, with SetDnsClient.  The config may be invalid.
SetDnsClientEnabled(valid) ==
  /\ Ready /\ ~ destroyed
  /\ \/ /\ config # "none"
        /\ config' = "none"
        /\ UNCHANGED failures
     \/ /\ config = "none"
        /\ config' = IF failures < MaxFailures /\ valid THEN "on" ELSE "off"
        /\ failures' = IF failures < MaxFailures THEN 0 ELSE failures
  /\ AbortDnsTasks(<<>>)
  /\ UNCHANGED <<jobs, cache, around, destroyed, job, req>>

\* The destructor of the resolver.  Resolve has no life check: a callback it
\* makes, on an eviction, does not do this.
DestroyResolver ==
  /\ ClientMay("destroy")
  /\ \A i \in DOMAIN calls : calls[i].call # "attach"
  /\ D!SetLimitsToZero
  /\ LET js == JobsAt({k \in Key : jobs[k] # NoRequest}) IN
     calls' = [i \in DOMAIN js |-> Destroy(js[i])] \o calls
  /\ jobs' = [k \in Key |-> NoRequest]
  /\ destroyed' = TRUE
  /\ UNCHANGED <<cache, config, failures, around, job, req>>

\* "Life check to bail once |this| is deleted."
LifeCheck ==
  /\ destroyed
  /\ Calling("restore") \/ Calling("hosts begin") \/ Calling("hosts")
  /\ calls' = Rest
  /\ UNCHANGED <<dispatcher, resolver, job, req>>

-----------------------------------------------------------------------------
Init ==
  /\ \E s \in Scenarios :
       /\ around = [changes |-> 0, scenario |-> s]
       /\ max_running_jobs = D!MaxRunningJobs(s.limits)
  /\ D!Init
  /\ jobs = [k \in Key |-> NoRequest]
  /\ job = [r \in Request |-> NoJob]
  /\ req = [r \in Request |-> NewRequest]
  /\ cache = [k \in Key |-> -1]
  /\ config \in {"none", "off", "on"}
  /\ failures = 0
  /\ destroyed = FALSE
  /\ calls = <<>>

\* What the thread does next by itself.
Return ==
  \/ HandleCleared \/ StartJob \/ ProcStarted \/ CompleteRequests \/ SlotFinished
  \/ RunCallbacks \/ CallbackReturns \/ DestroyJob \/ DestroyOrphanJob \/ LifeCheck
  \/ EvictOnOverflow \/ AttachRequest \/ SecondStarted
  \/ DnsTaskAborted \/ LimitsRestored \/ LimitsLoopGoesOn \/ JobAborted
  \/ TryServingAllJobsFromHosts
  \/ \E served \in BOOLEAN : ServeFromHosts(served)

\* What the client does.
Client ==
  \E r \in around.scenario.requests :
    \/ \E k \in around.scenario.keys, p \in around.scenario.priorities : Resolve(r, k, p)
    \/ CancelRequest(r)
    \/ \E p \in around.scenario.priorities : ChangeRequestPriority(r, p)

\* The end of the tasks of job j.
LookupEnds(j) ==
  \E ok \in BOOLEAN : \/ \E t \in {"a", "aaaa"} : TransactionComplete(j, t, ok)
                      \/ OnProcTaskComplete(j, ok)

Change ==
  \/ "ip" \in Changes /\ OnIPAddressChanged
  \/ "dns" \in Changes /\ \E valid \in BOOLEAN : OnDNSChanged(valid)
  \/ "destroy" \in Changes /\ DestroyResolver
  \/ "client" \in Changes /\ \E valid \in BOOLEAN : SetDnsClientEnabled(valid)

Next == Return \/ Client \/ Change \/ \E j \in Request : LookupEnds(j)

Spec == Init /\ [][Next]_vars

\* The thread runs on, and transactions and calls of the system's resolver
\* end: DnsTransaction has timeouts, ProcTask a limited number of attempts.
\* Their ends are tasks of the message loop, which serves them between the
\* other tasks however many of those there are.
FairSpec == Spec /\ WF_vars(Return) /\ \A j \in Request : SF_vars(LookupEnds(j))

-----------------------------------------------------------------------------
Alive == {j \in Request : job[j].status = "alive"}

\* The jobs a call on the stack will use.
UsedBy(f) ==
  CASE f.call = "start" -> {f.slot[1]}
    [] f.call \in {"abort", "abort dns"} -> ToSet(f.js)
    [] f.call = "attach" /\ f.evicted = f.j -> {}
    [] f.call \in {"clear handle", "overflow", "attach", "complete", "finish slot",
                   "callbacks", "start proc", "second", "destroy", "destroy orphan"} -> {f.j}
    [] OTHER -> {}

TypeOK ==
  /\ D!TypeOK
  /\ jobs \in [Key -> Request \cup {NoRequest}]
  /\ \A j \in Request :
       /\ job[j].status \in {"unborn", "alive", "deleted"}
       /\ job[j].slots \in 0 .. 2
       /\ job[j].task \in {"none", "dns", "proc"}
       /\ job[j].prio \in Priority
       /\ job[j].requests \in Seq(Request)
       /\ req[j].state \in {"new", "busy", "pending", "cancelled", "dropped",
                            "ok", "failed", "evicted", "network changed"}
       /\ req[j].job \in Request \cup {NoRequest}
  /\ cache \in [Key -> -1 .. MaxChanges]
  /\ failures \in 0 .. MaxFailures

\* No slot is kept for a priority, which is the default.  Otherwise a job may
\* start inside ChangePriority and queue its second slot, and UpdatePriority
\* then overwrites the handle of that.
NothingReserved ==
  \A p \in Priority : around.scenario.limits.reserved_slots[p] = 0

\* Callbacks do not resolve, or the queue is too long to overflow.  Otherwise the
\* callback of an evicted job may resolve the key that Resolve is about to enter
\* into jobs_, and the job that it made is destroyed while it is queued.
NoResolveOnEviction == "resolve" \in Reentrant => MaxQueued > Cardinality(Request)

\* ReduceToOneJobSlot, CompleteRequests: the dispatcher does not know who
\* occupies its slots and is told only how many are given back.  Whatever ends
\* a lookup, and wherever a second slot is then, queued, started or given
\* back, the dispatcher's count is the number of slots its jobs occupy, its
\* queue holds the jobs with a handle, and neither holds a job that is gone.
SlotsAreExact ==
  Ready /\ ~ destroyed /\ NothingReserved /\ NoResolveOnEviction =>
    /\ running = UNION {{<<j, i>> : i \in 1 .. job[j].slots} : j \in Alive}
    /\ Values(queue) = {<<j, job[j].slots + 1>> : j \in {i \in Alive : job[i].handle}}

\* AddRequest, CancelRequest, ~Job: exactly as long as a request waits it is in
\* the list of one job, once, also when callbacks resolve, cancel or destroy in
\* the middle of what ends it.  When the calls
\* on the stack have returned, a job that lives is the one jobs_ has for its key,
\* so that later requests join it, and has somebody to tell; so none outlives
\* the resolver, and nobody waits for a job that is gone.
JobsMatchRequests ==
  /\ \A j \in Request :
       /\ IsInjective(job[j].requests)
       /\ \A r \in Request : r \in ToSet(job[j].requests) <=>
                              req[r].state = "pending" /\ req[r].job = j
  /\ Ready => /\ \A j \in Alive : jobs[job[j].key] = j /\ job[j].requests # <<>>
              /\ \A r \in Request : /\ req[r].state # "busy"
                                     /\ req[r].state = "pending" => req[r].job \in Alive

\* A job waits for its first slot or looks its key up, and no request is dropped
\* without an answer.
LookupsHaveSlots ==
  Ready /\ NoResolveOnEviction =>
    /\ \A j \in Alive :
         IF job[j].slots = 0 THEN job[j].handle /\ ~ IsRunning(j) ELSE IsRunning(j)
    /\ \A r \in Request : req[r].state # "dropped"

\* A job in the dispatcher's queue is scheduled with the priority of its most
\* urgent request: UpdatePriority reaches the queue on every change.
QueuedByPriority ==
  Ready /\ ~ destroyed /\ NothingReserved /\ NoResolveOnEviction => \A s \in Values(queue) :
    PriorityOf(queue, s) = Max({req[r].prio : r \in ToSet(job[s[1]].requests)})

\* AbortAllInProgressJobs: "Existing jobs will have been sent to the original
\* server so they need to be aborted."  After a change nothing that was looked
\* up before it runs on, and nothing of it is cached.
NoStaleResults ==
  /\ \A k \in Key : cache[k] \in {-1, changes}
  /\ Ready => \A j \in Alive : IsRunning(j) => job[j].since = changes

\* DnsTasks run only while there is a configuration: the job that is started
\* after DnsClient was disabled, or whose task was running then, uses ProcTask.
DnsTasksHaveConfig ==
  Ready => \A j \in Alive : job[j].task = "dns" => config = "on"

\* Jobs delete themselves when they complete; the dispatcher's queue, the
\* lists of jobs to abort, and the loops that run callbacks go on afterwards.
\* None of them uses a job that is gone, unless callbacks cancel other requests
\* while AbortAllInProgressJobs runs them.
NoDanglingJobs ==
  ("cancel" \in Reentrant => Changes = {}) /\ NothingReserved /\ NoResolveOnEviction =>
  /\ \A i \in DOMAIN calls : UsedBy(calls[i]) \subseteq Alive
  /\ ~ destroyed => {s[1] : s \in Values(queue)} \subseteq Alive

\* TryServingAllJobsFromHosts: "This could remove |job| from |jobs_|, but
\* iterator will remain valid."  So it does, unless callbacks cancel, or resolve
\* when the queue is full.
HostsIteratorIsValid ==
  "cancel" \notin Reentrant /\ NoResolveOnEviction => \A i \in DOMAIN calls :
    calls[i].call = "hosts" /\ ~ destroyed => jobs[job[calls[i].j].key] = calls[i].j

\* The destructor of the resolver: "It's now safe for Jobs to call KillDnsTask
\* on destruction".  A job that is destroyed later has no second slot to give
\* back to the dispatcher, which is gone.
\* Stated, and not true of the code: README, section 5.
OrphansHoldNothing ==
  Calling("destroy orphan") =>
    LET b == job[Head(calls).j] IN b.task = "dns" => ~ b.handle /\ b.slots = 1

\* OnEvicted: DCHECK(!is_running()).
\* Stated, and not true of the code: README, section 5.
EvictedNeverRan ==
  Calling("overflow") /\ size(queue) > MaxQueued => ~ IsRunning(FirstMin(queue)[1])

\* OnFirstDnsTransactionComplete:
\* DCHECK_EQ(dns_task_->needs_another_transaction(), is_queued()).
SecondIsQueued ==
  Ready /\ NothingReserved => \A j \in Alive :
    job[j].task = "dns" /\ job[j].key \in TwoFamilies /\ "done" \notin {job[j].a, job[j].aaaa}
      => (job[j].aaaa = "none") = job[j].handle

\* OnDnsTaskResolve: DCHECK(dns_client_), when a ProcTask succeeds after a
\* DnsTask has failed.
\* Stated, and not true of the code: README, section 5.
ResolvedWithClient ==
  Ready => \A j \in Alive : job[j].task = "proc" /\ job[j].dns_error => config # "none"

\* Jobs and the dispatcher tell the same story: which slots are taken and which
\* are queued, with which priority, and which jobs still need a second slot.
DispatcherMatchesJobs ==
  TypeOK /\ SlotsAreExact /\ LookupsHaveSlots /\ QueuedByPriority /\ SecondIsQueued

\* What was looked up, or is being looked up, belongs to the network and the
\* configuration of now.
NothingIsStale == NoStaleResults /\ DnsTasksHaveConfig

\* Callbacks may delete jobs under the loops that run them; the loops do not
\* notice.
NoDanglingPointers == NoDanglingJobs /\ HostsIteratorIsValid

\* Every request completes or is cancelled, with queues that overflow, lookups
\* that fail, changes of the network, and callbacks that make further requests.
RequestsComplete == \A r \in Request : req[r].state = "pending" ~> req[r].state # "pending"

=============================================================================
