---------------------------- MODULE JobController ----------------------------
(***************************************************************************)
(* HttpStreamFactoryImpl::JobController, which serves one request for a    *)
(* stream with two jobs that race each other:                              *)
(*                                                                         *)
(*   - the main job connects to the origin;                                *)
(*   - the alternative job uses an alternative service (QUIC or HTTP/2) or *)
(*     an alternative proxy.  It starts first, and the main job waits for  *)
(*     it: until its connection is under way, and then for a delay.        *)
(*                                                                         *)
(* A result of a job reaches the controller in a task of its own (`tasks', *)
(* in order).  The first job that has something to say to the consumer is  *)
(* bound to the request; the main job is then cancelled, an alternative    *)
(* job is orphaned and runs on, to find out whether the service is broken. *)
(* When the last job fails, another proxy may be tried with new jobs.      *)
(*                                                                         *)
(* The members of the controller are the fields of the record `c', so that *)
(* its methods are functions of it.  A method whose outcome depends on the *)
(* network, on the proxy service or on the time returns a set of records.  *)
(***************************************************************************)
EXTENDS Naturals, Sequences, SequencesExt

CONSTANT Scenarios      \* what may surround the controller

\* A scenario: the scheme of the request (https, else http); the alternative
\* services of the origin; whether the ProxyDelegate has an alternative proxy;
\* what proxy resolution yields; whether the consumer destroys the request in
\* the callback; whether the controller may be used to preconnect; whether other
\* requests report services as broken; and two bounds: how often the proxy asks
\* for credentials, and how often proxies are resolved again.
Scenario ==
    [https: BOOLEAN, services: SUBSET {"quic", "h2"}, alt_proxy: BOOLEAN,
     proxies: Seq({"direct", "proxy"}) \ {<<>>}, prompt: BOOLEAN,
     preconnects: BOOLEAN, others: BOOLEAN, max_auth: Nat, max_resolves: Nat]

ASSUME ScenariosAssumption == Scenarios \subseteq Scenario

VARIABLES
    c,              \* the controller, its jobs and its tasks, and the scenario
    broken,         \* the services and proxies that are known to be broken
    answers,        \* history: what the consumer has been told, in order;
                    \* a stream is named for the job it comes from
    failed,         \* history: the services whose job failed
    marked          \* history: the services this controller reported

vars == <<c, broken, answers, failed, marked>>

Https == c.scenario.https
Services == c.scenario.services
AltProxy == c.scenario.alt_proxy
Proxies == c.scenario.proxies
Prompt == c.scenario.prompt
Preconnects == c.scenario.preconnects
Others == c.scenario.others

Jobs == {"main", "alt"}

Successes == {"stream", "session"}
Errors == {"failed", "unreachable", "network"}
Results == Successes \cup Errors \cup {"cert", "client", "tunnel", "auth"}

-----------------------------------------------------------------------------
(* The state of a job: "none" if there is none; "waiting" for the          *)
(* controller, "throttled" by the session pool, "connecting"; "done" when  *)
(* its result is posted; "bound" once the consumer has been told.          *)

JobState == {"none", "waiting", "throttled", "connecting", "done", "bound"}

Controller ==
    [request: {"none", "live", "gone"},     \* request_
     preconnect: BOOLEAN,                   \* is_preconnect_
     started: BOOLEAN,
     alive: BOOLEAN,                        \* in factory_'s set
     resolving: BOOLEAN,                    \* pac_request_
     resolves: Nat,
     proxy: Nat,                            \* proxy_info_
     job: [Jobs -> JobState],               \* main_job_, alternative_job_
     result: [Jobs -> Results \cup {"none"}],
     kind: {"none", "quic", "h2", "proxy"}, \* what alternative_job_ uses
     service: {"none", "quic", "h2"},       \* alternative_service_info_
     net_error: {"OK", "error", "network"}, \* alternative_job_net_error_
     bound: Jobs \cup {"none"},             \* bound_job_
     job_bound: BOOLEAN,                    \* job_bound_
     blocked: BOOLEAN,                      \* main_job_is_blocked_
     resumed: BOOLEAN,                      \* main_job_is_resumed_
     wait: BOOLEAN,                         \* main_job_wait_time_ is not zero
     later: BOOLEAN,                        \* ResumeMainJob after the delay
     tasks: Seq({"main", "alt", "resume", "notify"}),
     in_map: BOOLEAN,                       \* waits for any HTTP/2 session
     can_alt_proxy: BOOLEAN,                \* can_start_alternative_proxy_job_
     auths: Nat,
     scenario: Scenarios]

Init ==
    /\ \E scenario \in Scenarios :
       c = [request |-> "none", preconnect |-> FALSE, started |-> FALSE,
            alive |-> TRUE, resolving |-> FALSE, resolves |-> 0, proxy |-> 0,
            job |-> [j \in Jobs |-> "none"],
            result |-> [j \in Jobs |-> "none"],
            kind |-> "none", service |-> "none", net_error |-> "OK",
            bound |-> "none", job_bound |-> FALSE, blocked |-> FALSE,
            resumed |-> FALSE, wait |-> FALSE, later |-> FALSE,
            tasks |-> <<>>, in_map |-> FALSE, can_alt_proxy |-> TRUE,
            auths |-> 0, scenario |-> scenario]
    /\ broken = {} /\ answers = <<>> /\ failed = {} /\ marked = {}

Post(s, t) == [s EXCEPT !.tasks = Append(@, t)]

\* A task is pending at most once.
Cancelled(s, t) ==
    IF t \notin Range(s.tasks) THEN s
    ELSE [s EXCEPT !.tasks = RemoveAt(@, CHOOSE i \in DOMAIN @ : @[i] = t)]

\* The callbacks of a job are bound to weak pointers and die with it.
Reset(s, j) == [Cancelled(s, j) EXCEPT !.job[j] = "none", !.result[j] = "none"]

\* Mutant: a job is orphaned only when the request is gone.
OrphanedWithoutRequest(s, j) == s.request # "live"

IsJobOrphaned(s, j) ==
    s.request # "live" \/ (s.job_bound /\ s.bound # j)

-----------------------------------------------------------------------------
(* Resuming the main job.                                                  *)

\* resume_main_job_callback_ holds one task: posting it cancels the last.
ResumeMainJobLater(s, delay) ==
    LET t == [Cancelled(s, "resume") EXCEPT !.later = delay]
    IN  IF delay THEN t ELSE Post(t, "resume")

\* Mutant: the main job is unblocked, but not resumed if it waits already.
MaybeResumeForgets(s, j, delay) ==
    IF j # "alt" \/ s.job["main"] = "none" THEN s
    ELSE [s EXCEPT !.blocked = FALSE]

MaybeResumeMainJob(s, j, delay) ==
    IF j # "alt" \/ s.job["main"] = "none" THEN s
    ELSE IF s.job["main"] # "waiting" THEN [s EXCEPT !.blocked = FALSE]
    ELSE ResumeMainJobLater([s EXCEPT !.blocked = FALSE, !.wait = delay], delay)

-----------------------------------------------------------------------------
(* A job.                                                                  *)

Proxy(s) == Proxies[s.proxy]
Kind(s, j) == IF j = "main" THEN "main" ELSE s.kind
UsesTls(s, j) == Https /\ Kind(s, j) # "quic"

\* What can come out of a job.  Only a job that connects to the proxy itself
\* asks for another one (Job::ReconsiderProxyAfterError); QUIC and HTTP/2
\* alternatives report the failure as it is.
JobResults(s, j) ==
    {"stream", "failed", "network"}
    \cup (IF Kind(s, j) # "quic" THEN {"session"} ELSE {})
    \cup (IF j = "main" THEN {"unreachable"} ELSE {})
    \cup (IF UsesTls(s, j) THEN {"cert"} ELSE {})
    \cup (IF \/ j = "main" /\ (Https \/ Proxy(s) = "proxy")
             \/ Kind(s, j) = "proxy"
          THEN {"client"} ELSE {})
    \cup (IF UsesTls(s, j) /\ Proxy(s) = "proxy"
          THEN {"tunnel"} \cup (IF s.auths < s.scenario.max_auth THEN {"auth"} ELSE {})
          ELSE {})

Ended(s, j, r) ==
    Post([s EXCEPT !.job[j] = "done", !.result[j] = r,
                   !.auths = IF r = "auth" THEN @ + 1 ELSE @], j)

\* DoInitConnection and OnConnectionInitialized.  A connection that is there
\* already (OK) does not release the main job; one that is pending or failed
\* does.  A pending QUIC connection says how long the main job is to wait.
InitConnection(s, j) ==
    IF Kind(s, j) = "quic" /\ Proxy(s) # "direct"
    THEN {Ended(MaybeResumeMainJob(s, j, s.wait), j, "failed")}
    ELSE LET delays == IF Kind(s, j) \in {"quic", "proxy"} /\ s.blocked
                       THEN BOOLEAN ELSE {s.wait}
             now == JobResults(s, j)
         IN  {MaybeResumeMainJob([s EXCEPT !.job[j] = "connecting",
                                           !.wait = d], j, d) : d \in delays}
             \cup {Ended(s, j, r) : r \in now \cap (Successes \cup {"failed"})}
             \cup {Ended(MaybeResumeMainJob(s, j, s.wait), j, r) :
                      r \in now \ Successes}

SetSpdySessionKey(s, j) ==
    [s EXCEPT !.in_map = @ \/ (~s.preconnect /\ ~IsJobOrphaned(s, j))]

EvaluateThrottle(s, j) ==
    IF ~UsesTls(s, j) THEN InitConnection(s, j)
    ELSE LET t == SetSpdySessionKey(s, j)
         IN  InitConnection(t, j) \cup {[t EXCEPT !.job[j] = "throttled"]}

\* Job::Start up to the point where it has to wait.  The first outcome is a
\* port that is not allowed.
StartJob(s, j) ==
    {Ended(s, j, "failed")}
    \cup (IF j = "main" /\ s.blocked THEN {[s EXCEPT !.job[j] = "waiting"]}
          ELSE IF j = "main" /\ s.wait
          THEN {ResumeMainJobLater([s EXCEPT !.job[j] = "waiting"], TRUE)}
          ELSE EvaluateThrottle(s, j))

-----------------------------------------------------------------------------
(* Proxy resolution and the creation of the jobs.                          *)

\* GetAlternativeServiceInfoFor: a service that is not broken, if there is one.
UsableServices ==
    IF Https /\ Services \ broken # {} THEN Services \ broken ELSE {"none"}

ShouldCreateAlternativeProxyServerJob(s) ==
    /\ s.can_alt_proxy /\ Proxy(s) = "proxy" /\ ~Https
    /\ AltProxy /\ "proxy" \notin broken

WithAlternative(s, k) ==
    StartJob([s EXCEPT !.kind = k, !.blocked = TRUE,
                       !.job["alt"] = "connecting",
                       !.can_alt_proxy = @ /\ k # "proxy"], "alt")

\* The main job exists, and does not wait yet, when the alternative job starts.
MainCreated(s, k) == [s EXCEPT !.service = k, !.job["main"] = "connecting"]

WithAlternatives(s, k) ==
    IF s.preconnect THEN {s}
    ELSE IF k # "none" THEN WithAlternative(s, k)
    ELSE IF ShouldCreateAlternativeProxyServerJob(s)
    THEN WithAlternative(s, "proxy")
    ELSE {s}

CreateJobs(s) ==
    UNION {UNION {StartJob(a, "main") : a \in WithAlternatives(MainCreated(s, k), k)} :
              k \in UsableServices}

\* DoResolveProxyComplete, then DoCreateJobs or, if there is no proxy to use,
\* a task that tells the request.
ResolveProxyComplete(s) ==
    {Post([s EXCEPT !.resolving = FALSE], "notify")}
    \cup CreateJobs([s EXCEPT !.resolving = FALSE, !.proxy = 1])

ResolveProxy(s) ==
    {[s EXCEPT !.resolving = TRUE]} \cup ResolveProxyComplete(s)

-----------------------------------------------------------------------------
(* Binding, orphaning and the end.                                         *)

MaybeNotifyFactoryOfCompletion(s) ==
    IF s.request # "live" /\ \A j \in Jobs : s.job[j] = "none"
    THEN [s EXCEPT !.alive = FALSE, !.tasks = <<>>, !.later = FALSE,
                   !.resolving = FALSE]
    ELSE s

\* Mutant: the request still waits for a session of another job.
OrphanKeepsMap(s) ==
    IF s.bound = "alt" /\ s.job["main"] # "none" THEN Reset(s, "main") ELSE s

OrphanUnboundJob(s) ==
    LET t == [s EXCEPT !.in_map = FALSE]
    IN  IF t.bound = "alt" /\ t.job["main"] # "none" THEN Reset(t, "main") ELSE t

BindJob(s, j) ==
    OrphanUnboundJob([s EXCEPT !.job_bound = TRUE, !.bound = j])

CancelJobs(s) ==
    IF s.job_bound THEN s ELSE Reset(Reset(s, "alt"), "main")

\* ~Request calls it.
OnRequestComplete(s) ==
    LET t == [CancelJobs([s EXCEPT !.in_map = FALSE]) EXCEPT !.request = "gone"]
    IN  MaybeNotifyFactoryOfCompletion(
            IF t.bound = "none" THEN t
            ELSE [Reset(t, t.bound) EXCEPT !.bound = "none"])

OnOrphanedJobComplete(s, j) == MaybeNotifyFactoryOfCompletion(Reset(s, j))

\* Telling the consumer.  HttpNetworkTransaction destroys the request in every
\* callback but OnNeedsProxyAuth; other consumers may keep it.
Tell(s, a) ==
    /\ answers' = Append(answers, a)
    /\ c' = IF Prompt /\ a # "auth" THEN OnRequestComplete(s) ELSE s

-----------------------------------------------------------------------------
(* What is reported of the alternative service.                            *)

NetError(r) == IF r = "network" THEN "network" ELSE "error"

\* ReportBrokenAlternativeService; the callers reset net_error.
ReportBroken(s) ==
    /\ marked' = IF s.net_error = "network" THEN marked
                 ELSE marked \cup {s.service}
    /\ broken' = IF s.net_error = "network" THEN broken
                 ELSE broken \cup {s.service}

-----------------------------------------------------------------------------
(* Results of jobs.                                                        *)

\* Mutant: a failure of the alternative job that came first is forgotten.
NeverReports(s, j) == UNCHANGED <<marked, broken>>

ReportIfMain(s, j) ==
    IF j = "main" /\ s.net_error # "OK" THEN ReportBroken(s)
    ELSE UNCHANGED <<marked, broken>>

\* OnStreamReady and, for a job that created its HTTP/2 session,
\* OnNewSpdySessionReady.
OnStreamReady(s, j) ==
    IF IsJobOrphaned(s, j)
    THEN /\ c' = OnOrphanedJobComplete(s, j)
         /\ UNCHANGED <<answers, marked, broken>>
    ELSE LET t == [s EXCEPT !.net_error = IF j = "main" THEN "OK" ELSE @,
                            !.job[j] = "bound"]
         IN  /\ ReportIfMain(s, j)
             /\ Tell(IF s.bound = "none" THEN BindJob(t, j) ELSE t, j)

\* OnCertificateError, OnNeedsClientAuth, OnHttpsProxyTunnelResponse and
\* OnNeedsProxyAuth.
OnNeedsConsumer(s, j, r) ==
    LET t == MaybeResumeMainJob(s, j, FALSE)
        u == [t EXCEPT !.job[j] = "bound"]
    IN  /\ IF IsJobOrphaned(t, j)
           THEN c' = OnOrphanedJobComplete(t, j) /\ UNCHANGED answers
           ELSE Tell(IF t.bound = "none" THEN BindJob(u, j) ELSE u, r)
        /\ UNCHANGED <<broken, marked>>

\* The part of ReconsiderProxyAfterError that abandons the jobs.
AbandonJobs(s) ==
    [Cancelled(Reset(Reset(s, "alt"), "main"), "resume") EXCEPT
        !.in_map = FALSE, !.job_bound = FALSE, !.bound = "none",
        !.later = FALSE, !.resumed = FALSE, !.blocked = FALSE]

\* ReconsiderProxyAfterError: the next proxy of the list, or a resolution of
\* its own, or nothing.
Reconsidered(s, r) ==
    IF r # "unreachable" THEN {}
    ELSE LET t == AbandonJobs(s)
         IN  (IF s.proxy < Len(Proxies)
              THEN CreateJobs([t EXCEPT !.proxy = @ + 1]) ELSE {})
             \cup (IF s.resolves < s.scenario.max_resolves
                   THEN {[t EXCEPT !.resolving = TRUE, !.resolves = @ + 1]}
                   ELSE {})

\* What OnStreamFailed does when the job is not orphaned and has no other job
\* beside it, or is bound.
LastJobFailed(s, j, r) ==
    LET t == [s EXCEPT !.job[j] = "bound"]
        u == IF t.bound = "none" THEN BindJob(t, j) ELSE t
        more == Reconsidered(u, r)
    IN  IF more # {} THEN c' \in more /\ UNCHANGED answers
        ELSE Tell(u, "failed")

\* OnAlternativeServiceJobFailed and OnAlternativeProxyJobFailed.
AlternativeFailed(s, r) ==
    IF s.kind = "proxy"
    THEN /\ broken' = IF r = "network" THEN broken ELSE broken \cup {"proxy"}
         /\ UNCHANGED <<marked, failed>>
    ELSE /\ failed' = IF r = "network" THEN failed ELSE failed \cup {s.kind}
         /\ IF IsJobOrphaned(s, "alt")
            THEN ReportBroken([s EXCEPT !.net_error = NetError(r)])
            ELSE UNCHANGED <<marked, broken>>

AfterAlternativeFailed(s, r) ==
    [s EXCEPT !.net_error = IF s.kind = "proxy" THEN @
                            ELSE IF IsJobOrphaned(s, "alt") THEN "OK"
                            ELSE NetError(r)]

OnStreamFailed(s, j, r) ==
    LET t == MaybeResumeMainJob(IF j = "alt" THEN AfterAlternativeFailed(s, r)
                                ELSE s, j, FALSE)
    IN  /\ IF j = "alt" THEN AlternativeFailed(s, r)
           ELSE UNCHANGED <<marked, broken, failed>>
        /\ IF IsJobOrphaned(t, j)
           THEN c' = OnOrphanedJobComplete(t, j) /\ UNCHANGED answers
           ELSE IF t.bound = "none" /\ \A i \in Jobs : t.job[i] # "none"
           THEN c' = Reset(t, j) /\ UNCHANGED answers
           ELSE LastJobFailed(t, j, r)

-----------------------------------------------------------------------------
(* The steps.                                                              *)

Start ==
    /\ ~c.started
    /\ c' \in ResolveProxy([c EXCEPT !.started = TRUE, !.request = "live"])
    /\ UNCHANGED <<broken, answers, failed, marked>>

Preconnect ==
    /\ ~c.started /\ Preconnects
    /\ c' \in ResolveProxy([c EXCEPT !.started = TRUE, !.preconnect = TRUE])
    /\ UNCHANGED <<broken, answers, failed, marked>>

OnIOComplete ==
    /\ c.resolving
    /\ c' \in ResolveProxyComplete(c)
    /\ UNCHANGED <<broken, answers, failed, marked>>

\* The next task of the message loop.
Next1(t) == c.tasks # <<>> /\ Head(c.tasks) = t
Ran(s) == [s EXCEPT !.tasks = Tail(@)]

JobTask(j) ==
    /\ Next1(j)
    /\ LET s == Ran(c)
           r == c.result[j]
       IN  \/ /\ c.preconnect                       \* OnPreconnectsComplete
              /\ c' = MaybeNotifyFactoryOfCompletion(Reset(s, j))
              /\ UNCHANGED <<broken, answers, failed, marked>>
           \/ /\ ~c.preconnect /\ r \in Successes
              /\ OnStreamReady(s, j)
              /\ UNCHANGED failed
           \/ /\ ~c.preconnect /\ r \in Errors
              /\ OnStreamFailed(s, j, r)
           \/ /\ ~c.preconnect /\ r \notin Successes \cup Errors
              /\ OnNeedsConsumer(s, j, r)
              /\ UNCHANGED failed

\* ResumeMainJob of a state whose task has run.
MainJobResumed(s) ==
    IF s.resumed THEN {s}
    ELSE EvaluateThrottle([s EXCEPT !.resumed = TRUE, !.wait = FALSE], "main")

ResumeMainJob ==
    /\ c.job["main"] # "none"
    /\ \/ Next1("resume") /\ c' \in MainJobResumed(Ran(c))
       \/ c.later /\ c' \in MainJobResumed([c EXCEPT !.later = FALSE])
    /\ UNCHANGED <<broken, answers, failed, marked>>

NotifyRequestFailed ==
    /\ Next1("notify")
    /\ IF c.request # "live" THEN c' = Ran(c) /\ UNCHANGED answers
       ELSE Tell(Ran(c), "failed")
    /\ UNCHANGED <<broken, failed, marked>>

\* The session pool has room again, or kHTTP2ThrottleMs have passed.
ResumeInitConnection(j) ==
    /\ c.job[j] = "throttled"
    /\ c' \in InitConnection(c, j)
    /\ UNCHANGED <<broken, answers, failed, marked>>

\* The connection of a job succeeds, fails or needs the consumer.
ConnectionEnds(j) ==
    /\ c.job[j] = "connecting"
    /\ c' \in {Ended(c, j, r) : r \in JobResults(c, j)}
    /\ UNCHANGED <<broken, answers, failed, marked>>

\* The consumer has credentials for the proxy.  With a tunnel the job connects
\* again (DoRestartTunnelAuthComplete), else the tunnel ends or fails.
RestartTunnelWithProxyAuth ==
    /\ c.request = "live" /\ c.bound # "none"
    /\ c.job[c.bound] = "bound" /\ c.result[c.bound] = "auth"
    /\ LET j == c.bound
           s == [c EXCEPT !.result[j] = "none"]
       IN  c' \in {[s EXCEPT !.job[j] = "connecting"]}
                  \cup {Ended(s, j, r) : r \in {"failed", "unreachable"}}
    /\ UNCHANGED <<broken, answers, failed, marked>>

\* The consumer destroys the request.
ReleaseRequest ==
    /\ c.request = "live"
    /\ c' = OnRequestComplete(c)
    /\ UNCHANGED <<broken, answers, failed, marked>>

\* Another request's job has created a session that this request can use.
OnStreamReadyOnPooledConnection ==
    /\ c.in_map
    /\ Tell([Reset(Reset(c, "main"), "alt") EXCEPT !.in_map = FALSE], "pooled")
    /\ UNCHANGED <<broken, failed, marked>>

OthersReport ==
    /\ Others /\ c.alive
    /\ \E k \in Services \ broken : broken' = broken \cup {k}
    /\ UNCHANGED <<c, answers, failed, marked>>

Next ==
    \/ Start \/ Preconnect
    \/ OnIOComplete \/ ResumeMainJob \/ NotifyRequestFailed
    \/ \E j \in Jobs : JobTask(j) \/ ResumeInitConnection(j) \/ ConnectionEnds(j)
    \/ RestartTunnelWithProxyAuth \/ ReleaseRequest
    \/ OnStreamReadyOnPooledConnection \/ OthersReport

Spec == Init /\ [][Next]_vars

\* What happens by itself: the message loop runs its tasks in turn, and delayed
\* ones when they are due; proxy resolution, throttling and connection attempts
\* end, by themselves or by a timeout.
Progress ==
    \/ OnIOComplete \/ ResumeMainJob \/ NotifyRequestFailed
    \/ \E j \in Jobs : JobTask(j) \/ ResumeInitConnection(j) \/ ConnectionEnds(j)

FairSpec == Spec /\ WF_vars(Progress)

-----------------------------------------------------------------------------
(* Properties.                                                             *)

\* Types of the controller and of the histories.
TypeOK ==
    /\ c \in Controller
    /\ broken \subseteq {"none", "quic", "h2", "proxy"}
    /\ failed \subseteq {"quic", "h2"} /\ marked \subseteq {"none", "quic", "h2"}
    /\ Range(answers) \subseteq Jobs \cup {"pooled", "failed", "cert", "client",
                                          "tunnel", "auth"}

\* The main job never waits for nothing: a task will resume it, or it is
\* blocked by an alternative job that has still to report (MaybeResumeMainJob,
\* ShouldWait).
MainIsNotStuck ==
    c.job["main"] = "waiting" =>
        \/ c.later \/ "resume" \in Range(c.tasks)
        \/ c.blocked /\ c.job["alt"] \in {"throttled", "connecting", "done"}

\* A task that resumes the main job finds it, and finds it waiting (the DCHECKs
\* of ResumeMainJob and Job::Resume; without a main job it would dereference a
\* null pointer).  A consumer that keeps its request can break it.
ResumeFindsWaitingJob ==
    Prompt /\ (c.later \/ Next1("resume")) =>
        /\ c.job["main"] # "none"
        /\ c.resumed \/ c.job["main"] = "waiting"

\* bound_job_ is a raw pointer: the job it points to is never destroyed before
\* it, by a session of another request, a new proxy or an orphan that ends.
BoundJobExists ==
    /\ c.bound # "none" => c.job[c.bound] # "none" /\ c.job_bound
    /\ c.bound # "none" => c.request = "live"

\* The consumer is told one final result at most, whichever of the two jobs, the
\* session pool and proxy resolution come first; only requests for credentials
\* precede it (DCHECK(!completed_) in Request::Complete).
AnsweredOnce ==
    \A i \in DOMAIN answers : answers[i] # "auth" => i = Len(answers)

\* A controller that is kept still has a request, a job or a proxy to resolve
\* (OnJobControllerComplete deletes it when it has finished).  A preconnect whose
\* proxy cannot be resolved is kept forever.
NothingIsLeaked ==
    c.alive /\ c.started /\ ~c.preconnect =>
        \/ c.request = "live" \/ c.resolving \/ c.tasks # <<>>
        \/ \E j \in Jobs : c.job[j] # "none"

\* No proxy is tried after another.
OneAttempt == Len(Proxies) = 1 /\ c.scenario.max_resolves = 0

\* A service is reported as broken only if its own job failed, and not because
\* of a change of the network (ReportBrokenAlternativeService).  The error of an
\* attempt with another proxy can be charged to a service that did not run.
OnlyFailedAreMarked == OneAttempt => marked \subseteq failed

\* When the main job has served the request after the alternative job failed,
\* the service has been reported: the next request must not run into it again.
FailuresAreMarked ==
    OneAttempt /\ answers # <<>> /\ answers[Len(answers)] = "main" => failed \subseteq marked

\* A service is reported as broken only once the main job has served the
\* request (the comment of OnAlternativeServiceJobFailed).
\* Stated, and not true of the code: README, section 5.
MarkedWhenServed ==
    marked # {} => answers # <<>> /\ answers[Len(answers)] = "main"

\* ReconsiderProxyAfterError is called only when the last job fails: no bound
\* job fails while an orphan is still there.
\* Stated, and not true of the code: README, section 5.
ReconsidersLastJob ==
    \A j \in Jobs :
        Next1(j) /\ c.bound = j /\ c.result[j] \in Errors =>
            \A i \in Jobs \ {j} : c.job[i] = "none"

\* The main job waits only for what will come and is resumed only while it
\* waits, bound_job_ points to a job, and a controller has work to wait for.
JobsAreConsistent ==
    /\ TypeOK /\ MainIsNotStuck /\ ResumeFindsWaitingJob
    /\ BoundJobExists /\ NothingIsLeaked

\* What is learned of alternative services is right: those whose jobs failed are
\* reported by the time the main job has served the request, and no others are.
ReportsAreRight == OnlyFailedAreMarked /\ FailuresAreMarked

\* Every request is answered, unless the consumer gives it up first: neither a
\* blocked main job nor a second proxy makes it wait forever.
RequestsAreAnswered ==
    c.request = "live" ~> (answers # <<>> \/ c.request = "gone")

\* A controller outlives its request only as long as an orphaned job runs.
ControllersAreDeleted == c.request = "gone" ~> ~c.alive

\* Nobody waits forever and nothing is kept forever: requests are answered, and
\* controllers deleted once their requests are gone.
RequestsEnd == RequestsAreAnswered /\ ControllersAreDeleted

=============================================================================
