------------------------- MODULE JobControllerProofs -------------------------
(***************************************************************************)
(* The JobController for any scenarios: any list of proxies, any number of *)
(* requests for credentials and of proxy resolutions.                      *)
(***************************************************************************)
EXTENDS JobController, SequenceTheorems, TLAPS

Pending(s) == Range(s.tasks)

Distinct(q) == \A i, k \in DOMAIN q : q[i] = q[k] => i = k

\* The task a is not behind the task b.
Before(q, a, b) == \A i, k \in DOMAIN q : q[i] = a /\ q[k] = b => i < k

\* The types of the controller; a task is posted once.
Typed(s) == s \in Controller /\ Distinct(s.tasks)

\* A job whose result is on its way has one task, and no other has any.
ResultsHaveTasks(s) ==
    \A j \in Jobs :
        /\ j \in Pending(s) <=> s.job[j] = "done"
        /\ s.result[j] # "none" <=> s.job[j] \in {"done", "bound"}

\* No attempt to serve the request is under way.
Fresh(s) ==
    /\ \A j \in Jobs : s.job[j] = "none"
    /\ s.bound = "none" /\ ~ s.job_bound
    /\ ~ s.blocked /\ ~ s.resumed /\ ~ s.wait /\ ~ s.later /\ ~ s.in_map
    /\ "resume" \notin Pending(s)

\* Jobs run only for a proxy that is resolved.
AttemptsAreProper(s) ==
    /\ ~ s.started => /\ Fresh(s) /\ s.request = "none" /\ ~ s.preconnect
                      /\ ~ s.resolving /\ "notify" \notin Pending(s) /\ s.alive
    /\ s.resolving => Fresh(s) /\ "notify" \notin Pending(s)
    /\ "notify" \in Pending(s) => Fresh(s)
    /\ (\E j \in Jobs : s.job[j] # "none") => s.proxy >= 1

\* A preconnect has only a main job, which never waits.
PreconnectsAreSimple(s) ==
    /\ s.preconnect => /\ s.request = "none" /\ s.job["alt"] = "none"
                       /\ ~ s.blocked /\ ~ s.wait /\ ~ s.later
                       /\ "resume" \notin Pending(s)
                       /\ s.job["main"] # "waiting" /\ ~ s.job_bound
    /\ s.started /\ s.request = "none" => s.preconnect

\* The bound job exists and the main job is gone once the alternative job is
\* bound; only an alternative job outlives the request.
BoundIsProper(s) ==
    /\ s.bound # "none" => s.job_bound /\ s.request = "live"
    /\ \A j \in Jobs :
         s.bound = j => s.job[j] \in {"connecting", "done", "bound"}
    /\ s.bound = "alt" => s.job["main"] = "none"
    /\ s.job_bound /\ s.request = "live" => s.bound # "none"
    /\ s.request = "gone" => s.job["main"] = "none" /\ s.bound = "none"
    /\ \A j \in Jobs : s.job[j] = "bound" => s.bound = j
    /\ s.in_map => s.bound = "none" /\ s.request = "live"

\* The main job waits for what will come.
WaitingIsProper(s) ==
    /\ s.job["alt"] # "waiting"
    /\ s.job["main"] = "waiting" =>
         /\ s.request = "live" /\ s.bound = "none" /\ ~ s.resumed
         /\ \/ s.later \/ "resume" \in Pending(s)
            \/ s.blocked /\ s.job["alt"] \in {"throttled", "connecting", "done"}
    /\ ~ (s.later /\ "resume" \in Pending(s))
    /\ (s.later \/ "resume" \in Pending(s)) =>
         /\ s.job["main"] \in {"none", "waiting"}
         /\ s.scenario.prompt => s.job["main"] = "waiting"

\* What the alternative job uses, and what it can come to.
KindIsProper(s) ==
    /\ s.job["alt"] # "none" =>
         /\ s.kind # "none"
         /\ s.kind # "proxy" => s.service = s.kind
         /\ s.kind = "proxy" => ~ s.scenario.https
    /\ s.job["alt"] = "throttled" => s.kind = "h2"
    /\ s.result["alt"] \in {"auth", "unreachable"} => s.kind = "h2"
    /\ s.wait => s.kind \in {"quic", "proxy"}

\* An attempt that may be followed by another leaves no delay behind.
DelayIsOver(s) ==
    s.wait => /\ s.job["main"] \notin {"throttled", "connecting"}
              /\ s.result["main"] \in {"none", "failed"}

\* An HTTP/2 alternative that needs the consumer has resumed the main job before.
ResumedFirst(s) ==
    (/\ s.kind = "h2" /\ s.job["main"] = "waiting"
     /\ s.job["alt"] = "connecting" \/ s.result["alt"] = "auth") =>
        "resume" \in Pending(s) /\ ~ s.later /\ Before(s.tasks, "resume", "alt")

\* A controller is deleted when it has nothing left to do.
EndIsProper(s) ==
    /\ s.alive /\ s.request = "gone" => \E j \in Jobs : s.job[j] # "none"
    /\ ~ s.alive => /\ \A j \in Jobs : s.job[j] = "none"
                    /\ s.tasks = << >> /\ ~ s.later /\ ~ s.resolving
                    /\ s.request # "live"

\* What holds while a method runs, too.
CoreInv(s) ==
    /\ Typed(s) /\ ResultsHaveTasks(s) /\ AttemptsAreProper(s)
    /\ PreconnectsAreSimple(s) /\ BoundIsProper(s) /\ WaitingIsProper(s)
    /\ KindIsProper(s) /\ EndIsProper(s)

ControllerInv(s) == CoreInv(s) /\ DelayIsOver(s) /\ ResumedFirst(s)

Answered == answers # << >> /\ answers[Len(answers)] # "auth"

\* Nothing is left that could tell the consumer anything.
Quiet(s) ==
    s.request = "live" =>
        /\ ~ s.in_map /\ ~ s.resolving /\ "notify" \notin Pending(s)
        /\ \A j \in Jobs :
             \/ IsJobOrphaned(s, j)
             \/ s.job[j] = "none"
             \/ s.job[j] = "bound" /\ s.result[j] # "auth"

AnswersInv ==
    /\ answers \in Seq(Jobs \cup {"pooled", "failed", "cert", "client", "tunnel", "auth"})
    /\ AnsweredOnce
    /\ Answered => Quiet(c)
    /\ ~ c.started => answers = << >>

ReportsInv ==
    /\ broken \subseteq {"none", "quic", "h2", "proxy"}
    /\ failed \subseteq {"quic", "h2"} /\ marked \subseteq {"none", "quic", "h2"}
    /\ OneAttempt =>
        /\ marked \subseteq failed
        /\ \A k \in failed : k \in marked \/ (c.net_error = "error" /\ k = c.service)
        /\ c.net_error = "error" => c.service \in failed
        /\ c.net_error # "OK" =>
             \/ c.job["alt"] = "none"
             \/ c.job["alt"] = "bound" /\ c.result["alt"] # "auth"
        /\ (c.resolving \/ ~ c.started) => c.net_error = "OK"
        /\ answers # << >> /\ answers[Len(answers)] = "main" => c.net_error = "OK"

-----------------------------------------------------------------------------
\* The task names.
Tasks == {"main", "alt", "resume", "notify"}

\* The tasks, one by one.
LEMMA TaskRange ==
  ASSUME NEW q \in Seq(Tasks)
  PROVE  /\ DOMAIN q = 1 .. Len(q) /\ Len(q) \in Nat
         /\ \A x : x \in Range(q) <=> \E i \in 1 .. Len(q) : q[i] = x
<1>1. DOMAIN q = 1 .. Len(q)
  BY LenProperties
<1>2. Len(q) \in Nat
  BY LenProperties
<1>3. \A x : x \in Range(q) <=> \E i \in 1 .. Len(q) : q[i] = x
  BY <1>1, Zenon DEF Range
<1> QED BY <1>1, <1>2, <1>3

\* A task is posted behind the others.
LEMMA PostedTask ==
  ASSUME NEW q \in Seq(Tasks), Distinct(q), NEW t \in Tasks, t \notin Range(q)
  PROVE  /\ Append(q, t) \in Seq(Tasks) /\ Distinct(Append(q, t))
         /\ Range(Append(q, t)) = Range(q) \cup {t}
         /\ Before(q, "resume", "alt") /\ t # "resume" =>
              Before(Append(q, t), "resume", "alt")
         /\ "alt" \notin Range(q) /\ t # "alt" => Before(Append(q, t), "resume", "alt")
<1>1. PICK n : n = Append(q, t)
  OBVIOUS
<1>2. /\ n \in Seq(Tasks) /\ Len(n) = Len(q) + 1
      /\ \A i \in 1 .. Len(q) : n[i] = q[i]
      /\ n[Len(q) + 1] = t
  BY <1>1, AppendProperties
<1>3. /\ DOMAIN q = 1 .. Len(q) /\ Len(q) \in Nat
      /\ \A x : x \in Range(q) <=> \E i \in 1 .. Len(q) : q[i] = x
  BY TaskRange
<1>4. /\ DOMAIN n = 1 .. Len(n)
      /\ \A x : x \in Range(n) <=> \E i \in 1 .. Len(n) : n[i] = x
  BY <1>2, TaskRange
<1>5. \A x : x \in Range(n) <=> x \in Range(q) \/ x = t
  BY <1>2, <1>3, <1>4
<1>6. \A i \in 1 .. Len(q) : n[i] # t
  BY <1>2, <1>3
<1>7. Distinct(n)
  <2> SUFFICES ASSUME NEW i \in 1 .. Len(q) + 1, NEW k \in 1 .. Len(q) + 1, n[i] = n[k]
               PROVE  i = k
    BY <1>2, <1>4 DEF Distinct
  <2>1. CASE i = Len(q) + 1 \/ k = Len(q) + 1
    BY <1>2, <1>3, <1>6, <2>1
  <2>2. CASE i \in 1 .. Len(q) /\ k \in 1 .. Len(q)
    BY <1>2, <1>3, <2>2 DEF Distinct
  <2> QED BY <1>3, <2>1, <2>2
<1>8. Before(q, "resume", "alt") /\ t # "resume" => Before(n, "resume", "alt")
  <2> SUFFICES ASSUME Before(q, "resume", "alt"), t # "resume",
                      NEW i \in 1 .. Len(q) + 1, NEW k \in 1 .. Len(q) + 1,
                      n[i] = "resume", n[k] = "alt"
               PROVE  i < k
    BY <1>2, <1>4 DEF Before
  <2>1. i \in 1 .. Len(q)
    BY <1>2, <1>3
  <2>2. CASE k = Len(q) + 1
    BY <1>3, <2>1, <2>2
  <2>3. CASE k \in 1 .. Len(q)
    BY <1>2, <1>3, <2>1, <2>3 DEF Before
  <2> QED BY <1>3, <2>2, <2>3
<1>9. "alt" \notin Range(q) /\ t # "alt" => Before(n, "resume", "alt")
  BY <1>4, <1>5 DEF Before
<1> QED BY <1>1, <1>2, <1>5, <1>7, <1>8, <1>9

\* A task that is cancelled.
LEMMA RemovedTask ==
  ASSUME NEW q \in Seq(Tasks), Distinct(q), NEW t \in Range(q), NEW n,
         n = RemoveAt(q, CHOOSE i \in DOMAIN q : q[i] = t)
  PROVE  n \in Seq(Tasks) /\ Distinct(n) /\ Range(n) = Range(q) \ {t}
<1>1. /\ DOMAIN q = 1 .. Len(q) /\ Len(q) \in Nat
      /\ \A x : x \in Range(q) <=> \E i \in 1 .. Len(q) : q[i] = x
  BY TaskRange
<1>2. PICK k : k = CHOOSE i \in DOMAIN q : q[i] = t
  OBVIOUS
<1>3. k \in 1 .. Len(q) /\ q[k] = t
  BY <1>1, <1>2
<1>4. n = SubSeq(q, 1, k - 1) \o SubSeq(q, k + 1, Len(q))
  BY <1>2 DEF RemoveAt
<1>5. PICK a, b : a = SubSeq(q, 1, k - 1) /\ b = SubSeq(q, k + 1, Len(q))
  OBVIOUS
<1>6. /\ a \in Seq(Tasks) /\ Len(a) = k - 1
      /\ \A i \in 1 .. k - 1 : a[i] = q[i]
  <2>1. 1 \in 1 .. Len(q) + 1 /\ k - 1 \in 0 .. Len(q) /\ 1 \in Int /\ k - 1 \in Int
    BY <1>1, <1>3
  <2> QED BY <1>1, <1>3, <1>5, <2>1, SubSeqProperties
<1>7. /\ b \in Seq(Tasks) /\ Len(b) = Len(q) - k
      /\ \A i \in 1 .. Len(q) - k : b[i] = q[i + k]
  <2>1. k + 1 \in 1 .. Len(q) + 1 /\ Len(q) \in 0 .. Len(q)
    BY <1>1, <1>3
  <2>2. /\ b \in Seq(Tasks)
        /\ Len(b) = IF k + 1 <= Len(q) THEN Len(q) - (k + 1) + 1 ELSE 0
        /\ \A i \in 1 .. Len(q) - (k + 1) + 1 : b[i] = q[(k + 1) + i - 1]
    BY <1>1, <1>3, <1>5, <2>1, SubSeqProperties
  <2>3. Len(b) = Len(q) - k
    <3>1. Len(b) = IF k + 1 <= Len(q) THEN Len(q) - (k + 1) + 1 ELSE 0
      BY <2>2
    <3>2. CASE k + 1 <= Len(q)
      <4>1. Len(b) = Len(q) - (k + 1) + 1
        BY <3>1, <3>2
      <4> QED BY <1>1, <1>3, <4>1
    <3>3. CASE ~ (k + 1 <= Len(q))
      <4>1. Len(b) = 0
        BY <3>1, <3>3
      <4>2. k \in Nat /\ k <= Len(q) /\ Len(q) \in Nat
        BY <1>1, <1>3
      <4>3. Len(q) = k
        BY <3>3, <4>2
      <4> QED BY <4>1, <4>2, <4>3
    <3> QED BY <3>2, <3>3
  <2>4. ASSUME NEW i \in 1 .. Len(q) - k PROVE b[i] = q[i + k]
    <3>1. i \in 1 .. Len(q) - (k + 1) + 1 /\ (k + 1) + i - 1 = i + k
      BY <1>1, <1>3
    <3>2. b[i] = q[(k + 1) + i - 1]
      BY <2>2, <3>1
    <3> QED BY <3>1, <3>2
  <2> QED BY <2>2, <2>3, <2>4
<1>8. n \in Seq(Tasks) /\ Len(n) = Len(q) - 1
  <2>1. n = a \o b
    BY <1>4, <1>5
  <2>2. a \o b \in Seq(Tasks)
    BY <1>6, <1>7, ConcatProperties
  <2>3. Len(a \o b) = Len(a) + Len(b)
    BY <1>6, <1>7, ConcatProperties
  <2>4. (k - 1) + (Len(q) - k) = Len(q) - 1
    BY <1>1, <1>3
  <2>5. Len(a \o b) = (k - 1) + (Len(q) - k)
    BY <1>6, <1>7, <2>3
  <2> QED BY <2>1, <2>2, <2>4, <2>5
<1>15. ASSUME NEW i \in 1 .. Len(q) - 1
       PROVE  n[i] = IF i < k THEN q[i] ELSE q[i + 1]
  <2>1. n = a \o b
    BY <1>4, <1>5
  <2>2. i \in 1 .. Len(a) + Len(b)
    BY <1>1, <1>3, <1>6, <1>7
  <2>3. (a \o b)[i] = IF i <= Len(a) THEN a[i] ELSE b[i - Len(a)]
    BY <1>6, <1>7, <2>2, ConcatProperties
  <2>4. CASE i < k
    <3>1. i <= Len(a) /\ i \in 1 .. k - 1
      BY <1>1, <1>3, <1>6, <2>4
    <3>2. n[i] = a[i]
      BY <2>1, <2>3, <3>1
    <3> QED BY <1>6, <2>4, <3>1, <3>2
  <2>5. CASE ~ (i < k)
    <3>1. i - (k - 1) \in 1 .. Len(q) - k /\ ~ (i <= Len(a)) /\ Len(a) = k - 1
      BY <1>1, <1>3, <1>6, <2>5
    <3>2. n[i] = b[i - (k - 1)]
      BY <2>1, <2>3, <3>1
    <3>3. b[i - (k - 1)] = q[(i - (k - 1)) + k]
      BY <1>7, <3>1
    <3>4. (i - (k - 1)) + k = i + 1
      BY <1>1, <1>3
    <3> QED BY <2>5, <3>2, <3>3, <3>4
  <2> QED BY <2>4, <2>5
<1>9. /\ DOMAIN n = 1 .. Len(q) - 1
      /\ \A x : x \in Range(n) <=> \E i \in 1 .. Len(q) - 1 : n[i] = x
  BY <1>8, TaskRange, ZenonT(40)
<1>10. ASSUME NEW i \in 1 .. Len(q) - 1
       PROVE  /\ n[i] = q[IF i < k THEN i ELSE i + 1]
              /\ (IF i < k THEN i ELSE i + 1) \in 1 .. Len(q)
  <2>1. (IF i < k THEN i ELSE i + 1) \in 1 .. Len(q)
    BY <1>1, <1>3
  <2> QED BY <1>15, <2>1
<1>11. Distinct(n)
  <2> SUFFICES ASSUME NEW i \in 1 .. Len(q) - 1, NEW j \in 1 .. Len(q) - 1, n[i] = n[j]
               PROVE  i = j
    BY <1>9 DEF Distinct
  <2>1. (IF i < k THEN i ELSE i + 1) = (IF j < k THEN j ELSE j + 1)
    BY <1>1, <1>10 DEF Distinct
  <2> QED BY <1>1, <1>3, <2>1
<1>12. t \notin Range(n)
  <2> SUFFICES ASSUME NEW i \in 1 .. Len(q) - 1, n[i] = t PROVE FALSE
    BY <1>9
  <2>1. (IF i < k THEN i ELSE i + 1) = k
    BY <1>1, <1>3, <1>10 DEF Distinct
  <2> QED BY <1>1, <1>3, <2>1
<1>13. \A x : x \in Range(n) => x \in Range(q)
  BY <1>1, <1>9, <1>10
<1>14. ASSUME NEW x \in Range(q), x # t PROVE x \in Range(n)
  <2>1. PICK i \in 1 .. Len(q) : q[i] = x
    BY <1>1, <1>14
  <2>2. CASE i < k
    <3>1. i \in 1 .. Len(q) - 1
      BY <1>1, <1>3, <2>1, <2>2
    <3>2. n[i] = x
      BY <1>15, <2>1, <2>2, <3>1
    <3> QED BY <1>9, <3>1, <3>2
  <2>3. CASE i > k
    <3>1. i - 1 \in 1 .. Len(q) - 1 /\ ~ (i - 1 < k) /\ (i - 1) + 1 = i
      BY <1>1, <1>3, <2>1, <2>3
    <3>2. n[i - 1] = x
      BY <1>15, <2>1, <3>1
    <3> QED BY <1>9, <3>1, <3>2
  <2> QED BY <1>1, <1>3, <1>14, <2>1, <2>2, <2>3
<1> QED BY <1>8, <1>11, <1>12, <1>13, <1>14

\* The first task is run.
LEMMA FirstTask ==
  ASSUME NEW q \in Seq(Tasks), Distinct(q), q # << >>
  PROVE  /\ Tail(q) \in Seq(Tasks) /\ Distinct(Tail(q))
         /\ Head(q) \in Range(q) /\ Range(Tail(q)) = Range(q) \ {Head(q)}
         /\ Before(q, "resume", "alt") /\ Head(q) = "alt" => "resume" \notin Range(q)
<1>1. /\ DOMAIN q = 1 .. Len(q) /\ Len(q) \in Nat
      /\ \A x : x \in Range(q) <=> \E i \in 1 .. Len(q) : q[i] = x
  BY TaskRange
<1>2. Len(q) > 0 /\ Head(q) = q[1]
  BY <1>1, EmptySeq
<1>3. PICK n : n = Tail(q)
  OBVIOUS
<1>4. n \in Seq(Tasks) /\ Len(n) = Len(q) - 1 /\ \A i \in 1 .. Len(n) : n[i] = q[i + 1]
  BY <1>1, <1>3, HeadTailProperties
<1>5. /\ DOMAIN n = 1 .. Len(n)
      /\ \A x : x \in Range(n) <=> \E i \in 1 .. Len(n) : n[i] = x
  BY <1>4, TaskRange
<1>6. Distinct(n)
  <2> SUFFICES ASSUME NEW i \in 1 .. Len(n), NEW k \in 1 .. Len(n), n[i] = n[k]
               PROVE  i = k
    BY <1>5 DEF Distinct
  <2>1. i + 1 \in 1 .. Len(q) /\ k + 1 \in 1 .. Len(q) /\ q[i + 1] = q[k + 1]
    BY <1>1, <1>2, <1>4
  <2>2. i + 1 = k + 1
    BY <1>1, <2>1 DEF Distinct
  <2> QED BY <1>1, <1>4, <2>2
<1>7. \A x : x \in Range(n) <=> x \in Range(q) /\ x # q[1]
  <2>1. ASSUME NEW x \in Range(n) PROVE x \in Range(q) /\ x # q[1]
    <3>1. PICK i \in 1 .. Len(n) : n[i] = x
      BY <1>5, <2>1
    <3>2. i + 1 \in 1 .. Len(q) /\ q[i + 1] = x /\ i + 1 # 1 /\ 1 \in 1 .. Len(q)
      BY <1>1, <1>2, <1>4, <3>1
    <3> QED BY <1>1, <3>2 DEF Distinct
  <2>2. ASSUME NEW x \in Range(q), x # q[1] PROVE x \in Range(n)
    <3>1. PICK i \in 1 .. Len(q) : q[i] = x
      BY <1>1, <2>2
    <3>2. i - 1 \in 1 .. Len(n) /\ (i - 1) + 1 = i
      BY <1>1, <1>4, <2>2, <3>1
    <3>3. n[i - 1] = x
      BY <1>4, <3>1, <3>2
    <3> QED BY <1>5, <3>2, <3>3
  <2> QED BY <2>1, <2>2
<1>8. Before(q, "resume", "alt") /\ Head(q) = "alt" => "resume" \notin Range(q)
  <2> SUFFICES ASSUME Before(q, "resume", "alt"), q[1] = "alt",
                      NEW i \in 1 .. Len(q), q[i] = "resume"
               PROVE  FALSE
    BY <1>1, <1>2
  <2>1. 1 \in 1 .. Len(q)
    BY <1>1, <1>2
  <2>2. i < 1
    BY <1>1, <2>1 DEF Before
  <2> QED BY <1>1, <2>2
<1>9. q[1] \in Range(q)
  <2>1. 1 \in 1 .. Len(q)
    BY <1>1, <1>2
  <2> QED BY <1>1, <2>1
<1> QED BY <1>2, <1>3, <1>4, <1>6, <1>7, <1>8, <1>9

-----------------------------------------------------------------------------
(* What the methods do to the members.                                     *)

\* The members that neither a job nor a task of a job changes.
SameRequest(s, u) ==
    /\ u.request = s.request /\ u.preconnect = s.preconnect
    /\ u.started = s.started /\ u.alive = s.alive
    /\ u.resolving = s.resolving /\ u.resolves = s.resolves
    /\ u.proxy = s.proxy /\ u.kind = s.kind /\ u.service = s.service
    /\ u.net_error = s.net_error /\ u.bound = s.bound
    /\ u.job_bound = s.job_bound /\ u.can_alt_proxy = s.can_alt_proxy
    /\ u.scenario = s.scenario

\* The job j is the only one that changes.
OnlyJob(s, u, j) ==
    \A i \in Jobs : i # j => u.job[i] = s.job[i] /\ u.result[i] = s.result[i]

\* The members that time the main job.
SameDelay(s, u) ==
    u.blocked = s.blocked /\ u.wait = s.wait /\ u.later = s.later

\* The type of a controller whose jobs and tasks change.
LEMMA UpdatedJobs ==
  ASSUME NEW s \in Controller, NEW b \in [Jobs -> JobState],
         NEW o \in [Jobs -> Results \cup {"none"}], NEW a \in Nat, NEW n \in Seq(Tasks)
  PROVE  [s EXCEPT !.job = b, !.result = o, !.auths = a, !.tasks = n] \in Controller
<1>1. n \in Seq({"main", "alt", "resume", "notify"})
  BY DEF Tasks
<1> QED BY <1>1 DEF Controller

\* A job has a result.
LEMMA EndedFields ==
  ASSUME NEW s, Typed(s), NEW j \in Jobs, j \notin Pending(s), NEW r \in Results,
         NEW u, u = Ended(s, j, r)
  PROVE  /\ Typed(u) /\ SameRequest(s, u) /\ OnlyJob(s, u, j) /\ SameDelay(s, u)
         /\ u.job[j] = "done" /\ u.result[j] = r
         /\ u.in_map = s.in_map /\ u.resumed = s.resumed
         /\ Pending(u) = Pending(s) \cup {j}
         /\ Before(s.tasks, "resume", "alt") => Before(u.tasks, "resume", "alt")
<1>1. s \in Controller /\ Distinct(s.tasks) /\ s.tasks \in Seq(Tasks)
  BY DEF Typed, Controller, Tasks
<1>2. j \in Tasks /\ j # "resume"
  BY DEF Jobs, Tasks
<1>3. PICK n : n = Append(s.tasks, j)
  OBVIOUS
<1>4. /\ n \in Seq(Tasks) /\ Distinct(n) /\ Range(n) = Range(s.tasks) \cup {j}
      /\ Before(s.tasks, "resume", "alt") => Before(n, "resume", "alt")
  BY <1>1, <1>2, <1>3, PostedTask DEF Pending
<1>5. PICK a : a = IF r = "auth" THEN s.auths + 1 ELSE s.auths
  OBVIOUS
<1>6. a \in Nat
  BY <1>1, <1>5 DEF Controller
<1>7. u = [s EXCEPT !.job[j] = "done", !.result[j] = r, !.auths = a, !.tasks = n]
  BY <1>1, <1>3, <1>5 DEF Ended, Post, Controller
<1>10. PICK b, o : /\ b = [s.job EXCEPT ![j] = "done"]
                  /\ o = [s.result EXCEPT ![j] = r]
  OBVIOUS
<1>11. b \in [Jobs -> JobState] /\ o \in [Jobs -> Results \cup {"none"}]
  BY <1>1, <1>10 DEF Controller, JobState
<1>12. u = [s EXCEPT !.job = b, !.result = o, !.auths = a, !.tasks = n]
  BY <1>1, <1>7, <1>10 DEF Controller
<1>14. u.tasks = n
  BY <1>1, <1>12 DEF Controller
<1>13. [s EXCEPT !.job = b, !.result = o, !.auths = a, !.tasks = n] \in Controller
  BY <1>1, <1>4, <1>6, <1>11, UpdatedJobs, Zenon
<1>8. u \in Controller
  BY <1>12, <1>13, Zenon
<1>9. /\ SameRequest(s, u) /\ OnlyJob(s, u, j) /\ SameDelay(s, u)
      /\ u.job[j] = "done" /\ u.result[j] = r
      /\ u.in_map = s.in_map /\ u.resumed = s.resumed
  BY <1>1, <1>7 DEF Controller, SameRequest, OnlyJob, SameDelay
<1> QED BY <1>4, <1>8, <1>9, <1>14 DEF Typed, Pending

\* Only the tasks change.
OnlyTasks(s, u) ==
    /\ SameRequest(s, u) /\ SameDelay(s, u)
    /\ u.job = s.job /\ u.result = s.result
    /\ u.in_map = s.in_map /\ u.resumed = s.resumed /\ u.auths = s.auths

\* The type of a controller whose tasks change.
LEMMA UpdatedTasks ==
  ASSUME NEW s \in Controller, NEW n \in Seq(Tasks), NEW u, u = [s EXCEPT !.tasks = n]
  PROVE  u \in Controller /\ u.tasks = n /\ OnlyTasks(s, u)
<1>1. n \in Seq({"main", "alt", "resume", "notify"})
  BY DEF Tasks
<1>2. [s EXCEPT !.tasks = n] \in Controller
  BY <1>1 DEF Controller
<1>3. u \in Controller
  BY <1>2, Zenon
<1>4. u.tasks = n
  BY DEF Controller
<1>5. OnlyTasks(s, u)
  BY DEF Controller, OnlyTasks, SameRequest, SameDelay
<1> QED BY <1>3, <1>4, <1>5

\* A task is posted.
LEMMA PostFields ==
  ASSUME NEW s, Typed(s), NEW t \in Tasks, t \notin Pending(s), NEW u, u = Post(s, t)
  PROVE  /\ Typed(u) /\ OnlyTasks(s, u) /\ Pending(u) = Pending(s) \cup {t}
         /\ "alt" \notin Pending(s) /\ t # "alt" => Before(u.tasks, "resume", "alt")
<1>1. s \in Controller /\ Distinct(s.tasks) /\ s.tasks \in Seq(Tasks)
  BY DEF Typed, Controller, Tasks
<1>2. PICK n : n = Append(s.tasks, t)
  OBVIOUS
<1>3. /\ n \in Seq(Tasks) /\ Distinct(n) /\ Range(n) = Range(s.tasks) \cup {t}
      /\ "alt" \notin Range(s.tasks) /\ t # "alt" => Before(n, "resume", "alt")
  BY <1>1, <1>2, PostedTask DEF Pending
<1>4. u = [s EXCEPT !.tasks = n]
  BY <1>2 DEF Post
<1>5. u \in Controller /\ u.tasks = n /\ OnlyTasks(s, u)
  BY <1>1, <1>3, <1>4, UpdatedTasks, Zenon
<1> QED BY <1>3, <1>5 DEF Typed, Pending

\* A task is cancelled.
LEMMA CancelledFields ==
  ASSUME NEW s, Typed(s), NEW t, NEW u, u = Cancelled(s, t)
  PROVE  Typed(u) /\ OnlyTasks(s, u) /\ Pending(u) = Pending(s) \ {t}
<1>1. s \in Controller /\ Distinct(s.tasks) /\ s.tasks \in Seq(Tasks)
  BY DEF Typed, Controller, Tasks
<1>2. CASE t \notin Range(s.tasks)
  <2>1. u = s
    BY <1>2 DEF Cancelled
  <2> QED BY <1>2, <2>1 DEF OnlyTasks, SameRequest, SameDelay, Pending
<1>3. CASE t \in Range(s.tasks)
  <2>1. PICK n : n = RemoveAt(s.tasks, CHOOSE i \in DOMAIN s.tasks : s.tasks[i] = t)
    OBVIOUS
  <2>2. n \in Seq(Tasks) /\ Distinct(n) /\ Range(n) = Range(s.tasks) \ {t}
    BY <1>1, <1>3, <2>1, RemovedTask
  <2>3. u = [s EXCEPT !.tasks = n]
    BY <1>3, <2>1 DEF Cancelled
  <2>4. u \in Controller /\ u.tasks = n /\ OnlyTasks(s, u)
    BY <1>1, <2>2, <2>3, UpdatedTasks, Zenon
  <2> QED BY <2>2, <2>4 DEF Typed, Pending
<1> QED BY <1>2, <1>3

\* The next task is run.
LEMMA RanFields ==
  ASSUME NEW s, Typed(s), s.tasks # << >>, NEW u, u = Ran(s)
  PROVE  /\ Typed(u) /\ OnlyTasks(s, u)
         /\ Head(s.tasks) \in Pending(s) /\ Pending(u) = Pending(s) \ {Head(s.tasks)}
         /\ Before(s.tasks, "resume", "alt") /\ Head(s.tasks) = "alt" =>
              "resume" \notin Pending(s)
<1>1. s \in Controller /\ Distinct(s.tasks) /\ s.tasks \in Seq(Tasks)
  BY DEF Typed, Controller, Tasks
<1>2. PICK n : n = Tail(s.tasks)
  OBVIOUS
<1>3. /\ n \in Seq(Tasks) /\ Distinct(n)
      /\ Head(s.tasks) \in Range(s.tasks) /\ Range(n) = Range(s.tasks) \ {Head(s.tasks)}
      /\ Before(s.tasks, "resume", "alt") /\ Head(s.tasks) = "alt" =>
           "resume" \notin Range(s.tasks)
  BY <1>1, <1>2, FirstTask
<1>4. u = [s EXCEPT !.tasks = n]
  BY <1>2 DEF Ran
<1>5. u \in Controller /\ u.tasks = n /\ OnlyTasks(s, u)
  BY <1>1, <1>3, <1>4, UpdatedTasks, Zenon
<1> QED BY <1>3, <1>5 DEF Typed, Pending

\* One of the jobs changes.
WithJob(s, j, x, r) == [s EXCEPT !.job[j] = x, !.result[j] = r]

\* And nothing else.
JobIs(s, u, j, x, r) ==
    /\ u.tasks = s.tasks
    /\ SameRequest(s, u) /\ SameDelay(s, u) /\ OnlyJob(s, u, j)
    /\ u.job[j] = x /\ u.result[j] = r
    /\ u.in_map = s.in_map /\ u.resumed = s.resumed

\* The type of a controller one of whose jobs changes.
LEMMA UpdatedJob ==
  ASSUME NEW s \in Controller, NEW j \in Jobs, NEW x \in JobState,
         NEW r \in Results \cup {"none"},
         NEW u, u = WithJob(s, j, x, r)
  PROVE  u \in Controller /\ JobIs(s, u, j, x, r)
<1>1. PICK b, o : b = [s.job EXCEPT ![j] = x] /\ o = [s.result EXCEPT ![j] = r]
  OBVIOUS
<1>2. b \in [Jobs -> JobState] /\ o \in [Jobs -> Results \cup {"none"}]
  BY <1>1 DEF Controller
<1>3. u = [s EXCEPT !.job = b, !.result = o]
  BY <1>1 DEF Controller, WithJob
<1>4. [s EXCEPT !.job = b, !.result = o] \in Controller
  BY <1>2 DEF Controller
<1>5. u \in Controller
  BY <1>3, <1>4, Zenon
<1>6. JobIs(s, u, j, x, r)
  BY DEF Controller, SameRequest, SameDelay, OnlyJob, WithJob, JobIs
<1> QED BY <1>5, <1>6

\* A job is destroyed.
LEMMA ResetFields ==
  ASSUME NEW s, Typed(s), NEW j \in Jobs, NEW u, u = Reset(s, j)
  PROVE  /\ Typed(u) /\ SameRequest(s, u) /\ SameDelay(s, u) /\ OnlyJob(s, u, j)
         /\ u.job[j] = "none" /\ u.result[j] = "none"
         /\ u.in_map = s.in_map /\ u.resumed = s.resumed
         /\ Pending(u) = Pending(s) \ {j}
<1>1. PICK t : t = Cancelled(s, j)
  OBVIOUS
<1>2. Typed(t) /\ OnlyTasks(s, t) /\ Pending(t) = Pending(s) \ {j}
  BY <1>1, CancelledFields
<1>3. u = [t EXCEPT !.job[j] = "none", !.result[j] = "none"]
  BY <1>1 DEF Reset
<1>4. t \in Controller
  BY <1>2 DEF Typed
<1>5. "none" \in JobState /\ "none" \in Results \cup {"none"}
  BY DEF JobState
<1>6. u = WithJob(t, j, "none", "none")
  BY <1>3 DEF WithJob
<1>7. /\ u \in Controller /\ u.tasks = t.tasks
      /\ SameRequest(t, u) /\ SameDelay(t, u) /\ OnlyJob(t, u, j)
      /\ u.job[j] = "none" /\ u.result[j] = "none"
      /\ u.in_map = t.in_map /\ u.resumed = t.resumed
  <2>1. u \in Controller /\ JobIs(t, u, j, "none", "none")
    BY <1>4, <1>5, <1>6, UpdatedJob
  <2> QED BY <2>1 DEF JobIs
<1>8. SameRequest(s, u) /\ SameDelay(s, u) /\ OnlyJob(s, u, j)
  BY <1>2, <1>7 DEF OnlyTasks, SameRequest, SameDelay, OnlyJob
<1>9. u.in_map = s.in_map /\ u.resumed = s.resumed
  BY <1>2, <1>7 DEF OnlyTasks
<1> QED BY <1>2, <1>7, <1>8, <1>9 DEF Typed, Pending

\* The members that time the main job change.
WithDelay(s, b, w, l) == [s EXCEPT !.blocked = b, !.wait = w, !.later = l]

\* And nothing else.
OnlyDelay(s, u, b, w, l) ==
    /\ u.tasks = s.tasks /\ SameRequest(s, u)
    /\ u.job = s.job /\ u.result = s.result
    /\ u.blocked = b /\ u.wait = w /\ u.later = l
    /\ u.in_map = s.in_map /\ u.resumed = s.resumed /\ u.auths = s.auths

\* The type of a controller that delays the main job.
LEMMA UpdatedDelay ==
  ASSUME NEW s \in Controller, NEW b \in BOOLEAN, NEW w \in BOOLEAN, NEW l \in BOOLEAN,
         NEW u, u = WithDelay(s, b, w, l)
  PROVE  u \in Controller /\ OnlyDelay(s, u, b, w, l)
<1>1. [s EXCEPT !.blocked = b, !.wait = w, !.later = l] \in Controller
  BY DEF Controller
<1>2. u \in Controller
  BY <1>1, Zenon DEF WithDelay
<1>3. OnlyDelay(s, u, b, w, l)
  BY DEF Controller, WithDelay, SameRequest, OnlyDelay
<1> QED BY <1>2, <1>3

\* The main job will be resumed, now or after the delay.
LEMMA ResumeMainJobLaterFields ==
  ASSUME NEW s, Typed(s), NEW d \in BOOLEAN, NEW u, u = ResumeMainJobLater(s, d)
  PROVE  /\ Typed(u) /\ SameRequest(s, u)
         /\ u.job = s.job /\ u.result = s.result
         /\ u.in_map = s.in_map /\ u.resumed = s.resumed
         /\ u.blocked = s.blocked /\ u.wait = s.wait /\ u.later = d
         /\ d => Pending(u) = Pending(s) \ {"resume"}
         /\ ~ d => Pending(u) = Pending(s) \cup {"resume"}
         /\ ~ d /\ "alt" \notin Pending(s) => Before(u.tasks, "resume", "alt")
<1>1. PICK t : t = Cancelled(s, "resume")
  OBVIOUS
<1>2. Typed(t) /\ OnlyTasks(s, t) /\ Pending(t) = Pending(s) \ {"resume"}
  BY <1>1, CancelledFields
<1>3. t \in Controller /\ t.blocked \in BOOLEAN /\ t.wait \in BOOLEAN
  BY <1>2 DEF Typed, Controller
<1>4. PICK v : v = WithDelay(t, t.blocked, t.wait, d)
  OBVIOUS
<1>5. v = [t EXCEPT !.later = d]
  BY <1>3, <1>4 DEF WithDelay, Controller
<1>6. /\ v \in Controller /\ v.tasks = t.tasks /\ SameRequest(t, v)
      /\ v.job = t.job /\ v.result = t.result
      /\ v.blocked = t.blocked /\ v.wait = t.wait /\ v.later = d
      /\ v.in_map = t.in_map /\ v.resumed = t.resumed /\ v.auths = t.auths
  <2>1. v \in Controller /\ OnlyDelay(t, v, t.blocked, t.wait, d)
    BY <1>3, <1>4, UpdatedDelay
  <2> QED BY <2>1 DEF OnlyDelay
<1>7. Typed(v) /\ Pending(v) = Pending(s) \ {"resume"}
  BY <1>2, <1>6 DEF Typed, Pending
<1>8. u = IF d THEN v ELSE Post(v, "resume")
  BY <1>1, <1>5 DEF ResumeMainJobLater
<1>9. /\ SameRequest(s, v)
      /\ v.job = s.job /\ v.result = s.result
      /\ v.in_map = s.in_map /\ v.resumed = s.resumed
      /\ v.blocked = s.blocked /\ v.wait = s.wait /\ v.later = d
  BY <1>2, <1>6 DEF OnlyTasks, SameRequest, SameDelay
<1>10. CASE d
  <2>1. u = v
    BY <1>8, <1>10
  <2> QED BY <1>7, <1>9, <1>10, <2>1
<1>11. CASE ~ d
  <2>1. u = Post(v, "resume")
    BY <1>8, <1>11
  <2>2. "resume" \in Tasks /\ "resume" \notin Pending(v) /\ "resume" # "alt"
    BY <1>7 DEF Tasks
  <2>3. /\ Typed(u) /\ OnlyTasks(v, u) /\ Pending(u) = Pending(v) \cup {"resume"}
        /\ "alt" \notin Pending(v) => Before(u.tasks, "resume", "alt")
    BY <1>7, <2>1, <2>2, PostFields
  <2>4. Pending(u) = Pending(s) \cup {"resume"}
    BY <1>7, <2>3
  <2>5. /\ SameRequest(s, u)
        /\ u.job = s.job /\ u.result = s.result
        /\ u.in_map = s.in_map /\ u.resumed = s.resumed
        /\ u.blocked = s.blocked /\ u.wait = s.wait /\ u.later = d
    BY <1>9, <2>3 DEF OnlyTasks, SameRequest, SameDelay
  <2>6. "alt" \notin Pending(s) => Before(u.tasks, "resume", "alt")
    BY <1>7, <2>3
  <2> QED BY <1>11, <2>3, <2>4, <2>5, <2>6
<1> QED BY <1>10, <1>11

\* What an alternative job that makes way does to the main job.
Released(s, u, d) ==
    /\ Typed(u) /\ SameRequest(s, u)
    /\ u.job = s.job /\ u.result = s.result
    /\ u.in_map = s.in_map /\ u.resumed = s.resumed
    /\ s.job["main"] = "none" => SameDelay(s, u) /\ u.tasks = s.tasks
    /\ s.job["main"] # "none" => ~ u.blocked
    /\ s.job["main"] # "waiting" =>
         u.wait = s.wait /\ u.later = s.later /\ u.tasks = s.tasks
    /\ s.job["main"] = "waiting" =>
         /\ u.wait = d /\ u.later = d
         /\ d => Pending(u) = Pending(s) \ {"resume"}
         /\ ~ d => Pending(u) = Pending(s) \cup {"resume"}
         /\ ~ d /\ "alt" \notin Pending(s) => Before(u.tasks, "resume", "alt")

\* MaybeResumeMainJob.
LEMMA MaybeResumeMainJobFields ==
  ASSUME NEW s, Typed(s), NEW d \in BOOLEAN, NEW u, u = MaybeResumeMainJob(s, "alt", d)
  PROVE  Released(s, u, d)
<1>1. s \in Controller /\ FALSE \in BOOLEAN /\ s.wait \in BOOLEAN /\ s.later \in BOOLEAN
  BY DEF Typed, Controller
<1>2. CASE s.job["main"] = "none"
  <2>1. u = s
    BY <1>2 DEF MaybeResumeMainJob
  <2> QED BY <1>2, <2>1 DEF Released, SameRequest, SameDelay
<1>3. CASE s.job["main"] # "none" /\ s.job["main"] # "waiting"
  <2>1. u = WithDelay(s, FALSE, s.wait, s.later)
    BY <1>1, <1>3 DEF MaybeResumeMainJob, WithDelay, Controller
  <2>2. /\ u \in Controller /\ u.tasks = s.tasks /\ SameRequest(s, u)
        /\ u.job = s.job /\ u.result = s.result
        /\ u.blocked = FALSE /\ u.wait = s.wait /\ u.later = s.later
        /\ u.in_map = s.in_map /\ u.resumed = s.resumed
    <3>1. u \in Controller /\ OnlyDelay(s, u, FALSE, s.wait, s.later)
      BY <1>1, <2>1, UpdatedDelay
    <3> QED BY <3>1 DEF OnlyDelay
  <2> QED BY <1>3, <2>2 DEF Released, Typed
<1>4. CASE s.job["main"] = "waiting"
  <2>1. PICK v : v = WithDelay(s, FALSE, d, s.later)
    OBVIOUS
  <2>2. /\ v \in Controller /\ v.tasks = s.tasks /\ SameRequest(s, v)
        /\ v.job = s.job /\ v.result = s.result
        /\ v.blocked = FALSE /\ v.wait = d /\ v.later = s.later
        /\ v.in_map = s.in_map /\ v.resumed = s.resumed
    <3>1. v \in Controller /\ OnlyDelay(s, v, FALSE, d, s.later)
      BY <1>1, <2>1, UpdatedDelay
    <3> QED BY <3>1 DEF OnlyDelay
  <2>3. v = [s EXCEPT !.blocked = FALSE, !.wait = d]
    BY <1>1, <2>1 DEF WithDelay, Controller
  <2>4. u = ResumeMainJobLater(v, d)
    BY <1>4, <2>3 DEF MaybeResumeMainJob
  <2>5. Typed(v) /\ Pending(v) = Pending(s)
    BY <2>2 DEF Typed, Pending
  <2>6. /\ Typed(u) /\ SameRequest(v, u)
        /\ u.job = v.job /\ u.result = v.result
        /\ u.in_map = v.in_map /\ u.resumed = v.resumed
        /\ u.blocked = v.blocked /\ u.wait = v.wait /\ u.later = d
        /\ d => Pending(u) = Pending(v) \ {"resume"}
        /\ ~ d => Pending(u) = Pending(v) \cup {"resume"}
        /\ ~ d /\ "alt" \notin Pending(v) => Before(u.tasks, "resume", "alt")
    BY <2>4, <2>5, ResumeMainJobLaterFields
  <2>7. SameRequest(s, u)
    BY <2>2, <2>6 DEF SameRequest
  <2>8. ~ u.blocked
    BY <2>2, <2>6
  <2> QED BY <1>4, <2>2, <2>5, <2>6, <2>7, <2>8 DEF Released
<1> QED BY <1>2, <1>3, <1>4

-----------------------------------------------------------------------------
(* The methods of a job preserve the invariant.                            *)

\* The controller while the job j is connecting.
Running(s, j) == WithJob(s, j, "connecting", "none")

\* p is s, the job j apart, which is connecting in p.
RunsAs(s, p, j) ==
    /\ Typed(s) /\ p.tasks = s.tasks
    /\ SameRequest(s, p) /\ SameDelay(s, p) /\ OnlyJob(s, p, j)
    /\ p.job[j] = "connecting" /\ p.result[j] = "none"
    /\ p.in_map = s.in_map /\ p.resumed = s.resumed

\* Running is what it says.
LEMMA RunningFields ==
  ASSUME NEW s, Typed(s), NEW j \in Jobs
  PROVE  RunsAs(s, Running(s, j), j) /\ Typed(Running(s, j))
<1>1. PICK p : p = Running(s, j)
  OBVIOUS
<1>2. /\ s \in Controller /\ "connecting" \in JobState
      /\ "none" \in Results \cup {"none"} /\ p = WithJob(s, j, "connecting", "none")
  BY <1>1 DEF Typed, JobState, Running
<1>3. /\ p \in Controller /\ p.tasks = s.tasks
      /\ SameRequest(s, p) /\ SameDelay(s, p) /\ OnlyJob(s, p, j)
      /\ p.job[j] = "connecting" /\ p.result[j] = "none"
      /\ p.in_map = s.in_map /\ p.resumed = s.resumed
  <2>1. p \in Controller /\ JobIs(s, p, j, "connecting", "none")
    BY <1>2, UpdatedJob
  <2> QED BY <2>1 DEF JobIs
<1>4. RunsAs(s, p, j)
  BY <1>3 DEF RunsAs
<1>5. Typed(p)
  BY <1>3 DEF Typed
<1> QED BY <1>1, <1>4, <1>5

\* A job that runs may end.
LEMMA EndedInv ==
  ASSUME NEW s, NEW j \in Jobs, NEW p, RunsAs(s, p, j), CoreInv(p), NEW r \in Results,
         j = "alt" /\ r \in {"auth", "unreachable"} => s.kind = "h2",
         NEW u, u = Ended(s, j, r)
  PROVE  CoreInv(u)
<1> USE DEF Jobs
<1>1. j \notin Pending(s) /\ Typed(s)
  BY DEF CoreInv, RunsAs, ResultsHaveTasks, Pending
<1>2. /\ Typed(u) /\ SameRequest(s, u) /\ OnlyJob(s, u, j) /\ SameDelay(s, u)
      /\ u.job[j] = "done" /\ u.result[j] = r
      /\ u.in_map = s.in_map /\ u.resumed = s.resumed
      /\ Pending(u) = Pending(s) \cup {j}
  BY <1>1, EndedFields
<1>3. /\ SameRequest(p, u) /\ OnlyJob(p, u, j) /\ SameDelay(p, u)
      /\ u.in_map = p.in_map /\ u.resumed = p.resumed
      /\ Pending(u) = Pending(p) \cup {j}
      /\ p.job[j] = "connecting" /\ p.result[j] = "none"
  BY <1>2 DEF RunsAs, SameRequest, OnlyJob, SameDelay, Pending
<1> USE <1>2, <1>3 DEF CoreInv
<1>4. ResultsHaveTasks(u)
  BY DEF ResultsHaveTasks, OnlyJob, Results, Successes, Errors
<1>5. AttemptsAreProper(u)
  BY DEF AttemptsAreProper, OnlyJob, SameRequest, SameDelay, Fresh
<1>6. PreconnectsAreSimple(u)
  BY DEF PreconnectsAreSimple, OnlyJob, SameRequest, SameDelay
<1>7. BoundIsProper(u)
  BY DEF BoundIsProper, OnlyJob, SameRequest, SameDelay
<1>8. WaitingIsProper(u)
  BY DEF WaitingIsProper, OnlyJob, SameRequest, SameDelay
<1>9. KindIsProper(u)
  BY DEF KindIsProper, OnlyJob, SameRequest, SameDelay, RunsAs
<1>10. EndIsProper(u)
  BY DEF EndIsProper, OnlyJob, SameRequest, SameDelay
<1> QED BY <1>4, <1>5, <1>6, <1>7, <1>8, <1>9, <1>10

\* An alternative job that runs may make way for the main job.
LEMMA ReleasedInv ==
  ASSUME NEW s, NEW p, RunsAs(s, p, "alt"), CoreInv(p),
         NEW d \in BOOLEAN, d => s.kind \in {"quic", "proxy"},
         NEW u, Released(s, u, d), NEW q, RunsAs(u, q, "alt"), Typed(q)
  PROVE  CoreInv(q)
<1> USE DEF Jobs
<1>1. /\ SameRequest(p, q) /\ q.in_map = p.in_map /\ q.resumed = p.resumed
      /\ \A i \in Jobs : q.job[i] = p.job[i] /\ q.result[i] = p.result[i]
      /\ p.job["alt"] = "connecting" /\ p.result["alt"] = "none"
  BY DEF RunsAs, Released, SameRequest, OnlyJob
<1>2. Pending(q) \ {"resume"} = Pending(p) \ {"resume"}
  BY DEF RunsAs, Released, OnlyJob, Pending
<1>3. p.job["main"] # "waiting" =>
         q.wait = p.wait /\ q.later = p.later /\ Pending(q) = Pending(p)
  BY DEF RunsAs, Released, OnlyJob, SameDelay, Pending
<1>4. /\ p.job["main"] = "none" => q.blocked = p.blocked
      /\ p.job["main"] # "none" => ~ q.blocked
  BY DEF RunsAs, Released, OnlyJob, SameDelay
<1>5. p.job["main"] = "waiting" =>
         q.wait = d /\ q.later = d /\ ("resume" \in Pending(q) <=> ~ d)
  BY DEF RunsAs, Released, OnlyJob, SameDelay, Pending
<1>6. d => p.kind \in {"quic", "proxy"}
  BY DEF RunsAs, SameRequest
<1> USE <1>1, <1>2, <1>3, <1>4, <1>5 DEF CoreInv, SameRequest
<1>7. ResultsHaveTasks(q)
  BY DEF ResultsHaveTasks
<1>8. AttemptsAreProper(q)
  BY DEF AttemptsAreProper, Fresh
<1>9. PreconnectsAreSimple(q)
  BY DEF PreconnectsAreSimple
<1>10. BoundIsProper(q)
  BY DEF BoundIsProper
<1>11. WaitingIsProper(q)
  BY DEF WaitingIsProper
<1>12. KindIsProper(q)
  BY <1>6 DEF KindIsProper
<1>13. EndIsProper(q)
  BY DEF EndIsProper
<1> QED BY <1>7, <1>8, <1>9, <1>10, <1>11, <1>12, <1>13

\* What a job comes to.
LEMMA JobResultsAre ==
  ASSUME NEW s, s.scenario = c.scenario, NEW j \in Jobs, NEW p, RunsAs(s, p, j), CoreInv(p),
         NEW r \in JobResults(s, j)
  PROVE  /\ r \in Results
         /\ j = "alt" /\ r \in {"auth", "unreachable"} => s.kind = "h2"
<1>1. r \in Results
  BY DEF JobResults, Results, Successes, Errors
<1>2. ASSUME j = "alt", r \in {"auth", "unreachable"} PROVE s.kind = "h2"
  <2>1. UsesTls(s, j)
    BY <1>2 DEF JobResults
  <2>2. s.kind # "quic" /\ s.scenario.https
    BY <1>2, <2>1 DEF UsesTls, Kind, Https
  <2>3. s.kind # "none" /\ s.kind # "proxy"
    BY <1>2, <2>2 DEF CoreInv, KindIsProper, RunsAs, SameRequest
  <2>4. s.kind \in {"none", "quic", "h2", "proxy"}
    BY DEF RunsAs, Typed, Controller
  <2> QED BY <2>2, <2>3, <2>4
<1> QED BY <1>1, <1>2

\* The main job runs on.
MainRan(s, u) ==
    /\ CoreInv(u) /\ SameRequest(s, u) /\ SameDelay(s, u) /\ OnlyJob(s, u, "main")
    /\ u.in_map = s.in_map /\ u.resumed = s.resumed
    /\ u.job["main"] \in {"connecting", "done"}

\* A connection is set up for the main job.
LEMMA InitMainInv ==
  ASSUME NEW s, s.scenario = c.scenario, CoreInv(Running(s, "main")), Typed(s),
         s.result["main"] = "none", NEW u \in InitConnection(s, "main")
  PROVE  MainRan(s, u)
<1> USE DEF Jobs
<1>1. PICK p : p = Running(s, "main")
  OBVIOUS
<1>2. RunsAs(s, p, "main") /\ CoreInv(p)
  BY <1>1, RunningFields
<1>3. ASSUME NEW r \in JobResults(s, "main"), u = Ended(s, "main", r) PROVE MainRan(s, u)
  <2>1. r \in Results
    BY <1>2, JobResultsAre
  <2>2. CoreInv(u)
    BY <1>2, <1>3, <2>1, EndedInv
  <2>3. "main" \notin Pending(s)
    BY <1>2 DEF CoreInv, RunsAs, ResultsHaveTasks, Pending
  <2>4. /\ SameRequest(s, u) /\ OnlyJob(s, u, "main") /\ SameDelay(s, u)
        /\ u.job["main"] = "done" /\ u.in_map = s.in_map /\ u.resumed = s.resumed
    BY <1>3, <2>1, <2>3, EndedFields
  <2> QED BY <2>2, <2>4 DEF MainRan
<1>4. Kind(s, "main") = "main"
  BY DEF Kind
<1>5. \/ u = [s EXCEPT !.job["main"] = "connecting", !.wait = s.wait]
      \/ \E r \in JobResults(s, "main") : u = Ended(s, "main", r)
  BY <1>4 DEF InitConnection, MaybeResumeMainJob
<1>6. CASE u = [s EXCEPT !.job["main"] = "connecting", !.wait = s.wait]
  <2>1. u = p
    BY <1>1, <1>6, ZenonT(40) DEF Running, WithJob, Typed, Controller
  <2> QED BY <1>2, <2>1 DEF MainRan, RunsAs
<1> QED BY <1>3, <1>5, <1>6

\* The alternative job runs on; as long as it blocks the main job, it has either
\* a result or no connection.
AltRan(s, u) ==
    /\ CoreInv(u) /\ ResumedFirst(u) /\ SameRequest(s, u) /\ OnlyJob(s, u, "alt")
    /\ u.in_map = s.in_map /\ u.resumed = s.resumed
    /\ u.job["alt"] \in {"connecting", "done"}
    /\ s.job["main"] # "none" /\ u.blocked =>
         u.job["alt"] = "done" /\ u.result["alt"] # "auth"

\* The delay of an alternative job that runs is known.
LEMMA DelayedInv ==
  ASSUME NEW p, CoreInv(p), p.job["alt"] = "connecting", NEW d \in BOOLEAN,
         d => p.kind \in {"quic", "proxy"},
         NEW u, u = WithDelay(p, p.blocked, d, p.later)
  PROVE  CoreInv(u) /\ OnlyDelay(p, u, p.blocked, d, p.later)
<1> USE DEF Jobs
<1>1. p \in Controller /\ p.blocked \in BOOLEAN /\ p.later \in BOOLEAN
  BY DEF CoreInv, Typed, Controller
<1>2. u \in Controller /\ OnlyDelay(p, u, p.blocked, d, p.later)
  BY <1>1, UpdatedDelay
<1> USE <1>2 DEF CoreInv, SameRequest, OnlyDelay, Pending
<1>3. Typed(u) /\ ResultsHaveTasks(u) /\ BoundIsProper(u) /\ WaitingIsProper(u)
  BY DEF Typed, ResultsHaveTasks, BoundIsProper, WaitingIsProper
<1>4. AttemptsAreProper(u) /\ PreconnectsAreSimple(u) /\ EndIsProper(u)
  BY DEF AttemptsAreProper, Fresh, PreconnectsAreSimple, EndIsProper
<1>5. KindIsProper(u)
  BY DEF KindIsProper
<1> QED BY <1>3, <1>4, <1>5

\* A connection is set up for the alternative job.
LEMMA InitAltInv ==
  ASSUME NEW s, s.scenario = c.scenario, CoreInv(Running(s, "alt")), Typed(s),
         s.result["alt"] = "none", NEW u \in InitConnection(s, "alt")
  PROVE  AltRan(s, u)
<1> USE DEF Jobs
<1>1. PICK p : p = Running(s, "alt")
  OBVIOUS
<1>2. RunsAs(s, p, "alt") /\ CoreInv(p)
  BY <1>1, RunningFields
<1>3. "alt" \notin Pending(s) /\ s.wait \in BOOLEAN
  BY <1>2 DEF CoreInv, RunsAs, ResultsHaveTasks, Pending, Typed, Controller
<1>4. s.wait => s.kind \in {"quic", "proxy"}
  BY <1>2 DEF CoreInv, RunsAs, KindIsProper, SameRequest, SameDelay
<1>5. ASSUME NEW r \in JobResults(s, "alt"), r # "auth", u = Ended(s, "alt", r)
      PROVE  AltRan(s, u)
  <2>1. /\ r \in Results
        /\ r \in {"auth", "unreachable"} => s.kind = "h2"
    BY <1>2, JobResultsAre
  <2>2. CoreInv(u)
    BY <1>2, <1>5, <2>1, EndedInv
  <2>3. /\ SameRequest(s, u) /\ OnlyJob(s, u, "alt")
        /\ u.job["alt"] = "done" /\ u.result["alt"] = r
        /\ u.in_map = s.in_map /\ u.resumed = s.resumed
    BY <1>3, <1>5, <2>1, EndedFields
  <2>4. ResumedFirst(u)
    BY <1>5, <2>3 DEF ResumedFirst
  <2> QED BY <1>5, <2>2, <2>3, <2>4 DEF AltRan
<1>6. ASSUME NEW r \in JobResults(s, "alt"),
             u = Ended(MaybeResumeMainJob(s, "alt", s.wait), "alt", r)
      PROVE  AltRan(s, u)
  <2>1. PICK v : v = MaybeResumeMainJob(s, "alt", s.wait)
    OBVIOUS
  <2>2. Released(s, v, s.wait)
    BY <1>3, <2>1, MaybeResumeMainJobFields
  <2>3. PICK q : q = Running(v, "alt")
    OBVIOUS
  <2>4. RunsAs(v, q, "alt") /\ Typed(q)
    BY <2>2, <2>3, RunningFields DEF Released
  <2>5. CoreInv(q)
    BY <1>2, <1>3, <1>4, <2>2, <2>4, ReleasedInv
  <2>6. /\ r \in Results
        /\ r \in {"auth", "unreachable"} => s.kind = "h2"
    BY <1>2, JobResultsAre
  <2>7. v.kind = s.kind /\ u = Ended(v, "alt", r)
    BY <1>6, <2>1, <2>2 DEF Released, SameRequest
  <2>8. CoreInv(u)
    BY <2>4, <2>5, <2>6, <2>7, EndedInv
  <2>9. "alt" \notin Pending(v) /\ Typed(v)
    BY <2>4, <2>5 DEF CoreInv, RunsAs, ResultsHaveTasks, Pending
  <2>10. /\ SameRequest(v, u) /\ OnlyJob(v, u, "alt") /\ SameDelay(v, u)
         /\ u.job["alt"] = "done" /\ u.result["alt"] = r
         /\ u.in_map = v.in_map /\ u.resumed = v.resumed
         /\ Pending(u) = Pending(v) \cup {"alt"}
         /\ Before(v.tasks, "resume", "alt") => Before(u.tasks, "resume", "alt")
    BY <2>6, <2>7, <2>9, EndedFields
  <2>11. /\ SameRequest(s, u) /\ OnlyJob(s, u, "alt")
         /\ u.in_map = s.in_map /\ u.resumed = s.resumed
         /\ s.job["main"] # "none" => ~ u.blocked
    BY <2>2, <2>10 DEF Released, SameRequest, OnlyJob, SameDelay
  <2>12. ResumedFirst(u)
    BY <1>3, <1>4, <2>2, <2>10, <2>11 DEF ResumedFirst, Released, SameRequest, SameDelay, OnlyJob
  <2> QED BY <2>8, <2>10, <2>11, <2>12 DEF AltRan
<1>7. ASSUME NEW d \in BOOLEAN, d => s.kind \in {"quic", "proxy"},
             u = MaybeResumeMainJob([s EXCEPT !.job["alt"] = "connecting", !.wait = d], "alt", d)
      PROVE  AltRan(s, u)
  <2>1. PICK v : v = WithDelay(p, p.blocked, d, p.later)
    OBVIOUS
  <2>2. p.kind = s.kind /\ p.job["alt"] = "connecting"
    BY <1>2 DEF RunsAs, SameRequest
  <2>3. CoreInv(v) /\ OnlyDelay(p, v, p.blocked, d, p.later)
    BY <1>2, <1>7, <2>1, <2>2, DelayedInv
  <2>4. v = [s EXCEPT !.job["alt"] = "connecting", !.wait = d]
    <3>1. p = [s EXCEPT !.job["alt"] = "connecting"]
      BY <1>1, ZenonT(40) DEF Running, WithJob, Typed, Controller
    <3>2. v = [p EXCEPT !.wait = d]
      BY <1>2, <2>1 DEF WithDelay, CoreInv, Typed, Controller
    <3> QED BY <3>1, <3>2 DEF Typed, Controller
  <2>5. Typed(v) /\ u = MaybeResumeMainJob(v, "alt", d)
    BY <1>7, <2>3, <2>4 DEF CoreInv
  <2>6. Released(v, u, d)
    BY <2>5, MaybeResumeMainJobFields
  <2>7. /\ SameRequest(s, v) /\ OnlyJob(s, v, "alt") /\ v.tasks = s.tasks
        /\ v.job["alt"] = "connecting" /\ v.result["alt"] = "none"
        /\ v.in_map = s.in_map /\ v.resumed = s.resumed
    BY <1>2, <2>3 DEF RunsAs, OnlyDelay, SameRequest, OnlyJob
  <2>8. RunsAs(v, v, "alt")
    BY <2>5, <2>7 DEF RunsAs, SameRequest, SameDelay, OnlyJob
  <2>9. Typed(u) /\ RunsAs(u, u, "alt")
    BY <2>6, <2>7 DEF Released, RunsAs, SameRequest, SameDelay, OnlyJob
  <2>10. d => v.kind \in {"quic", "proxy"}
    BY <1>7, <2>7 DEF SameRequest
  <2>11. CoreInv(u)
    BY <2>3, <2>6, <2>8, <2>9, <2>10, ReleasedInv
  <2>12. /\ SameRequest(s, u) /\ OnlyJob(s, u, "alt")
         /\ u.in_map = s.in_map /\ u.resumed = s.resumed
         /\ s.job["main"] # "none" => ~ u.blocked
         /\ u.job["alt"] = "connecting"
    BY <2>6, <2>7 DEF Released, SameRequest, OnlyJob
  <2>13. "alt" \notin Pending(v)
    BY <1>3, <2>7 DEF Pending
  <2>14. ResumedFirst(u)
    BY <2>6, <2>7, <2>10, <2>12, <2>13 DEF ResumedFirst, Released, SameRequest, OnlyJob
  <2> QED BY <2>11, <2>12, <2>14 DEF AltRan
<1>8. \/ \E r \in JobResults(s, "alt") : r # "auth" /\ u = Ended(s, "alt", r)
      \/ \E r \in JobResults(s, "alt") :
           u = Ended(MaybeResumeMainJob(s, "alt", s.wait), "alt", r)
      \/ \E d \in BOOLEAN :
           /\ d => s.kind \in {"quic", "proxy"}
           /\ u = MaybeResumeMainJob([s EXCEPT !.job["alt"] = "connecting", !.wait = d], "alt", d)
  <2>1. Kind(s, "alt") = s.kind
    BY DEF Kind
  <2>2. "failed" \in JobResults(s, "alt") /\ "auth" \notin Successes \cup {"failed"}
    BY DEF JobResults, Successes
  <2> QED BY <1>3, <1>4, <2>1, <2>2 DEF InitConnection
<1> QED BY <1>5, <1>6, <1>7, <1>8

\* A job that runs may have to wait for the session pool.
LEMMA ThrottledInv ==
  ASSUME NEW s, NEW j \in Jobs, NEW p, RunsAs(s, p, j), CoreInv(p), s.result[j] = "none",
         s.bound = "none", j = "alt" => s.kind = "h2",
         NEW u, u = [s EXCEPT !.job[j] = "throttled"]
  PROVE  /\ CoreInv(u) /\ SameRequest(s, u) /\ SameDelay(s, u) /\ OnlyJob(s, u, j)
         /\ u.job[j] = "throttled" /\ u.result[j] = "none"
         /\ u.in_map = s.in_map /\ u.resumed = s.resumed
<1> USE DEF Jobs
<1>1. s \in Controller /\ Distinct(s.tasks)
  BY DEF RunsAs, Typed
<1>2. u = WithJob(s, j, "throttled", "none")
  BY <1>1, ZenonT(40) DEF WithJob, Controller
<1>3. "throttled" \in JobState /\ "none" \in Results \cup {"none"}
  BY DEF JobState
<1>4. /\ u \in Controller /\ u.tasks = s.tasks
      /\ SameRequest(s, u) /\ SameDelay(s, u) /\ OnlyJob(s, u, j)
      /\ u.job[j] = "throttled" /\ u.result[j] = "none"
      /\ u.in_map = s.in_map /\ u.resumed = s.resumed
  <2>1. u \in Controller /\ JobIs(s, u, j, "throttled", "none")
    BY <1>1, <1>2, <1>3, UpdatedJob
  <2> QED BY <2>1 DEF JobIs
<1>5. /\ SameRequest(p, u) /\ OnlyJob(p, u, j) /\ SameDelay(p, u)
      /\ u.in_map = p.in_map /\ u.resumed = p.resumed
      /\ Pending(u) = Pending(p) /\ p.bound = "none"
      /\ p.job[j] = "connecting" /\ p.result[j] = "none"
      /\ j = "alt" => p.kind = "h2"
  BY <1>4 DEF RunsAs, SameRequest, OnlyJob, SameDelay, Pending
<1> USE <1>4, <1>5 DEF CoreInv
<1>6. Typed(u)
  BY <1>1 DEF Typed
<1>7. ResultsHaveTasks(u)
  BY DEF ResultsHaveTasks, OnlyJob
<1>8. AttemptsAreProper(u)
  BY DEF AttemptsAreProper, OnlyJob, SameRequest, SameDelay, Fresh
<1>9. PreconnectsAreSimple(u)
  BY DEF PreconnectsAreSimple, OnlyJob, SameRequest, SameDelay
<1>10. BoundIsProper(u)
  BY DEF BoundIsProper, OnlyJob, SameRequest, SameDelay
<1>11. WaitingIsProper(u)
  BY DEF WaitingIsProper, OnlyJob, SameRequest, SameDelay
<1>12. KindIsProper(u)
  BY DEF KindIsProper, OnlyJob, SameRequest, SameDelay
<1>13. EndIsProper(u)
  BY DEF EndIsProper, OnlyJob, SameRequest, SameDelay
<1> QED BY <1>6, <1>7, <1>8, <1>9, <1>10, <1>11, <1>12, <1>13

\* A request that is not bound may be served by the session of another.
LEMMA SetSpdySessionKeyInv ==
  ASSUME NEW s, NEW j \in Jobs, Typed(s), CoreInv(Running(s, j)), s.bound = "none",
         NEW u, u = SetSpdySessionKey(s, j)
  PROVE  /\ Typed(u) /\ CoreInv(Running(u, j)) /\ u.tasks = s.tasks
         /\ SameRequest(s, u) /\ SameDelay(s, u)
         /\ u.job = s.job /\ u.result = s.result /\ u.resumed = s.resumed
<1> USE DEF Jobs
<1>1. PICK m : m = (s.in_map \/ (~ s.preconnect /\ ~ IsJobOrphaned(s, j)))
  OBVIOUS
<1>2. m \in BOOLEAN /\ (m => s.in_map \/ s.request = "live")
  BY <1>1 DEF IsJobOrphaned
<1>3. u = [s EXCEPT !.in_map = m]
  BY <1>1 DEF SetSpdySessionKey
<1>4. s \in Controller
  BY DEF Typed
<1>5. [s EXCEPT !.in_map = m] \in Controller
  BY <1>2, <1>4 DEF Controller
<1>6. u \in Controller
  BY <1>3, <1>5, Zenon
<1>7. /\ u.tasks = s.tasks /\ SameRequest(s, u) /\ SameDelay(s, u)
      /\ u.job = s.job /\ u.result = s.result /\ u.resumed = s.resumed /\ u.in_map = m
  BY <1>3, <1>4 DEF Controller, SameRequest, SameDelay
<1>8. Typed(u)
  BY <1>6, <1>7 DEF Typed
<1>9. PICK p, q : p = Running(s, j) /\ q = Running(u, j)
  OBVIOUS
<1>10. RunsAs(s, p, j) /\ RunsAs(u, q, j) /\ Typed(q) /\ CoreInv(p)
  BY <1>8, <1>9, RunningFields
<1>11. /\ SameRequest(p, q) /\ SameDelay(p, q) /\ q.tasks = p.tasks /\ q.resumed = p.resumed
       /\ \A i \in Jobs : q.job[i] = p.job[i] /\ q.result[i] = p.result[i]
       /\ p.job[j] = "connecting" /\ p.bound = "none"
       /\ q.in_map => p.in_map \/ p.request = "live"
  BY <1>2, <1>7, <1>10 DEF RunsAs, SameRequest, SameDelay, OnlyJob
<1> USE <1>11 DEF CoreInv, SameRequest, SameDelay, Pending
<1>12. ResultsHaveTasks(q) /\ WaitingIsProper(q) /\ KindIsProper(q) /\ EndIsProper(q)
  BY <1>10 DEF ResultsHaveTasks, WaitingIsProper, KindIsProper, EndIsProper
<1>13. AttemptsAreProper(q) /\ PreconnectsAreSimple(q)
  BY <1>10 DEF AttemptsAreProper, Fresh, PreconnectsAreSimple
<1>14. BoundIsProper(q)
  BY <1>10 DEF BoundIsProper
<1> QED BY <1>7, <1>8, <1>9, <1>10, <1>12, <1>13, <1>14

\* The main job runs on, or is throttled.
MainEvaluated(s, u) ==
    /\ CoreInv(u) /\ SameRequest(s, u) /\ SameDelay(s, u) /\ OnlyJob(s, u, "main")
    /\ u.resumed = s.resumed
    /\ u.job["main"] \in {"connecting", "done", "throttled"}

\* The alternative job runs on, or is throttled.
AltEvaluated(s, u) ==
    /\ CoreInv(u) /\ SameRequest(s, u) /\ OnlyJob(s, u, "alt")
    /\ u.resumed = s.resumed
    /\ u.job["alt"] \in {"connecting", "done", "throttled"}
    /\ s.job["main"] # "none" /\ u.blocked =>
         u.job["alt"] # "connecting" /\ u.result["alt"] # "auth"

\* The main job is evaluated.
LEMMA EvaluateMainInv ==
  ASSUME NEW s, s.scenario = c.scenario, CoreInv(Running(s, "main")), Typed(s),
         s.result["main"] = "none", s.bound = "none",
         NEW u \in EvaluateThrottle(s, "main")
  PROVE  MainEvaluated(s, u)
<1> USE DEF Jobs
<1>1. CASE u \in InitConnection(s, "main")
  <2>1. MainRan(s, u)
    BY <1>1, InitMainInv
  <2> QED BY <2>1 DEF MainRan, MainEvaluated
<1>2. ASSUME NEW t, t = SetSpdySessionKey(s, "main"),
             u \in InitConnection(t, "main") \/ u = [t EXCEPT !.job["main"] = "throttled"]
      PROVE  MainEvaluated(s, u)
  <2>1. /\ Typed(t) /\ CoreInv(Running(t, "main")) /\ t.tasks = s.tasks
        /\ SameRequest(s, t) /\ SameDelay(s, t)
        /\ t.job = s.job /\ t.result = s.result /\ t.resumed = s.resumed
    BY <1>2, SetSpdySessionKeyInv
  <2>2. /\ t.scenario = c.scenario /\ t.result["main"] = "none" /\ t.bound = "none"
    BY <2>1 DEF SameRequest
  <2>3. CASE u \in InitConnection(t, "main")
    <3>1. MainRan(t, u)
      BY <2>1, <2>2, <2>3, InitMainInv
    <3> QED BY <2>1, <3>1 DEF MainRan, MainEvaluated, SameRequest, SameDelay, OnlyJob
  <2>4. CASE u = [t EXCEPT !.job["main"] = "throttled"]
    <3>1. PICK p : p = Running(t, "main")
      OBVIOUS
    <3>2. RunsAs(t, p, "main") /\ CoreInv(p)
      BY <2>1, <3>1, RunningFields
    <3>3. /\ CoreInv(u) /\ SameRequest(t, u) /\ SameDelay(t, u) /\ OnlyJob(t, u, "main")
          /\ u.job["main"] = "throttled" /\ u.resumed = t.resumed
      BY <2>2, <2>4, <3>2, ThrottledInv
    <3> QED BY <2>1, <3>3 DEF MainEvaluated, SameRequest, SameDelay, OnlyJob
  <2> QED BY <1>2, <2>3, <2>4
<1> QED BY <1>1, <1>2 DEF EvaluateThrottle

\* The alternative job is evaluated.
LEMMA EvaluateAltInv ==
  ASSUME NEW s, s.scenario = c.scenario, CoreInv(Running(s, "alt")), Typed(s),
         s.result["alt"] = "none", s.bound = "none",
         NEW u \in EvaluateThrottle(s, "alt")
  PROVE  AltEvaluated(s, u)
<1> USE DEF Jobs
<1>1. CASE u \in InitConnection(s, "alt")
  <2>1. AltRan(s, u)
    BY <1>1, InitAltInv
  <2> QED BY <2>1 DEF AltRan, AltEvaluated
<1>2. ASSUME UsesTls(s, "alt"), NEW t, t = SetSpdySessionKey(s, "alt"),
             u \in InitConnection(t, "alt") \/ u = [t EXCEPT !.job["alt"] = "throttled"]
      PROVE  AltEvaluated(s, u)
  <2>1. /\ Typed(t) /\ CoreInv(Running(t, "alt")) /\ t.tasks = s.tasks
        /\ SameRequest(s, t) /\ SameDelay(s, t)
        /\ t.job = s.job /\ t.result = s.result /\ t.resumed = s.resumed
    BY <1>2, SetSpdySessionKeyInv
  <2>2. /\ t.scenario = c.scenario /\ t.result["alt"] = "none" /\ t.bound = "none"
    BY <2>1 DEF SameRequest
  <2>3. CASE u \in InitConnection(t, "alt")
    <3>1. AltRan(t, u)
      BY <2>1, <2>2, <2>3, InitAltInv
    <3> QED BY <2>1, <3>1 DEF AltRan, AltEvaluated, SameRequest, OnlyJob
  <2>4. CASE u = [t EXCEPT !.job["alt"] = "throttled"]
    <3>1. PICK p : p = Running(t, "alt")
      OBVIOUS
    <3>2. RunsAs(t, p, "alt") /\ CoreInv(p)
      BY <2>1, <3>1, RunningFields
    <3>3. t.kind # "quic" /\ t.scenario.https
      BY <1>2, <2>1, <2>2 DEF UsesTls, Kind, Https, SameRequest
    <3>4. t.kind # "none" /\ t.kind # "proxy"
      BY <3>2, <3>3 DEF CoreInv, KindIsProper, RunsAs, SameRequest
    <3>5. t.kind \in {"none", "quic", "h2", "proxy"}
      BY <2>1 DEF Typed, Controller
    <3>6. t.kind = "h2"
      BY <3>3, <3>4, <3>5
    <3>7. /\ CoreInv(u) /\ SameRequest(t, u) /\ SameDelay(t, u) /\ OnlyJob(t, u, "alt")
          /\ u.job["alt"] = "throttled" /\ u.result["alt"] = "none"
          /\ u.resumed = t.resumed
      BY <2>2, <2>4, <3>2, <3>6, ThrottledInv
    <3> QED BY <2>1, <3>7 DEF AltEvaluated, SameRequest, SameDelay, OnlyJob
  <2> QED BY <1>2, <2>3, <2>4
<1> QED BY <1>1, <1>2 DEF EvaluateThrottle

\* A job that is connecting runs.
LEMMA RunningSame ==
  ASSUME NEW s, Typed(s), NEW j \in Jobs, s.job[j] = "connecting", s.result[j] = "none"
  PROVE  Running(s, j) = s /\ RunsAs(s, s, j)
<1>1. s \in Controller
  BY DEF Typed
<1>2. s.job = [s.job EXCEPT ![j] = "connecting"]
  BY <1>1 DEF Controller
<1>3. s.result = [s.result EXCEPT ![j] = "none"]
  BY <1>1 DEF Controller
<1>4. Running(s, j) = [s EXCEPT !.job = s.job, !.result = s.result]
  BY <1>1, <1>2, <1>3 DEF Running, WithJob, Controller
<1>5. [s EXCEPT !.job = s.job, !.result = s.result] = s
  BY <1>1 DEF Controller
<1> QED BY <1>4, <1>5 DEF RunsAs, SameRequest, SameDelay, OnlyJob

\* The main job starts, behind an alternative job or without one.
LEMMA StartMainInv ==
  ASSUME NEW s, s.scenario = c.scenario, CoreInv(s), s.job["main"] = "connecting",
         s.result["main"] = "none", s.bound = "none", ~ s.resumed,
         s.blocked => /\ s.job["alt"] \in {"done", "throttled"}
                      /\ s.result["alt"] # "auth",
         NEW u \in StartJob(s, "main")
  PROVE  ControllerInv(u) /\ SameRequest(s, u)
<1> USE DEF Jobs
<1>1. Typed(s) /\ s \in Controller
  BY DEF CoreInv, Typed
<1>2. Running(s, "main") = s /\ RunsAs(s, s, "main")
  BY <1>1, RunningSame
<1>3. CASE u = Ended(s, "main", "failed")
  <2>1. "failed" \in Results /\ "main" \notin Pending(s)
    BY DEF Results, Errors, CoreInv, ResultsHaveTasks
  <2>2. CoreInv(u)
    BY <1>2, <1>3, <2>1, EndedInv
  <2>3. SameRequest(s, u) /\ u.job["main"] = "done" /\ u.result["main"] = "failed"
    BY <1>1, <1>3, <2>1, EndedFields
  <2> QED BY <2>2, <2>3 DEF ControllerInv, DelayIsOver, ResumedFirst
<1>4. ASSUME NEW v, v = [s EXCEPT !.job["main"] = "waiting"]
      PROVE  v \in Controller /\ JobIs(s, v, "main", "waiting", "none")
  <2>1. v = WithJob(s, "main", "waiting", "none")
    BY <1>1, <1>4, ZenonT(40) DEF WithJob, Controller
  <2>2. "waiting" \in JobState /\ "none" \in Results \cup {"none"}
    BY DEF JobState
  <2> QED BY <1>1, <2>1, <2>2, UpdatedJob
<1>5. s.blocked \/ s.wait => s.request = "live" /\ s.started /\ ~ s.preconnect
  <2>1. s.started /\ s.request # "gone"
    BY DEF CoreInv, AttemptsAreProper, Fresh, BoundIsProper
  <2>2. s.blocked \/ s.wait => ~ s.preconnect
    BY DEF CoreInv, PreconnectsAreSimple
  <2>3. s.request \in {"none", "live", "gone"}
    BY <1>1 DEF Controller
  <2> QED BY <2>1, <2>2, <2>3 DEF CoreInv, PreconnectsAreSimple
<1>6. ~ s.later /\ "resume" \notin Pending(s)
  BY DEF CoreInv, WaitingIsProper
\* The controller inherits all that is not about the main job.
<1>7. ASSUME Typed(u), SameRequest(s, u), OnlyJob(s, u, "main"), u.resumed = s.resumed,
             u.blocked = s.blocked, u.wait = s.wait, u.in_map = s.in_map,
             u.job["main"] = "waiting", u.result["main"] = "none",
             Pending(u) = Pending(s), s.blocked \/ s.wait,
             u.later \/ u.blocked, u.later => s.wait
      PROVE  ControllerInv(u) /\ SameRequest(s, u)
  <2> USE <1>5, <1>6, <1>7 DEF CoreInv, SameRequest
  <2>1. ResultsHaveTasks(u)
    BY DEF ResultsHaveTasks, OnlyJob
  <2>2. AttemptsAreProper(u)
    BY DEF AttemptsAreProper, OnlyJob, Fresh
  <2>3. PreconnectsAreSimple(u)
    BY DEF PreconnectsAreSimple, OnlyJob
  <2>4. BoundIsProper(u)
    BY DEF BoundIsProper, OnlyJob
  <2>5. WaitingIsProper(u)
    BY DEF WaitingIsProper, OnlyJob
  <2>6. KindIsProper(u)
    BY DEF KindIsProper, OnlyJob
  <2>7. EndIsProper(u)
    BY DEF EndIsProper, OnlyJob
  <2>8. DelayIsOver(u)
    BY DEF DelayIsOver
  <2>9. ResumedFirst(u)
    BY DEF ResumedFirst, OnlyJob, KindIsProper
  <2> QED BY <2>1, <2>2, <2>3, <2>4, <2>5, <2>6, <2>7, <2>8, <2>9 DEF ControllerInv
<1>8. CASE s.blocked /\ u = [s EXCEPT !.job["main"] = "waiting"]
  <2>1. u \in Controller /\ JobIs(s, u, "main", "waiting", "none")
    BY <1>4, <1>8
  <2>2. Typed(u) /\ Pending(u) = Pending(s)
    BY <1>1, <2>1 DEF Typed, Pending, JobIs
  <2> QED BY <1>6, <1>7, <1>8, <2>1, <2>2 DEF JobIs, SameDelay
<1>9. CASE s.wait /\ u = ResumeMainJobLater([s EXCEPT !.job["main"] = "waiting"], TRUE)
  <2>1. PICK v : v = [s EXCEPT !.job["main"] = "waiting"]
    OBVIOUS
  <2>2. v \in Controller /\ JobIs(s, v, "main", "waiting", "none")
    BY <1>4, <2>1
  <2>3. Typed(v) /\ Pending(v) = Pending(s)
    BY <1>1, <2>2 DEF Typed, Pending, JobIs
  <2>8. PICK d \in BOOLEAN : d = TRUE
    OBVIOUS
  <2>4. u = ResumeMainJobLater(v, d)
    BY <1>9, <2>1, <2>8
  <2>5. /\ Typed(u) /\ SameRequest(v, u)
        /\ u.job = v.job /\ u.result = v.result
        /\ u.in_map = v.in_map /\ u.resumed = v.resumed
        /\ u.blocked = v.blocked /\ u.wait = v.wait /\ u.later
        /\ Pending(u) = Pending(v) \ {"resume"}
    <3>1. /\ Typed(u) /\ SameRequest(v, u)
          /\ u.job = v.job /\ u.result = v.result
          /\ u.in_map = v.in_map /\ u.resumed = v.resumed
          /\ u.blocked = v.blocked /\ u.wait = v.wait /\ u.later = d
          /\ d => Pending(u) = Pending(v) \ {"resume"}
      BY <2>3, <2>4, ResumeMainJobLaterFields
    <3> QED BY <2>8, <3>1
  <2>6. /\ SameRequest(s, u) /\ OnlyJob(s, u, "main") /\ u.resumed = s.resumed
        /\ u.blocked = s.blocked /\ u.wait = s.wait /\ u.in_map = s.in_map
        /\ u.job["main"] = "waiting" /\ u.result["main"] = "none"
    BY <2>2, <2>5 DEF JobIs, SameRequest, SameDelay, OnlyJob
  <2>7. Pending(u) = Pending(s)
    BY <1>6, <2>3, <2>5
  <2> QED BY <1>7, <1>9, <2>5, <2>6, <2>7
<1>10. CASE ~ s.wait /\ u \in EvaluateThrottle(s, "main")
  <2>1. MainEvaluated(s, u)
    BY <1>1, <1>2, <1>10, EvaluateMainInv
  <2>2. DelayIsOver(u) /\ ResumedFirst(u)
    BY <1>10, <2>1 DEF MainEvaluated, DelayIsOver, ResumedFirst, SameDelay
  <2> QED BY <2>1, <2>2 DEF MainEvaluated, ControllerInv
<1> QED BY <1>3, <1>8, <1>9, <1>10 DEF StartJob

-----------------------------------------------------------------------------
(* The creation of the jobs preserves the invariant.                       *)

\* The members that the creation of jobs leaves alone.
SameAttempt(s, u) ==
    /\ u.request = s.request /\ u.preconnect = s.preconnect
    /\ u.started = s.started /\ u.alive = s.alive
    /\ u.resolving = s.resolving /\ u.proxy = s.proxy
    /\ u.net_error = s.net_error /\ u.bound = s.bound
    /\ u.job_bound = s.job_bound /\ u.scenario = s.scenario

\* Jobs may be created.
Ready(s) ==
    /\ CoreInv(s) /\ Fresh(s) /\ s.started /\ s.alive /\ ~ s.resolving
    /\ "notify" \notin Pending(s) /\ s.proxy >= 1 /\ s.request # "gone"
    /\ s.scenario = c.scenario

\* A main job that is about to start, with its alternative job, if any, started.
Starting(s) ==
    /\ CoreInv(s) /\ s.job["main"] = "connecting" /\ s.result["main"] = "none"
    /\ s.bound = "none" /\ ~ s.resumed /\ s.scenario = c.scenario
    /\ s.blocked => s.job["alt"] \in {"done", "throttled"} /\ s.result["alt"] # "auth"

\* The alternative job is created.
AltCreated(s, k) ==
    [s EXCEPT !.kind = k, !.blocked = TRUE, !.job["alt"] = "connecting",
              !.can_alt_proxy = @ /\ k # "proxy"]

\* The main job exists.
LEMMA MainExists ==
  ASSUME NEW s, Ready(s), NEW k \in {"none", "quic", "h2"},
         NEW u, u = MainCreated(s, k)
  PROVE  /\ Starting(u) /\ SameAttempt(s, u) /\ u.service = k
         /\ u.job["alt"] = "none" /\ u.result["alt"] = "none"
         /\ ~ u.wait /\ ~ u.blocked
<1> USE DEF Jobs
<1>1. Typed(s) /\ s \in Controller
  BY DEF Ready, CoreInv, Typed
<1>2. PICK b : b = [s.job EXCEPT !["main"] = "connecting"]
  OBVIOUS
<1>3. b \in [Jobs -> JobState]
  BY <1>1, <1>2 DEF Controller, JobState
<1>4. u = [s EXCEPT !.service = k, !.job = b]
  BY <1>1, <1>2 DEF Controller, MainCreated
<1>5. [s EXCEPT !.service = k, !.job = b] \in Controller
  BY <1>1, <1>3 DEF Controller
<1>6. u \in Controller
  BY <1>4, <1>5, Zenon
<1>7. /\ u.tasks = s.tasks /\ SameAttempt(s, u) /\ SameDelay(s, u)
      /\ u.job["main"] = "connecting" /\ u.job["alt"] = s.job["alt"]
      /\ u.result = s.result /\ u.in_map = s.in_map /\ u.resumed = s.resumed
      /\ u.service = k /\ u.kind = s.kind
  BY <1>1 DEF Controller, SameAttempt, SameDelay, MainCreated
<1>8. /\ s.job["alt"] = "none" /\ s.job["main"] = "none"
      /\ s.result["alt"] = "none" /\ s.result["main"] = "none"
  BY DEF Ready, Fresh, CoreInv, ResultsHaveTasks
<1> USE <1>7, <1>8 DEF CoreInv, SameAttempt, SameDelay, Pending, Ready, Fresh
<1>9. Typed(u) /\ ResultsHaveTasks(u)
  BY <1>1, <1>6 DEF Typed, ResultsHaveTasks
<1>10. AttemptsAreProper(u)
  BY DEF AttemptsAreProper
<1>11. PreconnectsAreSimple(u)
  BY DEF PreconnectsAreSimple
<1>12. BoundIsProper(u)
  BY DEF BoundIsProper
<1>13. WaitingIsProper(u) /\ KindIsProper(u) /\ EndIsProper(u)
  BY DEF WaitingIsProper, KindIsProper, EndIsProper
<1> QED BY <1>9, <1>10, <1>11, <1>12, <1>13 DEF Starting

\* The alternative job exists.
LEMMA AlternativeExists ==
  ASSUME NEW s, Starting(s), s.job["alt"] = "none", s.result["alt"] = "none",
         ~ s.preconnect, ~ s.wait, NEW k \in {"quic", "h2", "proxy"},
         k # "proxy" => k = s.service, k = "proxy" => ~ s.scenario.https,
         NEW u, u = AltCreated(s, k)
  PROVE  /\ CoreInv(u) /\ SameAttempt(s, u) /\ u.resumed = s.resumed
         /\ u.job["main"] = "connecting" /\ u.result["main"] = "none"
         /\ u.job["alt"] = "connecting" /\ u.result["alt"] = "none"
<1> USE DEF Jobs
<1>1. Typed(s) /\ s \in Controller
  BY DEF Starting, CoreInv, Typed
<1>2. PICK b, a : /\ b = [s.job EXCEPT !["alt"] = "connecting"]
                  /\ a = (s.can_alt_proxy /\ k # "proxy")
  OBVIOUS
<1>3. b \in [Jobs -> JobState] /\ a \in BOOLEAN
  BY <1>1, <1>2 DEF Controller, JobState
<1>4. u = [s EXCEPT !.kind = k, !.blocked = TRUE, !.job = b, !.can_alt_proxy = a]
  BY <1>1, <1>2 DEF Controller, AltCreated
<1>5. [s EXCEPT !.kind = k, !.blocked = TRUE, !.job = b, !.can_alt_proxy = a] \in Controller
  BY <1>1, <1>3 DEF Controller
<1>6. u \in Controller
  BY <1>4, <1>5, Zenon
<1>7. /\ u.tasks = s.tasks /\ SameAttempt(s, u) /\ u.wait = s.wait /\ u.later = s.later
      /\ u.job["alt"] = "connecting" /\ u.job["main"] = s.job["main"]
      /\ u.result = s.result /\ u.in_map = s.in_map /\ u.resumed = s.resumed
      /\ u.service = s.service /\ u.kind = k
  BY <1>1 DEF Controller, SameAttempt, AltCreated
<1> USE <1>7 DEF CoreInv, SameAttempt, Pending, Starting
<1>8. Typed(u) /\ ResultsHaveTasks(u)
  BY <1>1, <1>6 DEF Typed, ResultsHaveTasks
<1>9. AttemptsAreProper(u)
  BY DEF AttemptsAreProper, Fresh
<1>10. PreconnectsAreSimple(u)
  BY DEF PreconnectsAreSimple
<1>11. BoundIsProper(u)
  BY DEF BoundIsProper
<1>12. WaitingIsProper(u) /\ KindIsProper(u) /\ EndIsProper(u)
  BY DEF WaitingIsProper, KindIsProper, EndIsProper
<1> QED BY <1>8, <1>9, <1>10, <1>11, <1>12

\* The alternative job starts.
LEMMA WithAlternativeInv ==
  ASSUME NEW s, Starting(s), s.job["alt"] = "none", s.result["alt"] = "none",
         ~ s.preconnect, ~ s.wait, NEW k \in {"quic", "h2", "proxy"},
         k # "proxy" => k = s.service, k = "proxy" => ~ s.scenario.https,
         NEW u \in WithAlternative(s, k)
  PROVE  Starting(u) /\ SameAttempt(s, u)
<1> USE DEF Jobs
<1>1. PICK v : v = AltCreated(s, k)
  OBVIOUS
<1>2. /\ CoreInv(v) /\ SameAttempt(s, v) /\ v.resumed = s.resumed
      /\ v.job["main"] = "connecting" /\ v.result["main"] = "none"
      /\ v.job["alt"] = "connecting" /\ v.result["alt"] = "none"
  BY <1>1, AlternativeExists
<1>3. u = Ended(v, "alt", "failed") \/ u \in EvaluateThrottle(v, "alt")
  BY <1>1 DEF WithAlternative, StartJob, AltCreated
<1>4. Typed(v) /\ v.bound = "none" /\ v.scenario = c.scenario
  BY <1>2 DEF CoreInv, SameAttempt, Starting
<1>5. Running(v, "alt") = v /\ RunsAs(v, v, "alt")
  BY <1>2, <1>4, RunningSame
<1>6. CASE u = Ended(v, "alt", "failed")
  <2>1. "failed" \in Results /\ "alt" \notin Pending(v)
    BY <1>2 DEF Results, Errors, CoreInv, ResultsHaveTasks
  <2>2. CoreInv(u)
    BY <1>2, <1>5, <1>6, <2>1, EndedInv
  <2>3. /\ SameRequest(v, u) /\ OnlyJob(v, u, "alt") /\ u.resumed = v.resumed
        /\ u.job["alt"] = "done" /\ u.result["alt"] = "failed"
    BY <1>4, <1>6, <2>1, EndedFields
  <2> QED BY <1>2, <2>2, <2>3 DEF Starting, SameAttempt, SameRequest, OnlyJob
<1>7. CASE u \in EvaluateThrottle(v, "alt")
  <2>1. AltEvaluated(v, u)
    BY <1>2, <1>4, <1>5, <1>7, EvaluateAltInv
  <2> QED BY <1>2, <2>1 DEF AltEvaluated, Starting, SameAttempt, SameRequest, OnlyJob
<1> QED BY <1>3, <1>6, <1>7

\* CreateJobs.
LEMMA CreateJobsInv ==
  ASSUME NEW s, Ready(s), NEW u \in CreateJobs(s)
  PROVE  ControllerInv(u) /\ SameAttempt(s, u)
<1> USE DEF Jobs
<1>1. s.scenario \in Scenario
  BY ScenariosAssumption DEF Ready, CoreInv, Typed, Controller
<1>2. ASSUME NEW k \in UsableServices
      PROVE  k \in {"none", "quic", "h2"}
  BY <1>1 DEF UsableServices, Services, Scenario, Ready
<1>8. PICK k \in UsableServices :
        \E a \in WithAlternatives(MainCreated(s, k), k) : u \in StartJob(a, "main")
  BY DEF CreateJobs
<1>9. PICK t : t = MainCreated(s, k)
  OBVIOUS
<1>10. PICK a \in WithAlternatives(t, k) : u \in StartJob(a, "main")
  BY <1>8, <1>9
<1>4. /\ Starting(t) /\ SameAttempt(s, t) /\ t.service = k
      /\ t.job["alt"] = "none" /\ t.result["alt"] = "none" /\ ~ t.wait /\ ~ t.blocked
  BY <1>2, <1>9, MainExists
<1>5. Starting(a) /\ SameAttempt(t, a)
  <2>1. CASE a = t
    BY <1>4, <2>1 DEF SameAttempt
  <2>2. CASE ~ t.preconnect /\ k # "none" /\ a \in WithAlternative(t, k)
    <3>1. k \in {"quic", "h2", "proxy"} /\ k # "proxy"
      BY <1>2, <2>2
    <3> QED BY <1>4, <2>2, <3>1, WithAlternativeInv
  <2>3. CASE /\ ~ t.preconnect /\ ShouldCreateAlternativeProxyServerJob(t)
             /\ a \in WithAlternative(t, "proxy")
    <3>1. ~ t.scenario.https
      BY <1>4, <2>3 DEF ShouldCreateAlternativeProxyServerJob, Https, Starting
    <3> QED BY <1>4, <2>3, <3>1, WithAlternativeInv
  <2> QED BY <1>10, <2>1, <2>2, <2>3 DEF WithAlternatives
<1>6. ControllerInv(u) /\ SameRequest(a, u)
  BY <1>10, <1>5, StartMainInv DEF Starting
<1> QED BY <1>4, <1>5, <1>6 DEF SameAttempt, SameRequest

-----------------------------------------------------------------------------
(* Binding, orphaning and the end preserve the invariant.                  *)

\* A job that has run up to here runs on.
LEMMA RunningInv ==
  ASSUME NEW s, CoreInv(s), NEW j \in Jobs, s.job[j] \notin {"none", "waiting"},
         NEW p, Typed(p), SameRequest(s, p), SameDelay(s, p), OnlyJob(s, p, j),
         p.job[j] = "connecting", p.result[j] = "none",
         p.in_map = s.in_map, p.resumed = s.resumed, Pending(p) = Pending(s) \ {j}
  PROVE  CoreInv(p)
<1> USE DEF Jobs, CoreInv, SameRequest, SameDelay, OnlyJob
<1>1. ResultsHaveTasks(p)
  BY DEF ResultsHaveTasks
<1>2. AttemptsAreProper(p)
  BY DEF AttemptsAreProper, Fresh
<1>3. PreconnectsAreSimple(p)
  BY DEF PreconnectsAreSimple
<1>4. BoundIsProper(p)
  BY DEF BoundIsProper
<1>5. WaitingIsProper(p)
  BY DEF WaitingIsProper
<1>6. KindIsProper(p)
  BY DEF KindIsProper
<1>7. EndIsProper(p)
  BY DEF EndIsProper
<1> QED BY <1>1, <1>2, <1>3, <1>4, <1>5, <1>6, <1>7

\* A task may be left that resumes a main job that is gone.
WaitingIsSafe(s) ==
    /\ s.job["alt"] # "waiting"
    /\ s.job["main"] = "waiting" =>
         /\ s.request = "live" /\ s.bound = "none" /\ ~ s.resumed
         /\ \/ s.later \/ "resume" \in Pending(s)
            \/ s.blocked /\ s.job["alt"] \in {"throttled", "connecting", "done"}
    /\ ~ (s.later /\ "resume" \in Pending(s))
    /\ (s.later \/ "resume" \in Pending(s)) => s.job["main"] \in {"none", "waiting"}

ResumeIsProper(s) ==
    s.scenario.prompt /\ (s.later \/ "resume" \in Pending(s)) => s.job["main"] = "waiting"

\* What holds before it is known whether the controller has finished.
OpenInv(s) ==
    /\ Typed(s) /\ ResultsHaveTasks(s) /\ AttemptsAreProper(s)
    /\ PreconnectsAreSimple(s) /\ BoundIsProper(s) /\ WaitingIsSafe(s)
    /\ KindIsProper(s) /\ s.alive

\* A controller with a request goes on.
LEMMA OpenIsCore ==
  ASSUME NEW s, OpenInv(s), ResumeIsProper(s), s.request # "gone"
  PROVE  CoreInv(s)
BY DEF OpenInv, CoreInv, WaitingIsSafe, WaitingIsProper, ResumeIsProper, EndIsProper

\* And conversely.
LEMMA CoreIsOpen ==
  ASSUME NEW s, CoreInv(s), s.alive
  PROVE  OpenInv(s) /\ ResumeIsProper(s)
BY DEF OpenInv, CoreInv, WaitingIsSafe, WaitingIsProper, ResumeIsProper

\* The members that the end of a job leaves alone.
SameReports(s, u) ==
    /\ u.started = s.started /\ u.service = s.service /\ u.net_error = s.net_error
    /\ u.preconnect = s.preconnect /\ u.scenario = s.scenario /\ u.request = s.request
    /\ u.resolving => s.resolving
    /\ "notify" \in Pending(u) => "notify" \in Pending(s)

\* A job is gone.
LEMMA ResetInv ==
  ASSUME NEW s, NEW j \in Jobs, NEW p, RunsAs(s, p, j), CoreInv(p), s.bound # j,
         j = "alt" /\ s.job["main"] = "waiting" => s.later \/ "resume" \in Pending(s),
         NEW u, u = Reset(s, j)
  PROVE  /\ OpenInv(u) /\ ResumeIsProper(u) /\ SameRequest(s, u) /\ SameDelay(s, u)
         /\ OnlyJob(s, u, j) /\ u.job[j] = "none" /\ u.result[j] = "none"
         /\ u.in_map = s.in_map /\ Pending(u) = Pending(s)
<1> USE DEF Jobs
<1>1. /\ Typed(u) /\ SameRequest(s, u) /\ SameDelay(s, u) /\ OnlyJob(s, u, j)
      /\ u.job[j] = "none" /\ u.result[j] = "none"
      /\ u.in_map = s.in_map /\ u.resumed = s.resumed
      /\ Pending(u) = Pending(s) \ {j}
  BY ResetFields DEF RunsAs
<1>2. /\ SameRequest(p, u) /\ SameDelay(p, u) /\ OnlyJob(p, u, j)
      /\ u.in_map = p.in_map /\ u.resumed = p.resumed /\ Pending(p) = Pending(s)
      /\ p.job[j] = "connecting" /\ p.bound # j
      /\ j = "alt" /\ p.job["main"] = "waiting" => p.later \/ "resume" \in Pending(p)
  BY <1>1 DEF RunsAs, SameRequest, SameDelay, OnlyJob, Pending
<1>3. Pending(u) = Pending(s)
  BY <1>1, <1>2 DEF CoreInv, ResultsHaveTasks
<1> USE <1>1, <1>2, <1>3 DEF CoreInv, SameRequest, SameDelay, OnlyJob
<1>4. ResultsHaveTasks(u)
  BY DEF ResultsHaveTasks
<1>5. AttemptsAreProper(u)
  BY DEF AttemptsAreProper, Fresh
<1>6. PreconnectsAreSimple(u)
  BY DEF PreconnectsAreSimple
<1>7. BoundIsProper(u)
  BY DEF BoundIsProper
<1>8. WaitingIsSafe(u) /\ ResumeIsProper(u)
  BY DEF WaitingIsProper, WaitingIsSafe, ResumeIsProper
<1>9. KindIsProper(u)
  BY DEF KindIsProper
<1>10. u.alive
  BY DEF EndIsProper
<1> QED BY <1>4, <1>5, <1>6, <1>7, <1>8, <1>9, <1>10 DEF OpenInv

\* The controller may have finished.
LEMMA MaybeNotifyInv ==
  ASSUME NEW s, OpenInv(s), s.started, DelayIsOver(s), ResumedFirst(s),
         \/ ResumeIsProper(s)
         \/ s.request # "live" /\ \A j \in Jobs : s.job[j] = "none",
         NEW u, u = MaybeNotifyFactoryOfCompletion(s)
  PROVE  /\ ControllerInv(u) /\ SameReports(s, u)
         /\ u.job = s.job /\ u.result = s.result /\ u.in_map = s.in_map
         /\ u.bound = s.bound /\ u.job_bound = s.job_bound
<1> USE DEF Jobs
<1>1. CASE s.request # "live" /\ \A j \in Jobs : s.job[j] = "none"
  <2>1. u = [s EXCEPT !.alive = FALSE, !.tasks = << >>, !.later = FALSE, !.resolving = FALSE]
    BY <1>1 DEF MaybeNotifyFactoryOfCompletion
  <2>2. s \in Controller
    BY DEF OpenInv, Typed
  <2>3. [s EXCEPT !.alive = FALSE, !.tasks = << >>, !.later = FALSE, !.resolving = FALSE]
           \in Controller
    <3>1. PICK n \in Seq({"main", "alt", "resume", "notify"}) : n = << >>
      BY EmptySeq
    <3>2. [s EXCEPT !.alive = FALSE, !.tasks = n, !.later = FALSE, !.resolving = FALSE]
             \in Controller
      BY <2>2 DEF Controller
    <3> QED BY <3>1, <3>2, Zenon
  <2>4. u \in Controller
    BY <2>1, <2>3, Zenon
  <2>5. /\ u.alive = FALSE /\ u.tasks = << >> /\ u.later = FALSE /\ u.resolving = FALSE
        /\ u.job = s.job /\ u.result = s.result /\ u.in_map = s.in_map
        /\ u.bound = s.bound /\ u.job_bound = s.job_bound
        /\ u.request = s.request /\ u.preconnect = s.preconnect /\ u.started = s.started
        /\ u.proxy = s.proxy /\ u.kind = s.kind /\ u.service = s.service
        /\ u.net_error = s.net_error /\ u.scenario = s.scenario
        /\ u.blocked = s.blocked /\ u.wait = s.wait /\ u.resumed = s.resumed
    BY <2>1, <2>2, ZenonT(40) DEF Controller
  <2>6. Pending(u) = {} /\ Distinct(u.tasks)
    BY <2>5 DEF Pending, Range, Distinct
  <2> USE <1>1, <2>5, <2>6 DEF OpenInv
  <2>7. Typed(u) /\ ResultsHaveTasks(u)
    BY <2>4 DEF Typed, ResultsHaveTasks
  <2>8. AttemptsAreProper(u) /\ PreconnectsAreSimple(u)
    BY DEF AttemptsAreProper, PreconnectsAreSimple
  <2>9. BoundIsProper(u)
    BY DEF BoundIsProper
  <2>10. WaitingIsProper(u) /\ KindIsProper(u) /\ EndIsProper(u)
    BY DEF WaitingIsProper, WaitingIsSafe, KindIsProper, EndIsProper
  <2>11. DelayIsOver(u) /\ ResumedFirst(u)
    BY DEF DelayIsOver, ResumedFirst
  <2>12. CoreInv(u)
    BY <2>7, <2>8, <2>9, <2>10 DEF CoreInv
  <2>13. SameReports(s, u)
    BY DEF SameReports
  <2> QED BY <2>11, <2>12, <2>13 DEF ControllerInv
<1>2. CASE ~ (s.request # "live" /\ \A j \in Jobs : s.job[j] = "none")
  <2>1. u = s
    BY <1>2 DEF MaybeNotifyFactoryOfCompletion
  <2>2. CoreInv(s)
    BY <1>2 DEF OpenInv, CoreInv, WaitingIsSafe, WaitingIsProper, ResumeIsProper, EndIsProper
  <2> QED BY <2>1, <2>2 DEF ControllerInv, SameReports
<1> QED BY <1>1, <1>2

\* An orphaned job ends, or a preconnect.
LEMMA OrphanedInv ==
  ASSUME NEW s, NEW j \in Jobs, NEW p, RunsAs(s, p, j), CoreInv(p), s.bound # j,
         j = "alt" => s.job["main"] # "waiting", DelayIsOver(s),
         NEW u, u = MaybeNotifyFactoryOfCompletion(Reset(s, j))
  PROVE  /\ ControllerInv(u) /\ SameReports(s, u) /\ OnlyJob(s, u, j)
         /\ u.job[j] = "none" /\ u.result[j] = "none" /\ u.in_map = s.in_map
         /\ u.bound = s.bound /\ u.job_bound = s.job_bound
<1> USE DEF Jobs
<1>1. PICK v : v = Reset(s, j)
  OBVIOUS
<1>2. /\ OpenInv(v) /\ ResumeIsProper(v) /\ SameRequest(s, v) /\ SameDelay(s, v)
      /\ OnlyJob(s, v, j) /\ v.job[j] = "none" /\ v.result[j] = "none"
      /\ v.in_map = s.in_map /\ Pending(v) = Pending(s)
  BY <1>1, ResetInv
<1>3. v.started
  BY <1>2 DEF CoreInv, AttemptsAreProper, Fresh, RunsAs, SameRequest
<1>4. DelayIsOver(v)
  BY <1>2 DEF DelayIsOver, SameDelay, OnlyJob
<1>5. ResumedFirst(v)
  BY <1>2 DEF ResumedFirst, OnlyJob
<1>6. u = MaybeNotifyFactoryOfCompletion(v)
  BY <1>1
<1>7. /\ ControllerInv(u) /\ SameReports(v, u)
      /\ u.job = v.job /\ u.result = v.result /\ u.in_map = v.in_map
      /\ u.bound = v.bound /\ u.job_bound = v.job_bound
  BY <1>2, <1>3, <1>4, <1>5, <1>6, MaybeNotifyInv
<1> QED BY <1>2, <1>7 DEF SameRequest, SameReports, OnlyJob

\* The request has left the controller, and only an orphan may run on.
Closes(s, v) ==
    /\ Typed(v) /\ SameDelay(s, v) /\ v.resumed = s.resumed
    /\ v.request = "gone" /\ v.bound = "none" /\ ~ v.in_map
    /\ v.started = s.started /\ v.preconnect = s.preconnect /\ v.alive = s.alive
    /\ v.resolving = s.resolving /\ v.proxy = s.proxy /\ v.kind = s.kind
    /\ v.service = s.service /\ v.net_error = s.net_error
    /\ v.job_bound = s.job_bound /\ v.scenario = s.scenario
    /\ v.job["main"] = "none" /\ v.result["main"] = "none" /\ "main" \notin Pending(v)
    /\ \/ /\ v.job["alt"] = "none" /\ v.result["alt"] = "none" /\ "alt" \notin Pending(v)
       \/ /\ v.job["alt"] = s.job["alt"] /\ v.result["alt"] = s.result["alt"]
          /\ "alt" \in Pending(v) <=> "alt" \in Pending(s)
          /\ s.bound = "main"
    /\ \A t \in {"resume", "notify"} : t \in Pending(v) <=> t \in Pending(s)

\* The request is taken away from the controller.
LEMMA ClosingInv ==
  ASSUME NEW s, OpenInv(s), s.request = "live", NEW v, Closes(s, v)
  PROVE  /\ OpenInv(v) /\ v.started /\ DelayIsOver(v) /\ ResumedFirst(v)
         /\ \/ ResumeIsProper(v)
            \/ v.request # "live" /\ \A j \in Jobs : v.job[j] = "none"
<1> USE DEF Jobs, OpenInv, SameDelay
<1>1. s.started /\ ~ s.preconnect
  BY DEF AttemptsAreProper, PreconnectsAreSimple
<1> USE <1>1
<1>2. Typed(v) /\ ResultsHaveTasks(v)
  BY DEF Closes, ResultsHaveTasks
<1>3. AttemptsAreProper(v)
  BY DEF Closes, AttemptsAreProper, Fresh
<1>4. PreconnectsAreSimple(v)
  BY DEF Closes, PreconnectsAreSimple
<1>5. BoundIsProper(v)
  BY DEF Closes, BoundIsProper
<1>6. WaitingIsSafe(v)
  BY DEF Closes, WaitingIsSafe
<1>7. KindIsProper(v) /\ v.alive
  BY DEF Closes, KindIsProper
<1>8. DelayIsOver(v) /\ ResumedFirst(v)
  BY DEF Closes, DelayIsOver, ResumedFirst
<1>9. v.job["alt"] # "none" => ResumeIsProper(v)
  BY DEF Closes, ResumeIsProper, WaitingIsSafe, BoundIsProper
<1>10. v.started /\ v.request # "live" /\ v.job["main"] = "none"
  BY DEF Closes
<1> QED BY <1>2, <1>3, <1>4, <1>5, <1>6, <1>7, <1>8, <1>9, <1>10

\* The request leaves.
GoneRequest(s) == [s EXCEPT !.request = "gone"]
GoneMap(s) == [s EXCEPT !.in_map = FALSE]
GoneBound(s) == [s EXCEPT !.bound = "none"]

\* The types of these.
LEMMA GoneFields ==
  ASSUME NEW s, Typed(s)
  PROVE  /\ Typed(GoneRequest(s)) /\ Typed(GoneMap(s)) /\ Typed(GoneBound(s))
<1>1. s \in Controller
  BY DEF Typed
<1>2. GoneRequest(s) \in Controller /\ GoneRequest(s).tasks = s.tasks
  BY <1>1 DEF Controller, GoneRequest
<1>3. GoneMap(s) \in Controller /\ GoneMap(s).tasks = s.tasks
  BY <1>1 DEF Controller, GoneMap
<1>4. GoneBound(s) \in Controller /\ GoneBound(s).tasks = s.tasks
  BY <1>1 DEF Controller, GoneBound
<1> QED BY <1>2, <1>3, <1>4 DEF Typed

\* OnRequestComplete up to the question whether the controller has finished.
LEMMA RequestCloses ==
  ASSUME NEW s, OpenInv(s), s.request = "live"
  PROVE  \E v : Closes(s, v) /\ OnRequestComplete(s) = MaybeNotifyFactoryOfCompletion(v)
<1> USE DEF Jobs
<1>1. Typed(s) /\ s \in Controller
  BY DEF OpenInv, Typed
<1>2. PICK a : a = GoneMap(s)
  OBVIOUS
<1>3. Typed(a)
  BY <1>1, <1>2, GoneFields
<1>4. /\ a.tasks = s.tasks /\ SameRequest(s, a) /\ SameDelay(s, a)
      /\ a.job = s.job /\ a.result = s.result /\ a.resumed = s.resumed /\ ~ a.in_map
  BY <1>1, <1>2 DEF GoneMap, Controller, SameRequest, SameDelay
<1>5. CASE ~ s.job_bound
  <2>1. s.bound = "none"
    BY <1>5 DEF OpenInv, BoundIsProper
  <2>2. PICK b, d : b = Reset(a, "alt") /\ d = Reset(b, "main")
    OBVIOUS
  <2>3. /\ Typed(b) /\ SameRequest(a, b) /\ SameDelay(a, b) /\ OnlyJob(a, b, "alt")
        /\ b.job["alt"] = "none" /\ b.result["alt"] = "none"
        /\ b.in_map = a.in_map /\ b.resumed = a.resumed
        /\ Pending(b) = Pending(a) \ {"alt"}
    BY <1>3, <2>2, ResetFields
  <2>4. /\ Typed(d) /\ SameRequest(b, d) /\ SameDelay(b, d) /\ OnlyJob(b, d, "main")
        /\ d.job["main"] = "none" /\ d.result["main"] = "none"
        /\ d.in_map = b.in_map /\ d.resumed = b.resumed
        /\ Pending(d) = Pending(b) \ {"main"}
    BY <2>2, <2>3, ResetFields
  <2>5. PICK v : v = GoneRequest(d)
    OBVIOUS
  <2>6. Typed(v) /\ d \in Controller
    BY <2>4, <2>5, GoneFields DEF Typed
  <2>7. /\ v.request = "gone" /\ v.tasks = d.tasks /\ SameDelay(d, v)
        /\ v.job = d.job /\ v.result = d.result /\ v.in_map = d.in_map /\ v.resumed = d.resumed
        /\ v.started = d.started /\ v.preconnect = d.preconnect /\ v.alive = d.alive
        /\ v.resolving = d.resolving /\ v.proxy = d.proxy /\ v.kind = d.kind
        /\ v.service = d.service /\ v.net_error = d.net_error /\ v.bound = d.bound
        /\ v.job_bound = d.job_bound /\ v.scenario = d.scenario
    BY <2>5, <2>6 DEF GoneRequest, Controller, SameDelay
  <2>8. Pending(v) = (Pending(s) \ {"alt"}) \ {"main"}
    BY <1>4, <2>3, <2>4, <2>7 DEF Pending
  <2>9. v.bound = "none" /\ ~ v.in_map /\ v.job["alt"] = "none" /\ v.result["alt"] = "none"
    BY <1>4, <2>1, <2>3, <2>4, <2>7 DEF SameRequest, OnlyJob
  <2>10. Closes(s, v)
    BY <1>4, <2>3, <2>4, <2>6, <2>7, <2>8, <2>9 DEF Closes, SameRequest, SameDelay
  <2>11. ~ a.job_bound
    BY <1>4, <1>5 DEF SameRequest
  <2>12. CancelJobs(a) = d
    BY <2>2, <2>11 DEF CancelJobs
  <2>13. OnRequestComplete(s) = MaybeNotifyFactoryOfCompletion(v)
    BY <1>2, <2>5, <2>9, <2>12 DEF OnRequestComplete, GoneRequest, GoneMap
  <2> QED BY <2>10, <2>13
<1>6. CASE s.job_bound
  <2>1. s.bound \in Jobs
    BY <1>1, <1>6 DEF OpenInv, BoundIsProper, Controller
  <2>2. PICK b : b = GoneRequest(a)
    OBVIOUS
  <2>3. Typed(b) /\ a \in Controller
    BY <1>3, <2>2, GoneFields DEF Typed
  <2>4. /\ b.request = "gone" /\ b.tasks = a.tasks /\ SameDelay(a, b)
        /\ b.job = a.job /\ b.result = a.result /\ b.in_map = a.in_map /\ b.resumed = a.resumed
        /\ b.started = a.started /\ b.preconnect = a.preconnect /\ b.alive = a.alive
        /\ b.resolving = a.resolving /\ b.proxy = a.proxy /\ b.kind = a.kind
        /\ b.service = a.service /\ b.net_error = a.net_error /\ b.bound = a.bound
        /\ b.job_bound = a.job_bound /\ b.scenario = a.scenario
    BY <2>2, <2>3 DEF GoneRequest, Controller, SameDelay
  <2>5. PICK j \in Jobs : j = s.bound
    BY <2>1
  <2>6. b.bound = j
    BY <1>4, <2>4, <2>5 DEF SameRequest
  <2>7. PICK d : d = Reset(b, j)
    OBVIOUS
  <2>8. /\ Typed(d) /\ SameRequest(b, d) /\ SameDelay(b, d) /\ OnlyJob(b, d, j)
        /\ d.job[j] = "none" /\ d.result[j] = "none"
        /\ d.in_map = b.in_map /\ d.resumed = b.resumed
        /\ Pending(d) = Pending(b) \ {j}
    BY <2>3, <2>7, ResetFields
  <2>9. PICK v : v = GoneBound(d)
    OBVIOUS
  <2>10. Typed(v) /\ d \in Controller
    BY <2>8, <2>9, GoneFields DEF Typed
  <2>11. /\ v.bound = "none" /\ v.tasks = d.tasks /\ SameDelay(d, v)
         /\ v.job = d.job /\ v.result = d.result /\ v.in_map = d.in_map /\ v.resumed = d.resumed
         /\ v.started = d.started /\ v.preconnect = d.preconnect /\ v.alive = d.alive
         /\ v.resolving = d.resolving /\ v.proxy = d.proxy /\ v.kind = d.kind
         /\ v.service = d.service /\ v.net_error = d.net_error /\ v.request = d.request
         /\ v.job_bound = d.job_bound /\ v.scenario = d.scenario
    BY <2>9, <2>10 DEF GoneBound, Controller, SameDelay
  <2>12. Pending(v) = Pending(s) \ {j}
    BY <1>4, <2>4, <2>8, <2>11 DEF Pending
  <2>13. /\ s.bound = "alt" => s.job["main"] = "none"
         /\ \A i \in Jobs : i \in Pending(s) <=> s.job[i] = "done"
         /\ \A i \in Jobs : s.job[i] = "none" => s.result[i] = "none"
    BY DEF OpenInv, BoundIsProper, ResultsHaveTasks
  <2>14. Closes(s, v)
    <3>1. /\ SameDelay(s, v) /\ v.resumed = s.resumed
          /\ v.request = "gone" /\ v.bound = "none" /\ ~ v.in_map
          /\ v.started = s.started /\ v.preconnect = s.preconnect /\ v.alive = s.alive
          /\ v.resolving = s.resolving /\ v.proxy = s.proxy /\ v.kind = s.kind
          /\ v.service = s.service /\ v.net_error = s.net_error
          /\ v.job_bound = s.job_bound /\ v.scenario = s.scenario
      BY <1>4, <2>4, <2>8, <2>11 DEF SameRequest, SameDelay
    <3>2. /\ v.job[j] = "none" /\ v.result[j] = "none"
          /\ \A i \in Jobs : i # j => v.job[i] = s.job[i] /\ v.result[i] = s.result[i]
      BY <1>4, <2>4, <2>8, <2>11 DEF OnlyJob
    <3>3. CASE j = "main"
      BY <2>5, <2>10, <2>12, <3>1, <3>2, <3>3 DEF Closes
    <3>4. CASE j = "alt"
      BY <2>5, <2>10, <2>12, <2>13, <3>1, <3>2, <3>4 DEF Closes
    <3> QED BY <3>3, <3>4
  <2>15. CancelJobs(a) = a /\ j # "none"
    BY <1>4, <1>6 DEF CancelJobs, SameRequest
  <2>16. OnRequestComplete(s) = MaybeNotifyFactoryOfCompletion(v)
    BY <1>2, <2>2, <2>6, <2>7, <2>9, <2>15
       DEF OnRequestComplete, GoneRequest, GoneMap, GoneBound
  <2> QED BY <2>14, <2>16
<1> QED BY <1>5, <1>6

\* OnRequestComplete.
LEMMA OnRequestCompleteInv ==
  ASSUME NEW s, OpenInv(s), s.request = "live", NEW u, u = OnRequestComplete(s)
  PROVE  /\ ControllerInv(u) /\ u.request = "gone" /\ u.started
         /\ u.service = s.service /\ u.net_error = s.net_error /\ u.scenario = s.scenario
         /\ u.resolving => s.resolving
         /\ \/ u.job["alt"] = "none"
            \/ u.job["alt"] = s.job["alt"] /\ u.result["alt"] = s.result["alt"]
<1>1. PICK v : Closes(s, v) /\ u = MaybeNotifyFactoryOfCompletion(v)
  BY RequestCloses
<1>2. /\ OpenInv(v) /\ v.started /\ DelayIsOver(v) /\ ResumedFirst(v)
      /\ \/ ResumeIsProper(v)
         \/ v.request # "live" /\ \A j \in Jobs : v.job[j] = "none"
  BY <1>1, ClosingInv
<1>3. /\ ControllerInv(u) /\ SameReports(v, u)
      /\ u.job = v.job /\ u.result = v.result
  BY <1>1, <1>2, MaybeNotifyInv
<1> QED BY <1>1, <1>2, <1>3 DEF Closes, SameReports

\* v is s, the error of the alternative job and the job j apart, which the
\* consumer is about to hear of.
Heard(s, v, j) ==
    /\ Typed(v) /\ v.tasks = s.tasks /\ SameDelay(s, v) /\ OnlyJob(s, v, j)
    /\ v.job[j] = "bound" /\ v.result[j] = s.result[j]
    /\ v.in_map = s.in_map /\ v.resumed = s.resumed
    /\ v.request = s.request /\ v.preconnect = s.preconnect
    /\ v.started = s.started /\ v.alive = s.alive
    /\ v.resolving = s.resolving /\ v.resolves = s.resolves
    /\ v.proxy = s.proxy /\ v.kind = s.kind /\ v.service = s.service
    /\ v.bound = s.bound /\ v.job_bound = s.job_bound /\ v.scenario = s.scenario

\* The job j is bound to the request, and the main job is gone if that is another.
Bound(v, u, j) ==
    /\ Typed(u) /\ SameDelay(v, u) /\ u.resumed = v.resumed
    /\ u.request = v.request /\ u.preconnect = v.preconnect
    /\ u.started = v.started /\ u.alive = v.alive
    /\ u.resolving = v.resolving /\ u.resolves = v.resolves
    /\ u.proxy = v.proxy /\ u.kind = v.kind /\ u.service = v.service
    /\ u.net_error = v.net_error /\ u.scenario = v.scenario
    /\ u.bound = j /\ u.job_bound /\ ~ u.in_map
    /\ u.job["alt"] = v.job["alt"] /\ u.result["alt"] = v.result["alt"]
    /\ j = "main" => /\ u.job["main"] = v.job["main"] /\ u.result["main"] = v.result["main"]
                     /\ Pending(u) = Pending(v)
    /\ j = "alt" => /\ u.job["main"] = "none" /\ u.result["main"] = "none"
                    /\ Pending(u) = Pending(v) \ {"main"}

\* BindJob.
LEMMA BindJobFields ==
  ASSUME NEW v, Typed(v), NEW j \in Jobs, NEW u, u = BindJob(v, j),
         v.job["main"] = "none" => v.result["main"] = "none" /\ "main" \notin Pending(v)
  PROVE  Bound(v, u, j)
<1> USE DEF Jobs
<1>1. v \in Controller
  BY DEF Typed
<1>2. PICK w : w = [v EXCEPT !.job_bound = TRUE, !.bound = j]
  OBVIOUS
<1>3. w \in Controller
  BY <1>1, <1>2, ZenonT(40) DEF Controller
<1>4. /\ w.job_bound /\ w.bound = j /\ w.tasks = v.tasks /\ SameDelay(v, w)
      /\ w.resumed = v.resumed /\ w.request = v.request /\ w.preconnect = v.preconnect
      /\ w.started = v.started /\ w.alive = v.alive
      /\ w.resolving = v.resolving /\ w.resolves = v.resolves
      /\ w.proxy = v.proxy /\ w.kind = v.kind /\ w.service = v.service
      /\ w.net_error = v.net_error /\ w.scenario = v.scenario
      /\ w.job = v.job /\ w.result = v.result
  BY <1>1, <1>2 DEF Controller, SameDelay
<1>5. Typed(w)
  BY <1>3, <1>4 DEF Typed
<1>6. PICK x : x = GoneMap(w)
  OBVIOUS
<1>7. Typed(x)
  BY <1>5, <1>6, GoneFields
<1>8. /\ x.tasks = w.tasks /\ SameRequest(w, x) /\ SameDelay(w, x)
      /\ x.job = w.job /\ x.result = w.result /\ x.resumed = w.resumed /\ ~ x.in_map
  BY <1>3, <1>6 DEF GoneMap, Controller, SameRequest, SameDelay
<1>9. u = IF x.bound = "alt" /\ x.job["main"] # "none" THEN Reset(x, "main") ELSE x
  BY <1>2, <1>6 DEF BindJob, OrphanUnboundJob, GoneMap
<1>10. CASE x.bound = "alt" /\ x.job["main"] # "none"
  <2>1. /\ Typed(u) /\ SameRequest(x, u) /\ SameDelay(x, u) /\ OnlyJob(x, u, "main")
        /\ u.job["main"] = "none" /\ u.result["main"] = "none"
        /\ u.in_map = x.in_map /\ u.resumed = x.resumed
        /\ Pending(u) = Pending(x) \ {"main"}
    BY <1>7, <1>9, <1>10, ResetFields
  <2>2. Pending(x) = Pending(v) /\ j = "alt"
    BY <1>4, <1>8, <1>10 DEF Pending, SameRequest
  <2>3. /\ u.bound = j /\ u.job_bound /\ ~ u.in_map
        /\ u.job["alt"] = v.job["alt"] /\ u.result["alt"] = v.result["alt"]
    BY <1>4, <1>8, <2>1 DEF SameRequest, OnlyJob
  <2> QED BY <1>4, <1>8, <2>1, <2>2, <2>3 DEF Bound, SameRequest, SameDelay
<1>11. CASE ~ (x.bound = "alt" /\ x.job["main"] # "none")
  <2>1. u = x
    BY <1>9, <1>11
  <2>2. j = "alt" => v.job["main"] = "none"
    BY <1>4, <1>8, <1>11 DEF SameRequest
  <2>3. Pending(u) = Pending(v)
    BY <1>4, <1>8, <2>1 DEF Pending
  <2>4. j = "alt" => /\ u.job["main"] = "none" /\ u.result["main"] = "none"
                     /\ Pending(u) = Pending(v) \ {"main"}
    BY <1>4, <1>8, <2>1, <2>2, <2>3
  <2>5. /\ u.bound = j /\ u.job_bound /\ ~ u.in_map
        /\ u.job = v.job /\ u.result = v.result
    BY <1>4, <1>8, <2>1 DEF SameRequest
  <2> QED BY <1>4, <1>7, <1>8, <2>1, <2>3, <2>4, <2>5 DEF Bound, SameRequest, SameDelay
<1> QED BY <1>10, <1>11

\* The job whose task runs, and that is not an orphan, is bound.
LEMMA BoundFields ==
  ASSUME NEW s, NEW j \in Jobs, NEW p, RunsAs(s, p, j), CoreInv(p),
         ~ IsJobOrphaned(s, j), NEW v, Heard(s, v, j),
         NEW u, u = IF v.bound = "none" THEN BindJob(v, j) ELSE v
  PROVE  Bound(v, u, j)
<1> USE DEF Jobs
<1>1. s.request = "live" /\ (s.bound \in {"none", j})
  BY DEF IsJobOrphaned, CoreInv, BoundIsProper, RunsAs, SameRequest
<1>2. CASE v.bound = "none"
  <2>1. v.job["main"] = "none" => v.result["main"] = "none" /\ "main" \notin Pending(v)
    BY DEF Heard, CoreInv, ResultsHaveTasks, RunsAs, OnlyJob, Pending
  <2>2. u = BindJob(v, j) /\ Typed(v)
    BY <1>2 DEF Heard
  <2> QED BY <2>1, <2>2, BindJobFields
<1>3. CASE v.bound # "none"
  <2>1. u = v /\ v.bound = j /\ p.bound = j
    BY <1>1, <1>3 DEF Heard, RunsAs, SameRequest
  <2>2. ~ v.in_map /\ v.job_bound
    BY <2>1 DEF Heard, RunsAs, SameRequest, CoreInv, BoundIsProper
  <2>3. j = "alt" => /\ v.job["main"] = "none" /\ v.result["main"] = "none"
                     /\ "main" \notin Pending(v)
    BY <2>1 DEF Heard, RunsAs, OnlyJob, CoreInv, BoundIsProper, ResultsHaveTasks, Pending
  <2> QED BY <2>1, <2>2, <2>3 DEF Bound, Heard, SameDelay
<1> QED BY <1>2, <1>3

\* Binding a job leaves the controller in order.
LEMMA BoundInv ==
  ASSUME NEW s, NEW j \in Jobs, NEW p, RunsAs(s, p, j), CoreInv(p),
         ~ IsJobOrphaned(s, j), s.result[j] # "none", KindIsProper(s),
         NEW v, Heard(s, v, j), NEW u, Bound(v, u, j)
  PROVE  OpenInv(u) /\ u.request = "live"
<1> USE DEF Jobs, CoreInv, RunsAs, Heard, Bound, SameDelay, OnlyJob, SameRequest
<1>1. s.request = "live" /\ (s.bound \in {"none", j}) /\ ~ p.preconnect /\ p.alive
  BY DEF IsJobOrphaned, BoundIsProper, PreconnectsAreSimple, EndIsProper
<1>2. p.started /\ ~ p.resolving /\ p.proxy >= 1
  BY DEF AttemptsAreProper, Fresh
<1>3. /\ \A t : t # "main" => (t \in Pending(u) <=> t \in Pending(p))
      /\ j = "main" => ("main" \in Pending(u) <=> "main" \in Pending(p))
      /\ j = "alt" => "main" \notin Pending(u)
      /\ j \notin Pending(p)
  BY DEF ResultsHaveTasks, Pending
<1> USE <1>1, <1>2, <1>3
<1>4. Typed(u) /\ ResultsHaveTasks(u)
  BY DEF ResultsHaveTasks
<1>5. AttemptsAreProper(u)
  BY DEF AttemptsAreProper, Fresh
<1>6. PreconnectsAreSimple(u)
  BY DEF PreconnectsAreSimple
<1>7. BoundIsProper(u)
  BY DEF BoundIsProper
<1>8. WaitingIsSafe(u)
  BY DEF WaitingIsProper, WaitingIsSafe
<1>9. KindIsProper(u)
  BY DEF KindIsProper
<1> QED BY <1>4, <1>5, <1>6, <1>7, <1>8, <1>9 DEF OpenInv

-----------------------------------------------------------------------------
(* What the consumer is told.                                              *)

Told == Jobs \cup {"pooled", "failed", "cert", "client", "tunnel", "auth"}

\* One more answer.
LEMMA ToldOnce ==
  ASSUME answers \in Seq(Told), AnsweredOnce, ~ Answered, NEW a \in Told,
         NEW n, n = Append(answers, a)
  PROVE  /\ n \in Seq(Told) /\ n # << >> /\ n[Len(n)] = a
         /\ \A i \in DOMAIN n : n[i] # "auth" => i = Len(n)
<1>1. Len(answers) \in Nat /\ DOMAIN answers = 1 .. Len(answers)
  BY LenProperties
<1>2. /\ n \in Seq(Told) /\ Len(n) = Len(answers) + 1
      /\ \A i \in 1 .. Len(answers) : n[i] = answers[i]
      /\ n[Len(answers) + 1] = a
  BY AppendProperties
<1>3. DOMAIN n = 1 .. Len(n)
  BY <1>2, LenProperties
<1>4. \A i \in 1 .. Len(answers) : answers[i] = "auth"
  <2> SUFFICES ASSUME NEW i \in 1 .. Len(answers), answers[i] # "auth" PROVE FALSE
    OBVIOUS
  <2>1. i = Len(answers)
    BY <1>1 DEF AnsweredOnce
  <2>2. answers # << >>
    BY <1>1, <2>1, EmptySeq
  <2> QED BY <2>1, <2>2 DEF Answered
<1>5. ASSUME NEW i \in DOMAIN n, n[i] # "auth" PROVE i = Len(n)
  <2>1. i \in 1 .. Len(answers) + 1
    BY <1>2, <1>3
  <2>2. i \notin 1 .. Len(answers)
    BY <1>2, <1>4, <1>5
  <2> QED BY <1>1, <1>2, <2>1, <2>2
<1>6. n # << >>
  BY <1>1, <1>2, EmptySeq
<1> QED BY <1>2, <1>5, <1>6

\* What is left of the controller when the consumer has been told.
Left(s, u) ==
    /\ u.started /\ u.service = s.service /\ u.net_error = s.net_error
    /\ u.scenario = s.scenario /\ (u.resolving => s.resolving)
    /\ \/ u.job["alt"] = "none"
       \/ u.job["alt"] = s.job["alt"] /\ u.result["alt"] = s.result["alt"]

\* The consumer is told, and may destroy the request.
LEMMA TellInv ==
  ASSUME NEW s, NEW a \in Told, Tell(s, a), OpenInv(s), s.request = "live",
         s.scenario = c.scenario, DelayIsOver(s), ResumedFirst(s),
         (s.scenario.prompt /\ a # "auth") \/ ResumeIsProper(s),
         a # "auth" => Quiet(s), AnswersInv, ~ Answered
  PROVE  ControllerInv(c') /\ AnswersInv' /\ Left(s, c') /\ answers' = Append(answers, a)
<1>1. s.started
  BY DEF OpenInv, AttemptsAreProper
<1>2. answers' = Append(answers, a)
  BY DEF Tell
<1>3. answers \in Seq(Told) /\ AnsweredOnce
  BY DEF AnswersInv, Told
<1>4. /\ answers' \in Seq(Told) /\ answers' # << >> /\ answers'[Len(answers')] = a
      /\ \A i \in DOMAIN answers' : answers'[i] # "auth" => i = Len(answers')
  BY <1>2, <1>3, ToldOnce
<1>5. AnsweredOnce'
  BY <1>4 DEF AnsweredOnce
<1>6. CASE s.scenario.prompt /\ a # "auth"
  <2>1. c' = OnRequestComplete(s)
    BY <1>6 DEF Tell, Prompt
  <2>2. /\ ControllerInv(c') /\ c'.request = "gone" /\ c'.started
        /\ c'.service = s.service /\ c'.net_error = s.net_error /\ c'.scenario = s.scenario
        /\ c'.resolving => s.resolving
        /\ \/ c'.job["alt"] = "none"
           \/ c'.job["alt"] = s.job["alt"] /\ c'.result["alt"] = s.result["alt"]
    BY <2>1, OnRequestCompleteInv
  <2>3. Quiet(c')
    BY <2>2 DEF Quiet
  <2> QED BY <1>2, <1>4, <1>5, <2>2, <2>3 DEF Left, AnswersInv, Told
<1>7. CASE ~ (s.scenario.prompt /\ a # "auth")
  <2>1. c' = s
    BY <1>7 DEF Tell, Prompt
  <2>2. CoreInv(s)
    BY <1>7, OpenIsCore
  <2>3. ControllerInv(c')
    BY <2>1, <2>2 DEF ControllerInv
  <2>4. Answered' => Quiet(c')
    BY <1>4, <2>1 DEF Answered
  <2>5. Left(s, c') /\ c'.started
    BY <1>1, <2>1 DEF Left
  <2> QED BY <1>2, <1>4, <1>5, <2>3, <2>4, <2>5 DEF AnswersInv, Told
<1> QED BY <1>6, <1>7

-----------------------------------------------------------------------------
(* The steps.                                                              *)

Inv == ControllerInv(c) /\ AnswersInv /\ ReportsInv

\* Nothing is told.
LEMMA AnswersKept ==
  ASSUME AnswersInv, answers' = answers, c'.started, Answered => Quiet(c')
  PROVE  AnswersInv'
BY DEF AnswersInv, AnsweredOnce, Answered

\* Nothing is reported, and what is to be reported is not forgotten.
LEMMA ReportsKept ==
  ASSUME ReportsInv, UNCHANGED <<failed, marked>>, c'.scenario = c.scenario,
         broken' = broken \/ broken' \subseteq {"none", "quic", "h2", "proxy"},
         OneAttempt => c'.net_error = c.net_error,
         OneAttempt /\ c.net_error # "OK" =>
             /\ c'.service = c.service /\ ~ c'.resolving /\ c'.started
             /\ \/ c'.job["alt"] = "none"
                \/ c'.job["alt"] = "bound" /\ c'.result["alt"] # "auth",
         \/ answers' = answers
         \/ answers' # << >> /\ answers'[Len(answers')] # "main"
  PROVE  ReportsInv'
<1>1. OneAttempt' <=> OneAttempt
  BY DEF OneAttempt, Proxies
<1>2. /\ broken' \subseteq {"none", "quic", "h2", "proxy"}
      /\ failed' \subseteq {"quic", "h2"} /\ marked' \subseteq {"none", "quic", "h2"}
  BY DEF ReportsInv
<1>3. ASSUME OneAttempt
      PROVE  /\ marked' \subseteq failed'
             /\ \A k \in failed' : k \in marked' \/ (c'.net_error = "error" /\ k = c'.service)
             /\ c'.net_error = "error" => c'.service \in failed'
             /\ c'.net_error # "OK" =>
                  \/ c'.job["alt"] = "none"
                  \/ c'.job["alt"] = "bound" /\ c'.result["alt"] # "auth"
             /\ (c'.resolving \/ ~ c'.started) => c'.net_error = "OK"
             /\ answers' # << >> /\ answers'[Len(answers')] = "main" => c'.net_error = "OK"
  <2>1. CASE c.net_error = "OK"
    BY <1>3, <2>1 DEF ReportsInv
  <2>2. CASE c.net_error # "OK"
    BY <1>3, <2>2 DEF ReportsInv
  <2> QED BY <2>1, <2>2
<1> QED BY <1>1, <1>2, <1>3 DEF ReportsInv

\* The proxy is resolved, or not.
Resolved(s, b, n, m) == [s EXCEPT !.resolving = b, !.proxy = n, !.resolves = m]

\* Resolving a proxy changes nothing else.
LEMMA ResolvedInv ==
  ASSUME NEW s, CoreInv(s), Fresh(s), s.started, s.alive, "notify" \notin Pending(s),
         s.request # "gone", NEW b \in BOOLEAN, NEW n \in Nat, NEW m \in Nat,
         NEW u, u = Resolved(s, b, n, m)
  PROVE  /\ CoreInv(u) /\ Fresh(u) /\ u.started /\ u.alive /\ Pending(u) = Pending(s)
         /\ u.request = s.request /\ u.preconnect = s.preconnect
         /\ u.net_error = s.net_error /\ u.scenario = s.scenario
         /\ u.resolving = b /\ u.proxy = n /\ DelayIsOver(u) /\ ResumedFirst(u)
<1> USE DEF Jobs
<1>1. s \in Controller /\ Distinct(s.tasks)
  BY DEF CoreInv, Typed
<1>2. [s EXCEPT !.resolving = b, !.proxy = n, !.resolves = m] \in Controller
  BY <1>1 DEF Controller
<1>3. u \in Controller
  BY <1>2, Zenon DEF Resolved
<1>4. /\ u.resolving = b /\ u.proxy = n /\ u.tasks = s.tasks
      /\ u.request = s.request /\ u.preconnect = s.preconnect
      /\ u.started = s.started /\ u.alive = s.alive /\ u.kind = s.kind
      /\ u.service = s.service /\ u.net_error = s.net_error /\ u.bound = s.bound
      /\ u.job_bound = s.job_bound /\ u.scenario = s.scenario
      /\ u.job = s.job /\ u.result = s.result /\ SameDelay(s, u)
      /\ u.in_map = s.in_map /\ u.resumed = s.resumed
  BY <1>1 DEF Resolved, Controller, SameDelay
<1> USE <1>4 DEF CoreInv, SameDelay, Pending, Fresh
<1>5. Typed(u) /\ ResultsHaveTasks(u)
  BY <1>1, <1>3 DEF Typed, ResultsHaveTasks
<1>6. AttemptsAreProper(u)
  BY DEF AttemptsAreProper
<1>7. PreconnectsAreSimple(u) /\ BoundIsProper(u)
  BY DEF PreconnectsAreSimple, BoundIsProper
<1>8. WaitingIsProper(u) /\ KindIsProper(u) /\ EndIsProper(u)
  BY DEF WaitingIsProper, KindIsProper, EndIsProper
<1>9. DelayIsOver(u) /\ ResumedFirst(u)
  BY DEF DelayIsOver, ResumedFirst
<1> QED BY <1>5, <1>6, <1>7, <1>8, <1>9

\* Proxy resolution ends.
LEMMA ResolveProxyCompleteInv ==
  ASSUME NEW s, CoreInv(s), Fresh(s), s.started, s.alive, "notify" \notin Pending(s),
         s.request # "gone", s.scenario = c.scenario, NEW u \in ResolveProxyComplete(s)
  PROVE  /\ ControllerInv(u) /\ u.started /\ u.request = s.request
         /\ u.net_error = s.net_error /\ u.scenario = s.scenario
<1> USE DEF Jobs
<1>1. s \in Controller /\ s.proxy \in Nat /\ s.resolves \in Nat
  BY DEF CoreInv, Typed, Controller
<1>4. PICK b \in BOOLEAN, n \in Nat : b = FALSE /\ n = 1
  OBVIOUS
<1>2. CASE u \in CreateJobs([s EXCEPT !.resolving = FALSE, !.proxy = 1])
  <2>1. PICK v : v = Resolved(s, b, n, s.resolves)
    OBVIOUS
  <2>2. /\ CoreInv(v) /\ Fresh(v) /\ v.started /\ v.alive /\ Pending(v) = Pending(s)
        /\ v.request = s.request /\ v.net_error = s.net_error /\ v.scenario = s.scenario
        /\ v.resolving = b /\ v.proxy = n
    BY <1>1, <2>1, ResolvedInv
  <2>3. Ready(v)
    BY <1>4, <2>2 DEF Ready
  <2>4. u \in CreateJobs(v)
    BY <1>1, <1>2, <1>4, <2>1, ZenonT(40) DEF Resolved, Controller
  <2>5. ControllerInv(u) /\ SameAttempt(v, u)
    BY <2>3, <2>4, CreateJobsInv
  <2> QED BY <2>2, <2>5 DEF SameAttempt
<1>3. CASE u = Post([s EXCEPT !.resolving = FALSE], "notify")
  <2>1. PICK v : v = Resolved(s, b, s.proxy, s.resolves)
    OBVIOUS
  <2>2. /\ CoreInv(v) /\ Fresh(v) /\ v.started /\ v.alive /\ Pending(v) = Pending(s)
        /\ v.request = s.request /\ v.preconnect = s.preconnect
        /\ v.net_error = s.net_error /\ v.scenario = s.scenario
        /\ v.resolving = b
    BY <1>1, <2>1, ResolvedInv
  <2>3. v = [s EXCEPT !.resolving = FALSE]
    BY <1>1, <1>4, <2>1 DEF Resolved, Controller
  <2>4. u = Post(v, "notify") /\ Typed(v) /\ "notify" \in Tasks /\ "notify" \notin Pending(v)
    BY <1>3, <2>2, <2>3 DEF Tasks, CoreInv
  <2>5. Typed(u) /\ OnlyTasks(v, u) /\ Pending(u) = Pending(v) \cup {"notify"}
    BY <2>4, PostFields
  <2> USE <1>4, <2>2, <2>5 DEF CoreInv, OnlyTasks, SameRequest, SameDelay, Fresh
  <2>6. ResultsHaveTasks(u) /\ AttemptsAreProper(u)
    BY DEF ResultsHaveTasks, AttemptsAreProper
  <2>7. PreconnectsAreSimple(u) /\ BoundIsProper(u)
    BY DEF PreconnectsAreSimple, BoundIsProper
  <2>8. WaitingIsProper(u) /\ KindIsProper(u) /\ EndIsProper(u)
    BY DEF WaitingIsProper, KindIsProper, EndIsProper
  <2>9. DelayIsOver(u) /\ ResumedFirst(u)
    BY DEF DelayIsOver, ResumedFirst
  <2> QED BY <2>6, <2>7, <2>8, <2>9 DEF ControllerInv
<1> QED BY <1>2, <1>3 DEF ResolveProxyComplete

\* The controller as it starts to resolve the proxy.
StartedAs(r, b) == [c EXCEPT !.started = TRUE, !.request = r, !.preconnect = b]

\* Its type.
LEMMA StartedType ==
  ASSUME c \in Controller, NEW r \in {"none", "live"}, NEW b \in BOOLEAN
  PROVE  StartedAs(r, b) \in Controller
<1>1. PICK x \in {"none", "live", "gone"}, d \in BOOLEAN : x = r /\ d = TRUE
  OBVIOUS
<1>2. [c EXCEPT !.started = d, !.request = x, !.preconnect = b] \in Controller
  BY DEF Controller
<1> QED BY <1>1, <1>2, Zenon DEF StartedAs

\* A controller that starts has nothing else to do.
LEMMA StartedFields ==
  ASSUME ControllerInv(c), ~ c.started, NEW r \in {"none", "live"}, NEW b \in BOOLEAN,
         b <=> r = "none", NEW s, s = StartedAs(r, b)
  PROVE  /\ CoreInv(s) /\ Fresh(s) /\ s.started /\ s.alive /\ "notify" \notin Pending(s)
         /\ s.request # "gone" /\ s.scenario = c.scenario /\ s.net_error = c.net_error
<1> USE DEF Jobs
<1>1. CoreInv(c) /\ c \in Controller /\ Distinct(c.tasks)
  BY DEF ControllerInv, CoreInv, Typed
<1>13. s \in Controller
  BY <1>1, StartedType
<1>3. /\ s.resolving = c.resolving /\ s.proxy = c.proxy /\ s.tasks = c.tasks
      /\ s.request = r /\ s.preconnect = b /\ s.started = TRUE
      /\ s.alive = c.alive /\ s.kind = c.kind
      /\ s.service = c.service /\ s.net_error = c.net_error /\ s.bound = c.bound
      /\ s.job_bound = c.job_bound /\ s.scenario = c.scenario
      /\ s.job = c.job /\ s.result = c.result /\ SameDelay(c, s)
      /\ s.in_map = c.in_map /\ s.resumed = c.resumed
  BY <1>1 DEF Controller, SameDelay, StartedAs
<1> HIDE DEF ControllerInv
<1> USE <1>1, <1>3 DEF CoreInv, SameDelay, Pending
<1>4. Fresh(c) /\ c.alive /\ ~ c.resolving /\ "notify" \notin Pending(c)
  BY DEF AttemptsAreProper
<1>5. Fresh(s) /\ s.alive /\ ~ s.resolving /\ "notify" \notin Pending(s)
  BY <1>4 DEF Fresh
<1>6. Typed(s) /\ ResultsHaveTasks(s)
  BY <1>13 DEF Typed, ResultsHaveTasks
<1>7. AttemptsAreProper(s)
  BY <1>5 DEF AttemptsAreProper, Fresh
<1>8. PreconnectsAreSimple(s) /\ BoundIsProper(s)
  BY <1>5 DEF PreconnectsAreSimple, BoundIsProper, Fresh
<1>9. WaitingIsProper(s) /\ KindIsProper(s) /\ EndIsProper(s)
  BY <1>5 DEF WaitingIsProper, KindIsProper, EndIsProper, Fresh
<1>10. CoreInv(s)
  BY <1>6, <1>7, <1>8, <1>9
<1>11. s.started /\ s.request # "gone"
  OBVIOUS
<1> QED BY <1>5, <1>10, <1>11

\* Proxy resolution begins, and may end at once.
LEMMA ResolveProxyInv ==
  ASSUME NEW s, CoreInv(s), Fresh(s), s.started, s.alive, "notify" \notin Pending(s),
         s.request # "gone", s.scenario = c.scenario, NEW u \in ResolveProxy(s)
  PROVE  /\ ControllerInv(u) /\ u.started
         /\ u.net_error = s.net_error /\ u.scenario = s.scenario
<1>1. s \in Controller /\ s.proxy \in Nat /\ s.resolves \in Nat
  BY DEF CoreInv, Typed, Controller
<1>12. CASE u \in ResolveProxyComplete(s)
  BY <1>12, ResolveProxyCompleteInv
<1>13. CASE u = [s EXCEPT !.resolving = TRUE]
  <2>1. PICK d \in BOOLEAN : d = TRUE
    OBVIOUS
  <2>2. u = Resolved(s, d, s.proxy, s.resolves)
    BY <1>1, <1>13, <2>1 DEF Resolved, Controller
  <2>3. /\ CoreInv(u) /\ u.started
        /\ u.net_error = s.net_error /\ u.scenario = s.scenario
        /\ DelayIsOver(u) /\ ResumedFirst(u)
    BY <1>1, <2>2, ResolvedInv
  <2> QED BY <2>3 DEF ControllerInv
<1> QED BY <1>12, <1>13 DEF ResolveProxy

\* Start and Preconnect.
LEMMA StartPreserves ==
  ASSUME Inv, Start \/ Preconnect
  PROVE  Inv'
<1>1. ControllerInv(c) /\ AnswersInv /\ ReportsInv /\ ~ c.started
  BY DEF Inv, Start, Preconnect
<1>2. c \in Controller /\ c.request = "none" /\ ~ c.preconnect
  BY <1>1 DEF ControllerInv, CoreInv, Typed, AttemptsAreProper
<1>3. UNCHANGED <<broken, answers, failed, marked>>
  BY DEF Start, Preconnect
<1>4. /\ ControllerInv(c') /\ c'.started /\ c'.net_error = c.net_error
      /\ c'.scenario = c.scenario
  <2>1. CASE Start
    <3>1. PICK b \in BOOLEAN : b = FALSE
      OBVIOUS
    <3>2. PICK s : s = StartedAs("live", b)
      OBVIOUS
    <3>3. s = [c EXCEPT !.started = TRUE, !.request = "live"]
      BY <1>2, <3>1, <3>2 DEF Controller, StartedAs
    <3>4. c' \in ResolveProxy(s)
      BY <2>1, <3>3 DEF Start
    <3>5. /\ CoreInv(s) /\ Fresh(s) /\ s.started /\ s.alive /\ "notify" \notin Pending(s)
          /\ s.request # "gone" /\ s.scenario = c.scenario /\ s.net_error = c.net_error
      BY <1>1, <3>1, <3>2, StartedFields
    <3> HIDE <3>3
    <3> QED BY <3>4, <3>5, ResolveProxyInv
  <2>2. CASE Preconnect
    <3>1. PICK b \in BOOLEAN : b = TRUE
      OBVIOUS
    <3>2. PICK s : s = StartedAs("none", b)
      OBVIOUS
    <3>3. s = [c EXCEPT !.started = TRUE, !.preconnect = TRUE]
      BY <1>2, <3>1, <3>2 DEF Controller, StartedAs
    <3>4. c' \in ResolveProxy(s)
      BY <2>2, <3>3 DEF Preconnect
    <3>5. /\ CoreInv(s) /\ Fresh(s) /\ s.started /\ s.alive /\ "notify" \notin Pending(s)
          /\ s.request # "gone" /\ s.scenario = c.scenario /\ s.net_error = c.net_error
      BY <1>1, <3>1, <3>2, StartedFields
    <3> HIDE <3>3
    <3> QED BY <3>4, <3>5, ResolveProxyInv
  <2> QED BY <2>1, <2>2
<1>5. ~ Answered
  BY <1>1 DEF AnswersInv, Answered
<1>6. AnswersInv'
  BY <1>1, <1>3, <1>4, <1>5, AnswersKept
<1>7. OneAttempt => c.net_error = "OK"
  BY <1>1 DEF ReportsInv
<1>8. ReportsInv'
  BY <1>1, <1>3, <1>4, <1>7, ReportsKept
<1> QED BY <1>4, <1>6, <1>8 DEF Inv

\* Proxy resolution ends.
LEMMA OnIOCompletePreserves ==
  ASSUME Inv, OnIOComplete
  PROVE  Inv'
<1> USE DEF Jobs
<1>1. ControllerInv(c) /\ AnswersInv /\ ReportsInv /\ c.resolving
  BY DEF Inv, OnIOComplete
<1>2. UNCHANGED <<broken, answers, failed, marked>> /\ c' \in ResolveProxyComplete(c)
  BY DEF OnIOComplete
<1>3. CoreInv(c)
  BY <1>1 DEF ControllerInv
<1>4. Fresh(c) /\ c.started /\ c.alive /\ "notify" \notin Pending(c) /\ c.request # "gone"
  BY <1>1, <1>3 DEF CoreInv, AttemptsAreProper, EndIsProper, Fresh
<1>5. /\ ControllerInv(c') /\ c'.started /\ c'.request = c.request
      /\ c'.net_error = c.net_error /\ c'.scenario = c.scenario
  BY <1>2, <1>3, <1>4, ResolveProxyCompleteInv
<1>6. Answered => Quiet(c')
  BY <1>1, <1>5 DEF AnswersInv, Quiet
<1>7. AnswersInv'
  BY <1>1, <1>2, <1>5, <1>6, AnswersKept
<1>8. OneAttempt => c.net_error = "OK"
  BY <1>1 DEF ReportsInv
<1>9. ReportsInv'
  BY <1>1, <1>2, <1>5, <1>8, ReportsKept
<1> QED BY <1>5, <1>7, <1>9 DEF Inv

\* The task of the job j has run: p is the controller with the job still connecting.
TaskRuns(s, p, j) ==
    /\ OnlyTasks(c, s) /\ Pending(s) = Pending(c) \ {j}
    /\ RunsAs(s, p, j) /\ CoreInv(p)
    /\ s.job[j] = "done" /\ s.result[j] \in Results
    /\ KindIsProper(s) /\ DelayIsOver(s)
    /\ s.alive /\ s.started /\ ~ s.resolving /\ "notify" \notin Pending(s)
    /\ j = "alt" /\ s.result["alt"] = "auth" => s.job["main"] # "waiting"

\* The task of a job finds its result; the main job has been resumed before an
\* HTTP/2 alternative asks for credentials.
LEMMA JobTaskFields ==
  ASSUME ControllerInv(c), NEW j \in Jobs, Next1(j), NEW s, s = Ran(c),
         NEW p, p = Running(s, j)
  PROVE  TaskRuns(s, p, j)
<1> USE DEF Jobs
<1>1. CoreInv(c) /\ Typed(c) /\ DelayIsOver(c) /\ ResumedFirst(c)
  BY DEF ControllerInv, CoreInv
<1>2. c.tasks # << >> /\ Head(c.tasks) = j
  BY DEF Next1
<1>3. /\ Typed(s) /\ OnlyTasks(c, s)
      /\ j \in Pending(c) /\ Pending(s) = Pending(c) \ {j}
      /\ Before(c.tasks, "resume", "alt") /\ j = "alt" => "resume" \notin Pending(c)
  BY <1>1, <1>2, RanFields
<1>4. c.job[j] = "done" /\ c.result[j] # "none"
  BY <1>1, <1>3 DEF CoreInv, ResultsHaveTasks
<1>5. RunsAs(s, p, j) /\ Typed(p)
  BY <1>3, RunningFields
<1>6. Pending(p) = Pending(c) \ {j}
  BY <1>3, <1>5 DEF RunsAs, Pending
<1>7. CoreInv(p)
  <2>1. c.job[j] \notin {"none", "waiting"}
    BY <1>4
  <2>2. /\ SameRequest(c, p) /\ SameDelay(c, p) /\ OnlyJob(c, p, j)
        /\ p.job[j] = "connecting" /\ p.result[j] = "none"
        /\ p.in_map = c.in_map /\ p.resumed = c.resumed
    BY <1>3, <1>5 DEF RunsAs, OnlyTasks, SameRequest, SameDelay, OnlyJob
  <2> QED BY <1>1, <1>5, <1>6, <2>1, <2>2, RunningInv
<1>8. KindIsProper(s) /\ DelayIsOver(s)
  BY <1>1, <1>3 DEF CoreInv, KindIsProper, DelayIsOver, OnlyTasks, SameRequest, SameDelay
<1>9. s.alive /\ s.started /\ ~ s.resolving /\ "notify" \notin Pending(s)
  BY <1>1, <1>3, <1>4 DEF CoreInv, AttemptsAreProper, EndIsProper, Fresh, OnlyTasks, SameRequest
<1>10. j = "alt" /\ s.result["alt"] = "auth" => s.job["main"] # "waiting"
  BY <1>1, <1>3 DEF CoreInv, KindIsProper, ResumedFirst, OnlyTasks
<1>11. s.result[j] \in Results
  <2>1. c.result[j] \in Results \cup {"none"}
    BY <1>1 DEF Typed, Controller
  <2> QED BY <1>3, <1>4, <2>1 DEF OnlyTasks
<1>12. s.job[j] = "done"
  BY <1>3, <1>4 DEF OnlyTasks
<1> QED BY <1>3, <1>5, <1>7, <1>8, <1>9, <1>10, <1>11, <1>12 DEF TaskRuns

\* t is the controller, whose job j has a result, while that result is handled:
\* the delay of the main job and the error of the alternative job may have changed.
Handles(t, q, j) ==
    /\ RunsAs(t, q, j) /\ CoreInv(q) /\ KindIsProper(t) /\ DelayIsOver(t)
    /\ t.request = c.request /\ t.preconnect = c.preconnect
    /\ t.kind = c.kind /\ t.service = c.service
    /\ t.resolves = c.resolves /\ t.proxy = c.proxy
    /\ t.bound = c.bound /\ t.job_bound = c.job_bound /\ t.scenario = c.scenario
    /\ t.job = c.job /\ t.result = c.result /\ t.in_map = c.in_map
    /\ t.alive /\ t.started /\ ~ t.resolving /\ "notify" \notin Pending(t)
    /\ t.job[j] = "done" /\ t.result[j] \in Results

\* The main job does not wait for the job j any more.
IsReleased(t, j) ==
    j = "alt" /\ t.job["main"] = "waiting" => "resume" \in Pending(t) /\ ~ t.later

\* A task before anything else is done.
LEMMA TaskHandles ==
  ASSUME NEW s, NEW p, NEW j \in Jobs, TaskRuns(s, p, j)
  PROVE  Handles(s, p, j)
BY DEF TaskRuns, Handles, OnlyTasks, SameRequest

WithError(s, e) == [s EXCEPT !.net_error = e]

\* The error of the alternative job is only remembered.
LEMMA ErrorFields ==
  ASSUME NEW s, NEW p, NEW j \in Jobs, TaskRuns(s, p, j),
         NEW e \in {"OK", "error", "network"}, NEW x, x = WithError(s, e)
  PROVE  Handles(x, Running(x, j), j) /\ x.net_error = e /\ x.tasks = s.tasks
<1> USE DEF Jobs
<1>1. s \in Controller /\ Distinct(s.tasks) /\ Typed(s)
  BY DEF TaskRuns, RunsAs, Typed
<1>2. [s EXCEPT !.net_error = e] \in Controller
  BY <1>1 DEF Controller
<1>3. x \in Controller
  BY <1>2, Zenon DEF WithError
<1>4. /\ x.net_error = e /\ x.tasks = s.tasks
      /\ x.request = s.request /\ x.preconnect = s.preconnect
      /\ x.started = s.started /\ x.alive = s.alive
      /\ x.resolving = s.resolving /\ x.resolves = s.resolves
      /\ x.proxy = s.proxy /\ x.kind = s.kind /\ x.service = s.service
      /\ x.bound = s.bound /\ x.job_bound = s.job_bound
      /\ x.scenario = s.scenario /\ x.job = s.job /\ x.result = s.result
      /\ SameDelay(s, x) /\ x.in_map = s.in_map /\ x.resumed = s.resumed
  BY <1>1 DEF WithError, Controller, SameDelay
<1>5. Typed(x)
  BY <1>1, <1>3, <1>4 DEF Typed
<1>6. PICK q : q = Running(x, j)
  OBVIOUS
<1>7. RunsAs(x, q, j) /\ Typed(q)
  BY <1>5, <1>6, RunningFields
<1>8. /\ RunsAs(s, p, j) /\ CoreInv(p)
  BY DEF TaskRuns
<1>9. /\ q.tasks = p.tasks
      /\ q.request = p.request /\ q.preconnect = p.preconnect
      /\ q.started = p.started /\ q.alive = p.alive
      /\ q.resolving = p.resolving
      /\ q.proxy = p.proxy /\ q.kind = p.kind /\ q.service = p.service
      /\ q.bound = p.bound /\ q.job_bound = p.job_bound /\ q.scenario = p.scenario
      /\ \A i \in Jobs : q.job[i] = p.job[i] /\ q.result[i] = p.result[i]
      /\ SameDelay(p, q) /\ q.in_map = p.in_map /\ q.resumed = p.resumed
  BY <1>4, <1>7, <1>8 DEF RunsAs, SameRequest, SameDelay, OnlyJob
<1>10. CoreInv(q)
  <2>1. Pending(q) = Pending(p)
    BY <1>9 DEF Pending
  <2> USE <1>8, <1>9, <2>1 DEF CoreInv, SameDelay
  <2>2. ResultsHaveTasks(q)
    BY DEF ResultsHaveTasks
  <2>3. AttemptsAreProper(q)
    BY DEF AttemptsAreProper, Fresh
  <2>4. PreconnectsAreSimple(q) /\ BoundIsProper(q)
    BY DEF PreconnectsAreSimple, BoundIsProper
  <2>5. WaitingIsProper(q) /\ KindIsProper(q) /\ EndIsProper(q)
    BY DEF WaitingIsProper, KindIsProper, EndIsProper
  <2> QED BY <1>7, <2>2, <2>3, <2>4, <2>5
<1>11. Handles(s, p, j)
  BY TaskHandles
<1>12. KindIsProper(x) /\ DelayIsOver(x)
  BY <1>4, <1>11 DEF Handles, KindIsProper, DelayIsOver, SameDelay
<1>13. Pending(x) = Pending(s)
  BY <1>4 DEF Pending
<1>14. Handles(x, q, j)
  BY <1>4, <1>7, <1>10, <1>11, <1>12, <1>13 DEF Handles
<1> QED BY <1>4, <1>6, <1>14

\* The main job is released by an alternative job that needs or has failed.
LEMMA ReleasedHandles ==
  ASSUME NEW x, NEW j \in Jobs, Handles(x, Running(x, j), j),
         NEW t, t = MaybeResumeMainJob(x, j, FALSE)
  PROVE  /\ Handles(t, Running(t, j), j) /\ IsReleased(t, j) /\ t.net_error = x.net_error
<1> USE DEF Jobs
<1>1. CASE j = "main"
  <2>1. t = x
    BY <1>1 DEF MaybeResumeMainJob
  <2> QED BY <1>1, <2>1 DEF IsReleased
<1>2. CASE j = "alt"
  <2>1. PICK d \in BOOLEAN : d = FALSE
    OBVIOUS
  <2>2. Typed(x) /\ RunsAs(x, Running(x, j), "alt") /\ CoreInv(Running(x, j))
    BY <1>2 DEF Handles, RunsAs
  <2>3. Released(x, t, d)
    BY <1>2, <2>1, <2>2, MaybeResumeMainJobFields
  <2>4. PICK p, q : p = Running(x, j) /\ q = Running(t, j)
    OBVIOUS
  <2>5. Typed(t)
    BY <2>3 DEF Released
  <2>6. RunsAs(t, q, "alt") /\ Typed(q)
    BY <1>2, <2>4, <2>5, RunningFields
  <2>7. RunsAs(x, p, "alt") /\ CoreInv(p) /\ (d => x.kind \in {"quic", "proxy"})
    BY <2>1, <2>2, <2>4
  <2>8. CoreInv(q)
    BY <2>3, <2>6, <2>7, ReleasedInv
  <2>9. /\ SameRequest(x, t) /\ t.job = x.job /\ t.result = x.result /\ t.in_map = x.in_map
        /\ t.wait => x.wait
        /\ x.job["main"] = "waiting" => "resume" \in Pending(t) /\ ~ t.later
        /\ "notify" \in Pending(t) => "notify" \in Pending(x)
    <3>1. CASE x.job["main"] = "waiting"
      BY <2>1, <2>3, <3>1 DEF Released
    <3>2. CASE x.job["main"] # "waiting"
      BY <2>1, <2>3, <3>2 DEF Released, Pending
    <3> QED BY <3>1, <3>2
  <2>10. KindIsProper(t) /\ DelayIsOver(t)
    BY <2>9, ZenonT(40) DEF Handles, KindIsProper, DelayIsOver, SameRequest
  <2>11. Handles(t, q, j)
    BY <1>2, <2>6, <2>8, <2>9, <2>10, ZenonT(40) DEF Handles, SameRequest
  <2>12. IsReleased(t, j) /\ t.net_error = x.net_error
    BY <2>9 DEF IsReleased, SameRequest
  <2> QED BY <2>4, <2>11, <2>12
<1> QED BY <1>1, <1>2

\* Nothing final has been told while a job that is not an orphan has a result.
LEMMA NotAnswered ==
  ASSUME NEW t, NEW q, NEW j \in Jobs, Handles(t, q, j), ~ IsJobOrphaned(t, j), AnswersInv
  PROVE  ~ Answered
<1>1. c.job[j] = "done" /\ ~ IsJobOrphaned(c, j) /\ c.request = "live"
  BY DEF Handles, IsJobOrphaned
<1> QED BY <1>1 DEF AnswersInv, Quiet

\* What a step that handles a result leaves of what is to be reported.
Keeps(t, u) ==
    /\ u.started /\ u.service = c.service /\ u.scenario = c.scenario
    /\ u.net_error = t.net_error /\ ~ u.resolving

\* An orphaned job ends, or a preconnect.
LEMMA OrphanHandled ==
  ASSUME NEW t, NEW q, NEW j \in Jobs, Handles(t, q, j),
         IsJobOrphaned(t, j) \/ t.preconnect, AnswersInv,
         c' = OnOrphanedJobComplete(t, j), answers' = answers
  PROVE  /\ ControllerInv(c') /\ AnswersInv' /\ Keeps(t, c')
         /\ c'.job["alt"] = "none" \/ (/\ j = "main" /\ c'.job["alt"] = c.job["alt"]
                                       /\ c'.result["alt"] = c.result["alt"])
<1> USE DEF Jobs
<1>1. RunsAs(t, q, j) /\ CoreInv(q) /\ DelayIsOver(t)
  BY DEF Handles
<1>2. t.bound # j
  BY <1>1 DEF IsJobOrphaned, RunsAs, SameRequest, CoreInv, BoundIsProper, PreconnectsAreSimple
<1>3. j = "alt" => t.job["main"] # "waiting"
  BY <1>1 DEF IsJobOrphaned, RunsAs, OnlyJob, SameRequest, CoreInv, BoundIsProper,
              PreconnectsAreSimple, WaitingIsProper
<1>4. c' = MaybeNotifyFactoryOfCompletion(Reset(t, j))
  BY DEF OnOrphanedJobComplete
<1>5. /\ ControllerInv(c') /\ SameReports(t, c') /\ OnlyJob(t, c', j)
      /\ c'.job[j] = "none" /\ c'.result[j] = "none" /\ c'.in_map = t.in_map
      /\ c'.bound = t.bound /\ c'.job_bound = t.job_bound
  BY <1>1, <1>2, <1>3, <1>4, OrphanedInv
<1>6. Keeps(t, c')
  BY <1>5 DEF Keeps, SameReports, Handles
<1>7. ASSUME Answered PROVE Quiet(c')
  <2> SUFFICES ASSUME c'.request = "live"
               PROVE  /\ ~ c'.in_map /\ ~ c'.resolving /\ "notify" \notin Pending(c')
                      /\ \A i \in Jobs :
                           \/ IsJobOrphaned(c', i)
                           \/ c'.job[i] = "none"
                           \/ c'.job[i] = "bound" /\ c'.result[i] # "auth"
    BY DEF Quiet
  <2>1. c.request = "live" /\ Quiet(c)
    BY <1>5, <1>7 DEF AnswersInv, SameReports, Handles
  <2>2. ~ c'.in_map /\ ~ c'.resolving /\ "notify" \notin Pending(c')
    BY <1>5, <2>1 DEF Quiet, SameReports, Handles
  <2>3. ASSUME NEW i \in Jobs
        PROVE  \/ IsJobOrphaned(c', i)
               \/ c'.job[i] = "none"
               \/ c'.job[i] = "bound" /\ c'.result[i] # "auth"
    BY <1>5, <2>1 DEF Quiet, SameReports, Handles, OnlyJob, IsJobOrphaned
  <2> QED BY <2>2, <2>3
<1>8. AnswersInv'
  BY <1>6, <1>7, AnswersKept DEF Keeps
<1>9. c'.job["alt"] = "none" \/ (/\ j = "main" /\ c'.job["alt"] = c.job["alt"]
                                 /\ c'.result["alt"] = c.result["alt"])
  BY <1>5 DEF OnlyJob, Handles
<1> QED BY <1>5, <1>6, <1>8, <1>9

\* The job j, as the consumer is about to hear of it.
HeardAs(t, e, j) == [t EXCEPT !.net_error = e, !.job[j] = "bound"]

\* Only the job and the error have changed.
LEMMA HeardFields ==
  ASSUME NEW t, Typed(t), NEW j \in Jobs, NEW e \in {"OK", "error", "network"},
         NEW v, v = HeardAs(t, e, j)
  PROVE  Heard(t, v, j) /\ v.net_error = e
<1> USE DEF Jobs
<1>1. t \in Controller /\ Distinct(t.tasks)
  BY DEF Typed
<1>2. PICK b : b = [t.job EXCEPT ![j] = "bound"]
  OBVIOUS
<1>3. t.job \in [Jobs -> JobState]
  BY <1>1 DEF Controller
<1>4. b \in [Jobs -> JobState] /\ b[j] = "bound" /\ \A i \in Jobs : i # j => b[i] = t.job[i]
  BY <1>2, <1>3 DEF JobState
<1>5. v = [t EXCEPT !.net_error = e, !.job = b]
  BY <1>1, <1>2 DEF HeardAs, Controller
<1>6. [t EXCEPT !.net_error = e, !.job = b] \in Controller
  BY <1>1, <1>4 DEF Controller
<1>7. v \in Controller
  BY <1>5, <1>6, Zenon
<1>8. /\ v.net_error = e /\ v.job = b /\ v.result = t.result /\ v.tasks = t.tasks
      /\ v.in_map = t.in_map /\ v.resumed = t.resumed
      /\ v.request = t.request /\ v.preconnect = t.preconnect
      /\ v.started = t.started /\ v.alive = t.alive
      /\ v.resolving = t.resolving /\ v.resolves = t.resolves
      /\ v.proxy = t.proxy /\ v.kind = t.kind /\ v.service = t.service
      /\ v.bound = t.bound /\ v.job_bound = t.job_bound /\ v.scenario = t.scenario
      /\ SameDelay(t, v)
  BY <1>1, <1>5 DEF Controller, SameDelay
<1>9. Typed(v)
  BY <1>1, <1>7, <1>8 DEF Typed
<1> QED BY <1>4, <1>8, <1>9 DEF Heard, OnlyJob

\* The job that is heard of is bound, and what is left can go on.
LEMMA BoundHandled ==
  ASSUME NEW t, NEW q, NEW j \in Jobs, Handles(t, q, j), ~ IsJobOrphaned(t, j),
         NEW v, Heard(t, v, j), NEW u, u = IF v.bound = "none" THEN BindJob(v, j) ELSE v
  PROVE  /\ OpenInv(u) /\ Bound(v, u, j) /\ DelayIsOver(u) /\ ResumedFirst(u)
         /\ (j = "alt" /\ t.scenario.prompt /\ t.job["main"] = "waiting") \/ ResumeIsProper(u)
<1> USE DEF Jobs
<1>1. RunsAs(t, q, j) /\ CoreInv(q) /\ KindIsProper(t) /\ DelayIsOver(t)
  BY DEF Handles
<1>2. t.result[j] # "none"
  BY DEF Handles, Results, Successes, Errors
<1>3. Bound(v, u, j)
  BY <1>1, BoundFields
<1>4. OpenInv(u) /\ u.request = "live"
  BY <1>1, <1>2, <1>3, BoundInv
<1>5. DelayIsOver(u)
  BY <1>1, <1>3 DEF DelayIsOver, Bound, Heard, SameDelay, OnlyJob
<1>6. ResumedFirst(u)
  BY <1>3 DEF ResumedFirst, Bound, Heard
<1>7. (j = "alt" /\ t.scenario.prompt /\ t.job["main"] = "waiting") \/ ResumeIsProper(u)
  <2>1. \A x \in {"resume"} : x \in Pending(u) => x \in Pending(q)
    BY <1>1, <1>3 DEF Bound, Heard, RunsAs, Pending
  <2>2. u.later = q.later /\ u.scenario = q.scenario /\ q.scenario = t.scenario
    BY <1>1, <1>3 DEF Bound, Heard, RunsAs, SameDelay, SameRequest
  <2>3. CASE j = "main"
    BY <1>1, <2>1, <2>2, <2>3 DEF CoreInv, WaitingIsProper, RunsAs, ResumeIsProper
  <2>4. CASE j = "alt"
    <3>1. q.job["main"] = t.job["main"]
      BY <1>1, <2>4 DEF RunsAs, OnlyJob
    <3> QED BY <1>1, <2>1, <2>2, <2>4, <3>1 DEF CoreInv, WaitingIsProper, ResumeIsProper
  <2> QED BY <2>3, <2>4
<1> QED BY <1>3, <1>4, <1>5, <1>6, <1>7

\* The consumer hears of the job j.
LEMMA TellHandled ==
  ASSUME NEW t, NEW q, NEW j \in Jobs, Handles(t, q, j), ~ IsJobOrphaned(t, j), AnswersInv,
         NEW v, Heard(t, v, j), NEW u, u = IF v.bound = "none" THEN BindJob(v, j) ELSE v,
         NEW a \in Told, Tell(u, a), a = "auth" <=> t.result[j] = "auth",
         a = "auth" /\ j = "alt" => t.job["main"] # "waiting"
  PROVE  /\ ControllerInv(c') /\ AnswersInv' /\ Keeps(v, c')
         /\ answers' # << >> /\ answers'[Len(answers')] = a
         /\ \/ c'.job["alt"] = "none"
            \/ c'.job["alt"] = v.job["alt"] /\ c'.result["alt"] = v.result["alt"]
<1> USE DEF Jobs
<1>1. /\ OpenInv(u) /\ Bound(v, u, j) /\ DelayIsOver(u) /\ ResumedFirst(u)
      /\ (j = "alt" /\ t.scenario.prompt /\ t.job["main"] = "waiting") \/ ResumeIsProper(u)
  BY BoundHandled
<1>2. u.request = "live" /\ u.scenario = c.scenario /\ u.scenario = t.scenario
  BY <1>1 DEF Bound, Heard, Handles, IsJobOrphaned
<1>3. (u.scenario.prompt /\ a # "auth") \/ ResumeIsProper(u)
  BY <1>1, <1>2
<1>4. ASSUME a # "auth" PROVE Quiet(u)
  <2>1. ~ u.in_map /\ ~ u.resolving /\ "notify" \notin Pending(u)
    BY <1>1 DEF Bound, Heard, Handles, Pending
  <2>2. u.job_bound /\ u.bound = j
    BY <1>1 DEF Bound
  <2>3. u.job[j] = "bound" /\ u.result[j] # "auth"
    BY <1>1, <1>4 DEF Bound, Heard
  <2> QED BY <2>1, <2>2, <2>3 DEF Quiet, IsJobOrphaned
<1>5. ~ Answered
  BY NotAnswered
<1>6. ControllerInv(c') /\ AnswersInv' /\ Left(u, c') /\ answers' = Append(answers, a)
  BY <1>1, <1>2, <1>3, <1>4, <1>5, TellInv
<1>7. answers' # << >> /\ answers'[Len(answers')] = a
  <2>1. answers \in Seq(Told) /\ AnsweredOnce
    BY DEF AnswersInv, Told
  <2> QED BY <1>5, <1>6, <2>1, ToldOnce
<1>8. Keeps(v, c')
  BY <1>1, <1>6 DEF Keeps, Left, Bound, Heard, Handles
<1>9. \/ c'.job["alt"] = "none"
      \/ c'.job["alt"] = v.job["alt"] /\ c'.result["alt"] = v.result["alt"]
  BY <1>1, <1>6 DEF Left, Bound
<1> QED BY <1>6, <1>7, <1>8, <1>9

\* One of two jobs fails before any is bound.
LEMMA FirstFailureHandled ==
  ASSUME NEW t, NEW q, NEW j \in Jobs, Handles(t, q, j), ~ IsJobOrphaned(t, j), AnswersInv,
         IsReleased(t, j), t.bound = "none", c' = Reset(t, j), answers' = answers
  PROVE  /\ ControllerInv(c') /\ AnswersInv' /\ Keeps(t, c')
         /\ c'.job["alt"] = "none" \/ (/\ j = "main" /\ c'.job["alt"] = c.job["alt"]
                                       /\ c'.result["alt"] = c.result["alt"])
<1> USE DEF Jobs
<1>1. RunsAs(t, q, j) /\ CoreInv(q) /\ DelayIsOver(t) /\ t.bound # j
  BY DEF Handles
<1>2. /\ OpenInv(c') /\ ResumeIsProper(c') /\ SameRequest(t, c') /\ SameDelay(t, c')
      /\ OnlyJob(t, c', j) /\ c'.job[j] = "none" /\ c'.result[j] = "none"
  BY <1>1, ResetInv DEF IsReleased
<1>3. c'.request = "live"
  BY <1>2 DEF SameRequest, IsJobOrphaned
<1>4. CoreInv(c')
  BY <1>2, <1>3, OpenIsCore
<1>5. DelayIsOver(c')
  BY <1>1, <1>2 DEF DelayIsOver, SameDelay, OnlyJob
<1>6. ResumedFirst(c')
  BY <1>2 DEF ResumedFirst, OnlyJob
<1>7. Keeps(t, c')
  BY <1>2 DEF Keeps, SameRequest, Handles
<1>8. ~ Answered
  BY NotAnswered
<1>9. AnswersInv'
  BY <1>7, <1>8, AnswersKept DEF Keeps
<1>10. c'.job["alt"] = "none" \/ (/\ j = "main" /\ c'.job["alt"] = c.job["alt"]
                                  /\ c'.result["alt"] = c.result["alt"])
  BY <1>2 DEF OnlyJob, Handles
<1> QED BY <1>4, <1>5, <1>6, <1>7, <1>9, <1>10 DEF ControllerInv

\* A finished attempt, with no job and nothing bound.
Cleared(s) ==
    [s EXCEPT !.in_map = FALSE, !.job_bound = FALSE, !.bound = "none",
              !.later = FALSE, !.resumed = FALSE, !.blocked = FALSE]

\* An attempt that left no delay is abandoned without a trace.
LEMMA AbandonedInv ==
  ASSUME NEW s, OpenInv(s), s.request = "live", s.started, ~ s.resolving, ~ s.wait,
         "notify" \notin Pending(s), NEW u, u = AbandonJobs(s)
  PROVE  /\ CoreInv(u) /\ Fresh(u) /\ u.started /\ u.alive /\ "notify" \notin Pending(u)
         /\ u.request = "live" /\ ~ u.resolving /\ u.scenario = s.scenario
         /\ u.proxy = s.proxy /\ u.resolves = s.resolves
<1> USE DEF Jobs
<1>1. PICK a, b, d : a = Reset(s, "alt") /\ b = Reset(a, "main") /\ d = Cancelled(b, "resume")
  OBVIOUS
<1>2. Typed(s)
  BY DEF OpenInv
<1>3. /\ Typed(a) /\ SameRequest(s, a) /\ SameDelay(s, a) /\ OnlyJob(s, a, "alt")
      /\ a.job["alt"] = "none" /\ a.result["alt"] = "none"
      /\ Pending(a) = Pending(s) \ {"alt"}
  BY <1>1, <1>2, ResetFields
<1>4. /\ Typed(b) /\ SameRequest(a, b) /\ SameDelay(a, b) /\ OnlyJob(a, b, "main")
      /\ b.job["main"] = "none" /\ b.result["main"] = "none"
      /\ Pending(b) = Pending(a) \ {"main"}
  BY <1>1, <1>3, ResetFields
<1>5. Typed(d) /\ OnlyTasks(b, d) /\ Pending(d) = Pending(b) \ {"resume"}
  BY <1>1, <1>4, CancelledFields
<1>6. /\ SameRequest(s, d) /\ ~ d.wait
      /\ \A j \in Jobs : d.job[j] = "none" /\ d.result[j] = "none"
      /\ \A x : x \in Pending(d) <=> (x \in Pending(s) /\ x \notin {"main", "alt", "resume"})
  BY <1>3, <1>4, <1>5 DEF OnlyTasks, SameRequest, SameDelay, OnlyJob
<1>7. u = Cleared(d)
  BY <1>1 DEF AbandonJobs, Cleared
<1>8. d \in Controller /\ Distinct(d.tasks)
  BY <1>5 DEF Typed
<1>9. PICK f \in BOOLEAN, n \in Jobs \cup {"none"} : f = FALSE /\ n = "none"
  OBVIOUS
<1>10. [d EXCEPT !.in_map = f, !.job_bound = f, !.bound = n,
                 !.later = f, !.resumed = f, !.blocked = f] \in Controller
  BY <1>8, ZenonT(40) DEF Controller
<1>11. u \in Controller
  BY <1>7, <1>9, <1>10, Zenon DEF Cleared
<1>12. /\ ~ u.in_map /\ ~ u.job_bound /\ u.bound = "none"
       /\ ~ u.later /\ ~ u.resumed /\ ~ u.blocked
       /\ u.tasks = d.tasks /\ u.job = d.job /\ u.result = d.result /\ u.wait = d.wait
       /\ u.request = d.request /\ u.preconnect = d.preconnect
       /\ u.started = d.started /\ u.alive = d.alive
       /\ u.resolving = d.resolving /\ u.resolves = d.resolves
       /\ u.proxy = d.proxy /\ u.kind = d.kind /\ u.service = d.service
       /\ u.net_error = d.net_error /\ u.scenario = d.scenario
  BY <1>7, <1>8 DEF Cleared, Controller
<1>13. Pending(u) = Pending(d) /\ Distinct(u.tasks)
  BY <1>8, <1>12 DEF Pending
<1> HIDE <1>7, <1>1, <1>10
<1> USE <1>6, <1>12, <1>13 DEF SameRequest, OpenInv
<1>14. Fresh(u)
  BY DEF Fresh
<1>15. Typed(u) /\ ResultsHaveTasks(u)
  BY <1>11 DEF Typed, ResultsHaveTasks
<1>16. AttemptsAreProper(u)
  BY <1>14 DEF AttemptsAreProper
<1>17. PreconnectsAreSimple(u) /\ BoundIsProper(u)
  BY DEF PreconnectsAreSimple, BoundIsProper
<1>18. WaitingIsProper(u) /\ KindIsProper(u) /\ EndIsProper(u)
  BY DEF WaitingIsProper, KindIsProper, EndIsProper
<1>19. CoreInv(u)
  BY <1>15, <1>16, <1>17, <1>18 DEF CoreInv
<1> QED BY <1>14, <1>19

\* Another proxy is tried, or proxies are resolved again.
LEMMA ReconsideredInv ==
  ASSUME NEW s, OpenInv(s), s.request = "live", s.started, ~ s.resolving, ~ s.wait,
         "notify" \notin Pending(s), s.scenario = c.scenario, s.proxy >= 1,
         NEW r, NEW u \in Reconsidered(s, r)
  PROVE  ControllerInv(u) /\ u.started /\ u.scenario = c.scenario /\ ~ OneAttempt
<1>1. PICK t : t = AbandonJobs(s)
  OBVIOUS
<1>2. /\ CoreInv(t) /\ Fresh(t) /\ t.started /\ t.alive /\ "notify" \notin Pending(t)
      /\ t.request = "live" /\ ~ t.resolving /\ t.scenario = s.scenario
      /\ t.proxy = s.proxy /\ t.resolves = s.resolves
  BY <1>1, AbandonedInv
<1>3. t \in Controller /\ t.proxy \in Nat /\ t.resolves \in Nat
  BY <1>2 DEF CoreInv, Typed, Controller
<1>4. \/ s.proxy < Len(Proxies) /\ u \in CreateJobs([t EXCEPT !.proxy = @ + 1])
      \/ /\ s.resolves < s.scenario.max_resolves
         /\ u = [t EXCEPT !.resolving = TRUE, !.resolves = @ + 1]
  BY <1>1, Zenon DEF Reconsidered
<1>5. ~ OneAttempt
  <2>1. s.proxy < Len(Proxies) \/ s.resolves < c.scenario.max_resolves
    BY <1>4, Zenon
  <2>2. s.proxy \in Nat /\ s.resolves \in Nat
    BY <1>2, <1>3
  <2> SUFFICES ASSUME OneAttempt PROVE FALSE
    OBVIOUS
  <2>3. s.proxy < 1 \/ s.resolves < 0
    BY <2>1, Zenon DEF OneAttempt
  <2>4. PICK x \in Nat, y \in Nat : x = s.proxy /\ y = s.resolves
    BY <2>2, Zenon
  <2>5. (x < 1 \/ y < 0) /\ x >= 1
    BY <2>3, <2>4, Zenon
  <2> QED BY <2>5
<1>6. PICK n \in Nat : n = t.proxy + 1 /\ n >= 1
  <2>1. PICK x \in Nat : x = t.proxy
    BY <1>3, Zenon
  <2>2. x + 1 \in Nat /\ x + 1 >= 1
    OBVIOUS
  <2> QED BY <2>1, <2>2, Zenon
<1>7. PICK m \in Nat, b \in BOOLEAN, d \in BOOLEAN :
         m = t.resolves + 1 /\ b = FALSE /\ d = TRUE
  <2>1. PICK x \in Nat : x = t.resolves
    BY <1>3, Zenon
  <2>2. x + 1 \in Nat
    OBVIOUS
  <2> QED BY <2>1, <2>2, Zenon
<1>8. CASE u \in CreateJobs([t EXCEPT !.proxy = @ + 1])
  <2>1. PICK v : v = Resolved(t, b, n, t.resolves)
    OBVIOUS
  <2>2. /\ CoreInv(v) /\ Fresh(v) /\ v.started /\ v.alive /\ Pending(v) = Pending(t)
        /\ v.request = t.request /\ v.scenario = t.scenario
        /\ v.resolving = b /\ v.proxy = n
    BY <1>2, <1>3, <2>1, ResolvedInv
  <2>3. Ready(v)
    BY <1>2, <1>6, <1>7, <2>2 DEF Ready
  <2>4. t.resolving = b
    BY <1>2, <1>3, <1>7 DEF Controller
  <2>5. v = [t EXCEPT !.proxy = @ + 1]
    <3>1. v = [t EXCEPT !.proxy = n]
      BY <1>3, <2>1, <2>4 DEF Resolved, Controller
    <3> QED BY <1>6, <3>1, Zenon
  <2>6. u \in CreateJobs(v)
    BY <1>8, <2>5
  <2> HIDE <2>5
  <2>7. ControllerInv(u) /\ SameAttempt(v, u)
    BY <2>3, <2>6, CreateJobsInv
  <2> QED BY <1>2, <1>5, <2>2, <2>7 DEF SameAttempt
<1>9. CASE u = [t EXCEPT !.resolving = TRUE, !.resolves = @ + 1]
  <2>1. u = Resolved(t, d, t.proxy, m)
    BY <1>3, <1>7, <1>9 DEF Resolved, Controller
  <2> HIDE <1>9
  <2>2. /\ CoreInv(u) /\ u.started /\ u.scenario = t.scenario
        /\ DelayIsOver(u) /\ ResumedFirst(u)
    BY <1>2, <1>3, <2>1, ResolvedInv
  <2> QED BY <1>2, <1>5, <2>2 DEF ControllerInv
<1> QED BY <1>4, <1>8, <1>9

\* A handled result that neither reports nor forgets a failure.
LEMMA ReportsHandled ==
  ASSUME ReportsInv, UNCHANGED <<failed, marked>>,
         broken' = broken \/ broken' \subseteq {"none", "quic", "h2", "proxy"},
         NEW t, Keeps(t, c'), t.net_error = c.net_error,
         \/ c'.job["alt"] = "none"
         \/ c'.job["alt"] = c.job["alt"] /\ c'.result["alt"] = c.result["alt"]
         \/ OneAttempt => c.net_error = "OK",
         \/ answers' = answers
         \/ answers' # << >> /\ answers'[Len(answers')] # "main"
  PROVE  ReportsInv'
<1>1. c'.scenario = c.scenario /\ c'.net_error = c.net_error
  BY DEF Keeps
<1>2. OneAttempt /\ c.net_error # "OK" =>
             /\ c'.service = c.service /\ ~ c'.resolving /\ c'.started
             /\ \/ c'.job["alt"] = "none"
                \/ c'.job["alt"] = "bound" /\ c'.result["alt"] # "auth"
  BY DEF Keeps, ReportsInv
<1> QED BY <1>1, <1>2, ReportsKept

\* OnPreconnectsComplete.
LEMMA PreconnectTaskPreserves ==
  ASSUME Inv, NEW j \in Jobs, Next1(j), c.preconnect,
         c' = MaybeNotifyFactoryOfCompletion(Reset(Ran(c), j)),
         UNCHANGED <<broken, answers, failed, marked>>
  PROVE  Inv'
<1>1. ControllerInv(c) /\ AnswersInv /\ ReportsInv
  BY DEF Inv
<1>2. PICK s, p : s = Ran(c) /\ p = Running(s, j)
  OBVIOUS
<1>3. TaskRuns(s, p, j)
  BY <1>1, <1>2, JobTaskFields
<1>4. Handles(s, p, j) /\ s.preconnect
  BY <1>3, TaskHandles DEF Handles
<1>5. c' = OnOrphanedJobComplete(s, j)
  BY <1>2 DEF OnOrphanedJobComplete
<1>6. /\ ControllerInv(c') /\ AnswersInv' /\ Keeps(s, c')
      /\ c'.job["alt"] = "none" \/ (/\ j = "main" /\ c'.job["alt"] = c.job["alt"]
                                    /\ c'.result["alt"] = c.result["alt"])
  BY <1>1, <1>4, <1>5, OrphanHandled
<1>7. s.net_error = c.net_error
  BY <1>3 DEF TaskRuns, OnlyTasks, SameRequest
<1>8. ReportsInv'
  BY <1>1, <1>6, <1>7, ReportsHandled
<1> QED BY <1>6, <1>8 DEF Inv

\* The main job has served the request: an alternative that failed is reported.
LEMMA MainReports ==
  ASSUME ReportsInv, c \in Controller, NEW s, s.net_error = c.net_error, s.service = c.service,
         ReportIfMain(s, "main"), failed' = failed, c'.scenario = c.scenario,
         c'.net_error = "OK"
  PROVE  ReportsInv'
<1>1. OneAttempt' <=> OneAttempt
  BY DEF OneAttempt, Proxies
<1>2. c.service \in {"none", "quic", "h2"} /\ c.net_error \in {"OK", "error", "network"}
  BY DEF Controller
<1>3. \/ /\ c.net_error = "error" /\ marked' = marked \cup {c.service}
         /\ broken' = broken \cup {c.service}
      \/ c.net_error \in {"OK", "network"} /\ marked' = marked /\ broken' = broken
  BY <1>2 DEF ReportIfMain, ReportBroken
<1>4. /\ broken' \subseteq {"none", "quic", "h2", "proxy"}
      /\ failed' \subseteq {"quic", "h2"} /\ marked' \subseteq {"none", "quic", "h2"}
  BY <1>2, <1>3 DEF ReportsInv
<1>5. OneAttempt => marked' \subseteq failed' /\ \A k \in failed' : k \in marked'
  BY <1>3 DEF ReportsInv
<1> QED BY <1>1, <1>4, <1>5 DEF ReportsInv

\* OnStreamReady and OnNewSpdySessionReady.
LEMMA ReadyTaskPreserves ==
  ASSUME Inv, NEW j \in Jobs, Next1(j), c.result[j] \in Successes,
         OnStreamReady(Ran(c), j), failed' = failed
  PROVE  Inv'
<1> USE DEF Jobs
<1>1. ControllerInv(c) /\ AnswersInv /\ ReportsInv /\ c \in Controller
  BY DEF Inv, ControllerInv, CoreInv, Typed
<1>2. PICK s, p : s = Ran(c) /\ p = Running(s, j)
  OBVIOUS
<1>3. TaskRuns(s, p, j)
  BY <1>1, <1>2, JobTaskFields
<1>4. Handles(s, p, j)
  BY <1>3, TaskHandles
<1>5. s.net_error = c.net_error /\ s.service = c.service /\ s.bound = c.bound
      /\ s.result = c.result /\ c.job[j] = "done"
  BY <1>3 DEF TaskRuns, OnlyTasks, SameRequest
<1>6. OnStreamReady(s, j)
  BY <1>2
<1> HIDE <1>2
<1>7. CASE IsJobOrphaned(s, j)
  <2>1. c' = OnOrphanedJobComplete(s, j) /\ UNCHANGED <<answers, marked, broken>>
    BY <1>6, <1>7 DEF OnStreamReady
  <2>2. /\ ControllerInv(c') /\ AnswersInv' /\ Keeps(s, c')
        /\ c'.job["alt"] = "none" \/ (/\ j = "main" /\ c'.job["alt"] = c.job["alt"]
                                      /\ c'.result["alt"] = c.result["alt"])
    BY <1>1, <1>4, <1>7, <2>1, OrphanHandled
  <2>3. ReportsInv'
    BY <1>1, <1>5, <2>1, <2>2, ReportsHandled
  <2> QED BY <2>2, <2>3 DEF Inv
<1>8. CASE ~ IsJobOrphaned(s, j)
  <2>1. PICK e : e = IF j = "main" THEN "OK" ELSE s.net_error
    OBVIOUS
  <2>2. e \in {"OK", "error", "network"}
    BY <1>1, <1>5, <2>1 DEF Controller
  <2>3. PICK v : v = HeardAs(s, e, j)
    OBVIOUS
  <2>4. Heard(s, v, j) /\ v.net_error = e
    BY <1>4, <2>2, <2>3, HeardFields DEF Handles, RunsAs
  <2>5. v.bound = s.bound
    BY <2>4 DEF Heard
  <2>6. PICK u : u = IF v.bound = "none" THEN BindJob(v, j) ELSE v
    OBVIOUS
  <2>7. ReportIfMain(s, j) /\ Tell(u, j)
    BY <1>6, <1>8, <2>1, <2>3, <2>5, <2>6 DEF OnStreamReady, HeardAs
  <2> HIDE <2>1, <2>3
  <2>8. /\ j \in Told /\ j # "auth" /\ s.result[j] # "auth"
    BY <1>5 DEF Told, Successes
  <2>9. PICK a \in Told : a = j
    BY <2>8
  <2>10. Tell(u, a) /\ (a = "auth" <=> s.result[j] = "auth") /\ a # "auth"
    BY <2>7, <2>8, <2>9
  <2>11. /\ ControllerInv(c') /\ AnswersInv' /\ Keeps(v, c')
         /\ answers' # << >> /\ answers'[Len(answers')] = a
         /\ \/ c'.job["alt"] = "none"
            \/ c'.job["alt"] = v.job["alt"] /\ c'.result["alt"] = v.result["alt"]
    BY <1>1, <1>4, <1>8, <2>4, <2>6, <2>10, TellHandled
  <2>12. CASE j = "main"
    <3>1. c'.net_error = "OK" /\ c'.scenario = c.scenario
      BY <2>1, <2>4, <2>11, <2>12 DEF Keeps
    <3>2. ReportsInv'
      BY <1>1, <1>5, <2>7, <2>12, <3>1, MainReports
    <3> QED BY <2>11, <3>2 DEF Inv
  <2>13. CASE j = "alt"
    <3>1. UNCHANGED <<marked, broken>>
      BY <2>7, <2>13 DEF ReportIfMain
    <3>2. v.net_error = c.net_error
      BY <1>5, <2>1, <2>4, <2>13
    <3>3. OneAttempt => c.net_error = "OK"
      BY <1>1, <1>5, <2>13 DEF ReportsInv
    <3>4. ReportsInv'
      BY <1>1, <2>9, <2>11, <2>13, <3>1, <3>2, <3>3, ReportsHandled
    <3> QED BY <2>11, <3>4 DEF Inv
  <2> QED BY <2>12, <2>13
<1> QED BY <1>7, <1>8

\* The error is left as it is.
LEMMA HeardSame ==
  ASSUME NEW t, Typed(t), NEW j \in Jobs, NEW v, v = [t EXCEPT !.job[j] = "bound"]
  PROVE  Heard(t, v, j) /\ v.net_error = t.net_error
<1>1. t \in Controller
  BY DEF Typed
<1>2. t.net_error \in {"OK", "error", "network"}
  BY <1>1 DEF Controller
<1>3. v = HeardAs(t, t.net_error, j)
  BY <1>1 DEF HeardAs, Controller
<1> HIDE <1>1
<1> QED BY <1>2, <1>3, HeardFields

\* OnCertificateError, OnNeedsClientAuth, OnHttpsProxyTunnelResponse and
\* OnNeedsProxyAuth.
LEMMA ConsumerTaskPreserves ==
  ASSUME Inv, NEW j \in Jobs, Next1(j), c.result[j] \notin Successes \cup Errors,
         OnNeedsConsumer(Ran(c), j, c.result[j]), failed' = failed
  PROVE  Inv'
<1> USE DEF Jobs
<1>1. ControllerInv(c) /\ AnswersInv /\ ReportsInv
  BY DEF Inv
<1>2. PICK s, p : s = Ran(c) /\ p = Running(s, j)
  OBVIOUS
<1>3. TaskRuns(s, p, j)
  BY <1>1, <1>2, JobTaskFields
<1>4. Handles(s, Running(s, j), j)
  BY <1>2, <1>3, TaskHandles
<1>5. PICK t, q : t = MaybeResumeMainJob(s, j, FALSE) /\ q = Running(t, j)
  OBVIOUS
<1>6. Handles(t, q, j) /\ t.net_error = s.net_error
  BY <1>4, <1>5, ReleasedHandles
<1>7. PICK v : v = [t EXCEPT !.job[j] = "bound"]
  OBVIOUS
<1>8. Heard(t, v, j) /\ v.net_error = t.net_error
  BY <1>6, <1>7, HeardSame DEF Handles, RunsAs
<1>9. PICK r : r = c.result[j]
  OBVIOUS
<1>10. PICK u : u = IF v.bound = "none" THEN BindJob(v, j) ELSE v
  OBVIOUS
<1>11. v.bound = t.bound
  BY <1>8 DEF Heard
<1>12. /\ \/ /\ IsJobOrphaned(t, j) /\ c' = OnOrphanedJobComplete(t, j)
             /\ answers' = answers
          \/ ~ IsJobOrphaned(t, j) /\ Tell(u, r)
       /\ UNCHANGED <<broken, marked>>
  BY <1>2, <1>5, <1>7, <1>9, <1>10, <1>11 DEF OnNeedsConsumer
<1> HIDE <1>2, <1>5, <1>7
<1>13. t.result[j] = r /\ r \in {"cert", "client", "tunnel", "auth"}
  BY <1>6, <1>9 DEF Handles, Results
<1>14. t.net_error = c.net_error /\ c.job[j] = "done"
  BY <1>3, <1>6 DEF TaskRuns, OnlyTasks, SameRequest
<1>15. CASE IsJobOrphaned(t, j)
  <2>1. c' = OnOrphanedJobComplete(t, j) /\ answers' = answers
    BY <1>12, <1>15
  <2>2. /\ ControllerInv(c') /\ AnswersInv' /\ Keeps(t, c')
        /\ c'.job["alt"] = "none" \/ (/\ j = "main" /\ c'.job["alt"] = c.job["alt"]
                                      /\ c'.result["alt"] = c.result["alt"])
    BY <1>1, <1>6, <1>15, <2>1, OrphanHandled
  <2>3. ReportsInv'
    BY <1>1, <1>12, <1>14, <2>1, <2>2, ReportsHandled
  <2> QED BY <2>2, <2>3 DEF Inv
<1>16. CASE ~ IsJobOrphaned(t, j)
  <2>1. Tell(u, r) /\ r \in Told
    BY <1>12, <1>13, <1>16 DEF Told
  <2>2. r = "auth" /\ j = "alt" => t.job["main"] # "waiting"
    BY <1>3, <1>6, <1>13 DEF TaskRuns, Handles, OnlyTasks
  <2>3. r = "auth" <=> t.result[j] = "auth"
    BY <1>13
  <2>4. /\ ControllerInv(c') /\ AnswersInv' /\ Keeps(v, c')
        /\ answers' # << >> /\ answers'[Len(answers')] = r
        /\ \/ c'.job["alt"] = "none"
           \/ c'.job["alt"] = v.job["alt"] /\ c'.result["alt"] = v.result["alt"]
    BY <1>1, <1>6, <1>8, <1>10, <1>16, <2>1, <2>2, <2>3, TellHandled
  <2>5. \/ c'.job["alt"] = "none"
        \/ c'.job["alt"] = c.job["alt"] /\ c'.result["alt"] = c.result["alt"]
        \/ OneAttempt => c.net_error = "OK"
    <3>1. CASE j = "main"
      BY <1>6, <1>8, <2>4, <3>1 DEF Heard, OnlyJob, Handles
    <3>2. CASE j = "alt"
      BY <1>1, <1>14, <3>2 DEF ReportsInv
    <3> QED BY <3>1, <3>2
  <2>6. v.net_error = c.net_error /\ answers'[Len(answers')] # "main"
    BY <1>8, <1>13, <1>14, <2>4
  <2>7. ReportsInv'
    BY <1>1, <1>12, <2>4, <2>5, <2>6, ReportsHandled
  <2> QED BY <2>4, <2>7 DEF Inv
<1> QED BY <1>15, <1>16

\* What is known of an alternative service whose job fails.
LEMMA AlternativeReports ==
  ASSUME ReportsInv, c \in Controller, NEW s, NEW r \in Errors, AlternativeFailed(s, r),
         s.kind = c.kind, s.service = c.service, s.net_error = c.net_error,
         c.kind # "proxy" => c.service = c.kind /\ c.kind # "none",
         OneAttempt => c.net_error = "OK", c'.scenario = c.scenario,
         OneAttempt => /\ c'.service = c.service /\ c'.started /\ ~ c'.resolving
                       /\ c'.net_error = AfterAlternativeFailed(s, r).net_error
                       /\ \/ c'.job["alt"] = "none"
                          \/ c'.job["alt"] = "bound" /\ c'.result["alt"] # "auth",
         s \in Controller,
         OneAttempt /\ answers' # << >> /\ answers'[Len(answers')] = "main" =>
             answers' = answers /\ IsJobOrphaned(s, "alt")
  PROVE  ReportsInv'
<1>1. OneAttempt' <=> OneAttempt
  BY DEF OneAttempt, Proxies
<1>2. c.service \in {"none", "quic", "h2"} /\ c.kind \in {"none", "quic", "h2", "proxy"}
  BY DEF Controller
<1>3. PICK o \in BOOLEAN : o <=> IsJobOrphaned(s, "alt")
  BY DEF IsJobOrphaned
<1>4. PICK e : e = NetError(r)
  OBVIOUS
<1>5. /\ r = "network" => e = "network"
      /\ r # "network" => e = "error"
  BY <1>4 DEF NetError
<1>6. AfterAlternativeFailed(s, r).net_error =
        IF c.kind = "proxy" THEN c.net_error ELSE IF o THEN "OK" ELSE e
  <2>1. PICK x : x = IF s.kind = "proxy" THEN s.net_error
                     ELSE IF IsJobOrphaned(s, "alt") THEN "OK" ELSE NetError(r)
    OBVIOUS
  <2>2. AfterAlternativeFailed(s, r) = WithError(s, x)
    BY <2>1 DEF AfterAlternativeFailed, WithError
  <2>3. WithError(s, x).net_error = x
    BY DEF WithError, Controller
  <2> QED BY <1>3, <1>4, <2>1, <2>2, <2>3
<1>7. CASE c.kind = "proxy"
  <2>1. broken' \subseteq {"none", "quic", "h2", "proxy"} /\ UNCHANGED <<marked, failed>>
    BY <1>7 DEF AlternativeFailed, ReportsInv
  <2>2. OneAttempt => c'.net_error = "OK"
    BY <1>6, <1>7
  <2> QED BY <1>1, <2>1, <2>2 DEF ReportsInv
<1>8. CASE c.kind # "proxy"
  <2>1. c.kind \in {"quic", "h2"} /\ c.service = c.kind
    BY <1>2, <1>8
  <2>2. failed' = IF r = "network" THEN failed ELSE failed \cup {c.kind}
    BY <1>8 DEF AlternativeFailed
  <2>3. CASE o
    <3>1. ReportBroken([s EXCEPT !.net_error = NetError(r)])
      BY <1>3, <1>8, <2>3 DEF AlternativeFailed
    <3>2. PICK y : y = WithError(s, e)
      OBVIOUS
    <3>3. y.net_error = e /\ y.service = c.service /\ ReportBroken(y)
      BY <1>4, <3>1, <3>2 DEF WithError, Controller
    <3>4. /\ marked' = IF r = "network" THEN marked ELSE marked \cup {c.kind}
          /\ broken' = IF r = "network" THEN broken ELSE broken \cup {c.kind}
      BY <1>5, <2>1, <3>3 DEF ReportBroken
    <3>5. /\ broken' \subseteq {"none", "quic", "h2", "proxy"}
          /\ failed' \subseteq {"quic", "h2"} /\ marked' \subseteq {"none", "quic", "h2"}
      BY <2>1, <2>2, <3>4 DEF ReportsInv
    <3>6. OneAttempt => /\ marked' \subseteq failed' /\ failed' \subseteq marked'
                        /\ c'.net_error = "OK"
      BY <1>6, <1>8, <2>2, <2>3, <3>4 DEF ReportsInv
    <3> QED BY <1>1, <3>5, <3>6 DEF ReportsInv
  <2>4. CASE ~ o
    <3>1. UNCHANGED <<marked, broken>>
      BY <1>3, <1>8, <2>4 DEF AlternativeFailed
    <3>2. /\ broken' \subseteq {"none", "quic", "h2", "proxy"}
          /\ failed' \subseteq {"quic", "h2"} /\ marked' \subseteq {"none", "quic", "h2"}
      BY <2>1, <2>2, <3>1 DEF ReportsInv
    <3>3. OneAttempt => /\ c'.net_error = e /\ c'.service = c.kind
                        /\ marked \subseteq failed /\ failed \subseteq marked
      BY <1>6, <1>8, <2>1, <2>4 DEF ReportsInv
    <3>4. ~ (OneAttempt /\ answers' # << >> /\ answers'[Len(answers')] = "main")
      BY <1>3, <2>4
    <3>5. OneAttempt => /\ marked' \subseteq failed'
                        /\ \A k \in failed' :
                             k \in marked' \/ (c'.net_error = "error" /\ k = c'.service)
                        /\ c'.net_error = "error" => c'.service \in failed'
      BY <1>5, <2>2, <3>1, <3>3
    <3> QED BY <1>1, <3>2, <3>3, <3>4, <3>5 DEF ReportsInv
  <2> QED BY <2>3, <2>4
<1> QED BY <1>7, <1>8

\* The last job fails: another proxy is tried, or the consumer is told.
LEMMA LastFailureHandled ==
  ASSUME NEW t, NEW q, NEW j \in Jobs, Handles(t, q, j), ~ IsJobOrphaned(t, j), AnswersInv,
         NEW r \in Errors, t.result[j] = r, LastJobFailed(t, j, r)
  PROVE  /\ ControllerInv(c') /\ AnswersInv' /\ c'.started /\ c'.scenario = c.scenario
         /\ OneAttempt =>
              /\ Keeps(t, c') /\ answers' # << >> /\ answers'[Len(answers')] = "failed"
              /\ \/ c'.job["alt"] = "none"
                 \/ /\ j = "main" /\ c'.job["alt"] = c.job["alt"]
                    /\ c'.result["alt"] = c.result["alt"]
                 \/ j = "alt" /\ c'.job["alt"] = "bound" /\ c'.result["alt"] # "auth"
<1> USE DEF Jobs
<1>1. PICK v : v = [t EXCEPT !.job[j] = "bound"]
  OBVIOUS
<1>2. Heard(t, v, j) /\ v.net_error = t.net_error
  BY <1>1, HeardSame DEF Handles, RunsAs
<1>3. PICK u : u = IF v.bound = "none" THEN BindJob(v, j) ELSE v
  OBVIOUS
<1>4. /\ Reconsidered(u, r) # {} => c' \in Reconsidered(u, r) /\ answers' = answers
      /\ Reconsidered(u, r) = {} => Tell(u, "failed")
  BY <1>1, <1>3, Zenon DEF LastJobFailed
<1> HIDE <1>1
<1>5. OpenInv(u) /\ Bound(v, u, j) /\ DelayIsOver(u)
  BY <1>2, <1>3, BoundHandled
<1>6. CASE Reconsidered(u, r) # {}
  <2>1. c' \in Reconsidered(u, r) /\ answers' = answers
    BY <1>4, <1>6
  <2>2. r = "unreachable"
    BY <1>6, Zenon DEF Reconsidered
  <2>3. u.result[j] = "unreachable"
    BY <1>2, <1>5, <2>2 DEF Bound, Heard
  <2>4. ~ u.wait
    <3>1. CASE j = "main"
      BY <1>5, <2>3, <3>1 DEF DelayIsOver
    <3>2. CASE j = "alt"
      BY <1>5, <2>3, <3>2 DEF OpenInv, KindIsProper
    <3> QED BY <3>1, <3>2
  <2>5. q.proxy >= 1
    BY DEF Handles, RunsAs, CoreInv, AttemptsAreProper
  <2>6. /\ u.request = "live" /\ u.started /\ ~ u.resolving /\ "notify" \notin Pending(u)
        /\ u.scenario = c.scenario
    BY <1>2, <1>5 DEF Bound, Heard, Handles, IsJobOrphaned, Pending
  <2>7. u.proxy >= 1
    BY <1>2, <1>5, <2>5 DEF Bound, Heard, Handles, RunsAs, SameRequest
  <2>8. ControllerInv(c') /\ c'.started /\ c'.scenario = c.scenario /\ ~ OneAttempt
    BY <1>5, <2>1, <2>4, <2>6, <2>7, ReconsideredInv
  <2>9. ~ Answered
    BY NotAnswered
  <2>10. AnswersInv'
    BY <2>1, <2>8, <2>9, AnswersKept
  <2> QED BY <2>8, <2>10
<1>7. CASE Reconsidered(u, r) = {}
  <2>1. PICK a \in Told : a = "failed"
    BY DEF Told
  <2>2. Tell(u, a) /\ (a = "auth" <=> t.result[j] = "auth") /\ a # "auth"
    BY <1>4, <1>7, <2>1 DEF Errors
  <2>3. /\ ControllerInv(c') /\ AnswersInv' /\ Keeps(v, c')
        /\ answers' # << >> /\ answers'[Len(answers')] = a
        /\ \/ c'.job["alt"] = "none"
           \/ c'.job["alt"] = v.job["alt"] /\ c'.result["alt"] = v.result["alt"]
    BY <1>2, <1>3, <2>2, TellHandled
  <2>4. Keeps(t, c')
    BY <1>2, <2>3 DEF Keeps
  <2>5. \/ c'.job["alt"] = "none"
        \/ /\ j = "main" /\ c'.job["alt"] = c.job["alt"]
           /\ c'.result["alt"] = c.result["alt"]
        \/ j = "alt" /\ c'.job["alt"] = "bound" /\ c'.result["alt"] # "auth"
    <3>1. CASE j = "main"
      BY <1>2, <2>3, <3>1 DEF Heard, OnlyJob, Handles
    <3>2. CASE j = "alt"
      BY <1>2, <2>2, <2>3, <3>2 DEF Heard
    <3> QED BY <3>1, <3>2
  <2> QED BY <2>1, <2>3, <2>4, <2>5 DEF Keeps
<1> QED BY <1>6, <1>7

\* OnStreamFailed.
LEMMA FailedTaskPreserves ==
  ASSUME Inv, NEW j \in Jobs, Next1(j), c.result[j] \in Errors,
         OnStreamFailed(Ran(c), j, c.result[j])
  PROVE  Inv'
<1> USE DEF Jobs
<1>1. ControllerInv(c) /\ AnswersInv /\ ReportsInv /\ c \in Controller
  BY DEF Inv, ControllerInv, CoreInv, Typed
<1>2. PICK s, p : s = Ran(c) /\ p = Running(s, j)
  OBVIOUS
<1>3. TaskRuns(s, p, j)
  BY <1>1, <1>2, JobTaskFields
<1>4. Handles(s, Running(s, j), j)
  BY <1>2, <1>3, TaskHandles
<1>5. PICK r \in Errors : r = c.result[j]
  OBVIOUS
<1>6. PICK x : x = IF j = "alt" THEN AfterAlternativeFailed(s, r) ELSE s
  OBVIOUS
<1>7. /\ s.net_error = c.net_error /\ s.service = c.service /\ s.kind = c.kind
      /\ c.job[j] = "done" /\ s \in Controller
  BY <1>3 DEF TaskRuns, OnlyTasks, SameRequest, RunsAs, Typed
<1>8. Handles(x, Running(x, j), j)
  <2>1. CASE j = "main"
    BY <1>4, <1>6, <2>1
  <2>2. CASE j = "alt"
    <3>1. PICK e : e = IF s.kind = "proxy" THEN s.net_error
                       ELSE IF IsJobOrphaned(s, "alt") THEN "OK" ELSE NetError(r)
      OBVIOUS
    <3>2. s.net_error \in {"OK", "error", "network"}
      BY <1>1, <1>7 DEF Controller
    <3>3. NetError(r) \in {"OK", "error", "network"}
      BY DEF NetError
    <3>4. e \in {"OK", "error", "network"}
      BY <3>1, <3>2, <3>3
    <3>5. x = WithError(s, e)
      BY <1>6, <2>2, <3>1 DEF WithError, AfterAlternativeFailed
    <3> QED BY <1>3, <3>4, <3>5, ErrorFields
  <2> QED BY <2>1, <2>2
<1>9. PICK t, q : t = MaybeResumeMainJob(x, j, FALSE) /\ q = Running(t, j)
  OBVIOUS
<1>10. Handles(t, q, j) /\ IsReleased(t, j) /\ t.net_error = x.net_error
  BY <1>8, <1>9, ReleasedHandles
<1>11. /\ IF j = "alt" THEN AlternativeFailed(s, r)
          ELSE UNCHANGED <<marked, broken, failed>>
       /\ IF IsJobOrphaned(t, j)
          THEN c' = OnOrphanedJobComplete(t, j) /\ UNCHANGED answers
          ELSE IF t.bound = "none" /\ \A i \in Jobs : t.job[i] # "none"
          THEN c' = Reset(t, j) /\ UNCHANGED answers
          ELSE LastJobFailed(t, j, r)
  BY <1>2, <1>5, <1>6, <1>9, Zenon DEF OnStreamFailed
<1>12. t.result[j] = r /\ r # "auth"
  BY <1>5, <1>10 DEF Handles, Errors
<1> HIDE <1>2, <1>9
<1>13. IsJobOrphaned(t, j) <=> IsJobOrphaned(s, j)
  BY <1>4, <1>10 DEF Handles, IsJobOrphaned
<1>14. /\ ControllerInv(c') /\ AnswersInv' /\ c'.started /\ c'.scenario = c.scenario
       /\ OneAttempt =>
            /\ Keeps(t, c')
            /\ \/ c'.job["alt"] = "none"
               \/ /\ j = "main" /\ c'.job["alt"] = c.job["alt"]
                  /\ c'.result["alt"] = c.result["alt"]
               \/ j = "alt" /\ c'.job["alt"] = "bound" /\ c'.result["alt"] # "auth"
            /\ \/ answers' = answers
               \/ answers' # << >> /\ answers'[Len(answers')] = "failed"
            /\ answers' = answers => IsJobOrphaned(t, j) \/ ~ Answered
  <2>1. CASE IsJobOrphaned(t, j)
    <3>1. c' = OnOrphanedJobComplete(t, j) /\ answers' = answers
      BY <1>11, <2>1
    <3>2. /\ ControllerInv(c') /\ AnswersInv' /\ Keeps(t, c')
          /\ c'.job["alt"] = "none" \/ (/\ j = "main" /\ c'.job["alt"] = c.job["alt"]
                                        /\ c'.result["alt"] = c.result["alt"])
      BY <1>1, <1>10, <2>1, <3>1, OrphanHandled
    <3> QED BY <2>1, <3>1, <3>2 DEF Keeps
  <2>2. CASE ~ IsJobOrphaned(t, j) /\ t.bound = "none" /\ \A i \in Jobs : t.job[i] # "none"
    <3>1. c' = Reset(t, j) /\ answers' = answers
      BY <1>11, <2>2
    <3>2. /\ ControllerInv(c') /\ AnswersInv' /\ Keeps(t, c')
          /\ c'.job["alt"] = "none" \/ (/\ j = "main" /\ c'.job["alt"] = c.job["alt"]
                                        /\ c'.result["alt"] = c.result["alt"])
      BY <1>1, <1>10, <2>2, <3>1, FirstFailureHandled
    <3>3. ~ Answered
      BY <1>1, <1>10, <2>2, NotAnswered
    <3> QED BY <3>1, <3>2, <3>3 DEF Keeps
  <2>3. CASE /\ ~ IsJobOrphaned(t, j)
             /\ ~ (t.bound = "none" /\ \A i \in Jobs : t.job[i] # "none")
    <3>1. LastJobFailed(t, j, r)
      BY <1>11, <2>3
    <3>2. /\ ControllerInv(c') /\ AnswersInv' /\ c'.started /\ c'.scenario = c.scenario
          /\ OneAttempt =>
               /\ Keeps(t, c') /\ answers' # << >> /\ answers'[Len(answers')] = "failed"
               /\ \/ c'.job["alt"] = "none"
                  \/ /\ j = "main" /\ c'.job["alt"] = c.job["alt"]
                     /\ c'.result["alt"] = c.result["alt"]
                  \/ j = "alt" /\ c'.job["alt"] = "bound" /\ c'.result["alt"] # "auth"
      BY <1>1, <1>10, <1>12, <2>3, <3>1, LastFailureHandled
    <3>3. ~ Answered
      BY <1>1, <1>10, <2>3, NotAnswered
    <3> QED BY <3>2, <3>3
  <2> QED BY <2>1, <2>2, <2>3
<1>15. ReportsInv'
  <2>1. CASE j = "main"
    <3>1. UNCHANGED <<marked, broken, failed>> /\ x = s
      BY <1>6, <1>11, <2>1
    <3>2. t.net_error = c.net_error
      BY <1>7, <1>10, <3>1
    <3>3. OneAttempt => c'.net_error = c.net_error
      BY <1>14, <3>2 DEF Keeps
    <3>4. OneAttempt /\ c.net_error # "OK" =>
             /\ c'.service = c.service /\ ~ c'.resolving /\ c'.started
             /\ \/ c'.job["alt"] = "none"
                \/ c'.job["alt"] = "bound" /\ c'.result["alt"] # "auth"
      BY <1>1, <1>14, <2>1 DEF Keeps, ReportsInv
    <3>5. OneAttempt => \/ answers' = answers
                        \/ answers' # << >> /\ answers'[Len(answers')] # "main"
      BY <1>14
    <3>6. CASE OneAttempt
      BY <1>1, <1>14, <3>1, <3>3, <3>4, <3>5, <3>6, ReportsKept
    <3>7. CASE ~ OneAttempt
      <4>1. ~ OneAttempt'
        BY <1>14, <3>7 DEF OneAttempt, Proxies
      <4> QED BY <1>1, <3>1, <4>1 DEF ReportsInv
    <3> QED BY <3>6, <3>7
  <2>2. CASE j = "alt"
    <3>1. AlternativeFailed(s, r) /\ x = AfterAlternativeFailed(s, r)
      BY <1>6, <1>11, <2>2
    <3>2. c.kind # "proxy" => c.service = c.kind /\ c.kind # "none"
      BY <1>4, <2>2 DEF Handles, KindIsProper
    <3>3. OneAttempt => c.net_error = "OK"
      BY <1>1, <1>7, <2>2 DEF ReportsInv
    <3>4. OneAttempt => /\ c'.service = c.service /\ c'.started /\ ~ c'.resolving
                        /\ c'.net_error = AfterAlternativeFailed(s, r).net_error
                        /\ \/ c'.job["alt"] = "none"
                           \/ c'.job["alt"] = "bound" /\ c'.result["alt"] # "auth"
      BY <1>10, <1>14, <2>2, <3>1 DEF Keeps
    <3>5. OneAttempt /\ answers' # << >> /\ answers'[Len(answers')] = "main" =>
             answers' = answers /\ IsJobOrphaned(s, "alt")
      BY <1>13, <1>14, <2>2 DEF Answered
    <3> QED BY <1>1, <1>7, <1>14, <3>1, <3>2, <3>3, <3>4, <3>5, AlternativeReports
  <2> QED BY <2>1, <2>2
<1> QED BY <1>14, <1>15 DEF Inv

\* The task of a job.
LEMMA JobTaskPreserves ==
  ASSUME Inv, NEW j \in Jobs, JobTask(j)
  PROVE  Inv'
<1>1. Next1(j)
  BY DEF JobTask
<1>2. CASE /\ c.preconnect /\ c' = MaybeNotifyFactoryOfCompletion(Reset(Ran(c), j))
           /\ UNCHANGED <<broken, answers, failed, marked>>
  BY <1>1, <1>2, PreconnectTaskPreserves
<1>3. CASE c.result[j] \in Successes /\ OnStreamReady(Ran(c), j) /\ UNCHANGED failed
  BY <1>1, <1>3, ReadyTaskPreserves
<1>4. CASE c.result[j] \in Errors /\ OnStreamFailed(Ran(c), j, c.result[j])
  BY <1>1, <1>4, FailedTaskPreserves
<1>5. CASE /\ c.result[j] \notin Successes \cup Errors
           /\ OnNeedsConsumer(Ran(c), j, c.result[j]) /\ UNCHANGED failed
  BY <1>1, <1>5, ConsumerTaskPreserves
<1> QED BY <1>2, <1>3, <1>4, <1>5, Zenon DEF JobTask

\* The job j goes on: nothing is told, and no failure to report is forgotten.
LEMMA JobGoesOn ==
  ASSUME AnswersInv, ReportsInv, UNCHANGED <<broken, answers, failed, marked>>,
         NEW j \in Jobs, ControllerInv(c), ControllerInv(c'), SameRequest(c, c'),
         OnlyJob(c, c', j), c'.job[j] # "none",
         c.job[j] # "none", c.job[j] = "bound" => c.result[j] = "auth",
         c'.in_map = c.in_map \/ ~ Answered
  PROVE  Inv'
<1> USE DEF Jobs
<1>1. c'.started
  BY DEF ControllerInv, CoreInv, AttemptsAreProper, Fresh
<1>2. ASSUME Answered PROVE Quiet(c')
  <2>1. Quiet(c)
    BY <1>2 DEF AnswersInv
  <2>2. c'.request = "live" => ~ c'.in_map /\ ~ c'.resolving
    BY <1>2, <2>1 DEF Quiet, SameRequest
  <2>3. "notify" \notin Pending(c')
    BY DEF ControllerInv, CoreInv, AttemptsAreProper, Fresh
  <2>4. ASSUME NEW i \in Jobs, c'.request = "live"
        PROVE  \/ IsJobOrphaned(c', i)
               \/ c'.job[i] = "none"
               \/ c'.job[i] = "bound" /\ c'.result[i] # "auth"
    BY <2>1, <2>4 DEF Quiet, SameRequest, OnlyJob, IsJobOrphaned
  <2> QED BY <2>2, <2>3, <2>4 DEF Quiet
<1>3. AnswersInv'
  BY <1>1, <1>2, AnswersKept
<1>4. c'.scenario = c.scenario /\ c'.net_error = c.net_error
  BY DEF SameRequest
<1>5. ~ c'.resolving
  BY DEF ControllerInv, CoreInv, AttemptsAreProper, Fresh
<1>6. OneAttempt /\ c.net_error # "OK" =>
             /\ c'.service = c.service /\ ~ c'.resolving /\ c'.started
             /\ \/ c'.job["alt"] = "none"
                \/ c'.job["alt"] = "bound" /\ c'.result["alt"] # "auth"
  <2>1. CASE j = "main"
    BY <1>1, <1>5, <2>1 DEF ReportsInv, SameRequest, OnlyJob
  <2>2. CASE j = "alt"
    BY <2>2 DEF ReportsInv
  <2> QED BY <2>1, <2>2
<1>7. ReportsInv'
  BY <1>4, <1>6, ReportsKept
<1> QED BY <1>3, <1>7 DEF Inv

\* The main job is on its way.
Awake(x) == [x EXCEPT !.resumed = TRUE, !.wait = FALSE]
NotLater(x) == [x EXCEPT !.later = FALSE]

\* The task that resumes the main job was the only one.
LEMMA AwakeInv ==
  ASSUME CoreInv(c), c.job["main"] = "waiting", NEW x, Typed(x), SameRequest(c, x),
         x.job = c.job, x.result = c.result, x.in_map = c.in_map,
         ~ x.later, Pending(x) = Pending(c) \ {"resume"}, x.blocked = c.blocked,
         NEW y, y = Awake(x)
  PROVE  /\ Typed(y) /\ CoreInv(Running(y, "main")) /\ y.result["main"] = "none"
         /\ y.bound = "none" /\ SameRequest(c, y) /\ ~ y.wait
         /\ y.job = c.job /\ y.result = c.result
<1> USE DEF Jobs
<1>1. x \in Controller /\ Distinct(x.tasks)
  BY DEF Typed
<1>2. PICK d \in BOOLEAN, e \in BOOLEAN : d = TRUE /\ e = FALSE
  OBVIOUS
<1>3. [x EXCEPT !.resumed = d, !.wait = e] \in Controller
  BY <1>1 DEF Controller
<1>4. y \in Controller
  BY <1>2, <1>3, Zenon DEF Awake
<1>5. /\ y.resumed = TRUE /\ y.wait = FALSE /\ y.later = x.later /\ y.blocked = x.blocked
      /\ y.tasks = x.tasks /\ y.job = x.job /\ y.result = x.result /\ y.in_map = x.in_map
      /\ SameRequest(x, y)
  BY <1>1 DEF Awake, Controller, SameRequest
<1>6. Typed(y)
  BY <1>1, <1>4, <1>5 DEF Typed
<1>7. PICK p : p = Running(y, "main")
  OBVIOUS
<1>8. RunsAs(y, p, "main") /\ Typed(p)
  BY <1>6, <1>7, RunningFields
<1>9. Pending(p) = Pending(c) \ {"resume"}
  BY <1>5, <1>8 DEF RunsAs, Pending
<1> HIDE <1>7
<1>10. CoreInv(p)
  <2> USE <1>5, <1>8, <1>9 DEF CoreInv, RunsAs, SameRequest, SameDelay, OnlyJob
  <2>1. c.request = "live" /\ c.bound = "none" /\ c.started /\ ~ c.resolving
        /\ c.proxy >= 1 /\ c.alive
    BY DEF WaitingIsProper, AttemptsAreProper, Fresh, EndIsProper
  <2>2. ResultsHaveTasks(p)
    BY DEF ResultsHaveTasks
  <2>3. AttemptsAreProper(p)
    BY <2>1 DEF AttemptsAreProper, Fresh
  <2>4. PreconnectsAreSimple(p) /\ BoundIsProper(p)
    BY <2>1 DEF PreconnectsAreSimple, BoundIsProper
  <2>5. WaitingIsProper(p)
    BY <2>1 DEF WaitingIsProper
  <2>6. KindIsProper(p) /\ EndIsProper(p)
    BY <2>1 DEF KindIsProper, EndIsProper
  <2> QED BY <2>2, <2>3, <2>4, <2>5, <2>6
<1>11. c.result["main"] = "none" /\ c.bound = "none"
  BY DEF CoreInv, ResultsHaveTasks, WaitingIsProper
<1>12. SameRequest(c, y)
  BY <1>5 DEF SameRequest
<1> QED BY <1>5, <1>6, <1>7, <1>10, <1>11, <1>12 DEF SameRequest

\* The delay is over.
LEMMA NotLaterFields ==
  ASSUME NEW s, Typed(s), NEW x, x = NotLater(s)
  PROVE  /\ Typed(x) /\ SameRequest(s, x) /\ x.job = s.job /\ x.result = s.result
         /\ x.in_map = s.in_map /\ ~ x.later /\ x.tasks = s.tasks
         /\ x.blocked = s.blocked /\ x.resumed = s.resumed
<1>1. s \in Controller /\ Distinct(s.tasks)
  BY DEF Typed
<1>2. PICK e \in BOOLEAN : e = FALSE
  OBVIOUS
<1>3. [s EXCEPT !.later = e] \in Controller
  BY <1>1 DEF Controller
<1>4. x \in Controller
  BY <1>2, <1>3, Zenon DEF NotLater
<1>5. /\ x.later = FALSE /\ x.tasks = s.tasks /\ x.job = s.job /\ x.result = s.result
      /\ x.in_map = s.in_map /\ x.blocked = s.blocked /\ x.resumed = s.resumed
      /\ SameRequest(s, x)
  BY <1>1 DEF NotLater, Controller, SameRequest
<1> QED BY <1>1, <1>4, <1>5 DEF Typed

\* ResumeMainJob.
LEMMA ResumeMainJobPreserves ==
  ASSUME Inv, ResumeMainJob
  PROVE  Inv'
<1> USE DEF Jobs
<1>1. /\ ControllerInv(c) /\ AnswersInv /\ ReportsInv /\ CoreInv(c) /\ Typed(c)
  BY DEF Inv, ControllerInv, CoreInv
<1>2. PICK x : /\ Typed(x) /\ SameRequest(c, x) /\ x.job = c.job /\ x.result = c.result
               /\ x.in_map = c.in_map /\ ~ x.later /\ Pending(x) = Pending(c) \ {"resume"}
               /\ x.blocked = c.blocked /\ x.resumed = c.resumed
               /\ c' \in MainJobResumed(x)
               /\ c.later \/ "resume" \in Pending(c)
  <2>1. CASE Next1("resume") /\ c' \in MainJobResumed(Ran(c))
    <3>1. PICK x : x = Ran(c)
      OBVIOUS
    <3>2. c.tasks # << >> /\ Head(c.tasks) = "resume"
      BY <2>1 DEF Next1
    <3>3. /\ Typed(x) /\ OnlyTasks(c, x)
          /\ "resume" \in Pending(c) /\ Pending(x) = Pending(c) \ {"resume"}
      BY <1>1, <3>1, <3>2, RanFields
    <3>4. ~ x.later
      BY <1>1, <3>3 DEF CoreInv, WaitingIsProper, OnlyTasks, SameDelay
    <3>5. c' \in MainJobResumed(x)
      BY <2>1, <3>1
    <3> QED BY <3>3, <3>4, <3>5 DEF OnlyTasks, SameDelay
  <2>2. CASE c.later /\ c' \in MainJobResumed([c EXCEPT !.later = FALSE])
    <3>1. PICK x : x = NotLater(c)
      OBVIOUS
    <3>2. /\ Typed(x) /\ SameRequest(c, x) /\ x.job = c.job /\ x.result = c.result
          /\ x.in_map = c.in_map /\ ~ x.later /\ x.tasks = c.tasks
          /\ x.blocked = c.blocked /\ x.resumed = c.resumed
      BY <1>1, <3>1, NotLaterFields
    <3>3. "resume" \notin Pending(c)
      BY <1>1, <2>2 DEF CoreInv, WaitingIsProper
    <3>4. Pending(x) = Pending(c) \ {"resume"}
      BY <3>2, <3>3 DEF Pending
    <3>5. c' \in MainJobResumed(x)
      BY <2>2, <3>1 DEF NotLater
    <3> HIDE <3>1
    <3> QED BY <2>2, <3>2, <3>4, <3>5
  <2> QED BY <2>1, <2>2 DEF ResumeMainJob
<1>3. UNCHANGED <<broken, answers, failed, marked>> /\ c.job["main"] # "none"
  BY DEF ResumeMainJob
<1>4. c.job["main"] = "waiting"
  BY <1>1, <1>2, <1>3 DEF CoreInv, WaitingIsProper
<1>5. ~ c.resumed /\ c.request = "live" /\ c.bound = "none" /\ ~ c.job_bound
  BY <1>1, <1>4 DEF CoreInv, WaitingIsProper, BoundIsProper
<1>6. PICK y : y = Awake(x)
  OBVIOUS
<1>7. c' \in EvaluateThrottle(y, "main")
  BY <1>2, <1>5, <1>6 DEF MainJobResumed, Awake
<1>8. /\ Typed(y) /\ CoreInv(Running(y, "main")) /\ y.result["main"] = "none"
      /\ y.bound = "none" /\ SameRequest(c, y) /\ ~ y.wait
      /\ y.job = c.job /\ y.result = c.result
  BY <1>1, <1>2, <1>4, <1>6, AwakeInv
<1> HIDE <1>6
<1>9. y.scenario = c.scenario
  BY <1>8 DEF SameRequest
<1>10. MainEvaluated(y, c')
  BY <1>7, <1>8, <1>9, EvaluateMainInv
<1>11. ControllerInv(c')
  BY <1>8, <1>10 DEF MainEvaluated, ControllerInv, SameDelay, DelayIsOver, ResumedFirst
<1>12. /\ SameRequest(c, c') /\ OnlyJob(c, c', "main") /\ c'.job["main"] # "none"
  BY <1>8, <1>10 DEF MainEvaluated, SameRequest, OnlyJob
<1>13. ~ Answered
  <2>1. ~ IsJobOrphaned(c, "main")
    BY <1>5 DEF IsJobOrphaned
  <2> QED BY <1>1, <1>4, <1>5, <2>1 DEF AnswersInv, Quiet
<1> QED BY <1>1, <1>3, <1>4, <1>11, <1>12, <1>13, JobGoesOn

\* NotifyRequestFailed.
LEMMA NotifyRequestFailedPreserves ==
  ASSUME Inv, NotifyRequestFailed
  PROVE  Inv'
<1> USE DEF Jobs
<1>1. /\ ControllerInv(c) /\ AnswersInv /\ ReportsInv /\ CoreInv(c) /\ Typed(c)
  BY DEF Inv, ControllerInv, CoreInv
<1>2. PICK s : s = Ran(c)
  OBVIOUS
<1>3. c.tasks # << >> /\ Head(c.tasks) = "notify"
  BY DEF NotifyRequestFailed, Next1
<1>4. /\ Typed(s) /\ OnlyTasks(c, s)
      /\ "notify" \in Pending(c) /\ Pending(s) = Pending(c) \ {"notify"}
  BY <1>1, <1>2, <1>3, RanFields
<1>5. /\ UNCHANGED <<broken, failed, marked>>
      /\ c.request # "live" => c' = s /\ answers' = answers
      /\ c.request = "live" => Tell(s, "failed")
  BY <1>2 DEF NotifyRequestFailed
<1> HIDE <1>2
<1>6. Fresh(c) /\ c.started /\ ~ c.resolving
  BY <1>1, <1>4 DEF CoreInv, AttemptsAreProper
<1>7. c.alive /\ c.request # "gone"
  BY <1>1, <1>3, <1>6 DEF CoreInv, EndIsProper, Fresh
<1>8. CoreInv(s)
  <2> USE <1>1, <1>4, <1>6, <1>7 DEF CoreInv, OnlyTasks, SameRequest, SameDelay
  <2>1. ResultsHaveTasks(s) /\ AttemptsAreProper(s)
    BY DEF ResultsHaveTasks, AttemptsAreProper, Fresh
  <2>2. PreconnectsAreSimple(s) /\ BoundIsProper(s)
    BY DEF PreconnectsAreSimple, BoundIsProper, Fresh
  <2>3. WaitingIsProper(s) /\ KindIsProper(s)
    BY DEF WaitingIsProper, KindIsProper, Fresh
  <2>4. EndIsProper(s)
    BY DEF EndIsProper
  <2> QED BY <2>1, <2>2, <2>3, <2>4
<1>9. /\ Fresh(s) /\ s.started /\ ~ s.resolving /\ s.alive /\ "notify" \notin Pending(s)
      /\ s.request = c.request /\ s.scenario = c.scenario
      /\ s.net_error = c.net_error /\ s.service = c.service
  BY <1>4, <1>6, <1>7 DEF Fresh, OnlyTasks, SameRequest, SameDelay
<1>10. DelayIsOver(s) /\ ResumedFirst(s)
  BY <1>9 DEF DelayIsOver, ResumedFirst, Fresh
<1>11. CASE c.request # "live"
  <2>1. ControllerInv(c') /\ c' = s /\ answers' = answers
    BY <1>5, <1>8, <1>10, <1>11 DEF ControllerInv
  <2>2. Quiet(c')
    BY <1>9, <1>11, <2>1 DEF Quiet
  <2>3. AnswersInv'
    BY <1>1, <1>9, <2>1, <2>2, AnswersKept
  <2>4. c'.job["alt"] = "none" /\ ~ c'.resolving
    BY <1>9, <2>1 DEF Fresh
  <2>5. ReportsInv'
    BY <1>1, <1>5, <1>9, <2>1, <2>4, ReportsKept
  <2> QED BY <2>1, <2>3, <2>5 DEF Inv
<1>12. CASE c.request = "live"
  <2>1. PICK a \in Told : a = "failed"
    BY DEF Told
  <2>2. Tell(s, a)
    BY <1>5, <1>12, <2>1
  <2>3. OpenInv(s) /\ ResumeIsProper(s)
    BY <1>8, <1>9, CoreIsOpen
  <2>4. Quiet(s)
    BY <1>9 DEF Quiet, Fresh
  <2>5. ~ Answered
    BY <1>1, <1>4, <1>12 DEF AnswersInv, Quiet
  <2>6. ControllerInv(c') /\ AnswersInv' /\ Left(s, c') /\ answers' = Append(answers, a)
    BY <1>1, <1>9, <1>10, <1>12, <2>2, <2>3, <2>4, <2>5, TellInv
  <2>7. answers' # << >> /\ answers'[Len(answers')] = a
    <3>1. answers \in Seq(Told) /\ AnsweredOnce
      BY <1>1 DEF AnswersInv, Told
    <3> QED BY <2>5, <2>6, <3>1, ToldOnce
  <2>8. c'.job["alt"] = "none"
    BY <1>9, <2>6 DEF Left, Fresh
  <2>9. /\ c'.scenario = c.scenario /\ c'.net_error = c.net_error
        /\ c'.service = c.service /\ ~ c'.resolving /\ c'.started
    BY <1>9, <2>6 DEF Left
  <2>10. answers'[Len(answers')] # "main"
    BY <2>1, <2>7
  <2>11. ReportsInv'
    BY <1>1, <1>5, <2>7, <2>8, <2>9, <2>10, ReportsKept
  <2> QED BY <2>6, <2>11 DEF Inv
<1> QED BY <1>11, <1>12

\* ResumeInitConnection: the job is throttled no more.
LEMMA ResumeInitConnectionPreserves ==
  ASSUME Inv, NEW j \in Jobs, ResumeInitConnection(j)
  PROVE  Inv'
<1> USE DEF Jobs
<1>1. /\ ControllerInv(c) /\ AnswersInv /\ ReportsInv /\ CoreInv(c) /\ Typed(c)
      /\ DelayIsOver(c)
  BY DEF Inv, ControllerInv, CoreInv
<1>2. /\ c.job[j] = "throttled" /\ c' \in InitConnection(c, j)
      /\ UNCHANGED <<broken, answers, failed, marked>>
  BY DEF ResumeInitConnection
<1>3. c.result[j] = "none" /\ j \notin Pending(c)
  BY <1>1, <1>2 DEF CoreInv, ResultsHaveTasks
<1>4. PICK p : p = Running(c, j)
  OBVIOUS
<1>5. RunsAs(c, p, j) /\ Typed(p)
  BY <1>1, <1>4, RunningFields
<1>6. CoreInv(p)
  <2>1. Pending(p) = Pending(c) \ {j}
    BY <1>3, <1>5 DEF RunsAs, Pending
  <2>2. c.job[j] \notin {"none", "waiting"}
    BY <1>2
  <2> QED BY <1>1, <1>5, <2>1, <2>2, RunningInv DEF RunsAs
<1>7. CASE j = "main"
  <2>1. MainRan(c, c')
    BY <1>1, <1>2, <1>3, <1>4, <1>6, <1>7, InitMainInv
  <2>2. ~ c'.wait
    BY <1>1, <1>2, <1>7, <2>1 DEF MainRan, SameDelay, DelayIsOver
  <2>3. ControllerInv(c')
    BY <2>1, <2>2 DEF MainRan, ControllerInv, DelayIsOver, ResumedFirst
  <2>4. /\ SameRequest(c, c') /\ OnlyJob(c, c', j) /\ c'.job[j] # "none"
        /\ c'.in_map = c.in_map
    BY <1>7, <2>1 DEF MainRan
  <2> QED BY <1>1, <1>2, <2>3, <2>4, JobGoesOn
<1>8. CASE j = "alt"
  <2>1. AltRan(c, c')
    BY <1>1, <1>2, <1>3, <1>4, <1>6, <1>8, InitAltInv
  <2>2. ~ c'.wait
    <3>1. c.kind = "h2"
      BY <1>1, <1>2, <1>8 DEF CoreInv, KindIsProper
    <3> QED BY <2>1, <3>1 DEF AltRan, SameRequest, CoreInv, KindIsProper
  <2>3. ControllerInv(c')
    BY <2>1, <2>2 DEF AltRan, ControllerInv, DelayIsOver
  <2>4. /\ SameRequest(c, c') /\ OnlyJob(c, c', j) /\ c'.job[j] # "none"
        /\ c'.in_map = c.in_map
    BY <1>8, <2>1 DEF AltRan
  <2> QED BY <1>1, <1>2, <2>3, <2>4, JobGoesOn
<1> QED BY <1>7, <1>8

\* ConnectionEnds.
LEMMA ConnectionEndsPreserves ==
  ASSUME Inv, NEW j \in Jobs, ConnectionEnds(j)
  PROVE  Inv'
<1> USE DEF Jobs
<1>1. /\ ControllerInv(c) /\ AnswersInv /\ ReportsInv /\ CoreInv(c) /\ Typed(c)
      /\ DelayIsOver(c) /\ ResumedFirst(c)
  BY DEF Inv, ControllerInv, CoreInv
<1>2. c.job[j] = "connecting" /\ UNCHANGED <<broken, answers, failed, marked>>
  BY DEF ConnectionEnds
<1>3. PICK r \in JobResults(c, j) : c' = Ended(c, j, r)
  BY DEF ConnectionEnds
<1>4. c.result[j] = "none" /\ j \notin Pending(c)
  BY <1>1, <1>2 DEF CoreInv, ResultsHaveTasks
<1>5. RunsAs(c, c, j)
  BY <1>1, <1>2, <1>4, RunningSame
<1>6. /\ r \in Results
      /\ j = "alt" /\ r \in {"auth", "unreachable"} => c.kind = "h2"
  BY <1>1, <1>3, <1>5, JobResultsAre
<1>7. CoreInv(c')
  BY <1>1, <1>3, <1>5, <1>6, EndedInv
<1>8. /\ SameRequest(c, c') /\ OnlyJob(c, c', j) /\ SameDelay(c, c')
      /\ c'.job[j] = "done" /\ c'.result[j] = r
      /\ c'.in_map = c.in_map
      /\ Pending(c') = Pending(c) \cup {j}
      /\ Before(c.tasks, "resume", "alt") => Before(c'.tasks, "resume", "alt")
  BY <1>1, <1>3, <1>4, <1>6, EndedFields
<1>9. DelayIsOver(c')
  BY <1>1, <1>2, <1>8 DEF DelayIsOver, SameDelay, OnlyJob
<1>10. ResumedFirst(c')
  <2>1. CASE j = "main"
    BY <1>8, <2>1 DEF ResumedFirst
  <2>2. CASE j = "alt"
    BY <1>1, <1>2, <1>8, <2>2 DEF ResumedFirst, SameDelay, SameRequest, OnlyJob
  <2> QED BY <2>1, <2>2
<1>11. ControllerInv(c') /\ c'.job[j] # "none"
  BY <1>7, <1>8, <1>9, <1>10 DEF ControllerInv
<1> QED BY <1>1, <1>2, <1>8, <1>11, JobGoesOn

\* RestartTunnelWithProxyAuth.
LEMMA RestartPreserves ==
  ASSUME Inv, RestartTunnelWithProxyAuth
  PROVE  Inv'
<1> USE DEF Jobs
<1>1. /\ ControllerInv(c) /\ AnswersInv /\ ReportsInv /\ CoreInv(c) /\ Typed(c)
      /\ DelayIsOver(c) /\ c \in Controller
  BY DEF Inv, ControllerInv, CoreInv, Typed
<1>2. PICK j \in Jobs : j = c.bound
  BY <1>1 DEF RestartTunnelWithProxyAuth, Controller
<1>3. /\ c.request = "live" /\ c.job[j] = "bound" /\ c.result[j] = "auth"
      /\ UNCHANGED <<broken, answers, failed, marked>>
  BY <1>2 DEF RestartTunnelWithProxyAuth
<1>4. \/ c' = [[c EXCEPT !.result[j] = "none"] EXCEPT !.job[j] = "connecting"]
      \/ \E r \in {"failed", "unreachable"} : c' = Ended([c EXCEPT !.result[j] = "none"], j, r)
  BY <1>2 DEF RestartTunnelWithProxyAuth
<1>5. PICK s : s = WithJob(c, j, "bound", "none")
  OBVIOUS
<1>6. s \in Controller /\ JobIs(c, s, j, "bound", "none")
  <2>1. "bound" \in JobState /\ "none" \in Results \cup {"none"}
    BY DEF JobState
  <2> QED BY <1>1, <1>5, <2>1, UpdatedJob
<1>7. c.job \in [Jobs -> JobState] /\ c.result \in [Jobs -> Results \cup {"none"}]
  BY <1>1 DEF Controller
<1>8. s = [c EXCEPT !.result[j] = "none"]
  <2>1. c.job = [c.job EXCEPT ![j] = "bound"]
    BY <1>3, <1>7
  <2> QED BY <1>1, <1>5, <2>1 DEF WithJob, Controller
<1>9. PICK p : p = Running(c, j)
  OBVIOUS
<1>10. p = [[c EXCEPT !.result[j] = "none"] EXCEPT !.job[j] = "connecting"]
  BY <1>1, <1>9 DEF Running, WithJob, Controller
<1>11. \/ c' = p
       \/ \E r \in {"failed", "unreachable"} : c' = Ended(s, j, r)
  BY <1>4, <1>8, <1>10
<1> HIDE <1>5, <1>8, <1>9, <1>10
<1>12. RunsAs(c, p, j) /\ Typed(p)
  BY <1>1, <1>9, RunningFields
<1>13. j \notin Pending(c)
  BY <1>1, <1>3 DEF CoreInv, ResultsHaveTasks
<1>14. CoreInv(p)
  <2>1. Pending(p) = Pending(c) \ {j}
    BY <1>12, <1>13 DEF RunsAs, Pending
  <2>2. c.job[j] \notin {"none", "waiting"}
    BY <1>3
  <2> QED BY <1>1, <1>12, <2>1, <2>2, RunningInv DEF RunsAs
<1>15. ~ c.wait /\ c.job["main"] # "waiting" /\ (j = "alt" => c.kind = "h2")
  <2>1. CASE j = "main"
    BY <1>1, <1>3, <2>1 DEF DelayIsOver
  <2>2. CASE j = "alt"
    BY <1>1, <1>2, <1>3, <2>2 DEF CoreInv, KindIsProper, BoundIsProper
  <2> QED BY <2>1, <2>2
<1>16. CASE c' = p
  <2>1. SameRequest(c, c') /\ OnlyJob(c, c', j) /\ c'.job[j] # "none" /\ c'.in_map = c.in_map
    BY <1>12, <1>16 DEF RunsAs
  <2>2. ~ c'.wait /\ c'.job["main"] # "waiting"
    BY <1>12, <1>15, <1>16 DEF RunsAs, SameDelay, OnlyJob
  <2>3. ControllerInv(c')
    BY <1>14, <1>16, <2>2 DEF ControllerInv, DelayIsOver, ResumedFirst
  <2> QED BY <1>1, <1>3, <2>1, <2>3, JobGoesOn
<1>17. ASSUME NEW r \in {"failed", "unreachable"}, c' = Ended(s, j, r) PROVE Inv'
  <2>1. Typed(s)
    BY <1>1, <1>6 DEF Typed, JobIs
  <2>2. RunsAs(s, p, j)
    BY <1>6, <1>12, <2>1 DEF RunsAs, JobIs, SameRequest, SameDelay, OnlyJob
  <2>3. r \in Results
    BY DEF Results, Errors
  <2>4. j = "alt" /\ r \in {"auth", "unreachable"} => s.kind = "h2"
    BY <1>6, <1>15 DEF JobIs, SameRequest
  <2>5. CoreInv(c')
    BY <1>14, <1>17, <2>2, <2>3, <2>4, EndedInv
  <2>6. j \notin Pending(s)
    BY <1>6, <1>13 DEF JobIs, Pending
  <2>7. /\ SameRequest(s, c') /\ OnlyJob(s, c', j) /\ SameDelay(s, c')
        /\ c'.job[j] = "done" /\ c'.in_map = s.in_map
    BY <1>17, <2>1, <2>3, <2>6, EndedFields
  <2>8. SameRequest(c, c') /\ OnlyJob(c, c', j) /\ c'.job[j] # "none" /\ c'.in_map = c.in_map
    BY <1>6, <2>7 DEF JobIs, SameRequest, OnlyJob
  <2>9. ~ c'.wait /\ c'.job["main"] # "waiting"
    BY <1>6, <1>15, <2>7 DEF JobIs, SameDelay, OnlyJob
  <2>10. ControllerInv(c')
    BY <2>5, <2>9 DEF ControllerInv, DelayIsOver, ResumedFirst
  <2> QED BY <1>1, <1>3, <2>8, <2>10, JobGoesOn
<1> QED BY <1>11, <1>16, <1>17

\* The consumer destroys the request.
LEMMA ReleaseRequestPreserves ==
  ASSUME Inv, ReleaseRequest
  PROVE  Inv'
<1>1. /\ ControllerInv(c) /\ AnswersInv /\ ReportsInv /\ CoreInv(c)
  BY DEF Inv, ControllerInv
<1>2. /\ c.request = "live" /\ c' = OnRequestComplete(c)
      /\ UNCHANGED <<broken, answers, failed, marked>>
  BY DEF ReleaseRequest
<1>3. c.alive
  BY <1>1, <1>2 DEF CoreInv, EndIsProper
<1>4. OpenInv(c)
  BY <1>1, <1>3, CoreIsOpen
<1>5. /\ ControllerInv(c') /\ c'.request = "gone" /\ c'.started
      /\ c'.service = c.service /\ c'.net_error = c.net_error /\ c'.scenario = c.scenario
      /\ c'.resolving => c.resolving
      /\ \/ c'.job["alt"] = "none"
         \/ c'.job["alt"] = c.job["alt"] /\ c'.result["alt"] = c.result["alt"]
  BY <1>2, <1>4, OnRequestCompleteInv
<1>6. Quiet(c')
  BY <1>5 DEF Quiet
<1>7. AnswersInv'
  BY <1>1, <1>2, <1>5, <1>6, AnswersKept
<1>8. OneAttempt /\ c.net_error # "OK" =>
         /\ c'.service = c.service /\ ~ c'.resolving /\ c'.started
         /\ \/ c'.job["alt"] = "none"
            \/ c'.job["alt"] = "bound" /\ c'.result["alt"] # "auth"
  BY <1>1, <1>5 DEF ReportsInv
<1>9. ReportsInv'
  BY <1>1, <1>2, <1>5, <1>8, ReportsKept
<1> QED BY <1>5, <1>7, <1>9 DEF Inv

\* A session of another request serves this one, whose jobs are destroyed.
LEMMA PooledPreserves ==
  ASSUME Inv, OnStreamReadyOnPooledConnection
  PROVE  Inv'
<1> USE DEF Jobs
<1>1. /\ ControllerInv(c) /\ AnswersInv /\ ReportsInv /\ CoreInv(c) /\ Typed(c)
  BY DEF Inv, ControllerInv, CoreInv
<1>2. PICK a, b, s : a = Reset(c, "main") /\ b = Reset(a, "alt") /\ s = GoneMap(b)
  OBVIOUS
<1>3. c.in_map /\ Tell(s, "pooled") /\ UNCHANGED <<broken, failed, marked>>
  BY <1>2 DEF OnStreamReadyOnPooledConnection, GoneMap
<1>4. /\ Typed(a) /\ SameRequest(c, a) /\ SameDelay(c, a) /\ OnlyJob(c, a, "main")
      /\ a.job["main"] = "none" /\ a.result["main"] = "none"
      /\ a.resumed = c.resumed /\ Pending(a) = Pending(c) \ {"main"}
  BY <1>1, <1>2, ResetFields
<1>5. /\ Typed(b) /\ SameRequest(a, b) /\ SameDelay(a, b) /\ OnlyJob(a, b, "alt")
      /\ b.job["alt"] = "none" /\ b.result["alt"] = "none"
      /\ b.resumed = a.resumed /\ Pending(b) = Pending(a) \ {"alt"}
  BY <1>2, <1>4, ResetFields
<1>6. Typed(s)
  BY <1>2, <1>5, GoneFields
<1>7. /\ s.tasks = b.tasks /\ SameRequest(b, s) /\ SameDelay(b, s)
      /\ s.job = b.job /\ s.result = b.result /\ s.resumed = b.resumed /\ ~ s.in_map
  BY <1>2, <1>5 DEF GoneMap, Controller, SameRequest, SameDelay, Typed
<1> HIDE <1>2
<1>8. /\ SameRequest(c, s) /\ SameDelay(c, s) /\ s.resumed = c.resumed
      /\ \A j \in Jobs : s.job[j] = "none" /\ s.result[j] = "none"
      /\ \A x : x \in Pending(s) <=> (x \in Pending(c) /\ x \notin {"main", "alt"})
  BY <1>4, <1>5, <1>7 DEF SameRequest, SameDelay, OnlyJob, Pending
<1>9. /\ c.bound = "none" /\ c.request = "live" /\ ~ c.job_bound /\ c.started
      /\ ~ c.resolving /\ "notify" \notin Pending(c) /\ ~ c.preconnect /\ c.alive
  BY <1>1, <1>3 DEF CoreInv, BoundIsProper, AttemptsAreProper, Fresh,
                    PreconnectsAreSimple, EndIsProper
<1>10. OpenInv(s)
  <2> USE <1>1, <1>6, <1>7, <1>8, <1>9 DEF CoreInv, SameRequest, SameDelay
  <2>1. ResultsHaveTasks(s) /\ AttemptsAreProper(s)
    BY DEF ResultsHaveTasks, AttemptsAreProper
  <2>2. PreconnectsAreSimple(s) /\ BoundIsProper(s)
    BY DEF PreconnectsAreSimple, BoundIsProper
  <2>3. WaitingIsSafe(s) /\ KindIsProper(s)
    BY DEF WaitingIsSafe, WaitingIsProper, KindIsProper
  <2> QED BY <2>1, <2>2, <2>3 DEF OpenInv
<1>11. DelayIsOver(s) /\ ResumedFirst(s)
  BY <1>8 DEF DelayIsOver, ResumedFirst
<1>12. /\ s.request = "live" /\ s.scenario = c.scenario /\ ~ s.resolving
       /\ s.net_error = c.net_error /\ s.service = c.service
       /\ "notify" \notin Pending(s)
  BY <1>8, <1>9 DEF SameRequest
<1>13. Quiet(s)
  BY <1>7, <1>8, <1>12 DEF Quiet
<1>14. ~ Answered
  BY <1>1, <1>3, <1>9 DEF AnswersInv, Quiet
<1>15. PICK k \in Told : k = "pooled"
  BY DEF Told
<1>16. Tell(s, k) /\ k # "auth" /\ (s.scenario.prompt \/ ResumeIsProper(s))
  BY <1>3, <1>15 DEF ResumeIsProper
<1>17. ControllerInv(c') /\ AnswersInv' /\ Left(s, c') /\ answers' = Append(answers, k)
  BY <1>1, <1>10, <1>11, <1>12, <1>13, <1>14, <1>16, TellInv
<1>18. answers' # << >> /\ answers'[Len(answers')] = k
  <2>1. answers \in Seq(Told) /\ AnsweredOnce
    BY <1>1 DEF AnswersInv, Told
  <2> QED BY <1>14, <1>17, <2>1, ToldOnce
<1>19. /\ c'.job["alt"] = "none" /\ c'.scenario = c.scenario /\ c'.net_error = c.net_error
       /\ c'.service = c.service /\ ~ c'.resolving /\ c'.started
  BY <1>8, <1>12, <1>17 DEF Left
<1>20. answers'[Len(answers')] # "main"
  BY <1>15, <1>18
<1>21. ReportsInv'
  BY <1>1, <1>3, <1>18, <1>19, <1>20, ReportsKept
<1> QED BY <1>17, <1>21 DEF Inv

\* Another request reports a service.
LEMMA OthersReportPreserves ==
  ASSUME Inv, OthersReport
  PROVE  Inv'
<1>1. c' = c /\ answers' = answers /\ failed' = failed /\ marked' = marked
  BY DEF OthersReport
<1>2. c.scenario \in Scenarios
  BY DEF Inv, ControllerInv, CoreInv, Typed, Controller
<1>3. c.scenario \in Scenario
  BY <1>2, ScenariosAssumption
<1>4. Services \subseteq {"quic", "h2"}
  BY <1>3 DEF Scenario, Services
<1>5. broken' \subseteq {"none", "quic", "h2", "proxy"}
  BY <1>4 DEF OthersReport, Inv, ReportsInv
<1>6. AnswersInv'
  BY <1>1 DEF Inv, AnswersInv, AnsweredOnce, Answered
<1>7. ReportsInv'
  BY <1>1, <1>5 DEF Inv, ReportsInv, OneAttempt, Proxies
<1> QED BY <1>1, <1>6, <1>7 DEF Inv

\* A new controller.
LEMMA InitInv ==
  ASSUME Init
  PROVE  Inv
<1> USE DEF Jobs
<1>1. PICK scenario \in Scenarios :
       c = [request |-> "none", preconnect |-> FALSE, started |-> FALSE,
            alive |-> TRUE, resolving |-> FALSE, resolves |-> 0, proxy |-> 0,
            job |-> [j \in Jobs |-> "none"],
            result |-> [j \in Jobs |-> "none"],
            kind |-> "none", service |-> "none", net_error |-> "OK",
            bound |-> "none", job_bound |-> FALSE, blocked |-> FALSE,
            resumed |-> FALSE, wait |-> FALSE, later |-> FALSE,
            tasks |-> <<>>, in_map |-> FALSE, can_alt_proxy |-> TRUE,
            auths |-> 0, scenario |-> scenario]
  BY DEF Init
<1>2. /\ [j \in Jobs |-> "none"] \in [Jobs -> JobState]
      /\ [j \in Jobs |-> "none"] \in [Jobs -> Results \cup {"none"}]
      /\ << >> \in Seq({"main", "alt", "resume", "notify"})
  BY EmptySeq DEF JobState
<1>3. c \in Controller
  <2>1. PICK n \in Seq({"main", "alt", "resume", "notify"}), b \in [Jobs -> JobState],
             o \in [Jobs -> Results \cup {"none"}] :
               n = << >> /\ b = [j \in Jobs |-> "none"] /\ o = [j \in Jobs |-> "none"]
    BY <1>2, Zenon
  <2>2. [request |-> "none", preconnect |-> FALSE, started |-> FALSE,
         alive |-> TRUE, resolving |-> FALSE, resolves |-> 0, proxy |-> 0,
         job |-> b, result |-> o,
         kind |-> "none", service |-> "none", net_error |-> "OK",
         bound |-> "none", job_bound |-> FALSE, blocked |-> FALSE,
         resumed |-> FALSE, wait |-> FALSE, later |-> FALSE,
         tasks |-> n, in_map |-> FALSE, can_alt_proxy |-> TRUE,
         auths |-> 0, scenario |-> scenario] \in Controller
    BY DEF Controller
  <2> QED BY <1>1, <2>1, <2>2, Zenon
<1>4. /\ c.request = "none" /\ ~ c.preconnect /\ ~ c.started /\ c.alive /\ ~ c.resolving
      /\ \A j \in Jobs : c.job[j] = "none" /\ c.result[j] = "none"
      /\ c.kind = "none" /\ c.net_error = "OK" /\ c.bound = "none" /\ ~ c.job_bound
      /\ ~ c.blocked /\ ~ c.resumed /\ ~ c.wait /\ ~ c.later /\ ~ c.in_map
      /\ c.tasks = << >>
  BY <1>1
<1>5. Pending(c) = {} /\ Distinct(c.tasks)
  BY <1>4 DEF Pending, Range, Distinct
<1> HIDE <1>1
<1> USE <1>4, <1>5
<1>6. Typed(c) /\ ResultsHaveTasks(c)
  BY <1>3 DEF Typed, ResultsHaveTasks
<1>7. AttemptsAreProper(c) /\ PreconnectsAreSimple(c) /\ BoundIsProper(c)
  BY DEF AttemptsAreProper, PreconnectsAreSimple, BoundIsProper, Fresh
<1>8. WaitingIsProper(c) /\ KindIsProper(c) /\ EndIsProper(c)
  BY DEF WaitingIsProper, KindIsProper, EndIsProper
<1>9. DelayIsOver(c) /\ ResumedFirst(c)
  BY DEF DelayIsOver, ResumedFirst
<1>10. ControllerInv(c)
  BY <1>6, <1>7, <1>8, <1>9 DEF ControllerInv, CoreInv
<1>11. AnswersInv
  <2>1. answers = << >> /\ DOMAIN answers = {}
    BY DEF Init
  <2>2. answers \in Seq(Told)
    BY <2>1, EmptySeq
  <2> QED BY <2>1, <2>2 DEF AnswersInv, AnsweredOnce, Answered, Told
<1>12. ReportsInv
  BY DEF Init, ReportsInv
<1> QED BY <1>10, <1>11, <1>12 DEF Inv

\* One step of the controller or of those around it.
LEMMA NextInv ==
  ASSUME Inv, [Next]_vars
  PROVE  Inv'
<1>1. CASE Start \/ Preconnect
  BY <1>1, StartPreserves
<1>2. CASE OnIOComplete
  BY <1>2, OnIOCompletePreserves
<1>3. CASE ResumeMainJob
  BY <1>3, ResumeMainJobPreserves
<1>4. CASE NotifyRequestFailed
  BY <1>4, NotifyRequestFailedPreserves
<1>5. ASSUME NEW j \in Jobs, JobTask(j) PROVE Inv'
  BY <1>5, JobTaskPreserves
<1>6. ASSUME NEW j \in Jobs, ResumeInitConnection(j) PROVE Inv'
  BY <1>6, ResumeInitConnectionPreserves
<1>7. ASSUME NEW j \in Jobs, ConnectionEnds(j) PROVE Inv'
  BY <1>7, ConnectionEndsPreserves
<1>8. CASE RestartTunnelWithProxyAuth
  BY <1>8, RestartPreserves
<1>9. CASE ReleaseRequest
  BY <1>9, ReleaseRequestPreserves
<1>10. CASE OnStreamReadyOnPooledConnection
  BY <1>10, PooledPreserves
<1>11. CASE OthersReport
  BY <1>11, OthersReportPreserves
<1>12. CASE UNCHANGED vars
  BY <1>12 DEF vars, Inv, AnswersInv, ReportsInv, AnsweredOnce, Answered, OneAttempt, Proxies
<1> QED BY <1>1, <1>2, <1>3, <1>4, <1>5, <1>6, <1>7, <1>8, <1>9, <1>10, <1>11, <1>12, Zenon
        DEF Next

\* The inductive invariant: the members of the controller, its jobs and its tasks
\* agree, nothing is left to tell once the request is answered, and a failure of
\* the alternative job that is not reported yet is remembered.
THEOREM ControllerInvariant == Spec => []Inv
<1>1. Init => Inv
  BY InitInv
<1>2. Inv /\ [Next]_vars => Inv'
  BY NextInv
<1> QED BY <1>1, <1>2, PTL DEF Spec

\* The main job never waits for nothing (MaybeResumeMainJob, ShouldWait), a task
\* that resumes it finds it waiting (the DCHECKs of ResumeMainJob), bound_job_
\* never dangles, and a controller that is kept has something to wait for.
THEOREM ConsistentJobs == Spec => []JobsAreConsistent
<1>1. Inv => JobsAreConsistent
  <2> SUFFICES ASSUME Inv PROVE JobsAreConsistent
    OBVIOUS
  <2> USE DEF Jobs
  <2>1. ControllerInv(c) /\ CoreInv(c) /\ AnswersInv /\ ReportsInv
    BY DEF Inv, ControllerInv
  <2>2. TypeOK
    <3>1. c \in Controller
      BY <2>1 DEF CoreInv, Typed
    <3>2. answers \in Seq(Told)
      BY <2>1 DEF AnswersInv, Told
    <3>3. Range(answers) \subseteq Told
      BY <3>2, LenProperties DEF Range
    <3> QED BY <2>1, <3>1, <3>3 DEF TypeOK, ReportsInv, Told
  <2>3. MainIsNotStuck
    BY <2>1 DEF MainIsNotStuck, CoreInv, WaitingIsProper, Pending
  <2>4. ResumeFindsWaitingJob
    <3>1. Typed(c)
      BY <2>1 DEF CoreInv
    <3>2. Next1("resume") => "resume" \in Pending(c)
      <4> SUFFICES ASSUME Next1("resume") PROVE "resume" \in Pending(c)
        OBVIOUS
      <4>1. PICK s : s = Ran(c)
        OBVIOUS
      <4>2. c.tasks # << >> /\ Head(c.tasks) = "resume"
        BY DEF Next1
      <4>3. Head(c.tasks) \in Pending(c)
        BY <3>1, <4>1, <4>2, RanFields
      <4> QED BY <4>2, <4>3
    <3> QED BY <2>1, <3>2 DEF ResumeFindsWaitingJob, CoreInv, WaitingIsProper, Prompt
  <2>5. BoundJobExists
    BY <2>1 DEF BoundJobExists, CoreInv, BoundIsProper, Typed, Controller
  <2>6. NothingIsLeaked
    BY <2>1 DEF NothingIsLeaked, CoreInv, EndIsProper, PreconnectsAreSimple, Typed, Controller
  <2> QED BY <2>2, <2>3, <2>4, <2>5, <2>6 DEF JobsAreConsistent
<1> QED BY <1>1, ControllerInvariant, PTL

\* Whichever of the jobs, the session pool and proxy resolution come first, the
\* consumer is told one final result (DCHECK(!completed_) in Request::Complete).
THEOREM OneFinalAnswer == Spec => []AnsweredOnce
<1>1. Inv => AnsweredOnce
  BY DEF Inv, AnswersInv
<1> QED BY <1>1, ControllerInvariant, PTL

\* An alternative service is reported as broken only if its own job failed, and
\* has been reported by the time the main job has served the request in its place
\* (ReportBrokenAlternativeService, OnAlternativeServiceJobFailed).
THEOREM RightReports == Spec => []ReportsAreRight
<1>1. Inv => ReportsAreRight
  BY DEF Inv, ReportsInv, ReportsAreRight, OnlyFailedAreMarked, FailuresAreMarked
<1> QED BY <1>1, ControllerInvariant, PTL
=============================================================================
