-------------------------- MODULE SimpleCacheProofs --------------------------
(***************************************************************************)
(* The simple cache for any number of entries and of calls.  The invariant *)
(* comes in four layers, each proved with the help of those before it: the *)
(* entries and the calls of the IO thread, the entry that the backend      *)
(* finds, the dooms under way, and the files.                              *)
(***************************************************************************)
EXTENDS SimpleCache, FiniteSetTheorems, SequenceTheorems, TLAPS

Creates == {"create", "create_early"}
Opens == {"open", "create", "create_early"}
Uses == {"read", "write", "write_omitted"}

-----------------------------------------------------------------------------
(* The queue of an entry.                                                  *)

In(q, x) == \E i \in DOMAIN q : q[i] = x
CreateIn(q) == In(q, "create") \/ In(q, "create_early")
OpenIn(q) == In(q, "open") \/ CreateIn(q)

\* There is one doom, and what opens or creates comes before it.
Order(q) ==
  \A i, j \in DOMAIN q : q[i] = "doom" =>
    /\ q[j] = "doom" => i = j
    /\ q[j] \in Opens => j < i

EarlyFirst(q) == \A i \in DOMAIN q : q[i] = "create_early" => i = 1

\* What opens comes after what creates.
Behind(q) ==
  \A i \in DOMAIN q : q[i] = "open" => \E j \in DOMAIN q : j < i /\ q[j] \in Creates

\* What a queue has after Append(q, op).
Pushed(q, op, n) ==
  /\ n \in Seq(Operation) /\ n # <<>>
  /\ \A x : In(n, x) <=> In(q, x) \/ x = op
  /\ Order(q) /\ ~ In(q, "doom") => Order(n)
  /\ Order(q) /\ op # "doom" /\ op \notin Opens => Order(n)
  /\ EarlyFirst(q) /\ (op # "create_early" \/ q = <<>>) => EarlyFirst(n)
  /\ Behind(q) /\ (op = "open" => CreateIn(q)) => Behind(n)
  /\ q # <<>> => n[1] = q[1]
  /\ q = <<>> => n = <<op>> /\ n[1] = op

\* An operation is pushed.
LEMMA Pushing ==
  ASSUME NEW q \in Seq(Operation), NEW op \in Operation, NEW n, n = Append(q, op)
  PROVE  Pushed(q, op, n)
<1>1. /\ n \in Seq(Operation) /\ Len(n) = Len(q) + 1
      /\ \A i \in 1 .. Len(q) : n[i] = q[i]
      /\ n[Len(q) + 1] = op
  BY AppendProperties
<1>2. DOMAIN q = 1 .. Len(q) /\ DOMAIN n = 1 .. Len(q) + 1 /\ Len(q) \in Nat
  BY <1>1, LenProperties
<1>3. \A x : In(n, x) <=> In(q, x) \/ x = op
  <2> SUFFICES ASSUME NEW x PROVE In(n, x) <=> In(q, x) \/ x = op
    OBVIOUS
  <2>1. Len(q) + 1 \in 1 .. Len(q) + 1 /\ \A i \in 1 .. Len(q) : i \in 1 .. Len(q) + 1
    BY <1>2
  <2>2. \A i \in 1 .. Len(q) + 1 : i \in 1 .. Len(q) \/ i = Len(q) + 1
    BY <1>2
  <2> QED BY <1>1, <1>2, <2>1, <2>2, Zenon DEF In
<1>4. Order(q) /\ ~ In(q, "doom") => Order(n)
  <2> SUFFICES ASSUME Order(q), ~ In(q, "doom"),
                      NEW i \in 1 .. Len(q) + 1, NEW j \in 1 .. Len(q) + 1, n[i] = "doom"
               PROVE  (n[j] = "doom" => i = j) /\ (n[j] \in Opens => j < i)
    BY <1>2 DEF Order
  <2>1. \A k \in 1 .. Len(q) : n[k] # "doom"
    BY <1>1, <1>2 DEF In
  <2>2. i = Len(q) + 1
    BY <1>2, <2>1
  <2>3. n[i] \notin Opens
    BY DEF Opens
  <2>4. n[j] = "doom" => i = j
    BY <1>2, <2>1, <2>2
  <2>5. n[j] \in Opens => j < i
    BY <1>2, <2>2, <2>3
  <2> QED BY <2>4, <2>5
<1>5. Order(q) /\ op # "doom" /\ op \notin Opens => Order(n)
  <2> SUFFICES ASSUME Order(q), op # "doom", op \notin Opens,
                      NEW i \in 1 .. Len(q) + 1, NEW j \in 1 .. Len(q) + 1, n[i] = "doom"
               PROVE  (n[j] = "doom" => i = j) /\ (n[j] \in Opens => j < i)
    BY <1>2 DEF Order
  <2>1. i \in 1 .. Len(q) /\ (n[j] = "doom" \/ n[j] \in Opens => j \in 1 .. Len(q))
    BY <1>1, <1>2
  <2> QED BY <1>1, <1>2, <2>1 DEF Order
<1>6. EarlyFirst(q) /\ (op # "create_early" \/ q = <<>>) => EarlyFirst(n)
  <2> SUFFICES ASSUME EarlyFirst(q), op # "create_early" \/ q = <<>>,
                      NEW i \in 1 .. Len(q) + 1, n[i] = "create_early"
               PROVE  i = 1
    BY <1>2 DEF EarlyFirst
  <2>1. CASE i = Len(q) + 1
    <3>1. q = <<>>
      BY <1>1, <2>1
    <3>2. Len(q) = 0
      BY <3>1, EmptySeq
    <3> QED BY <2>1, <3>2
  <2>2. CASE i \in 1 .. Len(q)
    <3>1. q[i] = "create_early"
      BY <1>1, <2>2
    <3> QED BY <1>2, <2>2, <3>1 DEF EarlyFirst
  <2> QED BY <1>2, <2>1, <2>2
<1>7. Behind(q) /\ (op = "open" => CreateIn(q)) => Behind(n)
  <2> SUFFICES ASSUME Behind(q), op = "open" => CreateIn(q),
                      NEW i \in 1 .. Len(q) + 1, n[i] = "open"
               PROVE  \E j \in 1 .. Len(q) + 1 : j < i /\ n[j] \in Creates
    BY <1>2 DEF Behind
  <2>1. CASE i = Len(q) + 1
    <3>1. PICK j \in 1 .. Len(q) : q[j] \in Creates
      BY <1>1, <1>2, <2>1 DEF CreateIn, In, Creates
    <3> QED BY <1>1, <1>2, <2>1, <3>1
  <2>2. CASE i \in 1 .. Len(q)
    <3>1. PICK j \in 1 .. Len(q) : j < i /\ q[j] \in Creates
      BY <1>1, <1>2, <2>2 DEF Behind
    <3> QED BY <1>1, <1>2, <3>1
  <2> QED BY <1>2, <2>1, <2>2
<1>8. q # <<>> => n[1] = q[1]
  BY <1>1, <1>2, EmptySeq
<1>9. q = <<>> => n = <<op>> /\ n[1] = op
  BY <1>1
<1>10. n # <<>>
  BY <1>1, <1>2
<1> QED BY <1>1, <1>3, <1>4, <1>5, <1>6, <1>7, <1>8, <1>9, <1>10 DEF Pushed

\* What a queue has after Tail(q).
Popped(q, h, n) ==
  /\ h \in Operation /\ h = q[1] /\ n \in Seq(Operation)
  /\ \A x : In(q, x) <=> In(n, x) \/ x = h
  /\ Order(q) => Order(n)
  /\ Order(q) /\ h = "doom" => ~ In(n, "doom") /\ ~ OpenIn(n)
  /\ EarlyFirst(q) => EarlyFirst(n) /\ ~ In(n, "create_early")
  /\ Behind(q) => h # "open"
  /\ Behind(q) /\ h \notin Creates => Behind(n)
  /\ \A x : q = <<x>> => n = <<>> /\ h = x

\* The first operation is taken out.
LEMMA Popping ==
  ASSUME NEW q \in Seq(Operation), q # <<>>, NEW h, h = Head(q), NEW n, n = Tail(q)
  PROVE  Popped(q, h, n)
<1>1. /\ n \in Seq(Operation) /\ Len(n) = Len(q) - 1 /\ Len(q) \in Nat \ {0}
      /\ \A i \in 1 .. Len(n) : n[i] = q[i + 1]
      /\ h = q[1]
  BY HeadTailProperties, LenProperties, EmptySeq
<1>2. DOMAIN q = 1 .. Len(q) /\ DOMAIN n = 1 .. Len(n) /\ Len(n) \in Nat
  BY <1>1, LenProperties
<1>3. h \in Operation
  BY <1>1, ElementOfSeq
<1>4. \A x : In(q, x) <=> In(n, x) \/ x = h
  <2> TAKE x
  <2>1. ASSUME In(q, x) PROVE In(n, x) \/ x = h
    <3>1. PICK i \in 1 .. Len(q) : q[i] = x
      BY <1>2, <2>1 DEF In
    <3>2. CASE i = 1
      BY <1>1, <3>1, <3>2
    <3>3. CASE i # 1
      <4>1. i - 1 \in 1 .. Len(n) /\ n[i - 1] = x
        BY <1>1, <1>2, <3>1, <3>3
      <4> QED BY <1>2, <4>1 DEF In
    <3> QED BY <3>2, <3>3
  <2>2. ASSUME In(n, x) PROVE In(q, x)
    BY <1>1, <1>2, <2>2 DEF In
  <2>3. In(q, h)
    BY <1>1, <1>2 DEF In
  <2> QED BY <2>1, <2>2, <2>3
<1>5. Order(q) => Order(n)
  <2> SUFFICES ASSUME Order(q), NEW i \in 1 .. Len(n), NEW j \in 1 .. Len(n), n[i] = "doom"
               PROVE  (n[j] = "doom" => i = j) /\ (n[j] \in Opens => j < i)
    BY <1>2 DEF Order
  <2>1. i + 1 \in 1 .. Len(q) /\ j + 1 \in 1 .. Len(q) /\ q[i + 1] = n[i] /\ q[j + 1] = n[j]
    BY <1>1, <1>2
  <2> QED BY <1>2, <2>1 DEF Order
<1>6. Order(q) /\ h = "doom" => ~ In(n, "doom") /\ ~ OpenIn(n)
  <2> SUFFICES ASSUME Order(q), h = "doom", NEW j \in 1 .. Len(n)
               PROVE  n[j] # "doom" /\ n[j] \notin Opens
    BY <1>2 DEF In, OpenIn, CreateIn, Opens
  <2>1. j + 1 \in 1 .. Len(q) /\ q[j + 1] = n[j] /\ 1 \in 1 .. Len(q)
    BY <1>1, <1>2
  <2> QED BY <1>1, <1>2, <2>1 DEF Order
<1>7. EarlyFirst(q) => EarlyFirst(n) /\ ~ In(n, "create_early")
  <2> SUFFICES ASSUME EarlyFirst(q), NEW j \in 1 .. Len(n) PROVE n[j] # "create_early"
    BY <1>2 DEF In, EarlyFirst
  <2>1. j + 1 \in 1 .. Len(q) /\ q[j + 1] = n[j] /\ j + 1 # 1
    BY <1>1, <1>2
  <2> QED BY <1>2, <2>1 DEF EarlyFirst
<1>8. Behind(q) => h # "open"
  <2> SUFFICES ASSUME Behind(q), h = "open" PROVE FALSE
    OBVIOUS
  <2>1. PICK j \in 1 .. Len(q) : j < 1
    BY <1>1, <1>2 DEF Behind
  <2> QED BY <1>1, <2>1
<1>9. Behind(q) /\ h \notin Creates => Behind(n)
  <2> SUFFICES ASSUME Behind(q), h \notin Creates, NEW i \in 1 .. Len(n), n[i] = "open"
               PROVE  \E j \in 1 .. Len(n) : j < i /\ n[j] \in Creates
    BY <1>2 DEF Behind
  <2>1. i + 1 \in 1 .. Len(q) /\ q[i + 1] = "open"
    BY <1>1, <1>2
  <2>2. PICK j \in 1 .. Len(q) : j < i + 1 /\ q[j] \in Creates
    BY <1>2, <2>1 DEF Behind
  <2>3. j # 1
    BY <1>1, <2>2
  <2>4. j - 1 \in 1 .. Len(n) /\ n[j - 1] = q[j] /\ j - 1 < i
    BY <1>1, <1>2, <2>2, <2>3
  <2> QED BY <2>2, <2>4
<1>10. \A x : q = <<x>> => n = <<>> /\ h = x
  <2> SUFFICES ASSUME NEW x, q = <<x>> PROVE n = <<>> /\ h = x
    OBVIOUS
  <2>1. Len(q) = 1 /\ q[1] = x
    OBVIOUS
  <2> QED BY <1>1, <2>1, EmptySeq
<1> QED BY <1>1, <1>3, <1>4, <1>5, <1>6, <1>7, <1>8, <1>9, <1>10 DEF Popped

\* Queues of none and of one operation.
LEMMA SmallQueues ==
  /\ <<>> \in Seq(Operation) /\ \A x : ~ In(<<>>, x)
  /\ Order(<<>>) /\ EarlyFirst(<<>>) /\ Behind(<<>>)
  /\ \A op \in Operation :
       /\ <<op>> \in Seq(Operation) /\ <<op>> # <<>> /\ <<op>>[1] = op
       /\ \A x : In(<<op>>, x) <=> x = op
       /\ Order(<<op>>) /\ EarlyFirst(<<op>>)
       /\ op # "open" => Behind(<<op>>)
<1>1. <<>> \in Seq(Operation) /\ \A x : ~ In(<<>>, x)
  BY DEF In
<1>2. Order(<<>>) /\ EarlyFirst(<<>>) /\ Behind(<<>>)
  BY DEF Order, EarlyFirst, Behind
<1>3. ASSUME NEW op \in Operation
      PROVE  /\ <<op>> \in Seq(Operation) /\ <<op>> # <<>> /\ <<op>>[1] = op
             /\ \A x : In(<<op>>, x) <=> x = op
             /\ Order(<<op>>) /\ EarlyFirst(<<op>>)
             /\ op # "open" => Behind(<<op>>)
  <2>1. DOMAIN <<op>> = 1 .. 1 /\ <<op>>[1] = op
    OBVIOUS
  <2>a. 1 \in 1 .. 1 /\ \A i \in 1 .. 1 : i = 1
    OBVIOUS
  <2>2. \A x : In(<<op>>, x) <=> x = op
    BY <2>1, <2>a, Zenon DEF In
  <2>b. "doom" \notin Opens
    BY DEF Opens
  <2>3. Order(<<op>>) /\ EarlyFirst(<<op>>)
    BY <2>1, <2>a, <2>b, Zenon DEF Order, EarlyFirst
  <2>4. op # "open" => Behind(<<op>>)
    BY <2>1, <2>a, Zenon DEF Behind
  <2>5. <<op>> \in Seq(Operation) /\ <<op>> # <<>>
    OBVIOUS
  <2> QED BY <2>1, <2>2, <2>3, <2>4, <2>5
<1> QED BY <1>1, <1>2, <1>3

-----------------------------------------------------------------------------
(* The calls of the IO thread, and those who wait for a doom.              *)

WaitNames == {"open", "create", "doom", "doom_hash", "open_hash"}
WaiterType == [call : WaitNames, entry : {None}] \cup [call : {"notify"}, entry : Entry]
CallType ==
  WaiterType \cup [call : {"run"}, entry : Entry] \cup [call : {"doomed"}, entry : {None}]

EntriesIn(q) == {q[i].entry : i \in DOMAIN q}
Named(q, x) == \E i \in DOMAIN q : q[i].call = x
NotifyFirst(q) == \A i \in DOMAIN q : q[i].call = "notify" => i = 1
Notifies(q, e) == q # <<>> /\ q[1] = Waiter("notify", e)

\* Before OnDoomComplete only operations run, and nothing comes after it.
EndLast(q) ==
  \A i \in DOMAIN q : q[i].call = "doomed" =>
    i = Len(q) /\ \A j \in 1 .. i - 1 : q[j].call = "run"

\* The calls by their types.
LEMMA CallTypes ==
  /\ \A e \in Entry : Run(e) \in CallType /\ Waiter("notify", e) \in WaiterType
  /\ OnDoomComplete \in CallType
  /\ \A w \in WaitNames : Waiter(w, None) \in WaiterType
  /\ \A c \in WaiterType : c \in CallType /\ c.call # "doomed" /\ c.call # "run"
  /\ \A c \in CallType : /\ c.entry \in Entry \cup {None}
                         /\ c.call = "doomed" => c = OnDoomComplete
                         /\ c.call = "run" => c.entry \in Entry /\ c = Run(c.entry)
                         /\ c.call = "notify" => c.entry \in Entry /\ c = Waiter("notify", c.entry)
                         /\ c.call = "notify" \/ c.call \in WaitNames => c \in WaiterType
                         /\ c.call \in WaitNames => c.entry = None
<1>1. \A e \in Entry : Run(e) \in CallType /\ Waiter("notify", e) \in WaiterType
  BY DEF CallType, WaiterType, Run, Waiter
<1>2. OnDoomComplete \in CallType
  BY DEF CallType, OnDoomComplete
<1>3. \A w \in WaitNames : Waiter(w, None) \in WaiterType
  BY DEF WaiterType, Waiter
<1>4. \A c \in WaiterType : c \in CallType /\ c.call # "doomed" /\ c.call # "run"
  BY DEF CallType, WaiterType, WaitNames
<1>5. ASSUME NEW c \in CallType
      PROVE  /\ c.entry \in Entry \cup {None}
             /\ c.call = "doomed" => c = OnDoomComplete
             /\ c.call = "run" => c.entry \in Entry /\ c = Run(c.entry)
             /\ c.call = "notify" => c.entry \in Entry /\ c = Waiter("notify", c.entry)
             /\ c.call = "notify" \/ c.call \in WaitNames => c \in WaiterType
             /\ c.call \in WaitNames => c.entry = None
  <2>1. CASE c \in [call : WaitNames, entry : {None}]
    BY <2>1 DEF WaiterType, WaitNames
  <2>2. CASE c \in [call : {"notify"}, entry : Entry]
    BY <2>2 DEF WaiterType, Waiter, WaitNames
  <2>3. CASE c \in [call : {"run"}, entry : Entry]
    BY <2>3 DEF Run, WaitNames
  <2>4. CASE c \in [call : {"doomed"}, entry : {None}]
    BY <2>4 DEF OnDoomComplete, WaitNames
  <2> QED BY <2>1, <2>2, <2>3, <2>4 DEF CallType, WaiterType
<1> QED BY <1>1, <1>2, <1>3, <1>4, <1>5

\* What is to be called after c came before q; after the first c of q is done;
\* and who waits after c did.
Called(q, c, n) ==
  /\ n \in Seq(CallType) /\ n # <<>> /\ n[1] = c
  /\ EntriesIn(n) = EntriesIn(q) \cup {c.entry}
  /\ \A x : Named(n, x) <=> Named(q, x) \/ x = c.call
  /\ ~ Named(q, "notify") => NotifyFirst(n)
  /\ EndLast(q) /\ c.call = "run" => EndLast(n)

\* A call comes before others.
LEMMA CallingFirst ==
  ASSUME NEW q \in Seq(CallType), NEW c \in CallType, NEW n, n = <<c>> \o q
  PROVE  Called(q, c, n)
<1>1. /\ n \in Seq(CallType) /\ Len(n) = Len(q) + 1 /\ Len(q) \in Nat
      /\ n[1] = c /\ \A i \in 1 .. Len(q) : n[i + 1] = q[i]
  <2>1. <<c>> \in Seq(CallType) /\ Len(<<c>>) = 1 /\ <<c>>[1] = c
    OBVIOUS
  <2>2. n \in Seq(CallType) /\ Len(n) = 1 + Len(q)
        /\ \A i \in 1 .. Len(n) : n[i] = IF i <= 1 THEN <<c>>[i] ELSE q[i - 1]
    BY <2>1, ConcatProperties
  <2>3. Len(q) \in Nat
    BY LenProperties
  <2> QED BY <2>1, <2>2, <2>3
<1>2. DOMAIN q = 1 .. Len(q) /\ DOMAIN n = 1 .. Len(q) + 1
  BY <1>1, LenProperties
<1>3. /\ 1 \in 1 .. Len(q) + 1 /\ \A i \in 1 .. Len(q) : i + 1 \in 1 .. Len(q) + 1
      /\ \A i \in 1 .. Len(q) + 1 : i = 1 \/ (i - 1 \in 1 .. Len(q) /\ n[i] = q[i - 1])
  BY <1>1
<1>a. /\ \A i \in DOMAIN q : \E k \in DOMAIN n : n[k] = q[i]
      /\ \A k \in DOMAIN n : k = 1 \/ \E i \in DOMAIN q : n[k] = q[i]
      /\ 1 \in DOMAIN n /\ n[1] = c
  BY <1>1, <1>2, <1>3
<1>4. EntriesIn(n) = EntriesIn(q) \cup {c.entry}
  <2>1. ASSUME NEW x \in EntriesIn(n) PROVE x \in EntriesIn(q) \cup {c.entry}
    BY <1>a, <2>1 DEF EntriesIn
  <2>2. ASSUME NEW x \in EntriesIn(q) PROVE x \in EntriesIn(n)
    BY <1>a, <2>2 DEF EntriesIn
  <2>3. c.entry \in EntriesIn(n)
    BY <1>a, Zenon DEF EntriesIn
  <2> QED BY <2>1, <2>2, <2>3
<1>5. \A x : Named(n, x) <=> Named(q, x) \/ x = c.call
  <2> TAKE x
  <2>1. ASSUME Named(n, x) PROVE Named(q, x) \/ x = c.call
    <3>1. PICK k \in DOMAIN n : n[k].call = x
      BY <2>1 DEF Named
    <3> QED BY <1>a, <3>1 DEF Named
  <2>2. ASSUME Named(q, x) PROVE Named(n, x)
    <3>1. PICK k \in DOMAIN q : q[k].call = x
      BY <2>2 DEF Named
    <3> QED BY <1>a, <3>1 DEF Named
  <2>3. Named(n, c.call)
    BY <1>a DEF Named
  <2> QED BY <2>1, <2>2, <2>3
<1>6. ~ Named(q, "notify") => NotifyFirst(n)
  BY <1>a DEF Named, NotifyFirst
<1>7. EndLast(q) /\ c.call = "run" => EndLast(n)
  <2> SUFFICES ASSUME EndLast(q), c.call = "run",
                      NEW i \in 1 .. Len(q) + 1, n[i].call = "doomed"
               PROVE  i = Len(n) /\ \A j \in 1 .. i - 1 : n[j].call = "run"
    BY <1>2 DEF EndLast
  <2>1. i - 1 \in 1 .. Len(q) /\ q[i - 1].call = "doomed"
    BY <1>1, <1>3
  <2>2. i - 1 = Len(q) /\ \A j \in 1 .. i - 2 : q[j].call = "run"
    BY <1>2, <2>1 DEF EndLast
  <2>3. ASSUME NEW j \in 1 .. i - 1 PROVE n[j].call = "run"
    <3>1. CASE j = 1
      BY <1>1, <3>1
    <3>2. CASE j # 1
      <4>1. j - 1 \in 1 .. i - 2 /\ j - 1 \in 1 .. Len(q) /\ n[j] = q[j - 1]
        BY <1>1, <1>3, <2>1, <3>2
      <4> QED BY <2>2, <4>1
    <3> QED BY <3>1, <3>2
  <2> QED BY <1>1, <2>2, <2>3
<1> QED BY <1>1, <1>4, <1>5, <1>6, <1>7 DEF Called

Did(q, c, n) ==
  /\ n \in Seq(CallType) /\ c \in CallType /\ c = q[1]
  /\ EntriesIn(q) = EntriesIn(n) \cup {c.entry}
  /\ \A x : Named(q, x) <=> Named(n, x) \/ x = c.call
  /\ NotifyFirst(q) => NotifyFirst(n) /\ ~ Named(n, "notify")
  /\ EndLast(q) => EndLast(n)
  /\ EndLast(q) /\ c.call = "doomed" => n = <<>>
  /\ EndLast(q) /\ c.call # "run" => ~ Named(n, "doomed")

\* The first call is done.
LEMMA CallDone ==
  ASSUME NEW q \in Seq(CallType), q # <<>>, NEW n, n = Tail(q), NEW c, c = Head(q)
  PROVE  Did(q, c, n)
<1>1. /\ n \in Seq(CallType) /\ Len(n) = Len(q) - 1 /\ Len(q) \in Nat \ {0}
      /\ \A i \in 1 .. Len(n) : n[i] = q[i + 1]
      /\ c = q[1]
  BY HeadTailProperties, LenProperties, EmptySeq
<1>2. DOMAIN q = 1 .. Len(q) /\ DOMAIN n = 1 .. Len(n) /\ Len(n) \in Nat
  BY <1>1, LenProperties
<1>3. /\ 1 \in 1 .. Len(q) /\ \A i \in 1 .. Len(n) : i + 1 \in 1 .. Len(q) /\ i + 1 # 1
      /\ \A i \in 1 .. Len(q) : i = 1 \/ (i - 1 \in 1 .. Len(n) /\ q[i] = n[i - 1])
  BY <1>1
<1>4. c \in CallType
  BY <1>1, ElementOfSeq
<1>a. /\ \A i \in DOMAIN n : \E k \in DOMAIN q : k # 1 /\ q[k] = n[i]
      /\ \A k \in DOMAIN q : k = 1 \/ \E i \in DOMAIN n : q[k] = n[i]
      /\ 1 \in DOMAIN q /\ q[1] = c
  <2>1. ASSUME NEW i \in DOMAIN n PROVE \E k \in DOMAIN q : k # 1 /\ q[k] = n[i]
    <3>1. i \in 1 .. Len(n) /\ i + 1 \in 1 .. Len(q) /\ i + 1 # 1 /\ n[i] = q[i + 1]
      BY <1>1, <1>2, <1>3
    <3> QED BY <1>2, <3>1
  <2>2. ASSUME NEW k \in DOMAIN q, k # 1 PROVE \E i \in DOMAIN n : q[k] = n[i]
    <3>1. k - 1 \in 1 .. Len(n) /\ q[k] = n[k - 1]
      BY <1>2, <1>3, <2>2
    <3> QED BY <1>2, <3>1
  <2> QED BY <1>1, <1>2, <1>3, <2>1, <2>2
<1>5. EntriesIn(q) = EntriesIn(n) \cup {c.entry}
  <2>1. ASSUME NEW x \in EntriesIn(q) PROVE x \in EntriesIn(n) \cup {c.entry}
    <3>1. PICK k \in DOMAIN q : x = q[k].entry
      BY <2>1 DEF EntriesIn
    <3>2. CASE k = 1
      BY <1>a, <3>1, <3>2
    <3>3. CASE k # 1
      <4>1. PICK i \in DOMAIN n : q[k] = n[i]
        BY <1>a, <3>3
      <4> QED BY <3>1, <4>1 DEF EntriesIn
    <3> QED BY <3>2, <3>3
  <2>2. ASSUME NEW x \in EntriesIn(n) PROVE x \in EntriesIn(q)
    BY <1>a, <2>2 DEF EntriesIn
  <2>3. c.entry \in EntriesIn(q)
    BY <1>a, Zenon DEF EntriesIn
  <2> QED BY <2>1, <2>2, <2>3
<1>6. \A x : Named(q, x) <=> Named(n, x) \/ x = c.call
  <2> TAKE x
  <2>1. ASSUME Named(q, x) PROVE Named(n, x) \/ x = c.call
    <3>1. PICK k \in DOMAIN q : q[k].call = x
      BY <2>1 DEF Named
    <3> QED BY <1>a, <3>1 DEF Named
  <2>2. ASSUME Named(n, x) PROVE Named(q, x)
    <3>1. PICK k \in DOMAIN n : n[k].call = x
      BY <2>2 DEF Named
    <3> QED BY <1>a, <3>1 DEF Named
  <2>3. Named(q, c.call)
    BY <1>a DEF Named
  <2> QED BY <2>1, <2>2, <2>3
<1>7. NotifyFirst(q) => NotifyFirst(n) /\ ~ Named(n, "notify")
  BY <1>a DEF Named, NotifyFirst
<1>8. ASSUME EndLast(q), NEW i \in 1 .. Len(n), n[i].call = "doomed"
      PROVE  i = Len(n) /\ (\A j \in 1 .. i - 1 : n[j].call = "run") /\ c.call = "run"
  <2>1. i + 1 \in 1 .. Len(q) /\ q[i + 1].call = "doomed"
    <3>1. n[i] = q[i + 1]
      BY <1>1
    <3> QED BY <1>3, <1>8, <3>1
  <2>2. i + 1 = Len(q) /\ \A j \in 1 .. i + 1 - 1 : q[j].call = "run"
    <3>1. i + 1 \in DOMAIN q
      BY <1>2, <2>1
    <3> QED BY <1>8, <2>1, <3>1 DEF EndLast
  <2>3. \A j \in 1 .. i - 1 : j \in 1 .. Len(n) /\ j + 1 \in 1 .. i + 1 - 1
    BY <1>1, <1>2
  <2>4. 1 \in 1 .. i + 1 - 1
    BY <1>2
  <2>5. i = Len(n)
    <3>1. Len(n) \in Int /\ Len(q) \in Int /\ i \in Int
      BY <1>1, <1>2
    <3>2. \A a, b, d \in Int : a + 1 = b /\ d = b - 1 => a = d
      OBVIOUS
    <3> QED BY <1>1, <2>2, <3>1, <3>2, Zenon
  <2>6. c.call = "run"
    BY <1>1, <2>2, <2>4
  <2>7. ASSUME NEW j \in 1 .. i - 1 PROVE n[j].call = "run"
    <3>1. n[j] = q[j + 1]
      BY <1>1, <2>3
    <3> QED BY <2>2, <2>3, <3>1
  <2> QED BY <2>5, <2>6, <2>7
<1>9. EndLast(q) => EndLast(n)
  BY <1>2, <1>8 DEF EndLast
<1>10. EndLast(q) /\ c.call = "doomed" => n = <<>>
  <2> SUFFICES ASSUME EndLast(q), c.call = "doomed" PROVE n = <<>>
    OBVIOUS
  <2>1. 1 = Len(q)
    BY <1>1, <1>2, <1>3 DEF EndLast
  <2> QED BY <1>1, <2>1, EmptySeq
<1>11. EndLast(q) /\ c.call # "run" => ~ Named(n, "doomed")
  BY <1>2, <1>8 DEF Named
<1> QED BY <1>1, <1>4, <1>5, <1>6, <1>7, <1>9, <1>10, <1>11 DEF Did

Waited(q, c, n) ==
  /\ n \in Seq(WaiterType) /\ n # <<>>
  /\ EntriesIn(n) = EntriesIn(q) \cup {c.entry}
  /\ \A x : Named(n, x) <=> Named(q, x) \/ x = c.call
  /\ NotifyFirst(q) /\ (c.call # "notify" \/ q = <<>>) => NotifyFirst(n)
  /\ q # <<>> => n[1] = q[1]
  /\ q = <<>> => n[1] = c

\* One more waits.
LEMMA Waiting ==
  ASSUME NEW q \in Seq(WaiterType), NEW c \in WaiterType, NEW n, n = Append(q, c)
  PROVE  Waited(q, c, n)
<1>1. /\ n \in Seq(WaiterType) /\ Len(n) = Len(q) + 1 /\ Len(q) \in Nat
      /\ \A i \in 1 .. Len(q) : n[i] = q[i]
      /\ n[Len(q) + 1] = c
  BY AppendProperties, LenProperties
<1>2. DOMAIN q = 1 .. Len(q) /\ DOMAIN n = 1 .. Len(q) + 1
  BY <1>1, LenProperties
<1>3. /\ Len(q) + 1 \in 1 .. Len(q) + 1 /\ \A i \in 1 .. Len(q) : i \in 1 .. Len(q) + 1
      /\ \A i \in 1 .. Len(q) + 1 : i = Len(q) + 1 \/ i \in 1 .. Len(q)
  BY <1>1
<1>4. EntriesIn(n) = EntriesIn(q) \cup {c.entry}
  BY <1>1, <1>2, <1>3, Zenon DEF EntriesIn
<1>5. \A x : Named(n, x) <=> Named(q, x) \/ x = c.call
  BY <1>1, <1>2, <1>3, Zenon DEF Named
<1>6. q = <<>> => Len(q) = 0 /\ n[1] = c
  BY <1>1
<1>7. NotifyFirst(q) /\ c.call # "notify" => NotifyFirst(n)
  BY <1>1, <1>2, <1>3, Zenon DEF NotifyFirst
<1>8. q = <<>> => NotifyFirst(n)
  BY <1>1, <1>2, <1>6 DEF NotifyFirst
<1>9. q # <<>> => n[1] = q[1]
  BY <1>1, <1>2, EmptySeq
<1>10. n # <<>>
  BY <1>1
<1> QED BY <1>1, <1>4, <1>5, <1>6, <1>7, <1>8, <1>9, <1>10 DEF Waited

\* No calls, and the calls of those who waited.
LEMMA SmallCalls ==
  /\ <<>> \in Seq(CallType) /\ <<>> \in Seq(WaiterType)
  /\ EntriesIn(<<>>) = {} /\ NotifyFirst(<<>>) /\ EndLast(<<>>)
  /\ \A x : ~ Named(<<>>, x)
  /\ \A q \in Seq(WaiterType) :
       q \in Seq(CallType) /\ EndLast(q) /\ ~ Named(q, "doomed") /\ ~ Named(q, "run")
  /\ NoDoom \notin Seq(WaiterType) /\ EntriesIn(NoDoom) = {None} /\ NotifyFirst(NoDoom)
  /\ NoDoom # <<>> /\ NoDoom[1].call = "no_doom"
  /\ \A x : Named(NoDoom, x) <=> x = "no_doom"
<1>1. <<>> \in Seq(CallType) /\ <<>> \in Seq(WaiterType)
  OBVIOUS
<1>2. EntriesIn(<<>>) = {} /\ NotifyFirst(<<>>) /\ EndLast(<<>>) /\ \A x : ~ Named(<<>>, x)
  BY DEF EntriesIn, NotifyFirst, EndLast, Named
<1>3. ASSUME NEW q \in Seq(WaiterType)
      PROVE  q \in Seq(CallType) /\ EndLast(q) /\ ~ Named(q, "doomed") /\ ~ Named(q, "run")
  <2>1. DOMAIN q = 1 .. Len(q) /\ \A i \in 1 .. Len(q) : q[i] \in WaiterType
    BY LenProperties, ElementOfSeq
  <2>2. \A i \in DOMAIN q : q[i] \in CallType /\ q[i].call # "doomed" /\ q[i].call # "run"
    BY <2>1, CallTypes
  <2>3. Len(q) \in Nat /\ q = [i \in 1 .. Len(q) |-> q[i]]
    BY LenProperties
  <2>4. q \in Seq(CallType)
    BY <2>1, <2>2, <2>3, IsASeq
  <2> QED BY <2>2, <2>4 DEF EndLast, Named
<1>4. DOMAIN NoDoom = 1 .. 1 /\ NoDoom[1] = Waiter("no_doom", None) /\ NoDoom # <<>> /\ Len(NoDoom) = 1
  BY DEF NoDoom
<1>5. NoDoom[1].call = "no_doom" /\ NoDoom[1].entry = None
  BY <1>4 DEF Waiter
<1>6. 1 \in 1 .. 1 /\ \A i \in 1 .. 1 : i = 1
  OBVIOUS
<1>7. NoDoom \notin Seq(WaiterType)
  <2> SUFFICES ASSUME NoDoom \in Seq(WaiterType) PROVE FALSE
    OBVIOUS
  <2>1. NoDoom[1] \in WaiterType
    BY <1>4, ElementOfSeq
  <2> QED BY <1>5, <2>1 DEF WaiterType, WaitNames
<1>8. /\ EntriesIn(NoDoom) = {None} /\ NotifyFirst(NoDoom)
      /\ \A x : Named(NoDoom, x) <=> x = "no_doom"
  BY <1>4, <1>5, <1>6, Zenon DEF EntriesIn, NotifyFirst, Named
<1> QED BY <1>1, <1>2, <1>3, <1>4, <1>5, <1>7, <1>8

-----------------------------------------------------------------------------
(* The entries.                                                            *)

Result == {"ok", "exists", "failed"}
MaybeFile == File \cup {None}
TaskOps == {"none", "open", "open_hash", "create", "create_early", "read", "write",
            "write_omitted", "doom"}
TaskType(ops) == [op : ops, done : BOOLEAN, result : Result, file : MaybeFile,
                  restore : States \cup {"none"}, doomed : BOOLEAN]
Records == [state : States, pending : Seq(Operation), doomed : BOOLEAN,
            create : {"normal", "pending_doom", "pending_then_doom"},
            open_count : Nat, file : MaybeFile,
            task : TaskType(TaskOps), closing : TaskType({"none", "close"})]

Busy(r) == r.task.op # "none"
Closing(r) == r.closing.op # "none"
Kept(r) == r.open_count > 0 \/ In(r.pending, "close")
IsHash(r) == In(r.pending, "open_hash") \/ r.task.op = "open_hash"
Opening == {"open", "open_hash", "create", "create_early"}

\* Entries not in use, and tasks that are none.
Blank(r) ==
  /\ r.state = "unused" => r = Unused
  /\ ~ Busy(r) => r.task = NoTask
  /\ ~ Closing(r) => r.closing = NoTask

\* What a task may say.
Tasks(r) ==
  /\ r.task.doomed => r.doomed
  /\ r.task.op \in Uses /\ r.task.done => r.task.result \in {"ok", "failed"}
  /\ r.task.op \in Opening /\ r.task.done /\ r.task.result = "ok" => r.task.file # None
  /\ r.closing.done => Closing(r)
  /\ r.task.done => Busy(r)

\* STATE_IO_PENDING ends; the holders of the files close them.
Ends(r) ==
  /\ r.state = "io" => Busy(r) \/ Closing(r) \/ r.create # "normal"
  /\ r.state = "ready" => ~ Busy(r)
  /\ r.file # None => Kept(r)

\* An entry that was created before the doom of its files was done.
Early(r) ==
  r.create # "normal" =>
    /\ r.state = "io" /\ ~ Busy(r) /\ ~ Closing(r) /\ r.file = None
    /\ r.pending # <<>> /\ r.pending[1] = "create_early"
    /\ r.create = "pending_doom" => ~ r.doomed
    /\ r.create = "pending_then_doom" => r.doomed /\ In(r.pending, "doom")

\* An entry that was returned before it was created.
Returned(r) ==
  /\ EarlyFirst(r.pending)
  /\ In(r.pending, "create_early") =>
       /\ ~ Busy(r) /\ ~ Closing(r) /\ r.file = None /\ Kept(r)
       /\ r.state = "uninitialized" \/ r.create # "normal"
  /\ r.task.op = "create_early" =>
       ~ Closing(r) /\ r.file = None /\ r.state = "io" /\ Kept(r)

\* An entry is doomed once, and not opened or created afterwards.
DoomedOnce(r) ==
  /\ Order(r.pending)
  /\ In(r.pending, "doom") => r.doomed
  /\ r.task.op = "doom" =>
       /\ r.doomed /\ ~ In(r.pending, "doom") /\ ~ OpenIn(r.pending)
       /\ r.task.restore \notin {"io", "unused", "none"}

\* An entry that an iterator opens.
Hashed(r) ==
  /\ In(r.pending, "open_hash") =>
       r.pending = <<"open_hash">> /\ r.open_count = 0 /\ ~ r.doomed /\ ~ Busy(r)
  /\ r.task.op = "open_hash" =>
       r.pending = <<>> /\ r.open_count = 0 /\ ~ r.doomed

\* An entry for which nothing failed.
Clean(r) ==
  /\ r.state # "failure"
  /\ r.state = "uninitialized" => r.file = None /\ ~ Busy(r) /\ ~ Closing(r)
  /\ r.state = "ready" => r.file # None /\ ~ Busy(r) /\ ~ Closing(r)
  /\ Closing(r) => r.state = "io" /\ ~ Busy(r) /\ r.file = None
  /\ Busy(r) => r.state = "io" /\ ~ Closing(r)
  /\ r.task.op \in Opening => r.file = None
  /\ r.task.op \in Uses => r.file # None
  /\ r.task.op = "doom" => /\ r.task.restore \in {"uninitialized", "ready"}
                           /\ r.task.restore = "ready" <=> r.file # None

\* Nothing that would fail.
Calm(r) ==
  /\ ~ In(r.pending, "write_omitted") /\ r.task.op # "write_omitted"
  /\ r.task.op \in Uses /\ r.task.done => r.task.result = "ok"

RInv(r) ==
  Blank(r) /\ Tasks(r) /\ Ends(r) /\ Early(r) /\ Returned(r) /\ DoomedOnce(r) /\ Hashed(r)
Sound(r, faults) ==
  /\ RInv(r)
  /\ faults = {} => Calm(r)
  /\ faults = {} \/ ~ r.doomed => Clean(r)

-----------------------------------------------------------------------------
(* The invariant of the entries and of the calls.                          *)

Typed ==
  /\ entry \in [Entry -> Records]
  /\ active \in Entry \cup {None}
  /\ dooming = NoDoom \/ dooming \in Seq(WaiterType)
  /\ index \in BOOLEAN
  /\ mass \in {"none", "posted", "done"}
  /\ opened \in SUBSET Entry
  /\ calls \in Seq(CallType)
  /\ linked \in MaybeFile
  /\ clients \in [left : Nat, scenario : Scenarios]
  /\ clients.left \in 0 .. clients.scenario.calls

Sane == \A e \in Entry : Sound(entry[e], Faults)

\* Nothing refers to an entry that is not in use.
Alive ==
  \A e \in Entry : Free(e) =>
    e \notin EntriesIn(calls) /\ e \notin EntriesIn(dooming) /\ e \notin opened /\ active # e

\* The active entry, and those that an iterator has just opened.
ActiveIsGood ==
  active # None =>
    ~ entry[active].doomed /\ ~ IsHash(entry[active]) /\ active \notin opened

Lone(r) ==
  /\ r.open_count = 1 /\ r.pending = <<>> /\ ~ Busy(r) /\ ~ Closing(r)
  /\ ~ r.doomed /\ r.create = "normal"
OpenedAreLone == \A e \in opened : Lone(entry[e])

\* NotifyDoomBeforeCreateComplete waits for a doom, or is the next call.
Notified ==
  /\ NotifyFirst(calls) /\ NotifyFirst(dooming)
  /\ Named(calls, "notify") => dooming = NoDoom
  /\ \A e \in Entry :
       entry[e].create # "normal" <=> Notifies(dooming, e) \/ Notifies(calls, e)

AInv ==
  Typed /\ Sane /\ Alive /\ ActiveIsGood /\ OpenedAreLone /\ Notified /\ EndLast(calls)

-----------------------------------------------------------------------------
(* What the operations do to an entry.                                     *)

\* No entry and no file is None; the fields of NoTask.
LEMMA Constants ==
  /\ None \notin Entry /\ None \notin File /\ None \in MaybeFile /\ None = 0
  /\ NoTask \in TaskType(TaskOps) /\ NoTask \in TaskType({"none", "close"})
  /\ NoTask.op = "none" /\ ~ NoTask.done /\ NoTask.result = "ok" /\ NoTask.file = None
  /\ NoTask.restore = "none" /\ ~ NoTask.doomed
<1>1. None \notin Entry /\ None \notin File /\ None \in MaybeFile /\ None = 0
  BY SimpleCacheAssumption DEF None, Entry, File, MaybeFile
<1>2. NoTask \in TaskType(TaskOps) /\ NoTask \in TaskType({"none", "close"})
  BY <1>1 DEF NoTask, TaskType, TaskOps, Result, States
<1> QED BY <1>1, <1>2 DEF NoTask

\* The fields of an entry that is not in use.
LEMMA UnusedIs ==
  /\ Unused \in Records
  /\ Unused.state = "unused" /\ Unused.pending = <<>> /\ ~ Unused.doomed
  /\ Unused.create = "normal" /\ Unused.open_count = 0 /\ Unused.file = None
  /\ Unused.task = NoTask /\ Unused.closing = NoTask
BY Constants, SmallQueues DEF Unused, Records, States

\* An entry that is not in use is sound.
LEMMA UnusedSound == \A faults : Sound(Unused, faults)
<1>1. Blank(Unused) /\ Tasks(Unused) /\ Ends(Unused) /\ Early(Unused)
  BY UnusedIs, Constants DEF Blank, Tasks, Ends, Early, Busy, Closing, Uses, Opening
<1>2. Returned(Unused) /\ DoomedOnce(Unused) /\ Hashed(Unused)
  BY UnusedIs, Constants, SmallQueues DEF Returned, DoomedOnce, Hashed
<1>3. Clean(Unused) /\ Calm(Unused)
  BY UnusedIs, Constants, SmallQueues DEF Clean, Calm, Busy, Closing, Uses, Opening
<1> QED BY <1>1, <1>2, <1>3 DEF Sound, RInv

\* The members of an entry in use.
LEMMA RecordOf ==
  ASSUME NEW r \in Records
  PROVE  /\ r.state \in States /\ r.pending \in Seq(Operation) /\ r.doomed \in BOOLEAN
         /\ r.create \in {"normal", "pending_doom", "pending_then_doom"}
         /\ r.open_count \in Nat /\ r.file \in MaybeFile
         /\ r.task \in TaskType(TaskOps) /\ r.closing \in TaskType({"none", "close"})
BY DEF Records

\* The fields of a task.
LEMMA TaskOf ==
  ASSUME NEW S, NEW t \in TaskType(S)
  PROVE  /\ t.op \in S /\ t.done \in BOOLEAN /\ t.result \in Result /\ t.file \in MaybeFile
         /\ t.restore \in States \cup {"none"} /\ t.doomed \in BOOLEAN
BY DEF TaskType

\* An operation is queued that does not doom the entry.
PushStep(r, n, op) ==
  /\ n \in Records /\ op \in {"open", "read", "write", "write_omitted", "close"}
  /\ n.state = r.state /\ n.doomed = r.doomed /\ n.create = r.create
  /\ n.open_count \in {r.open_count, r.open_count - 1} /\ n.file = r.file
  /\ n.task = r.task /\ n.closing = r.closing /\ Pushed(r.pending, op, n.pending)
  /\ ~ IsHash(r) /\ r.state # "unused"
  /\ op = "open" => ~ r.doomed
  /\ op = "close" \/ n.open_count = r.open_count

\* An operation queued by OpenEntry, ReadData, WriteData or Close keeps an
\* entry sound.
LEMMA PushSound ==
  ASSUME NEW r \in Records, NEW n, NEW faults, Sound(r, faults), NEW op, faults = {} => op # "write_omitted", PushStep(r, n, op)
  PROVE  Sound(n, faults)
<1> USE DEF PushStep
<1>q. op # "create_early" /\ op # "doom" /\ (op # "open" => op \notin Opens)
  BY DEF Opens
<1>k. Kept(r) => Kept(n)
  BY DEF Kept, Pushed
<1>5. Blank(n) /\ Tasks(n) /\ Ends(n) /\ Early(n)
  BY <1>k DEF Sound, RInv, Blank, Tasks, Ends, Early, Busy, Closing, Pushed
<1>6. Returned(n)
  BY <1>k, <1>q DEF Sound, RInv, Returned, Busy, Closing, Pushed
<1>7. DoomedOnce(n)
  BY <1>q DEF Sound, RInv, DoomedOnce, OpenIn, CreateIn, Pushed
<1>8. Hashed(n)
  BY DEF Sound, RInv, Hashed, IsHash, Pushed
<1>9. (Clean(r) => Clean(n)) /\ (Calm(r) /\ op # "write_omitted" => Calm(n))
  BY DEF Clean, Calm, Busy, Closing, Pushed
<1> QED BY <1>5, <1>6, <1>7, <1>8, <1>9 DEF Sound, RInv

\* DoomEntry.
DoomStep(r, n) ==
  /\ n \in Records /\ n.state = r.state /\ n.doomed
  /\ n.create = IF r.create = "normal" THEN "normal" ELSE "pending_then_doom"
  /\ n.open_count = r.open_count /\ n.file = r.file /\ n.task = r.task
  /\ n.closing = r.closing /\ Pushed(r.pending, "doom", n.pending) /\ ~ IsHash(r)
  /\ r.state # "unused" /\ ~ r.doomed

\* DoomEntry keeps an entry sound.
LEMMA DoomSound ==
  ASSUME NEW r \in Records, NEW n, NEW faults, Sound(r, faults), DoomStep(r, n)
  PROVE  Sound(n, faults)
<1> USE DEF DoomStep
<1>k. Kept(r) => Kept(n)
  BY DEF Kept, Pushed
<1>5. Blank(n) /\ Tasks(n) /\ Ends(n) /\ Early(n)
  BY <1>k DEF Sound, RInv, Blank, Tasks, Ends, Early, Busy, Closing, Pushed
<1>6. Returned(n)
  BY <1>k DEF Sound, RInv, Returned, Busy, Closing, Pushed
<1>7. DoomedOnce(n)
  BY DEF Sound, RInv, DoomedOnce, OpenIn, CreateIn, Pushed
<1>8. Hashed(n)
  BY DEF Sound, RInv, Hashed, IsHash, Pushed
<1>9. (Clean(r) => Clean(n)) /\ (Calm(r) => Calm(n))
  BY DEF Clean, Calm, Busy, Closing, Pushed
<1> QED BY <1>5, <1>6, <1>7, <1>8, <1>9 DEF Sound, RInv

\* CreateEntry of the active entry.
CreateStep(r, n, op) ==
  /\ n \in Records /\ op \in Creates
  /\ op = "create_early" => r.state = "uninitialized" /\ r.pending = <<>>
  /\ n.state = IF r.create # "normal" THEN "io" ELSE r.state
  /\ n.doomed = r.doomed /\ n.create = r.create /\ n.file = r.file
  /\ n.open_count = IF op = "create_early" THEN r.open_count + 1 ELSE r.open_count
  /\ n.task = r.task /\ n.closing = r.closing /\ Pushed(r.pending, op, n.pending)
  /\ ~ IsHash(r) /\ r.state # "unused" /\ ~ r.doomed

\* CreateEntry on an entry that exists keeps it sound.
LEMMA CreateSound ==
  ASSUME NEW r \in Records, NEW n, NEW faults, Sound(r, faults), NEW op, CreateStep(r, n, op)
  PROVE  Sound(n, faults)
<1> USE DEF CreateStep
<1>a. op = "create" \/ op = "create_early"
  BY DEF Creates
<1>s. n.state = r.state
  BY DEF Sound, RInv, Early
<1>k. (Kept(r) => Kept(n)) /\ (op = "create_early" => Kept(n))
  BY RecordOf DEF Kept, Pushed
<1>5. Blank(n) /\ Tasks(n) /\ Ends(n) /\ Early(n)
  BY <1>k, <1>s DEF Sound, RInv, Blank, Tasks, Ends, Early, Busy, Closing, Pushed
<1>6. Returned(n)
  BY <1>a, <1>k, <1>s DEF Sound, RInv, Returned, Clean, Busy, Closing, Pushed
<1>7. DoomedOnce(n)
  BY <1>a DEF Sound, RInv, DoomedOnce, OpenIn, CreateIn, Pushed
<1>8. Hashed(n)
  BY <1>a DEF Sound, RInv, Hashed, IsHash, Pushed
<1>9. (Clean(r) => Clean(n)) /\ (Calm(r) => Calm(n))
  BY <1>a, <1>s DEF Clean, Calm, Busy, Closing, Pushed
<1> QED BY <1>5, <1>6, <1>7, <1>8, <1>9 DEF Sound, RInv

\* A new entry: its first operation.
NewStep(n, op) ==
  /\ n \in Records /\ op \in Operation /\ n.pending = <<op>> /\ n.file = None
  /\ n.task = NoTask /\ n.closing = NoTask
  /\ \/ /\ op \in {"open", "open_hash", "create"} /\ n.state = "uninitialized"
        /\ ~ n.doomed /\ n.create = "normal" /\ n.open_count = 0
     \/ /\ op = "create_early" /\ ~ n.doomed /\ n.open_count = 1
        /\ \/ n.state = "uninitialized" /\ n.create = "normal"
           \/ n.state = "io" /\ n.create = "pending_doom"
     \/ /\ op = "doom" /\ n.state = "uninitialized"
        /\ n.doomed /\ n.create = "normal" /\ n.open_count = 0

\* A new entry is sound, and its queue holds the operation it was made for.
LEMMA NewSound ==
  ASSUME NEW n, NEW faults, NEW op, NewStep(n, op)
  PROVE  Sound(n, faults) /\ \A x : In(n.pending, x) <=> x = op
<1> USE DEF NewStep
<1>1. /\ n.pending # <<>> /\ n.pending[1] = op /\ \A x : In(n.pending, x) <=> x = op
      /\ Order(n.pending) /\ EarlyFirst(n.pending)
  BY SmallQueues
<1>2. ~ Busy(n) /\ ~ Closing(n) /\ ~ n.task.done /\ ~ n.closing.done /\ ~ n.task.doomed
  BY Constants DEF Busy, Closing
<1>3. Blank(n) /\ Tasks(n) /\ Ends(n) /\ Early(n)
  BY <1>1, <1>2 DEF Blank, Tasks, Ends, Early
<1>4. Returned(n)
  BY <1>1, <1>2 DEF Returned, Kept, Busy
<1>5. DoomedOnce(n)
  BY <1>1, <1>2 DEF DoomedOnce, Busy
<1>6. Hashed(n)
  BY <1>1, <1>2 DEF Hashed, Busy
<1>7. Clean(n) /\ Calm(n)
  BY <1>1, <1>2 DEF Clean, Calm, Busy, Closing, Opening, Uses
<1> QED BY <1>1, <1>3, <1>4, <1>5, <1>6, <1>7 DEF Sound, RInv

\* An operation is posted to a worker.
PostStep(r, n, op) ==
  /\ n \in Records /\ op \in Operation /\ op # "close"
  /\ op \in Opening => r.state = "uninitialized"
  /\ op \in Uses => r.state = "ready"
  /\ r.state # "io" /\ r.task = NoTask /\ n.state = "io" /\ n.doomed = r.doomed
  /\ n.create = r.create /\ n.open_count = r.open_count /\ n.file = r.file
  /\ n.closing = r.closing /\ n.task.op = op /\ ~ n.task.done /\ n.task.file = r.file
  /\ n.task.doomed = r.doomed /\ n.task.restore = r.state
  /\ Popped(r.pending, op, n.pending) /\ r.pending # <<>>

\* An operation posted to a worker keeps an entry sound.
LEMMA PostSound ==
  ASSUME NEW r \in Records, NEW n, NEW faults, Sound(r, faults), NEW op, PostStep(r, n, op)
  PROVE  Sound(n, faults)
<1> USE DEF PostStep
<1>a. r.create = "normal" /\ r.state # "unused" /\ r.state # "none"
  BY UnusedIs, RecordOf DEF Sound, RInv, Early, Blank, States
<1>b. Busy(n) /\ ~ Busy(r)
  BY Constants DEF Busy, Operation
<1>k. Kept(r) => Kept(n)
  BY DEF Kept, Popped
<1>5. Blank(n) /\ Tasks(n) /\ Ends(n) /\ Early(n)
  BY <1>a, <1>b, <1>k DEF Sound, RInv, Blank, Tasks, Ends, Early, Closing
<1>6. Returned(n)
  BY <1>a, <1>b, <1>k DEF Sound, RInv, Returned, Busy, Closing, Popped
<1>7. DoomedOnce(n)
  BY <1>a DEF Sound, RInv, DoomedOnce, OpenIn, CreateIn, Popped
<1>h. In(r.pending, "open_hash") => n.pending = <<>> /\ op = "open_hash"
  BY DEF Sound, RInv, Hashed, Popped
<1>i. ~ In(n.pending, "open_hash") /\ (op = "open_hash" => In(r.pending, "open_hash"))
  BY <1>h, SmallQueues DEF Popped
<1>8. Hashed(n)
  BY <1>b, <1>h, <1>i DEF Sound, RInv, Hashed, Busy
<1>9. Clean(r) => Clean(n)
  BY <1>a, <1>b, RecordOf DEF Clean, Closing, Opening, Uses, Operation, States
<1>10. Calm(r) => Calm(n)
  BY DEF Calm, Popped
<1> QED BY <1>5, <1>6, <1>7, <1>8, <1>9, <1>10 DEF Sound, RInv

\* An operation ends at once: an entry is opened again, or nothing happens.
AtOnceStep(r, n, op) ==
  /\ n \in Records /\ op \in Operation /\ op # "close" /\ op # "doom"
  /\ r.state # "io" /\ n.state = r.state /\ n.doomed = r.doomed
  /\ n.create = r.create
  /\ op \in Opening => r.state # "uninitialized"
  /\ \/ n.open_count = r.open_count
     \/ /\ n.open_count = r.open_count + 1
        /\ op \in {"open", "open_hash"} /\ r.state = "ready"
  /\ n.file = r.file /\ n.closing = r.closing /\ n.task = r.task
  /\ Popped(r.pending, op, n.pending) /\ r.pending # <<>>

\* An operation that ends at once keeps an entry sound.
LEMMA AtOnceSound ==
  ASSUME NEW r \in Records, NEW n, NEW faults, Sound(r, faults), NEW op, AtOnceStep(r, n, op)
  PROVE  Sound(n, faults)
<1> USE DEF AtOnceStep
<1>a. r.create = "normal" /\ r.state # "unused"
  BY UnusedIs DEF Sound, RInv, Early, Blank
<1>b. (Busy(n) <=> Busy(r)) /\ (Closing(n) <=> Closing(r))
  BY DEF Busy, Closing
<1>k. Kept(r) => Kept(n)
  BY RecordOf DEF Kept, Popped
<1>5. Blank(n) /\ Tasks(n) /\ Ends(n) /\ Early(n)
  BY <1>a, <1>b, <1>k DEF Sound, RInv, Blank, Tasks, Ends, Early
<1>6. Returned(n)
  BY <1>a, <1>b, <1>k DEF Sound, RInv, Returned, Popped
<1>7. DoomedOnce(n)
  BY <1>a DEF Sound, RInv, DoomedOnce, OpenIn, CreateIn, Popped
<1>h. In(r.pending, "open_hash") => n.pending = <<>> /\ op = "open_hash"
  BY DEF Sound, RInv, Hashed, Popped
<1>i. ~ In(n.pending, "open_hash") /\ (op = "open_hash" => In(r.pending, "open_hash"))
  BY <1>h, SmallQueues DEF Popped
<1>8. Hashed(n)
  BY <1>b, <1>h, <1>i DEF Sound, RInv, Hashed, Busy
<1>9. (Clean(r) => Clean(n)) /\ (Calm(r) => Calm(n))
  BY <1>b DEF Clean, Calm, Popped
<1> QED BY <1>5, <1>6, <1>7, <1>8, <1>9 DEF Sound, RInv

\* The last holder is gone: the files are closed by a worker, or there are none.
ClosingStep(r, n) ==
  /\ n \in Records /\ r.state # "io" /\ n.doomed = r.doomed /\ n.create = r.create
  /\ n.open_count = r.open_count /\ n.file = None /\ n.task = r.task
  /\ \/ /\ r.file # None /\ r.closing = NoTask
        /\ n.closing.op = "close" /\ ~ n.closing.done /\ n.closing.file = r.file
        /\ n.state = IF r.state = "ready" THEN "io" ELSE r.state
     \/ r.file = None /\ n.closing = r.closing /\ n.state = "uninitialized"
  /\ Popped(r.pending, "close", n.pending) /\ r.pending # <<>>

\* CloseInternal keeps an entry sound.
LEMMA ClosingSound ==
  ASSUME NEW r \in Records, NEW n, NEW faults, Sound(r, faults), ClosingStep(r, n)
  PROVE  Sound(n, faults)
<1> USE DEF ClosingStep
<1>a. r.create = "normal" /\ r.state # "unused"
  BY UnusedIs DEF Sound, RInv, Early, Blank
<1>b. (Busy(n) <=> Busy(r)) /\ ("close" # "open_hash")
  BY DEF Busy
<1>5. Blank(n) /\ Tasks(n) /\ Ends(n) /\ Early(n)
  BY <1>a, <1>b DEF Sound, RInv, Blank, Tasks, Ends, Early, Closing
<1>6. Returned(n)
  BY <1>a, <1>b DEF Sound, RInv, Returned, Popped
<1>7. DoomedOnce(n)
  BY <1>a DEF Sound, RInv, DoomedOnce, OpenIn, CreateIn, Popped
<1>8. Hashed(n)
  BY <1>b DEF Sound, RInv, Hashed, Popped
<1>9. Clean(r) => Clean(n)
  BY <1>a, <1>b, RecordOf DEF Clean, Closing, States, Opening, Uses, Busy
<1>10. Calm(r) => Calm(n)
  BY DEF Calm, Popped
<1> QED BY <1>5, <1>6, <1>7, <1>8, <1>9, <1>10 DEF Sound, RInv

\* NotifyDoomBeforeCreateComplete.
NotifyStep(r, n) ==
  /\ n \in Records /\ r.create # "normal" /\ n.state = "uninitialized"
  /\ n.create = "normal" /\ n.doomed = r.doomed /\ n.pending = r.pending
  /\ n.open_count = r.open_count /\ n.file = r.file /\ n.task = r.task
  /\ n.closing = r.closing

\* NotifyDoomBeforeCreateComplete keeps an entry sound.
LEMMA NotifySound ==
  ASSUME NEW r \in Records, NEW n, NEW faults, Sound(r, faults), NotifyStep(r, n)
  PROVE  Sound(n, faults)
<1> USE DEF NotifyStep
<1>b. (Busy(n) <=> Busy(r)) /\ (Closing(n) <=> Closing(r)) /\ (Kept(n) <=> Kept(r))
  BY DEF Busy, Closing, Kept
<1>5. Blank(n) /\ Tasks(n) /\ Ends(n) /\ Early(n)
  BY <1>b DEF Sound, RInv, Blank, Tasks, Ends, Early
<1>6. Returned(n)
  BY <1>b DEF Sound, RInv, Returned, Early, Busy
<1>7. DoomedOnce(n) /\ Hashed(n)
  BY <1>b DEF Sound, RInv, DoomedOnce, Hashed
<1>9. (Clean(r) => Clean(n)) /\ (Calm(r) => Calm(n))
  BY <1>b DEF Sound, RInv, Early, Clean, Calm, Busy, Closing, Opening, Uses
<1> QED BY <1>5, <1>6, <1>7, <1>9 DEF Sound, RInv

\* One of several holders is gone.
FewerStep(r, n) ==
  /\ n \in Records /\ r.open_count > 1 /\ n.open_count = r.open_count - 1
  /\ n.state = r.state /\ n.create = r.create /\ n.doomed = r.doomed
  /\ n.pending = r.pending /\ n.file = r.file /\ n.task = r.task
  /\ n.closing = r.closing

\* A Close by a holder who is not the last keeps an entry sound.
LEMMA FewerSound ==
  ASSUME NEW r \in Records, NEW n, NEW faults, Sound(r, faults), FewerStep(r, n)
  PROVE  Sound(n, faults)
<1> USE DEF FewerStep
<1>b. (Busy(n) <=> Busy(r)) /\ (Closing(n) <=> Closing(r)) /\ (Kept(r) => Kept(n))
  BY RecordOf DEF Busy, Closing, Kept
<1>c. r.state # "unused" /\ r.open_count # 0
  BY UnusedIs, RecordOf DEF Sound, RInv, Blank
<1>5. Blank(n) /\ Tasks(n) /\ Ends(n) /\ Early(n)
  BY <1>b, <1>c DEF Sound, RInv, Blank, Tasks, Ends, Early
<1>6. Returned(n)
  BY <1>b DEF Sound, RInv, Returned
<1>7. DoomedOnce(n) /\ Hashed(n)
  BY <1>b, <1>c DEF Sound, RInv, DoomedOnce, Hashed
<1>9. (Clean(r) => Clean(n)) /\ (Calm(r) => Calm(n))
  BY <1>b DEF Clean, Calm
<1> QED BY <1>5, <1>6, <1>7, <1>9 DEF Sound, RInv

\* A worker is done with a task.
WorkStep(r, n, faults) ==
  /\ n \in Records /\ Busy(r) /\ ~ r.task.done /\ n.task.op = r.task.op
  /\ n.task.done /\ n.task.restore = r.task.restore /\ n.task.doomed = r.task.doomed
  /\ r.task.op \in Uses => /\ n.task.result \in {"ok", "failed"}
                           /\ faults = {} /\ Calm(r) => n.task.result = "ok"
  /\ r.task.op \in Opening /\ n.task.result = "ok" => n.task.file # None
  /\ n.state = r.state /\ n.create = r.create /\ n.doomed = r.doomed
  /\ n.pending = r.pending /\ n.open_count = r.open_count /\ n.file = r.file
  /\ n.closing = r.closing

\* The end of a task on its worker keeps an entry sound.
LEMMA WorkSound ==
  ASSUME NEW r \in Records, NEW n, NEW faults, Sound(r, faults), WorkStep(r, n, faults)
  PROVE  Sound(n, faults)
<1> USE DEF WorkStep
<1>b. Busy(n) /\ (Closing(n) <=> Closing(r)) /\ (Kept(n) <=> Kept(r))
  BY DEF Busy, Closing, Kept
<1>c. r.state # "unused"
  BY UnusedIs, Constants DEF Sound, RInv, Blank, Busy
<1>5. Blank(n) /\ Tasks(n) /\ Ends(n) /\ Early(n)
  BY <1>b, <1>c DEF Sound, RInv, Blank, Tasks, Ends, Early
<1>6. Returned(n)
  BY <1>b DEF Sound, RInv, Returned
<1>7. DoomedOnce(n) /\ Hashed(n)
  BY <1>b DEF Sound, RInv, DoomedOnce, Hashed
<1>9. (Clean(r) => Clean(n)) /\ (faults = {} /\ Calm(r) => Calm(n))
  BY <1>b DEF Clean, Calm
<1> QED BY <1>5, <1>6, <1>7, <1>9 DEF Sound, RInv

WorkCloseStep(r, n) ==
  /\ n \in Records /\ Closing(r) /\ n.closing.op = r.closing.op
  /\ n.closing.file = r.closing.file /\ n.task = r.task /\ n.state = r.state
  /\ n.create = r.create /\ n.doomed = r.doomed /\ n.pending = r.pending
  /\ n.open_count = r.open_count /\ n.file = r.file

\* The end of the closing of files on its worker keeps an entry sound.
LEMMA WorkCloseSound ==
  ASSUME NEW r \in Records, NEW n, NEW faults, Sound(r, faults), WorkCloseStep(r, n)
  PROVE  Sound(n, faults)
<1> USE DEF WorkCloseStep
<1>b. (Busy(n) <=> Busy(r)) /\ Closing(n) /\ (Kept(n) <=> Kept(r))
  BY DEF Busy, Closing, Kept
<1>c. r.state # "unused"
  BY UnusedIs, Constants DEF Sound, RInv, Blank, Closing
<1>5. Blank(n) /\ Tasks(n) /\ Ends(n) /\ Early(n)
  BY <1>b, <1>c DEF Sound, RInv, Blank, Tasks, Ends, Early
<1>6. Returned(n)
  BY <1>b DEF Sound, RInv, Returned
<1>7. DoomedOnce(n) /\ Hashed(n)
  BY <1>b DEF Sound, RInv, DoomedOnce, Hashed
<1>9. (Clean(r) => Clean(n)) /\ (Calm(r) => Calm(n))
  BY <1>b DEF Clean, Calm
<1> QED BY <1>5, <1>6, <1>7, <1>9 DEF Sound, RInv

\* CreationOperationComplete: the entry is open.
OpenedStep(r, n) ==
  /\ n \in Records /\ r.task.op \in Opening /\ r.task.done /\ r.task.result = "ok"
  /\ n.state = "ready" /\ n.file = r.task.file /\ n.task = NoTask
  /\ n.open_count = IF r.task.op = "create_early" THEN r.open_count ELSE r.open_count + 1
  /\ n.create = r.create /\ n.doomed = r.doomed /\ n.pending = r.pending
  /\ n.closing = r.closing

\* CreationOperationComplete after a success keeps an entry sound.
LEMMA OpenedSound ==
  ASSUME NEW r \in Records, NEW n, NEW faults, Sound(r, faults), OpenedStep(r, n)
  PROVE  Sound(n, faults)
<1> USE DEF OpenedStep
<1>b. Busy(r) /\ ~ Busy(n) /\ (Closing(n) <=> Closing(r)) /\ r.create = "normal"
  BY Constants DEF Busy, Closing, Opening, Sound, RInv, Early
<1>k. Kept(n)
  BY RecordOf DEF Kept, Sound, RInv, Returned
<1>d. ~ n.task.done /\ ~ n.task.doomed /\ n.task.op = "none"
  BY Constants
<1>5. Blank(n) /\ Tasks(n) /\ Ends(n) /\ Early(n)
  BY <1>b, <1>k, <1>d DEF Sound, RInv, Blank, Tasks, Ends, Early, Opening, Uses
<1>6. Returned(n)
  BY <1>b, <1>d DEF Sound, RInv, Returned
<1>7. DoomedOnce(n) /\ Hashed(n)
  BY <1>b, <1>d DEF Sound, RInv, DoomedOnce, Hashed
<1>9. Clean(r) => Clean(n)
  BY <1>b, <1>d DEF Sound, RInv, Tasks, Clean, Opening, Uses
<1>10. Calm(r) => Calm(n)
  BY <1>d DEF Calm, Uses
<1> QED BY <1>5, <1>6, <1>7, <1>9, <1>10 DEF Sound, RInv

\* CreationOperationComplete: the entry is not open.
NotOpenedStep(r, n) ==
  /\ n \in Records /\ r.task.op \in Opening /\ n.state = "uninitialized"
  /\ n.file = r.file /\ n.task = NoTask /\ n.open_count = r.open_count
  /\ n.create = r.create /\ n.pending = r.pending /\ r.task.done
  /\ \/ r.task.result = "exists" /\ n.doomed = r.doomed
     \/ r.task.result = "failed" /\ n.doomed
  /\ n.closing = r.closing

\* CreationOperationComplete after a failure keeps an entry sound.
LEMMA NotOpenedSound ==
  ASSUME NEW r \in Records, NEW n, NEW faults, Sound(r, faults), NotOpenedStep(r, n)
  PROVE  Sound(n, faults)
<1> USE DEF NotOpenedStep
<1>b. Busy(r) /\ ~ Busy(n) /\ (Closing(n) <=> Closing(r)) /\ r.create = "normal"
      /\ (Kept(n) <=> Kept(r))
  BY Constants DEF Busy, Closing, Opening, Sound, RInv, Early, Kept
<1>d. ~ n.task.done /\ ~ n.task.doomed /\ n.task.op = "none"
  BY Constants
<1>5. Blank(n) /\ Tasks(n) /\ Ends(n) /\ Early(n)
  BY <1>b, <1>d DEF Sound, RInv, Blank, Tasks, Ends, Early, Opening, Uses
<1>6. Returned(n)
  BY <1>b, <1>d DEF Sound, RInv, Returned
<1>7. DoomedOnce(n) /\ Hashed(n)
  BY <1>b, <1>d DEF Sound, RInv, DoomedOnce, Hashed
<1>9. Clean(r) => Clean(n)
  BY <1>b, <1>d DEF Clean, Opening, Uses
<1>10. Calm(r) => Calm(n)
  BY <1>d DEF Calm, Uses
<1> QED BY <1>5, <1>6, <1>7, <1>9, <1>10 DEF Sound, RInv

\* EntryOperationComplete.
UsedStep(r, n) ==
  /\ n \in Records /\ r.task.op \in Uses /\ r.task.done /\ n.file = r.file
  /\ n.task = NoTask /\ n.open_count = r.open_count /\ n.create = r.create
  /\ n.pending = r.pending /\ n.closing = r.closing
  /\ \/ r.task.result = "ok" /\ n.state = "ready" /\ n.doomed = r.doomed
     \/ r.task.result = "failed" /\ n.state = "failure" /\ n.doomed

\* EntryOperationComplete keeps an entry sound.
LEMMA UsedSound ==
  ASSUME NEW r \in Records, NEW n, NEW faults, Sound(r, faults), UsedStep(r, n)
  PROVE  Sound(n, faults)
<1> USE DEF UsedStep
<1>b. Busy(r) /\ ~ Busy(n) /\ (Closing(n) <=> Closing(r)) /\ r.create = "normal"
      /\ (Kept(n) <=> Kept(r))
  BY Constants DEF Busy, Closing, Uses, Sound, RInv, Early, Kept
<1>d. ~ n.task.done /\ ~ n.task.doomed /\ n.task.op = "none"
  BY Constants
<1>5. Blank(n) /\ Tasks(n) /\ Ends(n) /\ Early(n)
  BY <1>b, <1>d DEF Sound, RInv, Blank, Tasks, Ends, Early, Opening, Uses
<1>6. Returned(n)
  BY <1>b, <1>d DEF Sound, RInv, Returned
<1>7. DoomedOnce(n) /\ Hashed(n)
  BY <1>b, <1>d DEF Sound, RInv, DoomedOnce, Hashed
<1>9. Clean(r) /\ n.state = "ready" => Clean(n)
  BY <1>b, <1>d DEF Clean, Opening, Uses
<1>10. Calm(r) => Calm(n) /\ n.state = "ready"
  BY <1>d DEF Calm, Uses
<1> QED BY <1>5, <1>6, <1>7, <1>9, <1>10 DEF Sound, RInv

\* CloseOperationComplete.
ClosedStep(r, n) ==
  /\ n \in Records /\ Closing(r) /\ n.state = "uninitialized" /\ n.file = r.file
  /\ n.task = r.task /\ n.open_count = r.open_count /\ n.create = r.create
  /\ n.pending = r.pending /\ n.doomed = r.doomed /\ n.closing = NoTask

\* CloseOperationComplete keeps an entry sound.
LEMMA ClosedSound ==
  ASSUME NEW r \in Records, NEW n, NEW faults, Sound(r, faults), ClosedStep(r, n)
  PROVE  Sound(n, faults)
<1> USE DEF ClosedStep
<1>b. ~ Closing(n) /\ (Busy(n) <=> Busy(r)) /\ r.create = "normal"
      /\ (Kept(n) <=> Kept(r)) /\ ~ n.closing.done
  BY Constants DEF Busy, Closing, Sound, RInv, Early, Kept
<1>5. Blank(n) /\ Tasks(n) /\ Ends(n) /\ Early(n)
  BY <1>b DEF Sound, RInv, Blank, Tasks, Ends, Early
<1>6. Returned(n)
  BY <1>b DEF Sound, RInv, Returned
<1>7. DoomedOnce(n) /\ Hashed(n)
  BY <1>b DEF Sound, RInv, DoomedOnce, Hashed
<1>9. (Clean(r) => Clean(n)) /\ (Calm(r) => Calm(n))
  BY <1>b DEF Clean, Calm, Busy, Opening, Uses
<1> QED BY <1>5, <1>6, <1>7, <1>9 DEF Sound, RInv

\* DoomOperationComplete.
DoomedStep(r, n) ==
  /\ n \in Records /\ r.task.op = "doom" /\ n.state = r.task.restore
  /\ n.file = r.file /\ n.task = NoTask /\ n.open_count = r.open_count
  /\ n.create = r.create /\ n.pending = r.pending /\ n.doomed = r.doomed
  /\ n.closing = r.closing

\* DoomOperationComplete keeps an entry sound.
LEMMA DoomedSound ==
  ASSUME NEW r \in Records, NEW n, NEW faults, Sound(r, faults), DoomedStep(r, n)
  PROVE  Sound(n, faults)
<1> USE DEF DoomedStep
<1>b. Busy(r) /\ ~ Busy(n) /\ (Closing(n) <=> Closing(r)) /\ r.create = "normal"
      /\ (Kept(n) <=> Kept(r))
  BY Constants DEF Busy, Closing, Sound, RInv, Early, Kept
<1>d. ~ n.task.done /\ ~ n.task.doomed /\ n.task.op = "none"
  BY Constants
<1>5. Blank(n) /\ Tasks(n) /\ Ends(n) /\ Early(n)
  BY <1>b, <1>d DEF Sound, RInv, Blank, Tasks, Ends, Early, Opening, Uses, DoomedOnce
<1>6. Returned(n)
  BY <1>b, <1>d DEF Sound, RInv, Returned
<1>7. DoomedOnce(n) /\ Hashed(n)
  BY <1>b, <1>d DEF Sound, RInv, DoomedOnce, Hashed
<1>9. (Clean(r) => Clean(n)) /\ (Calm(r) => Calm(n))
  BY <1>b, <1>d DEF Clean, Calm, Opening, Uses
<1> QED BY <1>5, <1>6, <1>7, <1>9 DEF Sound, RInv

-----------------------------------------------------------------------------
(* There is a file that is not in use.                                     *)

\* One value per entry makes at most as many values as there are entries.
LEMMA ImageSize ==
  ASSUME NEW f, f = [e \in Entry |-> f[e]]
  PROVE  /\ IsFiniteSet({f[e] : e \in Entry}) /\ Cardinality({f[e] : e \in Entry}) \in Nat
         /\ Cardinality({f[e] : e \in Entry}) <= NumEntries
<1> DEFINE T == {f[e] : e \in Entry}
<1>1. IsFiniteSet(Entry) /\ Cardinality(Entry) = NumEntries
  BY SimpleCacheAssumption, FS_Interval DEF Entry
<1>2. f \in Surjection(Entry, T)
  BY DEF Surjection
<1>3. IsFiniteSet(T) /\ Cardinality(T) <= Cardinality(Entry)
  BY <1>1, <1>2, FS_Surjection
<1> QED BY <1>1, <1>3, FS_CardinalityType

\* The size of a union is at most the sum of the sizes.
LEMMA UnionSize ==
  ASSUME NEW S, NEW T, IsFiniteSet(S), IsFiniteSet(T), NEW a \in Nat, NEW b \in Nat,
         Cardinality(S) <= a, Cardinality(T) <= b
  PROVE  /\ IsFiniteSet(S \cup T) /\ Cardinality(S \cup T) \in Nat
         /\ Cardinality(S \cup T) <= a + b
<1>1. IsFiniteSet(S \cap T)
  BY FS_Subset
<1>2. Cardinality(S \cap T) \in Nat /\ Cardinality(S) \in Nat /\ Cardinality(T) \in Nat
  BY <1>1, FS_CardinalityType
<1>3. /\ IsFiniteSet(S \cup T)
      /\ Cardinality(S \cup T) = Cardinality(S) + Cardinality(T) - Cardinality(S \cap T)
  BY FS_Union
<1>4. Cardinality(S \cup T) \in Nat
  BY <1>3, FS_CardinalityType
<1>5. \A x, y, z, u \in Nat : u = x + y - z /\ x <= a /\ y <= b => u <= a + b
  OBVIOUS
<1> QED BY <1>2, <1>3, <1>4, <1>5

\* While no file is linked there is a file that no entry works on, and
\* FreshFile is one.
LEMMA FreshFileIs ==
  ASSUME Typed, linked = None
  PROVE  /\ FreshFile \in File
         /\ \A e \in Entry : /\ FreshFile # entry[e].file
                             /\ FreshFile # entry[e].task.file
                             /\ FreshFile # entry[e].closing.file
<1> DEFINE F1 == [e \in Entry |-> entry[e].file]
           F2 == [e \in Entry |-> entry[e].task.file]
           F3 == [e \in Entry |-> entry[e].closing.file]
           T1 == {F1[e] : e \in Entry}
           T2 == {F2[e] : e \in Entry}
           T3 == {F3[e] : e \in Entry}
<1>1. /\ IsFiniteSet(T1) /\ Cardinality(T1) \in Nat /\ Cardinality(T1) <= NumEntries
      /\ IsFiniteSet(T2) /\ Cardinality(T2) \in Nat /\ Cardinality(T2) <= NumEntries
      /\ IsFiniteSet(T3) /\ Cardinality(T3) \in Nat /\ Cardinality(T3) <= NumEntries
  BY ImageSize
<1>2. /\ \A e \in Entry : entry[e].file \in T1 /\ entry[e].task.file \in T2
                          /\ entry[e].closing.file \in T3
  OBVIOUS
<1> HIDE DEF T1, T2, T3
<1>3. /\ IsFiniteSet(T1 \cup T2) /\ Cardinality(T1 \cup T2) \in Nat
      /\ Cardinality(T1 \cup T2) <= NumEntries + NumEntries
  BY <1>1, SimpleCacheAssumption, UnionSize
<1>4. /\ IsFiniteSet((T1 \cup T2) \cup T3) /\ Cardinality((T1 \cup T2) \cup T3) \in Nat
      /\ Cardinality((T1 \cup T2) \cup T3) <= (NumEntries + NumEntries) + NumEntries
  <2>1. NumEntries \in Nat /\ NumEntries + NumEntries \in Nat
    BY SimpleCacheAssumption
  <2> QED BY <1>1, <1>3, <2>1, UnionSize
<1>5. IsFiniteSet(File) /\ Cardinality(File) = 3 * NumEntries + 1
  BY SimpleCacheAssumption, FS_Interval DEF File
<1>6. ~ (File \subseteq ((T1 \cup T2) \cup T3))
  <2> SUFFICES ASSUME File \subseteq ((T1 \cup T2) \cup T3) PROVE FALSE
    OBVIOUS
  <2>1. Cardinality(File) <= Cardinality((T1 \cup T2) \cup T3)
    BY <1>4, FS_Subset
  <2> QED BY <1>4, <1>5, <2>1, SimpleCacheAssumption
<1>7. PICK x \in File : x \notin (T1 \cup T2) \cup T3
  BY <1>6
<1>8. x # linked /\ \A e \in Entry : x \notin {entry[e].file, entry[e].task.file, entry[e].closing.file}
  BY <1>2, <1>7, Constants
<1>9. \E y \in File : /\ y # linked
                      /\ \A e \in Entry : y \notin {entry[e].file, entry[e].task.file, entry[e].closing.file}
  BY <1>8
<1>10. /\ FreshFile \in File
       /\ \A e \in Entry : FreshFile \notin {entry[e].file, entry[e].task.file, entry[e].closing.file}
  BY <1>9, Zenon DEF FreshFile
<1> QED BY <1>10

-----------------------------------------------------------------------------
(* Steps that change one entry.                                            *)

Unnamed(q) == ~ Named(q, "notify")

\* A queue without a notification notifies nobody.
LEMMA NoNotify ==
  ASSUME NEW q, q \in Seq(CallType) \/ q \in Seq(WaiterType), Unnamed(q)
  PROVE  NotifyFirst(q) /\ \A x : ~ Notifies(q, x)
<1>1. NotifyFirst(q)
  BY DEF Unnamed, Named, NotifyFirst
<1>2. ASSUME NEW x, Notifies(q, x) PROVE FALSE
  <2>1. 1 \in DOMAIN q
    BY <1>2, LenProperties, EmptySeq DEF Notifies
  <2>2. q[1].call = "notify"
    BY <1>2 DEF Notifies, Waiter
  <2> QED BY <2>1, <2>2 DEF Unnamed, Named
<1> QED BY <1>1, <1>2

\* NoDoom notifies nobody.
LEMMA NoDoomNotifies == \A x : ~ Notifies(NoDoom, x)
BY SmallCalls DEF Notifies, Waiter

\* The empty queue notifies nobody.
LEMMA EmptyNotifies == \A x : ~ Notifies(<<>>, x)
BY DEF Notifies

\* Calls of operations alone.
LEMMA RunCalls ==
  ASSUME NEW e \in Entry
  PROVE  /\ <<Run(e)>> \in Seq(CallType) /\ EndLast(<<Run(e)>>)
         /\ EntriesIn(<<Run(e)>>) = {e} /\ \A x : Named(<<Run(e)>>, x) <=> x = "run"
         /\ <<Run(e), OnDoomComplete>> \in Seq(CallType) /\ EndLast(<<Run(e), OnDoomComplete>>)
         /\ EntriesIn(<<Run(e), OnDoomComplete>>) = {e, None}
         /\ \A x : Named(<<Run(e), OnDoomComplete>>, x) <=> x = "run" \/ x = "doomed"
         /\ <<OnDoomComplete>> \in Seq(CallType) /\ EndLast(<<OnDoomComplete>>)
         /\ EntriesIn(<<OnDoomComplete>>) = {None}
         /\ \A x : Named(<<OnDoomComplete>>, x) <=> x = "doomed"
<1>1. /\ Run(e) \in CallType /\ Run(e).call = "run" /\ Run(e).entry = e
      /\ OnDoomComplete \in CallType /\ OnDoomComplete.call = "doomed"
      /\ OnDoomComplete.entry = None
  BY CallTypes DEF Run, OnDoomComplete
<1>2. Called(<<>>, Run(e), <<Run(e)>>)
  <2>1. <<Run(e)>> = <<Run(e)>> \o <<>> /\ <<>> \in Seq(CallType)
    BY <1>1
  <2> QED BY <1>1, <2>1, CallingFirst
<1>3. Called(<<>>, OnDoomComplete, <<OnDoomComplete>>)
  <2>1. <<OnDoomComplete>> = <<OnDoomComplete>> \o <<>> /\ <<>> \in Seq(CallType)
    BY <1>1
  <2> QED BY <1>1, <2>1, CallingFirst
<1>4. Called(<<OnDoomComplete>>, Run(e), <<Run(e), OnDoomComplete>>)
  <2>1. <<Run(e), OnDoomComplete>> = <<Run(e)>> \o <<OnDoomComplete>>
        /\ <<OnDoomComplete>> \in Seq(CallType)
    BY <1>1
  <2> QED BY <1>1, <2>1, CallingFirst
<1>5. EndLast(<<OnDoomComplete>>)
  BY DEF EndLast
<1>6. EndLast(<<Run(e)>>) /\ EndLast(<<Run(e), OnDoomComplete>>)
  BY <1>1, <1>2, <1>4, <1>5, SmallCalls DEF Called
<1>7. /\ EntriesIn(<<Run(e)>>) = {e} /\ EntriesIn(<<OnDoomComplete>>) = {None}
      /\ \A x : Named(<<Run(e)>>, x) <=> x = "run"
      /\ \A x : Named(<<OnDoomComplete>>, x) <=> x = "doomed"
  BY <1>1, <1>2, <1>3, SmallCalls, Zenon DEF Called
<1>8. /\ EntriesIn(<<Run(e), OnDoomComplete>>) = {e, None}
      /\ \A x : Named(<<Run(e), OnDoomComplete>>, x) <=> x = "run" \/ x = "doomed"
  BY <1>1, <1>4, <1>7 DEF Called
<1> QED BY <1>2, <1>3, <1>4, <1>5, <1>6, <1>7, <1>8 DEF Called

\* The variables other than entry after a step.
TypedAfter(e) ==
  /\ active' \in {active, None, e}
  /\ dooming' = NoDoom \/ dooming' \in Seq(WaiterType)
  /\ index' \in BOOLEAN
  /\ mass' \in {"none", "posted", "done"}
  /\ opened' \subseteq opened \cup {e}
  /\ calls' \in Seq(CallType)
  /\ linked' \in MaybeFile
  /\ clients' \in [left : Nat, scenario : Scenarios]
  /\ clients'.scenario = clients.scenario /\ clients'.left <= clients.left

Refers(e, n) ==
  /\ EntriesIn(calls') \subseteq EntriesIn(calls) \cup EntriesIn(dooming) \cup {None, e}
  /\ EntriesIn(dooming') \subseteq EntriesIn(dooming) \cup {None, e}
  /\ n.state = "unused" => /\ e \notin EntriesIn(calls') /\ e \notin EntriesIn(dooming')
                           /\ e \notin opened' /\ active' # e
  /\ active' = e => ~ n.doomed /\ ~ IsHash(n) /\ e \notin opened'
  /\ e \in opened' => Lone(n)

\* AInv is kept by a step that changes one entry to a sound one and refers to
\* it rightly.
LEMMA OneChanges ==
  ASSUME AInv, NEW e \in Entry, NEW n \in Records, Sound(n, Faults),
         entry' = [entry EXCEPT ![e] = n], TypedAfter(e), Refers(e, n),
         NotifyFirst(calls'), NotifyFirst(dooming'), EndLast(calls'),
         Named(calls', "notify") => dooming' = NoDoom,
         \A x \in Entry \ {e} : Notifies(dooming', x) \/ Notifies(calls', x)
                                <=> Notifies(dooming, x) \/ Notifies(calls, x),
         n.create # "normal" <=> Notifies(dooming', e) \/ Notifies(calls', e)
  PROVE  AInv'
<1>1. entry \in [Entry -> Records] /\ entry' \in [Entry -> Records]
      /\ entry'[e] = n /\ \A x \in Entry : x # e => entry'[x] = entry[x]
  BY DEF AInv, Typed
<1>2. Typed'
  <2>1. clients'.left \in 0 .. clients'.scenario.calls
    <3>1. clients.left \in 0 .. clients.scenario.calls /\ clients.scenario \in Scenarios
          /\ clients.scenario.calls \in Nat /\ clients'.left \in Nat
      BY SimpleCacheAssumption DEF AInv, Typed, TypedAfter
    <3> QED BY <3>1 DEF TypedAfter
  <2> QED BY <1>1, <2>1 DEF AInv, Typed, TypedAfter
<1>f. Faults' = Faults
  BY DEF Faults, TypedAfter
<1>3. Sane'
  BY <1>1, <1>f DEF AInv, Sane
<1>4. Alive'
  <2> SUFFICES ASSUME NEW x \in Entry, Free(x)'
               PROVE  /\ x \notin EntriesIn(calls') /\ x \notin EntriesIn(dooming')
                      /\ x \notin opened' /\ active' # x
    BY DEF Alive
  <2>1. CASE x = e
    BY <1>1, <2>1 DEF Refers, Free
  <2>2. CASE x # e
    <3>1. Free(x) /\ x # None
      BY <1>1, <2>2, Constants DEF Free
    <3>2. /\ x \notin EntriesIn(calls) /\ x \notin EntriesIn(dooming)
          /\ x \notin opened /\ active # x
      BY <3>1 DEF AInv, Alive
    <3> QED BY <2>2, <3>1, <3>2 DEF Refers, TypedAfter
  <2> QED BY <2>1, <2>2
<1>5. ActiveIsGood'
  <2> SUFFICES ASSUME active' # None
               PROVE  /\ ~ entry'[active'].doomed /\ ~ IsHash(entry'[active'])
                      /\ active' \notin opened'
    BY DEF ActiveIsGood, IsHash
  <2>1. CASE active' = e
    BY <1>1, <2>1 DEF Refers
  <2>2. CASE active' # e
    <3>1. active' = active /\ active \in Entry
      BY <2>2 DEF TypedAfter, AInv, Typed
    <3> QED BY <1>1, <2>2, <3>1 DEF AInv, ActiveIsGood, TypedAfter
  <2> QED BY <2>1, <2>2
<1>6. OpenedAreLone'
  <2> SUFFICES ASSUME NEW x \in opened' PROVE Lone(entry'[x])
    BY DEF OpenedAreLone, Lone, Busy, Closing
  <2>1. CASE x = e
    BY <1>1, <2>1 DEF Refers
  <2>2. CASE x # e
    BY <1>1, <2>2 DEF AInv, OpenedAreLone, TypedAfter, Typed
  <2> QED BY <2>1, <2>2
<1>7. Notified'
  <2>1. ASSUME NEW x \in Entry
        PROVE  entry'[x].create # "normal" <=> Notifies(dooming', x) \/ Notifies(calls', x)
    BY <1>1 DEF AInv, Notified
  <2> QED BY <2>1 DEF Notified, NotifyFirst, Notifies, Named
<1>8. EndLast(calls)'
  BY DEF EndLast
<1> QED BY <1>2, <1>3, <1>4, <1>5, <1>6, <1>7, <1>8 DEF AInv

\* The same, if those who wait for a doom stay the same.
LEMMA OneChangesAlone ==
  ASSUME AInv, NEW e \in Entry, NEW n \in Records, Sound(n, Faults),
         entry' = [entry EXCEPT ![e] = n], TypedAfter(e), Refers(e, n),
         dooming' = dooming, EndLast(calls'), n.create = entry[e].create,
         calls' = calls \/ (Unnamed(calls) /\ Unnamed(calls'))
  PROVE  AInv'
<1>1. calls \in Seq(CallType) /\ calls' \in Seq(CallType)
  BY DEF AInv, Typed, TypedAfter
<1>2. NotifyFirst(calls') /\ (Named(calls', "notify") => dooming' = NoDoom)
  BY <1>1, NoNotify DEF AInv, Notified, Unnamed
<1>3. NotifyFirst(dooming')
  BY DEF AInv, Notified
<1>4. \A x : Notifies(dooming', x) \/ Notifies(calls', x)
             <=> Notifies(dooming, x) \/ Notifies(calls, x)
  BY <1>1, NoNotify
<1>5. n.create # "normal" <=> Notifies(dooming', e) \/ Notifies(calls', e)
  BY <1>4 DEF AInv, Notified
<1> QED BY <1>2, <1>3, <1>4, <1>5, OneChanges

-----------------------------------------------------------------------------
(* What the actions of the backend do.                                     *)

Changed(e, n) == entry' = [entry EXCEPT ![e] = n]

\* A client calls an operation of the backend, or it is the next call of the IO
\* thread, which has the rest to do afterwards.
Resting(what, rest) ==
  /\ what \in WaitNames
  /\ \/ calls = <<>> /\ rest = <<>> /\ (what = "open_hash" => Iterate)
     \/ calls # <<>> /\ Head(calls).call = what /\ rest = Tail(calls)

\* The operation waits for a doom.
WaitStep(rest, w) ==
  /\ dooming \in Seq(WaiterType) /\ dooming # NoDoom
  /\ w \in WaitNames /\ Waited(dooming, Waiter(w, None), dooming')
  /\ index' = index \/ (index' = FALSE /\ w = "doom_hash")
  /\ calls' = rest
  /\ UNCHANGED <<entry, active, mass, opened>>

\* The hash is not in the index.
NothingStep(rest) ==
  dooming = NoDoom /\ ~ index /\ calls' = rest /\ UNCHANGED <<entry, backend>>

\* The active entry is opened, or created.
UseActiveStep(rest, n, op) ==
  /\ dooming = NoDoom /\ active # None /\ Changed(active, n)
  /\ \/ op = "open" /\ index /\ PushStep(entry[active], n, op) /\ UNCHANGED index
     \/ CreateStep(entry[active], n, op) /\ index' = TRUE
  /\ op = "create_early" => Optimistic
  /\ Called(rest, Run(active), calls')
  /\ UNCHANGED <<active, dooming, mass, opened>>

\* An entry is doomed.
DoomOneStep(e, rest, n) ==
  /\ Changed(e, n) /\ DoomStep(entry[e], n)
  /\ index' = FALSE
  /\ active' = IF active = e THEN None ELSE active
  /\ dooming' = IF dooming = NoDoom /\ entry[e].create = "normal" THEN <<>> ELSE dooming
  /\ Called(rest, Run(e), calls')
  /\ UNCHANGED <<mass, opened>>

\* There is a new entry.
NewOneStep(e, rest, n, op) ==
  /\ Free(e) /\ Changed(e, n) /\ NewStep(n, op)
  /\ Called(rest, Run(e), calls')
  /\ UNCHANGED <<mass, opened>>
  /\ \/ /\ dooming = NoDoom /\ active = None /\ UNCHANGED dooming /\ n.create = "normal"
        /\ \/ op = "open" /\ index /\ active' = e /\ UNCHANGED index
           \/ op = "open_hash" /\ UNCHANGED <<active, index>>
           \/ /\ op \in Creates /\ active' = e /\ index' = TRUE
              /\ op = "create_early" => Optimistic
     \/ /\ dooming = <<>> /\ dooming' = <<Waiter("notify", e)>>
        /\ op = "create_early" /\ n.create = "pending_doom" /\ Optimistic
        /\ active' = (IF active = None THEN e ELSE active) /\ index' = TRUE
     \/ /\ dooming = NoDoom /\ dooming' = <<>> /\ active = None
        /\ op = "doom" /\ index' = FALSE /\ UNCHANGED active

\* The files are doomed by their names.
MassStep(rest) ==
  /\ dooming = NoDoom /\ dooming' = <<>> /\ active = None
  /\ index' = FALSE /\ mass' = "posted" /\ calls' = rest
  /\ UNCHANGED <<entry, active, opened>>

BackendStep(what, rest) ==
  \/ WaitStep(rest, what)
  \/ \E n : dooming = NoDoom /\ active # None /\ DoomOneStep(active, rest, n)
  \/ MassStep(rest)
  \/ /\ what # "doom_hash"
     /\ \/ NothingStep(rest)
        \/ \E n, op : UseActiveStep(rest, n, op)
        \/ \E e \in Entry : \E n, op : /\ op = "open_hash" => what = "open_hash"
                                       /\ NewOneStep(e, rest, n, op)

\* What the IO thread has left after a call of the backend.
LEMMA RestIs ==
  ASSUME AInv, NEW what, NEW rest, Resting(what, rest)
  PROVE  /\ rest \in Seq(CallType) /\ EndLast(rest) /\ Unnamed(rest) /\ Unnamed(calls)
         /\ ~ Named(rest, "doomed") /\ ~ Named(calls, "doomed")
         /\ EntriesIn(rest) \subseteq EntriesIn(calls)
         /\ \A x : Named(rest, x) => Named(calls, x)
         /\ \A x : Named(calls, x) /\ ~ Named(rest, x) => x = what
         /\ \A x : ~ Notifies(calls, x) /\ ~ Notifies(rest, x)
<1>0. calls \in Seq(CallType) /\ EndLast(calls) /\ NotifyFirst(calls)
  BY DEF AInv, Typed, Notified
<1>1. CASE calls = <<>> /\ rest = <<>>
  BY <1>1, SmallCalls, EmptyNotifies DEF Unnamed
<1>2. CASE calls # <<>> /\ Head(calls).call = what /\ rest = Tail(calls)
  <2>1. PICK c : c = Head(calls)
    OBVIOUS
  <2>2. Did(calls, c, rest)
    BY <1>0, <1>2, <2>1, CallDone
  <2>3. c.call = what /\ c.call # "notify" /\ c.call # "doomed" /\ c.call # "run"
    BY <1>2, <2>1 DEF Resting, WaitNames
  <2>4. /\ rest \in Seq(CallType) /\ EndLast(rest) /\ Unnamed(rest) /\ Unnamed(calls)
        /\ ~ Named(rest, "doomed") /\ ~ Named(calls, "doomed")
        /\ EntriesIn(rest) \subseteq EntriesIn(calls)
        /\ \A x : Named(rest, x) => Named(calls, x)
        /\ \A x : Named(calls, x) /\ ~ Named(rest, x) => x = c.call
    BY <1>0, <2>2, <2>3 DEF Did, Unnamed
  <2> QED BY <1>0, <2>1, <2>3, <2>4, NoNotify
<1> QED BY <1>1, <1>2 DEF Resting

\* Fresh is an entry that is not in use, if there is one.
LEMMA FreshIs ==
  ASSUME AInv, HasFresh
  PROVE  Fresh \in Entry /\ Free(Fresh) /\ entry[Fresh] = Unused /\ entry[Fresh] \in Records
<1>1. Fresh \in Entry /\ Free(Fresh)
  BY DEF HasFresh, Fresh
<1>2. Sound(entry[Fresh], Faults)
  BY <1>1 DEF AInv, Sane
<1> QED BY <1>1, <1>2 DEF AInv, Typed, Sound, RInv, Blank, Free

\* A call of an operation of e comes first.
LEMMA RunComesFirst ==
  ASSUME NEW rest \in Seq(CallType), NEW e \in Entry, NEW q, q = <<Run(e)>> \o rest
  PROVE  Called(rest, Run(e), q)
BY CallTypes, CallingFirst

\* What is known of the entry that the backend finds.
LEMMA ActiveIs ==
  ASSUME AInv, active # None
  PROVE  /\ active \in Entry /\ entry[active] \in Records /\ Sound(entry[active], Faults)
         /\ ~ Free(active) /\ ~ entry[active].doomed /\ ~ IsHash(entry[active])
         /\ active \notin opened
<1>1. active \in Entry
  BY DEF AInv, Typed
<1> QED BY <1>1 DEF AInv, Typed, Sane, Alive, ActiveIsGood

\* Waiting.
LEMMA WaitEffect ==
  ASSUME AInv, dooming # NoDoom, NEW w \in WaitNames, NEW rest, Wait(w, rest),
         UNCHANGED <<mass, opened>>
  PROVE  WaitStep(rest, w)
<1>1. dooming \in Seq(WaiterType)
  BY DEF AInv, Typed
<1>2. Waited(dooming, Waiter(w, None), dooming')
  BY <1>1, CallTypes, Waiting DEF Wait
<1> QED BY <1>1, <1>2 DEF WaitStep, Wait

\* DoomEntry is a DoomOneStep.
LEMMA DoomEffect ==
  ASSUME AInv, NEW e \in Entry, ~ Free(e), ~ entry[e].doomed, ~ IsHash(entry[e]),
         NEW rest \in Seq(CallType), DoomEntry(e, rest), UNCHANGED <<mass, opened>>
  PROVE  \E n : DoomOneStep(e, rest, n)
<1> DEFINE r == entry[e]
           n == [Push(e, "doom") EXCEPT
                   !.doomed = TRUE,
                   !.create = IF @ = "normal" THEN @ ELSE "pending_then_doom"]
<1>1. r \in Records
  BY DEF AInv, Typed
<1>2. /\ n.state = r.state /\ n.doomed /\ n.open_count = r.open_count /\ n.file = r.file
      /\ n.create = IF r.create = "normal" THEN "normal" ELSE "pending_then_doom"
      /\ n.task = r.task /\ n.closing = r.closing
      /\ n.pending = Append(r.pending, "doom")
  BY <1>1 DEF Push, Records
<1>3. Pushed(r.pending, "doom", n.pending)
  BY <1>1, <1>2, RecordOf, Pushing DEF Operation
<1>4. n \in Records
  BY <1>1, <1>2, <1>3, RecordOf DEF Push, Records, Pushed
<1>5. DoomStep(r, n)
  BY <1>2, <1>3, <1>4 DEF DoomStep, Free
<1>6. Called(rest, Run(e), calls')
  BY RunComesFirst DEF DoomEntry
<1>7. DoomOneStep(e, rest, n)
  BY <1>5, <1>6 DEF DoomOneStep, DoomEntry, MarkAsDoomed, OnDoomStart, Changed
<1> QED BY <1>7

\* OpenEntry of the active entry.
LEMMA OpenActiveEffect ==
  ASSUME AInv, active # None, NEW rest \in Seq(CallType), dooming = NoDoom, index,
         OpenEntry(active, "open", rest), UNCHANGED backend
  PROVE  \E n : UseActiveStep(rest, n, "open")
<1> DEFINE r == entry[active]
           n == [Push(active, "open") EXCEPT
                   !.state = IF @ = "unused" THEN "uninitialized" ELSE @]
<1>1. active \in Entry /\ r \in Records /\ r.state # "unused" /\ ~ IsHash(r) /\ ~ r.doomed
  BY ActiveIs DEF Free
<1>2. /\ n.state = r.state /\ n.doomed = r.doomed /\ n.open_count = r.open_count
      /\ n.file = r.file /\ n.create = r.create /\ n.task = r.task
      /\ n.closing = r.closing /\ n.pending = Append(r.pending, "open")
  BY <1>1 DEF Push, Records
<1>3. Pushed(r.pending, "open", n.pending)
  BY <1>1, <1>2, RecordOf, Pushing DEF Operation
<1>4. n \in Records
  BY <1>1, <1>2, <1>3, RecordOf DEF Push, Records, Pushed, States
<1>5. PushStep(r, n, "open")
  BY <1>1, <1>2, <1>3, <1>4 DEF PushStep
<1>6. Called(rest, Run(active), calls')
  BY <1>1, RunComesFirst DEF OpenEntry
<1>7. UseActiveStep(rest, n, "open")
  BY <1>5, <1>6 DEF UseActiveStep, OpenEntry, Changed, backend
<1> QED BY <1>7

\* CreateEntry of the active entry.
LEMMA CreateActiveEffect ==
  ASSUME AInv, active # None, NEW rest \in Seq(CallType), dooming = NoDoom,
         CreateEntry(active, entry[active], rest), UNCHANGED <<active, dooming, mass, opened>>
  PROVE  \E n, op : UseActiveStep(rest, n, op)
<1> DEFINE r == entry[active]
           early == Optimistic /\ r.state = "uninitialized" /\ r.pending = <<>>
           op == IF early THEN "create_early" ELSE "create"
           n == [r EXCEPT
                   !.pending = Append(@, IF early THEN "create_early" ELSE "create"),
                   !.open_count = IF early THEN @ + 1 ELSE @,
                   !.state = IF r.create # "normal" THEN "io" ELSE @]
<1>1. active \in Entry /\ r \in Records /\ r.state # "unused" /\ ~ IsHash(r) /\ ~ r.doomed
  BY ActiveIs DEF Free
<1>a. /\ op \in Creates /\ op \in Operation
      /\ op = "create_early" <=> early
  BY DEF Creates, Operation
<1>2. /\ n.state = (IF r.create # "normal" THEN "io" ELSE r.state)
      /\ n.doomed = r.doomed /\ n.create = r.create /\ n.file = r.file
      /\ n.open_count = (IF op = "create_early" THEN r.open_count + 1 ELSE r.open_count)
      /\ n.task = r.task /\ n.closing = r.closing /\ n.pending = Append(r.pending, op)
  BY <1>1 DEF Records
<1>3. Pushed(r.pending, op, n.pending)
  BY <1>1, <1>2, <1>a, RecordOf, Pushing
<1>4. n \in Records
  <2>1. n.open_count \in Nat /\ n.state \in States
    BY <1>1, <1>2, RecordOf DEF States
  <2>2. n.pending \in Seq(Operation)
    BY <1>3 DEF Pushed
  <2>3. n = [r EXCEPT !.pending = n.pending, !.open_count = n.open_count, !.state = n.state]
    BY <1>1 DEF Records
  <2> QED BY <1>1, <2>1, <2>2, <2>3 DEF Records
<1>5. entry' = [entry EXCEPT ![active] = n] /\ index' = TRUE /\ calls' = <<Run(active)>> \o rest
  BY DEF CreateEntry
<1>6. Called(rest, Run(active), calls')
  BY <1>1, <1>5, RunComesFirst
<1>8. op = "create_early" => /\ Optimistic
                             /\ r.state = "uninitialized" /\ r.pending = <<>>
  BY <1>a
<1> HIDE DEF n, op
<1>9. CreateStep(r, n, op)
  BY <1>1, <1>2, <1>3, <1>4, <1>8, <1>a DEF CreateStep
<1>7. UseActiveStep(rest, n, op)
  BY <1>5, <1>6, <1>8, <1>9 DEF UseActiveStep, Changed
<1> QED BY <1>7

\* The fields of a new entry.
LEMMA NewIs ==
  /\ New \in Records
  /\ New.state = "uninitialized" /\ New.pending = <<>> /\ ~ New.doomed
  /\ New.create = "normal" /\ New.open_count = 0 /\ New.file = None
  /\ New.task = NoTask /\ New.closing = NoTask
BY UnusedIs DEF New, Records, States

\* OpenEntry of a new entry.
LEMMA OpenNewEffect ==
  ASSUME AInv, HasFresh, NEW rest \in Seq(CallType), NEW op \in {"open", "open_hash"},
         OpenEntry(Fresh, op, rest)
  PROVE  \E n : /\ Changed(Fresh, n) /\ NewStep(n, op) /\ n.create = "normal"
                /\ Called(rest, Run(Fresh), calls')
<1> DEFINE n == [Push(Fresh, op) EXCEPT
                   !.state = IF @ = "unused" THEN "uninitialized" ELSE @]
<1>1. Fresh \in Entry /\ entry[Fresh] = Unused
  BY FreshIs
<1>2. /\ n.state = "uninitialized" /\ n.doomed = FALSE /\ n.open_count = 0
      /\ n.file = None /\ n.create = "normal" /\ n.task = NoTask /\ n.closing = NoTask
      /\ n.pending = <<op>> /\ n \in Records
  <2>1. op \in Operation /\ Append(<<>>, op) = <<op>> /\ <<op>> \in Seq(Operation)
    BY DEF Operation
  <2>2. n = [Unused EXCEPT !.pending = <<op>>, !.state = "uninitialized"]
    BY <1>1, <2>1, UnusedIs DEF Push, Records
  <2> QED BY <2>1, <2>2, UnusedIs DEF Records, States
<1>3. Changed(Fresh, n)
  BY DEF OpenEntry, Changed
<1>4. NewStep(n, op)
  BY <1>2 DEF NewStep, Operation
<1>5. Called(rest, Run(Fresh), calls')
  BY <1>1, RunComesFirst DEF OpenEntry
<1> QED BY <1>2, <1>3, <1>4, <1>5

\* CreateEntry of a new entry.
LEMMA CreateNewEffect ==
  ASSUME AInv, HasFresh, NEW rest \in Seq(CallType), NEW pending,
         pending = "normal" \/ (pending = "pending_doom" /\ Optimistic),
         CreateEntry(Fresh, [New EXCEPT !.create = pending], rest)
  PROVE  \E n : /\ Changed(Fresh, n) /\ n.create = pending
                /\ NewStep(n, IF Optimistic THEN "create_early" ELSE "create")
                /\ index' = TRUE /\ Called(rest, Run(Fresh), calls')
<1> DEFINE before == [New EXCEPT !.create = pending]
           early == Optimistic /\ before.state = "uninitialized" /\ before.pending = <<>>
           op == IF Optimistic THEN "create_early" ELSE "create"
           n == [before EXCEPT
                   !.pending = Append(@, IF early THEN "create_early" ELSE "create"),
                   !.open_count = IF early THEN @ + 1 ELSE @,
                   !.state = IF before.create # "normal" THEN "io" ELSE @]
<1>1. Fresh \in Entry
  BY FreshIs
<1>2. /\ before \in Records /\ before.state = "uninitialized" /\ before.pending = <<>>
      /\ ~ before.doomed /\ before.create = pending /\ before.open_count = 0
      /\ before.file = None /\ before.task = NoTask /\ before.closing = NoTask
  BY NewIs DEF Records
<1>a. op \in Operation
  BY DEF Operation
<1>3. Changed(Fresh, n) /\ index' = TRUE /\ calls' = <<Run(Fresh)>> \o rest
  BY DEF CreateEntry, Changed
<1> HIDE DEF before
<1>4. /\ n.state = (IF pending # "normal" THEN "io" ELSE "uninitialized")
      /\ n.doomed = FALSE /\ n.open_count = (IF Optimistic THEN 1 ELSE 0)
      /\ n.file = None /\ n.create = pending /\ n.task = NoTask /\ n.closing = NoTask
      /\ n.pending = <<op>> /\ n \in Records
  <2>1. Append(<<>>, op) = <<op>> /\ <<op>> \in Seq(Operation)
    BY <1>a
  <2>2. early <=> Optimistic
    BY <1>2
  <2>3. n = [before EXCEPT !.pending = <<op>>, !.open_count = IF Optimistic THEN 1 ELSE 0,
                           !.state = IF pending # "normal" THEN "io" ELSE @]
    BY <1>2, <2>1, <2>2 DEF Records
  <2> HIDE DEF n
  <2> QED BY <1>2, <2>1, <2>3 DEF Records, States
<1> HIDE DEF n
<1>5. NewStep(n, op)
  BY <1>4 DEF NewStep, Operation
<1>6. Called(rest, Run(Fresh), calls')
  BY <1>1, <1>3, RunComesFirst
<1> QED BY <1>3, <1>4, <1>5, <1>6

\* The operations of the backend.
LEMMA BackendOpenEffect ==
  ASSUME AInv, NEW what, NEW rest, Resting(what, rest), active = None => HasFresh,
         what = "open" \/ (what = "open_hash" /\ dooming = NoDoom), BackendOpenEntry(rest)
  PROVE  BackendStep(what, rest)
<1>0. rest \in Seq(CallType)
  BY RestIs
<1>1. CASE dooming # NoDoom
  <2>1. Wait("open", rest) /\ UNCHANGED <<mass, opened>> /\ "open" \in WaitNames
    BY <1>1 DEF BackendOpenEntry, WaitNames
  <2> QED BY <1>1, <2>1, WaitEffect DEF BackendStep
<1>2. CASE dooming = NoDoom /\ ~ index
  BY <1>2 DEF BackendOpenEntry, BackendStep, NothingStep, backend
<1>3. CASE dooming = NoDoom /\ index /\ active # None
  <2>1. OpenEntry(active, "open", rest) /\ UNCHANGED backend
    BY <1>3 DEF BackendOpenEntry, Found, backend
  <2> QED BY <1>0, <1>3, <2>1, OpenActiveEffect DEF BackendStep
<1>4. CASE dooming = NoDoom /\ index /\ active = None
  <2>1. OpenEntry(Fresh, "open", rest) /\ active' = Fresh
        /\ UNCHANGED <<dooming, index, mass, opened>>
    BY <1>4 DEF BackendOpenEntry, Found
  <2>2. PICK n : /\ Changed(Fresh, n) /\ NewStep(n, "open") /\ n.create = "normal"
                 /\ Called(rest, Run(Fresh), calls')
    BY <1>0, <1>4, <2>1, OpenNewEffect
  <2>3. NewOneStep(Fresh, rest, n, "open")
    BY <1>4, <2>1, <2>2, FreshIs DEF NewOneStep
  <2> QED BY <1>4, <2>3, FreshIs DEF BackendStep
<1> QED BY <1>1, <1>2, <1>3, <1>4

\* BackendCreateEntry is a step of the backend.
LEMMA BackendCreateEffect ==
  ASSUME AInv, NEW rest, Resting("create", rest), active = None \/ dooming = <<>> => HasFresh,
         BackendCreateEntry(rest)
  PROVE  BackendStep("create", rest)
<1>0. rest \in Seq(CallType) /\ NoDoom # <<>>
  BY RestIs, SmallCalls
<1>1. CASE dooming # NoDoom /\ (dooming # <<>> \/ ~ Optimistic)
  <2>1. Wait("create", rest) /\ UNCHANGED <<mass, opened>> /\ "create" \in WaitNames
    BY <1>1 DEF BackendCreateEntry, WaitNames
  <2> QED BY <1>1, <2>1, WaitEffect DEF BackendStep
<1>2. CASE dooming = <<>> /\ Optimistic
  <2>1. /\ CreateEntry(Fresh, [New EXCEPT !.create = "pending_doom"], rest)
        /\ active' = (IF active = None THEN Fresh ELSE active)
        /\ dooming' = <<Waiter("notify", Fresh)>> /\ UNCHANGED <<mass, opened>>
    BY <1>0, <1>2 DEF BackendCreateEntry
  <2>2. PICK n : /\ Changed(Fresh, n) /\ n.create = "pending_doom"
                 /\ NewStep(n, "create_early")
                 /\ index' = TRUE /\ Called(rest, Run(Fresh), calls')
    BY <1>0, <1>2, <2>1, CreateNewEffect
  <2>3. NewOneStep(Fresh, rest, n, "create_early")
    BY <1>2, <2>1, <2>2, FreshIs DEF NewOneStep
  <2> QED BY <1>2, <2>3, FreshIs DEF BackendStep
<1>3. CASE dooming = NoDoom /\ active # None
  <2>1. CreateEntry(active, entry[active], rest) /\ UNCHANGED <<active, dooming, mass, opened>>
    BY <1>0, <1>3 DEF BackendCreateEntry, Found, FoundEntry
  <2> QED BY <1>0, <1>3, <2>1, CreateActiveEffect DEF BackendStep
<1>4. CASE dooming = NoDoom /\ active = None
  <2>1. /\ CreateEntry(Fresh, New, rest) /\ active' = Fresh
        /\ UNCHANGED <<dooming, mass, opened>>
    BY <1>0, <1>4 DEF BackendCreateEntry, Found, FoundEntry
  <2>2. New = [New EXCEPT !.create = "normal"]
    BY NewIs DEF Records
  <2>3. CreateEntry(Fresh, [New EXCEPT !.create = "normal"], rest)
    BY <2>1, <2>2
  <2> DEFINE op == IF Optimistic THEN "create_early" ELSE "create"
  <2>4. PICK n : /\ Changed(Fresh, n) /\ n.create = "normal" /\ NewStep(n, op)
                 /\ index' = TRUE /\ Called(rest, Run(Fresh), calls')
    BY <1>0, <1>4, <2>3, CreateNewEffect
  <2>5. op \in Creates /\ (op = "create_early" => Optimistic) /\ op # "open_hash"
    BY DEF Creates
  <2> HIDE DEF op
  <2>6. NewOneStep(Fresh, rest, n, op)
    BY <1>4, <2>1, <2>4, <2>5, FreshIs DEF NewOneStep
  <2> QED BY <1>4, <2>5, <2>6, FreshIs DEF BackendStep
<1> QED BY <1>1, <1>2, <1>3, <1>4

\* BackendDoomEntry is a step of the backend.
LEMMA BackendDoomEffect ==
  ASSUME AInv, NEW rest, Resting("doom", rest), active = None => HasFresh, BackendDoomEntry(rest)
  PROVE  BackendStep("doom", rest)
<1>0. rest \in Seq(CallType)
  BY RestIs
<1>1. CASE dooming # NoDoom
  <2>1. Wait("doom", rest) /\ UNCHANGED <<mass, opened>> /\ "doom" \in WaitNames
    BY <1>1 DEF BackendDoomEntry, WaitNames
  <2> QED BY <1>1, <2>1, WaitEffect DEF BackendStep
<1>2. CASE dooming = NoDoom /\ active # None
  <2>1. DoomEntry(active, rest) /\ UNCHANGED <<mass, opened>>
    BY <1>2 DEF BackendDoomEntry
  <2> QED BY <1>0, <1>2, <2>1, ActiveIs, DoomEffect DEF BackendStep
<1>3. CASE dooming = NoDoom /\ active = None
  <2> DEFINE n == [New EXCEPT !.doomed = TRUE, !.pending = <<"doom">>]
  <2>1. /\ index' = FALSE /\ dooming' = <<>> /\ Changed(Fresh, n)
        /\ calls' = <<Run(Fresh)>> \o rest /\ UNCHANGED <<active, mass, opened>>
    BY <1>3 DEF BackendDoomEntry, OnDoomStart, Changed
  <2>2. "doom" \in Operation /\ <<"doom">> \in Seq(Operation)
    BY DEF Operation
  <2>3. NewStep(n, "doom")
    BY <2>2, NewIs DEF NewStep, Records
  <2>4. Called(rest, Run(Fresh), calls')
    BY <1>0, <1>3, <2>1, FreshIs, RunComesFirst
  <2>5. NewOneStep(Fresh, rest, n, "doom")
    BY <1>3, <2>1, <2>3, <2>4, FreshIs DEF NewOneStep
  <2> QED BY <1>3, <2>5, FreshIs DEF BackendStep
<1> QED BY <1>1, <1>2, <1>3

\* DoomEntryFromHash is a step of the backend.
LEMMA DoomHashEffect ==
  ASSUME AInv, NEW rest, Resting("doom_hash", rest), NEW indexed, indexed = index \/ indexed = FALSE,
         DoomEntryFromHash(indexed, rest)
  PROVE  BackendStep("doom_hash", rest)
<1>0. rest \in Seq(CallType)
  BY RestIs
<1>1. CASE dooming # NoDoom
  <2>1. /\ dooming' = Append(dooming, Waiter("doom_hash", None)) /\ index' = indexed
        /\ calls' = rest /\ UNCHANGED <<entry, active, mass, opened>>
        /\ "doom_hash" \in WaitNames
    BY <1>1 DEF DoomEntryFromHash, WaitNames
  <2>2. dooming \in Seq(WaiterType)
    BY <1>1 DEF AInv, Typed
  <2>3. Waited(dooming, Waiter("doom_hash", None), dooming')
    BY <2>1, <2>2, CallTypes, Waiting
  <2>4. WaitStep(rest, "doom_hash")
    BY <1>1, <2>1, <2>2, <2>3 DEF WaitStep
  <2> QED BY <2>1, <2>4 DEF BackendStep
<1>2. CASE dooming = NoDoom /\ active # None
  <2>1. DoomEntry(active, rest) /\ UNCHANGED <<mass, opened>>
    BY <1>2 DEF DoomEntryFromHash
  <2> QED BY <1>0, <1>2, <2>1, ActiveIs, DoomEffect DEF BackendStep
<1>3. CASE dooming = NoDoom /\ active = None
  BY <1>3 DEF DoomEntryFromHash, OnDoomStart, BackendStep, MassStep
<1> QED BY <1>1, <1>2, <1>3

\* OpenEntryFromHash is a step of the backend.
LEMMA OpenHashEffect ==
  ASSUME AInv, NEW rest, Resting("open_hash", rest), active = None => HasFresh, OpenEntryFromHash(rest)
  PROVE  BackendStep("open_hash", rest)
<1>0. rest \in Seq(CallType)
  BY RestIs
<1>1. CASE dooming # NoDoom
  <2>1. Wait("open_hash", rest) /\ UNCHANGED <<mass, opened>> /\ "open_hash" \in WaitNames
    BY <1>1 DEF OpenEntryFromHash, WaitNames
  <2> QED BY <1>1, <2>1, WaitEffect DEF BackendStep
<1>2. CASE dooming = NoDoom /\ active # None
  BY <1>2, BackendOpenEffect DEF OpenEntryFromHash
<1>3. CASE dooming = NoDoom /\ active = None /\ index
  <2>1. /\ OpenEntry(Fresh, "open_hash", rest)
        /\ UNCHANGED <<active, dooming, index, mass, opened>>
    BY <1>3 DEF OpenEntryFromHash
  <2>2. PICK n : /\ Changed(Fresh, n) /\ NewStep(n, "open_hash") /\ n.create = "normal"
                 /\ Called(rest, Run(Fresh), calls')
    BY <1>0, <1>3, <2>1, OpenNewEffect
  <2>3. NewOneStep(Fresh, rest, n, "open_hash")
    BY <1>3, <2>1, <2>2, FreshIs DEF NewOneStep
  <2> QED BY <1>3, <2>3, FreshIs DEF BackendStep
<1>4. CASE dooming = NoDoom /\ active = None /\ ~ index
  BY <1>4 DEF OpenEntryFromHash, BackendStep, NothingStep, backend
<1> QED BY <1>1, <1>2, <1>3, <1>4

-----------------------------------------------------------------------------
(* What the other actions do.                                              *)

\* RunNextOperationIfNeeded: an operation of e is posted, ends at once or closes
\* the files, or there is none to run.
ExecuteStep(e, n, op) ==
  /\ calls # <<>> /\ Head(calls) = Run(e) /\ Changed(e, n)
  /\ \/ PostStep(entry[e], n, op) /\ Did(calls, Run(e), calls')
     \/ AtOnceStep(entry[e], n, op) /\ calls' = calls
     \/ ClosingStep(entry[e], n) /\ (Did(calls, Run(e), calls') \/ calls' = calls)
     \/ n = entry[e] /\ Did(calls, Run(e), calls')
  /\ UNCHANGED <<backend, linked, clients>>

\* The call that the IO thread is at.
LEMMA HeadIs ==
  ASSUME AInv, NEW what, Calling(what)
  PROVE  /\ calls # <<>> /\ Head(calls) \in CallType /\ Head(calls).call = what
         /\ what = "run" => Head(calls).entry \in Entry /\ Head(calls) = Run(Head(calls).entry)
         /\ what = "notify" => /\ Head(calls).entry \in Entry
                               /\ Head(calls) = Waiter("notify", Head(calls).entry)
         /\ what = "doomed" => Head(calls) = OnDoomComplete
         /\ Did(calls, Head(calls), Tail(calls))
<1>1. calls \in Seq(CallType) /\ calls # <<>> /\ Head(calls).call = what
  BY DEF AInv, Typed, Calling
<1>2. Did(calls, Head(calls), Tail(calls))
  BY <1>1, CallDone
<1>3. Head(calls) \in CallType
  BY <1>2 DEF Did
<1> QED BY <1>1, <1>2, <1>3, CallTypes

\* What Post makes of an entry.
LEMMA PostFields ==
  ASSUME AInv, NEW e \in Entry, NEW op \in Operation, op # "close",
         Popped(entry[e].pending, op, Tail(entry[e].pending)), entry[e].pending # <<>>,
         entry[e].state # "io", entry[e].task = NoTask,
         op \in Opening => entry[e].state = "uninitialized",
         op \in Uses => entry[e].state = "ready"
  PROVE  PostStep(entry[e], [Post(e, op) EXCEPT !.pending = Tail(@)], op)
<1> DEFINE r == entry[e]
           t == [NoTask EXCEPT !.op = op, !.file = r.file, !.restore = r.state,
                               !.doomed = r.doomed]
           n == [Post(e, op) EXCEPT !.pending = Tail(@)]
<1>1. r \in Records
  BY DEF AInv, Typed
<1>2. /\ t.op = op /\ ~ t.done /\ t.file = r.file /\ t.restore = r.state
      /\ t.doomed = r.doomed /\ t \in TaskType(TaskOps)
  <2>1. op \in TaskOps
    BY DEF TaskOps, Operation
  <2> QED BY <1>1, <2>1, RecordOf, Constants DEF TaskType
<1>3. n = [r EXCEPT !.state = "io", !.task = t, !.pending = Tail(r.pending)]
  BY <1>1 DEF Post, Records
<1>4. Tail(r.pending) \in Seq(Operation)
  BY DEF Popped
<1> HIDE DEF t, n
<1>5. /\ n.state = "io" /\ n.task = t /\ n.pending = Tail(r.pending) /\ n \in Records
      /\ n.doomed = r.doomed /\ n.create = r.create /\ n.open_count = r.open_count
      /\ n.file = r.file /\ n.closing = r.closing
  BY <1>1, <1>2, <1>3, <1>4 DEF Records, States
<1>6. PostStep(r, n, op)
  BY <1>2, <1>5 DEF PostStep
<1> QED BY <1>6 DEF n

\* RunNextOperationIfNeeded is an ExecuteStep.
LEMMA RunEffect ==
  ASSUME AInv, RunNextOperationIfNeeded
  PROVE  \E e \in Entry : \E n, op : ExecuteStep(e, n, op)
<1>1. PICK e \in Entry : Head(calls) = Run(e) /\ Head(calls).entry = e /\ calls # <<>>
  BY HeadIs DEF RunNextOperationIfNeeded
<1>2. Did(calls, Run(e), Tail(calls))
  BY <1>1, HeadIs DEF RunNextOperationIfNeeded
<1> DEFINE r == entry[e]
           op == Head(r.pending)
           after == Execute(e, op)
<1>3. r \in Records /\ UNCHANGED <<backend, linked, clients>>
  BY DEF AInv, Typed, RunNextOperationIfNeeded
<1>4. CASE (r.pending = <<>> \/ r.state = "io") /\ calls' = Tail(calls) /\ UNCHANGED entry
  <2>1. Changed(e, r)
    BY <1>4, <1>3 DEF Changed, AInv, Typed
  <2>2. ExecuteStep(e, r, "open")
    BY <1>1, <1>2, <1>3, <1>4, <2>1 DEF ExecuteStep
  <2> QED BY <2>2
<1>5. ASSUME r.pending # <<>>, r.state # "io"
      PROVE  Popped(r.pending, op, Tail(r.pending)) /\ op \in Operation
  <2>1. PICK q, h, m : q = r.pending /\ h = op /\ m = Tail(r.pending)
    OBVIOUS
  <2>2. q \in Seq(Operation) /\ q # <<>> /\ h = Head(q) /\ m = Tail(q)
    BY <1>3, <1>5, <2>1, RecordOf
  <2>3. Popped(q, h, m)
    BY <2>2, Popping
  <2>4. h \in Operation
    BY <2>3 DEF Popped
  <2> QED BY <2>1, <2>3, <2>4
<1>6. CASE r.pending # <<>> /\ r.state = "ready" /\ op \in {"read", "write"}
           /\ entry' = [entry EXCEPT ![e].pending = Tail(@)] /\ UNCHANGED calls
  <2> DEFINE n == [r EXCEPT !.pending = Tail(@)]
  <2>0. Popped(r.pending, op, Tail(r.pending)) /\ op \in Operation /\ op \notin Opening
    BY <1>5, <1>6 DEF Opening
  <2>1. Changed(e, n)
    BY <1>6 DEF Changed
  <2>2. /\ n \in Records /\ n.state = r.state /\ n.doomed = r.doomed /\ n.create = r.create
        /\ n.open_count = r.open_count /\ n.file = r.file /\ n.closing = r.closing
        /\ n.task = r.task /\ n.pending = Tail(r.pending)
    BY <1>3, <2>0 DEF Records, Popped
  <2> HIDE DEF n
  <2>3. AtOnceStep(r, n, op)
    BY <1>6, <2>0, <2>2 DEF AtOnceStep
  <2>4. ExecuteStep(e, n, op)
    BY <1>1, <1>3, <1>6, <2>1, <2>3 DEF ExecuteStep
  <2> QED BY <2>4
<1>7. CASE /\ r.pending # <<>> /\ r.state # "io"
           /\ after.state = "io" => r.task = NoTask
           /\ op = "close" /\ r.file # None => r.closing = NoTask
           /\ entry' = [entry EXCEPT ![e] = [after EXCEPT !.pending = Tail(@)]]
           /\ calls' = IF r.task # after.task \/ r.closing # after.closing
                         THEN Tail(calls) ELSE calls
  <2> DEFINE n == [after EXCEPT !.pending = Tail(@)]
  <2>0. Popped(r.pending, op, Tail(r.pending)) /\ op \in Operation
        /\ Tail(r.pending) \in Seq(Operation)
    BY <1>5, <1>7 DEF Popped
  <2>1. Changed(e, n)
    BY <1>7 DEF Changed
  <2>2. CASE after = Post(e, op) /\ op # "close" /\ (op \in Opening => r.state = "uninitialized")
             /\ (op \in Uses => r.state = "ready")
    <3>1. after.state = "io" /\ after.task.op = op
      <4>1. Post(e, op).state = "io" /\ Post(e, op).task.op = op
        <5> HIDE DEF op
        <5> QED BY <1>3 DEF Post, Records, NoTask
      <4> QED BY <2>2, <4>1
    <3>2. r.task = NoTask
      BY <1>7, <3>1
    <3>3. PostStep(r, n, op)
      BY <1>7, <2>0, <2>2, <3>2, PostFields
    <3>4. calls' = Tail(calls)
      BY <1>7, <2>0, <3>1, <3>2, Constants DEF Operation
    <3>5. ExecuteStep(e, n, op)
      BY <1>1, <1>2, <1>3, <2>1, <3>3, <3>4 DEF ExecuteStep
    <3> QED BY <3>5
  <2>3. CASE op # "close" /\ op # "doom" /\ (op \in Opening => r.state # "uninitialized")
             /\ \/ after = r
                \/ /\ after = [r EXCEPT !.open_count = @ + 1]
                   /\ op \in {"open", "open_hash"} /\ r.state = "ready"
    <3>1. /\ n \in Records /\ n.state = r.state /\ n.doomed = r.doomed /\ n.create = r.create
          /\ n.file = r.file /\ n.closing = r.closing
          /\ n.task = r.task /\ n.pending = Tail(r.pending)
          /\ \/ n.open_count = r.open_count
             \/ /\ n.open_count = r.open_count + 1
                /\ op \in {"open", "open_hash"} /\ r.state = "ready"
      <4>1. CASE after = r
        <5>1. n = [r EXCEPT !.pending = Tail(r.pending)]
          BY <1>3, <4>1 DEF Records
        <5> HIDE DEF n, after, op
        <5> QED BY <1>3, <2>0, <5>1 DEF Records
      <4>2. CASE /\ after = [r EXCEPT !.open_count = @ + 1]
                 /\ op \in {"open", "open_hash"} /\ r.state = "ready"
        <5>1. n = [r EXCEPT !.open_count = r.open_count + 1, !.pending = Tail(r.pending)]
          BY <1>3, <4>2 DEF Records
        <5>2. op \in {"open", "open_hash"} /\ r.state = "ready" /\ r.open_count + 1 \in Nat
          BY <1>3, <4>2, RecordOf
        <5>3. Tail(r.pending) \in Seq(Operation)
          BY <2>0
        <5> HIDE DEF n, after, op
        <5>4. /\ n \in Records /\ n.state = r.state /\ n.doomed = r.doomed
              /\ n.create = r.create /\ n.file = r.file /\ n.closing = r.closing
              /\ n.task = r.task /\ n.pending = Tail(r.pending)
              /\ n.open_count = r.open_count + 1
          BY <1>3, <5>1, <5>2, <5>3 DEF Records
        <5> QED BY <5>2, <5>4
      <4> QED BY <2>3, <4>1, <4>2
    <3>2. after.task = r.task /\ after.closing = r.closing
      BY <1>3, <2>3 DEF Records
    <3>3. calls' = calls
      BY <1>7, <3>2
    <3> HIDE DEF n
    <3>4. AtOnceStep(r, n, op)
      BY <1>7, <2>0, <2>3, <3>1 DEF AtOnceStep
    <3>5. ExecuteStep(e, n, op)
      BY <1>1, <1>3, <2>1, <3>3, <3>4 DEF ExecuteStep
    <3> QED BY <3>5
  <2>4. CASE op = "close" /\ after = CloseInternal(e)
    <3> DEFINE t == [NoTask EXCEPT !.op = "close", !.file = r.file]
    <3>1. t \in TaskType({"none", "close"}) /\ t.op = "close" /\ ~ t.done /\ t.file = r.file
      BY <1>3, RecordOf, Constants DEF TaskType
    <3>2. /\ n \in Records /\ n.doomed = r.doomed /\ n.create = r.create
          /\ n.open_count = r.open_count /\ n.file = None /\ n.task = r.task
          /\ n.pending = Tail(r.pending)
          /\ \/ /\ r.file # None /\ n.closing = t
                /\ n.state = IF r.state = "ready" THEN "io" ELSE r.state
             \/ r.file = None /\ n.closing = r.closing /\ n.state = "uninitialized"
      <4>1. CASE r.file # None
        <5>1. n = [r EXCEPT !.closing = t, !.state = IF @ = "ready" THEN "io" ELSE @,
                            !.file = None, !.pending = Tail(r.pending)]
          BY <1>3, <2>4, <4>1 DEF CloseInternal, Records
        <5> HIDE DEF n, t
        <5> QED BY <1>3, <2>0, <3>1, <4>1, <5>1, RecordOf, Constants DEF Records, States
      <4>2. CASE r.file = None
        <5>1. n = [r EXCEPT !.state = "uninitialized", !.pending = Tail(r.pending)]
          BY <1>3, <2>4, <4>2 DEF CloseInternal, Records
        <5> HIDE DEF n
        <5> QED BY <1>3, <2>0, <4>2, <5>1 DEF Records, States
      <4> QED BY <4>1, <4>2
    <3> HIDE DEF n, t
    <3>3. ClosingStep(r, n)
      BY <1>7, <2>0, <2>4, <3>1, <3>2 DEF ClosingStep
    <3>4. Did(calls, Run(e), calls') \/ calls' = calls
      BY <1>2, <1>7
    <3>5. ExecuteStep(e, n, op)
      BY <1>1, <1>3, <2>1, <3>3, <3>4 DEF ExecuteStep
    <3> QED BY <3>5
  <2>5. CASE op \in {"open", "open_hash"}
    BY <2>2, <2>3, <2>5 DEF Execute, Opening, Uses
  <2>6. CASE op \in {"create", "create_early"}
    BY <2>2, <2>3, <2>6 DEF Execute, Opening, Uses
  <2>7. CASE op \in {"read", "write", "write_omitted"}
    BY <2>2, <2>3, <2>7 DEF Execute, Opening, Uses
  <2>8. CASE op = "close"
    BY <2>4, <2>8 DEF Execute
  <2>9. CASE op = "doom"
    BY <2>2, <2>9 DEF Execute, Opening, Uses
  <2> QED BY <2>0, <2>5, <2>6, <2>7, <2>8, <2>9 DEF Operation
<1> QED BY <1>1, <1>4, <1>6, <1>7 DEF RunNextOperationIfNeeded

\* The reply of a task of e.
ReplyStep(e, n) ==
  /\ calls = <<>> /\ calls' = <<Run(e)>> /\ Changed(e, n)
  /\ UNCHANGED <<dooming, mass, linked, clients>>
CreatedStep(e, n) ==
  /\ ReplyStep(e, n)
  /\ \/ /\ OpenedStep(entry[e], n) /\ UNCHANGED <<active, index>>
        /\ opened' = IF entry[e].task.op = "open_hash" THEN opened \cup {e} ELSE opened
     \/ /\ NotOpenedStep(entry[e], n) /\ UNCHANGED opened
        /\ \/ entry[e].task.result = "exists" /\ UNCHANGED <<active, index>>
           \/ entry[e].task.result = "failed" /\ MarkAsDoomed(e)
UsedOpStep(e, n) ==
  /\ ReplyStep(e, n) /\ UsedStep(entry[e], n) /\ UNCHANGED opened
  /\ \/ entry[e].task.result = "ok" /\ UNCHANGED <<active, index>>
     \/ entry[e].task.result = "failed" /\ MarkAsDoomed(e)

\* CreationOperationComplete is a CreatedStep.
LEMMA CreationEffect ==
  ASSUME AInv, NEW e \in Entry, CreationOperationComplete(e)
  PROVE  \E n : CreatedStep(e, n)
<1> DEFINE r == entry[e]
           t == r.task
           e0 == [r EXCEPT !.task = NoTask]
<1>1. /\ r \in Records /\ t \in TaskType(TaskOps) /\ t.file \in MaybeFile
      /\ t.done /\ t.op \in Opening /\ calls = <<>> /\ calls' = <<Run(e)>>
      /\ UNCHANGED <<dooming, mass, linked, clients>>
  BY RecordOf, TaskOf DEF AInv, Typed, CreationOperationComplete, Reply, Ready, Opening
<1>2. CASE /\ t.result = "ok"
           /\ entry' = [entry EXCEPT ![e] = [e0 EXCEPT
                        !.state = "ready", !.file = t.file,
                        !.open_count = IF t.op = "create_early" THEN @ ELSE @ + 1]]
           /\ opened' = IF t.op = "open_hash" THEN opened \cup {e} ELSE opened
           /\ UNCHANGED <<active, index>>
  <2> DEFINE n == [e0 EXCEPT !.state = "ready", !.file = t.file,
                     !.open_count = IF t.op = "create_early" THEN @ ELSE @ + 1]
  <2>1. /\ n \in Records /\ n.state = "ready" /\ n.file = t.file /\ n.task = NoTask
        /\ n.open_count = (IF t.op = "create_early" THEN r.open_count ELSE r.open_count + 1)
        /\ n.create = r.create /\ n.doomed = r.doomed /\ n.pending = r.pending
        /\ n.closing = r.closing
    <3>1. n = [r EXCEPT !.task = NoTask, !.state = "ready", !.file = t.file,
                 !.open_count = IF t.op = "create_early" THEN r.open_count ELSE r.open_count + 1]
      BY <1>1 DEF Records
    <3>2. PICK k : k = (IF t.op = "create_early" THEN r.open_count ELSE r.open_count + 1)
      OBVIOUS
    <3>3. k \in Nat
      BY <1>1, <3>2, RecordOf
    <3>4. n = [r EXCEPT !.task = NoTask, !.state = "ready", !.file = t.file, !.open_count = k]
      BY <3>1, <3>2
    <3> HIDE DEF n
    <3>5. /\ n \in Records /\ n.state = "ready" /\ n.file = t.file /\ n.task = NoTask
          /\ n.open_count = k /\ n.create = r.create /\ n.doomed = r.doomed
          /\ n.pending = r.pending /\ n.closing = r.closing
      BY <1>1, <3>3, <3>4, Constants DEF Records, States
    <3> QED BY <3>2, <3>5
  <2>2. Changed(e, n)
    BY <1>2 DEF Changed
  <2> HIDE DEF n
  <2>3. OpenedStep(r, n)
    BY <1>1, <1>2, <2>1 DEF OpenedStep
  <2>4. CreatedStep(e, n)
    BY <1>1, <1>2, <2>2, <2>3 DEF CreatedStep, ReplyStep
  <2> QED BY <2>4
<1>3. CASE /\ t.result = "exists"
           /\ entry' = [entry EXCEPT ![e] = [e0 EXCEPT !.state = "uninitialized"]]
           /\ UNCHANGED <<active, index, opened>>
  <2> DEFINE n == [e0 EXCEPT !.state = "uninitialized"]
  <2>1. /\ n \in Records /\ n.state = "uninitialized" /\ n.file = r.file /\ n.task = NoTask
        /\ n.open_count = r.open_count /\ n.create = r.create /\ n.doomed = r.doomed
        /\ n.pending = r.pending /\ n.closing = r.closing
    BY <1>1, Constants DEF Records, States
  <2>2. Changed(e, n)
    BY <1>3 DEF Changed
  <2> HIDE DEF n
  <2>3. NotOpenedStep(r, n)
    BY <1>1, <1>3, <2>1 DEF NotOpenedStep
  <2>4. CreatedStep(e, n)
    BY <1>1, <1>3, <2>2, <2>3 DEF CreatedStep, ReplyStep
  <2> QED BY <2>4
<1>4. CASE /\ t.result = "failed"
           /\ entry' = [entry EXCEPT ![e] = [e0 EXCEPT !.state = "uninitialized",
                                                       !.doomed = TRUE]]
           /\ MarkAsDoomed(e)
           /\ UNCHANGED opened
  <2> DEFINE n == [e0 EXCEPT !.state = "uninitialized", !.doomed = TRUE]
  <2>1. /\ n \in Records /\ n.state = "uninitialized" /\ n.file = r.file /\ n.task = NoTask
        /\ n.open_count = r.open_count /\ n.create = r.create /\ n.doomed
        /\ n.pending = r.pending /\ n.closing = r.closing
    BY <1>1, Constants DEF Records, States
  <2>2. Changed(e, n)
    BY <1>4 DEF Changed
  <2> HIDE DEF n
  <2>3. NotOpenedStep(r, n)
    BY <1>1, <1>4, <2>1 DEF NotOpenedStep
  <2>4. CreatedStep(e, n)
    BY <1>1, <1>4, <2>2, <2>3 DEF CreatedStep, ReplyStep
  <2> QED BY <2>4
<1> QED BY <1>2, <1>3, <1>4 DEF CreationOperationComplete

\* EntryOperationComplete is a UsedOpStep.
LEMMA UsedEffect ==
  ASSUME AInv, NEW e \in Entry, EntryOperationComplete(e)
  PROVE  \E n : UsedOpStep(e, n)
<1> DEFINE r == entry[e]
           t == r.task
           e0 == [r EXCEPT !.task = NoTask]
<1>1. /\ r \in Records /\ t.done /\ t.op \in Uses /\ calls = <<>> /\ calls' = <<Run(e)>>
      /\ UNCHANGED <<dooming, mass, linked, clients, opened>>
  BY DEF AInv, Typed, EntryOperationComplete, Reply, Ready, Uses
<1>2. CASE /\ t.result = "ok"
           /\ entry' = [entry EXCEPT ![e] = [e0 EXCEPT !.state = "ready"]]
           /\ UNCHANGED <<active, index>>
  <2> DEFINE n == [e0 EXCEPT !.state = "ready"]
  <2>1. /\ n \in Records /\ n.state = "ready" /\ n.file = r.file /\ n.task = NoTask
        /\ n.open_count = r.open_count /\ n.create = r.create /\ n.doomed = r.doomed
        /\ n.pending = r.pending /\ n.closing = r.closing
    BY <1>1, Constants DEF Records, States
  <2>2. Changed(e, n)
    BY <1>2 DEF Changed
  <2> HIDE DEF n
  <2>3. UsedStep(r, n)
    BY <1>1, <1>2, <2>1 DEF UsedStep
  <2>4. UsedOpStep(e, n)
    BY <1>1, <1>2, <2>2, <2>3 DEF UsedOpStep, ReplyStep
  <2> QED BY <2>4
<1>3. CASE /\ t.result = "failed"
           /\ entry' = [entry EXCEPT ![e] = [e0 EXCEPT !.state = "failure",
                                                       !.doomed = TRUE]]
           /\ MarkAsDoomed(e)
  <2> DEFINE n == [e0 EXCEPT !.state = "failure", !.doomed = TRUE]
  <2>1. /\ n \in Records /\ n.state = "failure" /\ n.file = r.file /\ n.task = NoTask
        /\ n.open_count = r.open_count /\ n.create = r.create /\ n.doomed
        /\ n.pending = r.pending /\ n.closing = r.closing
    BY <1>1, Constants DEF Records, States
  <2>2. Changed(e, n)
    BY <1>3 DEF Changed
  <2> HIDE DEF n
  <2>3. UsedStep(r, n)
    BY <1>1, <1>3, <2>1 DEF UsedStep
  <2>4. UsedOpStep(e, n)
    BY <1>1, <1>3, <2>2, <2>3 DEF UsedOpStep, ReplyStep
  <2> QED BY <2>4
<1> QED BY <1>2, <1>3 DEF EntryOperationComplete

\* CloseOperationComplete is a ClosedStep with its reply.
LEMMA ClosedEffect ==
  ASSUME AInv, NEW e \in Entry, CloseOperationComplete(e)
  PROVE  \E n : ReplyStep(e, n) /\ ClosedStep(entry[e], n) /\ UNCHANGED <<active, index, opened>>
<1> DEFINE r == entry[e]
           n == [r EXCEPT !.closing = NoTask, !.state = "uninitialized"]
<1>1. r \in Records /\ Closing(r)
  <2>1. r \in Records /\ Sound(r, Faults) /\ r.closing.done
    BY DEF AInv, Typed, Sane, CloseOperationComplete
  <2> QED BY <2>1 DEF Sound, RInv, Tasks
<1>2. /\ n \in Records /\ n.state = "uninitialized" /\ n.file = r.file /\ n.task = r.task
      /\ n.open_count = r.open_count /\ n.create = r.create /\ n.doomed = r.doomed
      /\ n.pending = r.pending /\ n.closing = NoTask
  BY <1>1, Constants DEF Records, States
<1>3. ReplyStep(e, n) /\ UNCHANGED <<active, index, opened>>
  BY DEF CloseOperationComplete, ReplyStep, Changed, Ready, backend
<1> HIDE DEF n
<1>4. ClosedStep(r, n)
  BY <1>1, <1>2 DEF ClosedStep
<1> QED BY <1>3, <1>4

\* DoomOperationComplete is a DoomedStep with its calls.
LEMMA DoomedEffect ==
  ASSUME AInv, NEW e \in Entry, DoomOperationComplete(e)
  PROVE  \E n : /\ calls = <<>> /\ calls' = <<Run(e), OnDoomComplete>>
                /\ Changed(e, n) /\ DoomedStep(entry[e], n) /\ entry[e].task.done
                /\ UNCHANGED <<active, dooming, index, mass, opened, linked, clients>>
<1> DEFINE r == entry[e]
           n == [r EXCEPT !.task = NoTask, !.state = r.task.restore]
<1>1. r \in Records /\ r.task.op = "doom" /\ Sound(r, Faults)
  BY DEF AInv, Typed, Sane, DoomOperationComplete, Reply
<1>2. r.task.restore \in States
  BY <1>1, RecordOf, TaskOf DEF Sound, RInv, DoomedOnce
<1>3. /\ n \in Records /\ n.state = r.task.restore /\ n.file = r.file /\ n.task = NoTask
      /\ n.open_count = r.open_count /\ n.create = r.create /\ n.doomed = r.doomed
      /\ n.pending = r.pending /\ n.closing = r.closing
  BY <1>1, <1>2, Constants DEF Records
<1>4. /\ calls = <<>> /\ calls' = <<Run(e), OnDoomComplete>> /\ Changed(e, n)
      /\ UNCHANGED <<active, dooming, index, mass, opened, linked, clients>>
      /\ entry[e].task.done
  BY DEF DoomOperationComplete, Reply, Ready, Changed
<1> HIDE DEF n
<1>5. DoomedStep(r, n)
  BY <1>1, <1>3 DEF DoomedStep
<1> QED BY <1>4, <1>5

\* What a worker does with the task t, which is u afterwards.
Worked(t, u) ==
  \/ /\ t.op \in {"open", "open_hash"} /\ linked # None
     /\ u.result = "ok" /\ u.file = linked /\ linked' = linked
  \/ /\ t.op \in Creates /\ linked = None
     /\ u.result = "ok" /\ u.file = FreshFile /\ linked' = FreshFile
  \/ /\ t.op \in Creates /\ (linked # None \/ "io" \in Faults)
     /\ u.result = "exists" /\ u.file = None /\ linked' = linked
  \/ /\ t.op \in Uses /\ u.result = "ok" /\ u.file = t.file /\ linked' = linked
  \/ /\ t.op = "doom" /\ u.result = "ok" /\ u.file = t.file /\ linked' = None
  \/ /\ t.op \in {"open", "open_hash"} /\ (linked = None \/ "io" \in Faults)
     /\ u.result = "failed" /\ u.file = None /\ linked' = None
  \/ /\ t.op \in Creates /\ linked = None /\ "io" \in Faults
     /\ u.result = "failed" /\ u.file = None /\ linked' = None
  \/ /\ t.op \in Uses /\ "io" \in Faults
     /\ u.result = "failed" /\ u.file = t.file /\ linked' = None
  \/ /\ t.op = "write_omitted" /\ t.doomed
     /\ u.result = "failed" /\ u.file = t.file /\ linked' = linked

WorkOneStep(e, n) ==
  /\ Changed(e, n) /\ UNCHANGED <<backend, calls, clients>>
  /\ \/ WorkStep(entry[e], n, Faults) /\ Worked(entry[e].task, n.task)
     \/ /\ WorkCloseStep(entry[e], n)
        /\ linked' = linked \/ ("io" \in Faults /\ linked' = None)

\* Work is a WorkOneStep.
LEMMA WorkEffect ==
  ASSUME AInv, NEW e \in Entry, Work(e)
  PROVE  \E n : WorkOneStep(e, n)
<1> DEFINE r == entry[e]
           t == r.task
<1>1. r \in Records /\ Sound(r, Faults) /\ t \in TaskType(TaskOps) /\ linked \in MaybeFile
      /\ UNCHANGED <<backend, calls, clients>>
  BY RecordOf DEF AInv, Typed, Sane, Work
<1>2. ASSUME NEW result \in Result, NEW file \in MaybeFile, Done(e, result, file),
             Busy(r), ~ t.done,
             t.op \in Uses => result \in {"ok", "failed"},
             t.op \in Uses /\ Faults = {} /\ Calm(r) => result = "ok",
             t.op \in Opening /\ result = "ok" => file # None
      PROVE  \E n : /\ Changed(e, n) /\ WorkStep(r, n, Faults)
                    /\ n.task.result = result /\ n.task.file = file
  <2> DEFINE u == [t EXCEPT !.done = TRUE, !.result = result, !.file = file]
             n == [r EXCEPT !.task = u]
  <2>1. /\ u \in TaskType(TaskOps) /\ u.op = t.op /\ u.done /\ u.result = result
        /\ u.file = file /\ u.restore = t.restore /\ u.doomed = t.doomed
    BY <1>1 DEF TaskType
  <2>2. Changed(e, n)
    BY <1>1, <1>2 DEF Done, Changed, AInv, Typed, Records, TaskType
  <2> HIDE DEF u
  <2>3. /\ n \in Records /\ n.task = u /\ n.state = r.state /\ n.create = r.create
        /\ n.doomed = r.doomed /\ n.pending = r.pending /\ n.open_count = r.open_count
        /\ n.file = r.file /\ n.closing = r.closing
    BY <1>1, <2>1 DEF Records
  <2> HIDE DEF n
  <2>4. WorkStep(r, n, Faults)
    BY <1>2, <2>1, <2>3 DEF WorkStep
  <2> QED BY <2>1, <2>2, <2>3, <2>4
<1>3. ASSUME Busy(r), ~ t.done, NEW result \in Result, NEW file \in MaybeFile,
             Done(e, result, file),
             \A u : u.result = result /\ u.file = file => Worked(t, u),
             t.op \in Uses => result \in {"ok", "failed"},
             t.op \in Uses /\ Faults = {} /\ Calm(r) => result = "ok",
             t.op \in Opening /\ result = "ok" => file # None
      PROVE  \E n : WorkOneStep(e, n)
  <2>1. PICK n : /\ Changed(e, n) /\ WorkStep(r, n, Faults)
                 /\ n.task.result = result /\ n.task.file = file
    BY <1>2, <1>3
  <2> QED BY <1>1, <1>3, <2>1 DEF WorkOneStep
<1>4. t.file \in MaybeFile /\ None \in MaybeFile /\ None \notin File
      /\ "ok" \in Result /\ "failed" \in Result /\ "exists" \in Result
  BY <1>1, TaskOf, Constants DEF Result
<1>5. ASSUME Busy(r), ~ t.done, WorkWell(e) PROVE \E n : WorkOneStep(e, n)
  <2>1. CASE /\ t.op \in {"open", "open_hash"} /\ linked # None
             /\ Done(e, "ok", linked) /\ UNCHANGED linked
    <3>1. \A u : u.result = "ok" /\ u.file = linked => Worked(t, u)
      BY <2>1 DEF Worked
    <3>2. t.op \notin Uses
      BY <2>1 DEF Uses
    <3> QED BY <1>1, <1>3, <1>4, <1>5, <2>1, <3>1, <3>2
  <2>2. CASE /\ t.op \in {"create", "create_early"} /\ linked = None
             /\ Done(e, "ok", FreshFile) /\ linked' = FreshFile
    <3>1. \A u : u.result = "ok" /\ u.file = FreshFile => Worked(t, u)
      BY <2>2 DEF Worked, Creates
    <3>2. t.op \notin Uses
      BY <2>2 DEF Uses
    <3>3. FreshFile \in MaybeFile /\ FreshFile # None
      BY <1>4, <2>2, FreshFileIs DEF MaybeFile, AInv
    <3> QED BY <1>3, <1>4, <1>5, <2>2, <3>1, <3>2, <3>3
  <2>3. CASE /\ t.op \in {"create", "create_early"} /\ linked # None
             /\ Done(e, "exists", None) /\ UNCHANGED linked
    <3>1. \A u : u.result = "exists" /\ u.file = None => Worked(t, u)
      BY <2>3 DEF Worked, Creates
    <3>2. t.op \notin Uses
      BY <2>3 DEF Uses
    <3> QED BY <1>3, <1>4, <1>5, <2>3, <3>1, <3>2
  <2>4. CASE /\ t.op \in Uses /\ Done(e, "ok", t.file) /\ UNCHANGED linked
    <3>1. \A u : u.result = "ok" /\ u.file = t.file => Worked(t, u)
      BY <2>4 DEF Worked
    <3>2. t.op \notin Opening
      BY <2>4 DEF Uses, Opening
    <3> QED BY <1>3, <1>4, <1>5, <2>4, <3>1, <3>2
  <2>5. CASE t.op = "doom" /\ Done(e, "ok", t.file) /\ linked' = None
    <3>1. \A u : u.result = "ok" /\ u.file = t.file => Worked(t, u)
      BY <2>5 DEF Worked
    <3>2. t.op \notin Opening /\ t.op \notin Uses
      BY <2>5 DEF Uses, Opening
    <3> QED BY <1>3, <1>4, <1>5, <2>5, <3>1, <3>2
  <2> QED BY <1>5, <2>1, <2>2, <2>3, <2>4, <2>5 DEF WorkWell, Uses
<1>6. ASSUME Busy(r), ~ t.done, WorkBadly(e) PROVE \E n : WorkOneStep(e, n)
  <2>0. "io" \in Faults => Faults # {}
    OBVIOUS
  <2>1. CASE /\ t.op \in {"open", "open_hash"} /\ (linked = None \/ "io" \in Faults)
             /\ Done(e, "failed", None) /\ linked' = None
    <3>1. \A u : u.result = "failed" /\ u.file = None => Worked(t, u)
      BY <2>1 DEF Worked
    <3>2. t.op \notin Uses
      BY <2>1 DEF Uses
    <3> QED BY <1>3, <1>4, <1>6, <2>1, <3>1, <3>2
  <2>2. CASE /\ t.op \in {"create", "create_early"} /\ "io" \in Faults
             /\ Done(e, "exists", None) /\ UNCHANGED linked
    <3>1. \A u : u.result = "exists" /\ u.file = None => Worked(t, u)
      BY <2>2 DEF Worked, Creates
    <3>2. t.op \notin Uses
      BY <2>2 DEF Uses
    <3> QED BY <1>3, <1>4, <1>6, <2>2, <3>1, <3>2
  <2>3. CASE /\ t.op \in {"create", "create_early"} /\ linked = None /\ "io" \in Faults
             /\ Done(e, "failed", None) /\ linked' = None
    <3>1. \A u : u.result = "failed" /\ u.file = None => Worked(t, u)
      BY <2>3 DEF Worked, Creates
    <3>2. t.op \notin Uses
      BY <2>3 DEF Uses
    <3> QED BY <1>3, <1>4, <1>6, <2>3, <3>1, <3>2
  <2>4. CASE /\ t.op \in Uses /\ "io" \in Faults
             /\ Done(e, "failed", t.file) /\ linked' = None
    <3>1. \A u : u.result = "failed" /\ u.file = t.file => Worked(t, u)
      BY <2>4 DEF Worked
    <3> QED BY <1>3, <1>4, <1>6, <2>0, <2>4, <3>1
  <2>5. CASE /\ t.op = "write_omitted" /\ t.doomed
             /\ Done(e, "failed", t.file) /\ UNCHANGED linked
    <3>1. \A u : u.result = "failed" /\ u.file = t.file => Worked(t, u)
      BY <2>5 DEF Worked
    <3>2. ~ Calm(r)
      BY <2>5 DEF Calm
    <3> QED BY <1>3, <1>4, <1>6, <2>5, <3>1, <3>2
  <2> QED BY <1>6, <2>1, <2>2, <2>3, <2>4, <2>5 DEF WorkBadly, Uses
<1>7. ASSUME Closing(r), WorkClose(e) PROVE \E n : WorkOneStep(e, n)
  <2> DEFINE u == [r.closing EXCEPT !.done = TRUE]
             n == [r EXCEPT !.closing = u]
  <2>1. u \in TaskType({"none", "close"}) /\ u.op = r.closing.op /\ u.file = r.closing.file
    BY <1>1, RecordOf DEF TaskType
  <2>2. Changed(e, n)
    BY <1>1, <1>7 DEF WorkClose, Changed, AInv, Typed, Records
  <2> HIDE DEF u
  <2>3. /\ n \in Records /\ n.task = r.task /\ n.state = r.state /\ n.create = r.create
        /\ n.doomed = r.doomed /\ n.pending = r.pending /\ n.open_count = r.open_count
        /\ n.file = r.file /\ n.closing = u
    BY <1>1, <2>1 DEF Records
  <2> HIDE DEF n
  <2>4. WorkCloseStep(r, n)
    BY <1>7, <2>1, <2>3 DEF WorkCloseStep
  <2>5. linked' = linked \/ ("io" \in Faults /\ linked' = None)
    BY <1>7 DEF WorkClose
  <2>6. WorkOneStep(e, n)
    BY <1>1, <2>2, <2>4, <2>5 DEF WorkOneStep
  <2> QED BY <2>6
<1> QED BY <1>5, <1>6, <1>7 DEF Work, Busy, Closing

-----------------------------------------------------------------------------
(* What a step does.                                                       *)

SameScenario ==
  /\ clients' \in [left : Nat, scenario : Scenarios]
  /\ clients'.scenario = clients.scenario /\ clients'.left <= clients.left

BackendCall(what, rest) ==
  Resting(what, rest) /\ BackendStep(what, rest) /\ linked' = linked /\ SameScenario

\* OnDoomComplete.
EndStep ==
  /\ calls # <<>> /\ Head(calls) = OnDoomComplete
  /\ dooming' = NoDoom /\ calls' = IF dooming = NoDoom THEN <<>> ELSE dooming
  /\ UNCHANGED <<entry, active, index, mass, opened, linked, clients>>

NotifyOneStep(e, n, rest) ==
  /\ calls # <<>> /\ Head(calls) = Waiter("notify", e)
  /\ Did(calls, Waiter("notify", e), rest) /\ Called(rest, Run(e), calls')
  /\ Changed(e, n) /\ NotifyStep(entry[e], n) /\ dooming = NoDoom
  /\ dooming' = IF entry[e].create = "pending_then_doom" THEN <<>> ELSE dooming
  /\ UNCHANGED <<active, index, mass, opened, linked, clients>>

\* The replies of CloseOperationComplete and DoomOperationComplete.
ClosedReply(e, n) ==
  ReplyStep(e, n) /\ ClosedStep(entry[e], n) /\ UNCHANGED <<active, index, opened>>
DoomedReply(e, n) ==
  /\ calls = <<>> /\ calls' = <<Run(e), OnDoomComplete>>
  /\ Changed(e, n) /\ DoomedStep(entry[e], n) /\ entry[e].task.done
  /\ UNCHANGED <<active, dooming, index, mass, opened, linked, clients>>
MassReply ==
  /\ calls = <<>> /\ calls' = <<OnDoomComplete>> /\ mass = "done" /\ mass' = "none"
  /\ UNCHANGED <<entry, active, dooming, index, opened, linked, clients>>

\* OnEntryOpenedFromHash, with no active entry and with one.
AdoptStep(e) ==
  /\ calls = <<>> /\ e \in opened /\ opened' = opened \ {e} /\ active = None /\ active' = e
  /\ UNCHANGED <<entry, dooming, index, mass, calls, linked, clients>>
InsteadStep(e, n, m) ==
  /\ calls = <<>> /\ e \in opened /\ opened' = opened \ {e} /\ active # None /\ e # active
  /\ entry' = [entry EXCEPT ![e] = n, ![active] = m]
  /\ PushStep(entry[e], n, "close") /\ n.open_count = 0
  /\ \/ /\ index /\ PushStep(entry[active], m, "open")
        /\ Called(<<Run(active)>>, Run(e), calls')
     \/ m = entry[active] /\ calls' = <<Run(e)>>
  /\ UNCHANGED <<active, dooming, index, mass, linked, clients>>

\* A holder uses or closes an entry, or dooms it.
UseStep(e, n) ==
  /\ calls = <<>> /\ Held(e) /\ Changed(e, n)
  /\ \/ /\ calls' = <<Run(e)>>
        /\ \E op : /\ PushStep(entry[e], n, op) /\ op # "open"
                   /\ op = "write_omitted" => "lazy" \in Faults
     \/ FewerStep(entry[e], n) /\ calls' = <<>>
  /\ UNCHANGED <<backend, linked>> /\ SameScenario
DoomCall(e, n) ==
  /\ calls = <<>> /\ Held(e) /\ DoomOneStep(e, <<>>, n)
  /\ linked' = linked /\ SameScenario

DestroyStep(e) ==
  /\ Unreferenced(e) /\ Changed(e, Unused)
  /\ active' = IF active = e THEN None ELSE active
  /\ UNCHANGED <<dooming, index, mass, opened, calls, linked, clients>>

EntryStep(e) ==
  \/ \E n, op : ExecuteStep(e, n, op)
  \/ \E n, rest : NotifyOneStep(e, n, rest)
  \/ \E n, m : InsteadStep(e, n, m)
  \/ \E n : \/ CreatedStep(e, n) \/ UsedOpStep(e, n) \/ ClosedReply(e, n) \/ DoomedReply(e, n)
            \/ WorkOneStep(e, n) \/ UseStep(e, n) \/ DoomCall(e, n)
  \/ AdoptStep(e) \/ DestroyStep(e)

Step ==
  \/ \E what, rest : BackendCall(what, rest)
  \/ EndStep \/ MassReply \/ WorkMass
  \/ \E e \in Entry : EntryStep(e)

\* DoomComplete is an EndStep.
LEMMA EndEffect ==
  ASSUME AInv, DoomComplete
  PROVE  EndStep
<1>1. calls # <<>> /\ Head(calls) = OnDoomComplete /\ Did(calls, Head(calls), Tail(calls))
  BY HeadIs DEF DoomComplete
<1>2. Head(calls).call = "doomed"
  BY <1>1 DEF OnDoomComplete
<1>3. Tail(calls) = <<>>
  BY <1>1, <1>2 DEF Did, AInv
<1>4. dooming # NoDoom => dooming \o <<>> = dooming
  BY DEF AInv, Typed
<1>5. <<>> \o <<>> = <<>>
  OBVIOUS
<1>6. calls' = (IF dooming = NoDoom THEN <<>> ELSE dooming) \o <<>>
  BY <1>3 DEF DoomComplete
<1>7. calls' = IF dooming = NoDoom THEN <<>> ELSE dooming
  BY <1>4, <1>5, <1>6
<1> QED BY <1>1, <1>7 DEF EndStep, DoomComplete

\* NotifyDoomBeforeCreateComplete is a NotifyOneStep.
LEMMA NotifyEffect ==
  ASSUME AInv, NotifyDoomBeforeCreateComplete
  PROVE  \E e \in Entry : \E n, rest : NotifyOneStep(e, n, rest)
<1>1. PICK e \in Entry : Head(calls) = Waiter("notify", e) /\ Head(calls).entry = e
  BY HeadIs DEF NotifyDoomBeforeCreateComplete
<1>2. calls # <<>> /\ Did(calls, Waiter("notify", e), Tail(calls))
  BY <1>1, HeadIs DEF NotifyDoomBeforeCreateComplete
<1> DEFINE r == entry[e]
           n == [r EXCEPT !.state = "uninitialized", !.create = "normal"]
<1>3. r \in Records
  BY DEF AInv, Typed
<1>4. /\ n \in Records /\ n.state = "uninitialized" /\ n.create = "normal"
      /\ n.doomed = r.doomed /\ n.pending = r.pending
      /\ n.open_count = r.open_count /\ n.file = r.file /\ n.task = r.task
      /\ n.closing = r.closing
  BY <1>3 DEF Records, States
<1>5. Changed(e, n)
  BY <1>1, <1>3 DEF NotifyDoomBeforeCreateComplete, Changed, AInv, Typed, Records
<1>6. dooming = NoDoom /\ r.create # "normal"
  <2>1. Head(calls) = calls[1] /\ 1 \in DOMAIN calls
    BY <1>2, HeadTailProperties, LenProperties, EmptySeq DEF AInv, Typed
  <2>2. Named(calls, "notify") /\ Notifies(calls, e)
    BY <1>1, <1>2, <2>1 DEF Named, Notifies, Waiter
  <2> QED BY <2>2 DEF AInv, Notified
<1>7. Called(Tail(calls), Run(e), calls')
  <2>1. Tail(calls) \in Seq(CallType)
    BY <1>2 DEF Did
  <2>2. calls' = <<Run(e)>> \o Tail(calls)
    BY <1>1 DEF NotifyDoomBeforeCreateComplete
  <2>3. PICK q : q = Tail(calls)
    OBVIOUS
  <2>4. Called(q, Run(e), calls')
    BY <2>1, <2>2, <2>3, RunComesFirst
  <2> QED BY <2>3, <2>4
<1> HIDE DEF n
<1>8. NotifyStep(r, n)
  BY <1>4, <1>6 DEF NotifyStep
<1>9. dooming' = (IF r.create = "pending_then_doom" THEN <<>> ELSE dooming)
      /\ UNCHANGED <<active, index, mass, opened, linked, clients>>
  BY <1>1, <1>6 DEF NotifyDoomBeforeCreateComplete, OnDoomStart
<1>10. NotifyOneStep(e, n, Tail(calls))
  BY <1>1, <1>2, <1>5, <1>6, <1>7, <1>8, <1>9 DEF NotifyOneStep
<1> QED BY <1>10

\* An entry that somebody holds.
LEMMA HeldIs ==
  ASSUME AInv, NEW e \in Entry, Held(e)
  PROVE  /\ entry[e] \in Records /\ entry[e].open_count > 0 /\ ~ Free(e)
         /\ ~ IsHash(entry[e]) /\ e \notin opened
<1>1. entry[e] \in Records /\ Sound(entry[e], Faults) /\ entry[e].open_count \in Nat
  BY RecordOf DEF AInv, Typed, Sane
<1>2. entry[e].open_count > 0
  BY <1>1 DEF Held
<1>3. e \notin opened
  BY <1>1 DEF Held, AInv, OpenedAreLone, Lone
<1> QED BY <1>1, <1>2, <1>3, UnusedIs DEF Sound, RInv, Blank, Hashed, IsHash, Free

\* An operation is pushed on an entry.
LEMMA PushIs ==
  ASSUME AInv, NEW e \in Entry, NEW op \in {"open", "read", "write", "write_omitted", "close"},
         ~ Free(e), ~ IsHash(entry[e]), op = "open" => ~ entry[e].doomed,
         NEW k \in Nat, k = entry[e].open_count \/ (op = "close" /\ k = entry[e].open_count - 1)
  PROVE  /\ PushStep(entry[e], [Push(e, op) EXCEPT !.open_count = k], op)
         /\ [Push(e, op) EXCEPT !.open_count = k]
              = [entry[e] EXCEPT !.open_count = k, !.pending = Append(@, op)]
<1> DEFINE r == entry[e]
           n == [Push(e, op) EXCEPT !.open_count = k]
<1>1. r \in Records
  BY DEF AInv, Typed
<1>2. PICK q : q = Append(r.pending, op)
  OBVIOUS
<1>3. op \in Operation /\ r.pending \in Seq(Operation)
  BY <1>1, RecordOf DEF Operation
<1>4. Pushed(r.pending, op, q)
  BY <1>2, <1>3, Pushing
<1>5. n = [r EXCEPT !.open_count = k, !.pending = q]
  BY <1>1, <1>2 DEF Push, Records
<1>6. q \in Seq(Operation)
  BY <1>4 DEF Pushed
<1>a. [r EXCEPT !.open_count = k, !.pending = q] = [r EXCEPT !.open_count = k, !.pending = Append(@, op)]
  BY <1>2
<1>b. n = [r EXCEPT !.open_count = k, !.pending = Append(@, op)]
  BY <1>5, <1>a
<1> HIDE DEF n
<1>7. /\ n \in Records /\ n.state = r.state /\ n.doomed = r.doomed /\ n.create = r.create
      /\ n.open_count = k /\ n.file = r.file /\ n.task = r.task /\ n.closing = r.closing
      /\ n.pending = q
  BY <1>1, <1>5, <1>6 DEF Records
<1>8. PushStep(r, n, op)
  BY <1>4, <1>7 DEF PushStep, Free
<1> QED BY <1>8, <1>b DEF n

\* The scenario stays, and a call of a client starts with an idle IO thread.
LEMMA SameClients ==
  ASSUME AInv
  PROVE  /\ UNCHANGED clients => SameScenario
         /\ Call => SameScenario /\ calls = <<>> /\ linked' = linked
<1>1. clients \in [left : Nat, scenario : Scenarios]
  BY DEF AInv, Typed
<1> QED BY <1>1 DEF SameScenario, Call, Ready

\* A read or a write is a UseStep.
LEMMA UseEffect ==
  ASSUME AInv, NEW e \in Entry, NEW op \in Uses, op = "write_omitted" => "lazy" \in Faults,
         CallReadWrite(e, op)
  PROVE  \E n : UseStep(e, n)
<1> DEFINE r == entry[e]
           n == Push(e, op)
           n2 == [Push(e, op) EXCEPT !.open_count = r.open_count]
<1>0. Held(e) /\ calls' = <<Run(e)>> /\ UNCHANGED backend /\ Call /\ Changed(e, n)
  BY DEF CallReadWrite, Changed
<1>1. /\ r \in Records /\ ~ Free(e) /\ ~ IsHash(r)
  BY <1>0, HeldIs
<1>2. op \in {"open", "read", "write", "write_omitted", "close"} /\ op # "open"
  BY DEF Uses
<1>3. PushStep(r, n2, op)
  BY <1>1, <1>2, RecordOf, PushIs
<1>4. n2 = n
  BY <1>1 DEF Push, Records
<1>5. PushStep(r, n, op)
  BY <1>3, <1>4
<1> HIDE DEF n, n2
<1>6. UseStep(e, n)
  BY <1>0, <1>2, <1>5, SameClients DEF UseStep
<1> QED BY <1>6

\* CallDoom is a DoomCall.
LEMMA DoomCallEffect ==
  ASSUME AInv, NEW e \in Entry, CallDoom(e)
  PROVE  \E n : DoomCall(e, n)
<1>1. Held(e) /\ Call /\ ~ entry[e].doomed /\ DoomEntry(e, <<>>) /\ UNCHANGED <<mass, opened>>
  BY DEF CallDoom
<1>2. <<>> \in Seq(CallType)
  OBVIOUS
<1>3. \E n : DoomOneStep(e, <<>>, n)
  BY <1>1, <1>2, HeldIs, DoomEffect
<1> QED BY <1>1, <1>3, SameClients DEF DoomCall

\* Close is a UseStep.
LEMMA CloseEffect ==
  ASSUME AInv, NEW e \in Entry, Close(e)
  PROVE  \E n : UseStep(e, n)
<1> DEFINE r == entry[e]
<1>1. Held(e) /\ calls = <<>> /\ UNCHANGED <<backend, linked, clients>>
  BY DEF Close, Ready
<1>2. r \in Records /\ ~ Free(e) /\ ~ IsHash(r) /\ r.open_count > 0 /\ r.open_count \in Nat
  BY <1>1, HeldIs, RecordOf
<1>3. CASE r.open_count = 1
  <2>0. PICK k : k = 0
    OBVIOUS
  <2> DEFINE n == [Push(e, "close") EXCEPT !.open_count = k]
             n1 == [Push(e, "close") EXCEPT !.open_count = @ - 1]
  <2>1. PushStep(r, n, "close")
    <3>1. k \in Nat /\ k = r.open_count - 1
      BY <1>3, <2>0
    <3> QED BY <1>2, <3>1, PushIs
  <2>2. Changed(e, n1) /\ calls' = <<Run(e)>>
    BY <1>3 DEF Close, Changed
  <2>3. n1 = n
    <3>1. n1 = [Push(e, "close") EXCEPT !.open_count = r.open_count - 1]
      BY <1>2 DEF Push, Records
    <3>2. r.open_count - 1 = k
      BY <1>3, <2>0
    <3> QED BY <3>1, <3>2
  <2>4. Changed(e, n)
    BY <2>2, <2>3
  <2> HIDE DEF n, n1
  <2>5. UseStep(e, n)
    BY <1>1, <2>1, <2>2, <2>4, SameClients DEF UseStep
  <2> QED BY <2>5
<1>4. CASE r.open_count # 1
  <2> DEFINE n == [r EXCEPT !.open_count = @ - 1]
  <2>1. Changed(e, n) /\ calls' = <<>>
    BY <1>4 DEF Close, Changed
  <2>2. r.open_count - 1 \in Nat /\ r.open_count > 1
    BY <1>2, <1>4
  <2>3. /\ n \in Records /\ n.state = r.state /\ n.create = r.create /\ n.doomed = r.doomed
        /\ n.pending = r.pending /\ n.file = r.file /\ n.task = r.task
        /\ n.closing = r.closing /\ n.open_count = r.open_count - 1
    BY <1>2, <2>2 DEF Records
  <2> HIDE DEF n
  <2>4. FewerStep(r, n)
    BY <2>2, <2>3 DEF FewerStep
  <2>5. UseStep(e, n)
    BY <1>1, <2>1, <2>4, SameClients DEF UseStep
  <2> QED BY <2>5
<1> QED BY <1>3, <1>4

\* OnEntryOpenedFromHash is an AdoptStep or an InsteadStep.
LEMMA OpenedEffect ==
  ASSUME AInv, NEW e \in Entry, OnEntryOpenedFromHash(e)
  PROVE  AdoptStep(e) \/ \E n, m : InsteadStep(e, n, m)
<1> DEFINE r == entry[e]
           a == entry[active]
<1>1. /\ calls = <<>> /\ e \in opened /\ opened' = opened \ {e}
      /\ UNCHANGED <<dooming, index, mass, linked, clients>>
  BY DEF OnEntryOpenedFromHash, Ready
<1>2. CASE active = None
  BY <1>1, <1>2 DEF OnEntryOpenedFromHash, AdoptStep
<1>3. CASE active # None
  <2> DEFINE n == [r EXCEPT !.open_count = 0, !.pending = Append(@, "close")]
             n1 == [r EXCEPT !.open_count = @ - 1, !.pending = Append(@, "close")]
             m == IF index THEN Push(active, "open") ELSE a
             m1 == [Push(active, "open") EXCEPT !.open_count = a.open_count]
  <2>1. /\ r \in Records /\ Lone(r) /\ r.open_count = 1 /\ Sound(r, Faults)
    BY <1>1 DEF AInv, Typed, Sane, OpenedAreLone, Lone
  <2>2. ~ Free(e) /\ ~ IsHash(r)
    BY <2>1, UnusedIs DEF Sound, RInv, Blank, Hashed, IsHash, Free
  <2>3. /\ active \in Entry /\ a \in Records /\ ~ Free(active) /\ ~ a.doomed /\ ~ IsHash(a)
        /\ e # active
    BY <1>1, <1>3, ActiveIs
  <2>4. /\ entry' = [entry EXCEPT ![e] = n1, ![active] = IF index THEN Push(active, "open") ELSE @]
        /\ calls' = <<Run(e)>> \o (IF index THEN <<Run(active)>> ELSE <<>>)
        /\ UNCHANGED active
    BY <1>3 DEF OnEntryOpenedFromHash, OpenActiveInstead
  <2>5. n1 = n
    BY <2>1 DEF Records
  <2>6. entry' = [entry EXCEPT ![e] = n, ![active] = m]
    <3> HIDE DEF n, n1
    <3> QED BY <2>3, <2>4, <2>5 DEF AInv, Typed
  <2>7. PushStep(r, n, "close")
    <3>1. PICK k : k = 0
      OBVIOUS
    <3>2. k \in Nat /\ k = r.open_count - 1
      BY <2>1, <3>1
    <3>3. /\ PushStep(r, [Push(e, "close") EXCEPT !.open_count = k], "close")
          /\ [Push(e, "close") EXCEPT !.open_count = k]
               = [r EXCEPT !.open_count = k, !.pending = Append(@, "close")]
      BY <2>2, <3>2, PushIs
    <3> QED BY <3>1, <3>3
  <2>8. n.open_count = 0
    BY <2>1 DEF Records
  <2>9. index => PushStep(a, m, "open")
    <3>1. PushStep(a, m1, "open")
      BY <2>3, RecordOf, PushIs
    <3>2. m1 = Push(active, "open")
      BY <2>3 DEF Push, Records
    <3> HIDE DEF m1
    <3> QED BY <3>1, <3>2
  <2>10. IF index THEN Called(<<Run(active)>>, Run(e), calls') ELSE calls' = <<Run(e)>>
    <3>1. <<Run(active)>> \in Seq(CallType)
      BY <2>3, RunCalls
    <3>2. CASE index
      <4>1. calls' = <<Run(e)>> \o <<Run(active)>>
        BY <2>4, <3>2
      <4> QED BY <3>1, <3>2, <4>1, RunComesFirst
    <3>3. CASE ~ index
      <4>1. calls' = <<Run(e)>> \o <<>> /\ <<Run(e)>> \in Seq(CallType)
        BY <2>4, <3>3, RunCalls
      <4> QED BY <3>3, <4>1
    <3> QED BY <3>2, <3>3
  <2>11. ~ index => m = a
    OBVIOUS
  <2> HIDE DEF n, m
  <2>12. InsteadStep(e, n, m)
    BY <1>1, <1>3, <2>3, <2>4, <2>6, <2>7, <2>8, <2>9, <2>10, <2>11 DEF InsteadStep
  <2> QED BY <2>12
<1> QED BY <1>2, <1>3

\* The operations that clients and waiters call.
LEMMA CallEffect ==
  ASSUME AInv, CallOpenEntry \/ CallCreateEntry \/ CallDoomEntry \/ CallDoomEntries
               \/ CallOpenNextEntry
  PROVE  \E what, rest : BackendCall(what, rest)
<1>0. /\ "open" \in WaitNames /\ "create" \in WaitNames /\ "doom" \in WaitNames
      /\ "doom_hash" \in WaitNames /\ "open_hash" \in WaitNames
  BY DEF WaitNames
<1>1. calls = <<>> /\ linked' = linked /\ SameScenario
  BY SameClients DEF CallOpenEntry, CallCreateEntry, CallDoomEntry, CallDoomEntries, CallOpenNextEntry
<1>2. ASSUME NEW w \in WaitNames, w # "open_hash" PROVE Resting(w, <<>>)
  BY <1>1, <1>2 DEF Resting
<1>a. Resting("open", <<>>) /\ Resting("create", <<>>) /\ Resting("doom", <<>>)
      /\ Resting("doom_hash", <<>>)
  BY <1>0, <1>2
<1>3. CASE CallOpenEntry
  <2>1. HasFresh /\ BackendOpenEntry(<<>>)
    BY <1>3 DEF CallOpenEntry
  <2>2. BackendStep("open", <<>>)
    BY <1>a, <2>1, BackendOpenEffect
  <2> QED BY <1>1, <1>a, <2>2 DEF BackendCall
<1>4. CASE CallCreateEntry
  <2>1. HasFresh /\ BackendCreateEntry(<<>>)
    BY <1>4 DEF CallCreateEntry
  <2>2. BackendStep("create", <<>>)
    BY <1>a, <2>1, BackendCreateEffect
  <2> QED BY <1>1, <1>a, <2>2 DEF BackendCall
<1>5. CASE CallDoomEntry
  <2>1. HasFresh /\ BackendDoomEntry(<<>>)
    BY <1>5 DEF CallDoomEntry
  <2>2. BackendStep("doom", <<>>)
    BY <1>a, <2>1, BackendDoomEffect
  <2> QED BY <1>1, <1>a, <2>2 DEF BackendCall
<1>6. CASE CallDoomEntries
  <2>1. DoomEntryFromHash(FALSE, <<>>)
    BY <1>6 DEF CallDoomEntries
  <2>2. BackendStep("doom_hash", <<>>)
    BY <1>a, <2>1, DoomHashEffect
  <2> QED BY <1>1, <1>a, <2>2 DEF BackendCall
<1>7. CASE CallOpenNextEntry
  <2>1. Iterate /\ HasFresh /\ OpenEntryFromHash(<<>>)
    BY <1>7 DEF CallOpenNextEntry
  <2>2. Resting("open_hash", <<>>)
    BY <1>0, <1>1, <2>1 DEF Resting
  <2>3. BackendStep("open_hash", <<>>)
    BY <2>1, <2>2, OpenHashEffect
  <2> QED BY <1>1, <2>2, <2>3 DEF BackendCall
<1> QED BY <1>3, <1>4, <1>5, <1>6, <1>7

\* A waiter that is called again is a call of the backend.
LEMMA WaiterEffect ==
  ASSUME AInv, RunWaiter
  PROVE  \E what, rest : BackendCall(what, rest)
<1>0. /\ "open" \in WaitNames /\ "create" \in WaitNames /\ "doom" \in WaitNames
      /\ "doom_hash" \in WaitNames /\ "open_hash" \in WaitNames
  BY DEF WaitNames
<1> DEFINE rest == Tail(calls)
<1>1. linked' = linked /\ SameScenario /\ (active = None \/ dooming = <<>> => HasFresh)
  BY SameClients DEF RunWaiter
<1>2. ASSUME NEW w \in WaitNames, Calling(w) PROVE Resting(w, rest)
  BY <1>2 DEF Resting, Calling
<1>3. CASE Calling("open") /\ BackendOpenEntry(rest)
  <2>1. Resting("open", rest)
    BY <1>0, <1>2, <1>3
  <2>2. BackendStep("open", rest)
    BY <1>1, <1>3, <2>1, BackendOpenEffect
  <2> QED BY <1>1, <2>1, <2>2 DEF BackendCall
<1>4. CASE Calling("create") /\ BackendCreateEntry(rest)
  <2>1. Resting("create", rest)
    BY <1>0, <1>2, <1>4
  <2>2. BackendStep("create", rest)
    BY <1>1, <1>4, <2>1, BackendCreateEffect
  <2> QED BY <1>1, <2>1, <2>2 DEF BackendCall
<1>5. CASE Calling("doom") /\ BackendDoomEntry(rest)
  <2>1. Resting("doom", rest)
    BY <1>0, <1>2, <1>5
  <2>2. BackendStep("doom", rest)
    BY <1>1, <1>5, <2>1, BackendDoomEffect
  <2> QED BY <1>1, <2>1, <2>2 DEF BackendCall
<1>6. CASE Calling("doom_hash") /\ DoomEntryFromHash(index, rest)
  <2>1. Resting("doom_hash", rest)
    BY <1>0, <1>2, <1>6
  <2>2. BackendStep("doom_hash", rest)
    BY <1>1, <1>6, <2>1, DoomHashEffect
  <2> QED BY <1>1, <2>1, <2>2 DEF BackendCall
<1>7. CASE Calling("open_hash") /\ OpenEntryFromHash(rest)
  <2>1. Resting("open_hash", rest)
    BY <1>0, <1>2, <1>7
  <2>2. BackendStep("open_hash", rest)
    BY <1>1, <1>7, <2>1, OpenHashEffect
  <2> QED BY <1>1, <2>1, <2>2 DEF BackendCall
<1> QED BY <1>3, <1>4, <1>5, <1>6, <1>7 DEF RunWaiter

\* Every step is one of those above.
LEMMA NextIsStep ==
  ASSUME AInv, Next
  PROVE  Step
<1>1. CASE IOThread
  <2>1. CASE RunNextOperationIfNeeded
    BY <2>1, RunEffect DEF Step, EntryStep
  <2>2. CASE DoomComplete
    BY <2>2, EndEffect DEF Step
  <2>3. CASE NotifyDoomBeforeCreateComplete
    BY <2>3, NotifyEffect DEF Step, EntryStep
  <2>4. CASE RunWaiter
    BY <2>4, WaiterEffect DEF Step
  <2>5. CASE DoomEntriesComplete
    BY <2>5 DEF Step, MassReply, DoomEntriesComplete, Ready
  <2>6. ASSUME NEW e \in Entry, Destroy(e) PROVE Step
    BY <2>6 DEF Step, EntryStep, DestroyStep, Destroy, Changed
  <2>7. ASSUME NEW e \in Entry, OnEntryOpenedFromHash(e) PROVE Step
    BY <2>7, OpenedEffect DEF Step, EntryStep
  <2>8. ASSUME NEW e \in Entry, CreationOperationComplete(e) PROVE Step
    BY <2>8, CreationEffect DEF Step, EntryStep
  <2>9. ASSUME NEW e \in Entry, EntryOperationComplete(e) PROVE Step
    BY <2>9, UsedEffect DEF Step, EntryStep
  <2>10. ASSUME NEW e \in Entry, CloseOperationComplete(e) PROVE Step
    BY <2>10, ClosedEffect DEF Step, EntryStep, ClosedReply
  <2>11. ASSUME NEW e \in Entry, DoomOperationComplete(e) PROVE Step
    BY <2>11, DoomedEffect DEF Step, EntryStep, DoomedReply
  <2> QED
    BY <1>1, <2>1, <2>2, <2>3, <2>4, <2>5, <2>6, <2>7, <2>8, <2>9, <2>10, <2>11 DEF IOThread
<1>2. CASE Workers
  <2>1. ASSUME NEW e \in Entry, Work(e) PROVE Step
    BY <2>1, WorkEffect DEF Step, EntryStep
  <2> QED BY <1>2, <2>1 DEF Workers, Step
<1>3. CASE Clients
  <2>1. CASE CallOpenEntry \/ CallCreateEntry \/ CallDoomEntry \/ CallDoomEntries
             \/ CallOpenNextEntry
    BY <2>1, CallEffect DEF Step
  <2>2. ASSUME NEW e \in Entry, NEW op \in Uses, op = "write_omitted" => "lazy" \in Faults,
               CallReadWrite(e, op)
        PROVE  Step
    BY <2>2, UseEffect DEF Step, EntryStep
  <2>3. ASSUME NEW e \in Entry, CallDoom(e) PROVE Step
    BY <2>3, DoomCallEffect DEF Step, EntryStep
  <2>4. ASSUME NEW e \in Entry, Close(e) PROVE Step
    BY <2>4, CloseEffect DEF Step, EntryStep
  <2>5. "read" \in Uses /\ "write" \in Uses /\ "write_omitted" \in Uses
    BY DEF Uses
  <2> QED BY <1>3, <2>1, <2>2, <2>3, <2>4, <2>5 DEF Clients
<1> QED BY <1>1, <1>2, <1>3 DEF Next

-----------------------------------------------------------------------------
(* The entries and the calls stay right.                                   *)

\* What the IO thread has to do after a call.
RestOK(rest) ==
  /\ rest \in Seq(CallType) /\ EndLast(rest) /\ Unnamed(rest) /\ Unnamed(calls)
  /\ ~ Named(rest, "doomed") /\ ~ Named(calls, "doomed")
  /\ EntriesIn(rest) \subseteq EntriesIn(calls)
  /\ \A x : ~ Notifies(calls, x) /\ ~ Notifies(rest, x)

\* What is left after a call of the backend is as RestOK says.
LEMMA RestsOK ==
  ASSUME AInv
  PROVE  /\ \A what, rest : Resting(what, rest) => RestOK(rest)
         /\ calls = <<>> => RestOK(<<>>)
<1>1. ASSUME NEW what, NEW rest, Resting(what, rest) PROVE RestOK(rest)
  <2> HIDE DEF RestOK
  <2> QED BY <1>1, RestIs DEF RestOK
<1>2. calls = <<>> => RestOK(<<>>)
  BY SmallCalls, EmptyNotifies DEF RestOK, Unnamed
<1> QED BY <1>1, <1>2

\* The run of an entry comes before what is left.
LEMMA CalledRun ==
  ASSUME NEW rest, RestOK(rest), NEW e \in Entry, NEW q, Called(rest, Run(e), q)
  PROVE  /\ q \in Seq(CallType) /\ EndLast(q) /\ Unnamed(q) /\ NotifyFirst(q)
         /\ ~ Named(q, "doomed") /\ EntriesIn(q) \subseteq EntriesIn(calls) \cup {e}
         /\ \A x : ~ Notifies(q, x)
         /\ \A x : Named(q, x) <=> Named(rest, x) \/ x = "run"
<1>1. Run(e).call = "run" /\ Run(e).entry = e
  BY DEF Run
<1>2. /\ q \in Seq(CallType) /\ EndLast(q) /\ Unnamed(q)
      /\ ~ Named(q, "doomed") /\ EntriesIn(q) \subseteq EntriesIn(calls) \cup {e}
      /\ \A x : Named(q, x) <=> Named(rest, x) \/ x = "run"
  BY <1>1 DEF Called, RestOK, Unnamed
<1> QED BY <1>2, NoNotify

\* Steps that leave the entries alone.
LEMMA NoneChanges ==
  ASSUME AInv, entry' = entry, active' = active, opened' = opened,
         dooming' = NoDoom \/ dooming' \in Seq(WaiterType), index' \in BOOLEAN,
         mass' \in {"none", "posted", "done"}, calls' \in Seq(CallType),
         linked' \in MaybeFile, SameScenario,
         EntriesIn(calls') \subseteq EntriesIn(calls) \cup EntriesIn(dooming) \cup {None},
         EntriesIn(dooming') \subseteq EntriesIn(dooming) \cup {None},
         NotifyFirst(calls'), NotifyFirst(dooming'), EndLast(calls'),
         Named(calls', "notify") => dooming' = NoDoom,
         \A x \in Entry : Notifies(dooming', x) \/ Notifies(calls', x)
                          <=> Notifies(dooming, x) \/ Notifies(calls, x)
  PROVE  AInv'
<1>1. PICK e \in Entry : e = 1
  BY SimpleCacheAssumption DEF Entry
<1> DEFINE n == entry[e]
<1>2. n \in Records /\ Sound(n, Faults) /\ entry' = [entry EXCEPT ![e] = n]
  BY DEF AInv, Typed, Sane
<1>3. TypedAfter(e)
  BY DEF TypedAfter, SameScenario
<1>4. Refers(e, n)
  <2>1. n.state = "unused" => /\ e \notin EntriesIn(calls') /\ e \notin EntriesIn(dooming')
                              /\ e \notin opened' /\ active' # e
    BY Constants DEF AInv, Alive, Free
  <2>2. active' = e => ~ n.doomed /\ ~ IsHash(n) /\ e \notin opened'
    BY Constants DEF AInv, ActiveIsGood
  <2>3. e \in opened' => Lone(n)
    BY DEF AInv, OpenedAreLone
  <2> QED BY <2>1, <2>2, <2>3 DEF Refers
<1>5. n.create # "normal" <=> Notifies(dooming', e) \/ Notifies(calls', e)
  BY DEF AInv, Notified
<1> HIDE DEF n
<1> QED BY <1>2, <1>3, <1>4, <1>5, OneChanges

\* An entry, whether in use or not.
LEMMA EntryIs ==
  ASSUME AInv, NEW e \in Entry
  PROVE  /\ entry[e] \in Records /\ Sound(entry[e], Faults)
         /\ Free(e) => /\ entry[e].pending = <<>> /\ entry[e].open_count = 0
                       /\ ~ Busy(entry[e]) /\ ~ Closing(entry[e]) /\ entry[e].file = None
                       /\ entry[e].create = "normal" /\ ~ entry[e].doomed
                       /\ e \notin EntriesIn(calls) /\ e \notin EntriesIn(dooming)
                       /\ e \notin opened /\ active # e
         /\ e # None
         /\ active = e => ~ entry[e].doomed /\ ~ IsHash(entry[e]) /\ e \notin opened
         /\ e \in opened => Lone(entry[e])
<1>1. entry[e] \in Records /\ Sound(entry[e], Faults) /\ e # None
  BY Constants DEF AInv, Typed, Sane
<1>2. Free(e) => entry[e] = Unused
  BY <1>1 DEF Sound, RInv, Blank, Free
<1>3. Free(e) => /\ e \notin EntriesIn(calls) /\ e \notin EntriesIn(dooming)
                 /\ e \notin opened /\ active # e
  BY DEF AInv, Alive
<1>4. active = e => ~ entry[e].doomed /\ ~ IsHash(entry[e]) /\ e \notin opened
  BY <1>1 DEF AInv, ActiveIsGood
<1>5. e \in opened => Lone(entry[e])
  BY DEF AInv, OpenedAreLone
<1> QED BY <1>1, <1>2, <1>3, <1>4, <1>5, UnusedIs, Constants DEF Busy, Closing

\* The steps of the backend.
LEMMA WaitKeeps ==
  ASSUME AInv, NEW rest, RestOK(rest), NEW w, WaitStep(rest, w), linked' = linked, SameScenario
  PROVE  AInv'
<1>1. /\ dooming \in Seq(WaiterType) /\ dooming # NoDoom /\ w \in WaitNames
      /\ Waited(dooming, Waiter(w, None), dooming') /\ calls' = rest
      /\ UNCHANGED <<entry, active, mass, opened>> /\ index' \in BOOLEAN
  BY DEF WaitStep, AInv, Typed
<1>2. Waiter(w, None).call = w /\ Waiter(w, None).entry = None /\ w # "notify"
  BY <1>1 DEF Waiter, WaitNames
<1>3. /\ dooming' \in Seq(WaiterType) /\ EntriesIn(dooming') = EntriesIn(dooming) \cup {None}
      /\ dooming' # <<>> /\ NotifyFirst(dooming')
      /\ dooming # <<>> => dooming'[1] = dooming[1]
      /\ dooming = <<>> => dooming'[1] = Waiter(w, None)
  BY <1>1, <1>2 DEF Waited, AInv, Notified
<1>4. \A x : Notifies(dooming', x) <=> Notifies(dooming, x)
  <2>1. \A x : Waiter(w, None) # Waiter("notify", x)
    BY <1>2 DEF Waiter
  <2> QED BY <1>3, <2>1 DEF Notifies
<1>5. mass \in {"none", "posted", "done"} /\ linked \in MaybeFile
  BY DEF AInv, Typed
<1>6. /\ calls' \in Seq(CallType) /\ EndLast(calls') /\ ~ Named(calls', "notify")
      /\ EntriesIn(calls') \subseteq EntriesIn(calls)
      /\ \A x : ~ Notifies(calls, x) /\ ~ Notifies(calls', x)
      /\ NotifyFirst(calls')
  BY <1>1, NoNotify DEF RestOK, Unnamed
<1> QED BY <1>1, <1>3, <1>4, <1>5, <1>6, NoneChanges

\* AInv is kept when the backend does nothing.
LEMMA NothingKeeps ==
  ASSUME AInv, NEW rest, RestOK(rest), NothingStep(rest), linked' = linked, SameScenario
  PROVE  AInv'
<1>1. calls' = rest /\ UNCHANGED <<entry, active, dooming, index, mass, opened>>
  BY DEF NothingStep, backend
<1>2. /\ dooming = NoDoom \/ dooming \in Seq(WaiterType)
      /\ index \in BOOLEAN /\ mass \in {"none", "posted", "done"} /\ linked \in MaybeFile
      /\ NotifyFirst(dooming)
  BY DEF AInv, Typed, Notified
<1>3. /\ calls' \in Seq(CallType) /\ EndLast(calls') /\ ~ Named(calls', "notify")
      /\ EntriesIn(calls') \subseteq EntriesIn(calls)
      /\ \A x : ~ Notifies(calls, x) /\ ~ Notifies(calls', x)
      /\ NotifyFirst(calls')
  BY <1>1, NoNotify DEF RestOK, Unnamed
<1> QED BY <1>1, <1>2, <1>3, NoneChanges

\* AInv is kept when the doom of files not in use is posted.
LEMMA MassKeeps ==
  ASSUME AInv, NEW rest, RestOK(rest), MassStep(rest), linked' = linked, SameScenario
  PROVE  AInv'
<1>1. /\ calls' = rest /\ UNCHANGED <<entry, active, opened>> /\ index' = FALSE
      /\ mass' = "posted" /\ dooming = NoDoom /\ dooming' = <<>>
  BY DEF MassStep
<1>2. dooming' \in Seq(WaiterType) /\ linked \in MaybeFile /\ NotifyFirst(dooming')
      /\ EntriesIn(dooming') = {}
  BY <1>1, SmallCalls DEF AInv, Typed
<1>3. /\ calls' \in Seq(CallType) /\ EndLast(calls') /\ ~ Named(calls', "notify")
      /\ EntriesIn(calls') \subseteq EntriesIn(calls)
      /\ \A x : ~ Notifies(calls, x) /\ ~ Notifies(calls', x)
      /\ NotifyFirst(calls')
  BY <1>1, NoNotify DEF RestOK, Unnamed
<1>4. \A x : ~ Notifies(dooming, x) /\ ~ Notifies(dooming', x)
  BY <1>1, NoDoomNotifies, EmptyNotifies
<1> QED BY <1>1, <1>2, <1>3, <1>4, NoneChanges

\* AInv is kept when the active entry is opened or created.
LEMMA UseActiveKeeps ==
  ASSUME AInv, NEW rest, RestOK(rest), NEW n, NEW op, UseActiveStep(rest, n, op),
         linked' = linked, SameScenario
  PROVE  AInv'
<1> DEFINE r == entry[active]
<1>1. /\ dooming = NoDoom /\ active # None /\ Changed(active, n)
      /\ Called(rest, Run(active), calls')
      /\ UNCHANGED <<active, dooming, mass, opened>> /\ index' \in BOOLEAN
  BY DEF UseActiveStep, AInv, Typed
<1>2. active \in Entry /\ r \in Records /\ Sound(r, Faults) /\ ~ Free(active)
      /\ ~ r.doomed /\ ~ IsHash(r) /\ active \notin opened
  BY <1>1, ActiveIs
<1>3. CASE PushStep(r, n, "open") /\ op = "open"
  <2>1. Sound(n, Faults) /\ n \in Records
    BY <1>2, <1>3, PushSound DEF PushStep
  <2>2. n.create = r.create /\ n.state # "unused" /\ ~ n.doomed
    BY <1>2, <1>3 DEF PushStep
  <2>3. ~ IsHash(n)
    BY <1>2, <1>3 DEF PushStep, IsHash, Pushed
  <2>4. TypedAfter(active) /\ Refers(active, n)
    BY <1>1, <1>2, <2>2, <2>3, CalledRun DEF TypedAfter, Refers, SameScenario, AInv, Typed
  <2>5. EndLast(calls') /\ Unnamed(calls) /\ Unnamed(calls')
    BY <1>1, <1>2, CalledRun DEF RestOK
  <2> QED BY <1>1, <1>2, <2>1, <2>2, <2>4, <2>5, OneChangesAlone DEF Changed
<1>4. CASE CreateStep(r, n, op)
  <2>1. Sound(n, Faults) /\ n \in Records
    BY <1>2, <1>4, CreateSound DEF CreateStep
  <2>2. n.create = r.create /\ n.state # "unused" /\ ~ n.doomed
    BY <1>2, <1>4 DEF CreateStep
  <2>3. ~ IsHash(n)
    BY <1>2, <1>4 DEF CreateStep, IsHash, Pushed, Creates
  <2>4. TypedAfter(active) /\ Refers(active, n)
    BY <1>1, <1>2, <2>2, <2>3, CalledRun DEF TypedAfter, Refers, SameScenario, AInv, Typed
  <2>5. EndLast(calls') /\ Unnamed(calls) /\ Unnamed(calls')
    BY <1>1, <1>2, CalledRun DEF RestOK
  <2> QED BY <1>1, <1>2, <2>1, <2>2, <2>4, <2>5, OneChangesAlone DEF Changed
<1> QED BY <1>3, <1>4 DEF UseActiveStep

\* AInv is kept by DoomEntry.
LEMMA DoomOneKeeps ==
  ASSUME AInv, NEW e \in Entry, NEW rest, RestOK(rest), NEW n, DoomOneStep(e, rest, n),
         e \notin opened, linked' = linked, SameScenario
  PROVE  AInv'
<1> DEFINE r == entry[e]
<1>1. /\ Changed(e, n) /\ DoomStep(r, n) /\ index' = FALSE
      /\ active' = IF active = e THEN None ELSE active
      /\ dooming' = IF dooming = NoDoom /\ r.create = "normal" THEN <<>> ELSE dooming
      /\ Called(rest, Run(e), calls') /\ UNCHANGED <<mass, opened>>
  BY DEF DoomOneStep
<1>2. r \in Records /\ Sound(r, Faults) /\ e # None
  BY EntryIs
<1>3. Sound(n, Faults) /\ n \in Records
  BY <1>1, <1>2, DoomSound DEF DoomStep
<1>4. n.state # "unused" /\ (n.create # "normal" <=> r.create # "normal")
  BY <1>1 DEF DoomStep
<1>5. /\ calls' \in Seq(CallType) /\ EndLast(calls') /\ Unnamed(calls') /\ NotifyFirst(calls')
      /\ EntriesIn(calls') \subseteq EntriesIn(calls) \cup {e}
      /\ \A x : ~ Notifies(calls', x)
      /\ \A x : ~ Notifies(calls, x)
  BY <1>1, CalledRun DEF RestOK
<1>6. /\ dooming' = NoDoom \/ dooming' \in Seq(WaiterType)
      /\ EntriesIn(dooming') \subseteq EntriesIn(dooming) \cup {None}
      /\ NotifyFirst(dooming')
      /\ \A x : Notifies(dooming', x) <=> Notifies(dooming, x)
  <2>1. CASE dooming' = dooming
    BY <2>1 DEF AInv, Typed, Notified
  <2>2. CASE dooming = NoDoom /\ dooming' = <<>>
    BY <2>2, SmallCalls, NoDoomNotifies, EmptyNotifies
  <2> QED BY <1>1, <2>1, <2>2
<1>7. TypedAfter(e)
  BY <1>1, <1>5, <1>6 DEF TypedAfter, SameScenario, AInv, Typed
<1>8. Refers(e, n)
  BY <1>1, <1>2, <1>4, <1>5, <1>6 DEF Refers
<1>9. n.create # "normal" <=> Notifies(dooming', e) \/ Notifies(calls', e)
  BY <1>4, <1>5, <1>6 DEF AInv, Notified
<1>10. ~ Named(calls', "notify")
  BY <1>5 DEF Unnamed
<1> QED BY <1>1, <1>3, <1>5, <1>6, <1>7, <1>8, <1>9, <1>10, OneChanges DEF Changed

\* AInv is kept when an entry is made.
LEMMA NewOneKeeps ==
  ASSUME AInv, NEW e \in Entry, NEW rest, RestOK(rest), NEW n, NEW op,
         NewOneStep(e, rest, n, op), linked' = linked, SameScenario
  PROVE  AInv'
<1>1. /\ Free(e) /\ Changed(e, n) /\ NewStep(n, op) /\ Called(rest, Run(e), calls')
      /\ UNCHANGED <<mass, opened>>
  BY DEF NewOneStep
<1>2. /\ e \notin EntriesIn(calls) /\ e \notin EntriesIn(dooming)
      /\ e \notin opened /\ active # e /\ e # None /\ entry[e].create = "normal"
  BY <1>1, EntryIs
<1>3. /\ Sound(n, Faults) /\ n \in Records /\ n.state # "unused"
      /\ \A x : In(n.pending, x) <=> x = op
      /\ n.task.op # "open_hash"
  BY <1>1, NewSound, Constants DEF NewStep
<1>5. /\ calls' \in Seq(CallType) /\ EndLast(calls') /\ ~ Named(calls', "notify")
      /\ NotifyFirst(calls') /\ EntriesIn(calls') \subseteq EntriesIn(calls) \cup {e}
      /\ \A x : ~ Notifies(calls', x)
      /\ \A x : ~ Notifies(calls, x)
  BY <1>1, CalledRun DEF RestOK, Unnamed
<1>6. /\ active' \in {active, e} /\ index' \in BOOLEAN
      /\ active' = e => ~ n.doomed /\ ~ IsHash(n)
  <2>1. active' = e => op # "open_hash" /\ op # "doom"
    BY <1>2 DEF NewOneStep, Creates
  <2>2. op # "open_hash" => ~ IsHash(n)
    BY <1>3 DEF IsHash
  <2>3. op # "doom" => ~ n.doomed
    BY <1>1 DEF NewStep
  <2>4. active' \in {active, e} /\ index' \in BOOLEAN
    BY DEF NewOneStep, AInv, Typed
  <2> QED BY <2>1, <2>2, <2>3, <2>4
<1>7. ASSUME dooming' = NoDoom \/ dooming' \in Seq(WaiterType),
             EntriesIn(dooming') \subseteq EntriesIn(dooming) \cup {None, e},
             NotifyFirst(dooming'),
             \A x \in Entry \ {e} : Notifies(dooming', x) <=> Notifies(dooming, x),
             n.create # "normal" <=> Notifies(dooming', e)
      PROVE  AInv'
  <2>1. TypedAfter(e)
    BY <1>1, <1>5, <1>6, <1>7 DEF TypedAfter, SameScenario, AInv, Typed
  <2>2. Refers(e, n)
    BY <1>1, <1>2, <1>3, <1>5, <1>6, <1>7 DEF Refers
  <2> QED BY <1>1, <1>3, <1>5, <1>7, <2>1, <2>2, OneChanges DEF Changed
<1>8. CASE dooming = NoDoom /\ UNCHANGED dooming /\ n.create = "normal"
  BY <1>7, <1>8, SmallCalls, NoDoomNotifies
<1>9. CASE dooming = <<>> /\ dooming' = <<Waiter("notify", e)>> /\ n.create = "pending_doom"
  <2>1. Waiter("notify", e) \in WaiterType
    BY CallTypes
  <2>2. dooming' = Append(<<>>, Waiter("notify", e)) /\ <<>> \in Seq(WaiterType)
    BY <1>9, <2>1
  <2>3. Waited(<<>>, Waiter("notify", e), dooming')
    BY <2>1, <2>2, Waiting
  <2>4. Waiter("notify", e).entry = e /\ \A x : Waiter("notify", x) = Waiter("notify", e) => x = e
    BY DEF Waiter
  <2>5. /\ dooming' \in Seq(WaiterType) /\ EntriesIn(dooming') = {e} /\ NotifyFirst(dooming')
        /\ dooming' # <<>> /\ dooming'[1] = Waiter("notify", e)
    BY <2>3, <2>4, SmallCalls DEF Waited
  <2>6. \A x : Notifies(dooming', x) <=> x = e
    BY <2>4, <2>5 DEF Notifies
  <2>7. \A x : ~ Notifies(dooming, x)
    BY <1>9, EmptyNotifies
  <2> QED BY <1>7, <1>9, <2>5, <2>6, <2>7
<1>10. CASE dooming = NoDoom /\ dooming' = <<>> /\ op = "doom"
  <2>1. n.create = "normal"
    BY <1>1, <1>10 DEF NewStep
  <2> QED BY <1>7, <1>10, <2>1, SmallCalls, NoDoomNotifies, EmptyNotifies
<1> QED BY <1>8, <1>9, <1>10 DEF NewOneStep

\* AInv is kept by every call of the backend.
LEMMA BackendKeeps ==
  ASSUME AInv, NEW what, NEW rest, BackendCall(what, rest)
  PROVE  AInv'
<1>1. RestOK(rest) /\ BackendStep(what, rest) /\ linked' = linked /\ SameScenario
  BY RestsOK DEF BackendCall
<1>2. ASSUME NEW n, active # None, DoomOneStep(active, rest, n) PROVE AInv'
  BY <1>1, <1>2, ActiveIs, DoomOneKeeps
<1> QED
  BY <1>1, <1>2, WaitKeeps, MassKeeps, NothingKeeps, UseActiveKeeps, NewOneKeeps DEF BackendStep

\* The steps of the IO thread that are left.
LEMMA ExecuteKeeps ==
  ASSUME AInv, NEW e \in Entry, NEW n, NEW op, ExecuteStep(e, n, op)
  PROVE  AInv'
<1> DEFINE r == entry[e]
<1>1. /\ calls # <<>> /\ Head(calls) = Run(e) /\ Changed(e, n)
      /\ UNCHANGED <<active, dooming, index, mass, opened, linked, clients>>
  BY DEF ExecuteStep, backend
<1>2. /\ r \in Records /\ Sound(r, Faults) /\ (Free(e) => r.pending = <<>>)
      /\ active = e => ~ r.doomed /\ ~ IsHash(r)
      /\ e \in opened => Lone(r)
  BY EntryIs
<1>3. PICK q : Did(calls, Run(e), q) /\ (calls' = q \/ calls' = calls)
  <2>1. calls \in Seq(CallType)
    BY DEF AInv, Typed
  <2>2. Did(calls, Run(e), Tail(calls))
    BY <1>1, <2>1, CallDone
  <2> QED BY <2>2 DEF ExecuteStep
<1>4. /\ Unnamed(calls) /\ Unnamed(calls') /\ calls' \in Seq(CallType) /\ EndLast(calls')
      /\ EntriesIn(calls') \subseteq EntriesIn(calls)
  <2>1. Run(e).call # "notify" /\ NotifyFirst(calls) /\ EndLast(calls) /\ calls \in Seq(CallType)
    BY DEF Run, AInv, Notified, Typed
  <2>2. Unnamed(calls) /\ Unnamed(q)
    BY <1>3, <2>1 DEF Did, Unnamed
  <2> QED BY <1>3, <2>1, <2>2 DEF Did
<1>5. TypedAfter(e)
  BY <1>1, <1>4, SameClients DEF TypedAfter, SameScenario, AInv, Typed
<1>6. ASSUME n \in Records, Sound(n, Faults), n.create = r.create, n.doomed = r.doomed,
             n.state # "unused", IsHash(n) => IsHash(r), r.pending # <<>>
      PROVE  AInv'
  <2>1. e \notin opened
    BY <1>2, <1>6 DEF Lone
  <2>2. Refers(e, n)
    BY <1>1, <1>2, <1>4, <1>6, <2>1 DEF Refers
  <2> QED BY <1>1, <1>4, <1>5, <1>6, <2>2, OneChangesAlone DEF Changed
<1>7. CASE PostStep(r, n, op)
  <2>1. Sound(n, Faults)
    BY <1>2, <1>7, PostSound
  <2>2. IsHash(n) => IsHash(r)
    BY <1>7 DEF PostStep, IsHash, Popped
  <2> QED BY <1>6, <1>7, <2>1, <2>2 DEF PostStep
<1>8. CASE AtOnceStep(r, n, op)
  <2>1. Sound(n, Faults)
    BY <1>2, <1>8, AtOnceSound
  <2>2. IsHash(n) => IsHash(r)
    BY <1>8 DEF AtOnceStep, IsHash, Popped
  <2> QED BY <1>2, <1>6, <1>8, <2>1, <2>2 DEF AtOnceStep, Free
<1>9. CASE ClosingStep(r, n)
  <2>1. Sound(n, Faults)
    BY <1>2, <1>9, ClosingSound
  <2>2. IsHash(n) => IsHash(r)
    BY <1>9 DEF ClosingStep, IsHash, Popped
  <2>3. r.state # "unused"
    BY <1>2, <1>9 DEF ClosingStep, Free
  <2> QED BY <1>6, <1>9, <2>1, <2>2, <2>3 DEF ClosingStep
<1>10. CASE n = r
  <2>1. n.state = "unused" => /\ e \notin EntriesIn(calls') /\ e \notin EntriesIn(dooming')
                              /\ e \notin opened' /\ active' # e
    BY <1>1, <1>4, <1>10 DEF AInv, Alive, Free
  <2>2. Refers(e, n)
    BY <1>1, <1>2, <1>4, <1>10, <2>1, EntryIs DEF Refers
  <2> QED BY <1>1, <1>2, <1>4, <1>5, <1>10, <2>2, OneChangesAlone DEF Changed
<1> QED BY <1>7, <1>8, <1>9, <1>10 DEF ExecuteStep

\* AInv is kept by OnDoomComplete.
LEMMA EndKeeps ==
  ASSUME AInv, EndStep
  PROVE  AInv'
<1>1. /\ calls # <<>> /\ Head(calls) = OnDoomComplete
      /\ dooming' = NoDoom /\ calls' = IF dooming = NoDoom THEN <<>> ELSE dooming
      /\ UNCHANGED <<entry, active, index, mass, opened, linked, clients>>
  BY DEF EndStep
<1>2. calls \in Seq(CallType) /\ (dooming # NoDoom => dooming \in Seq(WaiterType))
      /\ NotifyFirst(dooming) /\ index \in BOOLEAN
      /\ mass \in {"none", "posted", "done"} /\ linked \in MaybeFile
  BY DEF AInv, Typed, Notified
<1>3. \A x : ~ Notifies(calls, x)
  <2>1. calls[1] = OnDoomComplete
    BY <1>1, <1>2, HeadTailProperties
  <2> QED BY <2>1 DEF Notifies, Waiter, OnDoomComplete
<1>4. /\ calls' \in Seq(CallType) /\ EndLast(calls') /\ NotifyFirst(calls')
      /\ EntriesIn(calls') \subseteq EntriesIn(dooming)
      /\ \A x : Notifies(calls', x) <=> Notifies(dooming, x)
  BY <1>1, <1>2, SmallCalls, NoDoomNotifies, EmptyNotifies
<1>5. NotifyFirst(dooming') /\ EntriesIn(dooming') = {None} /\ \A x : ~ Notifies(dooming', x)
  BY <1>1, SmallCalls, NoDoomNotifies
<1>6. SameScenario
  BY <1>1, SameClients
<1> QED BY <1>1, <1>2, <1>3, <1>4, <1>5, <1>6, NoneChanges

\* AInv is kept by NotifyDoomBeforeCreateComplete.
LEMMA NotifyKeeps ==
  ASSUME AInv, NEW e \in Entry, NEW n, NEW rest, NotifyOneStep(e, n, rest)
  PROVE  AInv'
<1> DEFINE r == entry[e]
<1>1. /\ calls # <<>> /\ Head(calls) = Waiter("notify", e)
      /\ Did(calls, Waiter("notify", e), rest) /\ Called(rest, Run(e), calls')
      /\ Changed(e, n) /\ NotifyStep(r, n) /\ dooming = NoDoom
      /\ dooming' = (IF r.create = "pending_then_doom" THEN <<>> ELSE dooming)
      /\ UNCHANGED <<active, index, mass, opened, linked, clients>>
  BY DEF NotifyOneStep
<1>2. /\ r \in Records /\ Sound(r, Faults) /\ e # None
      /\ active = e => ~ r.doomed /\ ~ IsHash(r) /\ e \notin opened
      /\ e \in opened => Lone(r)
  BY EntryIs
<1>3. /\ Sound(n, Faults) /\ n \in Records /\ n.create = "normal" /\ n.state # "unused"
      /\ n.doomed = r.doomed /\ (IsHash(n) <=> IsHash(r)) /\ e \notin opened
  BY <1>1, <1>2, NotifySound DEF NotifyStep, IsHash, Lone
<1>4. /\ Waiter("notify", e).call = "notify" /\ Run(e).call = "run" /\ Run(e).entry = e
      /\ \A x : Waiter("notify", x) = Waiter("notify", e) => x = e
  BY DEF Waiter, Run
<1>5. /\ Unnamed(rest) /\ EndLast(rest) /\ EntriesIn(rest) \subseteq EntriesIn(calls)
      /\ rest \in Seq(CallType)
  BY <1>1, <1>4 DEF Did, AInv, Notified, Unnamed
<1>6. /\ calls' \in Seq(CallType) /\ EndLast(calls') /\ Unnamed(calls')
      /\ EntriesIn(calls') \subseteq EntriesIn(calls) \cup {e}
  BY <1>1, <1>4, <1>5 DEF Called, Unnamed
<1>7. NotifyFirst(calls') /\ (\A x : ~ Notifies(calls', x)) /\ ~ Named(calls', "notify")
  BY <1>6, NoNotify DEF Unnamed
<1>8. \A x : Notifies(calls, x) <=> x = e
  <2>1. calls[1] = Waiter("notify", e)
    BY <1>1 DEF Did
  <2> QED BY <1>1, <1>4, <2>1 DEF Notifies
<1>9. /\ dooming' = NoDoom \/ dooming' \in Seq(WaiterType)
      /\ EntriesIn(dooming') \subseteq {None} /\ NotifyFirst(dooming')
      /\ \A x : ~ Notifies(dooming', x) /\ ~ Notifies(dooming, x)
  BY <1>1, SmallCalls, NoDoomNotifies, EmptyNotifies
<1>10. TypedAfter(e)
  BY <1>1, <1>6, <1>9, SameClients DEF TypedAfter, SameScenario, AInv, Typed
<1>11. Refers(e, n)
  BY <1>1, <1>2, <1>3, <1>6, <1>9 DEF Refers
<1> QED BY <1>1, <1>3, <1>6, <1>7, <1>8, <1>9, <1>10, <1>11, OneChanges DEF Changed

\* The replies and the calls of clients, when the IO thread has nothing to do.
LEMMA IdleKeeps ==
  ASSUME AInv, NEW e \in Entry, NEW n, calls = <<>>,
         calls' \in {<<>>, <<Run(e)>>, <<Run(e), OnDoomComplete>>}, Changed(e, n),
         n \in Records, Sound(n, Faults), n.state # "unused",
         n.create = entry[e].create, dooming' = dooming,
         active' \in {active, None}, index' \in BOOLEAN, mass' = mass, linked' \in MaybeFile,
         opened' \in {opened, opened \cup {e}}, SameScenario,
         active' = e => ~ n.doomed /\ ~ IsHash(n) /\ e \notin opened',
         e \in opened' => Lone(n)
  PROVE  AInv'
<1>1. /\ calls' \in Seq(CallType) /\ EndLast(calls') /\ Unnamed(calls')
      /\ EntriesIn(calls') \subseteq {None, e} /\ Unnamed(calls)
  <2>1. Unnamed(calls)
    BY SmallCalls DEF Unnamed
  <2>2. CASE calls' = <<>>
    BY <2>1, <2>2, SmallCalls DEF Unnamed
  <2>3. CASE calls' = <<Run(e)>>
    BY <2>1, <2>3, RunCalls DEF Unnamed
  <2>4. CASE calls' = <<Run(e), OnDoomComplete>>
    BY <2>1, <2>4, RunCalls DEF Unnamed
  <2> QED BY <2>2, <2>3, <2>4
<1>2. TypedAfter(e)
  BY <1>1 DEF TypedAfter, SameScenario, AInv, Typed
<1>3. Refers(e, n)
  <2>1. /\ EntriesIn(calls') \subseteq EntriesIn(calls) \cup EntriesIn(dooming) \cup {None, e}
        /\ EntriesIn(dooming') \subseteq EntriesIn(dooming) \cup {None, e}
    BY <1>1
  <2> QED BY <2>1 DEF Refers
<1> QED BY <1>1, <1>2, <1>3, OneChangesAlone DEF Changed

\* AInv is kept by CreationOperationComplete.
LEMMA CreatedKeeps ==
  ASSUME AInv, NEW e \in Entry, NEW n, CreatedStep(e, n)
  PROVE  AInv'
<1> DEFINE r == entry[e]
<1>1. /\ calls = <<>> /\ calls' = <<Run(e)>> /\ Changed(e, n)
      /\ UNCHANGED <<dooming, mass, linked, clients>>
  BY DEF CreatedStep, ReplyStep
<1>2. /\ r \in Records /\ Sound(r, Faults) /\ e # None
      /\ active = e => ~ r.doomed /\ ~ IsHash(r)
      /\ e \in opened => Lone(r)
      /\ linked \in MaybeFile /\ index \in BOOLEAN
  BY EntryIs DEF AInv, Typed
<1>3. SameScenario
  BY <1>1, SameClients
<1>4. CASE /\ OpenedStep(r, n) /\ UNCHANGED <<active, index>>
           /\ opened' = IF r.task.op = "open_hash" THEN opened \cup {e} ELSE opened
  <2>1. Sound(n, Faults) /\ n \in Records /\ n.state # "unused" /\ n.create = r.create
    BY <1>2, <1>4, OpenedSound DEF OpenedStep
  <2>2. r.task.op \in Opening /\ Busy(r)
    BY <1>4 DEF OpenedStep, Opening, Busy
  <2>3. e \notin opened
    BY <1>2, <2>2 DEF Lone
  <2>4. CASE r.task.op = "open_hash"
    <3>1. r.pending = <<>> /\ r.open_count = 0 /\ ~ r.doomed /\ r.create = "normal" /\ ~ Closing(r)
      BY <1>2, <2>2, <2>4 DEF Sound, RInv, Hashed, Early, Clean
    <3>2. Lone(n)
      BY <1>4, <2>4, <3>1, Constants DEF OpenedStep, Lone, Busy, Closing
    <3>3. active # e
      BY <1>2, <2>4 DEF IsHash
    <3> QED BY <1>1, <1>2, <1>3, <1>4, <2>1, <2>4, <3>2, <3>3, IdleKeeps
  <2>5. CASE r.task.op # "open_hash"
    <3>1. active = e => ~ n.doomed /\ ~ IsHash(n)
      BY <1>2, <1>4, <2>5, Constants DEF OpenedStep, IsHash
    <3> QED BY <1>1, <1>2, <1>3, <1>4, <2>1, <2>3, <2>5, <3>1, IdleKeeps
  <2> QED BY <2>4, <2>5
<1>5. CASE /\ NotOpenedStep(r, n) /\ UNCHANGED opened
           /\ \/ r.task.result = "exists" /\ UNCHANGED <<active, index>>
              \/ r.task.result = "failed" /\ MarkAsDoomed(e)
  <2>1. Sound(n, Faults) /\ n \in Records /\ n.state # "unused" /\ n.create = r.create
    BY <1>2, <1>5, NotOpenedSound DEF NotOpenedStep
  <2>2. e \notin opened
    BY <1>2, <1>5 DEF Lone, NotOpenedStep, Opening, Busy
  <2>3. active' \in {active, None} /\ index' \in BOOLEAN
    BY <1>2, <1>5 DEF MarkAsDoomed
  <2>4. active' = e => ~ n.doomed /\ ~ IsHash(n)
    BY <1>2, <1>5, Constants DEF MarkAsDoomed, NotOpenedStep, IsHash
  <2> QED BY <1>1, <1>2, <1>3, <1>5, <2>1, <2>2, <2>3, <2>4, IdleKeeps
<1> QED BY <1>4, <1>5 DEF CreatedStep

\* AInv is kept by EntryOperationComplete.
LEMMA UsedKeeps ==
  ASSUME AInv, NEW e \in Entry, NEW n, UsedOpStep(e, n)
  PROVE  AInv'
<1> DEFINE r == entry[e]
<1>1. /\ calls = <<>> /\ calls' = <<Run(e)>> /\ Changed(e, n) /\ UsedStep(r, n)
      /\ UNCHANGED <<dooming, mass, linked, clients, opened>>
  BY DEF UsedOpStep, ReplyStep
<1>2. /\ r \in Records /\ Sound(r, Faults) /\ e # None
      /\ active = e => ~ r.doomed /\ ~ IsHash(r)
      /\ e \in opened => Lone(r)
      /\ linked \in MaybeFile /\ index \in BOOLEAN
  BY EntryIs DEF AInv, Typed
<1>3. SameScenario
  BY <1>1, SameClients
<1>4. Sound(n, Faults) /\ n \in Records /\ n.state # "unused" /\ n.create = r.create
  BY <1>1, <1>2, UsedSound DEF UsedStep
<1>5. e \notin opened
  BY <1>1, <1>2 DEF Lone, UsedStep, Uses, Busy
<1>6. active' \in {active, None} /\ index' \in BOOLEAN
  BY <1>2 DEF UsedOpStep, MarkAsDoomed
<1>7. active' = e => ~ n.doomed /\ ~ IsHash(n)
  BY <1>1, <1>2, Constants DEF UsedOpStep, MarkAsDoomed, UsedStep, IsHash
<1> QED BY <1>1, <1>2, <1>3, <1>4, <1>5, <1>6, <1>7, IdleKeeps

\* AInv is kept by CloseOperationComplete.
LEMMA ClosedKeeps ==
  ASSUME AInv, NEW e \in Entry, NEW n, ClosedReply(e, n)
  PROVE  AInv'
<1> DEFINE r == entry[e]
<1>1. /\ calls = <<>> /\ calls' = <<Run(e)>> /\ Changed(e, n) /\ ClosedStep(r, n)
      /\ UNCHANGED <<dooming, mass, linked, clients, active, index, opened>>
  BY DEF ClosedReply, ReplyStep
<1>2. /\ r \in Records /\ Sound(r, Faults)
      /\ active = e => ~ r.doomed /\ ~ IsHash(r)
      /\ e \in opened => Lone(r)
      /\ linked \in MaybeFile /\ index \in BOOLEAN
  BY EntryIs DEF AInv, Typed
<1>3. SameScenario
  BY <1>1, SameClients
<1>4. Sound(n, Faults) /\ n \in Records /\ n.state # "unused" /\ n.create = r.create
  BY <1>1, <1>2, ClosedSound DEF ClosedStep
<1>5. e \notin opened
  BY <1>1, <1>2 DEF Lone, ClosedStep
<1>6. active = e => ~ n.doomed /\ ~ IsHash(n)
  BY <1>1, <1>2 DEF ClosedStep, IsHash
<1> QED BY <1>1, <1>2, <1>3, <1>4, <1>5, <1>6, IdleKeeps

\* AInv is kept by DoomOperationComplete.
LEMMA DoomedKeeps ==
  ASSUME AInv, NEW e \in Entry, NEW n, DoomedReply(e, n)
  PROVE  AInv'
<1> DEFINE r == entry[e]
<1>1. /\ calls = <<>> /\ calls' = <<Run(e), OnDoomComplete>> /\ Changed(e, n) /\ DoomedStep(r, n)
      /\ UNCHANGED <<dooming, mass, linked, clients, active, index, opened>>
  BY DEF DoomedReply
<1>2. /\ r \in Records /\ Sound(r, Faults)
      /\ active = e => ~ r.doomed /\ ~ IsHash(r)
      /\ e \in opened => Lone(r)
      /\ linked \in MaybeFile /\ index \in BOOLEAN
  BY EntryIs DEF AInv, Typed
<1>3. SameScenario
  BY <1>1, SameClients
<1>4. Sound(n, Faults) /\ n \in Records /\ n.state # "unused" /\ n.create = r.create
  BY <1>1, <1>2, DoomedSound DEF DoomedStep, Sound, RInv, DoomedOnce
<1>5. e \notin opened
  BY <1>1, <1>2 DEF Lone, DoomedStep, Busy
<1>6. active = e => ~ n.doomed /\ ~ IsHash(n)
  BY <1>1, <1>2, Constants DEF DoomedStep, IsHash
<1> QED BY <1>1, <1>2, <1>3, <1>4, <1>5, <1>6, IdleKeeps

\* AInv is kept by the holders of an entry.
LEMMA UseKeeps ==
  ASSUME AInv, NEW e \in Entry, NEW n, UseStep(e, n)
  PROVE  AInv'
<1> DEFINE r == entry[e]
<1>1. /\ calls = <<>> /\ Held(e) /\ Changed(e, n) /\ calls' \in {<<>>, <<Run(e)>>}
      /\ UNCHANGED <<active, dooming, index, mass, opened, linked>> /\ SameScenario
  BY DEF UseStep, backend
<1>2. /\ r \in Records /\ Sound(r, Faults) /\ ~ Free(e) /\ e \notin opened
      /\ active = e => ~ r.doomed /\ ~ IsHash(r)
      /\ linked \in MaybeFile /\ index \in BOOLEAN
  BY <1>1, EntryIs, HeldIs DEF AInv, Typed
<1>3. CASE FewerStep(r, n)
  <2>1. /\ Sound(n, Faults) /\ n \in Records /\ n.state # "unused" /\ n.create = r.create
        /\ n.doomed = r.doomed /\ (IsHash(n) <=> IsHash(r))
    BY <1>2, <1>3, FewerSound DEF FewerStep, IsHash, Free
  <2> QED BY <1>1, <1>2, <2>1, IdleKeeps
<1>4. ASSUME NEW op, PushStep(r, n, op), op = "write_omitted" => "lazy" \in Faults PROVE AInv'
  <2>0. Faults = {} => op # "write_omitted"
    BY <1>4
  <2>1. /\ Sound(n, Faults) /\ n \in Records
    BY <1>2, <1>4, <2>0, PushSound DEF PushStep
  <2>2. /\ n.state # "unused" /\ n.create = r.create /\ n.doomed = r.doomed
        /\ ~ IsHash(n)
    BY <1>4 DEF PushStep, IsHash, Pushed
  <2> QED BY <1>1, <1>2, <2>1, <2>2, IdleKeeps
<1> QED BY <1>3, <1>4 DEF UseStep

\* AInv is kept by the workers.
LEMMA WorkKeeps ==
  ASSUME AInv, NEW e \in Entry, NEW n, WorkOneStep(e, n)
  PROVE  AInv'
<1> DEFINE r == entry[e]
<1>1. Changed(e, n) /\ UNCHANGED <<active, dooming, index, mass, opened, calls, clients>>
  BY DEF WorkOneStep, backend
<1>2. /\ r \in Records /\ Sound(r, Faults) /\ (Free(e) => ~ Busy(r) /\ ~ Closing(r))
      /\ active = e => ~ r.doomed /\ ~ IsHash(r)
      /\ e \in opened => Lone(r)
  BY EntryIs
<1>3. linked' \in MaybeFile
  <2>1. linked \in MaybeFile /\ None \in MaybeFile
    BY Constants DEF AInv, Typed
  <2>2. linked = None => FreshFile \in MaybeFile
    BY FreshFileIs DEF AInv, MaybeFile
  <2> QED BY <2>1, <2>2 DEF WorkOneStep, Worked
<1>4. /\ Sound(n, Faults) /\ n \in Records /\ n.state # "unused" /\ n.create = r.create
      /\ n.doomed = r.doomed /\ (IsHash(n) <=> IsHash(r)) /\ e \notin opened
  <2>1. CASE WorkStep(r, n, Faults)
    BY <1>2, <2>1, WorkSound DEF WorkStep, IsHash, Free, Lone
  <2>2. CASE WorkCloseStep(r, n)
    BY <1>2, <2>2, WorkCloseSound DEF WorkCloseStep, IsHash, Free, Lone
  <2> QED BY <2>1, <2>2 DEF WorkOneStep
<1>5. TypedAfter(e)
  BY <1>1, <1>3, SameClients DEF TypedAfter, SameScenario, AInv, Typed
<1>6. Refers(e, n)
  BY <1>1, <1>2, <1>4 DEF Refers
<1>7. EndLast(calls')
  BY <1>1 DEF AInv
<1> QED BY <1>1, <1>4, <1>5, <1>6, <1>7, OneChangesAlone DEF Changed

\* AInv is kept by the destructor.
LEMMA DestroyKeeps ==
  ASSUME AInv, NEW e \in Entry, DestroyStep(e)
  PROVE  AInv'
<1> DEFINE r == entry[e]
<1>1. /\ Unreferenced(e) /\ Changed(e, Unused)
      /\ active' = IF active = e THEN None ELSE active
      /\ UNCHANGED <<dooming, index, mass, opened, calls, linked, clients>>
  BY DEF DestroyStep
<1>2. r \in Records /\ Sound(r, Faults) /\ e # None
  BY EntryIs
<1>3. e \notin opened /\ e \notin EntriesIn(calls) /\ r.pending = <<>>
  BY <1>1 DEF Unreferenced, Referenced, EntriesIn
<1>4. e \notin EntriesIn(dooming)
  BY <1>1, <1>2, SmallCalls DEF Unreferenced, Referenced, EntriesIn
<1>5. r.create = "normal"
  BY <1>2, <1>3 DEF Sound, RInv, Early
<1>6. TypedAfter(e)
  BY <1>1, SameClients DEF TypedAfter, SameScenario, AInv, Typed
<1>7. Refers(e, Unused)
  BY <1>1, <1>2, <1>3, <1>4 DEF Refers
<1>8. EndLast(calls')
  BY <1>1 DEF AInv
<1> QED BY <1>1, <1>5, <1>6, <1>7, <1>8, UnusedIs, UnusedSound, OneChangesAlone DEF Changed

\* AInv is kept when an entry opened from its hash becomes the active one.
LEMMA AdoptKeeps ==
  ASSUME AInv, NEW e \in Entry, AdoptStep(e)
  PROVE  AInv'
<1> DEFINE r == entry[e]
<1>1. /\ e \in opened /\ opened' = opened \ {e} /\ active' = e
      /\ UNCHANGED <<entry, dooming, index, mass, calls, linked, clients>>
  BY DEF AdoptStep
<1>2. r \in Records /\ Sound(r, Faults) /\ Lone(r) /\ ~ Free(e)
  BY <1>1, EntryIs
<1>3. ~ r.doomed /\ ~ IsHash(r)
  BY <1>2, SmallQueues DEF Lone, IsHash, Busy
<1>4. TypedAfter(e)
  BY <1>1, SameClients DEF TypedAfter, SameScenario, AInv, Typed
<1>5. Refers(e, r)
  BY <1>1, <1>2, <1>3 DEF Refers, Free
<1>6. EndLast(calls') /\ entry' = [entry EXCEPT ![e] = r]
  BY <1>1 DEF AInv, Typed
<1> QED BY <1>1, <1>2, <1>4, <1>5, <1>6, OneChangesAlone

\* AInv is kept by DoomEntrySet and DoomEntriesComplete.
LEMMA MassReplyKeeps ==
  ASSUME AInv, MassReply \/ WorkMass
  PROVE  AInv'
<1>1. /\ calls' = calls \/ (calls = <<>> /\ calls' = <<OnDoomComplete>>)
      /\ UNCHANGED <<entry, active, dooming, index, opened, clients>>
      /\ mass' \in {"none", "posted", "done"} /\ linked' \in {linked, None}
  BY DEF MassReply, WorkMass
<1>2. /\ calls \in Seq(CallType) /\ linked' \in MaybeFile /\ index \in BOOLEAN
      /\ dooming = NoDoom \/ dooming \in Seq(WaiterType)
      /\ NotifyFirst(dooming) /\ NotifyFirst(calls) /\ EndLast(calls)
      /\ Named(calls, "notify") => dooming = NoDoom
  BY <1>1, Constants DEF AInv, Typed, Notified
<1>3. PICK e \in Entry : e = 1
  BY SimpleCacheAssumption DEF Entry
<1>4. /\ <<OnDoomComplete>> \in Seq(CallType) /\ EndLast(<<OnDoomComplete>>)
      /\ EntriesIn(<<OnDoomComplete>>) = {None} /\ Unnamed(<<OnDoomComplete>>)
  BY RunCalls DEF Unnamed
<1>5. NotifyFirst(<<OnDoomComplete>>) /\ \A x : ~ Notifies(<<OnDoomComplete>>, x)
  BY <1>4, NoNotify
<1>6. SameScenario
  BY <1>1, SameClients
<1> QED BY <1>1, <1>2, <1>4, <1>5, <1>6, NoneChanges, EmptyNotifies DEF Unnamed

\* The one step that changes two entries.
LEMMA InsteadIs ==
  ASSUME AInv, NEW e \in Entry, NEW n, NEW m, InsteadStep(e, n, m)
  PROVE  /\ active \in Entry /\ e # active /\ entry' = [entry EXCEPT ![e] = n, ![active] = m]
         /\ n \in Records /\ Sound(n, Faults) /\ n.state # "unused" /\ ~ IsHash(n)
         /\ n.create = entry[e].create /\ n.open_count = 0 /\ ~ n.doomed
         /\ m \in Records /\ Sound(m, Faults) /\ m.state # "unused" /\ ~ IsHash(m)
         /\ m.create = entry[active].create /\ ~ m.doomed
         /\ m.open_count = entry[active].open_count
         /\ calls = <<>> /\ calls' \in Seq(CallType) /\ EndLast(calls')
         /\ Unnamed(calls') /\ ~ Named(calls', "doomed") /\ EntriesIn(calls') \subseteq {e, active}
         /\ \A x : Named(calls', x) => x = "run"
<1>1. /\ calls = <<>> /\ e \in opened /\ active # None /\ e # active
      /\ entry' = [entry EXCEPT ![e] = n, ![active] = m]
      /\ PushStep(entry[e], n, "close") /\ n.open_count = 0
  BY DEF InsteadStep
<1>2. /\ active \in Entry /\ entry[active] \in Records /\ Sound(entry[active], Faults)
      /\ ~ Free(active) /\ ~ entry[active].doomed /\ ~ IsHash(entry[active])
  BY <1>1, ActiveIs
<1>3. entry[e] \in Records /\ Sound(entry[e], Faults) /\ ~ entry[e].doomed
  BY <1>1, EntryIs DEF Lone
<1>4. n \in Records /\ Sound(n, Faults)
  BY <1>1, <1>3, PushSound DEF PushStep
<1>5. n.state # "unused" /\ n.create = entry[e].create /\ ~ n.doomed /\ ~ IsHash(n)
  BY <1>1, <1>3 DEF PushStep, IsHash, Pushed
<1>6. /\ m \in Records /\ Sound(m, Faults) /\ m.state # "unused" /\ ~ IsHash(m)
      /\ m.create = entry[active].create /\ ~ m.doomed
      /\ m.open_count = entry[active].open_count
  <2>1. CASE PushStep(entry[active], m, "open")
    <3>1. m \in Records /\ Sound(m, Faults)
      BY <1>2, <2>1, PushSound DEF PushStep
    <3>2. m.state # "unused" /\ m.create = entry[active].create /\ ~ m.doomed /\ ~ IsHash(m)
          /\ m.open_count = entry[active].open_count
      BY <1>2, <2>1 DEF PushStep, IsHash, Pushed
    <3> QED BY <3>1, <3>2
  <2>2. CASE m = entry[active]
    BY <1>2, <2>2 DEF Free
  <2> QED BY <2>1, <2>2 DEF InsteadStep
<1>7. /\ calls' \in Seq(CallType) /\ EndLast(calls')
      /\ EntriesIn(calls') \subseteq {e, active} /\ \A x : Named(calls', x) => x = "run"
  <2>1. Run(e).call = "run" /\ Run(e).entry = e
    BY DEF Run
  <2>2. CASE Called(<<Run(active)>>, Run(e), calls')
    <3>1. /\ EntriesIn(<<Run(active)>>) = {active} /\ EndLast(<<Run(active)>>)
          /\ \A x : Named(<<Run(active)>>, x) <=> x = "run"
      BY <1>2, RunCalls
    <3> QED BY <2>1, <2>2, <3>1 DEF Called
  <2>3. CASE calls' = <<Run(e)>>
    BY <2>3, RunCalls
  <2> QED BY <2>2, <2>3 DEF InsteadStep
<1> QED BY <1>1, <1>2, <1>4, <1>5, <1>6, <1>7 DEF Unnamed

\* AInv is kept when the active entry is opened instead.
LEMMA InsteadKeeps ==
  ASSUME AInv, NEW e \in Entry, NEW n, NEW m, InsteadStep(e, n, m)
  PROVE  AInv'
<1> DEFINE a == active
<1>1. /\ opened' = opened \ {e} /\ a # None
      /\ UNCHANGED <<active, dooming, index, mass, linked, clients>>
  BY DEF InsteadStep
<1>2. /\ a \in Entry /\ e # a /\ entry' = [entry EXCEPT ![e] = n, ![a] = m]
      /\ n \in Records /\ Sound(n, Faults) /\ n.state # "unused" /\ n.create = entry[e].create
      /\ m \in Records /\ Sound(m, Faults) /\ m.state # "unused" /\ ~ IsHash(m)
      /\ m.create = entry[a].create /\ ~ m.doomed
      /\ calls = <<>> /\ calls' \in Seq(CallType) /\ EndLast(calls')
      /\ Unnamed(calls') /\ EntriesIn(calls') \subseteq {e, a}
  BY InsteadIs
<1>3. /\ entry \in [Entry -> Records] /\ entry' \in [Entry -> Records]
      /\ entry'[e] = n /\ entry'[a] = m
      /\ \A x \in Entry : x # e /\ x # a => entry'[x] = entry[x]
  BY <1>2 DEF AInv, Typed
<1>4. Typed'
  BY <1>1, <1>2, <1>3 DEF AInv, Typed
<1>5. Sane'
  <2>1. Faults' = Faults
    BY <1>1 DEF Faults
  <2> QED BY <1>2, <1>3, <2>1 DEF AInv, Sane
<1>6. Alive'
  <2> SUFFICES ASSUME NEW x \in Entry, Free(x)'
               PROVE  /\ x \notin EntriesIn(calls') /\ x \notin EntriesIn(dooming')
                      /\ x \notin opened' /\ active' # x
    BY DEF Alive
  <2>1. x # e /\ x # a /\ Free(x)
    BY <1>2, <1>3 DEF Free
  <2> QED BY <1>1, <1>2, <2>1 DEF AInv, Alive
<1>7. ActiveIsGood'
  BY <1>1, <1>2, <1>3 DEF AInv, ActiveIsGood, IsHash
<1>8. OpenedAreLone'
  <2> SUFFICES ASSUME NEW x \in opened' PROVE Lone(entry'[x])
    BY DEF OpenedAreLone, Lone, Busy, Closing
  <2>1. x \in opened /\ x # e /\ x # a /\ x \in Entry
    BY <1>1 DEF AInv, ActiveIsGood, Typed
  <2> QED BY <1>3, <2>1 DEF AInv, OpenedAreLone
<1>9. Notified'
  <2>1. \A x : ~ Notifies(calls, x) /\ ~ Notifies(calls', x)
    BY <1>2, NoNotify, EmptyNotifies
  <2>2. NotifyFirst(calls') /\ ~ Named(calls', "notify")
    BY <1>2, NoNotify DEF Unnamed
  <2>3. ASSUME NEW x \in Entry
        PROVE  entry'[x].create # "normal" <=> Notifies(dooming', x) \/ Notifies(calls', x)
    BY <1>1, <1>2, <1>3, <2>1 DEF AInv, Notified
  <2>4. NotifyFirst(dooming')
    BY <1>1 DEF AInv, Notified
  <2> QED BY <2>2, <2>3, <2>4 DEF Notified, NotifyFirst, Notifies, Named
<1>10. EndLast(calls)'
  BY <1>2 DEF EndLast
<1> QED BY <1>4, <1>5, <1>6, <1>7, <1>8, <1>9, <1>10 DEF AInv

\* AInv is kept by every step.
LEMMA StepKeepsA ==
  ASSUME AInv, Step
  PROVE  AInv'
<1>1. ASSUME NEW e \in Entry, NEW n, DoomCall(e, n) PROVE AInv'
  BY <1>1, HeldIs, RestsOK, DoomOneKeeps DEF DoomCall
<1>2. ASSUME NEW e \in Entry, EntryStep(e) PROVE AInv'
  BY <1>1, <1>2, ExecuteKeeps, NotifyKeeps, InsteadKeeps, CreatedKeeps, UsedKeeps, ClosedKeeps,
     DoomedKeeps, WorkKeeps, UseKeeps, AdoptKeeps, DestroyKeeps DEF EntryStep
<1> QED BY <1>2, BackendKeeps, EndKeeps, MassReplyKeeps DEF Step

\* AInv holds at first.
LEMMA InitA ==
  ASSUME Init
  PROVE  AInv
<1>1. /\ entry = [e \in Entry |-> Unused] /\ active = None /\ dooming = NoDoom /\ mass = "none"
      /\ opened = {} /\ calls = <<>> /\ linked \in {None, 1} /\ index = (linked # None)
  BY DEF Init
<1>2. PICK s \in Scenarios : clients = [left |-> s.calls, scenario |-> s]
  BY DEF Init
<1>3. Typed
  <2>1. 1 \in File
    BY SimpleCacheAssumption DEF File
  <2>2. clients \in [left : Nat, scenario : Scenarios]
        /\ clients.left \in 0 .. clients.scenario.calls
    BY <1>2, SimpleCacheAssumption
  <2> QED BY <1>1, <2>1, <2>2, UnusedIs, SmallCalls DEF Typed, MaybeFile
<1>4. Sane
  BY <1>1, UnusedSound DEF Sane
<1>5. Alive /\ ActiveIsGood /\ OpenedAreLone
  BY <1>1, SmallCalls, Constants DEF Alive, ActiveIsGood, OpenedAreLone
<1>6. Notified
  BY <1>1, SmallCalls, NoDoomNotifies, EmptyNotifies, UnusedIs DEF Notified
<1>7. EndLast(calls)
  BY <1>1, SmallCalls
<1> QED BY <1>3, <1>4, <1>5, <1>6, <1>7 DEF AInv

\* AInv is kept when nothing changes.
LEMMA StutterA ==
  ASSUME AInv, UNCHANGED vars
  PROVE  AInv'
<1>1. UNCHANGED <<entry, active, dooming, index, mass, opened, calls, linked, clients>>
  BY DEF vars, backend
<1> QED BY <1>1 DEF AInv, Typed, Sane, Faults, Alive, Free, ActiveIsGood, OpenedAreLone, Notified,
                    IsHash, Lone, Busy, Closing, EndLast, Notifies, NotifyFirst, Named

\* The first layer: AInv always holds.
LEMMA EntriesInvariant == Spec => []AInv
<1>1. AInv /\ [Next]_vars => AInv'
  BY NextIsStep, StepKeepsA, StutterA
<1> QED BY <1>1, InitA, PTL DEF Spec

-----------------------------------------------------------------------------
(* The entry that the backend finds.                                       *)

\* Somebody holds or opens an entry; one hold may be that of an iterator which
\* has not returned it yet.
WantedIn(r, iterator) ==
  \/ r.open_count > IF iterator THEN 1 ELSE 0
  \/ OpenIn(r.pending) \/ r.task.op \in Opens
Wanted(e) == WantedIn(entry[e], e \in opened)

\* With iterators: who opened an entry that is not doomed has the active one.
FoundIterating ==
  Iterate /\ ~ Optimistic =>
    \A e \in Entry : ~ entry[e].doomed /\ Wanted(e) => active = e

\* Without: there is one entry that is not doomed, and it is the active one.
FoundOnly ==
  ~ Iterate =>
    /\ \A e \in Entry : ~ Free(e) /\ ~ entry[e].doomed => active = e
    /\ opened = {} /\ \A e \in Entry : ~ IsHash(entry[e])
    /\ ~ Named(calls, "open_hash") /\ ~ Named(dooming, "open_hash")
    /\ dooming # NoDoom => active = None \/ entry[active].create # "normal"
    /\ \A e \in Entry : Notifies(calls, e) => active \in {None, e}

BInv == FoundIterating /\ FoundOnly

\* What the scenario allows does not change.
LEMMA SameSwitches ==
  ASSUME SameScenario
  PROVE  Iterate' = Iterate /\ Optimistic' = Optimistic /\ Faults' = Faults
BY DEF SameScenario, Iterate, Optimistic, Faults

\* BInv is kept by a step that changes one entry and leaves the others found.
LEMMA FoundAfter ==
  ASSUME AInv, BInv, SameScenario, NEW e \in Entry, NEW n, Changed(e, n),
         \A x \in Entry : x # e /\ active = x => active' = x,
         \A x \in Entry : x # e /\ x \in opened => x \in opened',
         Iterate /\ ~ Optimistic /\ ~ n.doomed /\ WantedIn(n, e \in opened') => active' = e,
         ~ Iterate =>
           /\ n.state # "unused" /\ ~ n.doomed => active' = e
           /\ opened' = {} /\ ~ IsHash(n)
           /\ ~ Named(calls', "open_hash") /\ ~ Named(dooming', "open_hash")
           /\ dooming' # NoDoom => active' = None \/ entry'[active'].create # "normal"
           /\ \A x \in Entry : Notifies(calls', x) => active' \in {None, x}
  PROVE  BInv'
<1>1. entry'[e] = n /\ \A x \in Entry : x # e => entry'[x] = entry[x]
  BY DEF Changed, AInv, Typed
<1>2. Iterate' = Iterate /\ Optimistic' = Optimistic
  BY SameSwitches
<1>3. FoundIterating'
  <2> SUFFICES ASSUME Iterate, ~ Optimistic, NEW x \in Entry, ~ entry'[x].doomed,
                      WantedIn(entry'[x], x \in opened')
               PROVE  active' = x
    BY <1>2 DEF FoundIterating, Wanted, WantedIn, OpenIn, CreateIn, In
  <2>1. CASE x = e
    BY <1>1, <2>1
  <2>2. CASE x # e
    <3>1. WantedIn(entry[x], x \in opened)
      <4>1. entry[x].open_count \in Nat
        BY EntryIs, RecordOf
      <4> QED BY <1>1, <2>2, <4>1 DEF WantedIn
    <3>2. active = x
      BY <1>1, <2>2, <3>1 DEF BInv, FoundIterating, Wanted
    <3> QED BY <2>2, <3>2
  <2> QED BY <2>1, <2>2
<1>4. FoundOnly'
  <2> SUFFICES ASSUME ~ Iterate
      PROVE  /\ \A x \in Entry : ~ Free(x)' /\ ~ entry'[x].doomed => active' = x
             /\ opened' = {} /\ \A x \in Entry : ~ IsHash(entry'[x])
             /\ ~ Named(calls', "open_hash") /\ ~ Named(dooming', "open_hash")
             /\ dooming' # NoDoom => active' = None \/ entry'[active'].create # "normal"
             /\ \A x \in Entry : Notifies(calls', x) => active' \in {None, x}
    BY <1>2 DEF FoundOnly, IsHash, Named, Notifies, In
  <2>1. ASSUME NEW x \in Entry, ~ Free(x)', ~ entry'[x].doomed PROVE active' = x
    <3>1. CASE x = e
      BY <1>1, <2>1, <3>1 DEF Free
    <3>2. CASE x # e
      BY <1>1, <2>1, <3>2 DEF Free, BInv, FoundOnly
    <3> QED BY <3>1, <3>2
  <2>2. ASSUME NEW x \in Entry PROVE ~ IsHash(entry'[x])
    BY <1>1 DEF BInv, FoundOnly
  <2> QED BY <2>1, <2>2
<1> QED BY <1>3, <1>4 DEF BInv

\* Steps after which the entry is not wanted more than before.
LEMMA FoundSame ==
  ASSUME AInv, BInv, SameScenario, NEW e \in Entry, NEW n, Changed(e, n),
         active' = active \/ (n.doomed /\ active' = IF active = e THEN None ELSE active),
         opened' = opened, dooming' = dooming, n.create = entry[e].create,
         entry[e].doomed => n.doomed, ~ Free(e),
         WantedIn(n, e \in opened) => Wanted(e), IsHash(n) => IsHash(entry[e]),
         Named(calls', "open_hash") => Named(calls, "open_hash"),
         \A x : Notifies(calls', x) => Notifies(calls, x)
  PROVE  BInv'
<1>1. entry'[e] = n /\ \A x \in Entry : x # e => entry'[x] = entry[x]
  BY DEF Changed, AInv, Typed
<1>2. ~ n.doomed => active' = active /\ ~ entry[e].doomed
  OBVIOUS
<1>3. Iterate /\ ~ Optimistic /\ ~ n.doomed /\ WantedIn(n, e \in opened') => active' = e
  BY <1>2 DEF BInv, FoundIterating
<1>4. active \in Entry \cup {None}
  BY DEF AInv, Typed
<1>5. ~ Iterate =>
           /\ n.state # "unused" /\ ~ n.doomed => active' = e
           /\ opened' = {} /\ ~ IsHash(n)
           /\ ~ Named(calls', "open_hash") /\ ~ Named(dooming', "open_hash")
           /\ dooming' # NoDoom => active' = None \/ entry'[active'].create # "normal"
           /\ \A x \in Entry : Notifies(calls', x) => active' \in {None, x}
  <2> SUFFICES ASSUME ~ Iterate
               PROVE  /\ n.state # "unused" /\ ~ n.doomed => active' = e
                      /\ opened' = {} /\ ~ IsHash(n)
                      /\ ~ Named(calls', "open_hash") /\ ~ Named(dooming', "open_hash")
                      /\ dooming' # NoDoom => active' = None \/ entry'[active'].create # "normal"
                      /\ \A x \in Entry : Notifies(calls', x) => active' \in {None, x}
    OBVIOUS
  <2>1. n.state # "unused" /\ ~ n.doomed => active' = e
    BY <1>2 DEF BInv, FoundOnly
  <2>2. /\ opened' = {} /\ ~ IsHash(n)
        /\ ~ Named(calls', "open_hash") /\ ~ Named(dooming', "open_hash")
    BY DEF BInv, FoundOnly
  <2>3. dooming' # NoDoom => active' = None \/ entry'[active'].create # "normal"
    BY <1>1, <1>4 DEF BInv, FoundOnly
  <2>4. \A x \in Entry : Notifies(calls', x) => active' \in {None, x}
    BY DEF BInv, FoundOnly
  <2> QED BY <2>1, <2>2, <2>3, <2>4
<1>6. \A x \in Entry : x # e /\ active = x => active' = x
  OBVIOUS
<1> QED BY <1>3, <1>5, <1>6, FoundAfter

\* Steps that leave the entries alone.
LEMMA FoundNone ==
  ASSUME AInv, BInv, SameScenario, entry' = entry, active' = active, opened' = opened,
         ~ Iterate =>
           /\ ~ Named(calls', "open_hash") /\ ~ Named(dooming', "open_hash")
           /\ dooming' # NoDoom => active = None \/ entry[active].create # "normal"
           /\ \A x \in Entry : Notifies(calls', x) => active \in {None, x}
  PROVE  BInv'
<1>1. PICK e \in Entry : e = 1
  BY SimpleCacheAssumption DEF Entry
<1> DEFINE n == entry[e]
<1>2. Changed(e, n)
  BY DEF Changed, AInv, Typed
<1>3. Iterate /\ ~ Optimistic /\ ~ n.doomed /\ WantedIn(n, e \in opened') => active' = e
  BY DEF BInv, FoundIterating, Wanted
<1>4. ~ Iterate => (n.state # "unused" /\ ~ n.doomed => active' = e) /\ opened' = {} /\ ~ IsHash(n)
  BY DEF BInv, FoundOnly, Free
<1> HIDE DEF n
<1> QED BY <1>2, <1>3, <1>4, FoundAfter

\* Nobody opens by hash unless clients iterate.
LEMMA NotByHash ==
  ASSUME AInv, BInv, NEW what, NEW rest, Resting(what, rest), ~ Iterate
  PROVE  what # "open_hash" /\ ~ Named(rest, "open_hash")
<1>1. ~ Named(calls, "open_hash")
  BY DEF BInv, FoundOnly
<1>2. ~ Named(rest, "open_hash")
  BY <1>1, RestIs
<1>3. ASSUME what = "open_hash" PROVE FALSE
  <2>1. calls # <<>> /\ Head(calls).call = "open_hash" /\ calls \in Seq(CallType)
    BY <1>3 DEF Resting, AInv, Typed
  <2>2. 1 \in DOMAIN calls /\ Head(calls) = calls[1]
    BY <2>1, HeadTailProperties, LenProperties, EmptySeq
  <2> QED BY <1>1, <2>1, <2>2 DEF Named
<1> QED BY <1>2, <1>3

\* BInv is kept by DoomEntry.
LEMMA FoundAfterDoom ==
  ASSUME AInv, BInv, NEW e \in Entry, NEW rest, RestOK(rest), ~ Iterate => ~ Named(rest, "open_hash"),
         NEW n, DoomOneStep(e, rest, n), ~ Iterate => active = e, SameScenario
  PROVE  BInv'
<1>1. /\ Changed(e, n) /\ DoomStep(entry[e], n)
      /\ active' = IF active = e THEN None ELSE active
      /\ dooming' = IF dooming = NoDoom /\ entry[e].create = "normal" THEN <<>> ELSE dooming
      /\ Called(rest, Run(e), calls') /\ UNCHANGED opened
  BY DEF DoomOneStep
<1>2. n.doomed /\ ~ IsHash(n)
  BY <1>1 DEF DoomStep, IsHash, Pushed
<1>3. /\ \A x : ~ Notifies(calls', x)
      /\ ~ Iterate => ~ Named(calls', "open_hash")
  BY <1>1, CalledRun
<1>4. ~ Iterate => opened = {} /\ ~ Named(dooming', "open_hash")
  BY <1>1, SmallCalls DEF BInv, FoundOnly
<1> QED BY <1>1, <1>2, <1>3, <1>4, FoundAfter

\* BInv is kept by every call of the backend.
LEMMA BackendFinds ==
  ASSUME AInv, BInv, NEW what, NEW rest, BackendCall(what, rest)
  PROVE  BInv'
<1>1. Resting(what, rest) /\ RestOK(rest) /\ BackendStep(what, rest) /\ SameScenario
  BY RestsOK DEF BackendCall
<1>2. ~ Iterate => what # "open_hash" /\ ~ Named(rest, "open_hash")
  BY <1>1, NotByHash
<1>3. \A x : ~ Notifies(rest, x) /\ ~ Notifies(calls, x)
  BY <1>1 DEF RestOK
<1>4. CASE WaitStep(rest, what)
  <2>1. /\ UNCHANGED <<entry, active, opened>> /\ calls' = rest /\ dooming # NoDoom
        /\ Waited(dooming, Waiter(what, None), dooming')
    BY <1>4 DEF WaitStep
  <2>2. Waiter(what, None).call = what
    BY DEF Waiter
  <2>3. ~ Iterate => /\ ~ Named(dooming', "open_hash")
                     /\ active = None \/ entry[active].create # "normal"
    BY <1>2, <2>1, <2>2 DEF Waited, BInv, FoundOnly
  <2> QED BY <1>1, <1>2, <1>3, <2>1, <2>3, FoundNone
<1>5. ASSUME NEW n, active # None, DoomOneStep(active, rest, n) PROVE BInv'
  BY <1>1, <1>2, <1>5, ActiveIs, FoundAfterDoom
<1>6. CASE MassStep(rest)
  <2>1. /\ UNCHANGED <<entry, active, opened>> /\ calls' = rest /\ dooming' = <<>> /\ active = None
    BY <1>6 DEF MassStep
  <2> QED BY <1>1, <1>2, <1>3, <2>1, FoundNone, SmallCalls
<1>7. CASE NothingStep(rest)
  <2>1. /\ UNCHANGED <<entry, active, opened, dooming>> /\ calls' = rest
    BY <1>7 DEF NothingStep, backend
  <2> QED BY <1>1, <1>2, <1>3, <2>1, FoundNone DEF BInv, FoundOnly
<1>8. ASSUME NEW n, NEW op, UseActiveStep(rest, n, op) PROVE BInv'
  <2>1. /\ active # None /\ Changed(active, n) /\ Called(rest, Run(active), calls')
        /\ UNCHANGED <<active, dooming, opened>> /\ dooming = NoDoom
    BY <1>8 DEF UseActiveStep
  <2>2. active \in Entry /\ ~ IsHash(entry[active])
    BY <2>1, ActiveIs
  <2>3. ~ IsHash(n)
    <3>1. CASE PushStep(entry[active], n, op)
      BY <3>1 DEF PushStep, IsHash, Pushed
    <3>2. CASE CreateStep(entry[active], n, op)
      BY <3>2 DEF CreateStep, IsHash, Pushed, Creates
    <3> QED BY <1>8, <3>1, <3>2 DEF UseActiveStep
  <2>4. /\ \A x : ~ Notifies(calls', x)
        /\ ~ Iterate => ~ Named(calls', "open_hash")
    BY <1>1, <1>2, <2>1, <2>2, CalledRun
  <2>5. ~ Iterate => opened = {} /\ ~ Named(dooming', "open_hash")
    BY <2>1 DEF BInv, FoundOnly
  <2> QED BY <1>1, <2>1, <2>2, <2>3, <2>4, <2>5, FoundAfter
<1>9. ASSUME NEW e \in Entry, NEW n, NEW op, op = "open_hash" => what = "open_hash",
             NewOneStep(e, rest, n, op)
      PROVE  BInv'
  <2>1. /\ Free(e) /\ Changed(e, n) /\ NewStep(n, op) /\ Called(rest, Run(e), calls')
        /\ UNCHANGED opened
    BY <1>9 DEF NewOneStep
  <2>2. e \notin opened /\ active # e /\ e # None /\ entry[e].create = "normal"
    BY <2>1, EntryIs
  <2>3. /\ \A x : In(n.pending, x) <=> x = op
        /\ n.task = NoTask /\ n.task.op = "none"
    BY <2>1, NewSound, Constants DEF NewStep
  <2>4. /\ \A x : ~ Notifies(calls', x)
        /\ ~ Iterate => ~ Named(calls', "open_hash") /\ ~ IsHash(n) /\ op # "open_hash"
                        /\ opened = {}
    BY <1>1, <1>2, <1>9, <2>1, <2>3, CalledRun DEF IsHash, BInv, FoundOnly
  <2>5. entry'[e] = n
    BY <2>1 DEF Changed, AInv, Typed
  <2>6. CASE /\ dooming = NoDoom /\ active = None /\ UNCHANGED dooming
             /\ active' = e
    <3>1. ~ Named(dooming', "open_hash") /\ \A x \in Entry : active # x
      BY <2>6, SmallCalls, Constants
    <3> QED BY <1>1, <2>1, <2>4, <2>6, <3>1, FoundAfter
  <2>7. CASE /\ dooming = NoDoom /\ active = None /\ UNCHANGED dooming
             /\ op = "open_hash" /\ UNCHANGED active
    <3>1. n.open_count = 0 /\ ~ WantedIn(n, e \in opened')
      <4>1. n.open_count = 0
        BY <2>1, <2>7 DEF NewStep
      <4> QED BY <2>1, <2>2, <2>3, <2>7, <4>1 DEF WantedIn, OpenIn, CreateIn, Opens
    <3> QED BY <1>1, <2>1, <2>4, <2>7, <3>1, FoundAfter
  <2>8. CASE /\ dooming = <<>> /\ dooming' = <<Waiter("notify", e)>>
             /\ op = "create_early" /\ n.create = "pending_doom" /\ Optimistic
             /\ active' = (IF active = None THEN e ELSE active)
    <3>1. ~ Iterate => active = None
      <4> SUFFICES ASSUME ~ Iterate, active # None PROVE FALSE
        OBVIOUS
      <4>1. active \in Entry /\ entry[active].create # "normal"
        BY <2>8, ActiveIs, SmallCalls DEF BInv, FoundOnly
      <4>2. Notifies(dooming, active) \/ Notifies(calls, active)
        BY <4>1 DEF AInv, Notified
      <4> QED BY <1>3, <2>8, <4>2, EmptyNotifies
    <3>2. ~ Named(dooming', "open_hash")
      <4>1. Waiter("notify", e).call = "notify" /\ Waiter("notify", e) \in WaiterType
        BY CallTypes DEF Waiter
      <4>2. dooming' = Append(<<>>, Waiter("notify", e)) /\ <<>> \in Seq(WaiterType)
        BY <2>8, <4>1
      <4>3. Waited(<<>>, Waiter("notify", e), dooming')
        BY <4>1, <4>2, Waiting
      <4> QED BY <4>1, <4>3, SmallCalls DEF Waited
    <3>3. \A x \in Entry : active = x => active' = x
      BY <2>8, Constants
    <3>4. ~ Iterate => active' = e /\ entry'[active'].create # "normal"
      BY <2>5, <2>8, <3>1
    <3> QED BY <1>1, <2>1, <2>4, <2>8, <3>2, <3>3, <3>4, FoundAfter
  <2>9. CASE /\ dooming = NoDoom /\ dooming' = <<>> /\ active = None
             /\ op = "doom" /\ UNCHANGED active
    <3>1. n.doomed
      BY <2>1, <2>9 DEF NewStep
    <3> QED BY <1>1, <2>1, <2>4, <2>9, <3>1, FoundAfter, SmallCalls
  <2> QED BY <1>9, <2>6, <2>7, <2>8, <2>9 DEF NewOneStep
<1> QED BY <1>1, <1>4, <1>5, <1>6, <1>7, <1>8, <1>9 DEF BackendStep

\* BInv is kept by OnDoomComplete.
LEMMA EndFinds ==
  ASSUME AInv, BInv, EndStep
  PROVE  BInv'
<1>1. /\ calls # <<>> /\ Head(calls) = OnDoomComplete
      /\ dooming' = NoDoom /\ calls' = IF dooming = NoDoom THEN <<>> ELSE dooming
      /\ UNCHANGED <<entry, active, opened, clients>>
  BY DEF EndStep
<1>2. calls \in Seq(CallType)
  BY DEF AInv, Typed
<1>3. \A x : ~ Notifies(calls, x)
  <2>1. calls[1] = OnDoomComplete
    BY <1>1, <1>2, HeadTailProperties
  <2> QED BY <2>1 DEF Notifies, Waiter, OnDoomComplete
<1>4. ASSUME ~ Iterate, NEW x \in Entry, Notifies(calls', x) PROVE active \in {None, x}
  <2>1. dooming # NoDoom /\ Notifies(dooming, x)
    BY <1>1, <1>4, EmptyNotifies
  <2>2. CASE active # None
    <3>1. active \in Entry /\ entry[active].create # "normal"
      BY <1>4, <2>1, <2>2, ActiveIs DEF BInv, FoundOnly
    <3>2. Notifies(dooming, active)
      BY <1>3, <3>1 DEF AInv, Notified
    <3> QED BY <2>1, <3>2 DEF Notifies, Waiter
  <2> QED BY <2>2
<1>5. ~ Iterate => ~ Named(calls', "open_hash") /\ ~ Named(dooming', "open_hash")
  BY <1>1, SmallCalls DEF BInv, FoundOnly
<1> QED BY <1>1, <1>4, <1>5, SameClients, FoundNone

\* BInv is kept by NotifyDoomBeforeCreateComplete.
LEMMA NotifyFinds ==
  ASSUME AInv, BInv, NEW e \in Entry, NEW n, NEW rest, NotifyOneStep(e, n, rest)
  PROVE  BInv'
<1> DEFINE r == entry[e]
<1>1. /\ calls # <<>> /\ Head(calls) = Waiter("notify", e)
      /\ Did(calls, Waiter("notify", e), rest) /\ Called(rest, Run(e), calls')
      /\ Changed(e, n) /\ NotifyStep(r, n) /\ dooming = NoDoom
      /\ dooming' = (IF r.create = "pending_then_doom" THEN <<>> ELSE dooming)
      /\ UNCHANGED <<active, index, mass, opened, linked, clients>>
  BY DEF NotifyOneStep
<1>2. r \in Records /\ Sound(r, Faults) /\ e # None /\ (active = e => ~ r.doomed)
  BY EntryIs
<1>3. /\ n.doomed = r.doomed /\ (IsHash(n) <=> IsHash(r)) /\ r.create # "normal"
      /\ WantedIn(n, e \in opened) <=> Wanted(e)
  BY <1>1 DEF NotifyStep, IsHash, WantedIn, Wanted
<1>4. /\ Waiter("notify", e).call = "notify" /\ Run(e).call = "run"
  BY DEF Waiter, Run
<1>5. Unnamed(calls') /\ calls' \in Seq(CallType)
      /\ (Named(calls', "open_hash") => Named(calls, "open_hash"))
  <2>1. ~ Named(rest, "notify") /\ (Named(rest, "open_hash") => Named(calls, "open_hash"))
    BY <1>1, <1>4 DEF Did, AInv, Notified
  <2> QED BY <1>1, <1>4, <2>1 DEF Called, Unnamed
<1>6. \A x : ~ Notifies(calls', x)
  BY <1>5, NoNotify
<1>7. calls[1] = Waiter("notify", e) /\ Notifies(calls, e)
  BY <1>1 DEF Did, Notifies
<1>8. ~ Iterate /\ dooming' # NoDoom => active = None
  <2> SUFFICES ASSUME ~ Iterate, dooming' # NoDoom PROVE active = None
    OBVIOUS
  <2>1. r.doomed
    BY <1>1, <1>2 DEF Sound, RInv, Early
  <2> QED BY <1>2, <1>7, <2>1 DEF BInv, FoundOnly
<1>9. ~ Free(e)
  BY <1>3, EntryIs
<1>10. ~ Iterate => /\ (n.state # "unused" /\ ~ n.doomed => active' = e)
                    /\ opened' = {} /\ ~ IsHash(n)
                    /\ ~ Named(calls', "open_hash") /\ ~ Named(dooming', "open_hash")
  BY <1>1, <1>3, <1>5, <1>9, SmallCalls DEF BInv, FoundOnly
<1>11. Iterate /\ ~ Optimistic /\ ~ n.doomed /\ WantedIn(n, e \in opened') => active' = e
  BY <1>1, <1>3 DEF BInv, FoundIterating
<1> QED BY <1>1, <1>6, <1>8, <1>10, <1>11, SameClients, FoundAfter

\* BInv is kept by RunNextOperationIfNeeded.
LEMMA ExecuteFinds ==
  ASSUME AInv, BInv, NEW e \in Entry, NEW n, NEW op, ExecuteStep(e, n, op)
  PROVE  BInv'
<1> DEFINE r == entry[e]
<1>1. /\ calls # <<>> /\ Head(calls) = Run(e) /\ Changed(e, n)
      /\ UNCHANGED <<active, dooming, index, mass, opened, linked, clients>>
  BY DEF ExecuteStep, backend
<1>2. /\ r \in Records /\ Sound(r, Faults) /\ (Free(e) => r.pending = <<>>)
      /\ r.open_count \in Nat
  BY EntryIs, RecordOf
<1>3. PICK q : Did(calls, Run(e), q) /\ (calls' = q \/ calls' = calls)
  <2>1. calls \in Seq(CallType)
    BY DEF AInv, Typed
  <2>2. Did(calls, Run(e), Tail(calls))
    BY <1>1, <2>1, CallDone
  <2> QED BY <2>2 DEF ExecuteStep
<1>4. /\ Named(calls', "open_hash") => Named(calls, "open_hash")
      /\ \A x : Notifies(calls', x) => Notifies(calls, x)
  <2>1. CASE calls' = calls
    BY <2>1
  <2>2. CASE calls' = q
    <3>1. q \in Seq(CallType) /\ Unnamed(q) /\ (Named(q, "open_hash") => Named(calls, "open_hash"))
      BY <1>3 DEF Did, AInv, Notified, Unnamed
    <3> QED BY <2>2, <3>1, NoNotify
  <2> QED BY <1>3, <2>1, <2>2
<1>5. ASSUME n.create = r.create, n.doomed = r.doomed, r.pending # <<>>, IsHash(n) => IsHash(r),
             WantedIn(n, e \in opened) => Wanted(e)
      PROVE  BInv'
  BY <1>1, <1>2, <1>4, <1>5, SameClients, FoundSame
<1>6. CASE PostStep(r, n, op)
  <2>1. IsHash(n) => IsHash(r)
    BY <1>6 DEF PostStep, IsHash, Popped
  <2>2. WantedIn(n, e \in opened) => Wanted(e)
    BY <1>6 DEF PostStep, Popped, WantedIn, Wanted, OpenIn, CreateIn, Opens
  <2> QED BY <1>5, <1>6, <2>1, <2>2 DEF PostStep
<1>7. CASE AtOnceStep(r, n, op)
  <2>1. IsHash(n) => IsHash(r)
    BY <1>7 DEF AtOnceStep, IsHash, Popped
  <2>2. OpenIn(n.pending) => OpenIn(r.pending)
    BY <1>7 DEF AtOnceStep, Popped, OpenIn, CreateIn
  <2>3. CASE n.open_count = r.open_count
    <3>1. WantedIn(n, e \in opened) => Wanted(e)
      BY <1>7, <2>2, <2>3 DEF AtOnceStep, WantedIn, Wanted
    <3> QED BY <1>5, <1>7, <2>1, <3>1 DEF AtOnceStep
  <2>4. CASE op = "open"
    <3>1. Wanted(e)
      BY <1>7, <2>4 DEF AtOnceStep, Popped, WantedIn, Wanted, OpenIn
    <3> QED BY <1>5, <1>7, <2>1, <3>1 DEF AtOnceStep
  <2>5. CASE op = "open_hash" /\ r.state = "ready"
    <3>1. In(r.pending, "open_hash")
      BY <1>7, <2>5 DEF AtOnceStep, Popped
    <3>2. r.pending = <<"open_hash">> /\ r.open_count = 0 /\ ~ r.doomed
      BY <1>2, <3>1 DEF Sound, RInv, Hashed
    <3>3. Kept(r)
      BY <1>2, <2>5, <3>2 DEF Sound, Clean, RInv, Ends
    <3>4. ~ In(r.pending, "close")
      BY <3>2, SmallQueues DEF Operation
    <3> QED BY <3>2, <3>3, <3>4 DEF Kept
  <2> QED BY <1>7, <2>3, <2>4, <2>5 DEF AtOnceStep
<1>8. CASE ClosingStep(r, n)
  <2>1. IsHash(n) => IsHash(r)
    BY <1>8 DEF ClosingStep, IsHash, Popped
  <2>2. WantedIn(n, e \in opened) => Wanted(e)
    BY <1>8 DEF ClosingStep, Popped, WantedIn, Wanted, OpenIn, CreateIn
  <2> QED BY <1>5, <1>8, <2>1, <2>2 DEF ClosingStep
<1>9. CASE n = r
  <2>1. entry' = entry
    BY <1>1, <1>9 DEF Changed, AInv, Typed
  <2> QED BY <1>1, <1>4, <2>1, SameClients, FoundNone DEF BInv, FoundOnly
<1> QED BY <1>6, <1>7, <1>8, <1>9 DEF ExecuteStep

\* The calls after a reply.
LEMMA ReplyCalls ==
  ASSUME NEW e \in Entry, NEW q \in {<<>>, <<Run(e)>>, <<Run(e), OnDoomComplete>>}
  PROVE  /\ ~ Named(q, "open_hash") /\ ~ Named(q, "doom_hash") /\ ~ Named(q, "notify")
         /\ \A x : ~ Notifies(q, x)
         /\ q \in Seq(CallType)
<1>1. CASE q = <<>>
  BY <1>1, SmallCalls, EmptyNotifies
<1>2. CASE q = <<Run(e)>>
  <2>1. q \in Seq(CallType) /\ Unnamed(q)
    BY <1>2, RunCalls DEF Unnamed
  <2> QED BY <1>2, <2>1, RunCalls, NoNotify
<1>3. CASE q = <<Run(e), OnDoomComplete>>
  <2>1. q \in Seq(CallType) /\ Unnamed(q)
    BY <1>3, RunCalls DEF Unnamed
  <2>2. \A x : Named(q, x) <=> x = "run" \/ x = "doomed"
    BY <1>3, RunCalls
  <2> QED BY <2>1, <2>2, NoNotify
<1> QED BY <1>1, <1>2, <1>3

\* BInv is kept by CreationOperationComplete.
LEMMA CreatedFinds ==
  ASSUME AInv, BInv, NEW e \in Entry, NEW n, CreatedStep(e, n)
  PROVE  BInv'
<1> DEFINE r == entry[e]
<1>1. /\ calls = <<>> /\ calls' = <<Run(e)>> /\ Changed(e, n)
      /\ UNCHANGED <<dooming, mass, linked, clients>>
  BY DEF CreatedStep, ReplyStep
<1>2. r \in Records /\ Sound(r, Faults) /\ r.open_count \in Nat /\ (Free(e) => ~ Busy(r))
  BY EntryIs, RecordOf
<1>3. ~ Named(calls', "open_hash") /\ \A x : ~ Notifies(calls', x)
  BY <1>1, ReplyCalls
<1>4. CASE OpenedStep(r, n) /\ UNCHANGED active /\ r.task.op # "open_hash" /\ UNCHANGED opened
  <2>1. r.task.op \in Opens /\ ~ Free(e)
    BY <1>2, <1>4 DEF OpenedStep, Opening, Opens, Busy
  <2>2. Wanted(e)
    BY <2>1 DEF Wanted, WantedIn
  <2>3. IsHash(n) => IsHash(r)
    BY <1>4, Constants DEF OpenedStep, IsHash
  <2>4. n.create = r.create /\ n.doomed = r.doomed
    BY <1>4 DEF OpenedStep
  <2> QED BY <1>1, <1>3, <1>4, <2>1, <2>2, <2>3, <2>4, SameClients, FoundSame
<1>5. CASE OpenedStep(r, n) /\ UNCHANGED active /\ r.task.op = "open_hash" /\ opened' = opened \cup {e}
  <2>1. Iterate
    BY <1>5 DEF BInv, FoundOnly, IsHash
  <2>2. r.pending = <<>> /\ r.open_count = 0
    BY <1>2, <1>5 DEF Sound, RInv, Hashed
  <2>3. n.open_count = 1 /\ n.pending = <<>> /\ n.task.op = "none"
    BY <1>5, <2>2, Constants DEF OpenedStep
  <2>4. ~ WantedIn(n, e \in opened')
    BY <1>5, <2>3, SmallQueues DEF WantedIn, OpenIn, CreateIn, Opens
  <2> QED BY <1>1, <1>5, <2>1, <2>4, SameClients, FoundAfter
<1>6. CASE /\ NotOpenedStep(r, n) /\ UNCHANGED opened
           /\ \/ r.task.result = "exists" /\ UNCHANGED <<active, index>>
              \/ r.task.result = "failed" /\ MarkAsDoomed(e)
  <2>1. ~ Free(e)
    BY <1>2, <1>6 DEF NotOpenedStep, Opening, Busy
  <2>2. active' = active \/ (n.doomed /\ active' = IF active = e THEN None ELSE active)
    BY <1>6 DEF MarkAsDoomed, NotOpenedStep
  <2>3. IsHash(n) => IsHash(r)
    BY <1>6, Constants DEF NotOpenedStep, IsHash
  <2>4. WantedIn(n, e \in opened) => Wanted(e)
    BY <1>6, Constants DEF NotOpenedStep, WantedIn, Wanted, Opens
  <2>5. n.create = r.create /\ (r.doomed => n.doomed)
    BY <1>6 DEF NotOpenedStep
  <2> QED BY <1>1, <1>3, <1>6, <2>1, <2>2, <2>3, <2>4, <2>5, SameClients, FoundSame
<1> QED BY <1>4, <1>5, <1>6 DEF CreatedStep

\* The other replies, the work and the use of an entry.
LEMMA UsedFinds ==
  ASSUME AInv, BInv, NEW e \in Entry, NEW n,
         UsedOpStep(e, n) \/ ClosedReply(e, n) \/ DoomedReply(e, n)
  PROVE  BInv'
<1> DEFINE r == entry[e]
<1>1. /\ calls = <<>> /\ calls' \in {<<Run(e)>>, <<Run(e), OnDoomComplete>>} /\ Changed(e, n)
      /\ UNCHANGED <<dooming, mass, linked, clients, opened>>
  BY DEF UsedOpStep, ReplyStep, ClosedReply, DoomedReply
<1>2. r \in Records /\ Sound(r, Faults) /\ (Free(e) => ~ Busy(r) /\ ~ Closing(r))
  BY EntryIs
<1>3. ~ Named(calls', "open_hash") /\ \A x : ~ Notifies(calls', x)
  BY <1>1, ReplyCalls
<1>4. UsedStep(r, n) \/ ClosedStep(r, n) \/ DoomedStep(r, n)
  BY DEF UsedOpStep, ClosedReply, DoomedReply
<1>5. ~ Free(e)
  BY <1>2, <1>4 DEF UsedStep, ClosedStep, DoomedStep, Uses, Busy
<1>6. active' = active \/ (n.doomed /\ active' = IF active = e THEN None ELSE active)
  BY DEF UsedOpStep, ClosedReply, DoomedReply, MarkAsDoomed, UsedStep
<1>7. (IsHash(n) => IsHash(r)) /\ n.create = r.create /\ (r.doomed => n.doomed)
  BY <1>4, Constants DEF UsedStep, ClosedStep, DoomedStep, IsHash
<1>8. WantedIn(n, e \in opened) => Wanted(e)
  BY <1>4, Constants DEF UsedStep, ClosedStep, DoomedStep, WantedIn, Wanted, Opens
<1> QED BY <1>1, <1>3, <1>5, <1>6, <1>7, <1>8, SameClients, FoundSame

\* BInv is kept by the workers.
LEMMA WorkFinds ==
  ASSUME AInv, BInv, NEW e \in Entry, NEW n, WorkOneStep(e, n)
  PROVE  BInv'
<1> DEFINE r == entry[e]
<1>1. Changed(e, n) /\ UNCHANGED <<active, dooming, opened, calls, clients>>
  BY DEF WorkOneStep, backend
<1>2. WorkStep(r, n, Faults) \/ WorkCloseStep(r, n)
  BY DEF WorkOneStep
<1>3. ~ Free(e)
  BY <1>2, EntryIs DEF WorkStep, WorkCloseStep
<1>4. (IsHash(n) => IsHash(r)) /\ n.create = r.create /\ (r.doomed => n.doomed)
  BY <1>2 DEF WorkStep, WorkCloseStep, IsHash
<1>5. WantedIn(n, e \in opened) => Wanted(e)
  BY <1>2 DEF WorkStep, WorkCloseStep, WantedIn, Wanted
<1> QED BY <1>1, <1>3, <1>4, <1>5, SameClients, FoundSame

\* BInv is kept by the holders of an entry.
LEMMA UseFinds ==
  ASSUME AInv, BInv, NEW e \in Entry, NEW n, UseStep(e, n)
  PROVE  BInv'
<1> DEFINE r == entry[e]
<1>1. /\ calls = <<>> /\ Held(e) /\ Changed(e, n) /\ calls' \in {<<>>, <<Run(e)>>}
      /\ UNCHANGED <<active, dooming, index, mass, opened, linked>> /\ SameScenario
  BY DEF UseStep, backend
<1>2. ~ Free(e) /\ Wanted(e)
  BY <1>1, HeldIs DEF Held, Wanted, WantedIn
<1>3. ~ Named(calls', "open_hash") /\ \A x : ~ Notifies(calls', x)
  BY <1>1, ReplyCalls
<1>4. (IsHash(n) => IsHash(r)) /\ n.create = r.create /\ (r.doomed => n.doomed)
  BY DEF UseStep, PushStep, FewerStep, IsHash, Pushed
<1> QED BY <1>1, <1>2, <1>3, <1>4, FoundSame

\* BInv is kept by the destructor.
LEMMA DestroyFinds ==
  ASSUME AInv, BInv, NEW e \in Entry, DestroyStep(e)
  PROVE  BInv'
<1>1. /\ Unreferenced(e) /\ Changed(e, Unused)
      /\ active' = IF active = e THEN None ELSE active
      /\ UNCHANGED <<dooming, index, mass, opened, calls, linked, clients>>
  BY DEF DestroyStep
<1>2. ~ IsHash(Unused) /\ Unused.state = "unused" /\ ~ WantedIn(Unused, e \in opened')
  BY UnusedIs, SmallQueues, Constants DEF IsHash, WantedIn, OpenIn, CreateIn, Opens
<1>3. \A x \in Entry : x # e => entry'[x] = entry[x]
  BY <1>1 DEF Changed, AInv, Typed
<1>4. active \in Entry \cup {None}
  BY DEF AInv, Typed
<1>5. ~ Iterate =>
           /\ opened' = {}
           /\ ~ Named(calls', "open_hash") /\ ~ Named(dooming', "open_hash")
           /\ dooming' # NoDoom => active' = None \/ entry'[active'].create # "normal"
           /\ \A x \in Entry : Notifies(calls', x) => active' \in {None, x}
  BY <1>1, <1>3, <1>4 DEF BInv, FoundOnly
<1> QED BY <1>1, <1>2, <1>5, SameClients, FoundAfter

\* BInv is kept when an entry opened from its hash becomes the active one.
LEMMA AdoptFinds ==
  ASSUME AInv, BInv, NEW e \in Entry, AdoptStep(e)
  PROVE  BInv'
<1>1. /\ e \in opened /\ opened' = opened \ {e} /\ active = None /\ active' = e
      /\ UNCHANGED <<entry, dooming, index, mass, calls, linked, clients>>
  BY DEF AdoptStep
<1>2. Iterate
  BY <1>1 DEF BInv, FoundOnly
<1>3. Changed(e, entry[e]) /\ \A x \in Entry : active # x
  BY <1>1, Constants DEF Changed, AInv, Typed
<1> QED BY <1>1, <1>2, <1>3, SameClients, FoundAfter

\* BInv is kept when the active entry is opened instead.
LEMMA InsteadFinds ==
  ASSUME AInv, BInv, NEW e \in Entry, NEW n, NEW m, InsteadStep(e, n, m)
  PROVE  BInv'
<1>1. /\ e \in opened /\ opened' = opened \ {e} /\ PushStep(entry[e], n, "close")
      /\ UNCHANGED <<active, clients>>
  BY DEF InsteadStep
<1>2. /\ active \in Entry /\ e # active /\ entry' = [entry EXCEPT ![e] = n, ![active] = m]
      /\ n.open_count = 0
  BY InsteadIs
<1>3. Iterate /\ Iterate' = Iterate /\ Optimistic' = Optimistic
  BY <1>1 DEF BInv, FoundOnly, Iterate, Optimistic
<1>4. entry'[e] = n /\ \A x \in Entry : x # e /\ x # active => entry'[x] = entry[x]
  BY <1>2 DEF AInv, Typed
<1>5. ~ WantedIn(n, e \in opened')
  <2>1. entry[e].pending = <<>> /\ entry[e].task.op = "none"
    BY <1>1, EntryIs DEF Lone, Busy
  <2>2. /\ \A x : In(n.pending, x) <=> x = "close"
        /\ n.task.op = "none"
    BY <1>1, <2>1, SmallQueues DEF PushStep, Pushed
  <2> QED BY <1>1, <1>2, <2>2 DEF WantedIn, OpenIn, CreateIn, Opens
<1>6. FoundIterating'
  <2> SUFFICES ASSUME ~ Optimistic, NEW x \in Entry, ~ entry'[x].doomed,
                      WantedIn(entry'[x], x \in opened')
               PROVE  active' = x
    BY <1>3 DEF FoundIterating, Wanted, WantedIn, OpenIn, CreateIn, In
  <2>1. x # e
    BY <1>4, <1>5
  <2>2. CASE x # active
    <3>1. entry'[x] = entry[x] /\ (x \in opened' <=> x \in opened)
      BY <1>1, <1>4, <2>1, <2>2
    <3> QED BY <1>1, <1>3, <3>1 DEF BInv, FoundIterating, Wanted
  <2> QED BY <1>1, <2>2
<1> QED BY <1>3, <1>6 DEF BInv, FoundOnly

\* BInv is kept by every step.
LEMMA StepKeepsB ==
  ASSUME AInv, BInv, Step
  PROVE  BInv'
<1>1. ASSUME NEW e \in Entry, NEW n, DoomCall(e, n) PROVE BInv'
  <2>1. /\ calls = <<>> /\ Held(e) /\ DoomOneStep(e, <<>>, n) /\ SameScenario
    BY <1>1 DEF DoomCall
  <2>2. ~ Iterate => active = e
    BY <2>1, HeldIs DEF BInv, FoundOnly, DoomOneStep, DoomStep
  <2> QED BY <2>1, <2>2, RestsOK, SmallCalls, FoundAfterDoom
<1>2. ASSUME NEW e \in Entry, EntryStep(e) PROVE BInv'
  BY <1>1, <1>2, ExecuteFinds, NotifyFinds, InsteadFinds, CreatedFinds, UsedFinds,
     WorkFinds, UseFinds, AdoptFinds, DestroyFinds DEF EntryStep
<1>3. CASE MassReply
  <2>1. /\ UNCHANGED <<entry, active, opened, dooming, clients>> /\ calls' = <<OnDoomComplete>>
    BY <1>3 DEF MassReply
  <2>2. PICK e \in Entry : e = 1
    BY SimpleCacheAssumption DEF Entry
  <2>3. calls' \in Seq(CallType) /\ ~ Named(calls', "open_hash") /\ Unnamed(calls')
    BY <2>1, RunCalls DEF Unnamed
  <2> QED BY <2>1, <2>3, NoNotify, SameClients, FoundNone DEF BInv, FoundOnly
<1>4. CASE WorkMass
  <2>1. UNCHANGED <<entry, active, opened, dooming, calls, clients>>
    BY <1>4 DEF WorkMass
  <2> QED BY <2>1, SameClients, FoundNone DEF BInv, FoundOnly
<1> QED BY <1>2, <1>3, <1>4, BackendFinds, EndFinds DEF Step

\* BInv holds at first.
LEMMA InitB ==
  ASSUME Init
  PROVE  BInv
<1>1. /\ entry = [e \in Entry |-> Unused] /\ active = None /\ dooming = NoDoom
      /\ opened = {} /\ calls = <<>>
  BY DEF Init
<1>2. \A e \in Entry : entry[e] = Unused
  BY <1>1
<1>3. ~ IsHash(Unused) /\ ~ WantedIn(Unused, FALSE)
  BY UnusedIs, SmallQueues, Constants DEF IsHash, WantedIn, OpenIn, CreateIn, Opens
<1>4. FoundIterating
  <2> SUFFICES ASSUME NEW e \in Entry, Wanted(e) PROVE FALSE
    BY DEF FoundIterating
  <2>1. (e \in opened) = FALSE
    BY <1>1
  <2> QED BY <1>2, <1>3, <2>1 DEF Wanted
<1>5. FoundOnly
  BY <1>1, <1>2, <1>3, UnusedIs, SmallCalls, EmptyNotifies DEF FoundOnly, Free
<1> QED BY <1>4, <1>5 DEF BInv

\* BInv is kept when nothing changes.
LEMMA StutterB ==
  ASSUME BInv, UNCHANGED vars
  PROVE  BInv'
<1>1. UNCHANGED <<entry, active, dooming, index, mass, opened, calls, linked, clients>>
  BY DEF vars, backend
<1> QED BY <1>1 DEF BInv, FoundIterating, FoundOnly, Wanted, WantedIn, OpenIn, CreateIn, In,
                    Free, Iterate, Optimistic, IsHash, Named, Notifies

\* The second layer: BInv always holds.
LEMMA FoundInvariant == Spec => [](AInv /\ BInv)
<1>1. AInv /\ BInv /\ [Next]_vars => BInv'
  BY NextIsStep, StepKeepsB, StutterB
<1> QED BY <1>1, InitB, EntriesInvariant, PTL DEF Spec

\* AInv has the types.
LEMMA TypesAreRight ==
  ASSUME AInv
  PROVE  TypeOK
<1>1. ASSUME NEW e \in Entry
      PROVE  /\ entry[e].state \in States
             /\ \A i \in DOMAIN entry[e].pending : entry[e].pending[i] \in Operation
             /\ entry[e].create \in {"normal", "pending_doom", "pending_then_doom"}
             /\ entry[e].open_count \in Nat
             /\ entry[e].file \in File \cup {None}
             /\ entry[e].task.op \in (Operation \ {"close"}) \cup {"none"}
             /\ entry[e].closing.op \in {"close", "none"}
  <2>1. entry[e] \in Records
    BY DEF AInv, Typed
  <2>2. /\ entry[e].task.op \in TaskOps /\ entry[e].closing.op \in {"none", "close"}
        /\ entry[e].pending \in Seq(Operation)
    BY <2>1, RecordOf, TaskOf
  <2>3. \A i \in DOMAIN entry[e].pending : entry[e].pending[i] \in Operation
    BY <2>2, LenProperties, ElementOfSeq
  <2>4. TaskOps \subseteq (Operation \ {"close"}) \cup {"none"}
    BY DEF TaskOps, Operation
  <2> QED BY <2>1, <2>2, <2>3, <2>4, RecordOf DEF MaybeFile
<1> QED BY <1>1 DEF AInv, Typed, TypeOK, MaybeFile

\* By AInv an entry that nobody refers to is done.
LEMMA DestroyedAreDone ==
  ASSUME AInv
  PROVE  DestroyedWhenDone
<1> SUFFICES ASSUME NEW e \in Entry, Unreferenced(e)
             PROVE  /\ entry[e].file = None /\ entry[e].state # "io"
                    /\ Faults = {} => entry[e].state # "ready"
  BY DEF DestroyedWhenDone
<1> DEFINE r == entry[e]
<1>1. r \in Records /\ Sound(r, Faults) /\ r.open_count \in Nat
  BY EntryIs, RecordOf
<1>2. ~ (r.open_count > 0) /\ r.pending = <<>> /\ ~ Busy(r) /\ ~ Closing(r)
  BY DEF Unreferenced, Referenced, Busy, Closing
<1>3. ~ Kept(r)
  BY <1>2, SmallQueues DEF Kept
<1>4. r.file = None
  BY <1>1, <1>3 DEF Sound, RInv, Ends
<1>5. r.state # "io"
  BY <1>1, <1>2 DEF Sound, RInv, Ends, Early
<1>6. Faults = {} => r.state # "ready"
  BY <1>1, <1>4 DEF Sound, Clean
<1> QED BY <1>4, <1>5, <1>6

\* By BInv an entry that somebody holds is found.
LEMMA HeldAreFound ==
  ASSUME AInv, BInv
  PROVE  HeldEntriesAreFound
<1> SUFFICES ASSUME ~ (Iterate /\ Optimistic), NEW e \in Entry, Held(e), ~ entry[e].doomed
             PROVE  active = e
  BY DEF HeldEntriesAreFound
<1>1. Wanted(e) /\ ~ Free(e)
  BY HeldIs DEF Held, Wanted, WantedIn
<1>2. CASE Iterate
  BY <1>1, <1>2 DEF BInv, FoundIterating
<1>3. CASE ~ Iterate
  BY <1>1, <1>3 DEF BInv, FoundOnly
<1> QED BY <1>2, <1>3

\* However the IO thread, the workers and the clients interleave, and whatever
\* fails: an entry that SimpleBackendImpl lets go of has closed its files and is in
\* the middle of nothing, and an entry that a client holds and that is not doomed
\* is the one in active_entries_ (unless clients iterate over a cache with
\* optimistic operations).
THEOREM EntriesConsistent == Spec => []EntriesAreConsistent
<1>1. AInv /\ BInv => EntriesAreConsistent
  BY TypesAreRight, DestroyedAreDone, HeldAreFound DEF EntriesAreConsistent
<1> QED BY <1>1, FoundInvariant, PTL

-----------------------------------------------------------------------------
(* The dooms under way.                                                    *)

Dooms(r) == r.create = "normal" /\ (r.task.op = "doom" \/ In(r.pending, "doom"))
Doomers == {e \in Entry : Dooms(entry[e])}

\* There is one doom under way, or none.
OneDoom ==
  \/ (\E e \in Entry : Doomers = {e}) /\ ~ Named(calls, "doomed") /\ mass = "none"
  \/ Doomers = {} /\ Named(calls, "doomed") /\ mass = "none"
  \/ Doomers = {} /\ ~ Named(calls, "doomed") /\ mass # "none"
NoDooms == Doomers = {} /\ ~ Named(calls, "doomed") /\ mass = "none"
CInv == ~ Iterate => IF dooming = NoDoom THEN NoDooms ELSE OneDoom

\* The entries that doom, after one entry changes.
LEMMA DoomersAfter ==
  ASSUME AInv, NEW e \in Entry, NEW n, Changed(e, n)
  PROVE  /\ (Dooms(n) <=> Dooms(entry[e])) => Doomers' = Doomers
         /\ Doomers = {} /\ Dooms(n) => Doomers' = {e}
         /\ Doomers = {} /\ ~ Dooms(n) => Doomers' = {}
         /\ Doomers = {e} /\ ~ Dooms(n) => Doomers' = {}
<1>1. entry'[e] = n /\ \A x \in Entry : x # e => entry'[x] = entry[x]
  BY DEF Changed, AInv, Typed
<1>2. \A x : x \in Doomers' <=> x \in Entry /\ Dooms(entry'[x])
  BY DEF Doomers, Dooms, In
<1>3. \A x : x \in Doomers <=> x \in Entry /\ Dooms(entry[x])
  BY DEF Doomers
<1>4. \A x \in Entry : x # e => (x \in Doomers' <=> x \in Doomers)
  BY <1>1, <1>2, <1>3
<1>5. (e \in Doomers' <=> Dooms(n)) /\ (e \in Doomers <=> Dooms(entry[e]))
  BY <1>1, <1>2, <1>3
<1>6. Doomers \subseteq Entry /\ Doomers' \subseteq Entry
  BY <1>2, <1>3
<1> HIDE DEF Doomers
<1> QED BY <1>4, <1>5, <1>6

\* Steps that neither start nor end a doom.
LEMMA DoomsSame ==
  ASSUME AInv, CInv, SameScenario, NEW e \in Entry, NEW n, Changed(e, n),
         Dooms(n) <=> Dooms(entry[e]), mass' = mass,
         Named(calls', "doomed") <=> Named(calls, "doomed"),
         dooming' = NoDoom <=> dooming = NoDoom
  PROVE  CInv'
<1>1. Doomers' = Doomers
  BY DoomersAfter
<1>2. Iterate' = Iterate
  BY SameSwitches
<1>3. Named(calls, "doomed")' = Named(calls', "doomed")
  BY DEF Named
<1> QED BY <1>1, <1>2, <1>3 DEF CInv, NoDooms, OneDoom

\* CInv is kept by a step that changes no entry and neither starts nor ends a
\* doom.
LEMMA DoomsUnchanged ==
  ASSUME AInv, CInv, SameScenario, entry' = entry, mass' = mass,
         Named(calls', "doomed") <=> Named(calls, "doomed"),
         dooming' = NoDoom <=> dooming = NoDoom
  PROVE  CInv'
<1>1. PICK e \in Entry : e = 1
  BY SimpleCacheAssumption DEF Entry
<1>2. Changed(e, entry[e])
  BY DEF Changed, AInv, Typed
<1> QED BY <1>2, DoomsSame

\* A doom starts.
LEMMA DoomStarts ==
  ASSUME AInv, CInv, SameScenario, NEW e \in Entry, NEW n, Changed(e, n), dooming = NoDoom,
         Dooms(n), mass' = mass, ~ Named(calls', "doomed"), dooming' # NoDoom
  PROVE  CInv'
<1>1. Iterate' = Iterate
  BY SameSwitches
<1>2. ~ Iterate => Doomers' = {e} /\ mass' = "none"
  BY DoomersAfter DEF CInv, NoDooms
<1>3. Named(calls, "doomed")' = Named(calls', "doomed")
  BY DEF Named
<1> QED BY <1>1, <1>2, <1>3 DEF CInv, OneDoom

\* CInv says nothing if clients iterate.
LEMMA IterateC ==
  ASSUME SameScenario, Iterate
  PROVE  CInv'
BY SameSwitches DEF CInv

\* CInv is kept by DoomEntry.
LEMMA TracksDoom ==
  ASSUME AInv, BInv, CInv, NEW e \in Entry, NEW rest, RestOK(rest), NEW n,
         DoomOneStep(e, rest, n), ~ Iterate => active = e, SameScenario
  PROVE  CInv'
<1>1. /\ Changed(e, n) /\ DoomStep(entry[e], n) /\ mass' = mass
      /\ dooming' = IF dooming = NoDoom /\ entry[e].create = "normal" THEN <<>> ELSE dooming
      /\ Called(rest, Run(e), calls')
  BY DEF DoomOneStep
<1>2. ~ Named(calls', "doomed") /\ ~ Named(calls, "doomed")
  BY <1>1, CalledRun DEF RestOK
<1>3. CASE Iterate
  BY <1>3, IterateC
<1>4. CASE ~ Iterate /\ entry[e].create = "normal"
  <2>1. dooming = NoDoom
    BY <1>4, EntryIs DEF BInv, FoundOnly
  <2>2. Dooms(n)
    BY <1>1, <1>4 DEF DoomStep, Dooms, Pushed
  <2> QED BY <1>1, <1>2, <1>4, <2>1, <2>2, DoomStarts, SmallCalls
<1>5. CASE ~ Iterate /\ entry[e].create # "normal"
  <2>1. ~ Dooms(n) /\ ~ Dooms(entry[e])
    BY <1>1, <1>5 DEF DoomStep, Dooms
  <2> QED BY <1>1, <1>2, <1>5, <2>1, DoomsSame
<1> QED BY <1>3, <1>4, <1>5

\* CInv is kept by every call of the backend.
LEMMA TracksBackend ==
  ASSUME AInv, BInv, CInv, NEW what, NEW rest, BackendCall(what, rest)
  PROVE  CInv'
<1>1. Resting(what, rest) /\ RestOK(rest) /\ BackendStep(what, rest) /\ SameScenario
  BY RestsOK DEF BackendCall
<1>2. ~ Named(rest, "doomed") /\ ~ Named(calls, "doomed")
  BY <1>1 DEF RestOK
<1>3. CASE WaitStep(rest, what)
  <2>1. /\ UNCHANGED <<entry, mass>> /\ calls' = rest /\ dooming # NoDoom
        /\ dooming' \in Seq(WaiterType)
    BY <1>3 DEF WaitStep, Waited
  <2>2. dooming' # NoDoom
    BY <2>1, SmallCalls
  <2> QED BY <1>1, <1>2, <2>1, <2>2, DoomsUnchanged
<1>4. ASSUME NEW n, active # None, DoomOneStep(active, rest, n) PROVE CInv'
  BY <1>1, <1>4, ActiveIs, TracksDoom
<1>5. CASE MassStep(rest)
  <2>1. /\ UNCHANGED entry /\ calls' = rest /\ dooming = NoDoom /\ dooming' = <<>>
        /\ mass' = "posted"
    BY <1>5 DEF MassStep
  <2>2. Iterate' = Iterate /\ Doomers' = Doomers
    BY <1>1, <2>1, SameSwitches DEF Doomers
  <2>3. Named(calls, "doomed")' = Named(rest, "doomed")
    BY <2>1 DEF Named
  <2> QED BY <1>2, <2>1, <2>2, <2>3, SmallCalls DEF CInv, NoDooms, OneDoom
<1>6. CASE NothingStep(rest)
  <2>1. /\ UNCHANGED <<entry, mass, dooming>> /\ calls' = rest
    BY <1>6 DEF NothingStep, backend
  <2> QED BY <1>1, <1>2, <2>1, DoomsUnchanged
<1>7. ASSUME NEW n, NEW op, UseActiveStep(rest, n, op) PROVE CInv'
  <2>1. /\ active # None /\ Changed(active, n) /\ Called(rest, Run(active), calls')
        /\ UNCHANGED <<dooming, mass>>
    BY <1>7 DEF UseActiveStep
  <2>2. active \in Entry
    BY <2>1, ActiveIs
  <2>3. Dooms(n) <=> Dooms(entry[active])
    <3>1. CASE PushStep(entry[active], n, op)
      BY <3>1 DEF PushStep, Dooms, Pushed
    <3>2. CASE CreateStep(entry[active], n, op)
      BY <3>2 DEF CreateStep, Dooms, Pushed, Creates
    <3> QED BY <1>7, <3>1, <3>2 DEF UseActiveStep
  <2>4. ~ Named(calls', "doomed")
    BY <1>1, <2>1, <2>2, CalledRun
  <2> QED BY <1>1, <1>2, <2>1, <2>2, <2>3, <2>4, DoomsSame
<1>8. ASSUME NEW e \in Entry, NEW n, NEW op, NewOneStep(e, rest, n, op) PROVE CInv'
  <2>1. /\ Free(e) /\ Changed(e, n) /\ NewStep(n, op) /\ Called(rest, Run(e), calls')
        /\ UNCHANGED mass
    BY <1>8 DEF NewOneStep
  <2>2. ~ Dooms(entry[e])
    BY <2>1, EntryIs, SmallQueues DEF Dooms, Busy
  <2>3. /\ \A x : In(n.pending, x) <=> x = op
        /\ n.task.op = "none"
    BY <2>1, NewSound, Constants DEF NewStep
  <2>4. ~ Named(calls', "doomed")
    BY <1>1, <2>1, CalledRun
  <2>5. CASE op # "doom" /\ ((dooming = NoDoom /\ UNCHANGED dooming)
                             \/ (dooming = <<>> /\ dooming' = <<Waiter("notify", e)>>))
    <3>1. ~ Dooms(n)
      BY <2>3, <2>5 DEF Dooms
    <3>2. dooming' = NoDoom <=> dooming = NoDoom
      <4>1. <<Waiter("notify", e)>> # NoDoom
        BY DEF NoDoom, Waiter
      <4> QED BY <2>5, <4>1, SmallCalls
    <3> QED BY <1>1, <1>2, <2>1, <2>2, <2>4, <3>1, <3>2, DoomsSame
  <2>6. CASE op = "doom" /\ dooming = NoDoom /\ dooming' = <<>>
    <3>1. Dooms(n)
      BY <2>1, <2>3, <2>6 DEF Dooms, NewStep
    <3> QED BY <1>1, <2>1, <2>4, <2>6, <3>1, DoomStarts, SmallCalls
  <2> QED BY <1>8, <2>5, <2>6 DEF NewOneStep, Creates
<1> QED BY <1>1, <1>3, <1>4, <1>5, <1>6, <1>7, <1>8 DEF BackendStep

\* CInv is kept by OnDoomComplete.
LEMMA TracksEnd ==
  ASSUME AInv, CInv, EndStep
  PROVE  CInv'
<1>1. /\ calls # <<>> /\ Head(calls) = OnDoomComplete
      /\ dooming' = NoDoom /\ calls' = IF dooming = NoDoom THEN <<>> ELSE dooming
      /\ UNCHANGED <<entry, mass, clients>>
  BY DEF EndStep
<1>2. Named(calls, "doomed")
  <2>1. calls \in Seq(CallType)
    BY DEF AInv, Typed
  <2>2. 1 \in DOMAIN calls /\ Head(calls) = calls[1]
    BY <1>1, <2>1, HeadTailProperties, LenProperties, EmptySeq
  <2> QED BY <1>1, <2>2 DEF Named, OnDoomComplete
<1>3. ~ Named(calls', "doomed")
  BY <1>1, SmallCalls DEF AInv, Typed
<1>4. Iterate' = Iterate /\ Doomers' = Doomers /\ Named(calls, "doomed")' = Named(calls', "doomed")
  BY <1>1 DEF Iterate, Doomers, Named
<1>5. ~ Iterate => Doomers = {} /\ mass = "none"
  BY <1>2 DEF CInv, NoDooms, OneDoom
<1> QED BY <1>1, <1>3, <1>4, <1>5 DEF CInv, NoDooms

\* CInv is kept by NotifyDoomBeforeCreateComplete.
LEMMA TracksNotify ==
  ASSUME AInv, CInv, NEW e \in Entry, NEW n, NEW rest, NotifyOneStep(e, n, rest)
  PROVE  CInv'
<1> DEFINE r == entry[e]
<1>1. /\ Did(calls, Waiter("notify", e), rest) /\ Called(rest, Run(e), calls')
      /\ Changed(e, n) /\ NotifyStep(r, n) /\ dooming = NoDoom
      /\ dooming' = (IF r.create = "pending_then_doom" THEN <<>> ELSE dooming)
      /\ UNCHANGED <<mass, clients>>
  BY DEF NotifyOneStep
<1>2. r \in Records /\ Sound(r, Faults)
  BY EntryIs
<1>3. Waiter("notify", e).call = "notify" /\ Run(e).call = "run"
  BY DEF Waiter, Run
<1>4. ~ Named(rest, "doomed") /\ ~ Named(calls, "doomed")
  BY <1>1, <1>3 DEF Did, AInv
<1>5. ~ Named(calls', "doomed")
  BY <1>1, <1>3, <1>4 DEF Called
<1>6. CASE r.create = "pending_then_doom"
  <2>1. Dooms(n)
    BY <1>1, <1>2, <1>6 DEF Sound, RInv, Early, NotifyStep, Dooms
  <2> QED BY <1>1, <1>5, <1>6, <2>1, SameClients, DoomStarts, SmallCalls
<1>7. CASE r.create # "pending_then_doom"
  <2>1. r.create = "pending_doom"
    BY <1>1, <1>2, <1>7, RecordOf DEF NotifyStep
  <2>2. ~ Dooms(n) /\ ~ Dooms(r)
    BY <1>1, <1>2, <2>1 DEF Sound, RInv, Early, DoomedOnce, NotifyStep, Dooms, Busy
  <2> QED BY <1>1, <1>4, <1>5, <1>7, <2>2, SameClients, DoomsSame
<1> QED BY <1>6, <1>7

\* CInv is kept by RunNextOperationIfNeeded.
LEMMA TracksExecute ==
  ASSUME AInv, CInv, NEW e \in Entry, NEW n, NEW op, ExecuteStep(e, n, op)
  PROVE  CInv'
<1> DEFINE r == entry[e]
<1>1. /\ Changed(e, n) /\ calls # <<>> /\ Head(calls) = Run(e)
      /\ UNCHANGED <<dooming, mass, clients>>
  BY DEF ExecuteStep, backend
<1>2. Run(e).call = "run" /\ "run" # "doomed"
  BY DEF Run
<1>3. Named(calls', "doomed") <=> Named(calls, "doomed")
  <2>1. CASE calls' = calls
    BY <2>1
  <2>2. CASE Did(calls, Run(e), calls')
    BY <1>2, <2>2 DEF Did
  <2> QED BY <2>1, <2>2 DEF ExecuteStep
<1>4. Dooms(n) <=> Dooms(r)
  <2>1. CASE PostStep(r, n, op)
    BY <2>1, Constants DEF PostStep, Popped, Dooms
  <2>2. CASE AtOnceStep(r, n, op)
    BY <2>2 DEF AtOnceStep, Popped, Dooms
  <2>3. CASE ClosingStep(r, n)
    BY <2>3 DEF ClosingStep, Popped, Dooms
  <2>4. CASE n = r
    BY <2>4
  <2> QED BY <2>1, <2>2, <2>3, <2>4 DEF ExecuteStep
<1> QED BY <1>1, <1>3, <1>4, SameClients, DoomsSame

\* CInv is kept by the replies of the tasks that are no dooms.
LEMMA TracksReply ==
  ASSUME AInv, CInv, NEW e \in Entry, NEW n,
         CreatedStep(e, n) \/ UsedOpStep(e, n) \/ ClosedReply(e, n)
  PROVE  CInv'
<1> DEFINE r == entry[e]
<1>1. /\ calls = <<>> /\ calls' = <<Run(e)>> /\ Changed(e, n)
      /\ UNCHANGED <<dooming, mass, clients>>
  BY DEF CreatedStep, UsedOpStep, ClosedReply, ReplyStep
<1>2. ~ Named(calls, "doomed") /\ ~ Named(calls', "doomed")
  BY <1>1, SmallCalls, RunCalls
<1>3. OpenedStep(r, n) \/ NotOpenedStep(r, n) \/ UsedStep(r, n) \/ ClosedStep(r, n)
  BY DEF CreatedStep, UsedOpStep, ClosedReply
<1>4. Dooms(n) <=> Dooms(r)
  BY <1>3, Constants DEF OpenedStep, NotOpenedStep, UsedStep, ClosedStep, Dooms, Opening, Uses
<1> QED BY <1>1, <1>2, <1>4, SameClients, DoomsSame

\* CInv is kept by DoomOperationComplete.
LEMMA TracksDoomed ==
  ASSUME AInv, CInv, NEW e \in Entry, NEW n, DoomedReply(e, n)
  PROVE  CInv'
<1> DEFINE r == entry[e]
<1>1. /\ calls = <<>> /\ calls' = <<Run(e), OnDoomComplete>> /\ Changed(e, n)
      /\ DoomedStep(r, n) /\ UNCHANGED <<dooming, mass, clients>>
  BY DEF DoomedReply
<1>2. r \in Records /\ Sound(r, Faults)
  BY EntryIs
<1>3. r.task.op = "doom" /\ ~ In(r.pending, "doom") /\ r.create = "normal"
  BY <1>1, <1>2, RecordOf DEF DoomedStep, Sound, RInv, DoomedOnce, Early, Busy
<1>4. Dooms(r) /\ ~ Dooms(n)
  BY <1>1, <1>3, Constants DEF DoomedStep, Dooms
<1>5. Named(calls', "doomed")
  BY <1>1, RunCalls
<1>6. e \in Doomers
  BY <1>4 DEF Doomers
<1>7. ~ Iterate => dooming # NoDoom /\ mass = "none" /\ Doomers = {e}
  BY <1>6 DEF CInv, NoDooms, OneDoom
<1>8. ~ Iterate => Doomers' = {}
  BY <1>1, <1>4, <1>7, DoomersAfter
<1>9. Iterate' = Iterate /\ Named(calls, "doomed")' = Named(calls', "doomed")
  BY <1>1 DEF Iterate, Named
<1> QED BY <1>1, <1>5, <1>7, <1>8, <1>9 DEF CInv, OneDoom

\* CInv is kept by DoomEntrySet and DoomEntriesComplete.
LEMMA TracksMass ==
  ASSUME AInv, CInv, MassReply \/ WorkMass
  PROVE  CInv'
<1>1. entry' = entry /\ UNCHANGED <<dooming, clients>>
  BY DEF MassReply, WorkMass
<1>2. Iterate' = Iterate /\ Doomers' = Doomers /\ Named(calls, "doomed")' = Named(calls', "doomed")
  BY <1>1 DEF Iterate, Doomers, Named
<1>3. CASE MassReply
  <2>1. mass = "done" /\ mass' = "none" /\ calls' = <<OnDoomComplete>>
    BY <1>3 DEF MassReply
  <2>2. Named(calls', "doomed")
    <3>1. PICK e \in Entry : e = 1
      BY SimpleCacheAssumption DEF Entry
    <3> QED BY <2>1, <3>1, RunCalls
  <2> QED BY <1>1, <1>2, <2>1, <2>2 DEF CInv, NoDooms, OneDoom
<1>4. CASE WorkMass
  <2>1. mass = "posted" /\ mass' = "done" /\ calls' = calls
    BY <1>4 DEF WorkMass
  <2> QED BY <1>1, <1>2, <2>1 DEF CInv, NoDooms, OneDoom
<1> QED BY <1>3, <1>4

\* CInv is kept by the holders of an entry.
LEMMA TracksUse ==
  ASSUME AInv, CInv, NEW e \in Entry, NEW n, UseStep(e, n)
  PROVE  CInv'
<1> DEFINE r == entry[e]
<1>1. /\ calls = <<>> /\ Changed(e, n) /\ calls' \in {<<>>, <<Run(e)>>}
      /\ UNCHANGED <<dooming, mass>> /\ SameScenario
  BY DEF UseStep, backend
<1>2. ~ Named(calls, "doomed") /\ ~ Named(calls', "doomed")
  BY <1>1, SmallCalls, RunCalls
<1>3. Dooms(n) <=> Dooms(r)
  <2>1. ASSUME NEW op, PushStep(r, n, op) PROVE Dooms(n) <=> Dooms(r)
    BY <2>1 DEF PushStep, Pushed, Dooms
  <2>2. CASE FewerStep(r, n)
    BY <2>2 DEF FewerStep, Dooms
  <2> QED BY <2>1, <2>2 DEF UseStep
<1> QED BY <1>1, <1>2, <1>3, DoomsSame

\* CInv is kept by the workers.
LEMMA TracksWork ==
  ASSUME AInv, CInv, NEW e \in Entry, NEW n, WorkOneStep(e, n)
  PROVE  CInv'
<1>1. Changed(e, n) /\ UNCHANGED <<dooming, mass, calls, clients>>
  BY DEF WorkOneStep, backend
<1>2. WorkStep(entry[e], n, Faults) \/ WorkCloseStep(entry[e], n)
  BY DEF WorkOneStep
<1>3. Dooms(n) <=> Dooms(entry[e])
  BY <1>2 DEF WorkStep, WorkCloseStep, Dooms
<1> QED BY <1>1, <1>3, SameClients, DoomsSame

\* CInv is kept by the destructor.
LEMMA TracksDestroy ==
  ASSUME AInv, CInv, NEW e \in Entry, DestroyStep(e)
  PROVE  CInv'
<1>1. Unreferenced(e) /\ Changed(e, Unused) /\ UNCHANGED <<dooming, mass, calls, clients>>
  BY DEF DestroyStep
<1>2. ~ Dooms(Unused)
  BY UnusedIs, SmallQueues, Constants DEF Dooms
<1>3. ~ Dooms(entry[e])
  BY <1>1, SmallQueues DEF Unreferenced, Referenced, Dooms
<1> QED BY <1>1, <1>2, <1>3, SameClients, DoomsSame

\* CInv is kept by every step.
LEMMA StepKeepsC ==
  ASSUME AInv, BInv, CInv, Step
  PROVE  CInv'
<1>1. ASSUME NEW e \in Entry, NEW n, DoomCall(e, n) PROVE CInv'
  <2>1. /\ calls = <<>> /\ Held(e) /\ DoomOneStep(e, <<>>, n) /\ SameScenario
    BY <1>1 DEF DoomCall
  <2>2. ~ Iterate => active = e
    BY <2>1, HeldIs DEF BInv, FoundOnly, DoomOneStep, DoomStep
  <2> QED BY <2>1, <2>2, RestsOK, TracksDoom
<1>2. ASSUME NEW e \in Entry, e \in opened, UNCHANGED clients PROVE CInv'
  <2>1. Iterate
    BY <1>2 DEF BInv, FoundOnly
  <2> QED BY <1>2, <2>1, SameClients, IterateC
<1>3. ASSUME NEW e \in Entry, AdoptStep(e) \/ \E n, m : InsteadStep(e, n, m) PROVE CInv'
  <2>1. e \in opened /\ UNCHANGED clients
    BY <1>3 DEF AdoptStep, InsteadStep
  <2> QED BY <1>2, <2>1
<1>4. ASSUME NEW e \in Entry, EntryStep(e) PROVE CInv'
  BY <1>1, <1>3, <1>4, TracksExecute, TracksNotify, TracksReply, TracksDoomed,
     TracksWork, TracksUse, TracksDestroy DEF EntryStep
<1> QED BY <1>4, TracksBackend, TracksEnd, TracksMass DEF Step

\* CInv holds at first.
LEMMA InitC ==
  ASSUME Init
  PROVE  CInv
<1>1. /\ entry = [e \in Entry |-> Unused] /\ dooming = NoDoom /\ mass = "none" /\ calls = <<>>
  BY DEF Init
<1>2. \A e \in Entry : ~ Dooms(entry[e])
  BY <1>1, UnusedIs, SmallQueues, Constants DEF Dooms
<1> QED BY <1>1, <1>2, SmallCalls DEF CInv, NoDooms, Doomers

\* CInv is kept when nothing changes.
LEMMA StutterC ==
  ASSUME CInv, UNCHANGED vars
  PROVE  CInv'
<1>1. UNCHANGED <<entry, dooming, mass, calls, clients>>
  BY DEF vars, backend
<1>2. Doomers' = Doomers /\ Iterate' = Iterate /\ Named(calls, "doomed")' = Named(calls, "doomed")
  BY <1>1 DEF Doomers, Iterate, Named
<1> QED BY <1>1, <1>2 DEF CInv, NoDooms, OneDoom

\* The third layer: CInv always holds.
LEMMA DoomInvariant == Spec => [](AInv /\ BInv /\ CInv)
<1>1. AInv /\ BInv /\ CInv /\ [Next]_vars => CInv'
  BY NextIsStep, StepKeepsC, StutterC
<1> QED BY <1>1, InitC, FoundInvariant, PTL DEF Spec

\* How many dooms are under way.
LEMMA CountsOfDooms ==
  ASSUME AInv
  PROVE  DoomsUnderWay = Cardinality(Doomers) + (IF Named(calls, "doomed") THEN 1 ELSE 0)
                           + (IF mass = "none" THEN 0 ELSE 1)
<1> DEFINE D == {e \in Entry : /\ entry[e].create = "normal"
                               /\ \/ entry[e].task.op = "doom"
                                  \/ \E i \in DOMAIN entry[e].pending :
                                       entry[e].pending[i] = "doom"}
           O == {i \in DOMAIN calls : calls[i] = OnDoomComplete}
<1>1. D = Doomers
  BY DEF Doomers, Dooms, In
<1>2. calls \in Seq(CallType)
  BY DEF AInv, Typed
<1>3. \A i \in DOMAIN calls : calls[i] = OnDoomComplete <=> calls[i].call = "doomed"
  <2>1. \A i \in DOMAIN calls : calls[i] \in CallType
    BY <1>2, LenProperties, ElementOfSeq
  <2>2. OnDoomComplete.call = "doomed"
    BY DEF OnDoomComplete
  <2> QED BY <2>1, <2>2, CallTypes
<1>4. Cardinality(O) = IF Named(calls, "doomed") THEN 1 ELSE 0
  <2>1. CASE Named(calls, "doomed")
    <3>1. PICK i \in DOMAIN calls : calls[i].call = "doomed"
      BY <2>1 DEF Named
    <3>2. O = {i}
      BY <1>3, <3>1 DEF AInv, EndLast
    <3> QED BY <2>1, <3>2, FS_Singleton
  <2>2. CASE ~ Named(calls, "doomed")
    <3>1. O = {}
      BY <1>3, <2>2 DEF Named
    <3> QED BY <2>2, <3>1, FS_EmptySet
  <2> QED BY <2>1, <2>2
<1>5. DoomsUnderWay = Cardinality(D) + Cardinality(O) + (IF mass = "none" THEN 0 ELSE 1)
  BY DEF DoomsUnderWay, Count
<1> HIDE DEF D, O
<1> QED BY <1>1, <1>4, <1>5

\* The backend has the hash among those whose doom is pending exactly while one
\* doom of it is under way, and there are never two: what the DCHECKs of
\* OnDoomStart and OnDoomComplete expect, if nobody iterates.
THEOREM TrackedDooms == Spec => []DoomsAreTracked
<1>1. AInv /\ CInv => DoomsAreTracked
  <2> SUFFICES ASSUME AInv, CInv, ~ Iterate
               PROVE  DoomsUnderWay = IF dooming = NoDoom THEN 0 ELSE 1
    BY DEF DoomsAreTracked
  <2>1. Cardinality({}) = 0 /\ \A e : Cardinality({e}) = 1
    BY FS_EmptySet, FS_Singleton
  <2>2. CASE dooming = NoDoom
    BY <2>1, <2>2, CountsOfDooms DEF CInv, NoDooms
  <2>3. CASE dooming # NoDoom
    BY <2>1, <2>3, CountsOfDooms DEF CInv, OneDoom
  <2> QED BY <2>2, <2>3
<1> QED BY <1>1, DoomInvariant, PTL

-----------------------------------------------------------------------------
(* The files.                                                              *)

\* The files of the hash are still to be doomed; they were, with this entry.
Undone(r) == In(r.pending, "doom") \/ (r.task.op = "doom" /\ ~ r.task.done)
Retired(r) == r.doomed /\ ~ Undone(r)

\* The entry that may work on the linked files, and one that has not yet.
Current(r) == r.state # "unused" /\ r.create = "normal" /\ ~ Retired(r)
Virgin(r) ==
  /\ r.state \in {"uninitialized", "io"} /\ r.file = None /\ ~ Closing(r)
  /\ r.task.op \in {"none", "doom", "create", "create_early"}
  /\ r.task.op \in Creates => ~ r.task.done
  /\ r.task.op \in Creates \/ Behind(r.pending)
Creating(r) == CreateIn(r.pending) \/ r.task.op \in Creates
FilesOf(r) == {r.file, r.task.file, r.closing.file} \ {None}

\* A retired entry is done with the linked file, and opens no other.
Apart(r, file) == ~ OpenIn(r.pending) /\ r.task.op \notin Opens /\ file \notin FilesOf(r)
\* Only an operation on a doomed entry fails.
FailedAre(r) ==
  r.task.done /\ r.task.result = "failed" => r.task.op \notin Opens /\ r.doomed

Alone == \A e, f \in Entry : Current(entry[e]) /\ Current(entry[f]) => e = f
RetiredAreApart == \A e \in Entry : Retired(entry[e]) => Apart(entry[e], linked)
Disjoint == \A e, f \in Entry : e # f => FilesOf(entry[e]) \cap FilesOf(entry[f]) = {}
Unlinked == \A e \in Entry : Current(entry[e]) /\ linked = None => Virgin(entry[e])
IndexIsRight ==
  /\ index => linked # None \/ (active # None /\ Creating(entry[active]))
  /\ index /\ (dooming # NoDoom \/ Named(calls, "notify")) => active # None
DoomedFiles ==
  dooming # NoDoom /\ linked # None =>
    mass = "posted" \/ \E e \in Entry : entry[e].create = "normal" /\ Undone(entry[e])
FailedAreDoomed == \A e \in Entry : FailedAre(entry[e])

Ideal == "io" \notin Faults /\ ~ Iterate
GInv ==
  /\ Alone /\ RetiredAreApart /\ Disjoint /\ Unlinked /\ IndexIsRight /\ DoomedFiles
  /\ FailedAreDoomed
FInv == Ideal => GInv

\* A doom by hash waits, and takes the hash out of the index before its time.
HashWaits == Named(calls, "doom_hash") \/ Named(dooming, "doom_hash")
Indexed ==
  /\ linked # None /\ dooming = NoDoom => index \/ HashWaits
  /\ \A e \in Entry : ~ entry[e].doomed /\ Creating(entry[e]) => index \/ HashWaits
LInv == Faults = {} /\ ~ Iterate => Indexed

-----------------------------------------------------------------------------
\* What most steps of an entry leave as it is.
Tame(r, n, link) ==
  /\ n.create = r.create /\ (Undone(n) <=> Undone(r))
  /\ (Retired(n) <=> Retired(r)) /\ (Current(n) <=> Current(r))
  /\ FilesOf(n) \subseteq FilesOf(r)
  /\ \A file : Retired(r) /\ Apart(r, file) => Apart(n, file)
  /\ link = None /\ Current(r) /\ Virgin(r) => Virgin(n)
  /\ Creating(r) /\ link = None /\ (r.create = "normal" => Virgin(r)) => Creating(n)
  /\ FailedAre(r) => FailedAre(n)

\* Reads, writes and closes are queued tamely.
LEMMA PushTame ==
  ASSUME NEW r \in Records, NEW n, NEW op, PushStep(r, n, op), op # "open", NEW link
  PROVE  Tame(r, n, link)
<1>1. /\ n.state = r.state /\ n.doomed = r.doomed /\ n.create = r.create /\ n.file = r.file
      /\ n.task = r.task /\ n.closing = r.closing /\ op \in {"read", "write", "write_omitted", "close"}
      /\ (\A x : In(n.pending, x) <=> In(r.pending, x) \/ x = op)
      /\ Behind(r.pending) => Behind(n.pending)
  BY DEF PushStep, Pushed
<1>2. Undone(n) <=> Undone(r)
  BY <1>1 DEF Undone
<1>3. FilesOf(n) = FilesOf(r)
  BY <1>1 DEF FilesOf
<1>4. (OpenIn(n.pending) <=> OpenIn(r.pending)) /\ (CreateIn(n.pending) <=> CreateIn(r.pending))
  BY <1>1 DEF OpenIn, CreateIn
<1>5. (Retired(n) <=> Retired(r)) /\ (Current(n) <=> Current(r))
  BY <1>1, <1>2 DEF Retired, Current
<1>6. Virgin(r) => Virgin(n)
  BY <1>1 DEF Virgin, Closing
<1> QED BY <1>1, <1>2, <1>3, <1>4, <1>5, <1>6 DEF Tame, Apart, Creating, FailedAre

\* A Close by a holder who is not the last is tame.
LEMMA FewerTame ==
  ASSUME NEW r \in Records, NEW n, FewerStep(r, n), NEW link
  PROVE  Tame(r, n, link)
<1>1. /\ n.state = r.state /\ n.doomed = r.doomed /\ n.create = r.create /\ n.file = r.file
      /\ n.task = r.task /\ n.closing = r.closing /\ n.pending = r.pending
  BY DEF FewerStep
<1>2. (Undone(n) <=> Undone(r)) /\ FilesOf(n) = FilesOf(r) /\ (Virgin(n) <=> Virgin(r))
  BY <1>1 DEF Undone, FilesOf, Virgin, Closing
<1> QED BY <1>1, <1>2 DEF Tame, Apart, Creating, FailedAre, Retired, Current

\* An operation is posted tamely.
LEMMA PostTame ==
  ASSUME NEW r \in Records, NEW faults, Sound(r, faults), ~ IsHash(r), NEW n, NEW op,
         PostStep(r, n, op), NEW link
  PROVE  Tame(r, n, link)
<1>1. /\ n.state = "io" /\ n.doomed = r.doomed /\ n.create = r.create /\ n.file = r.file
      /\ n.closing = r.closing /\ n.task.op = op /\ ~ n.task.done /\ n.task.file = r.file
      /\ (\A x : In(r.pending, x) <=> In(n.pending, x) \/ x = op)
      /\ r.task = NoTask /\ r.task.op = "none" /\ r.task.file = None /\ r.state # "io"
      /\ op \in Operation
  BY Constants DEF PostStep, Popped
<1>2. op # "open_hash"
  BY <1>1 DEF IsHash
<1>3. Undone(n) <=> Undone(r)
  BY <1>1 DEF Undone
<1>4. FilesOf(n) = FilesOf(r)
  BY <1>1 DEF FilesOf
<1>5. r.state # "unused"
  <2>1. r.pending # <<>>
    BY DEF PostStep
  <2> QED BY <2>1, UnusedIs DEF Sound, RInv, Blank
<1>6. (Retired(n) <=> Retired(r)) /\ (Current(n) <=> Current(r))
  BY <1>1, <1>3, <1>5 DEF Retired, Current
<1>7. Virgin(r) => Virgin(n)
  <2> SUFFICES ASSUME Virgin(r) PROVE Virgin(n)
    OBVIOUS
  <2>1. Behind(r.pending) /\ r.state = "uninitialized" /\ r.file = None /\ ~ Closing(r)
    BY <1>1 DEF Virgin, Creates
  <2>2. op # "open" /\ (op \notin Creates => Behind(n.pending))
    BY <2>1 DEF PostStep, Popped
  <2>3. op \notin Uses
    BY <2>1 DEF PostStep
  <2>4. op \in {"doom", "create", "create_early"}
    BY <1>1, <1>2, <2>2, <2>3 DEF PostStep, Operation, Uses
  <2> QED BY <1>1, <2>1, <2>2, <2>4 DEF Virgin, Closing, Creates
<1>8. Creating(r) => Creating(n)
  BY <1>1 DEF Creating, CreateIn, Creates
<1>9. \A file : Retired(r) /\ Apart(r, file) => Apart(n, file)
  BY <1>1, <1>4 DEF Apart, OpenIn, CreateIn, Opens
<1> QED BY <1>1, <1>3, <1>4, <1>6, <1>7, <1>8, <1>9 DEF Tame, FailedAre

\* An operation that ends at once is tame.
LEMMA AtOnceTame ==
  ASSUME NEW r \in Records, NEW faults, Sound(r, faults), NEW n, NEW op, AtOnceStep(r, n, op),
         NEW link
  PROVE  Tame(r, n, link)
<1>1. /\ n.state = r.state /\ n.doomed = r.doomed /\ n.create = r.create /\ n.file = r.file
      /\ n.task = r.task /\ n.closing = r.closing /\ op # "doom" /\ r.state # "io"
      /\ (\A x : In(r.pending, x) <=> In(n.pending, x) \/ x = op)
      /\ op \in Opening => r.state # "uninitialized"
  BY DEF AtOnceStep, Popped
<1>2. Undone(n) <=> Undone(r)
  BY <1>1 DEF Undone
<1>3. FilesOf(n) = FilesOf(r)
  BY <1>1 DEF FilesOf
<1>4. (Retired(n) <=> Retired(r)) /\ (Current(n) <=> Current(r))
  BY <1>1, <1>2 DEF Retired, Current
<1>5. Virgin(r) => op \notin Creates
  BY <1>1 DEF Virgin, Opening, Creates
<1>6. Virgin(r) => Virgin(n)
  <2>1. Behind(r.pending) /\ op \notin Creates => Behind(n.pending)
    BY DEF AtOnceStep, Popped
  <2> QED BY <1>1, <1>5, <2>1 DEF Virgin, Closing
<1>7. r.create = "normal"
  BY <1>1 DEF Sound, RInv, Early
<1>8. Creating(r) /\ Virgin(r) => Creating(n)
  BY <1>1, <1>5 DEF Creating, CreateIn, Creates
<1>9. \A file : Apart(r, file) => Apart(n, file)
  BY <1>1, <1>3 DEF Apart, OpenIn, CreateIn
<1> QED BY <1>1, <1>2, <1>3, <1>4, <1>6, <1>7, <1>8, <1>9 DEF Tame, FailedAre

\* CloseInternal is tame.
LEMMA ClosingTame ==
  ASSUME NEW r \in Records, NEW faults, Sound(r, faults), NEW n, ClosingStep(r, n), NEW link
  PROVE  Tame(r, n, link)
<1>1. /\ n.doomed = r.doomed /\ n.create = r.create /\ n.file = None
      /\ n.task = r.task /\ r.state # "io"
      /\ (\A x : In(r.pending, x) <=> In(n.pending, x) \/ x = "close")
  BY DEF ClosingStep, Popped
<1>2. Undone(n) <=> Undone(r)
  BY <1>1 DEF Undone
<1>3. FilesOf(n) \subseteq FilesOf(r)
  BY <1>1 DEF FilesOf, ClosingStep
<1>4. r.state # "unused" /\ n.state # "unused"
  <2>1. r.pending # <<>>
    BY DEF ClosingStep
  <2>2. r.state # "unused"
    BY <2>1, UnusedIs DEF Sound, RInv, Blank
  <2> QED BY <2>2 DEF ClosingStep
<1>5. (Retired(n) <=> Retired(r)) /\ (Current(n) <=> Current(r))
  BY <1>1, <1>2, <1>4 DEF Retired, Current
<1>6. Virgin(r) => Virgin(n)
  <2>1. Behind(r.pending) => Behind(n.pending)
    BY DEF ClosingStep, Popped, Creates
  <2>2. Virgin(r) => n.closing = r.closing /\ n.state = "uninitialized"
    BY DEF Virgin, ClosingStep
  <2> QED BY <1>1, <2>1, <2>2 DEF Virgin, Closing
<1>7. Creating(r) => Creating(n)
  BY <1>1 DEF Creating, CreateIn
<1>8. \A file : Apart(r, file) => Apart(n, file)
  BY <1>1, <1>3 DEF Apart, OpenIn, CreateIn
<1> QED BY <1>1, <1>2, <1>3, <1>5, <1>6, <1>7, <1>8 DEF Tame, FailedAre

\* Replies and work.
LEMMA RepliedTame ==
  ASSUME NEW r \in Records, NEW faults, Sound(r, faults), ~ IsHash(r), FailedAre(r), NEW n,
         OpenedStep(r, n) \/ NotOpenedStep(r, n) \/ UsedStep(r, n), NEW link
  PROVE  Tame(r, n, link)
<1>1. /\ r.task.op \in Opening \cup Uses /\ r.task.done
      /\ n.create = r.create /\ n.pending = r.pending /\ n.closing = r.closing
      /\ n.task = NoTask /\ n.task.op = "none" /\ ~ n.task.done /\ n.task.file = None
      /\ n.file \in {r.file, r.task.file} /\ n.state # "unused"
  BY Constants DEF OpenedStep, NotOpenedStep, UsedStep
<1>2. r.task.op # "open_hash" /\ r.task.op # "doom" /\ r.task.op # "none"
  BY <1>1 DEF IsHash, Opening, Uses
<1>3. n.doomed = r.doomed
  <2>1. CASE NotOpenedStep(r, n) /\ r.task.result = "failed"
    <3>1. r.task.op \in Opens
      BY <1>2, <2>1 DEF NotOpenedStep, Opening, Opens
    <3> QED BY <1>1, <2>1, <3>1 DEF FailedAre
  <2>2. CASE UsedStep(r, n) /\ r.task.result = "failed"
    BY <1>1, <2>2, RecordOf DEF FailedAre, UsedStep
  <2>3. CASE OpenedStep(r, n) \/ r.task.result # "failed"
    BY <2>3 DEF OpenedStep, NotOpenedStep, UsedStep
  <2> QED BY <2>1, <2>2, <2>3
<1>4. Undone(n) <=> Undone(r)
  BY <1>1, <1>2 DEF Undone
<1>5. FilesOf(n) \subseteq FilesOf(r)
  BY <1>1 DEF FilesOf
<1>6. r.state # "unused" /\ r.create = "normal"
  BY <1>2, UnusedIs, Constants DEF Sound, RInv, Blank, Early, Busy
<1>7. (Retired(n) <=> Retired(r)) /\ (Current(n) <=> Current(r))
  BY <1>1, <1>3, <1>4, <1>6 DEF Retired, Current
<1>8. ~ Virgin(r)
  BY <1>1, <1>2 DEF Virgin, Opening, Uses, Creates
<1>9. \A file : Apart(r, file) => Apart(n, file)
  BY <1>1, <1>5 DEF Apart, Opens
<1> QED BY <1>1, <1>4, <1>5, <1>6, <1>7, <1>8, <1>9 DEF Tame, FailedAre

\* CloseOperationComplete is tame.
LEMMA ClosedTame ==
  ASSUME NEW r \in Records, NEW faults, Sound(r, faults), NEW n, ClosedStep(r, n), NEW link
  PROVE  Tame(r, n, link)
<1>1. /\ Closing(r) /\ n.state = "uninitialized" /\ n.file = r.file /\ n.task = r.task
      /\ n.create = r.create /\ n.pending = r.pending /\ n.doomed = r.doomed
      /\ n.closing.file = None
  BY Constants DEF ClosedStep
<1>2. r.state # "unused" /\ r.create = "normal"
  BY <1>1, UnusedIs, Constants DEF Sound, RInv, Blank, Early, Closing
<1>3. (Undone(n) <=> Undone(r)) /\ FilesOf(n) \subseteq FilesOf(r)
  BY <1>1 DEF Undone, FilesOf
<1>4. ~ Virgin(r)
  BY <1>1 DEF Virgin
<1>5. (Retired(n) <=> Retired(r)) /\ (Current(n) <=> Current(r))
  BY <1>1, <1>2, <1>3 DEF Retired, Current
<1> QED BY <1>1, <1>2, <1>3, <1>4, <1>5 DEF Tame, Apart, FailedAre

\* DoomOperationComplete is tame.
LEMMA DoomedTame ==
  ASSUME NEW r \in Records, NEW faults, Sound(r, faults), NEW n, DoomedStep(r, n), r.task.done,
         NEW link
  PROVE  Tame(r, n, link)
<1>1. /\ r.task.op = "doom" /\ n.state = r.task.restore /\ n.file = r.file
      /\ n.create = r.create /\ n.pending = r.pending /\ n.doomed = r.doomed
      /\ n.closing = r.closing /\ n.task.op = "none" /\ ~ n.task.done /\ n.task.file = None
  BY Constants DEF DoomedStep
<1>2. /\ r.state # "unused" /\ r.create = "normal" /\ r.doomed /\ ~ In(r.pending, "doom")
      /\ n.state # "unused" /\ ~ OpenIn(r.pending)
  BY <1>1, UnusedIs, Constants DEF Sound, RInv, Blank, Early, Busy, DoomedOnce
<1>3. ~ Undone(n) /\ ~ Undone(r) /\ FilesOf(n) \subseteq FilesOf(r)
  BY <1>1, <1>2 DEF Undone, FilesOf
<1>4. Retired(n) /\ Retired(r) /\ ~ Current(n) /\ ~ Current(r)
  BY <1>1, <1>2, <1>3 DEF Retired, Current
<1>5. ~ Creating(r)
  BY <1>1, <1>2 DEF Creating, OpenIn, Creates
<1> QED BY <1>1, <1>3, <1>4, <1>5 DEF Tame, Apart, FailedAre, Opens

\* The worker that closes files is tame.
LEMMA WorkCloseTame ==
  ASSUME NEW r \in Records, NEW n, WorkCloseStep(r, n), NEW link
  PROVE  Tame(r, n, link)
<1>1. /\ n.state = r.state /\ n.doomed = r.doomed /\ n.create = r.create /\ n.file = r.file
      /\ n.task = r.task /\ n.closing.file = r.closing.file /\ n.closing.op = r.closing.op
      /\ n.pending = r.pending
  BY DEF WorkCloseStep
<1>2. (Undone(n) <=> Undone(r)) /\ FilesOf(n) = FilesOf(r) /\ (Virgin(n) <=> Virgin(r))
  BY <1>1 DEF Undone, FilesOf, Virgin, Closing
<1> QED BY <1>1, <1>2 DEF Tame, Apart, Creating, FailedAre, Retired, Current

\* Work on a file that the entry had, or on none.
LEMMA WorkTame ==
  ASSUME NEW r \in Records, NEW n, NEW faults, WorkStep(r, n, faults), r.task.op # "doom",
         n.task.file \in {r.task.file, None}, NEW link,
         link = None => r.task.op \notin Creates, FailedAre(n)
  PROVE  Tame(r, n, link)
<1>1. /\ n.state = r.state /\ n.doomed = r.doomed /\ n.create = r.create /\ n.file = r.file
      /\ n.task.op = r.task.op /\ n.closing = r.closing /\ n.pending = r.pending
  BY DEF WorkStep
<1>2. (Undone(n) <=> Undone(r)) /\ FilesOf(n) \subseteq FilesOf(r)
  BY <1>1 DEF Undone, FilesOf
<1>3. link = None /\ Virgin(r) => Virgin(n)
  BY <1>1 DEF Virgin, Closing
<1>4. (Retired(n) <=> Retired(r)) /\ (Current(n) <=> Current(r))
  BY <1>1, <1>2 DEF Retired, Current
<1> QED BY <1>1, <1>2, <1>3, <1>4 DEF Tame, Apart, Creating

-----------------------------------------------------------------------------
\* One entry changes.
LEMMA FilesAfter ==
  ASSUME AInv, GInv, NEW e \in Entry, NEW n, Changed(e, n),
         Current(n) => \A f \in Entry : f # e => ~ Current(entry[f]),
         Retired(n) => Apart(n, linked'),
         \/ linked' \in {linked, None}
         \/ \A f \in Entry : linked' \notin FilesOf(entry[f]),
         \A x \in FilesOf(n) : \/ x \in FilesOf(entry[e])
                               \/ \A f \in Entry : f # e => x \notin FilesOf(entry[f]),
         Current(n) /\ linked' = None => Virgin(n),
         linked' = None /\ linked # None => \A f \in Entry : f # e => ~ Current(entry[f]),
         IndexIsRight', DoomedFiles', FailedAre(n)
  PROVE  GInv'
<1>1. entry'[e] = n /\ \A x \in Entry : x # e => entry'[x] = entry[x]
  BY DEF Changed, AInv, Typed
<1>2. Alone'
  <2>1. Alone' <=> \A x, y \in Entry : Current(entry'[x]) /\ Current(entry'[y]) => x = y
    BY DEF Alone, Current, Retired, Undone, In
  <2>2. \A x, y \in Entry : Current(entry[x]) /\ Current(entry[y]) => x = y
    BY DEF GInv, Alone
  <2> QED BY <1>1, <2>1, <2>2
<1>3. RetiredAreApart'
  <2>1. RetiredAreApart' <=> \A x \in Entry : Retired(entry'[x]) => Apart(entry'[x], linked')
    BY DEF RetiredAreApart, Apart, Retired, Undone, In, FilesOf, OpenIn, CreateIn, Opens
  <2>2. ASSUME NEW x \in Entry, x # e, Retired(entry'[x]) PROVE Apart(entry'[x], linked')
    <3>1. entry'[x] = entry[x] /\ Retired(entry[x])
      BY <1>1, <2>2
    <3>2. Apart(entry[x], linked)
      BY <3>1 DEF GInv, RetiredAreApart
    <3>3. None \notin FilesOf(entry[x])
      BY DEF FilesOf
    <3>4. Apart(entry[x], linked')
      BY <3>2, <3>3 DEF Apart
    <3> QED BY <3>1, <3>4
  <2> QED BY <1>1, <2>1, <2>2
<1>4. Disjoint'
  <2>1. Disjoint' <=> \A x, y \in Entry : x # y => FilesOf(entry'[x]) \cap FilesOf(entry'[y]) = {}
    BY DEF Disjoint, FilesOf
  <2>2. \A x, y \in Entry : x # y => FilesOf(entry[x]) \cap FilesOf(entry[y]) = {}
    BY DEF GInv, Disjoint
  <2>3. \A y \in Entry : y # e => FilesOf(n) \cap FilesOf(entry[y]) = {}
    BY <2>2
  <2> QED BY <1>1, <2>1, <2>2, <2>3
<1>5. Unlinked'
  <2>1. Unlinked' <=> \A x \in Entry : Current(entry'[x]) /\ linked' = None => Virgin(entry'[x])
    BY DEF Unlinked, Current, Virgin, Retired, Undone, In, Closing, Behind
  <2>2. \A x \in Entry : Current(entry[x]) /\ linked = None => Virgin(entry[x])
    BY DEF GInv, Unlinked
  <2> QED BY <1>1, <2>1, <2>2
<1>6. FailedAreDoomed'
  <2>1. FailedAreDoomed' <=> \A x \in Entry : FailedAre(entry'[x])
    BY DEF FailedAreDoomed, FailedAre, Opens
  <2> QED BY <1>1, <2>1 DEF GInv, FailedAreDoomed
<1> QED BY <1>2, <1>3, <1>4, <1>5, <1>6 DEF GInv

\* What these invariants say of the next state.
LEMMA IndexNext ==
  /\ IndexIsRight' <=>
       /\ index' => linked' # None \/ (active' # None /\ Creating(entry'[active']))
       /\ index' /\ (dooming' # NoDoom \/ Named(calls', "notify")) => active' # None
  /\ DoomedFiles' <=>
       (dooming' # NoDoom /\ linked' # None =>
          mass' = "posted" \/ \E f \in Entry : entry'[f].create = "normal" /\ Undone(entry'[f]))
<1>1. IndexIsRight' <=>
       /\ index' => linked' # None \/ (active' # None /\ Creating(entry'[active']))
       /\ index' /\ (dooming' # NoDoom \/ Named(calls', "notify")) => active' # None
  BY DEF IndexIsRight, Creating, CreateIn, In, Named, Creates
<1>2. DoomedFiles' <=>
       (dooming' # NoDoom /\ linked' # None =>
          mass' = "posted" \/ \E f \in Entry : entry'[f].create = "normal" /\ Undone(entry'[f]))
  BY DEF DoomedFiles, Undone, In
<1> QED BY <1>1, <1>2

\* GInv is kept by a step that changes no entry and unlinks no file in use.
LEMMA FilesNone ==
  ASSUME AInv, GInv, entry' = entry, linked' \in {linked, None},
         linked' = None /\ linked # None => \A f \in Entry : ~ Current(entry[f]),
         IndexIsRight', DoomedFiles'
  PROVE  GInv'
<1>1. PICK e \in Entry : e = 1
  BY SimpleCacheAssumption DEF Entry
<1>2. Changed(e, entry[e])
  BY DEF Changed, AInv, Typed
<1>3. /\ Current(entry[e]) => \A f \in Entry : f # e => ~ Current(entry[f])
      /\ Retired(entry[e]) => Apart(entry[e], linked)
      /\ Current(entry[e]) /\ linked = None => Virgin(entry[e])
      /\ FailedAre(entry[e])
  BY DEF GInv, Alone, RetiredAreApart, Unlinked, FailedAreDoomed
<1>4. Retired(entry[e]) => Apart(entry[e], linked')
  <2>1. None \notin FilesOf(entry[e])
    BY DEF FilesOf
  <2> QED BY <1>3, <2>1 DEF Apart
<1> QED BY <1>2, <1>3, <1>4, FilesAfter

\* A tame step keeps all.
LEMMA FilesSame ==
  ASSUME AInv, GInv, NEW e \in Entry, NEW n, Changed(e, n), Tame(entry[e], n, linked),
         ~ Free(e), linked' = linked, mass' = mass, dooming' = dooming,
         index' => index /\ active' = active,
         Named(calls', "notify") => Named(calls, "notify")
  PROVE  GInv'
<1> DEFINE r == entry[e]
<1>1. entry'[e] = n /\ \A x \in Entry : x # e => entry'[x] = entry[x]
  BY DEF Changed, AInv, Typed
<1>2. /\ Current(r) => \A f \in Entry : f # e => ~ Current(entry[f])
      /\ Retired(r) => Apart(r, linked)
      /\ Current(r) /\ linked = None => Virgin(r)
      /\ FailedAre(r)
  BY DEF GInv, Alone, RetiredAreApart, Unlinked, FailedAreDoomed
<1>3. /\ Current(n) => \A f \in Entry : f # e => ~ Current(entry[f])
      /\ Retired(n) => Apart(n, linked)
      /\ Current(n) /\ linked = None => Virgin(n)
      /\ FailedAre(n) /\ FilesOf(n) \subseteq FilesOf(r)
      /\ n.create = r.create /\ (Undone(n) <=> Undone(r))
  BY <1>2 DEF Tame
<1>4. IndexIsRight'
  <2>1. CASE ~ index'
    BY <2>1, IndexNext
  <2>2. CASE index'
    <3>1. index /\ active' = active
      BY <2>2
    <3>2. /\ linked # None \/ (active # None /\ Creating(entry[active]))
          /\ dooming # NoDoom \/ Named(calls, "notify") => active # None
      BY <3>1 DEF GInv, IndexIsRight
    <3>3. linked = None /\ active = e /\ Creating(r) => Creating(n)
      <4>1. active = e /\ r.create = "normal" => Current(r)
        BY EntryIs DEF Current, Retired, Free
      <4>2. Creating(r) /\ linked = None /\ (r.create = "normal" => Virgin(r)) => Creating(n)
        BY DEF Tame
      <4> QED BY <1>2, <4>1, <4>2
    <3>4. active = None \/ active \in Entry
      BY DEF AInv, Typed
    <3> QED BY <1>1, <3>1, <3>2, <3>3, <3>4, IndexNext
  <2> QED BY <2>1, <2>2
<1>5. DoomedFiles'
  <2>1. dooming # NoDoom /\ linked # None =>
          mass = "posted" \/ \E f \in Entry : entry[f].create = "normal" /\ Undone(entry[f])
    BY DEF GInv, DoomedFiles
  <2>2. \A f \in Entry : entry[f].create = "normal" /\ Undone(entry[f]) =>
                           entry'[f].create = "normal" /\ Undone(entry'[f])
    BY <1>1, <1>3
  <2> QED BY <2>1, <2>2, IndexNext
<1> QED BY <1>3, <1>4, <1>5, FilesAfter

\* While a doom is under way nobody works on the linked files but the doomed.
LEMMA NobodyCurrent ==
  ASSUME AInv, BInv, CInv, Ideal
  PROVE  /\ \A e \in Entry : Undone(entry[e]) /\ entry[e].create = "normal" => e \in Doomers
         /\ \A e \in Entry : Current(entry[e]) => active = e \/ e \in Doomers
         /\ dooming # NoDoom => \A e \in Entry : Current(entry[e]) => e \in Doomers
         /\ dooming = NoDoom => Doomers = {}
         /\ Doomers # {} => dooming # NoDoom /\ mass = "none"
         /\ mass # "none" => dooming # NoDoom /\ Doomers = {}
<1>1. \A e \in Entry : Undone(entry[e]) /\ entry[e].create = "normal" => e \in Doomers
  BY DEF Undone, Doomers, Dooms
<1>2. ASSUME NEW e \in Entry, Current(entry[e]), e \notin Doomers
      PROVE  active = e /\ entry[e].create = "normal"
  <2>1. ~ Undone(entry[e]) /\ entry[e].create = "normal" /\ ~ Free(e)
    BY <1>1, <1>2 DEF Current, Free
  <2>2. ~ entry[e].doomed
    BY <1>2, <2>1 DEF Current, Retired
  <2> QED BY <2>1, <2>2 DEF BInv, FoundOnly, Ideal
<1>3. dooming # NoDoom => active = None \/ entry[active].create # "normal"
  BY DEF BInv, FoundOnly, Ideal
<1>4. \A e \in Entry : e # None
  BY Constants
<1>5. dooming # NoDoom => \A e \in Entry : Current(entry[e]) => e \in Doomers
  BY <1>2, <1>3, <1>4
<1> QED BY <1>1, <1>2, <1>5 DEF CInv, NoDooms, OneDoom, Ideal

-----------------------------------------------------------------------------
\* Doom of an entry.
LEMMA DoomFiles ==
  ASSUME AInv, GInv, NEW e \in Entry, NEW rest, NEW n, DoomOneStep(e, rest, n),
         linked' = linked
  PROVE  GInv'
<1> DEFINE r == entry[e]
<1>1. /\ Changed(e, n) /\ DoomStep(r, n) /\ index' = FALSE /\ mass' = mass
      /\ dooming' = IF dooming = NoDoom /\ r.create = "normal" THEN <<>> ELSE dooming
  BY DEF DoomOneStep
<1>2. /\ n.state = r.state /\ n.doomed /\ ~ r.doomed /\ n.file = r.file /\ n.task = r.task
      /\ n.closing = r.closing /\ (\A x : In(n.pending, x) <=> In(r.pending, x) \/ x = "doom")
      /\ Behind(r.pending) => Behind(n.pending)
      /\ n.create = IF r.create = "normal" THEN "normal" ELSE "pending_then_doom"
  BY <1>1 DEF DoomStep, Pushed
<1>3. Undone(n)
  BY <1>2 DEF Undone
<1>4. ~ Retired(n) /\ ~ Retired(r)
  BY <1>2, <1>3 DEF Retired
<1>5. (Current(n) => Current(r)) /\ FilesOf(n) = FilesOf(r) /\ (Virgin(r) => Virgin(n))
  BY <1>2, <1>4 DEF Current, FilesOf, Virgin, Closing
<1>6. FailedAre(r) => FailedAre(n)
  BY <1>2 DEF FailedAre
<1>7. entry'[e] = n /\ \A x \in Entry : x # e => entry'[x] = entry[x]
  BY <1>1 DEF Changed, AInv, Typed
<1>8. IndexIsRight'
  BY <1>1, IndexNext
<1>9. DoomedFiles'
  <2>1. CASE r.create = "normal"
    BY <1>2, <1>3, <1>7, <2>1, IndexNext
  <2>2. CASE r.create # "normal"
    <3>1. dooming # NoDoom /\ linked # None =>
            mass = "posted" \/ \E f \in Entry : entry[f].create = "normal" /\ Undone(entry[f])
      BY DEF GInv, DoomedFiles
    <3>2. \A f \in Entry : entry[f].create = "normal" /\ Undone(entry[f]) =>
                             entry'[f].create = "normal" /\ Undone(entry'[f])
      BY <1>7, <2>2
    <3> QED BY <1>1, <2>2, <3>1, <3>2, IndexNext
  <2> QED BY <2>1, <2>2
<1>10. /\ Current(r) => \A f \in Entry : f # e => ~ Current(entry[f])
       /\ Current(r) /\ linked = None => Virgin(r)
       /\ FailedAre(r)
  BY DEF GInv, Alone, Unlinked, FailedAreDoomed
<1> QED BY <1>1, <1>4, <1>5, <1>6, <1>8, <1>9, <1>10, FilesAfter

\* The active entry is opened or created once more.
LEMMA UseActiveFiles ==
  ASSUME AInv, BInv, GInv, NEW rest, RestOK(rest), NEW n, NEW op,
         UseActiveStep(rest, n, op), linked' = linked
  PROVE  GInv'
<1> DEFINE e == active
           r == entry[active]
<1>1. /\ dooming = NoDoom /\ active # None /\ Changed(active, n)
      /\ UNCHANGED <<active, dooming, mass>> /\ Called(rest, Run(active), calls')
  BY DEF UseActiveStep
<1>2. active \in Entry /\ ~ r.doomed /\ r \in Records /\ Sound(r, Faults) /\ ~ Free(active)
  BY <1>1, ActiveIs
<1>3. /\ n.doomed = r.doomed /\ n.create = r.create /\ n.file = r.file
      /\ n.task = r.task /\ n.closing = r.closing
      /\ (\A x : In(n.pending, x) <=> In(r.pending, x) \/ x = op)
      /\ op \in Creates \cup {"open"} /\ n.state \in {r.state, "io"}
      /\ r.create = "normal" => n.state = r.state
      /\ Behind(r.pending) /\ (op = "open" => CreateIn(r.pending)) => Behind(n.pending)
      /\ op = "open" => index
  <2>1. CASE PushStep(r, n, op) /\ op = "open" /\ index
    BY <2>1 DEF PushStep, Pushed
  <2>2. CASE CreateStep(r, n, op)
    BY <2>2 DEF CreateStep, Pushed, Creates
  <2> QED BY <2>1, <2>2 DEF UseActiveStep
<1>4. ~ Retired(n) /\ ~ Retired(r) /\ (Current(n) => Current(r)) /\ FilesOf(n) = FilesOf(r)
  BY <1>2, <1>3 DEF Retired, Current, FilesOf, Free
<1>5. /\ Current(r) => \A f \in Entry : f # active => ~ Current(entry[f])
      /\ Current(r) /\ linked = None => Virgin(r)
      /\ FailedAre(r)
      /\ index => linked # None \/ Creating(r)
  BY <1>1, <1>2 DEF GInv, Alone, Unlinked, FailedAreDoomed, IndexIsRight
<1>6. Creating(r) \/ op \in Creates => Creating(n)
  BY <1>3 DEF Creating, CreateIn, Creates
<1>7. Current(n) /\ linked = None => Virgin(n)
  <2> SUFFICES ASSUME Current(n), linked = None PROVE Virgin(n)
    OBVIOUS
  <2>1. Virgin(r) /\ r.create = "normal"
    BY <1>3, <1>4, <1>5 DEF Current
  <2>2. op = "open" => Creating(r)
    BY <1>3, <1>5
  <2> QED BY <1>3, <2>1, <2>2 DEF Virgin, Closing, Creating
<1>8. FailedAre(n)
  BY <1>3, <1>5 DEF FailedAre
<1>9. entry'[active] = n /\ \A x \in Entry : x # active => entry'[x] = entry[x]
  BY <1>1, <1>2 DEF Changed, AInv, Typed
<1>10. IndexIsRight'
  <2>1. linked # None \/ Creating(n)
    BY <1>3, <1>5, <1>6
  <2> QED BY <1>1, <1>9, <2>1, IndexNext
<1>11. DoomedFiles'
  BY <1>1, IndexNext
<1> QED BY <1>1, <1>2, <1>4, <1>5, <1>7, <1>8, <1>10, <1>11, FilesAfter

\* A new entry.
LEMMA NewFiles ==
  ASSUME AInv, BInv, CInv, GInv, Ideal, NEW rest, RestOK(rest), NEW e \in Entry, NEW n, NEW op,
         op # "open_hash", NewOneStep(e, rest, n, op), linked' = linked
  PROVE  GInv'
<1>1. /\ Free(e) /\ Changed(e, n) /\ NewStep(n, op) /\ Called(rest, Run(e), calls')
      /\ UNCHANGED mass
  BY DEF NewOneStep
<1>2. /\ n.pending = <<op>> /\ op \in Operation /\ n.file = None /\ n.task.op = "none"
      /\ n.task.file = None /\ ~ n.task.done /\ n.closing.op = "none" /\ n.closing.file = None
      /\ (\A x : In(n.pending, x) <=> x = op)
  BY <1>1, NewSound, Constants DEF NewStep
<1>3. FilesOf(n) = {}
  BY <1>2 DEF FilesOf
<1>4. FailedAre(n) /\ (n.doomed => op = "doom")
  BY <1>1, <1>2 DEF FailedAre, NewStep
<1>5. ~ Retired(n)
  BY <1>2, <1>4 DEF Retired, Undone
<1>6. op # "open" /\ n.create = "normal" => Virgin(n)
  <2>1. op # "open" => Behind(n.pending)
    BY <1>2, SmallQueues
  <2>2. n.create = "normal" => n.state = "uninitialized"
    BY <1>1 DEF NewStep
  <2> QED BY <1>2, <2>1, <2>2 DEF Virgin, Closing, Creates
<1>7. entry'[e] = n /\ \A x \in Entry : x # e => entry'[x] = entry[x]
  BY <1>1 DEF Changed, AInv, Typed
<1>8. e # None
  BY Constants
<1>9. op \in Creates => Creating(n)
  BY <1>2 DEF Creating, CreateIn, Creates
<1>a. ~ Named(calls', "notify")
  BY <1>1, CalledRun DEF Unnamed
<1>10. CASE /\ dooming = NoDoom /\ active = None /\ UNCHANGED dooming /\ n.create = "normal"
            /\ \/ op = "open" /\ index /\ active' = e
               \/ op \in Creates /\ active' = e
  <2>1. \A f \in Entry : ~ Current(entry[f])
    BY <1>10, NobodyCurrent, Constants
  <2>2. op = "open" => linked # None
    BY <1>10 DEF GInv, IndexIsRight, Creates
  <2>3. IndexIsRight' /\ DoomedFiles'
    BY <1>7, <1>8, <1>9, <1>10, <2>2, IndexNext
  <2> QED BY <1>1, <1>3, <1>4, <1>5, <1>6, <1>10, <2>1, <2>2, <2>3, FilesAfter
<1>11. CASE /\ dooming = <<>> /\ op = "create_early" /\ n.create = "pending_doom"
            /\ active' = (IF active = None THEN e ELSE active)
  <2>1. ~ Current(n) /\ op \in Creates
    BY <1>11 DEF Current, Creates
  <2>2. active = None
    <3>1. active = None \/ (active \in Entry /\ entry[active].create # "normal")
      BY <1>11, SmallCalls DEF BInv, FoundOnly, Ideal, AInv, Typed
    <3>2. \A x \in Entry : entry[x].create # "normal" => Notifies(dooming, x) \/ Notifies(calls, x)
      BY DEF AInv, Notified
    <3> QED BY <1>11, <3>1, <3>2, EmptyNotifies DEF RestOK
  <2>3. IndexIsRight'
    BY <1>7, <1>8, <1>9, <1>11, <2>1, <2>2, IndexNext
  <2>4. DoomedFiles'
    <3>1. linked # None =>
            mass = "posted" \/ \E f \in Entry : entry[f].create = "normal" /\ Undone(entry[f])
      BY <1>11, SmallCalls DEF GInv, DoomedFiles
    <3>2. ~ Undone(entry[e])
      BY <1>1, EntryIs, SmallQueues DEF Undone, Busy
    <3>3. \A f \in Entry : entry[f].create = "normal" /\ Undone(entry[f]) =>
                             entry'[f].create = "normal" /\ Undone(entry'[f])
      BY <1>7, <3>2
    <3> QED BY <1>1, <3>1, <3>3, IndexNext
  <2> QED BY <1>1, <1>3, <1>4, <1>5, <2>1, <2>3, <2>4, FilesAfter
<1>12. CASE dooming = NoDoom /\ dooming' = <<>> /\ active = None /\ op = "doom" /\ index' = FALSE
  <2>1. \A f \in Entry : ~ Current(entry[f])
    BY <1>12, NobodyCurrent, Constants
  <2>2. Undone(n) /\ n.create = "normal"
    BY <1>1, <1>2, <1>12 DEF Undone, NewStep
  <2>3. IndexIsRight' /\ DoomedFiles'
    BY <1>7, <1>12, <2>2, IndexNext
  <2> QED BY <1>1, <1>3, <1>4, <1>5, <1>6, <1>12, <2>1, <2>2, <2>3, FilesAfter
<1> QED BY <1>10, <1>11, <1>12 DEF NewOneStep

\* GInv is kept by every call of the backend.
LEMMA BackendFiles ==
  ASSUME AInv, BInv, CInv, GInv, Ideal, NEW what, NEW rest, BackendCall(what, rest)
  PROVE  GInv'
<1>1. /\ Resting(what, rest) /\ RestOK(rest) /\ BackendStep(what, rest) /\ linked' = linked
  BY RestsOK DEF BackendCall
<1>2. ~ Named(rest, "notify") /\ (linked' = linked => linked' \in {linked, None})
  BY <1>1 DEF RestOK, Unnamed
<1>3. /\ index => linked # None \/ (active # None /\ Creating(entry[active]))
      /\ index /\ (dooming # NoDoom \/ Named(calls, "notify")) => active # None
      /\ dooming # NoDoom /\ linked # None =>
           mass = "posted" \/ \E f \in Entry : entry[f].create = "normal" /\ Undone(entry[f])
  BY DEF GInv, IndexIsRight, DoomedFiles
<1>4. CASE WaitStep(rest, what)
  <2>1. /\ UNCHANGED <<entry, active, mass>> /\ calls' = rest /\ dooming # NoDoom
        /\ index' = index \/ index' = FALSE
    BY <1>4 DEF WaitStep
  <2>2. IndexIsRight' /\ DoomedFiles'
    BY <1>1, <1>2, <1>3, <2>1, IndexNext
  <2> QED BY <1>1, <2>1, <2>2, FilesNone
<1>5. ASSUME NEW n, active # None, DoomOneStep(active, rest, n) PROVE GInv'
  BY <1>1, <1>5, ActiveIs, DoomFiles
<1>6. CASE MassStep(rest)
  <2>1. /\ UNCHANGED entry /\ index' = FALSE /\ mass' = "posted"
    BY <1>6 DEF MassStep
  <2>2. IndexIsRight' /\ DoomedFiles'
    BY <2>1, IndexNext
  <2> QED BY <1>1, <2>1, <2>2, FilesNone
<1>7. CASE NothingStep(rest)
  <2>1. /\ UNCHANGED <<entry, active, mass, dooming, index>> /\ ~ index
    BY <1>7 DEF NothingStep, backend
  <2>2. IndexIsRight' /\ DoomedFiles'
    BY <1>1, <1>3, <2>1, IndexNext
  <2> QED BY <1>1, <2>1, <2>2, FilesNone
<1>8. ASSUME NEW e \in Entry, NEW n, NEW op, op = "open_hash" => what = "open_hash",
             NewOneStep(e, rest, n, op)
      PROVE  GInv'
  <2>1. op # "open_hash"
    BY <1>1, <1>8, NotByHash DEF Ideal
  <2> QED BY <1>1, <1>8, <2>1, NewFiles
<1> QED BY <1>1, <1>4, <1>5, <1>6, <1>7, <1>8, UseActiveFiles DEF BackendStep

\* GInv is kept by OnDoomComplete.
LEMMA EndFiles ==
  ASSUME AInv, CInv, GInv, Ideal, EndStep
  PROVE  GInv'
<1>1. /\ calls # <<>> /\ Head(calls) = OnDoomComplete /\ dooming' = NoDoom
      /\ UNCHANGED <<entry, active, index, mass, linked>>
  BY DEF EndStep
<1>2. Named(calls, "doomed")
  <2>1. calls \in Seq(CallType)
    BY DEF AInv, Typed
  <2>2. 1 \in DOMAIN calls /\ Head(calls) = calls[1]
    BY <1>1, <2>1, HeadTailProperties, LenProperties, EmptySeq
  <2> QED BY <1>1, <2>2 DEF Named, OnDoomComplete
<1>3. dooming # NoDoom
  BY <1>2 DEF CInv, NoDooms, Ideal
<1>4. IndexIsRight' /\ DoomedFiles'
  BY <1>1, <1>3, IndexNext DEF GInv, IndexIsRight
<1> QED BY <1>1, <1>4, FilesNone

\* What is queued behind an optimistic create comes after it.
LEMMA EarlyIsBehind ==
  ASSUME NEW q \in Seq(Operation), q # <<>>, q[1] = "create_early"
  PROVE  Behind(q) /\ CreateIn(q)
<1>1. Len(q) \in Nat /\ DOMAIN q = 1 .. Len(q) /\ Len(q) # 0
  BY LenProperties, EmptySeq
<1>2. 1 \in DOMAIN q
  BY <1>1
<1>3. Behind(q)
  <2> SUFFICES ASSUME NEW i \in DOMAIN q, q[i] = "open"
               PROVE  \E j \in DOMAIN q : j < i /\ q[j] \in Creates
    BY DEF Behind
  <2>1. i # 1
    OBVIOUS
  <2>2. 1 < i
    BY <1>1, <2>1
  <2> QED BY <1>2, <2>2 DEF Creates
<1> QED BY <1>2, <1>3 DEF CreateIn, In

\* GInv is kept by NotifyDoomBeforeCreateComplete.
LEMMA NotifyFiles ==
  ASSUME AInv, BInv, CInv, GInv, Ideal, NEW e \in Entry, NEW n, NEW rest,
         NotifyOneStep(e, n, rest)
  PROVE  GInv'
<1> DEFINE r == entry[e]
<1>1. /\ calls # <<>> /\ Head(calls) = Waiter("notify", e) /\ Did(calls, Waiter("notify", e), rest)
      /\ Called(rest, Run(e), calls')
      /\ Changed(e, n) /\ NotifyStep(r, n) /\ dooming = NoDoom
      /\ dooming' = (IF r.create = "pending_then_doom" THEN <<>> ELSE dooming)
      /\ UNCHANGED <<active, index, mass, linked>>
  BY DEF NotifyOneStep
<1>2. r \in Records /\ Sound(r, Faults)
  BY EntryIs
<1>3. /\ n.state = "uninitialized" /\ n.create = "normal" /\ n.doomed = r.doomed
      /\ n.pending = r.pending /\ n.file = r.file /\ n.task = r.task /\ n.closing = r.closing
      /\ r.create # "normal"
  BY <1>1 DEF NotifyStep
<1>4. /\ ~ Busy(r) /\ ~ Closing(r) /\ r.file = None /\ r.task = NoTask /\ r.closing = NoTask
      /\ r.pending # <<>> /\ r.pending[1] = "create_early" /\ r.pending \in Seq(Operation)
      /\ r.doomed => In(r.pending, "doom")
      /\ r.create = "pending_then_doom" => r.doomed
  BY <1>2, <1>3, RecordOf DEF Sound, RInv, Early, Blank
<1>5. Behind(r.pending) /\ CreateIn(r.pending)
  BY <1>4, EarlyIsBehind
<1>6. Virgin(n) /\ Creating(n) /\ Creating(r)
  BY <1>3, <1>4, <1>5, Constants DEF Virgin, Closing, Creating, Creates
<1>7. FilesOf(n) = {} /\ ~ Retired(n) /\ FailedAre(n)
  BY <1>3, <1>4, Constants DEF FilesOf, Retired, Undone, FailedAre
<1>8. active \in {None, e} /\ Named(calls, "notify")
  <2>1. calls \in Seq(CallType)
    BY DEF AInv, Typed
  <2>2. 1 \in DOMAIN calls /\ Head(calls) = calls[1]
    BY <1>1, <2>1, HeadTailProperties, LenProperties, EmptySeq
  <2>3. Notifies(calls, e) /\ Named(calls, "notify")
    BY <1>1, <2>2 DEF Notifies, Named, Waiter
  <2> QED BY <2>3 DEF BInv, FoundOnly, Ideal
<1>9. \A f \in Entry : f # e => ~ Current(entry[f])
  BY <1>1, <1>8, NobodyCurrent, Constants
<1>10. entry'[e] = n /\ \A x \in Entry : x # e => entry'[x] = entry[x]
  BY <1>1 DEF Changed, AInv, Typed
<1>11. IndexIsRight'
  <2>1. /\ index => linked # None \/ (active # None /\ Creating(entry[active]))
        /\ index => active # None
    BY <1>8 DEF GInv, IndexIsRight
  <2> QED BY <1>1, <1>6, <1>8, <1>10, <2>1, IndexNext
<1>12. DoomedFiles'
  <2>1. r.create = "pending_then_doom" => n.create = "normal" /\ Undone(n)
    BY <1>3, <1>4 DEF Undone
  <2> QED BY <1>1, <1>10, <2>1, IndexNext
<1> QED BY <1>1, <1>6, <1>7, <1>9, <1>11, <1>12, FilesAfter

\* GInv is kept by RunNextOperationIfNeeded.
LEMMA ExecuteFiles ==
  ASSUME AInv, BInv, GInv, Ideal, NEW e \in Entry, NEW n, NEW op, ExecuteStep(e, n, op)
  PROVE  GInv'
<1> DEFINE r == entry[e]
<1>1. /\ Changed(e, n) /\ calls # <<>> /\ Head(calls) = Run(e)
      /\ UNCHANGED <<active, dooming, index, mass, linked>>
  BY DEF ExecuteStep, backend
<1>2. r \in Records /\ Sound(r, Faults) /\ ~ IsHash(r) /\ (Free(e) => r.pending = <<>>)
  BY EntryIs DEF BInv, FoundOnly, Ideal
<1>3. Named(calls', "notify") => Named(calls, "notify")
  BY DEF ExecuteStep, Did
<1>4. CASE n = r
  <2>1. entry' = entry
    BY <1>1, <1>4 DEF Changed, AInv, Typed
  <2>2. IndexIsRight' /\ DoomedFiles'
    BY <1>1, <1>3, <2>1, IndexNext DEF GInv, IndexIsRight, DoomedFiles
  <2> QED BY <1>1, <2>1, <2>2, FilesNone
<1>5. CASE n # r
  <2>1. Tame(r, n, linked)
    BY <1>2, <1>5, PostTame, AtOnceTame, ClosingTame DEF ExecuteStep
  <2>2. ~ Free(e)
    BY <1>2, <1>5 DEF ExecuteStep, PostStep, AtOnceStep, ClosingStep
  <2> QED BY <1>1, <1>3, <2>1, <2>2, FilesSame
<1> QED BY <1>4, <1>5

\* GInv is kept by the replies of the tasks.
LEMMA ReplyFiles ==
  ASSUME AInv, BInv, GInv, Ideal, NEW e \in Entry, NEW n,
         CreatedStep(e, n) \/ UsedOpStep(e, n) \/ ClosedReply(e, n) \/ DoomedReply(e, n)
  PROVE  GInv'
<1> DEFINE r == entry[e]
<1>1. /\ calls = <<>> /\ calls' \in {<<Run(e)>>, <<Run(e), OnDoomComplete>>} /\ Changed(e, n)
      /\ UNCHANGED <<dooming, mass, linked>>
      /\ index' => index /\ active' = active
  BY DEF CreatedStep, UsedOpStep, ClosedReply, DoomedReply, ReplyStep, MarkAsDoomed
<1>2. r \in Records /\ Sound(r, Faults) /\ ~ IsHash(r) /\ (Free(e) => ~ Busy(r) /\ ~ Closing(r))
  BY EntryIs DEF BInv, FoundOnly, Ideal
<1>3. ~ Named(calls', "notify")
  BY <1>1, ReplyCalls
<1>4. FailedAre(r)
  BY DEF GInv, FailedAreDoomed
<1>5. \/ OpenedStep(r, n) \/ NotOpenedStep(r, n) \/ UsedStep(r, n) \/ ClosedStep(r, n)
      \/ DoomedStep(r, n) /\ r.task.done
  BY DEF CreatedStep, UsedOpStep, ClosedReply, DoomedReply
<1>6. Tame(r, n, linked)
  BY <1>2, <1>4, <1>5, RepliedTame, ClosedTame, DoomedTame
<1>7. ~ Free(e)
  BY <1>2, <1>5 DEF OpenedStep, NotOpenedStep, UsedStep, ClosedStep, DoomedStep, Opening, Uses, Busy
<1> QED BY <1>1, <1>3, <1>6, <1>7, FilesSame

\* GInv is kept by the holders of an entry.
LEMMA UseFiles ==
  ASSUME AInv, GInv, NEW e \in Entry, NEW n, UseStep(e, n)
  PROVE  GInv'
<1> DEFINE r == entry[e]
<1>1. /\ calls = <<>> /\ Held(e) /\ Changed(e, n) /\ calls' \in {<<>>, <<Run(e)>>}
      /\ UNCHANGED <<active, dooming, index, mass, linked>>
  BY DEF UseStep, backend
<1>2. r \in Records /\ ~ Free(e)
  BY <1>1, HeldIs
<1>3. ~ Named(calls', "notify")
  BY <1>1, ReplyCalls
<1>4. Tame(r, n, linked)
  BY <1>2, PushTame, FewerTame DEF UseStep
<1> QED BY <1>1, <1>2, <1>3, <1>4, FilesSame

\* GInv is kept by the destructor.
LEMMA DestroyFiles ==
  ASSUME AInv, BInv, GInv, Ideal, NEW e \in Entry, DestroyStep(e)
  PROVE  GInv'
<1>1. /\ Unreferenced(e) /\ Changed(e, Unused)
      /\ active' = IF active = e THEN None ELSE active
      /\ UNCHANGED <<dooming, index, mass, calls, linked>>
  BY DEF DestroyStep
<1>2. /\ Unused.state = "unused" /\ ~ Unused.doomed /\ Unused.task.file = None /\ ~ Unused.task.done
      /\ Unused.file = None /\ Unused.closing.file = None
  BY UnusedIs, Constants
<1>3. ~ Current(Unused) /\ ~ Retired(Unused) /\ FilesOf(Unused) = {} /\ FailedAre(Unused)
  BY <1>2 DEF Current, Retired, FilesOf, FailedAre
<1>4. entry'[e] = Unused /\ \A x \in Entry : x # e => entry'[x] = entry[x]
  BY <1>1 DEF Changed, AInv, Typed
<1>5. /\ entry[e].pending = <<>> /\ ~ Busy(entry[e]) /\ Sound(entry[e], Faults)
  BY <1>1, EntryIs DEF Unreferenced, Referenced, Busy
<1>6. ~ Creating(entry[e]) /\ ~ Undone(entry[e]) /\ entry[e].create = "normal"
  BY <1>5, SmallQueues DEF Creating, CreateIn, Creates, Undone, Busy, Sound, RInv, Early
<1>7. active \in Entry \cup {None}
  BY DEF AInv, Typed
<1>8. dooming # NoDoom \/ Named(calls, "notify") => active # e
  <2>1. dooming # NoDoom => active = None \/ entry[active].create # "normal"
    BY DEF BInv, FoundOnly, Ideal
  <2>2. Named(calls, "notify") => \E x \in Entry : Notifies(calls, x)
    <3> SUFFICES ASSUME Named(calls, "notify") PROVE \E x \in Entry : Notifies(calls, x)
      OBVIOUS
    <3>1. PICK i \in DOMAIN calls : calls[i].call = "notify"
      BY DEF Named
    <3>2. i = 1 /\ calls \in Seq(CallType)
      BY <3>1 DEF AInv, Notified, NotifyFirst, Typed
    <3>3. calls[1] \in CallType /\ calls # <<>>
      BY <3>1, <3>2, LenProperties, ElementOfSeq
    <3> QED BY <3>1, <3>2, <3>3, CallTypes DEF Notifies
  <2>3. \A x \in Entry : Notifies(calls, x) => active \in {None, x} /\ entry[x].create # "normal"
    BY DEF BInv, FoundOnly, Ideal, AInv, Notified
  <2> QED BY <1>6, <2>1, <2>2, <2>3, Constants
<1>9. IndexIsRight'
  <2>1. /\ index => linked # None \/ (active # None /\ Creating(entry[active]))
        /\ index /\ (dooming # NoDoom \/ Named(calls, "notify")) => active # None
    BY DEF GInv, IndexIsRight
  <2> QED BY <1>1, <1>4, <1>6, <1>7, <1>8, <2>1, IndexNext
<1>10. DoomedFiles'
  <2>1. dooming # NoDoom /\ linked # None =>
          mass = "posted" \/ \E f \in Entry : entry[f].create = "normal" /\ Undone(entry[f])
    BY DEF GInv, DoomedFiles
  <2>2. \A f \in Entry : entry[f].create = "normal" /\ Undone(entry[f]) =>
                           entry'[f].create = "normal" /\ Undone(entry'[f])
    BY <1>4, <1>6
  <2> QED BY <1>1, <2>1, <2>2, IndexNext
<1> QED BY <1>1, <1>3, <1>9, <1>10, FilesAfter

\* The active entry while a doom is pending is one that waits to be created.
LEMMA PendingCreates ==
  ASSUME AInv, BInv, Ideal, dooming # NoDoom, active # None
  PROVE  Creating(entry[active])
<1>1. entry[active].create # "normal" /\ entry[active] \in Records /\ Sound(entry[active], Faults)
  BY ActiveIs DEF BInv, FoundOnly, Ideal
<1>2. /\ entry[active].pending # <<>> /\ entry[active].pending[1] = "create_early"
      /\ entry[active].pending \in Seq(Operation)
  BY <1>1, RecordOf DEF Sound, RInv, Early
<1> QED BY <1>2, EarlyIsBehind DEF Creating

\* GInv is kept by DoomEntrySet and DoomEntriesComplete.
LEMMA MassFiles ==
  ASSUME AInv, BInv, CInv, GInv, Ideal, MassReply \/ WorkMass
  PROVE  GInv'
<1>1. entry' = entry /\ UNCHANGED <<active, dooming, index>>
  BY DEF MassReply, WorkMass
<1>2. /\ index => linked # None \/ (active # None /\ Creating(entry[active]))
      /\ index /\ (dooming # NoDoom \/ Named(calls, "notify")) => active # None
      /\ dooming # NoDoom /\ linked # None =>
           mass = "posted" \/ \E f \in Entry : entry[f].create = "normal" /\ Undone(entry[f])
  BY DEF GInv, IndexIsRight, DoomedFiles
<1>3. CASE MassReply
  <2>1. mass = "done" /\ linked' = linked /\ calls' = <<OnDoomComplete>>
    BY <1>3 DEF MassReply
  <2>2. ~ Named(calls', "notify")
    <3>1. PICK e \in Entry : e = 1
      BY SimpleCacheAssumption DEF Entry
    <3> QED BY <2>1, <3>1, RunCalls
  <2>3. IndexIsRight' /\ DoomedFiles'
    BY <1>1, <1>2, <2>1, <2>2, IndexNext
  <2> QED BY <1>1, <2>1, <2>3, FilesNone
<1>4. CASE WorkMass
  <2>1. mass = "posted" /\ linked' = None /\ calls' = calls
    BY <1>4 DEF WorkMass
  <2>2. dooming # NoDoom /\ \A f \in Entry : ~ Current(entry[f])
    BY <2>1, NobodyCurrent
  <2>3. active # None => Creating(entry[active])
    BY <2>2, PendingCreates
  <2>4. IndexIsRight' /\ DoomedFiles'
    BY <1>1, <1>2, <2>1, <2>2, <2>3, IndexNext
  <2> QED BY <1>1, <2>1, <2>2, <2>4, FilesNone
<1> QED BY <1>3, <1>4

\* GInv is kept by the workers.
LEMMA WorkFiles ==
  ASSUME AInv, BInv, CInv, GInv, Ideal, NEW e \in Entry, NEW n, WorkOneStep(e, n)
  PROVE  GInv'
<1> DEFINE r == entry[e]
<1>1. Changed(e, n) /\ UNCHANGED <<active, dooming, index, mass, calls>>
  BY DEF WorkOneStep, backend
<1>2. r \in Records /\ Sound(r, Faults) /\ ~ IsHash(r) /\ (Free(e) => ~ Busy(r) /\ ~ Closing(r))
  BY EntryIs DEF BInv, FoundOnly, Ideal
<1>3. "io" \notin Faults
  BY DEF Ideal
<1>4. CASE WorkCloseStep(r, n) /\ linked' = linked
  <2>1. Tame(r, n, linked) /\ ~ Free(e)
    BY <1>2, <1>4, WorkCloseTame DEF WorkCloseStep
  <2> QED BY <1>1, <1>4, <2>1, FilesSame
<1>5. ASSUME WorkStep(r, n, Faults), Worked(r.task, n.task) PROVE GInv'
  <2>1. /\ Busy(r) /\ ~ r.task.done /\ n.task.op = r.task.op /\ n.task.done
        /\ n.state = r.state /\ n.create = r.create /\ n.doomed = r.doomed
        /\ n.pending = r.pending /\ n.file = r.file /\ n.closing = r.closing
    BY <1>5 DEF WorkStep
  <2>2. ~ Free(e) /\ r.create = "normal" /\ r.state # "unused"
    BY <1>2, <2>1, RecordOf DEF Sound, RInv, Early, Free
  <2>3. entry'[e] = n /\ \A x \in Entry : x # e => entry'[x] = entry[x]
    BY <1>1 DEF Changed, AInv, Typed
  <2>4. /\ Retired(r) => Apart(r, linked)
        /\ Current(r) /\ linked = None => Virgin(r)
        /\ Current(r) => \A f \in Entry : f # e => ~ Current(entry[f])
        /\ \A f \in Entry : Retired(entry[f]) => Apart(entry[f], linked)
    BY DEF GInv, Alone, RetiredAreApart, Unlinked
  <2>5. r.task.op \in Opens => Current(r) /\ ~ Retired(r)
    BY <2>2, <2>4 DEF Current, Apart
  <2>6. /\ index => linked # None \/ (active # None /\ Creating(entry[active]))
        /\ index /\ (dooming # NoDoom \/ Named(calls, "notify")) => active # None
        /\ dooming # NoDoom /\ linked # None =>
             mass = "posted" \/ \E f \in Entry : entry[f].create = "normal" /\ Undone(entry[f])
    BY DEF GInv, IndexIsRight, DoomedFiles
  <2>7. CASE /\ r.task.op = "open" /\ linked # None /\ n.task.result = "ok"
             /\ n.task.file = linked /\ linked' = linked
    <3>1. (Undone(n) <=> Undone(r)) /\ Current(r) /\ ~ Retired(r) /\ FailedAre(n)
      BY <2>1, <2>5, <2>7 DEF Undone, Opens, FailedAre
    <3>2. Current(n) /\ ~ Retired(n) /\ FilesOf(n) \subseteq FilesOf(r) \cup {linked}
      BY <2>1, <2>7, <3>1 DEF Current, Retired, FilesOf
    <3>3. \A f \in Entry : f # e => linked \notin FilesOf(entry[f])
      <4> SUFFICES ASSUME NEW f \in Entry, f # e PROVE linked \notin FilesOf(entry[f])
        OBVIOUS
      <4>1. ~ Current(entry[f])
        BY <2>4, <3>1
      <4>2. CASE Retired(entry[f])
        BY <2>4, <4>2 DEF Apart
      <4>3. CASE entry[f].state = "unused" \/ entry[f].create # "normal"
        <5>1. entry[f] \in Records /\ Sound(entry[f], Faults)
          BY EntryIs
        <5>2. /\ entry[f].file = None /\ entry[f].task.file = None
              /\ entry[f].closing.file = None
          <6>1. CASE entry[f].state = "unused"
            BY <5>1, <6>1, UnusedIs, Constants DEF Sound, RInv, Blank
          <6>2. CASE entry[f].create # "normal"
            BY <5>1, <6>2, Constants DEF Sound, RInv, Early, Blank
          <6> QED BY <4>3, <6>1, <6>2
        <5> QED BY <2>7, <5>2 DEF FilesOf
      <4> QED BY <4>1, <4>2, <4>3 DEF Current
    <3>4. IndexIsRight' /\ DoomedFiles'
      <4>1. \A f \in Entry : entry[f].create = "normal" /\ Undone(entry[f]) =>
                               entry'[f].create = "normal" /\ Undone(entry'[f])
        BY <2>1, <2>3, <3>1
      <4> QED BY <1>1, <2>6, <2>7, <4>1, IndexNext
    <3> QED BY <1>1, <2>4, <2>7, <3>1, <3>2, <3>3, <3>4, FilesAfter
  <2>8. CASE /\ r.task.op \in Creates /\ linked = None /\ n.task.result = "ok"
             /\ n.task.file = FreshFile /\ linked' = FreshFile
    <3>1. (Undone(n) <=> Undone(r)) /\ Current(r) /\ ~ Retired(r) /\ FailedAre(n)
      BY <2>1, <2>5, <2>8 DEF Undone, Opens, Creates, FailedAre
    <3>2. Current(n) /\ ~ Retired(n) /\ FilesOf(n) \subseteq FilesOf(r) \cup {FreshFile}
      BY <2>1, <2>8, <3>1 DEF Current, Retired, FilesOf
    <3>3. FreshFile # None /\ \A f \in Entry : FreshFile \notin FilesOf(entry[f])
      BY <2>8, FreshFileIs, Constants DEF FilesOf, AInv
    <3>4. IndexIsRight'
      BY <1>1, <2>6, <2>8, <3>3, IndexNext
    <3>5. DoomedFiles'
      <4>1. CASE dooming = NoDoom
        BY <1>1, <4>1, IndexNext
      <4>2. CASE dooming # NoDoom
        <5>1. e \in Doomers
          BY <3>1, <4>2, NobodyCurrent
        <5>2. In(r.pending, "doom")
          BY <2>8, <5>1 DEF Doomers, Dooms, Creates
        <5>3. n.create = "normal" /\ Undone(n)
          BY <2>1, <2>2, <5>2 DEF Undone
        <5> QED BY <2>3, <5>3, IndexNext
      <4> QED BY <4>1, <4>2
    <3> QED BY <1>1, <2>4, <2>8, <3>1, <3>2, <3>3, <3>4, <3>5, FilesAfter
  <2>9. CASE r.task.op = "doom" /\ n.task.result = "ok" /\ n.task.file = r.task.file /\ linked' = None
    <3>1. /\ r.doomed /\ ~ In(r.pending, "doom") /\ ~ OpenIn(r.pending)
      BY <1>2, <2>9 DEF Sound, RInv, DoomedOnce
    <3>2. Undone(r) /\ ~ Undone(n)
      BY <2>1, <2>9, <3>1 DEF Undone
    <3>3. Current(r) /\ ~ Current(n) /\ Retired(n) /\ FilesOf(n) = FilesOf(r) /\ FailedAre(n)
      BY <2>1, <2>2, <2>9, <3>1, <3>2 DEF Current, Retired, FilesOf, FailedAre
    <3>4. Apart(n, linked')
      BY <2>1, <2>9, <3>1 DEF Apart, FilesOf, Opens
    <3>5. dooming # NoDoom
      BY <2>2, <3>2, NobodyCurrent
    <3>6. index => active # None /\ Creating(entry[active])
      BY <2>6, <3>5, PendingCreates
    <3>7. active # e /\ active \in Entry \cup {None}
      BY <3>1, EntryIs DEF AInv, Typed
    <3>8. IndexIsRight' /\ DoomedFiles'
      BY <1>1, <2>3, <2>9, <3>6, <3>7, IndexNext
    <3> QED BY <1>1, <2>4, <2>9, <3>3, <3>4, <3>8, FilesAfter
  <2>10. CASE \/ /\ r.task.op \in Creates /\ linked # None /\ n.task.result = "exists"
                 /\ n.task.file = None /\ linked' = linked
              \/ /\ r.task.op \in Uses /\ n.task.result = "ok"
                 /\ n.task.file = r.task.file /\ linked' = linked
              \/ /\ r.task.op = "write_omitted" /\ r.task.doomed /\ n.task.result = "failed"
                 /\ n.task.file = r.task.file /\ linked' = linked
    <3>1. r.task.op # "doom" /\ (linked = None => r.task.op \notin Creates)
      BY <2>10 DEF Creates, Uses
    <3>2. FailedAre(n)
      <4>1. r.task.doomed => r.doomed
        BY <1>2 DEF Sound, RInv, Tasks
      <4> QED BY <2>1, <2>10, <4>1 DEF FailedAre, Opens
    <3>3. Tame(r, n, linked)
      BY <1>2, <1>5, <2>10, <3>1, <3>2, WorkTame
    <3> QED BY <1>1, <2>2, <2>10, <3>3, FilesSame
  <2>11. CASE r.task.op = "open" /\ linked = None
    <3>1. Virgin(r)
      BY <2>4, <2>5, <2>11 DEF Opens
    <3> QED BY <2>11, <3>1 DEF Virgin
  <2>12. r.task.op # "open_hash"
    BY <1>2 DEF IsHash
  <2> QED BY <1>3, <1>5, <2>7, <2>8, <2>9, <2>10, <2>11, <2>12 DEF Worked
<1> QED BY <1>3, <1>4, <1>5 DEF WorkOneStep

\* GInv is kept by every step.
LEMMA StepKeepsG ==
  ASSUME AInv, BInv, CInv, GInv, Ideal, Step
  PROVE  GInv'
<1>1. ASSUME NEW e \in Entry, NEW n, DoomCall(e, n) PROVE GInv'
  BY <1>1, DoomFiles DEF DoomCall
<1>2. ASSUME NEW e \in Entry, AdoptStep(e) \/ \E n, m : InsteadStep(e, n, m) PROVE GInv'
  <2>1. e \in opened
    BY <1>2 DEF AdoptStep, InsteadStep
  <2> QED BY <2>1 DEF BInv, FoundOnly, Ideal
<1>3. ASSUME NEW e \in Entry, EntryStep(e) PROVE GInv'
  BY <1>1, <1>2, <1>3, ExecuteFiles, NotifyFiles, ReplyFiles, WorkFiles, UseFiles,
     DestroyFiles DEF EntryStep
<1> QED BY <1>3, BackendFiles, EndFiles, MassFiles DEF Step

\* No step changes the scenario.
LEMMA StepScenario ==
  ASSUME AInv, Step
  PROVE  SameScenario
<1>1. ASSUME NEW e \in Entry, EntryStep(e) PROVE SameScenario
  BY <1>1, SameClients DEF EntryStep, ExecuteStep, NotifyOneStep, InsteadStep, CreatedStep,
       UsedOpStep, ReplyStep, ClosedReply, DoomedReply, WorkOneStep, UseStep, DoomCall, AdoptStep,
       DestroyStep
<1> QED BY <1>1, SameClients DEF Step, BackendCall, EndStep, MassReply, WorkMass

\* FInv is kept by every step.
LEMMA StepKeepsF ==
  ASSUME AInv, BInv, CInv, FInv, Step
  PROVE  FInv'
<1>1. Ideal' <=> Ideal
  BY StepScenario, SameSwitches DEF Ideal
<1> QED BY <1>1, StepKeepsG DEF FInv

\* FInv holds at first.
LEMMA InitF ==
  ASSUME Init
  PROVE  FInv
<1>1. /\ entry = [e \in Entry |-> Unused] /\ dooming = NoDoom /\ calls = <<>>
      /\ index = (linked # None)
  BY DEF Init
<1>2. /\ Unused.state = "unused" /\ ~ Unused.doomed /\ Unused.task.file = None /\ ~ Unused.task.done
      /\ Unused.file = None /\ Unused.closing.file = None
  BY UnusedIs, Constants
<1>3. ~ Current(Unused) /\ ~ Retired(Unused) /\ FilesOf(Unused) = {} /\ FailedAre(Unused)
  BY <1>2 DEF Current, Retired, FilesOf, FailedAre
<1>4. \A e \in Entry : entry[e] = Unused
  BY <1>1
<1>5. Alone /\ RetiredAreApart /\ Disjoint /\ Unlinked /\ FailedAreDoomed
  BY <1>3, <1>4 DEF Alone, RetiredAreApart, Disjoint, Unlinked, FailedAreDoomed
<1>6. IndexIsRight /\ DoomedFiles
  BY <1>1, SmallCalls DEF IndexIsRight, DoomedFiles
<1> QED BY <1>5, <1>6 DEF FInv, GInv

\* FInv is kept when nothing changes.
LEMMA StutterF ==
  ASSUME AInv, FInv, UNCHANGED vars
  PROVE  FInv'
<1>1. UNCHANGED <<entry, active, dooming, index, mass, calls, linked, clients>>
  BY DEF vars, backend
<1>2. Ideal' <=> Ideal
  BY <1>1 DEF Ideal, Faults, Iterate
<1>3. GInv => IndexIsRight' /\ DoomedFiles'
  BY <1>1, IndexNext DEF GInv, IndexIsRight, DoomedFiles
<1>4. GInv => GInv'
  BY <1>1, <1>3, FilesNone
<1> QED BY <1>2, <1>4 DEF FInv

\* The fourth layer: FInv always holds.
LEMMA FilesInvariant == Spec => [](AInv /\ BInv /\ CInv /\ FInv)
<1>1. AInv /\ BInv /\ CInv /\ FInv /\ [Next]_vars => FInv'
  BY NextIsStep, StepKeepsF, StutterF
<1> QED BY <1>1, InitF, DoomInvariant, PTL DEF Spec

-----------------------------------------------------------------------------
\* The files that the index knows.

\* What Indexed says of the next state.
LEMMA IndexedNext ==
  Indexed' <=>
    /\ linked' # None /\ dooming' = NoDoom =>
         index' \/ Named(calls', "doom_hash") \/ Named(dooming', "doom_hash")
    /\ \A e \in Entry : ~ entry'[e].doomed /\ Creating(entry'[e]) =>
         index' \/ Named(calls', "doom_hash") \/ Named(dooming', "doom_hash")
BY DEF Indexed, HashWaits, Creating, CreateIn, In, Named, Creates

\* An entry of which no creation is new.
LEMMA IndexedSame ==
  ASSUME AInv, Indexed, NEW e \in Entry, NEW n, Changed(e, n),
         ~ n.doomed /\ Creating(n) => ~ entry[e].doomed /\ Creating(entry[e]),
         linked' \in {linked, None}, dooming' = dooming, index' = index,
         Named(calls, "doom_hash") => Named(calls', "doom_hash")
  PROVE  Indexed'
<1>1. entry'[e] = n /\ \A x \in Entry : x # e => entry'[x] = entry[x]
  BY DEF Changed, AInv, Typed
<1> QED BY <1>1, IndexedNext DEF Indexed, HashWaits

\* Indexed is kept by a step that changes no entry.
LEMMA IndexedNone ==
  ASSUME AInv, Indexed, entry' = entry,
         linked' \in {linked, None}, dooming' = dooming, index' = index,
         Named(calls, "doom_hash") => Named(calls', "doom_hash")
  PROVE  Indexed'
BY IndexedNext DEF Indexed, HashWaits

\* Every entry of which a creation is queued is doomed, or the active one.
LEMMA NoneIsCreated ==
  ASSUME AInv, BInv, ~ Iterate, NEW e \in Entry, ~ entry[e].doomed, Creating(entry[e])
  PROVE  active = e
<1>1. ~ Free(e)
  BY EntryIs, SmallQueues DEF Creating, CreateIn, Creates, Busy
<1> QED BY <1>1 DEF BInv, FoundOnly

\* Indexed is kept by DoomEntry.
LEMMA DoomIndexed ==
  ASSUME AInv, BInv, ~ Iterate, NEW e \in Entry, NEW rest, RestOK(rest), NEW n,
         DoomOneStep(e, rest, n), active = e
  PROVE  Indexed'
<1>1. /\ Changed(e, n) /\ DoomStep(entry[e], n)
      /\ dooming' = IF dooming = NoDoom /\ entry[e].create = "normal" THEN <<>> ELSE dooming
  BY DEF DoomOneStep
<1>2. n.doomed
  BY <1>1 DEF DoomStep
<1>3. entry'[e] = n /\ \A x \in Entry : x # e => entry'[x] = entry[x]
  BY <1>1 DEF Changed, AInv, Typed
<1>4. \A x \in Entry : ~ (~ entry'[x].doomed /\ Creating(entry'[x]))
  BY <1>2, <1>3, NoneIsCreated
<1>5. dooming' # NoDoom
  <2>1. dooming = NoDoom => entry[e].create = "normal"
    BY NoDoomNotifies DEF AInv, Notified, RestOK
  <2> QED BY <1>1, <2>1, SmallCalls
<1> QED BY <1>4, <1>5, IndexedNext

\* Indexed is kept by every call of the backend.
LEMMA BackendIndexed ==
  ASSUME AInv, BInv, CInv, Indexed, ~ Iterate, NEW what, NEW rest, BackendCall(what, rest)
  PROVE  Indexed'
<1>1. /\ Resting(what, rest) /\ RestOK(rest) /\ BackendStep(what, rest) /\ linked' = linked
  BY RestsOK DEF BackendCall
<1>2. /\ \A x : Named(rest, x) => Named(calls, x)
      /\ \A x : Named(calls, x) /\ ~ Named(rest, x) => x = what
  BY <1>1, RestIs
<1>3. \A x \in Entry : x # None
  BY Constants
<1>4. CASE WaitStep(rest, what)
  <2>1. /\ entry' = entry /\ calls' = rest /\ dooming # NoDoom /\ dooming' \in Seq(WaiterType)
        /\ index' = index \/ (index' = FALSE /\ what = "doom_hash")
        /\ \A x : Named(dooming', x) <=> Named(dooming, x) \/ x = what
    BY <1>4 DEF WaitStep, Waited, Waiter
  <2>2. dooming' # NoDoom
    BY <2>1, SmallCalls
  <2>3. index \/ HashWaits =>
          index' \/ Named(calls', "doom_hash") \/ Named(dooming', "doom_hash")
    BY <1>2, <2>1 DEF HashWaits
  <2> QED BY <2>1, <2>2, <2>3, IndexedNext DEF Indexed
<1>5. ASSUME NEW n, active # None, DoomOneStep(active, rest, n) PROVE Indexed'
  BY <1>1, <1>5, ActiveIs, DoomIndexed
<1>6. CASE MassStep(rest)
  <2>1. /\ entry' = entry /\ active = None /\ dooming' = <<>>
    BY <1>6 DEF MassStep
  <2>2. \A x \in Entry : ~ (~ entry'[x].doomed /\ Creating(entry'[x]))
    BY <1>3, <2>1, NoneIsCreated
  <2> QED BY <2>1, <2>2, IndexedNext, SmallCalls
<1>7. CASE NothingStep(rest) /\ what # "doom_hash"
  <2>1. /\ entry' = entry /\ UNCHANGED <<dooming, index>> /\ calls' = rest
    BY <1>7 DEF NothingStep, backend
  <2> QED BY <1>1, <1>2, <1>7, <2>1, IndexedNone
<1>8. ASSUME NEW n, NEW op, UseActiveStep(rest, n, op) PROVE Indexed'
  <2>1. index'
    BY <1>8 DEF UseActiveStep
  <2> QED BY <2>1, IndexedNext
<1>9. ASSUME NEW e \in Entry, NEW n, NEW op, op # "open_hash", NewOneStep(e, rest, n, op)
      PROVE  Indexed'
  <2>1. CASE index'
    BY <2>1, IndexedNext
  <2>2. CASE op = "doom" /\ dooming' = <<>> /\ active = None
    <3>1. n.doomed /\ Changed(e, n)
      BY <1>9, <2>2 DEF NewOneStep, NewStep
    <3>2. entry'[e] = n /\ \A x \in Entry : x # e => entry'[x] = entry[x]
      BY <3>1 DEF Changed, AInv, Typed
    <3>3. \A x \in Entry : ~ (~ entry'[x].doomed /\ Creating(entry'[x]))
      BY <1>3, <2>2, <3>1, <3>2, NoneIsCreated
    <3> QED BY <2>2, <3>3, IndexedNext, SmallCalls
  <2> QED BY <1>9, <2>1, <2>2 DEF NewOneStep
<1>10. what # "open_hash"
  BY <1>1, NotByHash
<1> QED BY <1>1, <1>4, <1>5, <1>6, <1>7, <1>8, <1>9, <1>10 DEF BackendStep

\* Indexed is kept by OnDoomComplete: the doom left no file.
LEMMA EndIndexed ==
  ASSUME AInv, CInv, GInv, Indexed, ~ Iterate, EndStep
  PROVE  Indexed'
<1>1. /\ calls # <<>> /\ Head(calls) = OnDoomComplete
      /\ dooming' = NoDoom /\ calls' = IF dooming = NoDoom THEN <<>> ELSE dooming
      /\ UNCHANGED <<entry, index, mass, linked>>
  BY DEF EndStep
<1>2. calls \in Seq(CallType) /\ EndLast(calls)
  BY DEF AInv, Typed
<1>3. OnDoomComplete.call = "doomed" /\ Did(calls, OnDoomComplete, Tail(calls))
  BY <1>1, <1>2, CallDone DEF OnDoomComplete
<1>4. Tail(calls) = <<>>
  BY <1>2, <1>3 DEF Did
<1>5. \A x : Named(calls, x) <=> x = "doomed"
  BY <1>3, <1>4, SmallCalls DEF Did
<1>6. dooming # NoDoom /\ Doomers = {} /\ mass = "none"
  BY <1>5 DEF CInv, NoDooms, OneDoom
<1>7. linked = None
  <2>1. \A e \in Entry : entry[e].create = "normal" /\ Undone(entry[e]) => e \in Doomers
    BY DEF Doomers, Dooms, Undone
  <2> QED BY <1>6, <2>1 DEF GInv, DoomedFiles
<1> QED BY <1>1, <1>5, <1>6, <1>7, IndexedNext DEF Indexed, HashWaits

\* Indexed is kept by NotifyDoomBeforeCreateComplete.
LEMMA NotifyIndexed ==
  ASSUME AInv, Indexed, NEW e \in Entry, NEW n, NEW rest, NotifyOneStep(e, n, rest)
  PROVE  Indexed'
<1>1. /\ Did(calls, Waiter("notify", e), rest) /\ Called(rest, Run(e), calls')
      /\ Changed(e, n) /\ NotifyStep(entry[e], n) /\ dooming = NoDoom
      /\ UNCHANGED <<index, linked>>
  BY DEF NotifyOneStep
<1>2. Creating(n) <=> Creating(entry[e])
  BY <1>1 DEF NotifyStep, Creating
<1>3. n.doomed = entry[e].doomed
  BY <1>1 DEF NotifyStep
<1>4. Waiter("notify", e).call = "notify" /\ Run(e).call = "run"
  BY DEF Waiter, Run
<1>5. Named(calls, "doom_hash") => Named(calls', "doom_hash")
  BY <1>1, <1>4 DEF Did, Called
<1>6. ~ Named(dooming, "doom_hash")
  BY <1>1, SmallCalls
<1>7. entry'[e] = n /\ \A x \in Entry : x # e => entry'[x] = entry[x]
  BY <1>1 DEF Changed, AInv, Typed
<1> QED BY <1>1, <1>2, <1>3, <1>5, <1>6, <1>7, IndexedNext DEF Indexed, HashWaits

\* Indexed is kept by RunNextOperationIfNeeded.
LEMMA ExecuteIndexed ==
  ASSUME AInv, Indexed, NEW e \in Entry, NEW n, NEW op, ExecuteStep(e, n, op)
  PROVE  Indexed'
<1> DEFINE r == entry[e]
<1>1. Changed(e, n) /\ UNCHANGED <<dooming, index, linked>>
  BY DEF ExecuteStep, backend
<1>2. Run(e).call = "run"
  BY DEF Run
<1>3. Named(calls, "doom_hash") => Named(calls', "doom_hash")
  BY <1>2 DEF ExecuteStep, Did
<1>4. n.doomed = r.doomed
  BY DEF ExecuteStep, PostStep, AtOnceStep, ClosingStep
<1>5. Creating(n) => Creating(r)
  <2>1. CASE PostStep(r, n, op)
    BY <2>1 DEF PostStep, Popped, Creating, CreateIn, Creates
  <2>2. CASE AtOnceStep(r, n, op)
    BY <2>2 DEF AtOnceStep, Popped, Creating, CreateIn
  <2>3. CASE ClosingStep(r, n)
    BY <2>3 DEF ClosingStep, Popped, Creating, CreateIn
  <2> QED BY <2>1, <2>2, <2>3 DEF ExecuteStep
<1> QED BY <1>1, <1>3, <1>4, <1>5, IndexedSame

\* Indexed is kept by the replies of the tasks.
LEMMA ReplyIndexed ==
  ASSUME AInv, BInv, GInv, Indexed, Faults = {}, ~ Iterate, NEW e \in Entry, NEW n,
         CreatedStep(e, n) \/ UsedOpStep(e, n) \/ ClosedReply(e, n) \/ DoomedReply(e, n)
  PROVE  Indexed'
<1> DEFINE r == entry[e]
<1>1. calls = <<>> /\ Changed(e, n) /\ UNCHANGED <<dooming, linked>>
  BY DEF CreatedStep, UsedOpStep, ClosedReply, DoomedReply, ReplyStep
<1>2. \/ OpenedStep(r, n) \/ NotOpenedStep(r, n) \/ UsedStep(r, n) \/ ClosedStep(r, n)
      \/ DoomedStep(r, n)
  BY DEF CreatedStep, UsedOpStep, ClosedReply, DoomedReply
<1>3. Creating(n) => Creating(r)
  BY <1>2, Constants DEF OpenedStep, NotOpenedStep, UsedStep, ClosedStep, DoomedStep, Creating, Creates
<1>4. r.doomed => n.doomed
  BY <1>2 DEF OpenedStep, NotOpenedStep, UsedStep, ClosedStep, DoomedStep
<1>5. index' = index
  <2>1. Sound(r, Faults) /\ FailedAre(r) /\ ~ IsHash(r)
    BY EntryIs DEF GInv, FailedAreDoomed, BInv, FoundOnly
  <2>2. CASE CreatedStep(e, n) /\ r.task.result = "failed" /\ NotOpenedStep(r, n)
    BY <2>1, <2>2 DEF FailedAre, NotOpenedStep, IsHash, Opening, Opens
  <2>3. CASE UsedOpStep(e, n) /\ r.task.result = "failed" /\ UsedStep(r, n)
    BY <2>1, <2>3 DEF Sound, Calm, UsedStep
  <2> QED BY <2>2, <2>3 DEF CreatedStep, UsedOpStep, ClosedReply, DoomedReply
<1>6. ~ Named(calls, "doom_hash")
  BY <1>1, SmallCalls
<1> QED BY <1>1, <1>3, <1>4, <1>5, <1>6, IndexedSame

\* Indexed is kept by the holders of an entry.
LEMMA UseIndexed ==
  ASSUME AInv, Indexed, NEW e \in Entry, NEW n, UseStep(e, n)
  PROVE  Indexed'
<1> DEFINE r == entry[e]
<1>1. calls = <<>> /\ Changed(e, n) /\ UNCHANGED <<dooming, index, linked>>
  BY DEF UseStep, backend
<1>2. n.doomed = r.doomed /\ (Creating(n) => Creating(r))
  <2>1. ASSUME NEW op, PushStep(r, n, op) PROVE n.doomed = r.doomed /\ (Creating(n) => Creating(r))
    BY <2>1 DEF PushStep, Pushed, Creating, CreateIn
  <2>2. CASE FewerStep(r, n)
    BY <2>2 DEF FewerStep, Creating
  <2> QED BY <2>1, <2>2 DEF UseStep
<1> QED BY <1>1, <1>2, SmallCalls, IndexedSame

\* Indexed is kept by the workers.
LEMMA WorkIndexed ==
  ASSUME AInv, BInv, CInv, GInv, Indexed, Faults = {}, ~ Iterate, NEW e \in Entry, NEW n,
         WorkOneStep(e, n)
  PROVE  Indexed'
<1> DEFINE r == entry[e]
<1>1. Changed(e, n) /\ UNCHANGED <<dooming, index, calls>>
  BY DEF WorkOneStep, backend
<1>2. n.doomed = r.doomed /\ (Creating(n) => Creating(r))
  BY DEF WorkOneStep, WorkStep, WorkCloseStep, Creating
<1>3. CASE linked' \in {linked, None}
  BY <1>1, <1>2, <1>3, IndexedSame
<1>4. CASE r.task.op \in Creates /\ linked' \notin {linked, None}
  <2>1. r.create = "normal" /\ r.state # "unused"
    BY <1>4, EntryIs DEF Sound, RInv, Early, Busy, Creates, Free
  <2>2. Current(r)
    BY <1>4, <2>1 DEF GInv, RetiredAreApart, Apart, Current, Opens, Creates
  <2>3. dooming = NoDoom => index \/ HashWaits
    <3>1. dooming = NoDoom => ~ Undone(r)
      BY <2>1, NobodyCurrent DEF Ideal
    <3>2. dooming = NoDoom => ~ r.doomed
      BY <2>2, <3>1 DEF Current, Retired
    <3> QED BY <1>4, <3>2 DEF Indexed, Creating
  <2>4. entry'[e] = n /\ \A x \in Entry : x # e => entry'[x] = entry[x]
    BY <1>1 DEF Changed, AInv, Typed
  <2> QED BY <1>1, <1>2, <2>3, <2>4, IndexedNext DEF Indexed, HashWaits
<1>5. linked' \in {linked, None} \/ r.task.op \in Creates
  BY DEF WorkOneStep, Worked
<1> QED BY <1>3, <1>4, <1>5

\* Indexed is kept by the destructor.
LEMMA DestroyIndexed ==
  ASSUME AInv, Indexed, NEW e \in Entry, DestroyStep(e)
  PROVE  Indexed'
<1>1. Changed(e, Unused) /\ UNCHANGED <<dooming, index, calls, linked>>
  BY DEF DestroyStep
<1>2. ~ Creating(Unused)
  BY UnusedIs, SmallQueues, Constants DEF Creating, CreateIn, Creates
<1> QED BY <1>1, <1>2, IndexedSame

\* Indexed is kept by every step.
LEMMA StepKeepsIndexed ==
  ASSUME AInv, BInv, CInv, GInv, Indexed, Faults = {}, ~ Iterate, Step
  PROVE  Indexed'
<1>1. ASSUME NEW e \in Entry, NEW n, DoomCall(e, n) PROVE Indexed'
  <2>1. /\ calls = <<>> /\ Held(e) /\ DoomOneStep(e, <<>>, n)
    BY <1>1 DEF DoomCall
  <2>2. active = e
    BY <2>1, HeldIs DEF BInv, FoundOnly, DoomOneStep, DoomStep
  <2> QED BY <2>1, <2>2, RestsOK, DoomIndexed
<1>2. ASSUME NEW e \in Entry, AdoptStep(e) \/ \E n, m : InsteadStep(e, n, m) PROVE Indexed'
  <2>1. e \in opened
    BY <1>2 DEF AdoptStep, InsteadStep
  <2> QED BY <2>1 DEF BInv, FoundOnly
<1>3. ASSUME NEW e \in Entry, EntryStep(e) PROVE Indexed'
  BY <1>1, <1>2, <1>3, ExecuteIndexed, NotifyIndexed, ReplyIndexed, WorkIndexed, UseIndexed,
     DestroyIndexed DEF EntryStep
<1>4. CASE MassReply
  <2>1. calls = <<>> /\ entry' = entry /\ UNCHANGED <<dooming, index, linked>>
    BY <1>4 DEF MassReply
  <2> QED BY <2>1, SmallCalls, IndexedNone
<1>5. CASE WorkMass
  <2>1. entry' = entry /\ UNCHANGED <<dooming, index, calls>> /\ linked' = None
    BY <1>5 DEF WorkMass
  <2> QED BY <2>1, IndexedNone
<1> QED BY <1>3, <1>4, <1>5, BackendIndexed, EndIndexed DEF Step

\* The fourth layer, and the index with it.
LEMMA IndexInvariant == Spec => [](AInv /\ BInv /\ CInv /\ FInv /\ LInv)
<1>1. Init => LInv
  <2> SUFFICES ASSUME Init PROVE Indexed
    BY DEF LInv
  <2>1. entry = [e \in Entry |-> Unused] /\ index = (linked # None)
    BY DEF Init
  <2>2. \A e \in Entry : ~ Creating(entry[e])
    BY <2>1, UnusedIs, SmallQueues, Constants DEF Creating, CreateIn, Creates
  <2> QED BY <2>1, <2>2 DEF Indexed
<1>2. AInv /\ BInv /\ CInv /\ FInv /\ LInv /\ [Next]_vars => LInv'
  <2> SUFFICES ASSUME AInv, BInv, CInv, FInv, LInv, [Next]_vars PROVE LInv'
    OBVIOUS
  <2>1. CASE Next
    <3>1. Step
      BY <2>1, NextIsStep
    <3>2. Faults' = Faults /\ Iterate' = Iterate
      BY <3>1, StepScenario, SameSwitches
    <3>3. Faults = {} /\ ~ Iterate => GInv /\ Indexed
      BY DEF FInv, Ideal, LInv
    <3> QED BY <3>1, <3>2, <3>3, StepKeepsIndexed DEF LInv
  <2>2. CASE UNCHANGED vars
    <3>1. UNCHANGED <<entry, dooming, index, calls, linked, clients>>
      BY <2>2 DEF vars, backend
    <3>2. Faults' = Faults /\ Iterate' = Iterate
      BY <3>1 DEF Faults, Iterate
    <3>3. Indexed => Indexed'
      BY <3>1, IndexedNone
    <3> QED BY <3>2, <3>3 DEF LInv
  <2> QED BY <2>1, <2>2
<1> QED BY <1>1, <1>2, FilesInvariant, PTL DEF Spec

\* No two entries of a hash work on the same file, one that was doomed and its
\* successor of the same name among them, if no create fails and nobody iterates;
\* and when nothing is under way the index knows the files there are, as
\* SimpleEntryImpl::CreateEntry promises, if nothing fails.
THEOREM SafeFiles == Spec => []FilesAreSafe
<1>1. FInv => FilesAreNotShared
  <2> SUFFICES ASSUME FInv, "io" \notin Faults, ~ Iterate, NEW e \in Entry, NEW f \in Entry, e # f
               PROVE  Files(e) \cap Files(f) = {}
    BY DEF FilesAreNotShared
  <2>1. FilesOf(entry[e]) \cap FilesOf(entry[f]) = {}
    BY DEF FInv, Ideal, GInv, Disjoint
  <2> QED BY <2>1 DEF Files, FilesOf
<1>2. LInv => NoFilesLeaked
  <2> SUFFICES ASSUME LInv, Faults = {}, ~ Iterate, Quiet, linked # None
               PROVE  index
    BY DEF NoFilesLeaked
  <2>1. calls = <<>> /\ dooming = NoDoom
    BY DEF Quiet
  <2>2. ~ HashWaits
    BY <2>1, SmallCalls DEF HashWaits
  <2> QED BY <2>1, <2>2 DEF LInv, Indexed
<1> QED BY <1>1, <1>2, IndexInvariant, PTL DEF FilesAreSafe

=============================================================================
