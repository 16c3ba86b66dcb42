--------------------------- MODULE RankingsProofs ---------------------------
(***************************************************************************)
(* The LRU lists survive crashes: proofs about Rankings.                   *)
(*                                                                         *)
(* The lists are sequences of nodes, and the links that belong to given    *)
(* lists are functions of them (HeadOf, TailOf, NextOf, PrevOf).  What an  *)
(* operation does to the links is shown once, for the lists; after that    *)
(* the disk during an operation is compared, link by link, with the links  *)
(* before and after it.                                                    *)
(***************************************************************************)
EXTENDS Rankings, SequenceTheorems, FiniteSetTheorems, WellFoundedInduction, TLAPS

-----------------------------------------------------------------------------
(* Lists and their links.                                                  *)

\* Sequences of nodes in which no node occurs twice.
Proper(s) ==
  /\ s \in [List -> Seq(Node)]
  /\ \A l, m \in List : \A i \in DOMAIN s[l], j \in DOMAIN s[m] :
       s[l][i] = s[m][j] => l = m /\ i = j

In(s, n) == \E l \in List : n \in Elements(s[l])

Place(s, n) ==
  CHOOSE p \in List \X Nat : p[2] \in DOMAIN s[p[1]] /\ s[p[1]][p[2]] = n

\* The node after, and the node before, the place i of the sequence q.
After(q, i) == IF i = Len(q) THEN q[i] ELSE q[i + 1]
Before(q, i) == IF i = 1 THEN q[i] ELSE q[i - 1]

HeadOf(s) == [l \in List |-> IF s[l] = <<>> THEN None ELSE s[l][1]]
TailOf(s) == [l \in List |-> IF s[l] = <<>> THEN None ELSE s[l][Len(s[l])]]
NextOf(s) ==
  [n \in Node |-> IF In(s, n) THEN After(s[Place(s, n)[1]], Place(s, n)[2]) ELSE None]
PrevOf(s) ==
  [n \in Node |-> IF In(s, n) THEN Before(s[Place(s, n)[1]], Place(s, n)[2]) ELSE None]

\* A least element of a nonempty set of natural numbers.
LEMMA LeastNumber ==
  ASSUME NEW T, T \subseteq Nat, T # {}
  PROVE  \E x \in T : \A y \in T : x <= y
<1> DEFINE R == OpToRel(<, Nat)
<1>1. IsWellFoundedOn(R, Nat)
  BY NatLessThanWellFounded, Zenon
<1>2. \A x, y \in Nat : x < y => <<x, y>> \in R
  BY DEF OpToRel
<1>h. HIDE DEF R
<1>3. PICK x \in T : \A y \in T : ~ (<<y, x>> \in R)
  BY <1>1, WFMin, Zenon
<1>4. \A y \in T : ~ (y < x)
  BY <1>2, <1>3
<1> QED BY <1>4

\* The node at a place has the links of that place.
LEMMA LinksAt ==
  ASSUME NEW s, Proper(s), NEW l \in List, NEW i \in 1 .. Len(s[l])
  PROVE  /\ s[l][i] \in Node
         /\ In(s, s[l][i])
         /\ NextOf(s)[s[l][i]] = After(s[l], i)
         /\ PrevOf(s)[s[l][i]] = Before(s[l], i)
<1>1. s[l] \in Seq(Node) /\ DOMAIN s[l] = 1 .. Len(s[l]) /\ s[l][i] \in Node
  BY DEF Proper
<1>2. In(s, s[l][i])
  BY <1>1 DEF In, Elements
<1>3. PICK p : p = Place(s, s[l][i])
  OBVIOUS
<1>4. <<l, i>> \in List \X Nat
  OBVIOUS
<1>5. p \in List \X Nat /\ p[2] \in DOMAIN s[p[1]] /\ s[p[1]][p[2]] = s[l][i]
  BY <1>1, <1>3, <1>4, SMTT(40) DEF Place
<1>6. p[1] = l /\ p[2] = i
  BY <1>1, <1>5 DEF Proper
<1> QED BY <1>1, <1>2, <1>3, <1>6 DEF NextOf, PrevOf

\* A node that is in a list has a place there.
LEMMA PlaceOf ==
  ASSUME NEW s, Proper(s), NEW l \in List, NEW n \in Elements(s[l])
  PROVE  \E i \in 1 .. Len(s[l]) : s[l][i] = n
BY DEF Elements, Proper

\* A node that is in no list has no links.
LEMMA LinksOut ==
  ASSUME NEW s, NEW n \in Node, ~ In(s, n)
  PROVE  NextOf(s)[n] = None /\ PrevOf(s)[n] = None
BY DEF NextOf, PrevOf

\* What the code relies on when it looks at a node of a list.
LEMMA NodeFacts ==
  ASSUME NEW s, Proper(s), NEW l \in List, NEW n \in Elements(s[l]),
         NEW x, x = NextOf(s)[n], NEW p, p = PrevOf(s)[n]
  PROVE  /\ n \in Node
         /\ x \in Elements(s[l]) /\ x \in Node
         /\ p \in Elements(s[l]) /\ p \in Node
         /\ x = n <=> TailOf(s)[l] = n
         /\ p = n <=> HeadOf(s)[l] = n
         /\ x # n => PrevOf(s)[x] = n /\ HeadOf(s)[l] # x
         /\ p # n => NextOf(s)[p] = n /\ TailOf(s)[l] # p
         /\ x # n /\ p # n => x # p
         /\ \A m \in List : HeadOf(s)[m] = n \/ TailOf(s)[m] = n \/ n \in Elements(s[m])
                              => m = l
<1>1. PICK i \in 1 .. Len(s[l]) : s[l][i] = n
  BY PlaceOf
<1>2. /\ s[l] \in Seq(Node) /\ DOMAIN s[l] = 1 .. Len(s[l]) /\ Len(s[l]) \in Nat
      /\ s[l] # <<>>
  BY <1>1 DEF Proper
<1>3. n \in Node /\ x = After(s[l], i) /\ p = Before(s[l], i)
  BY <1>1, LinksAt
<1>4. \A j, k \in 1 .. Len(s[l]) : s[l][j] = s[l][k] => j = k
  BY <1>2 DEF Proper
<1>5. \A j \in 1 .. Len(s[l]) : s[l][j] \in Elements(s[l]) /\ s[l][j] \in Node
  BY <1>2 DEF Elements
<1>6. HeadOf(s)[l] = s[l][1] /\ TailOf(s)[l] = s[l][Len(s[l])]
  BY <1>2 DEF HeadOf, TailOf
<1>7. /\ x \in Elements(s[l]) /\ x \in Node
      /\ p \in Elements(s[l]) /\ p \in Node
  BY <1>1, <1>2, <1>3, <1>5 DEF After, Before
<1>8. (x = n <=> TailOf(s)[l] = n) /\ (p = n <=> HeadOf(s)[l] = n)
  BY <1>1, <1>2, <1>3, <1>4, <1>6 DEF After, Before
<1>9. x # n => PrevOf(s)[x] = n /\ HeadOf(s)[l] # x
  <2> SUFFICES ASSUME x # n PROVE PrevOf(s)[x] = n /\ HeadOf(s)[l] # x
    OBVIOUS
  <2>1. i + 1 \in 1 .. Len(s[l]) /\ x = s[l][i + 1]
    BY <1>1, <1>2, <1>3 DEF After
  <2>2. PrevOf(s)[x] = Before(s[l], i + 1)
    BY <2>1, LinksAt
  <2> QED BY <1>1, <1>2, <1>4, <1>6, <2>1, <2>2 DEF Before
<1>10. p # n => NextOf(s)[p] = n /\ TailOf(s)[l] # p
  <2> SUFFICES ASSUME p # n PROVE NextOf(s)[p] = n /\ TailOf(s)[l] # p
    OBVIOUS
  <2>1. i - 1 \in 1 .. Len(s[l]) /\ p = s[l][i - 1]
    BY <1>1, <1>2, <1>3 DEF Before
  <2>2. NextOf(s)[p] = After(s[l], i - 1)
    BY <2>1, LinksAt
  <2> QED BY <1>1, <1>2, <1>4, <1>6, <2>1, <2>2 DEF After
<1>11. x # n /\ p # n => x # p
  BY <1>1, <1>2, <1>3, <1>4 DEF After, Before
<1>12. \A m \in List : HeadOf(s)[m] = n \/ TailOf(s)[m] = n \/ n \in Elements(s[m]) => m = l
  <2> SUFFICES ASSUME NEW m \in List,
                      HeadOf(s)[m] = n \/ TailOf(s)[m] = n \/ n \in Elements(s[m])
               PROVE  m = l
    OBVIOUS
  <2>1. s[m] \in Seq(Node) /\ DOMAIN s[m] = 1 .. Len(s[m]) /\ Len(s[m]) \in Nat
    BY DEF Proper
  <2>2. \E j \in 1 .. Len(s[m]) : s[m][j] = n
    <3>1. CASE n \in Elements(s[m])
      BY <3>1, PlaceOf
    <3>2. CASE n \notin Elements(s[m])
      <4>1. n # None
        BY <1>3, RankingsAssumption
      <4>2. s[m] # <<>> /\ (n = s[m][1] \/ n = s[m][Len(s[m])])
        BY <3>2, <4>1 DEF HeadOf, TailOf
      <4> QED BY <2>1, <4>2
    <3> QED BY <3>1, <3>2
  <2> QED BY <1>1, <1>2, <2>1, <2>2 DEF Proper
<1> QED BY <1>3, <1>7, <1>8, <1>9, <1>10, <1>11, <1>12

\* An empty list has no ends, and the ends of another one are in it.
LEMMA EndFacts ==
  ASSUME NEW s, Proper(s), NEW l \in List
  PROVE  /\ HeadOf(s)[l] = None <=> s[l] = <<>>
         /\ TailOf(s)[l] = None <=> s[l] = <<>>
         /\ s[l] # <<>> => HeadOf(s)[l] \in Elements(s[l]) /\ TailOf(s)[l] \in Elements(s[l])
         /\ HeadOf(s)[l] \in Address /\ TailOf(s)[l] \in Address
<1>1. s[l] \in Seq(Node) /\ DOMAIN s[l] = 1 .. Len(s[l]) /\ Len(s[l]) \in Nat
  BY DEF Proper
<1>2. CASE s[l] = <<>>
  BY <1>2 DEF HeadOf, TailOf, Address
<1>3. CASE s[l] # <<>>
  <2>1. 1 \in 1 .. Len(s[l]) /\ Len(s[l]) \in 1 .. Len(s[l])
    BY <1>1, <1>3
  <2>2. HeadOf(s)[l] = s[l][1] /\ TailOf(s)[l] = s[l][Len(s[l])]
    BY <1>3 DEF HeadOf, TailOf
  <2>3. /\ HeadOf(s)[l] \in Node /\ TailOf(s)[l] \in Node
        /\ HeadOf(s)[l] \in Elements(s[l]) /\ TailOf(s)[l] \in Elements(s[l])
    BY <1>1, <2>1, <2>2 DEF Elements
  <2> QED BY <1>3, <2>3, RankingsAssumption DEF Address
<1> QED BY <1>2, <1>3

\* The links of lists are addresses.
LEMMA LinkTypes ==
  ASSUME NEW s, Proper(s)
  PROVE  /\ HeadOf(s) \in [List -> Address] /\ TailOf(s) \in [List -> Address]
         /\ NextOf(s) \in [Node -> Address] /\ PrevOf(s) \in [Node -> Address]
<1>1. HeadOf(s) \in [List -> Address] /\ TailOf(s) \in [List -> Address]
  <2>1. \A l \in List : HeadOf(s)[l] \in Address /\ TailOf(s)[l] \in Address
    BY EndFacts
  <2> QED BY <2>1 DEF HeadOf, TailOf
<1>2. \A n \in Node : NextOf(s)[n] \in Address /\ PrevOf(s)[n] \in Address
  <2> SUFFICES ASSUME NEW n \in Node PROVE NextOf(s)[n] \in Address /\ PrevOf(s)[n] \in Address
    OBVIOUS
  <2>1. CASE In(s, n)
    <3>1. PICK l \in List : n \in Elements(s[l])
      BY <2>1 DEF In
    <3> QED BY <3>1, NodeFacts DEF Address
  <2>2. CASE ~ In(s, n)
    BY <2>2, LinksOut DEF Address
  <2> QED BY <2>1, <2>2
<1>3. NextOf(s) \in [Node -> Address] /\ PrevOf(s) \in [Node -> Address]
  BY <1>2 DEF NextOf, PrevOf
<1> QED BY <1>1, <1>3

-----------------------------------------------------------------------------
(* A node is put in front of a list.                                       *)

Inserted(s, n, l) == [s EXCEPT ![l] = <<n>> \o @]

\* Where the nodes are after an insertion at the head.
LEMMA InsertedPlaces ==
  ASSUME NEW s, Proper(s), NEW n \in Node, NEW l \in List, NEW t, t = Inserted(s, n, l)
  PROVE  /\ t \in [List -> Seq(Node)]
         /\ \A m \in List : m # l => t[m] = s[m]
         /\ Len(t[l]) = Len(s[l]) + 1
         /\ t[l][1] = n
         /\ \A i \in 1 .. Len(s[l]) : t[l][i + 1] = s[l][i]
<1>1. s \in [List -> Seq(Node)] /\ s[l] \in Seq(Node)
  BY DEF Proper
<1>2. PICK q : q = <<n>> \o s[l]
  OBVIOUS
<1>3. <<n>> \in Seq(Node) /\ Len(<<n>>) = 1 /\ <<n>>[1] = n
  OBVIOUS
<1>4. /\ q \in Seq(Node) /\ Len(q) = Len(s[l]) + 1 /\ q[1] = n
      /\ \A i \in 1 .. Len(s[l]) : q[i + 1] = s[l][i]
  BY <1>1, <1>2, <1>3
<1>5. t = [s EXCEPT ![l] = q]
  BY <1>2 DEF Inserted
<1> QED BY <1>1, <1>4, <1>5

\* An insertion keeps the lists proper and adds just the node.
LEMMA InsertedIsProper ==
  ASSUME NEW s, Proper(s), NEW n \in Node, ~ In(s, n), NEW l \in List,
         NEW t, t = Inserted(s, n, l)
  PROVE  /\ Proper(t)
         /\ Elements(t[l]) = Elements(s[l]) \cup {n}
         /\ \A m \in List : m # l => Elements(t[m]) = Elements(s[m])
<1>1. /\ t \in [List -> Seq(Node)]
      /\ \A m \in List : m # l => t[m] = s[m]
      /\ Len(t[l]) = Len(s[l]) + 1
      /\ t[l][1] = n
      /\ \A i \in 1 .. Len(s[l]) : t[l][i + 1] = s[l][i]
  BY InsertedPlaces
<1>2. s \in [List -> Seq(Node)]
  BY DEF Proper
<1>3. /\ \A m \in List : DOMAIN s[m] = 1 .. Len(s[m]) /\ Len(s[m]) \in Nat
      /\ \A m \in List : DOMAIN t[m] = 1 .. Len(t[m])
  BY <1>1, <1>2
<1>4. \A m \in List : \A i \in DOMAIN t[m] :
        \/ m = l /\ i = 1
        \/ m = l /\ i - 1 \in DOMAIN s[l] /\ t[m][i] = s[l][i - 1]
        \/ m # l /\ i \in DOMAIN s[m] /\ t[m][i] = s[m][i]
  <2> SUFFICES ASSUME NEW m \in List, NEW i \in DOMAIN t[m], m = l, i # 1
               PROVE  i - 1 \in DOMAIN s[l] /\ t[l][i] = s[l][i - 1]
    BY <1>1
  <2>1. i - 1 \in 1 .. Len(s[l])
    BY <1>1, <1>3
  <2>2. t[l][(i - 1) + 1] = s[l][i - 1]
    BY <1>1, <2>1
  <2> QED BY <1>3, <2>1, <2>2
<1>5. \A m \in List : \A i \in DOMAIN s[m] : s[m][i] # n
  BY DEF In, Elements
<1>6. Proper(t)
  <2> SUFFICES ASSUME NEW a \in List, NEW b \in List, NEW i \in DOMAIN t[a],
                      NEW j \in DOMAIN t[b], t[a][i] = t[b][j]
               PROVE  a = b /\ i = j
    BY <1>1 DEF Proper
  <2>1. i \in Nat /\ j \in Nat
    BY <1>3
  <2>a. \/ a = l /\ i = 1
        \/ a = l /\ i - 1 \in DOMAIN s[l] /\ t[a][i] = s[l][i - 1]
        \/ a # l /\ i \in DOMAIN s[a] /\ t[a][i] = s[a][i]
    BY <1>4
  <2>b. \/ b = l /\ j = 1
        \/ b = l /\ j - 1 \in DOMAIN s[l] /\ t[b][j] = s[l][j - 1]
        \/ b # l /\ j \in DOMAIN s[b] /\ t[b][j] = s[b][j]
    BY <1>4
  <2>2. CASE a = l /\ i = 1
    <3>1. t[b][j] = n
      BY <1>1, <2>2
    <3> QED BY <1>5, <2>b, <2>2, <3>1
  <2>3. CASE b = l /\ j = 1
    <3>1. t[a][i] = n
      BY <1>1, <2>3
    <3> QED BY <1>5, <2>a, <2>3, <3>1
  <2>4. CASE ~ (a = l /\ i = 1) /\ ~ (b = l /\ j = 1)
    <3>1. CASE a = l /\ b = l
      <4>1. i - 1 = j - 1
        BY <2>a, <2>b, <2>4, <3>1 DEF Proper
      <4> QED BY <2>1, <3>1, <4>1
    <3>2. CASE ~ (a = l /\ b = l)
      BY <2>a, <2>b, <2>4, <3>2 DEF Proper
    <3> QED BY <3>1, <3>2
  <2> QED BY <2>2, <2>3, <2>4
<1>7. Elements(t[l]) = Elements(s[l]) \cup {n}
  <2>1. Elements(t[l]) \subseteq Elements(s[l]) \cup {n}
    BY <1>1, <1>4 DEF Elements
  <2>2. n \in Elements(t[l])
    BY <1>1, <1>3 DEF Elements
  <2>3. \A i \in DOMAIN s[l] : i + 1 \in DOMAIN t[l] /\ t[l][i + 1] = s[l][i]
    <3> SUFFICES ASSUME NEW i \in DOMAIN s[l]
                 PROVE  i + 1 \in DOMAIN t[l] /\ t[l][i + 1] = s[l][i]
      OBVIOUS
    <3>1. i \in 1 .. Len(s[l]) /\ i + 1 \in 1 .. Len(t[l])
      BY <1>1, <1>3
    <3> QED BY <1>1, <1>3, <3>1
  <2>4. Elements(s[l]) \subseteq Elements(t[l])
    BY <2>3 DEF Elements
  <2> QED BY <2>1, <2>2, <2>4
<1> QED BY <1>1, <1>6, <1>7

\* The links after an insertion.
LEMMA InsertedLinks ==
  ASSUME NEW s, Proper(s), NEW n \in Node, ~ In(s, n), NEW l \in List,
         NEW t, t = Inserted(s, n, l), NEW h, h = HeadOf(s)[l]
  PROVE  /\ \A m \in List : HeadOf(t)[m] = IF m = l THEN n ELSE HeadOf(s)[m]
         /\ \A m \in List : TailOf(t)[m] = IF m = l /\ h = None THEN n ELSE TailOf(s)[m]
         /\ \A x \in Node : NextOf(t)[x] =
              IF x = n THEN IF h = None THEN n ELSE h ELSE NextOf(s)[x]
         /\ \A x \in Node : PrevOf(t)[x] = IF x \in {n, h} THEN n ELSE PrevOf(s)[x]
<1>1. /\ t \in [List -> Seq(Node)]
      /\ \A m \in List : m # l => t[m] = s[m]
      /\ Len(t[l]) = Len(s[l]) + 1
      /\ t[l][1] = n
      /\ \A i \in 1 .. Len(s[l]) : t[l][i + 1] = s[l][i]
  BY InsertedPlaces
<1>2. /\ Proper(t)
      /\ Elements(t[l]) = Elements(s[l]) \cup {n}
      /\ \A m \in List : m # l => Elements(t[m]) = Elements(s[m])
  BY InsertedIsProper
<1>3. /\ s \in [List -> Seq(Node)]
      /\ \A m \in List : DOMAIN s[m] = 1 .. Len(s[m]) /\ Len(s[m]) \in Nat
      /\ \A m \in List : s[m] = <<>> <=> Len(s[m]) = 0
  BY DEF Proper
<1>4. /\ h = None <=> s[l] = <<>>
      /\ s[l] # <<>> => h = s[l][1] /\ h \in Node
  BY EndFacts, <1>3 DEF HeadOf
<1>5. t[l] # <<>> /\ \A m \in List : m # l => (t[m] = <<>> <=> s[m] = <<>>)
  BY <1>1, <1>3
<1>6. \A m \in List : HeadOf(t)[m] = IF m = l THEN n ELSE HeadOf(s)[m]
  BY <1>1, <1>5 DEF HeadOf
<1>7. \A m \in List : TailOf(t)[m] = IF m = l /\ h = None THEN n ELSE TailOf(s)[m]
  <2>1. CASE s[l] = <<>>
    <3>1. Len(t[l]) = 1
      BY <1>1, <1>3, <2>1
    <3> QED BY <1>1, <1>4, <1>5, <2>1, <3>1 DEF TailOf
  <2>2. CASE s[l] # <<>>
    <3>1. Len(s[l]) \in 1 .. Len(s[l])
      BY <1>3, <2>2
    <3>2. t[l][Len(t[l])] = s[l][Len(s[l])]
      BY <1>1, <3>1
    <3> QED BY <1>1, <1>4, <1>5, <2>2, <3>2 DEF TailOf
  <2> QED BY <2>1, <2>2
<1>8. NextOf(t)[n] = (IF h = None THEN n ELSE h) /\ PrevOf(t)[n] = n
  <2>1. 1 \in 1 .. Len(t[l])
    BY <1>1, <1>3
  <2>2. NextOf(t)[n] = After(t[l], 1) /\ PrevOf(t)[n] = Before(t[l], 1)
    BY <1>1, <1>2, <2>1, LinksAt
  <2>3. CASE s[l] = <<>>
    BY <1>1, <1>3, <1>4, <2>2, <2>3 DEF After, Before
  <2>4. CASE s[l] # <<>>
    <3>1. 1 \in 1 .. Len(s[l]) /\ 1 # Len(t[l])
      BY <1>1, <1>3, <2>4
    <3>2. t[l][1 + 1] = s[l][1]
      BY <1>1, <3>1
    <3> QED BY <1>1, <1>4, <2>2, <2>4, <3>1, <3>2 DEF After, Before
  <2> QED BY <2>3, <2>4
<1>9. ASSUME NEW x \in Node, x # n
      PROVE  /\ NextOf(t)[x] = NextOf(s)[x]
             /\ PrevOf(t)[x] = IF x = h THEN n ELSE PrevOf(s)[x]
  <2>1. CASE ~ In(s, x)
    <3>1. ~ In(t, x)
      BY <1>2, <1>9, <2>1 DEF In
    <3>2. x # h
      BY <1>4, <2>1, EndFacts, RankingsAssumption DEF In
    <3> QED BY <2>1, <3>1, <3>2, LinksOut
  <2>2. CASE In(s, x)
    <3>1. PICK m \in List : x \in Elements(s[m])
      BY <2>2 DEF In
    <3>2. PICK i \in 1 .. Len(s[m]) : s[m][i] = x
      BY <3>1, PlaceOf
    <3>3. NextOf(s)[x] = After(s[m], i) /\ PrevOf(s)[x] = Before(s[m], i)
      BY <3>2, LinksAt
    <3>4. CASE m # l
      <4>1. t[m] = s[m] /\ i \in 1 .. Len(t[m])
        BY <1>1, <3>4
      <4>2. NextOf(t)[x] = After(s[m], i) /\ PrevOf(t)[x] = Before(s[m], i)
        BY <1>2, <3>2, <4>1, LinksAt
      <4>3. x # h
        BY <3>1, <3>4, <1>4, NodeFacts, RankingsAssumption
      <4> QED BY <3>3, <4>2, <4>3
    <3>5. CASE m = l
      <4>1. i + 1 \in 1 .. Len(t[l]) /\ t[l][i + 1] = x
        BY <1>1, <1>3, <3>2, <3>5
      <4>2. NextOf(t)[x] = After(t[l], i + 1) /\ PrevOf(t)[x] = Before(t[l], i + 1)
        BY <1>2, <4>1, LinksAt
      <4>3. After(t[l], i + 1) = After(s[l], i)
        <5>1. CASE i = Len(s[l])
          BY <1>1, <1>3, <3>2, <3>5, <4>1, <5>1 DEF After
        <5>2. CASE i # Len(s[l])
          <6>1. i + 1 \in 1 .. Len(s[l]) /\ i + 1 # Len(t[l])
            BY <1>1, <1>3, <3>2, <3>5, <5>2
          <6>2. t[l][(i + 1) + 1] = s[l][i + 1]
            BY <1>1, <6>1
          <6> QED BY <5>2, <6>1, <6>2 DEF After
        <5> QED BY <5>1, <5>2
      <4>4. Before(t[l], i + 1) = IF x = h THEN n ELSE Before(s[l], i)
        <5>1. s[l] # <<>> /\ 1 \in 1 .. Len(s[l])
          BY <1>3, <3>2, <3>5
        <5>2. x = h <=> i = 1
          BY <1>3, <1>4, <3>2, <3>5, <5>1 DEF Proper
        <5>3. Before(t[l], i + 1) = t[l][i]
          BY <1>3, <3>2, <3>5 DEF Before
        <5>4. CASE i = 1
          BY <1>1, <5>2, <5>3, <5>4
        <5>5. CASE i # 1
          <6>1. i - 1 \in 1 .. Len(s[l])
            BY <1>3, <3>2, <3>5, <5>5
          <6>2. t[l][(i - 1) + 1] = s[l][i - 1] /\ (i - 1) + 1 = i
            BY <1>1, <6>1
          <6> QED BY <5>2, <5>3, <5>5, <6>2 DEF Before
        <5> QED BY <5>4, <5>5
      <4> QED BY <3>3, <3>5, <4>2, <4>3, <4>4
    <3> QED BY <3>4, <3>5
  <2> QED BY <2>1, <2>2
<1> QED BY <1>6, <1>7, <1>8, <1>9

-----------------------------------------------------------------------------
(* A node is taken out of a list.                                          *)

Removed(s, l, i) == [s EXCEPT ![l] = SubSeq(@, 1, i - 1) \o SubSeq(@, i + 1, Len(@))]

\* Where the nodes are after a removal.
LEMMA RemovedPlaces ==
  ASSUME NEW s, Proper(s), NEW l \in List, NEW i \in 1 .. Len(s[l]),
         NEW t, t = Removed(s, l, i)
  PROVE  /\ t \in [List -> Seq(Node)]
         /\ \A m \in List : m # l => t[m] = s[m]
         /\ Len(t[l]) = Len(s[l]) - 1
         /\ \A j \in 1 .. Len(s[l]) - 1 :
              t[l][j] = IF j < i THEN s[l][j] ELSE s[l][j + 1]
<1>1. s \in [List -> Seq(Node)] /\ s[l] \in Seq(Node) /\ Len(s[l]) \in Nat
  BY DEF Proper
<1>2. PICK a, b, q : /\ a = SubSeq(s[l], 1, i - 1)
                     /\ b = SubSeq(s[l], i + 1, Len(s[l]))
                     /\ q = a \o b
  OBVIOUS
<1>3. /\ a \in Seq(Node) /\ Len(a) = i - 1
      /\ \A j \in 1 .. i - 1 : a[j] = s[l][j]
  BY <1>1, <1>2
<1>4. /\ b \in Seq(Node) /\ Len(b) = Len(s[l]) - i
      /\ \A j \in 1 .. Len(s[l]) - i : b[j] = s[l][j + i]
  BY <1>1, <1>2
<1>5. /\ q \in Seq(Node) /\ Len(q) = Len(s[l]) - 1
      /\ \A j \in 1 .. Len(s[l]) - 1 : q[j] = IF j < i THEN a[j] ELSE b[j - (i - 1)]
  <2>1. /\ a \o b \in Seq(Node) /\ Len(a \o b) = Len(a) + Len(b)
        /\ \A j \in 1 .. Len(a) + Len(b) :
             (a \o b)[j] = IF j <= Len(a) THEN a[j] ELSE b[j - Len(a)]
    BY <1>3, <1>4, ConcatProperties
  <2>2. Len(a) + Len(b) = Len(s[l]) - 1 /\ Len(a) = i - 1
    BY <1>1, <1>3, <1>4
  <2>3. \A j \in 1 .. Len(s[l]) - 1 : j <= i - 1 <=> j < i
    BY <1>1
  <2> QED BY <1>2, <2>1, <2>2, <2>3
<1>6. \A j \in 1 .. Len(s[l]) - 1 : q[j] = IF j < i THEN s[l][j] ELSE s[l][j + 1]
  <2> SUFFICES ASSUME NEW j \in 1 .. Len(s[l]) - 1
               PROVE  q[j] = IF j < i THEN s[l][j] ELSE s[l][j + 1]
    OBVIOUS
  <2>1. CASE j < i
    BY <1>3, <1>5, <2>1
  <2>2. CASE ~ (j < i)
    <3>1. j - (i - 1) \in 1 .. Len(s[l]) - i /\ (j - (i - 1)) + i = j + 1
      BY <1>1, <2>2
    <3> QED BY <1>4, <1>5, <2>2, <3>1
  <2> QED BY <2>1, <2>2
<1>7. t = [s EXCEPT ![l] = q]
  BY <1>2 DEF Removed
<1> QED BY <1>1, <1>5, <1>6, <1>7

\* A removal keeps the lists proper and takes out just the node.
LEMMA RemovedIsProper ==
  ASSUME NEW s, Proper(s), NEW l \in List, NEW i \in 1 .. Len(s[l]),
         NEW t, t = Removed(s, l, i), NEW n, n = s[l][i]
  PROVE  /\ Proper(t)
         /\ \A y : y \in Elements(t[l]) <=> y \in Elements(s[l]) /\ y # n
         /\ \A m \in List : m # l => Elements(t[m]) = Elements(s[m])
<1>1. /\ t \in [List -> Seq(Node)]
      /\ \A m \in List : m # l => t[m] = s[m]
      /\ Len(t[l]) = Len(s[l]) - 1
      /\ \A j \in 1 .. Len(s[l]) - 1 :
           t[l][j] = IF j < i THEN s[l][j] ELSE s[l][j + 1]
  BY RemovedPlaces
<1>2. /\ s \in [List -> Seq(Node)]
      /\ \A m \in List : DOMAIN s[m] = 1 .. Len(s[m]) /\ Len(s[m]) \in Nat
      /\ \A m \in List : DOMAIN t[m] = 1 .. Len(t[m])
  BY <1>1 DEF Proper
<1> DEFINE Was(j) == IF j < i THEN j ELSE j + 1
<1>3. \A j \in DOMAIN t[l] : /\ Was(j) \in DOMAIN s[l] /\ Was(j) # i
                             /\ t[l][j] = s[l][Was(j)]
  BY <1>1, <1>2
<1>4. \A j, k \in DOMAIN t[l] : Was(j) = Was(k) => j = k
  BY <1>1, <1>2
<1>5. \A j \in DOMAIN s[l] : j # i => \E k \in DOMAIN t[l] : Was(k) = j
  <2> SUFFICES ASSUME NEW j \in DOMAIN s[l], j # i
               PROVE  \E k \in DOMAIN t[l] : Was(k) = j
    OBVIOUS
  <2>1. CASE j < i
    <3>1. j \in DOMAIN t[l] /\ Was(j) = j
      BY <1>1, <1>2, <2>1
    <3> QED BY <3>1
  <2>2. CASE ~ (j < i)
    <3>1. j - 1 \in DOMAIN t[l] /\ Was(j - 1) = j
      BY <1>1, <1>2, <2>2
    <3> QED BY <3>1
  <2> QED BY <2>1, <2>2
<1> HIDE DEF Was
<1>6. Proper(t)
  <2> SUFFICES ASSUME NEW a \in List, NEW b \in List, NEW j \in DOMAIN t[a],
                      NEW k \in DOMAIN t[b], t[a][j] = t[b][k]
               PROVE  a = b /\ j = k
    BY <1>1 DEF Proper
  <2>1. CASE a = l /\ b = l
    <3>1. Was(j) = Was(k)
      BY <1>3, <2>1 DEF Proper
    <3> QED BY <1>4, <2>1, <3>1
  <2>2. CASE a = l /\ b # l
    BY <1>1, <1>3, <2>2 DEF Proper
  <2>3. CASE a # l /\ b = l
    BY <1>1, <1>3, <2>3 DEF Proper
  <2>4. CASE a # l /\ b # l
    BY <1>1, <2>4 DEF Proper
  <2> QED BY <2>1, <2>2, <2>3, <2>4
<1>7. Elements(t[l]) = Elements(s[l]) \ {n}
  <2>1. \A j \in DOMAIN s[l] : s[l][j] = n => j = i
    BY <1>2 DEF Proper
  <2>2. Elements(t[l]) \subseteq Elements(s[l]) \ {n}
    BY <1>3, <2>1 DEF Elements
  <2>3. Elements(s[l]) \ {n} \subseteq Elements(t[l])
    BY <1>3, <1>5 DEF Elements
  <2> QED BY <2>2, <2>3
<1> QED BY <1>1, <1>6, <1>7

\* The links after a removal.
LEMMA RemovedLinks ==
  ASSUME NEW s, Proper(s), NEW l \in List, NEW i \in 1 .. Len(s[l]),
         NEW t, t = Removed(s, l, i), NEW n, n = s[l][i],
         NEW x, x = NextOf(s)[n], NEW p, p = PrevOf(s)[n]
  PROVE  /\ \A m \in List : HeadOf(t)[m] =
              IF m = l /\ HeadOf(s)[l] = n THEN IF TailOf(s)[l] = n THEN None ELSE x
                                           ELSE HeadOf(s)[m]
         /\ \A m \in List : TailOf(t)[m] =
              IF m = l /\ TailOf(s)[l] = n THEN IF HeadOf(s)[l] = n THEN None ELSE p
                                           ELSE TailOf(s)[m]
         /\ \A y \in Node : NextOf(t)[y] =
              IF y = n THEN None
              ELSE IF y = p THEN IF TailOf(s)[l] = n THEN p ELSE x
              ELSE NextOf(s)[y]
         /\ \A y \in Node : PrevOf(t)[y] =
              IF y = n THEN None
              ELSE IF y = x THEN IF HeadOf(s)[l] = n THEN x ELSE p
              ELSE PrevOf(s)[y]
<1>0. \A m \in List : \A y \in Elements(s[m]) : \E j \in 1 .. Len(s[m]) : s[m][j] = y
  BY PlaceOf
<1>1. /\ t \in [List -> Seq(Node)]
      /\ \A m \in List : m # l => t[m] = s[m]
      /\ Len(t[l]) = Len(s[l]) - 1
      /\ \A j \in 1 .. Len(s[l]) - 1 :
           t[l][j] = IF j < i THEN s[l][j] ELSE s[l][j + 1]
  BY RemovedPlaces
<1>2. /\ Proper(t)
      /\ \A y : y \in Elements(t[l]) <=> y \in Elements(s[l]) /\ y # n
      /\ \A m \in List : m # l => Elements(t[m]) = Elements(s[m])
  <2>1. Proper(t)
    BY RemovedIsProper
  <2>2. \A y : y \in Elements(t[l]) <=> y \in Elements(s[l]) /\ y # n
    BY RemovedIsProper
  <2>3. \A m \in List : m # l => Elements(t[m]) = Elements(s[m])
    BY RemovedIsProper
  <2> QED BY <2>1, <2>2, <2>3
<1>3. /\ s \in [List -> Seq(Node)]
      /\ \A m \in List : DOMAIN s[m] = 1 .. Len(s[m]) /\ Len(s[m]) \in Nat
      /\ \A m \in List : s[m] = <<>> <=> Len(s[m]) = 0
      /\ \A m \in List : t[m] = <<>> <=> Len(t[m]) = 0
  BY <1>1 DEF Proper
<1>4. PICK L \in Nat : L = Len(s[l])
  BY <1>3
<1>5. /\ n \in Elements(s[l]) /\ n \in Node
      /\ x = After(s[l], i) /\ p = Before(s[l], i)
  <2>1. n \in Elements(s[l])
    BY <1>3 DEF Elements
  <2> QED BY <2>1, LinksAt
<1>6. \A j, k \in 1 .. L : s[l][j] = s[l][k] => j = k
  BY <1>3, <1>4 DEF Proper
<1>7. /\ HeadOf(s)[l] = s[l][1] /\ TailOf(s)[l] = s[l][L]
      /\ HeadOf(s)[l] = n <=> i = 1
      /\ TailOf(s)[l] = n <=> i = L
  BY <1>3, <1>4, <1>6 DEF HeadOf, TailOf
<1>8. /\ i # L => x = s[l][i + 1]
      /\ i = L => x = n
      /\ i # 1 => p = s[l][i - 1]
      /\ i = 1 => p = n
  BY <1>4, <1>5 DEF After, Before
<1>9. \A m \in List : HeadOf(t)[m] =
        IF m = l /\ HeadOf(s)[l] = n THEN IF TailOf(s)[l] = n THEN None ELSE x
                                     ELSE HeadOf(s)[m]
  <2>1. \A m \in List : m # l => HeadOf(t)[m] = HeadOf(s)[m]
    BY <1>1 DEF HeadOf
  <2>2. HeadOf(t)[l] = IF i = 1 THEN IF i = L THEN None ELSE x ELSE HeadOf(s)[l]
    <3>1. CASE L = 1
      <4>1. t[l] = <<>> /\ i = 1
        BY <1>1, <1>3, <1>4, <3>1
      <4> QED BY <3>1, <4>1 DEF HeadOf
    <3>2. CASE L # 1
      <4>1. t[l] # <<>> /\ 1 \in 1 .. L - 1
        BY <1>1, <1>3, <1>4, <3>2
      <4>2. HeadOf(t)[l] = t[l][1]
        BY <4>1 DEF HeadOf
      <4>3. t[l][1] = IF i = 1 THEN s[l][1 + 1] ELSE s[l][1]
        BY <1>1, <1>4, <4>1
      <4> QED BY <1>4, <1>7, <1>8, <3>2, <4>2, <4>3
    <3> QED BY <3>1, <3>2
  <2> QED BY <1>7, <2>1, <2>2
<1>10. \A m \in List : TailOf(t)[m] =
         IF m = l /\ TailOf(s)[l] = n THEN IF HeadOf(s)[l] = n THEN None ELSE p
                                      ELSE TailOf(s)[m]
  <2>1. \A m \in List : m # l => TailOf(t)[m] = TailOf(s)[m]
    BY <1>1 DEF TailOf
  <2>2. TailOf(t)[l] = IF i = L THEN IF i = 1 THEN None ELSE p ELSE TailOf(s)[l]
    <3>1. CASE L = 1
      <4>1. t[l] = <<>> /\ i = 1
        BY <1>1, <1>3, <1>4, <3>1
      <4> QED BY <3>1, <4>1 DEF TailOf
    <3>2. CASE L # 1
      <4>1. t[l] # <<>> /\ L - 1 \in 1 .. L - 1 /\ Len(t[l]) = L - 1
        BY <1>1, <1>3, <1>4, <3>2
      <4>2. TailOf(t)[l] = t[l][L - 1]
        BY <4>1 DEF TailOf
      <4>3. t[l][L - 1] = IF i = L THEN s[l][L - 1] ELSE s[l][(L - 1) + 1]
        <5>1. i \in 1 .. L /\ (L - 1 < i <=> i = L)
          BY <1>4
        <5> QED BY <1>1, <1>4, <4>1, <5>1
      <4>4. (L - 1) + 1 = L /\ (i = L => i # 1)
        BY <3>2
      <4> QED BY <1>7, <1>8, <4>2, <4>3, <4>4
    <3> QED BY <3>1, <3>2
  <2> QED BY <1>7, <2>1, <2>2
<1>11. NextOf(t)[n] = None /\ PrevOf(t)[n] = None
  <2>1. \A m \in List : n \in Elements(s[m]) => m = l
    BY <1>5, NodeFacts
  <2>2. ~ In(t, n)
    BY <1>2, <2>1 DEF In
  <2> QED BY <1>5, <2>2, LinksOut
<1>12. ASSUME NEW y \in Node, y # n
       PROVE  /\ NextOf(t)[y] = IF y = p THEN IF TailOf(s)[l] = n THEN p ELSE x
                                ELSE NextOf(s)[y]
              /\ PrevOf(t)[y] = IF y = x THEN IF HeadOf(s)[l] = n THEN x ELSE p
                                ELSE PrevOf(s)[y]
  <2>0. x \in Elements(s[l]) /\ p \in Elements(s[l])
    <3>1. n \in Elements(s[l])
      BY <1>5
    <3> QED BY <3>1, NodeFacts
  <2>1. CASE ~ In(s, y)
    <3>1. ~ In(t, y)
      BY <1>2, <2>1 DEF In
    <3>2. y # x /\ y # p
      BY <2>0, <2>1 DEF In
    <3> QED BY <2>1, <3>1, <3>2, LinksOut
  <2>2. CASE In(s, y)
    <3>1. PICK m \in List : y \in Elements(s[m])
      BY <2>2 DEF In
    <3>2. PICK j \in 1 .. Len(s[m]) : s[m][j] = y
      BY <1>0, <3>1
    <3>3. NextOf(s)[y] = After(s[m], j) /\ PrevOf(s)[y] = Before(s[m], j)
      BY <3>2, LinksAt
    <3>4. CASE m # l
      <4>1. t[m] = s[m] /\ j \in 1 .. Len(t[m])
        BY <1>1, <3>4
      <4>2. NextOf(t)[y] = After(s[m], j) /\ PrevOf(t)[y] = Before(s[m], j)
        BY <1>2, <3>2, <4>1, LinksAt
      <4>3. y # x /\ y # p
        BY <2>0, <3>1, <3>4, NodeFacts
      <4> QED BY <3>3, <4>2, <4>3
    <3>5. CASE m = l
      <4>0. j \in 1 .. L /\ j # i
        BY <1>4, <1>12, <3>2, <3>5
      <4>1. y = x <=> i # L /\ j = i + 1
        BY <1>4, <1>6, <1>8, <1>12, <3>2, <3>5, <4>0
      <4>2. y = p <=> i # 1 /\ j = i - 1
        BY <1>4, <1>6, <1>8, <1>12, <3>2, <3>5, <4>0
      <4>3. CASE j < i
        <5>1. j \in 1 .. L - 1 /\ j \in 1 .. Len(t[l]) /\ t[l][j] = y
          BY <1>1, <1>4, <3>2, <3>5, <4>0, <4>3
        <5>2. NextOf(t)[y] = After(t[l], j) /\ PrevOf(t)[y] = Before(t[l], j)
          BY <1>2, <5>1, LinksAt
        <5>3. After(t[l], j) = IF y = p THEN IF i = L THEN p ELSE x ELSE After(s[l], j)
          <6>1. CASE j = L - 1
            BY <1>1, <1>4, <4>2, <4>3, <5>1, <6>1 DEF After
          <6>2. CASE j # L - 1
            <7>1. j + 1 \in 1 .. L - 1 /\ j # Len(t[l]) /\ j # Len(s[l])
              BY <1>1, <1>4, <5>1, <6>2
            <7>2. t[l][j + 1] = IF j + 1 < i THEN s[l][j + 1] ELSE s[l][(j + 1) + 1]
              BY <1>1, <1>4, <7>1
            <7>3. CASE j + 1 < i
              BY <4>2, <7>1, <7>2, <7>3 DEF After
            <7>4. CASE ~ (j + 1 < i)
              <8>1. j + 1 = i /\ i # L
                BY <1>4, <4>0, <4>3, <7>1, <7>4
              <8> QED BY <1>8, <4>2, <7>1, <7>2, <8>1 DEF After
            <7> QED BY <7>3, <7>4
          <6> QED BY <6>1, <6>2
        <5>4. Before(t[l], j) = Before(s[l], j) /\ y # x
          <6>1. CASE j = 1
            BY <3>2, <3>5, <4>1, <4>3, <5>1, <6>1 DEF Before
          <6>2. CASE j # 1
            <7>1. j - 1 \in 1 .. L - 1 /\ j - 1 < i
              BY <1>4, <4>0, <4>3, <6>2
            <7>2. t[l][j - 1] = s[l][j - 1]
              BY <1>1, <1>4, <7>1
            <7> QED BY <4>1, <4>3, <6>2, <7>2 DEF Before
          <6> QED BY <6>1, <6>2
        <5> QED BY <1>7, <3>3, <3>5, <5>2, <5>3, <5>4
      <4>4. CASE ~ (j < i)
        <5>1. j - 1 \in 1 .. L - 1 /\ ~ (j - 1 < i) /\ (j - 1) + 1 = j
          BY <1>4, <4>0, <4>4
        <5>2. j - 1 \in 1 .. Len(t[l]) /\ t[l][j - 1] = y
          BY <1>1, <1>4, <3>2, <3>5, <5>1
        <5>3. NextOf(t)[y] = After(t[l], j - 1) /\ PrevOf(t)[y] = Before(t[l], j - 1)
          BY <1>2, <5>2, LinksAt
        <5>4. After(t[l], j - 1) = After(s[l], j) /\ y # p
          <6>1. CASE j = L
            BY <1>1, <1>4, <3>2, <3>5, <4>2, <4>4, <5>1, <5>2, <6>1 DEF After
          <6>2. CASE j # L
            <7>1. j \in 1 .. L - 1 /\ j - 1 # Len(t[l])
              BY <1>1, <1>4, <4>0, <6>2
            <7>2. t[l][j] = s[l][j + 1]
              BY <1>1, <1>4, <4>4, <7>1
            <7> QED BY <1>4, <4>2, <4>4, <5>1, <6>2, <7>1, <7>2 DEF After
          <6> QED BY <6>1, <6>2
        <5>5. Before(t[l], j - 1) = IF y = x THEN IF i = 1 THEN x ELSE p
                                    ELSE Before(s[l], j)
          <6>1. CASE j - 1 = 1
            <7>1. i = 1 /\ j = 2 /\ y = x
              BY <1>4, <4>0, <4>1, <4>4, <6>1
            <7> QED BY <5>2, <6>1, <7>1 DEF Before
          <6>2. CASE j - 1 # 1
            <7>1. j - 2 \in 1 .. L - 1 /\ (j - 1) - 1 = j - 2 /\ (j - 2) + 1 = j - 1
              BY <1>4, <5>1, <6>2
            <7>2. Before(t[l], j - 1) = t[l][j - 2]
              BY <6>2, <7>1 DEF Before
            <7>3. t[l][j - 2] = IF j - 2 < i THEN s[l][j - 2] ELSE s[l][j - 1]
              BY <1>1, <1>4, <7>1
            <7>4. CASE j = i + 1
              <8>1. i # 1 /\ i # L /\ j - 2 = i - 1 /\ j - 2 < i
                BY <1>4, <4>0, <6>2, <7>4
              <8> QED BY <1>8, <4>1, <7>2, <7>3, <7>4, <8>1
            <7>5. CASE j # i + 1
              <8>1. ~ (j - 2 < i) /\ j # 1
                BY <1>4, <4>0, <4>4, <7>5
              <8> QED BY <4>1, <7>2, <7>3, <7>5, <8>1 DEF Before
            <7> QED BY <7>4, <7>5
          <6> QED BY <6>1, <6>2
        <5> QED BY <1>7, <3>3, <3>5, <5>3, <5>4, <5>5
      <4> QED BY <4>3, <4>4
    <3> QED BY <3>4, <3>5
  <2> QED BY <2>1, <2>2
<1> QED BY <1>9, <1>10, <1>11, <1>12

-----------------------------------------------------------------------------
(* What a reader of the disk finds.                                        *)

\* No list is longer than there are nodes.
LEMMA ListLength ==
  ASSUME NEW s, Proper(s), NEW l \in List
  PROVE  Len(s[l]) \in Nat /\ Cardinality(Node) \in Nat /\ Len(s[l]) <= Cardinality(Node)
<1>1. s[l] \in Seq(Node) /\ DOMAIN s[l] = 1 .. Len(s[l]) /\ Len(s[l]) \in Nat
  BY DEF Proper
<1>2. s[l] \in [1 .. Len(s[l]) -> Node]
  BY <1>1
<1>3. \A i, j \in 1 .. Len(s[l]) : s[l][i] = s[l][j] => i = j
  BY <1>1 DEF Proper
<1>4. s[l] \in Injection(1 .. Len(s[l]), Node)
  BY <1>2, <1>3 DEF Injection, IsInjective
<1>5. IsFiniteSet(Node)
  BY RankingsAssumption
<1>6. Cardinality(1 .. Len(s[l])) <= Cardinality(Node)
  BY <1>4, <1>5, FS_Injection
<1>7. Cardinality(1 .. Len(s[l])) = Len(s[l])
  BY <1>1, FS_Interval
<1>8. Cardinality(Node) \in Nat
  BY <1>5, FS_CardinalityType
<1> QED BY <1>1, <1>6, <1>7, <1>8

\* The walk is what its recursion says.
IsWalk(f, n, N) == f = [k \in 1 .. N |-> IF k = 1 THEN <<n>> ELSE Onward(f[k - 1])]

\* From the head of a list along its links, the walk finds the list.
LEMMA WalkFindsList ==
  ASSUME NEW s, Proper(s), NEW l \in List, heads[l] = HeadOf(s)[l],
         \A y \in Elements(s[l]) : next[y] = NextOf(s)[y]
  PROVE  OnDisk(l) = s[l]
<1>1. s[l] \in Seq(Node) /\ DOMAIN s[l] = 1 .. Len(s[l]) /\ Len(s[l]) \in Nat
  BY DEF Proper
<1>2. CASE s[l] = <<>>
  BY <1>2 DEF OnDisk, HeadOf
<1>3. CASE s[l] # <<>>
  <2>1. PICK q : q = s[l]
    OBVIOUS
  <2>2. PICK N \in Nat : N = Cardinality(Node)
    BY ListLength
  <2>3. PICK L \in Nat : L = Len(q)
    BY <1>1, <2>1
  <2>4. q \in Seq(Node) /\ L <= N /\ 1 <= L
    BY <1>1, <1>3, <2>1, <2>2, <2>3, ListLength
  <2>5. heads[l] = q[1] /\ heads[l] # None
    <3>1. heads[l] = q[1]
      BY <1>3, <2>1 DEF HeadOf
    <3> QED BY <2>3, <2>4, <3>1, RankingsAssumption
  <2>6. \A i \in 1 .. L : next[q[i]] = IF i = L THEN q[i] ELSE q[i + 1]
    <3> SUFFICES ASSUME NEW i \in 1 .. L
                 PROVE  next[q[i]] = IF i = L THEN q[i] ELSE q[i + 1]
      OBVIOUS
    <3>1. s[l][i] \in Elements(s[l])
      BY <1>1, <2>1, <2>3 DEF Elements
    <3>2. NextOf(s)[s[l][i]] = After(s[l], i)
      BY <2>1, <2>3, LinksAt
    <3> QED BY <2>1, <2>3, <3>1, <3>2 DEF After
  <2>7. \A i, j \in 1 .. L : q[i] = q[j] => i = j
    BY <1>1, <2>1, <2>3 DEF Proper
  <2> DEFINE m(k) == IF k <= L THEN k ELSE L
             f == [k \in 1 .. N |-> SubSeq(q, 1, m(k))]
  <2>8. ASSUME NEW k \in 1 .. N
        PROVE  /\ m(k) \in 1 .. L
               /\ SubSeq(q, 1, m(k)) \in Seq(Node)
               /\ Len(SubSeq(q, 1, m(k))) = m(k)
               /\ \A i \in 1 .. m(k) : SubSeq(q, 1, m(k))[i] = q[i]
    <3>1. m(k) \in 1 .. L
      BY <2>4
    <3> HIDE DEF m
    <3> QED BY <2>3, <2>4, <3>1
  <2>9. SubSeq(q, 1, 1) = <<q[1]>>
    <3>1. PICK a : a = SubSeq(q, 1, 1)
      OBVIOUS
    <3>2. PICK b : b = <<q[1]>>
      OBVIOUS
    <3>3. a \in Seq(Node) /\ Len(a) = 1 /\ a[1] = q[1]
      BY <2>3, <2>4, <3>1
    <3>4. b \in Seq(Node) /\ Len(b) = 1 /\ b[1] = q[1]
      BY <2>3, <2>4, <3>2
    <3>5. a = b
      BY <3>3, <3>4, SeqEqual
    <3> QED BY <3>1, <3>2, <3>5
  <2>10. ASSUME NEW k \in 1 .. N, k # 1
         PROVE  SubSeq(q, 1, m(k)) = Onward(SubSeq(q, 1, m(k - 1)))
    <3>1. k - 1 \in 1 .. N
      BY <2>10
    <3>2. PICK a : a = SubSeq(q, 1, m(k - 1))
      OBVIOUS
    <3>3. PICK j \in 1 .. L : j = m(k - 1)
      BY <2>8, <3>1
    <3>4. /\ a \in Seq(Node) /\ Len(a) = j
          /\ \A i \in 1 .. j : a[i] = q[i]
      BY <2>8, <3>1, <3>2, <3>3
    <3>5. a[Len(a)] = q[j] /\ q[j] \in Node
      BY <2>3, <2>4, <3>4
    <3>6. CASE j = L
      <4>1. m(k) = j
        BY <2>10, <3>3, <3>6
      <4>2. next[q[j]] = q[j]
        BY <2>6, <3>6
      <4>3. Onward(a) = a
        BY <3>5, <4>2 DEF Onward
      <4> QED BY <3>2, <3>3, <4>1, <4>3
    <3>7. CASE j # L
      <4>1. m(k) = j + 1 /\ j + 1 \in 1 .. L
        BY <2>10, <3>3, <3>7
      <4>2. next[q[j]] = q[j + 1] /\ q[j + 1] # q[j] /\ q[j + 1] # None /\ q[j + 1] \in Node
        BY <2>3, <2>4, <2>6, <2>7, <3>7, <4>1, RankingsAssumption
      <4>3. Onward(a) = Append(a, q[j + 1])
        BY <3>5, <4>2 DEF Onward
      <4>4. PICK b : b = SubSeq(q, 1, m(k))
        OBVIOUS
      <4>5. b \in Seq(Node) /\ Len(b) = j + 1 /\ \A i \in 1 .. j + 1 : b[i] = q[i]
        BY <2>8, <4>1, <4>4
      <4>6. PICK c : c = Append(a, q[j + 1])
        OBVIOUS
      <4>7. c \in Seq(Node) /\ Len(c) = j + 1 /\ \A i \in 1 .. j + 1 : c[i] = q[i]
        BY <3>4, <4>2, <4>6
      <4>8. b = c
        BY <4>5, <4>7, SeqEqual
      <4> QED BY <3>2, <4>3, <4>4, <4>6, <4>8
    <3> QED BY <3>6, <3>7
  <2>11. IsWalk(f, heads[l], N)
    <3>1. \A k \in 1 .. N : f[k] = IF k = 1 THEN <<heads[l]>> ELSE Onward(f[k - 1])
      <4> SUFFICES ASSUME NEW k \in 1 .. N
                   PROVE  f[k] = IF k = 1 THEN <<heads[l]>> ELSE Onward(f[k - 1])
        OBVIOUS
      <4>1. CASE k = 1
        <5>1. m(k) = 1
          BY <2>4, <4>1
        <5> QED BY <2>5, <2>9, <4>1, <5>1
      <4>2. CASE k # 1
        <5>1. k - 1 \in 1 .. N
          BY <4>2
        <5>2. f[k] = SubSeq(q, 1, m(k)) /\ f[k - 1] = SubSeq(q, 1, m(k - 1))
          BY <5>1
        <5> QED BY <2>10, <4>2, <5>2
      <4> QED BY <4>1, <4>2
    <3> HIDE DEF m
    <3>2. f = [k \in 1 .. N |-> f[k]]
      OBVIOUS
    <3> HIDE DEF f
    <3> QED BY <3>1, <3>2 DEF IsWalk
  <2> HIDE DEF m, f
  <2>12. IsWalk(Walk(heads[l]), heads[l], N)
    BY <2>2, <2>11, Zenon DEF Walk, IsWalk
  <2>13. PICK g : g = Walk(heads[l])
    OBVIOUS
  <2>14. /\ \A k \in 1 .. N : g[k] = IF k = 1 THEN <<heads[l]>> ELSE Onward(g[k - 1])
         /\ \A k \in 1 .. N : f[k] = IF k = 1 THEN <<heads[l]>> ELSE Onward(f[k - 1])
    BY <2>11, <2>12, <2>13 DEF IsWalk
  <2> DEFINE T == {k \in 1 .. N : g[k] # f[k]}
  <2>15. T = {}
    <3> SUFFICES ASSUME T # {} PROVE FALSE
      OBVIOUS
    <3>1. T \subseteq Nat
      OBVIOUS
    <3>2. PICK x \in T : \A y \in T : x <= y
      <4> HIDE DEF T
      <4> QED BY <3>1, LeastNumber
    <3>3. x \in 1 .. N /\ g[x] # f[x]
      BY <3>2
    <3>4. x # 1
      BY <2>14, <3>3
    <3>5. x - 1 \in 1 .. N /\ x - 1 \notin T
      BY <3>2, <3>3, <3>4
    <3>6. g[x - 1] = f[x - 1]
      BY <3>5
    <3> QED BY <2>14, <3>3, <3>4, <3>6
  <2>16. N \in 1 .. N
    BY <2>4
  <2>17. g[N] = f[N]
    BY <2>15, <2>16
  <2>18. f[N] = SubSeq(q, 1, L)
    <3>1. m(N) = L
      BY <2>4 DEF m
    <3> QED BY <2>16, <3>1 DEF f
  <2>19. SubSeq(q, 1, L) = q
    BY <2>3, <2>4, SubSeqFull
  <2>20. OnDisk(l) = g[N]
    BY <2>2, <2>5, <2>13 DEF OnDisk, Path
  <2> QED BY <2>1, <2>17, <2>18, <2>19, <2>20
<1> QED BY <1>2, <1>3
-----------------------------------------------------------------------------
(* The links on disk, by location, and the writes to them.                 *)

Loc == ({"heads", "tails"} \X List) \cup ({"node"} \X Node)

\* The links as one function.
Links(h, t, n, p) ==
  [k \in Loc |-> IF k[1] = "heads" THEN <<h[k[2]], None>>
                 ELSE IF k[1] = "tails" THEN <<t[k[2]], None>>
                 ELSE <<n[k[2]], p[k[2]]>>]

Disk == Links(heads, tails, next, prev)
Image(s) == Links(HeadOf(s), TailOf(s), NextOf(s), PrevOf(s))

At(w) == <<w.field, w.at>>
Value(w) == <<w.to, w.back>>

\* The writes.
Field == {"operation", "operation_list", "transaction", "heads", "tails", "sizes", "node"}
Content == Address \cup List \cup {"none", "insert", "remove"} \cup {1, -1}
Update == [field : Field, at : Content, to : Content, back : Content]
IsLinkWrite(w) ==
  /\ At(w) \in Loc
  /\ w.to \in Address /\ w.back \in Address
  /\ w.field # "node" => w.back = None
LinkWrite == {w \in Update : IsLinkWrite(w)}
RecordWrite == {Set("operation", None, "none"), Set("operation_list", None, 0)}

\* What a write to a link is.
LEMMA LinkWriteFacts ==
  ASSUME NEW w \in LinkWrite
  PROVE  /\ At(w) \in Loc
         /\ w.to \in Address /\ w.back \in Address
         /\ w.field # "node" => w.back = None
<1>1. IsLinkWrite(w)
  BY DEF LinkWrite
<1> QED BY <1>1 DEF IsLinkWrite

\* The locations: both ends of every list, and every node.
LEMMA Locations ==
  /\ \A m \in List : <<"heads", m>> \in Loc /\ <<"tails", m>> \in Loc
  /\ \A y \in Node : <<"node", y>> \in Loc
  /\ \A k \in Loc : \/ \E m \in List : k = <<"heads", m>>
                    \/ \E m \in List : k = <<"tails", m>>
                    \/ \E y \in Node : k = <<"node", y>>
BY DEF Loc

\* The links at each location,
LEMMA LinksOf ==
  ASSUME NEW h, NEW t, NEW n, NEW p
  PROVE  /\ \A m \in List : /\ Links(h, t, n, p)[<<"heads", m>>] = <<h[m], None>>
                            /\ Links(h, t, n, p)[<<"tails", m>>] = <<t[m], None>>
         /\ \A y \in Node : Links(h, t, n, p)[<<"node", y>>] = <<n[y], p[y]>>
         /\ DOMAIN Links(h, t, n, p) = Loc
BY Locations DEF Links

\* on disk,
LEMMA DiskAt ==
  /\ \A m \in List : /\ Disk[<<"heads", m>>] = <<heads[m], None>>
                     /\ Disk[<<"tails", m>>] = <<tails[m], None>>
  /\ \A y \in Node : Disk[<<"node", y>>] = <<next[y], prev[y]>>
BY LinksOf DEF Disk

\* and for given lists.
LEMMA ImageAt ==
  ASSUME NEW s
  PROVE  /\ \A m \in List : /\ Image(s)[<<"heads", m>>] = <<HeadOf(s)[m], None>>
                            /\ Image(s)[<<"tails", m>>] = <<TailOf(s)[m], None>>
         /\ \A y \in Node : Image(s)[<<"node", y>>] = <<NextOf(s)[y], PrevOf(s)[y]>>
BY LinksOf, SMTT(40) DEF Image

\* The links on disk are a function of the locations.
LEMMA DiskIsFunction == Disk = [k \in Loc |-> Disk[k]]
BY DEF Disk, Links

\* And so are those of given lists.
LEMMA ImageIsFunction ==
  ASSUME NEW s
  PROVE  Image(s) = [k \in Loc |-> Image(s)[k]]
BY DEF Image, Links

\* When the disk holds the links of the lists s.
LEMMA DiskIsImage ==
  ASSUME NEW s, Disk = Image(s)
  PROVE  /\ \A m \in List : heads[m] = HeadOf(s)[m] /\ tails[m] = TailOf(s)[m]
         /\ \A y \in Node : next[y] = NextOf(s)[y] /\ prev[y] = PrevOf(s)[y]
<1>1. ASSUME NEW m \in List PROVE heads[m] = HeadOf(s)[m] /\ tails[m] = TailOf(s)[m]
  <2>1. /\ <<heads[m], None>> = <<HeadOf(s)[m], None>>
        /\ <<tails[m], None>> = <<TailOf(s)[m], None>>
    BY DiskAt, ImageAt
  <2> QED BY <2>1
<1>2. ASSUME NEW y \in Node PROVE next[y] = NextOf(s)[y] /\ prev[y] = PrevOf(s)[y]
  <2>1. <<next[y], prev[y]>> = <<NextOf(s)[y], PrevOf(s)[y]>>
    BY DiskAt, ImageAt
  <2> QED BY <2>1
<1> QED BY <1>1, <1>2

-----------------------------------------------------------------------------
(* Sequences of writes.                                                    *)

\* The first of several writes, and the others.
LEMMA FirstOfConcat ==
  ASSUME NEW S, NEW a \in Seq(S), NEW b \in Seq(S), a # <<>>
  PROVE  /\ a \o b # <<>>
         /\ Head(a \o b) = a[1]
         /\ Tail(a \o b) = Tail(a) \o b
         /\ Tail(a) \in Seq(S) /\ a[1] \in S
         /\ Len(Tail(a)) = Len(a) - 1
         /\ \A i \in 1 .. Len(a) - 1 : Tail(a)[i] = a[i + 1]
<1>1. /\ a \o b \in Seq(S) /\ Len(a \o b) = Len(a) + Len(b)
      /\ \A i \in 1 .. Len(a) + Len(b) :
           (a \o b)[i] = IF i <= Len(a) THEN a[i] ELSE b[i - Len(a)]
  BY ConcatProperties
<1>2. Len(a) \in Nat /\ Len(b) \in Nat /\ Len(a) # 0
  OBVIOUS
<1>3. a \o b # <<>> /\ Head(a \o b) = a[1]
  BY <1>1, <1>2
<1>4. /\ Tail(a) \in Seq(S) /\ a[1] \in S
      /\ Len(Tail(a)) = Len(a) - 1
      /\ \A i \in 1 .. Len(a) - 1 : Tail(a)[i] = a[i + 1]
  BY <1>2
<1>5. PICK x, y, z : x = Tail(a) /\ y = x \o b /\ z = Tail(a \o b)
  OBVIOUS
<1>6. /\ y \in Seq(S) /\ Len(y) = Len(a) - 1 + Len(b)
      /\ \A i \in 1 .. Len(a) - 1 + Len(b) :
           y[i] = IF i <= Len(a) - 1 THEN x[i] ELSE b[i - (Len(a) - 1)]
  BY <1>2, <1>4, <1>5, ConcatProperties
<1>7. /\ z \in Seq(S) /\ Len(z) = Len(a) + Len(b) - 1
      /\ \A i \in 1 .. Len(a) + Len(b) - 1 : z[i] = (a \o b)[i + 1]
  BY <1>1, <1>2, <1>3, <1>5
<1>8. \A i \in 1 .. Len(y) : y[i] = z[i]
  <2> SUFFICES ASSUME NEW i \in 1 .. Len(y) PROVE y[i] = z[i]
    OBVIOUS
  <2>1. i \in 1 .. Len(a) - 1 + Len(b) /\ i \in 1 .. Len(a) + Len(b) - 1 /\ i + 1 \in 1 .. Len(a) + Len(b)
    BY <1>2, <1>6
  <2>2. z[i] = IF i + 1 <= Len(a) THEN a[i + 1] ELSE b[(i + 1) - Len(a)]
    BY <1>1, <1>7, <2>1
  <2>3. CASE i <= Len(a) - 1
    BY <1>2, <1>4, <1>5, <1>6, <2>1, <2>2, <2>3
  <2>4. CASE ~ (i <= Len(a) - 1)
    <3>1. i - (Len(a) - 1) = (i + 1) - Len(a) /\ ~ (i + 1 <= Len(a))
      BY <1>2, <2>1, <2>4
    <3> QED BY <1>6, <2>1, <2>2, <2>4, <3>1
  <2> QED BY <2>3, <2>4
<1>9. y = z
  BY <1>2, <1>6, <1>7, <1>8, SeqEqual
<1> QED BY <1>3, <1>4, <1>5, <1>9

\* One write before the others.
LEMMA OneBefore ==
  ASSUME NEW S, NEW x \in S, NEW r \in Seq(S)
  PROVE  /\ <<x>> \o r \in Seq(S)
         /\ <<x>> \o r # <<>> /\ Head(<<x>> \o r) = x /\ Tail(<<x>> \o r) = r
<1>1. PICK a : a = <<x>>
  OBVIOUS
<1>2. a \in Seq(S) /\ a # <<>> /\ a[1] = x /\ Tail(a) = <<>>
  BY <1>1
<1>3. a \o r # <<>> /\ Head(a \o r) = a[1] /\ Tail(a \o r) = Tail(a) \o r
  BY <1>2, FirstOfConcat
<1>4. <<>> \o r = r
  BY ConcatEmptySeq
<1>5. a \o r \in Seq(S)
  BY <1>2, ConcatProperties
<1> QED BY <1>1, <1>2, <1>3, <1>4, <1>5

-----------------------------------------------------------------------------
(* Writes that lead from some links to others.  The links d on disk are    *)
(* those before the operation, b, or those after it, t; the write to the   *)
(* location k0 is the one that commits to t.                               *)

Between(d, b, t, k0) == d[k0] = b[k0] /\ \A k \in Loc : d[k] \in {b[k], t[k]}

Towards(w, t) == \A i \in 1 .. Len(w) : Value(w[i]) = t[At(w[i])]

\* The write c commits; those before it are to every other location that
\* differs, and leave k0 as it was.
PlanAt(d, b, t, k0, w, c) ==
  /\ At(w[c]) = k0 /\ Value(w[c]) = t[k0]
  /\ \A i \in 1 .. c - 1 : Value(w[i]) = IF At(w[i]) = k0 THEN b[k0] ELSE t[At(w[i])]
  /\ \A i \in c + 1 .. Len(w) : Value(w[i]) = t[At(w[i])]
  /\ \A k \in Loc : k = k0 \/ d[k] = t[k] \/ \E j \in 1 .. c - 1 : At(w[j]) = k

Plan(d, b, t, k0, w) ==
  Between(d, b, t, k0) /\ \E c \in 1 .. Len(w) : PlanAt(d, b, t, k0, w, c)

\* The writes v, in any order, lead to t.
Covers(d, t, v) ==
  Towards(v, t) /\ \A k \in Loc : d[k] = t[k] \/ \E j \in 1 .. Len(v) : At(v[j]) = k

\* The first write of a plan leaves a plan, or commits.
LEMMA PlanStep ==
  ASSUME NEW d, NEW b, NEW t, NEW k0 \in Loc, NEW w \in Seq(LinkWrite),
         d = [k \in Loc |-> d[k]], t = [k \in Loc |-> t[k]],
         Plan(d, b, t, k0, w),
         NEW d1, d1 = [d EXCEPT ![At(w[1])] = Value(w[1])]
  PROVE  /\ w # <<>>
         /\ \/ Plan(d1, b, t, k0, Tail(w))
            \/ At(w[1]) = k0 /\ d1 = t /\ Towards(Tail(w), t)
<1>1. PICK c \in 1 .. Len(w) : PlanAt(d, b, t, k0, w, c)
  BY DEF Plan
<1>2. PICK L \in Nat : L = Len(w)
  OBVIOUS
<1>3. w # <<>> /\ 1 \in 1 .. L /\ c \in 1 .. L
  BY <1>1, <1>2
<1>4. PICK v : v = Tail(w)
  OBVIOUS
<1>5. /\ v \in Seq(LinkWrite) /\ Len(v) = L - 1
      /\ \A i \in 1 .. L - 1 : v[i] = w[i + 1]
  BY <1>2, <1>3, <1>4
<1>6. w[1] \in LinkWrite /\ At(w[1]) \in Loc
  <2>1. w[1] \in LinkWrite
    BY <1>2, <1>3
  <2> QED BY <2>1, LinkWriteFacts
<1>7. \A k \in Loc : d1[k] = IF k = At(w[1]) THEN Value(w[1]) ELSE d[k]
  BY <1>6
<1>8. d1 = [k \in Loc |-> d1[k]]
  BY <1>6
<1>9. Between(d, b, t, k0)
  BY DEF Plan
<1>10. CASE c = 1
  <2>1. At(w[1]) = k0 /\ Value(w[1]) = t[k0]
    BY <1>1, <1>10 DEF PlanAt
  <2>2. \A k \in Loc : k = k0 \/ d[k] = t[k]
    BY <1>1, <1>10 DEF PlanAt
  <2>3. \A k \in Loc : d1[k] = t[k]
    BY <1>7, <2>1, <2>2
  <2>4. d1 = t
    BY <1>8, <2>3
  <2>5. \A i \in 1 .. L - 1 : Value(v[i]) = t[At(v[i])]
    <3> SUFFICES ASSUME NEW i \in 1 .. L - 1 PROVE Value(v[i]) = t[At(v[i])]
      OBVIOUS
    <3>1. i + 1 \in c + 1 .. Len(w)
      BY <1>2, <1>10
    <3> QED BY <1>1, <1>5, <3>1 DEF PlanAt
  <2>6. Towards(v, t)
    BY <1>5, <2>5 DEF Towards
  <2> QED BY <1>3, <1>4, <2>1, <2>4, <2>6
<1>11. CASE c # 1
  <2>1. c - 1 \in 1 .. L - 1 /\ 1 \in 1 .. c - 1
    BY <1>3, <1>11
  <2>2. Value(w[1]) = IF At(w[1]) = k0 THEN b[k0] ELSE t[At(w[1])]
    BY <1>1, <2>1 DEF PlanAt
  <2>3. Between(d1, b, t, k0)
    BY <1>6, <1>7, <1>9, <2>2 DEF Between
  <2>4. At(v[c - 1]) = k0 /\ Value(v[c - 1]) = t[k0]
    <3>1. v[c - 1] = w[(c - 1) + 1] /\ (c - 1) + 1 = c
      BY <1>5, <2>1
    <3> QED BY <1>1, <3>1 DEF PlanAt
  <2>5. \A i \in 1 .. (c - 1) - 1 : Value(v[i]) = IF At(v[i]) = k0 THEN b[k0] ELSE t[At(v[i])]
    <3> SUFFICES ASSUME NEW i \in 1 .. (c - 1) - 1
                 PROVE  Value(v[i]) = IF At(v[i]) = k0 THEN b[k0] ELSE t[At(v[i])]
      OBVIOUS
    <3>1. i + 1 \in 1 .. c - 1 /\ i \in 1 .. L - 1
      BY <1>3
    <3> QED BY <1>1, <1>5, <3>1, SMTT(40) DEF PlanAt
  <2>6. \A i \in (c - 1) + 1 .. Len(v) : Value(v[i]) = t[At(v[i])]
    <3> SUFFICES ASSUME NEW i \in (c - 1) + 1 .. Len(v) PROVE Value(v[i]) = t[At(v[i])]
      OBVIOUS
    <3>1. i + 1 \in c + 1 .. Len(w) /\ i \in 1 .. L - 1
      BY <1>2, <1>3, <1>5
    <3> QED BY <1>1, <1>5, <3>1 DEF PlanAt
  <2>7. ASSUME NEW k \in Loc, k # k0, d1[k] # t[k]
        PROVE  \E j \in 1 .. (c - 1) - 1 : At(v[j]) = k
    <3>1. k # At(w[1])
      BY <1>7, <2>2, <2>7
    <3>2. d[k] # t[k]
      BY <1>7, <2>7, <3>1
    <3>3. PICK j \in 1 .. c - 1 : At(w[j]) = k
      BY <1>1, <2>7, <3>2 DEF PlanAt
    <3>4. j # 1
      BY <3>1, <3>3
    <3>5. j - 1 \in 1 .. (c - 1) - 1 /\ j - 1 \in 1 .. L - 1 /\ (j - 1) + 1 = j
      BY <1>3, <3>3, <3>4
    <3>6. At(v[j - 1]) = k
      BY <1>5, <3>3, <3>5
    <3> QED BY <3>5, <3>6
  <2>8. PlanAt(d1, b, t, k0, v, c - 1)
    BY <2>4, <2>5, <2>6, <2>7 DEF PlanAt
  <2>9. c - 1 \in 1 .. Len(v)
    BY <1>5, <2>1
  <2>10. Plan(d1, b, t, k0, v)
    BY <2>3, <2>8, <2>9 DEF Plan
  <2> QED BY <1>3, <1>4, <2>10
<1> QED BY <1>10, <1>11

\* After the commit the writes left change nothing.
LEMMA TowardsStep ==
  ASSUME NEW t, NEW w \in Seq(LinkWrite), t = [k \in Loc |-> t[k]],
         Towards(w, t), w # <<>>
  PROVE  [t EXCEPT ![At(w[1])] = Value(w[1])] = t /\ Towards(Tail(w), t)
<1>1. PICK L \in Nat : L = Len(w)
  OBVIOUS
<1>2. 1 \in 1 .. L
  BY <1>1
<1>3. PICK v : v = Tail(w)
  OBVIOUS
<1>4. /\ v \in Seq(LinkWrite) /\ Len(v) = L - 1
      /\ \A i \in 1 .. L - 1 : v[i] = w[i + 1]
  BY <1>1, <1>3
<1>5. Value(w[1]) = t[At(w[1])] /\ At(w[1]) \in Loc
  <2>1. w[1] \in LinkWrite
    BY <1>1, <1>2
  <2>2. Value(w[1]) = t[At(w[1])]
    BY <1>1, <1>2 DEF Towards
  <2> QED BY <2>1, <2>2, LinkWriteFacts
<1>6. [t EXCEPT ![At(w[1])] = Value(w[1])] = t
  BY <1>5
<1>7. \A i \in 1 .. Len(v) : Value(v[i]) = t[At(v[i])]
  <2> SUFFICES ASSUME NEW i \in 1 .. Len(v) PROVE Value(v[i]) = t[At(v[i])]
    OBVIOUS
  <2>1. i + 1 \in 1 .. Len(w) /\ i \in 1 .. L - 1
    BY <1>1, <1>4
  <2> QED BY <1>4, <2>1 DEF Towards
<1> QED BY <1>3, <1>6, <1>7 DEF Towards

\* Each write of those that lead to t brings one location there.
LEMMA CoversStep ==
  ASSUME NEW d, NEW t, NEW v \in Seq(LinkWrite), d = [k \in Loc |-> d[k]],
         Covers(d, t, v), v # <<>>,
         NEW d1, d1 = [d EXCEPT ![At(v[1])] = Value(v[1])]
  PROVE  /\ Covers(d1, t, Tail(v))
         /\ \A k \in Loc : d1[k] = d[k] \/ d1[k] = t[k]
<1>1. PICK L \in Nat : L = Len(v)
  OBVIOUS
<1>2. 1 \in 1 .. L
  BY <1>1
<1>3. PICK u : u = Tail(v)
  OBVIOUS
<1>4. /\ u \in Seq(LinkWrite) /\ Len(u) = L - 1
      /\ \A i \in 1 .. L - 1 : u[i] = v[i + 1]
  BY <1>1, <1>3
<1>5. Value(v[1]) = t[At(v[1])] /\ At(v[1]) \in Loc
  <2>1. v[1] \in LinkWrite
    BY <1>1, <1>2
  <2>2. Value(v[1]) = t[At(v[1])]
    BY <1>1, <1>2 DEF Covers, Towards
  <2> QED BY <2>1, <2>2, LinkWriteFacts
<1>6. \A k \in Loc : d1[k] = IF k = At(v[1]) THEN t[k] ELSE d[k]
  BY <1>5
<1>7. Towards(u, t)
  <2> SUFFICES ASSUME NEW i \in 1 .. Len(u) PROVE Value(u[i]) = t[At(u[i])]
    BY DEF Towards
  <2>1. i + 1 \in 1 .. Len(v) /\ i \in 1 .. L - 1
    BY <1>1, <1>4
  <2> QED BY <1>4, <2>1 DEF Covers, Towards
<1>8. ASSUME NEW k \in Loc, d1[k] # t[k] PROVE \E j \in 1 .. Len(u) : At(u[j]) = k
  <2>1. k # At(v[1]) /\ d[k] # t[k]
    BY <1>6, <1>8
  <2>2. PICK j \in 1 .. Len(v) : At(v[j]) = k
    BY <2>1 DEF Covers
  <2>3. j # 1
    BY <2>1, <2>2
  <2>4. j - 1 \in 1 .. Len(u) /\ j - 1 \in 1 .. L - 1 /\ (j - 1) + 1 = j
    BY <1>1, <1>4, <2>2, <2>3
  <2>5. At(u[j - 1]) = k
    BY <1>4, <2>2, <2>4
  <2> QED BY <2>4, <2>5
<1>9. Covers(d1, t, u)
  BY <1>7, <1>8 DEF Covers
<1> QED BY <1>3, <1>6, <1>9
-----------------------------------------------------------------------------
(* What the operations write.                                              *)

\* The writes to links.
LEMMA LinkWrites ==
  /\ \A m \in List : \A a \in Address :
       /\ Set("heads", m, a) \in LinkWrite
       /\ At(Set("heads", m, a)) = <<"heads", m>> /\ Value(Set("heads", m, a)) = <<a, None>>
       /\ Set("tails", m, a) \in LinkWrite
       /\ At(Set("tails", m, a)) = <<"tails", m>> /\ Value(Set("tails", m, a)) = <<a, None>>
  /\ \A y \in Node : \A a, b \in Address :
       /\ StoreNode(y, a, b) \in LinkWrite
       /\ At(StoreNode(y, a, b)) = <<"node", y>> /\ Value(StoreNode(y, a, b)) = <<a, b>>
BY Locations DEF Set, StoreNode, LinkWrite, IsLinkWrite, At, Value, Update, Field, Content, Address

\* The links while an operation is under way, one by one.
LEMMA BetweenAt ==
  ASSUME NEW s, NEW t, NEW k0, Between(Disk, Image(s), Image(t), k0)
  PROVE  /\ \A m \in List : heads[m] = HeadOf(s)[m] \/ heads[m] = HeadOf(t)[m]
         /\ \A m \in List : tails[m] = TailOf(s)[m] \/ tails[m] = TailOf(t)[m]
         /\ \A y \in Node : \/ next[y] = NextOf(s)[y] /\ prev[y] = PrevOf(s)[y]
                            \/ next[y] = NextOf(t)[y] /\ prev[y] = PrevOf(t)[y]
         /\ \A m \in List : k0 = <<"heads", m>> => heads[m] = HeadOf(s)[m]
         /\ \A y \in Node : k0 = <<"node", y>> =>
              next[y] = NextOf(s)[y] /\ prev[y] = PrevOf(s)[y]
<1>1. ASSUME NEW m \in List
      PROVE  /\ heads[m] = HeadOf(s)[m] \/ heads[m] = HeadOf(t)[m]
             /\ tails[m] = TailOf(s)[m] \/ tails[m] = TailOf(t)[m]
             /\ k0 = <<"heads", m>> => heads[m] = HeadOf(s)[m]
  <2>1. /\ Disk[<<"heads", m>>] \in {Image(s)[<<"heads", m>>], Image(t)[<<"heads", m>>]}
        /\ Disk[<<"tails", m>>] \in {Image(s)[<<"tails", m>>], Image(t)[<<"tails", m>>]}
        /\ k0 = <<"heads", m>> => Disk[<<"heads", m>>] = Image(s)[<<"heads", m>>]
    BY Locations DEF Between
  <2>2. /\ <<heads[m], None>> \in {<<HeadOf(s)[m], None>>, <<HeadOf(t)[m], None>>}
        /\ <<tails[m], None>> \in {<<TailOf(s)[m], None>>, <<TailOf(t)[m], None>>}
        /\ k0 = <<"heads", m>> => <<heads[m], None>> = <<HeadOf(s)[m], None>>
    BY <2>1, DiskAt, ImageAt
  <2> QED BY <2>2
<1>2. ASSUME NEW y \in Node
      PROVE  /\ \/ next[y] = NextOf(s)[y] /\ prev[y] = PrevOf(s)[y]
                \/ next[y] = NextOf(t)[y] /\ prev[y] = PrevOf(t)[y]
             /\ k0 = <<"node", y>> => next[y] = NextOf(s)[y] /\ prev[y] = PrevOf(s)[y]
  <2>1. /\ Disk[<<"node", y>>] \in {Image(s)[<<"node", y>>], Image(t)[<<"node", y>>]}
        /\ k0 = <<"node", y>> => Disk[<<"node", y>>] = Image(s)[<<"node", y>>]
    BY Locations DEF Between
  <2>2. /\ <<next[y], prev[y]>> \in {<<NextOf(s)[y], PrevOf(s)[y]>>,
                                     <<NextOf(t)[y], PrevOf(t)[y]>>}
        /\ k0 = <<"node", y>> => <<next[y], prev[y]>> = <<NextOf(s)[y], PrevOf(s)[y]>>
    BY <2>1, DiskAt, ImageAt
  <2> QED BY <2>2
<1> QED BY <1>1, <1>2

\* Lists whose links agree at a location.
LEMMA SameImage ==
  ASSUME NEW s, NEW t
  PROVE  /\ \A m \in List : HeadOf(s)[m] = HeadOf(t)[m]
                              => Image(s)[<<"heads", m>>] = Image(t)[<<"heads", m>>]
         /\ \A m \in List : TailOf(s)[m] = TailOf(t)[m]
                              => Image(s)[<<"tails", m>>] = Image(t)[<<"tails", m>>]
         /\ \A y \in Node : NextOf(s)[y] = NextOf(t)[y] /\ PrevOf(s)[y] = PrevOf(t)[y]
                              => Image(s)[<<"node", y>>] = Image(t)[<<"node", y>>]
<1>1. ASSUME NEW m \in List
      PROVE  /\ Image(s)[<<"heads", m>>] = <<HeadOf(s)[m], None>>
             /\ Image(t)[<<"heads", m>>] = <<HeadOf(t)[m], None>>
             /\ Image(s)[<<"tails", m>>] = <<TailOf(s)[m], None>>
             /\ Image(t)[<<"tails", m>>] = <<TailOf(t)[m], None>>
  BY ImageAt
<1>2. ASSUME NEW y \in Node
      PROVE  /\ Image(s)[<<"node", y>>] = <<NextOf(s)[y], PrevOf(s)[y]>>
             /\ Image(t)[<<"node", y>>] = <<NextOf(t)[y], PrevOf(t)[y]>>
  BY ImageAt
<1> QED BY <1>1, <1>2

\* A plan whose first two writes are to all the locations that differ but k0.
LEMMA PlanFrom ==
  ASSUME NEW d, NEW b, NEW t, NEW k0, Between(d, b, t, k0),
         NEW w \in Seq(LinkWrite), NEW c \in 3 .. Len(w),
         At(w[c]) = k0, Value(w[c]) = t[k0],
         \A i \in 1 .. c - 1 : Value(w[i]) = IF At(w[i]) = k0 THEN b[k0] ELSE t[At(w[i])],
         \A i \in c + 1 .. Len(w) : Value(w[i]) = t[At(w[i])],
         \A k \in Loc : k = k0 \/ b[k] = t[k] \/ k = At(w[1]) \/ k = At(w[2])
  PROVE  Plan(d, b, t, k0, w)
<1>1. 1 \in 1 .. c - 1 /\ 2 \in 1 .. c - 1 /\ c \in 1 .. Len(w)
  OBVIOUS
<1>2. \A k \in Loc : k = k0 \/ d[k] = t[k] \/ \E j \in 1 .. c - 1 : At(w[j]) = k
  BY <1>1 DEF Between
<1>3. PlanAt(d, b, t, k0, w, c)
  BY <1>2 DEF PlanAt
<1> QED BY <1>1, <1>3 DEF Plan

\* Insert, and FinishInsert on what a crash left of an Insert, accept the links
\* that they find, and write what leads to the node at the head.
LEMMA InsertPlan ==
  ASSUME NEW s, Proper(s), NEW n \in Node, ~ In(s, n), NEW l \in List,
         NEW t, t = Inserted(s, n, l),
         Between(Disk, Image(s), Image(t), <<"heads", l>>)
  PROVE  /\ heads[l] # n
         /\ HeadIsValid(n, l)
         /\ \E w \in Seq(LinkWrite) :
              /\ InsertWrites(n, l) = w \o <<Set("sizes", l, 1)>>
              /\ Plan(Disk, Image(s), Image(t), <<"heads", l>>, w)
<1>1. PICK h : h = HeadOf(s)[l]
  OBVIOUS
<1>2. /\ \A m \in List : HeadOf(t)[m] = IF m = l THEN n ELSE HeadOf(s)[m]
      /\ \A m \in List : TailOf(t)[m] = IF m = l /\ h = None THEN n ELSE TailOf(s)[m]
      /\ \A x \in Node : NextOf(t)[x] =
           IF x = n THEN IF h = None THEN n ELSE h ELSE NextOf(s)[x]
      /\ \A x \in Node : PrevOf(t)[x] = IF x \in {n, h} THEN n ELSE PrevOf(s)[x]
  BY <1>1, InsertedLinks
<1>3. /\ heads[l] = h
      /\ tails[l] = TailOf(s)[l] \/ tails[l] = TailOf(t)[l]
      /\ \A y \in Node : \/ next[y] = NextOf(s)[y] /\ prev[y] = PrevOf(s)[y]
                         \/ next[y] = NextOf(t)[y] /\ prev[y] = PrevOf(t)[y]
  BY <1>1, BetweenAt, Locations
<1>4. n # None /\ n \in Address /\ n \notin Elements(s[l])
  BY RankingsAssumption DEF Address, In
<1>5. /\ h = None <=> s[l] = <<>>
      /\ TailOf(s)[l] = None <=> s[l] = <<>>
      /\ s[l] # <<>> => h \in Elements(s[l]) /\ TailOf(s)[l] \in Elements(s[l])
  BY <1>1, EndFacts
<1>6. Image(t)[<<"heads", l>>] = <<n, None>>
  <2>1. Image(t)[<<"heads", l>>] = <<HeadOf(t)[l], None>>
    BY ImageAt
  <2> QED BY <1>2, <2>1
<1>7. Image(t)[<<"node", n>>] = <<IF h = None THEN n ELSE h, n>>
  <2>1. Image(t)[<<"node", n>>] = <<NextOf(t)[n], PrevOf(t)[n]>>
    BY ImageAt
  <2> QED BY <1>2, <2>1
<1>c. Set("heads", l, n) \in LinkWrite /\ At(Set("heads", l, n)) = <<"heads", l>>
      /\ Value(Set("heads", l, n)) = <<n, None>>
  BY <1>4, LinkWrites
<1>8. CASE h = None
  <2>1. heads[l] = None /\ tails[l] \in {None, n}
    BY <1>2, <1>3, <1>5, <1>8
  <2>2. PICK w : w = <<Set("tails", l, n), StoreNode(n, n, n), Set("heads", l, n)>>
    OBVIOUS
  <2>3. /\ Set("tails", l, n) \in LinkWrite /\ StoreNode(n, n, n) \in LinkWrite
        /\ At(Set("tails", l, n)) = <<"tails", l>> /\ Value(Set("tails", l, n)) = <<n, None>>
        /\ At(StoreNode(n, n, n)) = <<"node", n>> /\ Value(StoreNode(n, n, n)) = <<n, n>>
    BY <1>4, LinkWrites
  <2>4. w \in Seq(LinkWrite) /\ Len(w) = 3
        /\ w[1] = Set("tails", l, n) /\ w[2] = StoreNode(n, n, n) /\ w[3] = Set("heads", l, n)
    BY <1>c, <2>2, <2>3
  <2>5. InsertWrites(n, l) = w \o <<Set("sizes", l, 1)>>
    BY <1>8, <2>1, <2>2 DEF InsertWrites
  <2>6. Image(t)[<<"tails", l>>] = <<n, None>>
    BY <1>2, <1>8, ImageAt
  <2>7. \A k \in Loc : k = <<"heads", l>> \/ Image(s)[k] = Image(t)[k]
                       \/ k = <<"tails", l>> \/ k = <<"node", n>>
    <3> SUFFICES ASSUME NEW k \in Loc
                 PROVE  \/ k = <<"heads", l>> \/ Image(s)[k] = Image(t)[k]
                        \/ k = <<"tails", l>> \/ k = <<"node", n>>
      OBVIOUS
    <3>1. CASE \E m \in List : k = <<"heads", m>>
      BY <1>2, <3>1, SameImage
    <3>2. CASE \E m \in List : k = <<"tails", m>>
      BY <1>2, <3>2, SameImage
    <3>3. CASE \E y \in Node : k = <<"node", y>>
      <4>1. PICK y \in Node : k = <<"node", y>>
        BY <3>3
      <4>2. y # n => NextOf(s)[y] = NextOf(t)[y] /\ PrevOf(s)[y] = PrevOf(t)[y]
        BY <1>2, <1>8, RankingsAssumption
      <4> QED BY <4>1, <4>2, SameImage
    <3> QED BY <3>1, <3>2, <3>3, Locations
  <2>8. Plan(Disk, Image(s), Image(t), <<"heads", l>>, w)
    <3>1. \A i \in 1 .. 3 - 1 :
            Value(w[i]) = IF At(w[i]) = <<"heads", l>> THEN Image(s)[<<"heads", l>>]
                                                        ELSE Image(t)[At(w[i])]
      <4>1. Value(w[1]) = Image(t)[At(w[1])] /\ At(w[1]) # <<"heads", l>>
        BY <2>3, <2>4, <2>6
      <4>2. Value(w[2]) = Image(t)[At(w[2])] /\ At(w[2]) # <<"heads", l>>
        BY <1>7, <1>8, <2>3, <2>4
      <4> QED BY <4>1, <4>2
    <3>2. At(w[3]) = <<"heads", l>> /\ Value(w[3]) = Image(t)[<<"heads", l>>]
      BY <1>c, <1>6, <2>4
    <3>3. \A i \in 3 + 1 .. Len(w) : Value(w[i]) = Image(t)[At(w[i])]
      BY <2>4
    <3>4. \A k \in Loc : k = <<"heads", l>> \/ Image(s)[k] = Image(t)[k]
                         \/ k = At(w[1]) \/ k = At(w[2])
      BY <2>3, <2>4, <2>7
    <3>5. PICK c \in 3 .. Len(w) : c = 3
      BY <2>4
    <3> QED BY <2>4, <3>1, <3>2, <3>3, <3>4, <3>5, PlanFrom
  <2>9. heads[l] # n /\ HeadIsValid(n, l)
    BY <1>4, <2>1 DEF HeadIsValid
  <2> QED BY <2>4, <2>5, <2>8, <2>9
<1>9. CASE h # None
  <2>1. /\ h \in Elements(s[l]) /\ TailOf(s)[l] \in Elements(s[l])
        /\ h \in Node /\ h # n
        /\ NextOf(s)[h] \in Node /\ PrevOf(s)[h] = h
        /\ NextOf(s)[h] = h => TailOf(s)[l] = h
    <3>1. h \in Elements(s[l]) /\ TailOf(s)[l] \in Elements(s[l])
      BY <1>5, <1>9
    <3>2. PICK x : x = NextOf(s)[h]
      OBVIOUS
    <3>3. PICK p : p = PrevOf(s)[h]
      OBVIOUS
    <3>4. /\ h \in Node /\ x \in Node
          /\ x = h <=> TailOf(s)[l] = h
          /\ p = h <=> HeadOf(s)[l] = h
      BY <3>1, <3>2, <3>3, NodeFacts
    <3> QED BY <1>1, <1>4, <3>1, <3>2, <3>3, <3>4
  <2>2. /\ tails[l] = TailOf(s)[l] /\ tails[l] \notin {None, n}
        /\ next[h] = NextOf(s)[h] /\ prev[h] \in {h, n}
    <3>1. tails[l] = TailOf(s)[l]
      BY <1>2, <1>3, <1>9
    <3>2. tails[l] # None
      BY <1>5, <1>9, <3>1
    <3>3. next[h] = NextOf(s)[h] /\ prev[h] \in {h, n}
      BY <1>2, <1>3, <2>1
    <3> QED BY <1>4, <2>1, <3>1, <3>2, <3>3
  <2>3. PICK a : a = StoreNode(h, next[h], n)
    OBVIOUS
  <2>4. PICK b : b = StoreNode(n, h, n)
    OBVIOUS
  <2>5. /\ a \in LinkWrite /\ At(a) = <<"node", h>> /\ Value(a) = <<NextOf(s)[h], n>>
        /\ b \in LinkWrite /\ At(b) = <<"node", n>> /\ Value(b) = <<h, n>>
    BY <1>4, <2>1, <2>2, <2>3, <2>4, LinkWrites DEF Address
  <2>6. PICK w : w = <<a, b, Set("heads", l, n)>>
    OBVIOUS
  <2>7. w \in Seq(LinkWrite) /\ Len(w) = 3
        /\ w[1] = a /\ w[2] = b /\ w[3] = Set("heads", l, n)
    BY <1>c, <2>5, <2>6
  <2>8. InsertWrites(n, l) = w \o <<Set("sizes", l, 1)>>
    BY <1>3, <1>9, <2>2, <2>3, <2>4, <2>6 DEF InsertWrites
  <2>9. Image(t)[<<"node", h>>] = <<NextOf(s)[h], n>>
    <3>1. Image(t)[<<"node", h>>] = <<NextOf(t)[h], PrevOf(t)[h]>>
      BY <2>1, ImageAt
    <3> QED BY <1>2, <2>1, <3>1
  <2>10. \A k \in Loc : k = <<"heads", l>> \/ Image(s)[k] = Image(t)[k]
                        \/ k = <<"node", h>> \/ k = <<"node", n>>
    <3> SUFFICES ASSUME NEW k \in Loc
                 PROVE  \/ k = <<"heads", l>> \/ Image(s)[k] = Image(t)[k]
                        \/ k = <<"node", h>> \/ k = <<"node", n>>
      OBVIOUS
    <3>1. CASE \E m \in List : k = <<"heads", m>>
      BY <1>2, <3>1, SameImage
    <3>2. CASE \E m \in List : k = <<"tails", m>>
      BY <1>2, <1>9, <3>2, SameImage
    <3>3. CASE \E y \in Node : k = <<"node", y>>
      <4>1. PICK y \in Node : k = <<"node", y>>
        BY <3>3
      <4>2. y # n /\ y # h => NextOf(s)[y] = NextOf(t)[y] /\ PrevOf(s)[y] = PrevOf(t)[y]
        BY <1>2
      <4> QED BY <4>1, <4>2, SameImage
    <3> QED BY <3>1, <3>2, <3>3, Locations
  <2>11. Plan(Disk, Image(s), Image(t), <<"heads", l>>, w)
    <3>1. \A i \in 1 .. 3 - 1 :
            Value(w[i]) = IF At(w[i]) = <<"heads", l>> THEN Image(s)[<<"heads", l>>]
                                                        ELSE Image(t)[At(w[i])]
      <4>1. Value(w[1]) = Image(t)[At(w[1])] /\ At(w[1]) # <<"heads", l>>
        BY <2>5, <2>7, <2>9
      <4>2. Value(w[2]) = Image(t)[At(w[2])] /\ At(w[2]) # <<"heads", l>>
        BY <1>7, <1>9, <2>5, <2>7
      <4> QED BY <4>1, <4>2
    <3>2. At(w[3]) = <<"heads", l>> /\ Value(w[3]) = Image(t)[<<"heads", l>>]
      BY <1>c, <1>6, <2>7
    <3>3. \A i \in 3 + 1 .. Len(w) : Value(w[i]) = Image(t)[At(w[i])]
      BY <2>7
    <3>4. \A k \in Loc : k = <<"heads", l>> \/ Image(s)[k] = Image(t)[k]
                         \/ k = At(w[1]) \/ k = At(w[2])
      BY <2>5, <2>7, <2>10
    <3>5. PICK c \in 3 .. Len(w) : c = 3
      BY <2>7
    <3> QED BY <2>7, <3>1, <3>2, <3>3, <3>4, <3>5, PlanFrom
  <2>12. heads[l] # n /\ HeadIsValid(n, l)
    <3>1. heads[l] = h /\ prev[h] \in {h, n} /\ next[h] # None /\ prev[h] # None
      BY <1>3, <1>4, <1>9, <2>1, <2>2, RankingsAssumption
    <3>2. IsHead(h)
      BY <3>1 DEF IsHead
    <3>3. next[h] = h => IsTail(h)
      BY <2>1, <2>2 DEF IsTail
    <3> QED BY <2>1, <3>1, <3>2, <3>3 DEF HeadIsValid, SanityCheck
  <2> QED BY <2>7, <2>8, <2>11, <2>12
<1> QED BY <1>8, <1>9

\* The links of a node and of its neighbours, in its list and once it is out.
Unlinked(s, t, l, n, x, p) ==
  /\ n \in Node /\ x \in Node /\ p \in Node
  /\ Image(s)[<<"node", n>>] = <<x, p>>
  /\ Image(t)[<<"node", n>>] = <<None, None>>
  /\ x # n => /\ Image(s)[<<"node", x>>] = <<NextOf(s)[x], n>>
              /\ Image(t)[<<"node", x>>] = <<NextOf(s)[x], IF p = n THEN x ELSE p>>
  /\ p # n => /\ Image(s)[<<"node", p>>] = <<n, PrevOf(s)[p]>>
              /\ Image(t)[<<"node", p>>] = <<IF x = n THEN p ELSE x, PrevOf(s)[p]>>
  /\ p = n => /\ Image(s)[<<"heads", l>>] = <<n, None>>
              /\ Image(t)[<<"heads", l>>] = <<IF x = n THEN None ELSE x, None>>
  /\ x = n => /\ Image(s)[<<"tails", l>>] = <<n, None>>
              /\ Image(t)[<<"tails", l>>] = <<IF p = n THEN None ELSE p, None>>
  /\ \A k \in Loc : \/ Image(s)[k] = Image(t)[k] \/ k = <<"node", n>>
                    \/ p = n /\ k = <<"heads", l>>
                    \/ p # n /\ k = <<"node", p>>
                    \/ x = n /\ k = <<"tails", l>>
                    \/ x # n /\ k = <<"node", x>>

\* What taking a node out does to the links.
LEMMA RemovedImage ==
  ASSUME NEW s, Proper(s), NEW l \in List, NEW i \in 1 .. Len(s[l]),
         NEW t, t = Removed(s, l, i), NEW n, n = s[l][i],
         NEW x, x = NextOf(s)[n], NEW p, p = PrevOf(s)[n]
  PROVE  Unlinked(s, t, l, n, x, p)
<1>1. n \in Elements(s[l])
  BY DEF Proper, Elements
<1>2. /\ n \in Node /\ x \in Node /\ p \in Node
      /\ x = n <=> TailOf(s)[l] = n
      /\ p = n <=> HeadOf(s)[l] = n
      /\ x # n => PrevOf(s)[x] = n
      /\ p # n => NextOf(s)[p] = n
      /\ x # n /\ p # n => x # p
  BY <1>1, NodeFacts
<1>3. /\ \A m \in List : HeadOf(t)[m] =
           IF m = l /\ HeadOf(s)[l] = n THEN IF TailOf(s)[l] = n THEN None ELSE x
                                        ELSE HeadOf(s)[m]
      /\ \A m \in List : TailOf(t)[m] =
           IF m = l /\ TailOf(s)[l] = n THEN IF HeadOf(s)[l] = n THEN None ELSE p
                                        ELSE TailOf(s)[m]
      /\ \A y \in Node : NextOf(t)[y] =
           IF y = n THEN None
           ELSE IF y = p THEN IF TailOf(s)[l] = n THEN p ELSE x
           ELSE NextOf(s)[y]
      /\ \A y \in Node : PrevOf(t)[y] =
           IF y = n THEN None
           ELSE IF y = x THEN IF HeadOf(s)[l] = n THEN x ELSE p
           ELSE PrevOf(s)[y]
  BY RemovedLinks
<1>4. ASSUME NEW y \in Node
      PROVE  /\ Image(s)[<<"node", y>>] = <<NextOf(s)[y], PrevOf(s)[y]>>
             /\ Image(t)[<<"node", y>>] = <<NextOf(t)[y], PrevOf(t)[y]>>
  BY ImageAt
<1>5. /\ Image(s)[<<"heads", l>>] = <<HeadOf(s)[l], None>>
      /\ Image(t)[<<"heads", l>>] = <<HeadOf(t)[l], None>>
      /\ Image(s)[<<"tails", l>>] = <<TailOf(s)[l], None>>
      /\ Image(t)[<<"tails", l>>] = <<TailOf(t)[l], None>>
  BY ImageAt
<1>6. Image(s)[<<"node", n>>] = <<x, p>> /\ Image(t)[<<"node", n>>] = <<None, None>>
  BY <1>2, <1>3, <1>4
<1>7. x # n => /\ Image(s)[<<"node", x>>] = <<NextOf(s)[x], n>>
               /\ Image(t)[<<"node", x>>] = <<NextOf(s)[x], IF p = n THEN x ELSE p>>
  BY <1>2, <1>3, <1>4
<1>8. p # n => /\ Image(s)[<<"node", p>>] = <<n, PrevOf(s)[p]>>
               /\ Image(t)[<<"node", p>>] = <<IF x = n THEN p ELSE x, PrevOf(s)[p]>>
  BY <1>2, <1>3, <1>4
<1>9. p = n => /\ Image(s)[<<"heads", l>>] = <<n, None>>
               /\ Image(t)[<<"heads", l>>] = <<IF x = n THEN None ELSE x, None>>
  BY <1>2, <1>3, <1>5
<1>10. x = n => /\ Image(s)[<<"tails", l>>] = <<n, None>>
                /\ Image(t)[<<"tails", l>>] = <<IF p = n THEN None ELSE p, None>>
  BY <1>2, <1>3, <1>5
<1>11. ASSUME NEW k \in Loc
       PROVE  \/ Image(s)[k] = Image(t)[k] \/ k = <<"node", n>>
              \/ p = n /\ k = <<"heads", l>>
              \/ p # n /\ k = <<"node", p>>
              \/ x = n /\ k = <<"tails", l>>
              \/ x # n /\ k = <<"node", x>>
  <2>1. CASE \E m \in List : k = <<"heads", m>>
    <3>1. PICK m \in List : k = <<"heads", m>>
      BY <2>1
    <3>2. CASE m = l /\ p = n
      BY <3>1, <3>2
    <3>3. CASE ~ (m = l /\ p = n)
      <4>1. HeadOf(s)[m] = HeadOf(t)[m]
        BY <1>2, <1>3, <3>3
      <4> QED BY <3>1, <4>1, SameImage
    <3> QED BY <3>2, <3>3
  <2>2. CASE \E m \in List : k = <<"tails", m>>
    <3>1. PICK m \in List : k = <<"tails", m>>
      BY <2>2
    <3>2. CASE m = l /\ x = n
      BY <3>1, <3>2
    <3>3. CASE ~ (m = l /\ x = n)
      <4>1. TailOf(s)[m] = TailOf(t)[m]
        BY <1>2, <1>3, <3>3
      <4> QED BY <3>1, <4>1, SameImage
    <3> QED BY <3>2, <3>3
  <2>3. CASE \E y \in Node : k = <<"node", y>>
    <3>1. PICK y \in Node : k = <<"node", y>>
      BY <2>3
    <3>2. CASE y \in {n, p, x}
      BY <3>1, <3>2
    <3>3. CASE y \notin {n, p, x}
      <4>1. NextOf(s)[y] = NextOf(t)[y] /\ PrevOf(s)[y] = PrevOf(t)[y]
        BY <1>3, <3>3
      <4> QED BY <3>1, <4>1, SameImage
    <3> QED BY <3>2, <3>3
  <2> QED BY <2>1, <2>2, <2>3, Locations
<1> QED BY <1>2, <1>6, <1>7, <1>8, <1>9, <1>10, <1>11 DEF Unlinked

\* Remove accepts the links that it finds, and finds the node's own list.
LEMMA RemoveIsAccepted ==
  ASSUME NEW s, Proper(s), NEW l \in List, NEW n \in Elements(s[l]), Disk = Image(s)
  PROVE  /\ SanityCheck(next[n]) /\ SanityCheck(prev[n])
         /\ LinksAreValid(n)
         /\ ListOf(n, l) = l
<1>1. /\ \A m \in List : heads[m] = HeadOf(s)[m] /\ tails[m] = TailOf(s)[m]
      /\ \A y \in Node : next[y] = NextOf(s)[y] /\ prev[y] = PrevOf(s)[y]
  BY DiskIsImage
<1>2. ASSUME NEW y \in Elements(s[l]) PROVE SanityCheck(y)
  <2>1. PICK x : x = NextOf(s)[y]
    OBVIOUS
  <2>2. PICK p : p = PrevOf(s)[y]
    OBVIOUS
  <2>3. /\ y \in Node /\ x \in Node /\ p \in Node
        /\ x = y <=> TailOf(s)[l] = y
        /\ p = y <=> HeadOf(s)[l] = y
    BY <2>1, <2>2, NodeFacts
  <2> QED BY <1>1, <2>1, <2>2, <2>3, RankingsAssumption DEF SanityCheck, IsHead, IsTail
<1>3. PICK x : x = NextOf(s)[n]
  OBVIOUS
<1>4. PICK p : p = PrevOf(s)[n]
  OBVIOUS
<1>5. /\ n \in Node
      /\ x \in Elements(s[l]) /\ x \in Node
      /\ p \in Elements(s[l]) /\ p \in Node
      /\ x = n <=> TailOf(s)[l] = n
      /\ p = n <=> HeadOf(s)[l] = n
      /\ x # n => PrevOf(s)[x] = n
      /\ p # n => NextOf(s)[p] = n
      /\ \A m \in List : HeadOf(s)[m] = n \/ TailOf(s)[m] = n \/ n \in Elements(s[m]) => m = l
  BY <1>3, <1>4, NodeFacts
<1>6. next[n] = x /\ prev[n] = p
  BY <1>1, <1>3, <1>4, <1>5
<1>7. SanityCheck(next[n]) /\ SanityCheck(prev[n])
  BY <1>2, <1>5, <1>6
<1>8. LinksAreValid(n)
  BY <1>1, <1>3, <1>4, <1>5, <1>6 DEF LinksAreValid, IsHead, IsTail
<1>9. ListOf(n, l) = l
  <2>1. \A m \in List : heads[m] = n \/ tails[m] = n => m = l
    BY <1>1, <1>5
  <2>2. IsHead(n) => (CHOOSE m \in List : heads[m] = n) = l
    BY <2>1 DEF IsHead
  <2>3. IsTail(n) => (CHOOSE m \in List : tails[m] = n) = l
    BY <2>1 DEF IsTail
  <2> QED BY <2>2, <2>3 DEF ListOf
<1> QED BY <1>7, <1>8, <1>9

\* What Remove writes leads to the lists without the node.
LEMMA RemovePlan ==
  ASSUME NEW s, Proper(s), NEW l \in List, NEW i \in 1 .. Len(s[l]),
         NEW t, t = Removed(s, l, i), NEW n, n = s[l][i],
         Disk = Image(s), NEW shared \in BOOLEAN
  PROVE  \E w \in Seq(LinkWrite) :
           /\ RemoveWrites(n, l, shared) = w \o <<Set("sizes", l, -1)>>
           /\ Plan(Disk, Image(s), Image(t), <<"node", n>>, w)
<1>1. PICK x : x = NextOf(s)[n]
  OBVIOUS
<1>2. PICK p : p = PrevOf(s)[n]
  OBVIOUS
<1>3. /\ n \in Node /\ x \in Node /\ p \in Node
      /\ Image(s)[<<"node", n>>] = <<x, p>>
      /\ Image(t)[<<"node", n>>] = <<None, None>>
      /\ x # n => /\ Image(s)[<<"node", x>>] = <<NextOf(s)[x], n>>
                  /\ Image(t)[<<"node", x>>] = <<NextOf(s)[x], IF p = n THEN x ELSE p>>
      /\ p # n => /\ Image(s)[<<"node", p>>] = <<n, PrevOf(s)[p]>>
                  /\ Image(t)[<<"node", p>>] = <<IF x = n THEN p ELSE x, PrevOf(s)[p]>>
      /\ p = n => /\ Image(s)[<<"heads", l>>] = <<n, None>>
                  /\ Image(t)[<<"heads", l>>] = <<IF x = n THEN None ELSE x, None>>
      /\ x = n => /\ Image(s)[<<"tails", l>>] = <<n, None>>
                  /\ Image(t)[<<"tails", l>>] = <<IF p = n THEN None ELSE p, None>>
      /\ \A k \in Loc : \/ Image(s)[k] = Image(t)[k] \/ k = <<"node", n>>
                        \/ p = n /\ k = <<"heads", l>>
                        \/ p # n /\ k = <<"node", p>>
                        \/ x = n /\ k = <<"tails", l>>
                        \/ x # n /\ k = <<"node", x>>
  <2>1. Unlinked(s, t, l, n, x, p)
    BY <1>1, <1>2, RemovedImage
  <2> QED BY <2>1 DEF Unlinked
<1>4. /\ \A m \in List : heads[m] = HeadOf(s)[m] /\ tails[m] = TailOf(s)[m]
      /\ \A y \in Node : next[y] = NextOf(s)[y] /\ prev[y] = PrevOf(s)[y]
  BY DiskIsImage
<1>5. n \in Elements(s[l])
  BY DEF Proper, Elements
<1>6. /\ x = n <=> TailOf(s)[l] = n
      /\ p = n <=> HeadOf(s)[l] = n
      /\ x # n /\ p # n => x # p
  BY <1>1, <1>2, <1>5, NodeFacts
<1>7. /\ next[n] = x /\ prev[n] = p
      /\ heads[l] = n <=> p = n
      /\ tails[l] = n <=> x = n
      /\ next[x] = NextOf(s)[x] /\ prev[p] = PrevOf(s)[p]
  BY <1>1, <1>2, <1>3, <1>4, <1>6
<1>8. NextOf(s)[x] \in Address /\ PrevOf(s)[p] \in Address
  BY <1>3, LinkTypes
<1>9. Between(Disk, Image(s), Image(t), <<"node", n>>)
  BY DEF Between
<1>10. {n, x, p, None} \subseteq Address
  BY <1>3 DEF Address
<1> DEFINE k0 == <<"node", n>>
           Ahead(e) == /\ e \in LinkWrite
                       /\ Value(e) = IF At(e) = k0 THEN Image(s)[k0] ELSE Image(t)[At(e)]
           Final(e) == e \in LinkWrite /\ Value(e) = Image(t)[At(e)]
           Planned(w) == /\ w \in Seq(LinkWrite)
                         /\ Plan(Disk, Image(s), Image(t), <<"node", n>>, w)
<1>11. ASSUME NEW w \in Seq(LinkWrite), NEW c \in 3 .. Len(w), At(w[c]) = k0,
              \A j \in 1 .. c - 1 : Ahead(w[j]), \A j \in c .. Len(w) : Final(w[j]),
              \A k \in Loc : k = k0 \/ Image(s)[k] = Image(t)[k] \/ k = At(w[1]) \/ k = At(w[2])
       PROVE  Planned(w)
  <2>1. Value(w[c]) = Image(t)[k0]
    <3>1. c \in c .. Len(w)
      OBVIOUS
    <3> QED BY <1>11, <3>1
  <2>2. \A j \in c + 1 .. Len(w) : Value(w[j]) = Image(t)[At(w[j])]
    BY <1>11
  <2>3. \A j \in 1 .. c - 1 : Value(w[j]) = IF At(w[j]) = k0 THEN Image(s)[k0]
                                                              ELSE Image(t)[At(w[j])]
    BY <1>11
  <2> HIDE DEF k0
  <2> QED BY <1>9, <1>11, <2>1, <2>2, <2>3, PlanFrom DEF k0
<1>12. ASSUME NEW y \in Node, NEW a \in Address, NEW b \in Address, y # n,
              Image(t)[<<"node", y>>] = <<a, b>>
       PROVE  /\ Ahead(StoreNode(y, a, b)) /\ Final(StoreNode(y, a, b))
              /\ At(StoreNode(y, a, b)) = <<"node", y>>
  BY <1>12, LinkWrites
<1>13. ASSUME NEW a \in Address
       PROVE  /\ At(Set("heads", l, a)) = <<"heads", l>> /\ At(Set("tails", l, a)) = <<"tails", l>>
              /\ Image(t)[<<"heads", l>>] = <<a, None>> => Ahead(Set("heads", l, a))
              /\ Image(t)[<<"tails", l>>] = <<a, None>> => Ahead(Set("tails", l, a))
  BY LinkWrites
<1>14. PICK C : C = StoreNode(n, None, None)
  OBVIOUS
<1>15. PICK A : A = StoreNode(n, x, p)
  OBVIOUS
<1>16. Final(C) /\ At(C) = k0 /\ Ahead(A)
  BY <1>3, <1>10, <1>14, <1>15, LinkWrites, ZenonT(60)
<1>17. \A e : Ahead(e) \/ Final(e) => e \in LinkWrite
  OBVIOUS
<1>18. PICK Z : Z = Set("sizes", l, -1)
  OBVIOUS
<1> HIDE DEF Ahead, Final, Planned
<1>19. SUFFICES \E w : RemoveWrites(n, l, shared) = w \o <<Z>> /\ Planned(w)
  BY <1>18 DEF Planned
<1>20. CASE p = n /\ x = n
  <2>1. PICK E1 : E1 = Set("heads", l, None)
    OBVIOUS
  <2>2. PICK E2 : E2 = Set("tails", l, None)
    OBVIOUS
  <2>3. Ahead(E1) /\ Ahead(E2) /\ At(E1) = <<"heads", l>> /\ At(E2) = <<"tails", l>>
    BY <1>3, <1>8, <1>10, <1>12, <1>13, <1>20, <2>1, <2>2
  <2>4. CASE shared
    <3>1. PICK w : w = <<E1, E2, C, C, C>>
      OBVIOUS
    <3>2. RemoveWrites(n, l, shared) = w \o <<Z>>
      BY <1>7, <1>14, <1>15, <1>18, <1>20, <2>1, <2>2, <2>4, <3>1 DEF RemoveWrites
    <3>3. /\ w \in Seq(LinkWrite) /\ Len(w) = 5
          /\ w[1] = E1 /\ w[2] = E2 /\ w[3] = C /\ w[4] = C /\ w[5] = C
      BY <1>16, <1>17, <2>3, <3>1
    <3>4. PICK c \in 3 .. Len(w) : c = 3
      BY <3>3
    <3>5. At(w[c]) = k0 /\ (\A j \in 1 .. c - 1 : Ahead(w[j])) /\ \A j \in c .. Len(w) : Final(w[j])
      BY <1>16, <2>3, <3>3, <3>4
    <3>6. \A k \in Loc : k = k0 \/ Image(s)[k] = Image(t)[k] \/ k = At(w[1]) \/ k = At(w[2])
      BY <1>3, <1>20, <2>3, <3>3
    <3> QED BY <1>11, <3>2, <3>3, <3>4, <3>5, <3>6
  <2>5. CASE ~ shared
    <3>1. PICK w : w = <<E1, E2, A, A, C>>
      OBVIOUS
    <3>2. RemoveWrites(n, l, shared) = w \o <<Z>>
      BY <1>7, <1>14, <1>15, <1>18, <1>20, <2>1, <2>2, <2>5, <3>1 DEF RemoveWrites
    <3>3. /\ w \in Seq(LinkWrite) /\ Len(w) = 5
          /\ w[1] = E1 /\ w[2] = E2 /\ w[3] = A /\ w[4] = A /\ w[5] = C
      BY <1>16, <1>17, <2>3, <3>1
    <3>4. PICK c \in 3 .. Len(w) : c = 5
      BY <3>3
    <3>5. At(w[c]) = k0 /\ (\A j \in 1 .. c - 1 : Ahead(w[j])) /\ \A j \in c .. Len(w) : Final(w[j])
      BY <1>16, <2>3, <3>3, <3>4
    <3>6. \A k \in Loc : k = k0 \/ Image(s)[k] = Image(t)[k] \/ k = At(w[1]) \/ k = At(w[2])
      BY <1>3, <1>20, <2>3, <3>3
    <3> QED BY <1>11, <3>2, <3>3, <3>4, <3>5, <3>6
  <2> QED BY <2>4, <2>5
<1>21. CASE p = n /\ x # n
  <2>1. PICK E1 : E1 = Set("heads", l, x)
    OBVIOUS
  <2>2. PICK E2 : E2 = StoreNode(x, NextOf(s)[x], x)
    OBVIOUS
  <2>3. Ahead(E1) /\ Ahead(E2) /\ At(E1) = <<"heads", l>> /\ At(E2) = <<"node", x>>
    BY <1>3, <1>8, <1>10, <1>12, <1>13, <1>21, <2>1, <2>2
  <2>4. CASE shared
    <3>1. PICK w : w = <<E1, E2, C, C>>
      OBVIOUS
    <3>2. RemoveWrites(n, l, shared) = w \o <<Z>>
      BY <1>7, <1>14, <1>15, <1>18, <1>21, <2>1, <2>2, <2>4, <3>1 DEF RemoveWrites
    <3>3. /\ w \in Seq(LinkWrite) /\ Len(w) = 4
          /\ w[1] = E1 /\ w[2] = E2 /\ w[3] = C /\ w[4] = C
      BY <1>16, <1>17, <2>3, <3>1
    <3>4. PICK c \in 3 .. Len(w) : c = 3
      BY <3>3
    <3>5. At(w[c]) = k0 /\ (\A j \in 1 .. c - 1 : Ahead(w[j])) /\ \A j \in c .. Len(w) : Final(w[j])
      BY <1>16, <2>3, <3>3, <3>4
    <3>6. \A k \in Loc : k = k0 \/ Image(s)[k] = Image(t)[k] \/ k = At(w[1]) \/ k = At(w[2])
      BY <1>3, <1>21, <2>3, <3>3
    <3> QED BY <1>11, <3>2, <3>3, <3>4, <3>5, <3>6
  <2>5. CASE ~ shared
    <3>1. PICK w : w = <<E1, E2, A, C>>
      OBVIOUS
    <3>2. RemoveWrites(n, l, shared) = w \o <<Z>>
      BY <1>7, <1>14, <1>15, <1>18, <1>21, <2>1, <2>2, <2>5, <3>1 DEF RemoveWrites
    <3>3. /\ w \in Seq(LinkWrite) /\ Len(w) = 4
          /\ w[1] = E1 /\ w[2] = E2 /\ w[3] = A /\ w[4] = C
      BY <1>16, <1>17, <2>3, <3>1
    <3>4. PICK c \in 3 .. Len(w) : c = 4
      BY <3>3
    <3>5. At(w[c]) = k0 /\ (\A j \in 1 .. c - 1 : Ahead(w[j])) /\ \A j \in c .. Len(w) : Final(w[j])
      BY <1>16, <2>3, <3>3, <3>4
    <3>6. \A k \in Loc : k = k0 \/ Image(s)[k] = Image(t)[k] \/ k = At(w[1]) \/ k = At(w[2])
      BY <1>3, <1>21, <2>3, <3>3
    <3> QED BY <1>11, <3>2, <3>3, <3>4, <3>5, <3>6
  <2> QED BY <2>4, <2>5
<1>22. CASE p # n /\ x = n
  <2>1. PICK E1 : E1 = Set("tails", l, p)
    OBVIOUS
  <2>2. PICK E2 : E2 = StoreNode(p, p, PrevOf(s)[p])
    OBVIOUS
  <2>3. Ahead(E1) /\ Ahead(E2) /\ Final(E2) /\ At(E1) = <<"tails", l>> /\ At(E2) = <<"node", p>>
    BY <1>3, <1>8, <1>10, <1>12, <1>13, <1>22, <2>1, <2>2
  <2>4. CASE shared
    <3>1. PICK w : w = <<E1, E2, C, E2, C>>
      OBVIOUS
    <3>2. RemoveWrites(n, l, shared) = w \o <<Z>>
      BY <1>7, <1>14, <1>15, <1>18, <1>22, <2>1, <2>2, <2>4, <3>1 DEF RemoveWrites
    <3>3. /\ w \in Seq(LinkWrite) /\ Len(w) = 5
          /\ w[1] = E1 /\ w[2] = E2 /\ w[3] = C /\ w[4] = E2 /\ w[5] = C
      BY <1>16, <1>17, <2>3, <3>1
    <3>4. PICK c \in 3 .. Len(w) : c = 3
      BY <3>3
    <3>5. At(w[c]) = k0 /\ (\A j \in 1 .. c - 1 : Ahead(w[j])) /\ \A j \in c .. Len(w) : Final(w[j])
      BY <1>16, <2>3, <3>3, <3>4
    <3>6. \A k \in Loc : k = k0 \/ Image(s)[k] = Image(t)[k] \/ k = At(w[1]) \/ k = At(w[2])
      BY <1>3, <1>22, <2>3, <3>3
    <3> QED BY <1>11, <3>2, <3>3, <3>4, <3>5, <3>6
  <2>5. CASE ~ shared
    <3>1. PICK w : w = <<E1, E2, A, E2, C>>
      OBVIOUS
    <3>2. RemoveWrites(n, l, shared) = w \o <<Z>>
      BY <1>7, <1>14, <1>15, <1>18, <1>22, <2>1, <2>2, <2>5, <3>1 DEF RemoveWrites
    <3>3. /\ w \in Seq(LinkWrite) /\ Len(w) = 5
          /\ w[1] = E1 /\ w[2] = E2 /\ w[3] = A /\ w[4] = E2 /\ w[5] = C
      BY <1>16, <1>17, <2>3, <3>1
    <3>4. PICK c \in 3 .. Len(w) : c = 5
      BY <3>3
    <3>5. At(w[c]) = k0 /\ (\A j \in 1 .. c - 1 : Ahead(w[j])) /\ \A j \in c .. Len(w) : Final(w[j])
      BY <1>16, <2>3, <3>3, <3>4
    <3>6. \A k \in Loc : k = k0 \/ Image(s)[k] = Image(t)[k] \/ k = At(w[1]) \/ k = At(w[2])
      BY <1>3, <1>22, <2>3, <3>3
    <3> QED BY <1>11, <3>2, <3>3, <3>4, <3>5, <3>6
  <2> QED BY <2>4, <2>5
<1>23. CASE p # n /\ x # n
  <2>1. PICK E1 : E1 = StoreNode(x, NextOf(s)[x], p)
    OBVIOUS
  <2>2. PICK E2 : E2 = StoreNode(p, x, PrevOf(s)[p])
    OBVIOUS
  <2>3. Ahead(E1) /\ Ahead(E2) /\ At(E1) = <<"node", x>> /\ At(E2) = <<"node", p>>
    BY <1>3, <1>8, <1>10, <1>12, <1>13, <1>23, <2>1, <2>2
  <2>4. PICK w : w = <<E1, E2, C>>
    OBVIOUS
  <2>5. RemoveWrites(n, l, shared) = w \o <<Z>>
    BY <1>7, <1>14, <1>18, <1>23, <2>1, <2>2, <2>4, SMTT(40) DEF RemoveWrites
  <2>6. w \in Seq(LinkWrite) /\ Len(w) = 3 /\ w[1] = E1 /\ w[2] = E2 /\ w[3] = C
    BY <1>16, <1>17, <2>3, <2>4
  <2>7. PICK c \in 3 .. Len(w) : c = 3
    BY <2>6
  <2>8. At(w[c]) = k0 /\ (\A j \in 1 .. c - 1 : Ahead(w[j])) /\ \A j \in c .. Len(w) : Final(w[j])
    BY <1>16, <2>3, <2>6, <2>7
  <2>9. \A k \in Loc : k = k0 \/ Image(s)[k] = Image(t)[k] \/ k = At(w[1]) \/ k = At(w[2])
    BY <1>3, <1>23, <2>3, <2>6
  <2> QED BY <1>11, <2>5, <2>6, <2>7, <2>8, <2>9
<1> QED BY <1>20, <1>21, <1>22, <1>23

\* The links around a node whose removal was interrupted.
LEMMA TornLinks ==
  ASSUME NEW s, Proper(s), NEW l \in List, NEW i \in 1 .. Len(s[l]),
         NEW t, t = Removed(s, l, i), NEW n, n = s[l][i],
         Between(Disk, Image(s), Image(t), <<"node", n>>),
         NEW x, x = NextOf(s)[n], NEW p, p = PrevOf(s)[n]
  PROVE  /\ n \in Node /\ x \in Node /\ p \in Node
         /\ next[n] = x /\ prev[n] = p
         /\ next[x] = NextOf(s)[x] /\ prev[p] = PrevOf(s)[p]
         /\ x # n => prev[x] \in {n, IF p = n THEN x ELSE p}
         /\ p # n => next[p] \in {n, IF x = n THEN p ELSE x}
         /\ p = n => heads[l] \in {n, IF x = n THEN None ELSE x}
         /\ p # n => heads[l] # None /\ heads[l] # x
         /\ x = n => tails[l] \in {n, IF p = n THEN None ELSE p}
         /\ x # n => tails[l] # None /\ tails[l] # p
<1>1. n \in Elements(s[l])
  BY DEF Proper, Elements
<1>2. /\ n \in Node /\ x \in Node /\ p \in Node
      /\ x = n <=> TailOf(s)[l] = n
      /\ p = n <=> HeadOf(s)[l] = n
      /\ x # n => PrevOf(s)[x] = n /\ HeadOf(s)[l] # x
      /\ p # n => NextOf(s)[p] = n /\ TailOf(s)[l] # p
      /\ x # n /\ p # n => x # p
  BY <1>1, NodeFacts
<1>3. /\ \A m \in List : HeadOf(t)[m] =
           IF m = l /\ HeadOf(s)[l] = n THEN IF TailOf(s)[l] = n THEN None ELSE x
                                        ELSE HeadOf(s)[m]
      /\ \A m \in List : TailOf(t)[m] =
           IF m = l /\ TailOf(s)[l] = n THEN IF HeadOf(s)[l] = n THEN None ELSE p
                                        ELSE TailOf(s)[m]
      /\ \A y \in Node : NextOf(t)[y] =
           IF y = n THEN None
           ELSE IF y = p THEN IF TailOf(s)[l] = n THEN p ELSE x
           ELSE NextOf(s)[y]
      /\ \A y \in Node : PrevOf(t)[y] =
           IF y = n THEN None
           ELSE IF y = x THEN IF HeadOf(s)[l] = n THEN x ELSE p
           ELSE PrevOf(s)[y]
  BY RemovedLinks
<1>4. /\ \A m \in List : heads[m] = HeadOf(s)[m] \/ heads[m] = HeadOf(t)[m]
      /\ \A m \in List : tails[m] = TailOf(s)[m] \/ tails[m] = TailOf(t)[m]
      /\ \A y \in Node : \/ next[y] = NextOf(s)[y] /\ prev[y] = PrevOf(s)[y]
                         \/ next[y] = NextOf(t)[y] /\ prev[y] = PrevOf(t)[y]
      /\ \A y \in Node : <<"node", n>> = <<"node", y>> =>
           next[y] = NextOf(s)[y] /\ prev[y] = PrevOf(s)[y]
  BY BetweenAt
<1>5. next[n] = x /\ prev[n] = p
  BY <1>2, <1>4
<1>6. HeadOf(s)[l] # None /\ TailOf(s)[l] # None
  BY <1>1, EndFacts DEF Elements
<1>7. next[x] = NextOf(s)[x] /\ prev[p] = PrevOf(s)[p]
  <2>1. next[x] = NextOf(s)[x]
    BY <1>2, <1>3, <1>4, <1>5
  <2>2. prev[p] = PrevOf(s)[p]
    BY <1>2, <1>3, <1>4, <1>5
  <2> QED BY <2>1, <2>2
<1>8. x # n => prev[x] \in {n, IF p = n THEN x ELSE p}
  BY <1>2, <1>3, <1>4
<1>9. p # n => next[p] \in {n, IF x = n THEN p ELSE x}
  BY <1>2, <1>3, <1>4
<1>10. /\ p = n => heads[l] \in {n, IF x = n THEN None ELSE x}
       /\ p # n => heads[l] = HeadOf(s)[l]
  BY <1>2, <1>3, <1>4
<1>11. /\ x = n => tails[l] \in {n, IF p = n THEN None ELSE p}
       /\ x # n => tails[l] = TailOf(s)[l]
  BY <1>2, <1>3, <1>4
<1>12. p # n => heads[l] # None /\ heads[l] # x
  BY <1>2, <1>6, <1>10
<1>13. x # n => tails[l] # None /\ tails[l] # p
  BY <1>2, <1>6, <1>11
<1> QED BY <1>2, <1>5, <1>7, <1>8, <1>9, <1>10, <1>11, <1>12, <1>13

\* What RevertRemove writes leads back to the lists with the node.
LEMMA RevertPlan ==
  ASSUME NEW s, Proper(s), NEW l \in List, NEW i \in 1 .. Len(s[l]),
         NEW t, t = Removed(s, l, i), NEW n, n = s[l][i],
         Between(Disk, Image(s), Image(t), <<"node", n>>)
  PROVE  /\ RevertWrites(n, l) \in Seq(LinkWrite)
         /\ Covers(Disk, Image(s), RevertWrites(n, l))
<1>1. PICK x : x = NextOf(s)[n]
  OBVIOUS
<1>2. PICK p : p = PrevOf(s)[n]
  OBVIOUS
<1>3. /\ n \in Node /\ x \in Node /\ p \in Node
      /\ next[n] = x /\ prev[n] = p
      /\ next[x] = NextOf(s)[x] /\ prev[p] = PrevOf(s)[p]
      /\ p = n => heads[l] \in {n, IF x = n THEN None ELSE x}
      /\ p # n => heads[l] # None /\ heads[l] # x
      /\ x = n => tails[l] \in {n, IF p = n THEN None ELSE p}
      /\ x # n => tails[l] # None /\ tails[l] # p
  BY <1>1, <1>2, TornLinks
<1>4. Unlinked(s, t, l, n, x, p)
  BY <1>1, <1>2, RemovedImage
<1>5. n # None /\ x # None /\ p # None /\ n \in Address /\ x \in Address /\ p \in Address
  BY <1>3, RankingsAssumption DEF Address
<1>6. NextOf(s)[x] \in Address /\ PrevOf(s)[p] \in Address
  BY <1>3, LinkTypes
<1> DEFINE Good(e) == e \in LinkWrite /\ Value(e) = Image(s)[At(e)]
           Covered(e, f, v) ==
             \A k \in Loc : \/ Disk[k] = Image(s)[k]
                            \/ k = At(e) \/ k = At(f) \/ \E j \in 1 .. Len(v) : At(v[j]) = k
<1>7. PICK E : E = StoreNode(x, NextOf(s)[x], IF x = n THEN p ELSE n)
  OBVIOUS
<1>8. PICK F : F = StoreNode(p, IF p = n THEN x ELSE n, PrevOf(s)[p])
  OBVIOUS
<1>9. Good(E) /\ At(E) = <<"node", x>>
  <2>1. /\ E \in LinkWrite /\ At(E) = <<"node", x>>
        /\ Value(E) = <<NextOf(s)[x], IF x = n THEN p ELSE n>>
    <3>1. CASE x = n
      BY <1>3, <1>5, <1>6, <1>7, <3>1, LinkWrites
    <3>2. CASE x # n
      BY <1>3, <1>5, <1>6, <1>7, <3>2, LinkWrites
    <3> QED BY <3>1, <3>2
  <2> QED BY <1>1, <1>4, <2>1 DEF Unlinked
<1>10. Good(F) /\ At(F) = <<"node", p>>
  <2>1. /\ F \in LinkWrite /\ At(F) = <<"node", p>>
        /\ Value(F) = <<IF p = n THEN x ELSE n, PrevOf(s)[p]>>
    <3>1. CASE p = n
      BY <1>3, <1>5, <1>6, <1>8, <3>1, LinkWrites
    <3>2. CASE p # n
      BY <1>3, <1>5, <1>6, <1>8, <3>2, LinkWrites
    <3> QED BY <3>1, <3>2
  <2> QED BY <1>2, <1>4, <2>1 DEF Unlinked
<1>11. PICK H : H = Set("heads", l, n)
  OBVIOUS
<1>12. PICK T : T = Set("tails", l, n)
  OBVIOUS
<1>13. /\ At(H) = <<"heads", l>> /\ At(T) = <<"tails", l>>
       /\ p = n => Good(H)
       /\ x = n => Good(T)
  BY <1>4, <1>5, <1>11, <1>12, LinkWrites DEF Unlinked
<1>14. ASSUME NEW k \in Loc, Disk[k] # Image(s)[k]
       PROVE  \/ k = <<"node", x>> \/ k = <<"node", p>>
              \/ p = n /\ k = <<"heads", l>> /\ heads[l] # n
              \/ x = n /\ k = <<"tails", l>> /\ tails[l] # n
  <2>1. Disk[k] = Image(t)[k] /\ Disk[<<"node", n>>] = Image(s)[<<"node", n>>]
    BY <1>14 DEF Between
  <2>2. Image(s)[k] # Image(t)[k] /\ k # <<"node", n>>
    BY <1>14, <2>1
  <2>3. Disk[<<"heads", l>>] = <<heads[l], None>> /\ Disk[<<"tails", l>>] = <<tails[l], None>>
    BY DiskAt
  <2>4. \/ p = n /\ k = <<"heads", l>>
        \/ p # n /\ k = <<"node", p>>
        \/ x = n /\ k = <<"tails", l>>
        \/ x # n /\ k = <<"node", x>>
    BY <1>4, <2>2 DEF Unlinked
  <2>5. p = n /\ k = <<"heads", l>> => heads[l] # n
    BY <1>4, <1>14, <2>3 DEF Unlinked
  <2>6. x = n /\ k = <<"tails", l>> => tails[l] # n
    BY <1>4, <1>14, <2>3 DEF Unlinked
  <2> QED BY <2>4, <2>5, <2>6
<1>15. ASSUME NEW v \in Seq(LinkWrite), Len(v) >= 2,
              \A j \in 1 .. Len(v) : Good(v[j]), v[Len(v) - 1] = E, v[Len(v)] = F,
              p = n /\ heads[l] # n => v[1] = H,
              x = n /\ tails[l] # n => v[1] = T \/ v[2] = T
       PROVE  Covers(Disk, Image(s), v)
  <2>1. Len(v) - 1 \in 1 .. Len(v) /\ Len(v) \in 1 .. Len(v) /\ 1 \in 1 .. Len(v) /\ 2 \in 1 .. Len(v)
    BY <1>15
  <2>2. Towards(v, Image(s))
    BY <1>15 DEF Towards
  <2>3. \A k \in Loc : Disk[k] = Image(s)[k] \/ \E j \in 1 .. Len(v) : At(v[j]) = k
    <3> SUFFICES ASSUME NEW k \in Loc, Disk[k] # Image(s)[k]
                 PROVE  \E j \in 1 .. Len(v) : At(v[j]) = k
      OBVIOUS
    <3>1. \/ k = At(E) \/ k = At(F)
          \/ p = n /\ k = At(H) /\ heads[l] # n
          \/ x = n /\ k = At(T) /\ tails[l] # n
      BY <1>9, <1>10, <1>13, <1>14
    <3> HIDE DEF Good
    <3> QED BY <1>15, <2>1, <3>1
  <2> QED BY <2>2, <2>3 DEF Covers
<1>16. PICK v : v = RevertWrites(n, l)
  OBVIOUS
<1>17. CASE heads[l] = None \/ tails[l] = None
  <2>1. x = n /\ p = n
    BY <1>3, <1>5, <1>17
  <2>2. v = <<H, T>> \o <<E, F>>
    BY <1>3, <1>7, <1>8, <1>11, <1>12, <1>16, <1>17, <2>1 DEF RevertWrites
  <2> HIDE DEF Good
  <2>3. E \in LinkWrite /\ F \in LinkWrite /\ H \in LinkWrite /\ T \in LinkWrite
    BY <1>9, <1>10, <1>13, <2>1 DEF Good
  <2>4. v \in Seq(LinkWrite) /\ Len(v) = 4 /\ v[1] = H /\ v[2] = T /\ v[3] = E /\ v[4] = F
    BY <2>2, <2>3
  <2>a. /\ Len(v) >= 2 /\ v[Len(v) - 1] = E /\ v[Len(v)] = F
        /\ \A j \in 1 .. Len(v) : Good(v[j])
    BY <1>9, <1>10, <1>13, <2>1, <2>4
  <2>b. /\ p = n /\ heads[l] # n => v[1] = H
        /\ x = n /\ tails[l] # n => v[1] = T \/ v[2] = T
    BY <2>4
  <2>5. Covers(Disk, Image(s), v)
    BY <1>15, <2>4, <2>a, <2>b
  <2> QED BY <1>16, <2>4, <2>5
<1>18. CASE ~ (heads[l] = None \/ tails[l] = None)
  <2>1. CASE heads[l] = x
    <3>1. p = n
      BY <1>3, <2>1
    <3>2. v = <<H>> \o <<E, F>>
      BY <1>3, <1>7, <1>8, <1>11, <1>16, <1>18, <2>1, <3>1 DEF RevertWrites
    <3>3. x = n => tails[l] = n
      BY <1>3, <1>18, <3>1
    <3> HIDE DEF Good
    <3>4. E \in LinkWrite /\ F \in LinkWrite /\ H \in LinkWrite
      BY <1>9, <1>10, <1>13, <3>1 DEF Good
    <3>5. v \in Seq(LinkWrite) /\ Len(v) = 3 /\ v[1] = H /\ v[2] = E /\ v[3] = F
      BY <3>2, <3>4
    <3>a. /\ Len(v) >= 2 /\ v[Len(v) - 1] = E /\ v[Len(v)] = F
          /\ \A j \in 1 .. Len(v) : Good(v[j])
      BY <1>9, <1>10, <1>13, <3>1, <3>5
    <3>b. /\ p = n /\ heads[l] # n => v[1] = H
          /\ x = n /\ tails[l] # n => v[1] = T \/ v[2] = T
      BY <3>3, <3>5
    <3>6. Covers(Disk, Image(s), v)
      BY <1>15, <3>5, <3>a, <3>b
    <3> QED BY <1>16, <3>5, <3>6
  <2>2. CASE heads[l] # x /\ tails[l] = p
    <3>1. x = n /\ p # n
      BY <1>3, <1>18, <2>2
    <3>2. v = <<T>> \o <<E, F>>
      BY <1>3, <1>7, <1>8, <1>12, <1>16, <1>18, <2>2, <3>1 DEF RevertWrites
    <3> HIDE DEF Good
    <3>4. E \in LinkWrite /\ F \in LinkWrite /\ T \in LinkWrite
      BY <1>9, <1>10, <1>13, <3>1 DEF Good
    <3>5. v \in Seq(LinkWrite) /\ Len(v) = 3 /\ v[1] = T /\ v[2] = E /\ v[3] = F
      BY <3>2, <3>4
    <3>a. /\ Len(v) >= 2 /\ v[Len(v) - 1] = E /\ v[Len(v)] = F
          /\ \A j \in 1 .. Len(v) : Good(v[j])
      BY <1>9, <1>10, <1>13, <3>1, <3>5
    <3>b. /\ p = n /\ heads[l] # n => v[1] = H
          /\ x = n /\ tails[l] # n => v[1] = T \/ v[2] = T
      BY <3>1, <3>5
    <3>6. Covers(Disk, Image(s), v)
      BY <1>15, <3>5, <3>a, <3>b
    <3> QED BY <1>16, <3>5, <3>6
  <2>3. CASE heads[l] # x /\ tails[l] # p
    <3>1. (p = n => heads[l] = n) /\ (x = n => tails[l] = n)
      BY <1>3, <1>18, <2>3
    <3>2. v = <<E, F>>
      <4>1. v = <<>> \o <<StoreNode(x, next[x], IF n = x THEN prev[x] ELSE n),
                          StoreNode(p, IF n = p THEN next[p] ELSE n, prev[p])>>
        BY <1>3, <1>16, <1>18, <2>3 DEF RevertWrites
      <4>2. (IF n = x THEN prev[x] ELSE n) = (IF x = n THEN p ELSE n)
        BY <1>3
      <4>3. (IF n = p THEN next[p] ELSE n) = (IF p = n THEN x ELSE n)
        BY <1>3
      <4>4. v = <<>> \o <<E, F>>
        BY <1>3, <1>7, <1>8, <4>1, <4>2, <4>3
      <4> QED BY <4>4
    <3> HIDE DEF Good
    <3>4. E \in LinkWrite /\ F \in LinkWrite
      BY <1>9, <1>10 DEF Good
    <3>5. v \in Seq(LinkWrite) /\ Len(v) = 2 /\ v[1] = E /\ v[2] = F
      BY <3>2, <3>4
    <3>a. /\ Len(v) >= 2 /\ v[Len(v) - 1] = E /\ v[Len(v)] = F
          /\ \A j \in 1 .. Len(v) : Good(v[j])
      BY <1>9, <1>10, <3>5
    <3>b. /\ p = n /\ heads[l] # n => v[1] = H
          /\ x = n /\ tails[l] # n => v[1] = T \/ v[2] = T
      BY <3>1
    <3>6. Covers(Disk, Image(s), v)
      BY <1>15, <3>5, <3>a, <3>b
    <3> QED BY <1>16, <3>5, <3>6
  <2> QED BY <2>1, <2>2, <2>3
<1> QED BY <1>17, <1>18
-----------------------------------------------------------------------------
(* The states of the disk and of the process.  The parameter a is what the *)
(* lists are, seen through the record of the transaction.                  *)

\* The operation op turns the lists s into t.
Change(s, t, n, l, op) ==
  /\ Proper(s) /\ n \in Node /\ l \in List
  /\ \/ op = "insert" /\ ~ In(s, n) /\ t = Inserted(s, n, l)
     \/ op = "remove" /\ \E i \in 1 .. Len(s[l]) : s[l][i] = n /\ t = Removed(s, l, i)

\* Where it commits, and what it adds to the counter.
Key(n, l, op) == IF op = "insert" THEN <<"heads", l>> ELSE <<"node", n>>
Delta(op) == IF op = "insert" THEN 1 ELSE -1

Drift(s) == \A m \in List : /\ sizes[m] <= Len(s[m]) + crashes
                            /\ Len(s[m]) <= sizes[m] + crashes

Record(n, l, op) == transaction = n /\ operation = op /\ operation_list = l

\* The writes after those to the links.
Closing(l, op) == <<Set("sizes", l, Delta(op))>> \o EndTransaction
ClearRecord == <<Set("transaction", None, None), Set("operation", None, "none")>>

\* The writes that open a transaction before the writes r, from each of them on.
Recording(r, n) == <<Set("transaction", None, n)>> \o r
Listing(r, n, l) == <<Set("operation_list", None, l)>> \o Recording(r, n)
Naming(r, n, l, op) == <<Set("operation", None, op)>> \o Listing(r, n, l)
Unnaming(r, n, l, op) == <<Set("operation", None, "none")>> \o Naming(r, n, l, op)
Unrecording(r, n, l, op) == <<Set("transaction", None, None)>> \o Unnaming(r, n, l, op)

Opening(r, n, l, op) ==
  \/ todo = Unrecording(r, n, l, op) /\ transaction = n
  \/ todo = Unnaming(r, n, l, op) /\ transaction = None
  \/ todo = Naming(r, n, l, op) /\ transaction = None
  \/ todo = Listing(r, n, l) /\ transaction = None /\ operation = op
  \/ todo = Recording(r, n) /\ transaction = None /\ operation = op /\ operation_list = l

Typed ==
  /\ heads \in [List -> Address] /\ tails \in [List -> Address]
  /\ next \in [Node -> Address] /\ prev \in [Node -> Address]
  /\ sizes \in [List -> Nat]
  /\ transaction \in Address
  /\ operation \in {"none", "insert", "remove"}
  /\ operation_list \in List
  /\ mode \in {"down", "recovering", "up"}
  /\ todo \in Seq(Update)
  /\ mode = "down" => todo = <<>>
  /\ reinsert = None \/ (reinsert \in Node \X List /\ mode = "up")
  /\ disabled = FALSE
  /\ crashes \in 0 .. MaxCrashes

\* No transaction is recorded: the links are those of the lists.
Steady(a) ==
  /\ Proper(a) /\ Disk = Image(a) /\ Drift(a)
  /\ transaction = None
  /\ todo \in Seq(RecordWrite)
  /\ reinsert # None => ~ In(a, reinsert[1])

\* A transaction is recorded and nothing is left to do of it.
Settled(a) ==
  /\ Proper(a) /\ Disk = Image(a) /\ Drift(a)
  /\ transaction \in Node
  /\ \/ operation = "insert" /\ HeadOf(a)[operation_list] = transaction
     \/ operation = "remove" /\ ~ In(a, transaction)
  /\ mode # "down" => \E r \in Seq(RecordWrite) : todo = <<Set("transaction", None, None)>> \o r
  /\ reinsert # None => ~ In(a, reinsert[1])

\* An operation is about to be recorded, by itself or again by Init.
Starting(a, s, t, n, l, op) ==
  /\ Drift(s)
  /\ mode \in {"up", "recovering"}
  /\ mode = "up" => Disk = Image(s) /\ a = s /\ transaction = None
  /\ mode = "recovering" => op = "insert" /\ operation_list = l /\ operation # "remove" /\ a = t
  /\ reinsert # None => op = "remove" /\ reinsert[1] = n
  /\ \E w \in Seq(LinkWrite) :
       /\ Plan(Disk, Image(s), Image(t), Key(n, l, op), w)
       /\ Opening(w \o Closing(l, op), n, l, op)

\* A recorded operation is under way, before or after it commits.
Working(a, s, t, n, l, op) ==
  /\ Drift(s) /\ mode \in {"up", "recovering"} /\ Record(n, l, op)
  /\ reinsert # None => op = "remove" /\ reinsert[1] = n
  /\ \E w \in Seq(LinkWrite) :
       /\ \/ /\ Plan(Disk, Image(s), Image(t), Key(n, l, op), w)
             /\ a = IF op = "insert" THEN t ELSE s
          \/ Disk = Image(t) /\ Towards(w, Image(t)) /\ a = t
       /\ todo = w \o Closing(l, op)

\* It was interrupted before it committed.
Torn(a, s, t, n, l, op) ==
  /\ Drift(s) /\ mode = "down" /\ Record(n, l, op)
  /\ Between(Disk, Image(s), Image(t), Key(n, l, op))
  /\ a = IF op = "insert" THEN t ELSE s

\* Init takes back what was done of a removal.
Undoing(a, s, t, n, l, op) ==
  /\ Drift(s) /\ mode = "recovering" /\ Record(n, l, op)
  /\ op = "remove" /\ a = s
  /\ Between(Disk, Image(s), Image(t), Key(n, l, op))
  /\ \E v \in Seq(LinkWrite) : Covers(Disk, Image(s), v) /\ todo = v \o ClearRecord

UnderWay(a, s, t, n, l, op) ==
  \/ Starting(a, s, t, n, l, op)
  \/ Working(a, s, t, n, l, op)
  \/ Torn(a, s, t, n, l, op)
  \/ Undoing(a, s, t, n, l, op)

\* The inductive invariant.
LruInv(a) ==
  /\ Typed
  /\ \/ Steady(a)
     \/ Settled(a)
     \/ \E s, t, n, l, op : Change(s, t, n, l, op) /\ UnderWay(a, s, t, n, l, op)

\* The lists stay what they are, or a node is inserted or removed.
Moves(a, b) == a = b \/ \E n, l, op : Change(a, b, n, l, op)

\* The node that was taken out is in no list.
LEMMA RemovedIsOut ==
  ASSUME NEW s, Proper(s), NEW l \in List, NEW i \in 1 .. Len(s[l]),
         NEW t, t = Removed(s, l, i), NEW n, n = s[l][i]
  PROVE  ~ In(t, n)
<1>1. \A y : y \in Elements(t[l]) <=> y \in Elements(s[l]) /\ y # n
  BY RemovedIsProper
<1>2. \A m \in List : m # l => Elements(t[m]) = Elements(s[m])
  BY RemovedIsProper
<1>3. n \in Elements(s[l])
  BY DEF Elements, Proper
<1>4. PICK x : x = NextOf(s)[n]
  OBVIOUS
<1>5. PICK p : p = PrevOf(s)[n]
  OBVIOUS
<1>6. \A m \in List : n \in Elements(s[m]) => m = l
  BY <1>3, <1>4, <1>5, NodeFacts
<1> QED BY <1>1, <1>2, <1>6 DEF In

\* What the proofs use of an operation.
LEMMA ChangeFacts ==
  ASSUME NEW s, NEW t, NEW n, NEW l, NEW op, Change(s, t, n, l, op)
  PROVE  /\ Proper(s) /\ Proper(t) /\ n \in Node /\ l \in List
         /\ op \in {"insert", "remove"}
         /\ op = "insert" => /\ ~ In(s, n) /\ t = Inserted(s, n, l) /\ HeadOf(t)[l] = n
                             /\ Len(t[l]) = Len(s[l]) + 1
         /\ op = "remove" => ~ In(t, n) /\ n \in Elements(s[l]) /\ Len(t[l]) = Len(s[l]) - 1
         /\ \A m \in List : m # l => t[m] = s[m]
         /\ \A m \in List : Len(s[m]) \in Nat /\ Len(t[m]) \in Nat
         /\ Key(n, l, op) \in Loc
<1>1. Proper(s) /\ n \in Node /\ l \in List
  BY DEF Change
<1>2. CASE op = "insert"
  <2>1. ~ In(s, n) /\ t = Inserted(s, n, l)
    BY <1>2 DEF Change
  <2>2. Proper(t)
    BY <1>1, <2>1, InsertedIsProper
  <2>3. Len(t[l]) = Len(s[l]) + 1 /\ \A m \in List : m # l => t[m] = s[m]
    BY <1>1, <2>1, InsertedPlaces
  <2>4. PICK h : h = HeadOf(s)[l]
    OBVIOUS
  <2>5. \A m \in List : HeadOf(t)[m] = IF m = l THEN n ELSE HeadOf(s)[m]
    BY <1>1, <2>1, <2>4, InsertedLinks
  <2>6. \A m \in List : Len(s[m]) \in Nat /\ Len(t[m]) \in Nat
    BY <1>1, <2>2 DEF Proper
  <2>7. Key(n, l, op) \in Loc
    BY <1>1, <1>2, Locations DEF Key
  <2> QED BY <1>1, <1>2, <2>1, <2>2, <2>3, <2>5, <2>6, <2>7
<1>3. CASE op = "remove"
  <2>1. PICK i \in 1 .. Len(s[l]) : s[l][i] = n /\ t = Removed(s, l, i)
    BY <1>3 DEF Change
  <2>2. Proper(t)
    BY <1>1, <2>1, RemovedIsProper
  <2>3. Len(t[l]) = Len(s[l]) - 1 /\ \A m \in List : m # l => t[m] = s[m]
    BY <1>1, <2>1, RemovedPlaces
  <2>4. n \in Elements(s[l])
    BY <1>1, <2>1 DEF Elements, Proper
  <2>8. ~ In(t, n)
    BY <1>1, <2>1, RemovedIsOut
  <2>9. \A m \in List : Len(s[m]) \in Nat /\ Len(t[m]) \in Nat
    BY <1>1, <2>2 DEF Proper
  <2>10. Key(n, l, op) \in Loc
    BY <1>1, <1>3, Locations DEF Key
  <2> QED BY <1>1, <1>3, <2>2, <2>3, <2>4, <2>8, <2>9, <2>10
<1> QED BY <1>2, <1>3 DEF Change

\* The writes of the record and of the counter.
LEMMA RecordWrites ==
  /\ RecordWrite \subseteq Update
  /\ LinkWrite \subseteq Update
  /\ Set("transaction", None, None) \in Update
  /\ \A n \in Node : Set("transaction", None, n) \in Update
  /\ \A l \in List : Set("operation_list", None, l) \in Update
  /\ \A op \in {"none", "insert", "remove"} : Set("operation", None, op) \in Update
  /\ \A l \in List : \A op : Set("sizes", l, Delta(op)) \in Update
BY RankingsAssumption DEF RecordWrite, LinkWrite, Update, Field, Content, Set, Address, List, Delta

\* The writes that end a transaction.
LEMMA ClosingWrites ==
  ASSUME NEW l \in List, NEW op
  PROVE  /\ EndTransaction \in Seq(Update)
         /\ Closing(l, op) \in Seq(Update)
         /\ Head(Closing(l, op)) = Set("sizes", l, Delta(op)) /\ Tail(Closing(l, op)) = EndTransaction
         /\ Closing(l, op) # <<>>
         /\ \E r \in Seq(RecordWrite) : EndTransaction = <<Set("transaction", None, None)>> \o r
         /\ \E r \in Seq(RecordWrite) : ClearRecord = <<Set("transaction", None, None)>> \o r
         /\ ClearRecord \in Seq(Update)
<1>1. PICK a, b, c : /\ a = Set("transaction", None, None)
                     /\ b = Set("operation", None, "none")
                     /\ c = Set("operation_list", None, 0)
  OBVIOUS
<1>2. a \in Update /\ b \in Update /\ c \in Update /\ b \in RecordWrite /\ c \in RecordWrite
  BY <1>1, RecordWrites DEF RecordWrite
<1>3. EndTransaction = <<a, b, c>> /\ ClearRecord = <<a, b>>
  BY <1>1 DEF EndTransaction, ClearRecord
<1>4. EndTransaction \in Seq(Update) /\ ClearRecord \in Seq(Update)
  BY <1>2, <1>3
<1>5. PICK z : z = Set("sizes", l, Delta(op))
  OBVIOUS
<1>6. z \in Update
  BY <1>5, RecordWrites
<1>7. /\ <<z>> \o EndTransaction \in Seq(Update) /\ <<z>> \o EndTransaction # <<>>
      /\ Head(<<z>> \o EndTransaction) = z /\ Tail(<<z>> \o EndTransaction) = EndTransaction
  BY <1>4, <1>6, OneBefore
<1>8. <<a, b, c>> = <<a>> \o <<b, c>> /\ <<b, c>> \in Seq(RecordWrite)
  <2>1. <<a, b, c>> = <<a>> \o <<b, c>>
    OBVIOUS
  <2> QED BY <1>2, <2>1
<1>9. <<a, b>> = <<a>> \o <<b>> /\ <<b>> \in Seq(RecordWrite)
  <2>1. PICK q : q = <<a, b>>
    OBVIOUS
  <2>2. PICK r : r = <<a>> \o <<b>>
    OBVIOUS
  <2>3. q \in Seq(Update) /\ Len(q) = 2 /\ q[1] = a /\ q[2] = b
    BY <1>2, <2>1
  <2>4. r \in Seq(Update) /\ Len(r) = 2 /\ r[1] = a /\ r[2] = b
    BY <1>2, <2>2
  <2>5. q = r
    BY <2>3, <2>4, SeqEqual
  <2> QED BY <1>2, <2>1, <2>2, <2>5
<1>10. Closing(l, op) = <<z>> \o EndTransaction
  BY <1>5 DEF Closing
<1>11. \E r \in Seq(RecordWrite) : EndTransaction = <<a>> \o r
  BY <1>3, <1>8
<1>12. \E r \in Seq(RecordWrite) : ClearRecord = <<a>> \o r
  BY <1>3, <1>9
<1> QED BY <1>1, <1>4, <1>5, <1>7, <1>10, <1>11, <1>12

\* The counter follows the operation, whatever it was off by.
LEMMA SizeStep ==
  ASSUME NEW s, NEW t, NEW n, NEW l, NEW op, Change(s, t, n, l, op), Typed, Drift(s),
         sizes' = [sizes EXCEPT ![l] = Counted(@, Delta(op))], crashes' = crashes
  PROVE  sizes' \in [List -> Nat] /\ Drift(t)'
<1>1. /\ Proper(s) /\ Proper(t) /\ n \in Node /\ l \in List
      /\ op \in {"insert", "remove"}
      /\ op = "insert" => Len(t[l]) = Len(s[l]) + 1
      /\ op = "remove" => n \in Elements(s[l]) /\ Len(t[l]) = Len(s[l]) - 1
      /\ \A m \in List : m # l => t[m] = s[m]
      /\ \A m \in List : Len(s[m]) \in Nat /\ Len(t[m]) \in Nat
  BY ChangeFacts
<1>2. crashes \in Nat /\ sizes \in [List -> Nat]
  BY RankingsAssumption DEF Typed
<1>3. PICK z \in Nat : z = sizes[l]
  BY <1>1, <1>2
<1>4. PICK d \in {1, -1} : d = Delta(op)
  BY DEF Delta
<1>5. PICK y : y = Counted(z, d)
  OBVIOUS
<1>6. y \in Nat /\ y = IF z + d >= 0 THEN z + d ELSE z
  BY <1>3, <1>4, <1>5 DEF Counted
<1>7. sizes' = [sizes EXCEPT ![l] = y]
  BY <1>3, <1>4, <1>5
<1>8. Len(t[l]) = Len(s[l]) + d
  BY <1>1, <1>4 DEF Delta
<1>9. z <= Len(s[l]) + crashes /\ Len(s[l]) <= z + crashes
  BY <1>1, <1>3 DEF Drift
<1>10. y <= Len(t[l]) + crashes /\ Len(t[l]) <= y + crashes
  <2>1. Len(s[l]) \in Nat /\ Len(t[l]) \in Nat
    BY <1>1
  <2> QED BY <1>2, <1>6, <1>8, <1>9, <2>1
<1>11. sizes' \in [List -> Nat]
  BY <1>2, <1>6, <1>7
<1>12. ASSUME NEW m \in List
       PROVE  sizes'[m] <= Len(t[m]) + crashes' /\ Len(t[m]) <= sizes'[m] + crashes'
  <2>1. CASE m = l
    BY <1>2, <1>7, <1>10, <2>1
  <2>2. CASE m # l
    BY <1>1, <1>2, <1>7, <2>2 DEF Drift
  <2> QED BY <2>1, <2>2
<1> QED BY <1>11, <1>12 DEF Drift

\* A crash may lose one change of the counter.
LEMMA SizeLost ==
  ASSUME NEW s, NEW t, NEW n, NEW l, NEW op, Change(s, t, n, l, op), Typed, Drift(s),
         sizes' = sizes, crashes' = crashes + 1
  PROVE  Drift(s)' /\ Drift(t)'
<1>1. /\ l \in List
      /\ op \in {"insert", "remove"}
      /\ op = "insert" => Len(t[l]) = Len(s[l]) + 1
      /\ op = "remove" => Len(t[l]) = Len(s[l]) - 1
      /\ \A m \in List : m # l => t[m] = s[m]
      /\ \A m \in List : Len(s[m]) \in Nat /\ Len(t[m]) \in Nat
  BY ChangeFacts
<1>2. crashes \in Nat /\ sizes \in [List -> Nat]
  BY RankingsAssumption DEF Typed
<1>3. ASSUME NEW u, NEW m \in List, NEW k \in Nat, Len(u[m]) = k,
             k = Len(s[m]) \/ k = Len(s[m]) + 1 \/ k = Len(s[m]) - 1
      PROVE  sizes'[m] <= Len(u[m]) + crashes' /\ Len(u[m]) <= sizes'[m] + crashes'
  <2>1. PICK z \in Nat : z = sizes[m]
    BY <1>2
  <2>2. PICK c \in Nat : c = crashes
    BY <1>2
  <2>3. PICK L \in Nat : L = Len(s[m])
    BY <1>1
  <2>4. z <= L + c /\ L <= z + c
    BY <2>1, <2>2, <2>3 DEF Drift
  <2>5. z <= k + (c + 1) /\ k <= z + (c + 1)
    BY <1>3, <2>3, <2>4
  <2> QED BY <1>3, <2>1, <2>2, <2>5
<1>4. \A m \in List : /\ Len(s[m]) \in Nat /\ Len(t[m]) \in Nat
                     /\ \/ Len(t[m]) = Len(s[m])
                        \/ Len(t[m]) = Len(s[m]) + 1
                        \/ Len(t[m]) = Len(s[m]) - 1
  BY <1>1
<1>5. Drift(s)'
  BY <1>3, <1>4 DEF Drift
<1>6. Drift(t)'
  BY <1>3, <1>4 DEF Drift
<1> QED BY <1>5, <1>6
-----------------------------------------------------------------------------
(* One write gets to disk.                                                 *)

\* The links on disk are those of the four variables.
LEMMA DiskUnchanged ==
  ASSUME heads' = heads, tails' = tails, next' = next, prev' = prev
  PROVE  Disk' = Disk
BY DEF Disk

\* A write to a link changes that location.
LEMMA WriteLink ==
  ASSUME Typed, Write, NEW w \in LinkWrite, Head(todo) = w
  PROVE  /\ Disk' = [Disk EXCEPT ![At(w)] = Value(w)]
         /\ heads' \in [List -> Address] /\ tails' \in [List -> Address]
         /\ next' \in [Node -> Address] /\ prev' \in [Node -> Address]
         /\ UNCHANGED <<sizes, transaction, operation, operation_list>>
<1>1. At(w) \in Loc /\ w.to \in Address /\ w.back \in Address
  BY LinkWriteFacts
<1>2. /\ heads' = IF w.field = "heads" THEN [heads EXCEPT ![w.at] = w.to] ELSE heads
      /\ tails' = IF w.field = "tails" THEN [tails EXCEPT ![w.at] = w.to] ELSE tails
      /\ next' = IF w.field = "node" THEN [next EXCEPT ![w.at] = w.to] ELSE next
      /\ prev' = IF w.field = "node" THEN [prev EXCEPT ![w.at] = w.back] ELSE prev
      /\ sizes' = IF w.field = "sizes" THEN [sizes EXCEPT ![w.at] = Counted(@, w.to)] ELSE sizes
      /\ transaction' = IF w.field = "transaction" THEN w.to ELSE transaction
      /\ operation' = IF w.field = "operation" THEN w.to ELSE operation
      /\ operation_list' = IF w.field = "operation_list" THEN w.to ELSE operation_list
  BY DEF Write
<1>3. \/ w.field = "heads" /\ w.at \in List
      \/ w.field = "tails" /\ w.at \in List
      \/ w.field = "node" /\ w.at \in Node
  BY <1>1 DEF Loc, At
<1>4. /\ heads \in [List -> Address] /\ tails \in [List -> Address]
      /\ next \in [Node -> Address] /\ prev \in [Node -> Address]
  BY DEF Typed
<1>5. /\ heads' \in [List -> Address] /\ tails' \in [List -> Address]
      /\ next' \in [Node -> Address] /\ prev' \in [Node -> Address]
  BY <1>1, <1>2, <1>3, <1>4
<1>6. UNCHANGED <<sizes, transaction, operation, operation_list>>
  BY <1>2, <1>3
<1>7. /\ \A m \in List : /\ Disk[<<"heads", m>>] = <<heads[m], None>>
                         /\ Disk[<<"tails", m>>] = <<tails[m], None>>
      /\ \A y \in Node : Disk[<<"node", y>>] = <<next[y], prev[y]>>
  BY DiskAt
<1>8. /\ \A m \in List : /\ Disk'[<<"heads", m>>] = <<heads'[m], None>>
                         /\ Disk'[<<"tails", m>>] = <<tails'[m], None>>
      /\ \A y \in Node : Disk'[<<"node", y>>] = <<next'[y], prev'[y]>>
  BY LinksOf DEF Disk
<1>9. Disk = [k \in Loc |-> Disk[k]] /\ Disk' = [k \in Loc |-> Disk'[k]]
  BY DEF Disk, Links
<1>10. w.field # "node" => w.back = None
  BY LinkWriteFacts
<1>11. At(w) = <<w.field, w.at>> /\ Value(w) = <<w.to, w.back>>
  BY DEF At, Value
<1>12. ASSUME NEW m \in List
       PROVE  Disk'[<<"heads", m>>] = IF <<"heads", m>> = At(w) THEN Value(w) ELSE Disk[<<"heads", m>>]
  <2>1. CASE w.field = "heads" /\ w.at = m
    <3>1. heads'[m] = w.to /\ w.back = None /\ At(w) = <<"heads", m>> /\ Value(w) = <<w.to, None>>
      BY <1>2, <1>4, <1>10, <1>11, <2>1
    <3> QED BY <1>8, <3>1
  <2>2. CASE ~ (w.field = "heads" /\ w.at = m)
    <3>1. heads'[m] = heads[m] /\ At(w) # <<"heads", m>>
      BY <1>2, <1>4, <1>11, <2>2
    <3> QED BY <1>7, <1>8, <3>1
  <2> QED BY <2>1, <2>2
<1>13. ASSUME NEW m \in List
       PROVE  Disk'[<<"tails", m>>] = IF <<"tails", m>> = At(w) THEN Value(w) ELSE Disk[<<"tails", m>>]
  <2>1. CASE w.field = "tails" /\ w.at = m
    <3>1. tails'[m] = w.to /\ w.back = None /\ At(w) = <<"tails", m>> /\ Value(w) = <<w.to, None>>
      BY <1>2, <1>4, <1>10, <1>11, <2>1
    <3> QED BY <1>8, <3>1
  <2>2. CASE ~ (w.field = "tails" /\ w.at = m)
    <3>1. tails'[m] = tails[m] /\ At(w) # <<"tails", m>>
      BY <1>2, <1>4, <1>11, <2>2
    <3> QED BY <1>7, <1>8, <3>1
  <2> QED BY <2>1, <2>2
<1>14. ASSUME NEW y \in Node
       PROVE  Disk'[<<"node", y>>] = IF <<"node", y>> = At(w) THEN Value(w) ELSE Disk[<<"node", y>>]
  <2>1. CASE w.field = "node" /\ w.at = y
    <3>1. next'[y] = w.to /\ prev'[y] = w.back /\ At(w) = <<"node", y>>
      BY <1>2, <1>4, <1>11, <2>1
    <3> QED BY <1>8, <1>11, <3>1
  <2>2. CASE ~ (w.field = "node" /\ w.at = y)
    <3>1. next'[y] = next[y] /\ prev'[y] = prev[y] /\ At(w) # <<"node", y>>
      BY <1>2, <1>4, <1>11, <2>2
    <3> QED BY <1>7, <1>8, <3>1
  <2> QED BY <2>1, <2>2
<1>15. \A k \in Loc : Disk'[k] = IF k = At(w) THEN Value(w) ELSE Disk[k]
  BY <1>12, <1>13, <1>14, Locations
<1>16. PICK d, e : d = Disk /\ e = Disk'
  OBVIOUS
<1>17. e = [d EXCEPT ![At(w)] = Value(w)]
  BY <1>1, <1>9, <1>15, <1>16
<1> QED BY <1>5, <1>6, <1>16, <1>17

\* The other writes.
LEMMA WriteOther ==
  ASSUME Typed, Write, NEW w, Head(todo) = w, w.field \notin {"heads", "tails", "node"}
  PROVE  /\ Disk' = Disk /\ heads' = heads /\ tails' = tails /\ next' = next /\ prev' = prev
         /\ sizes' = IF w.field = "sizes" THEN [sizes EXCEPT ![w.at] = Counted(@, w.to)] ELSE sizes
         /\ transaction' = IF w.field = "transaction" THEN w.to ELSE transaction
         /\ operation' = IF w.field = "operation" THEN w.to ELSE operation
         /\ operation_list' = IF w.field = "operation_list" THEN w.to ELSE operation_list
<1>1. heads' = heads /\ tails' = tails /\ next' = next /\ prev' = prev
  BY DEF Write
<1> QED BY <1>1, DiskUnchanged DEF Write

\* What is left to write, and what no write touches.
LEMMA WriteRest ==
  ASSUME Typed, Write
  PROVE  /\ todo # <<>> /\ todo' = Tail(todo) /\ todo' \in Seq(Update)
         /\ mode' = mode /\ mode \in {"up", "recovering"}
         /\ reinsert' = reinsert /\ disabled' = disabled /\ crashes' = crashes
BY DEF Write, Typed

\* A write of the record of the transaction.
LEMMA WriteRecord ==
  ASSUME NEW w, NEW op \in {"none", "insert", "remove"}, NEW l \in List, NEW n \in Address,
         Typed, Write, Head(todo) = w,
         w \in {Set("operation", None, op), Set("operation_list", None, l), Set("transaction", None, n)}
  PROVE  /\ Typed'
         /\ Disk' = Disk /\ sizes' = sizes
         /\ w = Set("operation", None, op) =>
              operation' = op /\ operation_list' = operation_list /\ transaction' = transaction
         /\ w = Set("operation_list", None, l) =>
              operation' = operation /\ operation_list' = l /\ transaction' = transaction
         /\ w = Set("transaction", None, n) =>
              operation' = operation /\ operation_list' = operation_list /\ transaction' = n
<1>1. w.field \notin {"heads", "tails", "node"} /\ w.field # "sizes"
  BY DEF Set
<1>2. /\ Disk' = Disk /\ heads' = heads /\ tails' = tails /\ next' = next /\ prev' = prev
      /\ sizes' = sizes
      /\ transaction' = IF w.field = "transaction" THEN w.to ELSE transaction
      /\ operation' = IF w.field = "operation" THEN w.to ELSE operation
      /\ operation_list' = IF w.field = "operation_list" THEN w.to ELSE operation_list
  BY <1>1, WriteOther
<1>3. /\ w = Set("operation", None, op) =>
           operation' = op /\ operation_list' = operation_list /\ transaction' = transaction
      /\ w = Set("operation_list", None, l) =>
           operation' = operation /\ operation_list' = l /\ transaction' = transaction
      /\ w = Set("transaction", None, n) =>
           operation' = operation /\ operation_list' = operation_list /\ transaction' = n
  BY <1>2 DEF Set
<1>4. /\ todo' \in Seq(Update) /\ mode' = mode /\ mode \in {"up", "recovering"}
      /\ reinsert' = reinsert /\ disabled' = disabled /\ crashes' = crashes
  BY WriteRest
<1>5. Typed'
  BY <1>2, <1>3, <1>4 DEF Typed
<1> QED BY <1>2, <1>3, <1>5

\* The drift depends on the counters and the crashes.
LEMMA DriftUnchanged ==
  ASSUME NEW s, Drift(s), sizes' = sizes, crashes' = crashes
  PROVE  Drift(s)'
BY DEF Drift

\* A write when no transaction is recorded.
LEMMA WriteSteady ==
  ASSUME Typed, Write, NEW a, Steady(a)
  PROVE  Typed' /\ Steady(a)'
<1>1. /\ todo # <<>> /\ todo' = Tail(todo) /\ mode' = mode
      /\ reinsert' = reinsert /\ crashes' = crashes
  BY WriteRest
<1>2. todo \in Seq(RecordWrite) /\ transaction = None
  BY DEF Steady
<1>3. Head(todo) \in RecordWrite /\ todo' \in Seq(RecordWrite)
  BY <1>1, <1>2
<1>4. PICK w : w = Head(todo)
  OBVIOUS
<1>5. PICK op, l, n : op = "none" /\ l = 0 /\ n = None
  OBVIOUS
<1>6. op \in {"none", "insert", "remove"} /\ l \in List /\ n \in Address
  BY <1>5, RankingsAssumption DEF List, Address
<1>7. w \in {Set("operation", None, op), Set("operation_list", None, l)}
  BY <1>3, <1>4, <1>5 DEF RecordWrite
<1>8. /\ Typed' /\ Disk' = Disk /\ sizes' = sizes
      /\ w = Set("operation", None, op) => transaction' = transaction
      /\ w = Set("operation_list", None, l) => transaction' = transaction
  BY <1>4, <1>6, <1>7, WriteRecord
<1>9. Drift(a)'
  BY <1>1, <1>8, DriftUnchanged DEF Steady
<1> QED BY <1>1, <1>2, <1>3, <1>7, <1>8, <1>9 DEF Steady

\* The write that clears the record of a finished operation.
LEMMA WriteSettled ==
  ASSUME Typed, Write, NEW a, Settled(a)
  PROVE  Typed' /\ Steady(a)'
<1>1. /\ todo # <<>> /\ todo' = Tail(todo) /\ mode' = mode /\ mode \in {"up", "recovering"}
      /\ reinsert' = reinsert /\ crashes' = crashes
  BY WriteRest
<1>2. PICK r \in Seq(RecordWrite) : todo = <<Set("transaction", None, None)>> \o r
  BY <1>1 DEF Settled
<1>3. PICK w : w = Set("transaction", None, None)
  OBVIOUS
<1>4. r \in Seq(Update) /\ w \in Update
  BY <1>3, RecordWrites
<1>5. Head(todo) = w /\ todo' = r
  BY <1>1, <1>2, <1>3, <1>4, OneBefore
<1>6. PICK op, l, n : op = "none" /\ l = 0 /\ n = None
  OBVIOUS
<1>7. op \in {"none", "insert", "remove"} /\ l \in List /\ n \in Address
  BY <1>6, RankingsAssumption DEF List, Address
<1>8. w = Set("transaction", None, n)
  BY <1>3, <1>6
<1>9. /\ Typed' /\ Disk' = Disk /\ sizes' = sizes /\ transaction' = n
  BY <1>5, <1>7, <1>8, WriteRecord
<1>10. Drift(a)'
  BY <1>1, <1>9, DriftUnchanged DEF Settled
<1> QED BY <1>1, <1>2, <1>5, <1>6, <1>9, <1>10 DEF Steady, Settled

\* The writes that open a transaction.
LEMMA OpeningWrites ==
  ASSUME NEW r \in Seq(Update), NEW n \in Node, NEW l \in List, NEW op \in {"insert", "remove"}
  PROVE  /\ Recording(r, n) \in Seq(Update)
         /\ Head(Recording(r, n)) = Set("transaction", None, n) /\ Tail(Recording(r, n)) = r
         /\ Listing(r, n, l) \in Seq(Update)
         /\ Head(Listing(r, n, l)) = Set("operation_list", None, l)
         /\ Tail(Listing(r, n, l)) = Recording(r, n)
         /\ Naming(r, n, l, op) \in Seq(Update)
         /\ Head(Naming(r, n, l, op)) = Set("operation", None, op)
         /\ Tail(Naming(r, n, l, op)) = Listing(r, n, l)
         /\ Unnaming(r, n, l, op) \in Seq(Update)
         /\ Head(Unnaming(r, n, l, op)) = Set("operation", None, "none")
         /\ Tail(Unnaming(r, n, l, op)) = Naming(r, n, l, op)
         /\ Unrecording(r, n, l, op) \in Seq(Update)
         /\ Head(Unrecording(r, n, l, op)) = Set("transaction", None, None)
         /\ Tail(Unrecording(r, n, l, op)) = Unnaming(r, n, l, op)
<1>1. /\ Set("transaction", None, n) \in Update /\ Set("operation_list", None, l) \in Update
      /\ Set("operation", None, op) \in Update /\ Set("operation", None, "none") \in Update
      /\ Set("transaction", None, None) \in Update
  BY RecordWrites
<1>2. /\ Recording(r, n) \in Seq(Update)
      /\ Head(Recording(r, n)) = Set("transaction", None, n) /\ Tail(Recording(r, n)) = r
  BY <1>1, OneBefore DEF Recording
<1>3. /\ Listing(r, n, l) \in Seq(Update)
      /\ Head(Listing(r, n, l)) = Set("operation_list", None, l)
      /\ Tail(Listing(r, n, l)) = Recording(r, n)
  BY <1>1, <1>2, OneBefore DEF Listing
<1>4. /\ Naming(r, n, l, op) \in Seq(Update)
      /\ Head(Naming(r, n, l, op)) = Set("operation", None, op)
      /\ Tail(Naming(r, n, l, op)) = Listing(r, n, l)
  BY <1>1, <1>3, OneBefore DEF Naming
<1>5. /\ Unnaming(r, n, l, op) \in Seq(Update)
      /\ Head(Unnaming(r, n, l, op)) = Set("operation", None, "none")
      /\ Tail(Unnaming(r, n, l, op)) = Naming(r, n, l, op)
  BY <1>1, <1>4, OneBefore DEF Unnaming
<1>6. /\ Unrecording(r, n, l, op) \in Seq(Update)
      /\ Head(Unrecording(r, n, l, op)) = Set("transaction", None, None)
      /\ Tail(Unrecording(r, n, l, op)) = Unnaming(r, n, l, op)
  BY <1>1, <1>5, OneBefore DEF Unrecording
<1> QED BY <1>2, <1>3, <1>4, <1>5, <1>6

\* A write of those that open a transaction; the last makes an insertion happen.
LEMMA WriteStarting ==
  ASSUME Typed, Write, NEW a, NEW s, NEW t, NEW n, NEW l, NEW op,
         Change(s, t, n, l, op), Starting(a, s, t, n, l, op)
  PROVE  /\ Typed'
         /\ \E b : /\ Moves(a, b)
                   /\ Starting(b, s, t, n, l, op)' \/ Working(b, s, t, n, l, op)'
<1>1. /\ todo # <<>> /\ todo' = Tail(todo) /\ mode' = mode /\ mode \in {"up", "recovering"}
      /\ reinsert' = reinsert /\ crashes' = crashes
  BY WriteRest
<1>2. n \in Node /\ l \in List /\ op \in {"insert", "remove"}
  BY ChangeFacts
<1>3. PICK w \in Seq(LinkWrite) : /\ Plan(Disk, Image(s), Image(t), Key(n, l, op), w)
                                  /\ Opening(w \o Closing(l, op), n, l, op)
  BY DEF Starting
<1>4. PICK r : r = w \o Closing(l, op)
  OBVIOUS
<1>5. r \in Seq(Update)
  <2>1. w \in Seq(Update)
    BY RecordWrites
  <2>2. Closing(l, op) \in Seq(Update)
    BY <1>2, ClosingWrites
  <2> QED BY <1>4, <2>1, <2>2, ConcatProperties
<1>6. Opening(r, n, l, op)
  BY <1>3, <1>4
<1>7. PICK h : h = Head(todo)
  OBVIOUS
<1>8. ASSUME Typed', Disk' = Disk, sizes' = sizes, Opening(r, n, l, op)',
             mode = "up" => transaction' = None,
             mode = "recovering" => operation_list' = l /\ operation' # "remove"
      PROVE  Starting(a, s, t, n, l, op)'
  <2>1. Drift(s)'
    BY <1>1, <1>8, DriftUnchanged DEF Starting
  <2>2. Plan(Disk', Image(s), Image(t), Key(n, l, op), w)
    BY <1>3, <1>8
  <2>3. Opening(w \o Closing(l, op), n, l, op)'
    BY <1>4, <1>8
  <2>4. \E v \in Seq(LinkWrite) : /\ Plan(Disk', Image(s), Image(t), Key(n, l, op), v)
                                  /\ Opening(v \o Closing(l, op), n, l, op)'
    BY <2>2, <2>3
  <2> QED BY <1>1, <1>8, <2>1, <2>4 DEF Starting
<1>9. /\ mode = "up" => transaction = None
      /\ mode = "recovering" => op = "insert" /\ operation_list = l /\ operation # "remove"
  BY DEF Starting
<1>10. Moves(a, a)
  BY DEF Moves
<1>11. None \in Address /\ n \in Address /\ n # None
  BY <1>2, RankingsAssumption DEF Address
<1>12. CASE todo = Unrecording(r, n, l, op) /\ transaction = n
  <2>1. h = Set("transaction", None, None) /\ todo' = Unnaming(r, n, l, op)
    BY <1>1, <1>2, <1>5, <1>7, <1>12, OpeningWrites
  <2>2. /\ Typed' /\ Disk' = Disk /\ sizes' = sizes
        /\ operation' = operation /\ operation_list' = operation_list /\ transaction' = None
    BY <1>2, <1>7, <1>11, <2>1, WriteRecord
  <2>3. Opening(r, n, l, op)'
    BY <2>1, <2>2 DEF Opening
  <2> QED BY <1>8, <1>9, <1>10, <2>2, <2>3
<1>13. CASE todo = Unnaming(r, n, l, op) /\ transaction = None
  <2>1. h = Set("operation", None, "none") /\ todo' = Naming(r, n, l, op)
    BY <1>1, <1>2, <1>5, <1>7, <1>13, OpeningWrites
  <2>2. PICK o \in {"none", "insert", "remove"} : o = "none"
    OBVIOUS
  <2>3. /\ Typed' /\ Disk' = Disk /\ sizes' = sizes
        /\ operation' = o /\ operation_list' = operation_list /\ transaction' = transaction
    BY <1>2, <1>7, <1>11, <2>1, <2>2, WriteRecord
  <2>4. Opening(r, n, l, op)'
    BY <1>13, <2>1, <2>3 DEF Opening
  <2> QED BY <1>8, <1>9, <1>10, <1>13, <2>2, <2>3, <2>4
<1>14. CASE todo = Naming(r, n, l, op) /\ transaction = None
  <2>1. h = Set("operation", None, op) /\ todo' = Listing(r, n, l)
    BY <1>1, <1>2, <1>5, <1>7, <1>14, OpeningWrites, ZenonT(60)
  <2>3. /\ Typed' /\ Disk' = Disk /\ sizes' = sizes
        /\ operation' = op /\ operation_list' = operation_list /\ transaction' = transaction
    BY <1>2, <1>7, <1>11, <2>1, WriteRecord
  <2>4. Opening(r, n, l, op)'
    BY <1>14, <2>1, <2>3 DEF Opening
  <2> QED BY <1>8, <1>9, <1>10, <1>14, <2>3, <2>4
<1>15. CASE todo = Listing(r, n, l) /\ transaction = None /\ operation = op
  <2>1. h = Set("operation_list", None, l) /\ todo' = Recording(r, n)
    BY <1>1, <1>2, <1>5, <1>7, <1>15, OpeningWrites
  <2>3. /\ Typed' /\ Disk' = Disk /\ sizes' = sizes
        /\ operation' = operation /\ operation_list' = l /\ transaction' = transaction
    BY <1>2, <1>7, <1>11, <2>1, WriteRecord
  <2>4. Opening(r, n, l, op)'
    BY <1>15, <2>1, <2>3 DEF Opening
  <2> QED BY <1>8, <1>9, <1>10, <1>15, <2>3, <2>4
<1>16. CASE todo = Recording(r, n) /\ transaction = None /\ operation = op /\ operation_list = l
  <2>1. h = Set("transaction", None, n) /\ todo' = r
    BY <1>1, <1>2, <1>5, <1>7, <1>16, OpeningWrites
  <2>3. /\ Typed' /\ Disk' = Disk /\ sizes' = sizes
        /\ operation' = operation /\ operation_list' = operation_list /\ transaction' = n
    BY <1>2, <1>7, <1>11, <2>1, WriteRecord
  <2>4. PICK b : b = IF op = "insert" THEN t ELSE s
    OBVIOUS
  <2>5. Moves(a, b)
    BY <1>1, <2>4 DEF Starting, Moves
  <2>6. Record(n, l, op)'
    BY <1>16, <2>3 DEF Record
  <2>7. Drift(s)'
    BY <1>1, <2>3, DriftUnchanged DEF Starting
  <2>8. Plan(Disk', Image(s), Image(t), Key(n, l, op), w)
    BY <1>3, <2>3
  <2>9. todo' = w \o Closing(l, op)
    BY <1>4, <2>1
  <2>10. \E v \in Seq(LinkWrite) : /\ Plan(Disk', Image(s), Image(t), Key(n, l, op), v)
                                   /\ b = IF op = "insert" THEN t ELSE s
                                   /\ todo' = v \o Closing(l, op)
    BY <2>4, <2>8, <2>9
  <2>11. Working(b, s, t, n, l, op)'
    BY <1>1, <2>6, <2>7, <2>10 DEF Working, Starting
  <2> QED BY <2>3, <2>5, <2>11
<1> QED BY <1>6, <1>12, <1>13, <1>14, <1>15, <1>16 DEF Opening

\* A write to a link, the first of several, and the others.
LEMMA FirstLinkWrite ==
  ASSUME Typed, Write, NEW w \in Seq(LinkWrite), w # <<>>, NEW r \in Seq(Update), todo = w \o r
  PROVE  /\ Typed'
         /\ Disk' = [Disk EXCEPT ![At(w[1])] = Value(w[1])]
         /\ todo' = Tail(w) \o r /\ Tail(w) \in Seq(LinkWrite)
         /\ UNCHANGED <<sizes, transaction, operation, operation_list>>
<1>1. w \in Seq(Update)
  BY RecordWrites
<1>2. Head(todo) = w[1] /\ Tail(todo) = Tail(w) \o r
  BY <1>1, FirstOfConcat
<1>3. w[1] \in LinkWrite /\ Tail(w) \in Seq(LinkWrite)
  OBVIOUS
<1>4. /\ todo' = Tail(todo) /\ todo' \in Seq(Update) /\ mode' = mode /\ mode \in {"up", "recovering"}
      /\ reinsert' = reinsert /\ disabled' = disabled /\ crashes' = crashes
  BY WriteRest
<1>5. PICK h : h = w[1]
  OBVIOUS
<1>6. /\ Disk' = [Disk EXCEPT ![At(h)] = Value(h)]
      /\ heads' \in [List -> Address] /\ tails' \in [List -> Address]
      /\ next' \in [Node -> Address] /\ prev' \in [Node -> Address]
      /\ UNCHANGED <<sizes, transaction, operation, operation_list>>
  BY <1>2, <1>3, <1>5, WriteLink
<1>7. Typed'
  BY <1>4, <1>6 DEF Typed
<1> QED BY <1>2, <1>3, <1>4, <1>5, <1>6, <1>7

\* A write of the operation itself; storing the node makes a removal happen.
LEMMA WriteWorking ==
  ASSUME Typed, Write, NEW a, NEW s, NEW t, NEW n, NEW l, NEW op,
         Change(s, t, n, l, op), Working(a, s, t, n, l, op)
  PROVE  /\ Typed'
         /\ \E b : /\ Moves(a, b)
                   /\ Working(b, s, t, n, l, op)' \/ Settled(b)'
<1>1. /\ todo # <<>> /\ todo' = Tail(todo) /\ mode' = mode /\ mode \in {"up", "recovering"}
      /\ reinsert' = reinsert /\ disabled' = disabled /\ crashes' = crashes
      /\ todo' \in Seq(Update)
  BY WriteRest
<1>2. /\ Proper(t) /\ n \in Node /\ l \in List /\ op \in {"insert", "remove"}
      /\ Key(n, l, op) \in Loc
      /\ op = "insert" => HeadOf(t)[l] = n
      /\ op = "remove" => ~ In(t, n)
  BY ChangeFacts
<1>3. PICK w \in Seq(LinkWrite) :
        /\ \/ /\ Plan(Disk, Image(s), Image(t), Key(n, l, op), w)
              /\ a = IF op = "insert" THEN t ELSE s
           \/ Disk = Image(t) /\ Towards(w, Image(t)) /\ a = t
        /\ todo = w \o Closing(l, op)
  BY DEF Working
<1>4. Drift(s) /\ Record(n, l, op) /\ (reinsert # None => op = "remove" /\ reinsert[1] = n)
  BY DEF Working
<1>5. PICK r \in Seq(Update) : r = Closing(l, op)
  BY <1>2, ClosingWrites
<1>6. Moves(a, a)
  BY DEF Moves
<1>7. CASE w # <<>>
  <2>1. PICK v : v = Tail(w)
    OBVIOUS
  <2>2. /\ Typed'
        /\ Disk' = [Disk EXCEPT ![At(w[1])] = Value(w[1])]
        /\ todo' = v \o Closing(l, op) /\ v \in Seq(LinkWrite)
        /\ UNCHANGED <<sizes, transaction, operation, operation_list>>
    BY <1>3, <1>5, <1>7, <2>1, FirstLinkWrite
  <2>3. Record(n, l, op)' /\ Drift(s)'
    <3>1. Record(n, l, op)'
      BY <1>4, <2>2 DEF Record
    <3> QED BY <1>1, <1>4, <2>2, <3>1, DriftUnchanged
  <2>4. ASSUME NEW b,
               \/ Plan(Disk', Image(s), Image(t), Key(n, l, op), v) /\ b = IF op = "insert" THEN t ELSE s
               \/ Disk' = Image(t) /\ Towards(v, Image(t)) /\ b = t
        PROVE  Working(b, s, t, n, l, op)'
    <3>1. \E u \in Seq(LinkWrite) :
            /\ \/ /\ Plan(Disk', Image(s), Image(t), Key(n, l, op), u)
                  /\ b = IF op = "insert" THEN t ELSE s
               \/ Disk' = Image(t) /\ Towards(u, Image(t)) /\ b = t
            /\ todo' = u \o Closing(l, op)
      BY <2>2, <2>4
    <3> QED BY <1>1, <1>4, <2>3, <3>1 DEF Working
  <2>5. PICK d, e : d = Disk /\ e = Disk'
    OBVIOUS
  <2>6. PICK i, j, k : i = Image(s) /\ j = Image(t) /\ k = Key(n, l, op)
    OBVIOUS
  <2>7. /\ d = [q \in Loc |-> d[q]] /\ j = [q \in Loc |-> j[q]]
        /\ e = [d EXCEPT ![At(w[1])] = Value(w[1])] /\ k \in Loc
    BY <1>2, <2>2, <2>5, <2>6, DiskIsFunction, ImageIsFunction
  <2>8. CASE Plan(d, i, j, k, w) /\ a = IF op = "insert" THEN t ELSE s
    <3>1. \/ Plan(e, i, j, k, v)
          \/ e = j /\ Towards(v, j)
      BY <2>1, <2>7, <2>8, PlanStep
    <3>2. CASE Plan(e, i, j, k, v)
      <4>1. Working(a, s, t, n, l, op)'
        BY <2>4, <2>5, <2>6, <2>8, <3>2
      <4> QED BY <1>6, <2>2, <4>1
    <3>3. CASE e = j /\ Towards(v, j)
      <4>1. Working(t, s, t, n, l, op)'
        BY <2>4, <2>5, <2>6, <3>3
      <4>2. Moves(a, t)
        BY <1>2, <2>8 DEF Moves
      <4> QED BY <2>2, <4>1, <4>2
    <3> QED BY <3>1, <3>2, <3>3
  <2>9. CASE d = j /\ Towards(w, j) /\ a = t
    <3>1. [j EXCEPT ![At(w[1])] = Value(w[1])] = j /\ Towards(v, j)
      BY <1>7, <2>1, <2>7, <2>9, TowardsStep
    <3>2. e = j
      BY <2>7, <2>9, <3>1
    <3>3. Working(a, s, t, n, l, op)'
      BY <2>4, <2>5, <2>6, <2>9, <3>1, <3>2
    <3> QED BY <1>6, <2>2, <3>3
  <2> QED BY <1>3, <2>5, <2>6, <2>8, <2>9
<1>8. CASE w = <<>>
  <2>1. ~ Plan(Disk, Image(s), Image(t), Key(n, l, op), w)
    BY <1>8 DEF Plan
  <2>2. Disk = Image(t) /\ a = t
    BY <1>3, <2>1
  <2>3. todo = Closing(l, op)
    <3>1. todo = <<>> \o r
      BY <1>3, <1>5, <1>8
    <3> QED BY <1>5, <3>1, ConcatEmptySeq
  <2>4. PICK h : h = Set("sizes", l, Delta(op))
    OBVIOUS
  <2>5. Head(todo) = h /\ todo' = EndTransaction
    BY <1>1, <1>2, <2>3, <2>4, ClosingWrites
  <2>6. h.field = "sizes" /\ h.at = l /\ h.to = Delta(op)
    BY <2>4 DEF Set
  <2>7. h.field \notin {"heads", "tails", "node"}
    BY <2>6
  <2>8. /\ Disk' = Disk /\ heads' = heads /\ tails' = tails /\ next' = next /\ prev' = prev
        /\ sizes' = [sizes EXCEPT ![l] = Counted(@, Delta(op))]
        /\ transaction' = transaction /\ operation' = operation /\ operation_list' = operation_list
    BY <2>5, <2>6, <2>7, WriteOther
  <2>9. sizes' \in [List -> Nat] /\ Drift(t)'
    BY <1>1, <1>4, <2>8, SizeStep
  <2>10. Typed'
    BY <1>1, <2>8, <2>9 DEF Typed
  <2>11. \E q \in Seq(RecordWrite) : todo' = <<Set("transaction", None, None)>> \o q
    BY <1>2, <2>5, ClosingWrites
  <2>12. transaction' = n /\ operation' = op /\ operation_list' = l
    BY <1>4, <2>8 DEF Record
  <2>13. reinsert' # None => ~ In(t, reinsert'[1])
    BY <1>1, <1>2, <1>4
  <2>14. Settled(t)'
    BY <1>2, <2>2, <2>8, <2>9, <2>11, <2>12, <2>13 DEF Settled
  <2> QED BY <1>6, <2>2, <2>10, <2>14
<1> QED BY <1>7, <1>8

\* A write of RevertRemove, and then the one that clears the record.
LEMMA WriteUndoing ==
  ASSUME Typed, Write, NEW a, NEW s, NEW t, NEW n, NEW l, NEW op,
         Change(s, t, n, l, op), Undoing(a, s, t, n, l, op)
  PROVE  /\ Typed'
         /\ Undoing(a, s, t, n, l, op)' \/ Steady(a)'
<1>1. /\ todo # <<>> /\ todo' = Tail(todo) /\ mode' = mode /\ mode \in {"up", "recovering"}
      /\ reinsert' = reinsert /\ disabled' = disabled /\ crashes' = crashes
      /\ todo' \in Seq(Update)
  BY WriteRest
<1>2. /\ Proper(s) /\ n \in Node /\ l \in List /\ op \in {"insert", "remove"}
      /\ Key(n, l, op) \in Loc
  BY ChangeFacts
<1>3. /\ Drift(s) /\ mode = "recovering" /\ Record(n, l, op) /\ op = "remove" /\ a = s
      /\ Between(Disk, Image(s), Image(t), Key(n, l, op))
  BY DEF Undoing
<1>4. PICK v \in Seq(LinkWrite) : Covers(Disk, Image(s), v) /\ todo = v \o ClearRecord
  BY DEF Undoing
<1>5. PICK r \in Seq(Update) : r = ClearRecord
  BY <1>2, ClosingWrites
<1>6. CASE v # <<>>
  <2>1. PICK u : u = Tail(v)
    OBVIOUS
  <2>2. /\ Typed'
        /\ Disk' = [Disk EXCEPT ![At(v[1])] = Value(v[1])]
        /\ todo' = u \o ClearRecord /\ u \in Seq(LinkWrite)
        /\ UNCHANGED <<sizes, transaction, operation, operation_list>>
    BY <1>4, <1>5, <1>6, <2>1, FirstLinkWrite
  <2>3. Record(n, l, op)'
    BY <1>3, <2>2 DEF Record
  <2>4. Drift(s)'
    BY <1>1, <1>3, <2>2, DriftUnchanged
  <2>5. PICK d, e : d = Disk /\ e = Disk'
    OBVIOUS
  <2>6. PICK i, j, k : i = Image(s) /\ j = Image(t) /\ k = Key(n, l, op)
    OBVIOUS
  <2>7. /\ d = [q \in Loc |-> d[q]] /\ k \in Loc
        /\ e = [d EXCEPT ![At(v[1])] = Value(v[1])]
    BY <1>2, <2>2, <2>5, <2>6, DiskIsFunction
  <2>8. Covers(d, i, v) /\ Between(d, i, j, k)
    BY <1>3, <1>4, <2>5, <2>6
  <2>9. Covers(e, i, u) /\ \A q \in Loc : e[q] = d[q] \/ e[q] = i[q]
    BY <1>6, <2>1, <2>7, <2>8, CoversStep
  <2>10. Between(e, i, j, k)
    BY <2>7, <2>8, <2>9 DEF Between
  <2>11. \E z \in Seq(LinkWrite) : Covers(Disk', Image(s), z) /\ todo' = z \o ClearRecord
    BY <2>2, <2>5, <2>6, <2>9
  <2>12. Undoing(a, s, t, n, l, op)'
    BY <1>1, <1>3, <2>3, <2>4, <2>5, <2>6, <2>10, <2>11 DEF Undoing
  <2> QED BY <2>2, <2>12
<1>7. CASE v = <<>>
  <2>1. \A k \in Loc : Disk[k] = Image(s)[k]
    BY <1>4, <1>7 DEF Covers
  <2>2. Disk = Image(s)
    BY <2>1, DiskIsFunction, ImageIsFunction
  <2>3. todo = ClearRecord
    <3>1. todo = <<>> \o r
      BY <1>4, <1>5, <1>7
    <3> QED BY <1>5, <3>1, ConcatEmptySeq
  <2>4. PICK h : h = Set("transaction", None, None)
    OBVIOUS
  <2>5. PICK q \in Seq(RecordWrite) : todo = <<h>> \o q
    BY <1>2, <2>3, <2>4, ClosingWrites
  <2>6. q \in Seq(Update) /\ h \in Update
    BY <2>4, RecordWrites
  <2>7. Head(todo) = h /\ todo' = q
    BY <1>1, <2>5, <2>6, OneBefore
  <2>8. PICK x \in Address : x = None
    BY DEF Address
  <2>9. h = Set("transaction", None, x)
    BY <2>4, <2>8
  <2>10. Typed' /\ Disk' = Disk /\ sizes' = sizes /\ transaction' = x
    BY <1>2, <2>7, <2>9, WriteRecord
  <2>11. Drift(s)'
    BY <1>1, <1>3, <2>10, DriftUnchanged
  <2>12. reinsert = None
    BY <1>3 DEF Typed
  <2>13. Steady(a)'
    BY <1>1, <1>2, <1>3, <2>2, <2>5, <2>7, <2>8, <2>10, <2>11, <2>12 DEF Steady
  <2> QED BY <2>10, <2>13
<1> QED BY <1>6, <1>7

\* Every write keeps the invariant, and commits at most the operation under way.
LEMMA WriteKeeps ==
  ASSUME NEW a, LruInv(a), Write
  PROVE  \E b : LruInv(b)' /\ Moves(a, b)
<1>1. Typed
  BY DEF LruInv
<1>2. Moves(a, a)
  BY DEF Moves
<1>3. CASE Steady(a)
  BY <1>1, <1>2, <1>3, WriteSteady DEF LruInv
<1>4. CASE Settled(a)
  BY <1>1, <1>2, <1>4, WriteSettled DEF LruInv
<1>5. ASSUME NEW s, NEW t, NEW n, NEW l, NEW op,
             Change(s, t, n, l, op), UnderWay(a, s, t, n, l, op)
      PROVE  \E b : LruInv(b)' /\ Moves(a, b)
  <2>0. mode # "down"
    BY <1>1, WriteRest
  <2>1. CASE Starting(a, s, t, n, l, op)
    <3>1. Typed'
      BY <1>1, <1>5, <2>1, WriteStarting
    <3>2. PICK b : /\ Moves(a, b)
                   /\ Starting(b, s, t, n, l, op)' \/ Working(b, s, t, n, l, op)'
      BY <1>1, <1>5, <2>1, WriteStarting
    <3>3. UnderWay(b, s, t, n, l, op)'
      BY <3>2 DEF UnderWay
    <3>4. LruInv(b)'
      BY <1>5, <3>1, <3>3 DEF LruInv, Change
    <3> QED BY <3>2, <3>4
  <2>2. CASE Working(a, s, t, n, l, op)
    <3>1. Typed'
      BY <1>1, <1>5, <2>2, WriteWorking
    <3>2. PICK b : /\ Moves(a, b)
                   /\ Working(b, s, t, n, l, op)' \/ Settled(b)'
      BY <1>1, <1>5, <2>2, WriteWorking
    <3>3. UnderWay(b, s, t, n, l, op)' \/ Settled(b)'
      BY <3>2 DEF UnderWay
    <3>4. LruInv(b)'
      BY <1>5, <3>1, <3>3 DEF LruInv, Change
    <3> QED BY <3>2, <3>4
  <2>3. CASE Torn(a, s, t, n, l, op)
    BY <2>0, <2>3 DEF Torn
  <2>4. CASE Undoing(a, s, t, n, l, op)
    <3>1. Typed' /\ (Undoing(a, s, t, n, l, op)' \/ Steady(a)')
      BY <1>1, <1>5, <2>4, WriteUndoing
    <3>3. UnderWay(a, s, t, n, l, op)' \/ Steady(a)'
      BY <3>1 DEF UnderWay
    <3>4. LruInv(a)'
      BY <1>5, <3>1, <3>3 DEF LruInv, Change
    <3> QED BY <1>2, <3>4
  <2> QED BY <1>5, <2>1, <2>2, <2>3, <2>4 DEF UnderWay
<1> QED BY <1>3, <1>4, <1>5 DEF LruInv
-----------------------------------------------------------------------------
(* The other actions.                                                      *)

\* What is left to write is never nothing while an operation is under way.
LEMMA UnderWayIsBusy ==
  ASSUME Typed, NEW a, NEW s, NEW t, NEW n, NEW l, NEW op,
         Change(s, t, n, l, op), UnderWay(a, s, t, n, l, op), mode # "down"
  PROVE  todo # <<>>
<1>1. n \in Node /\ l \in List /\ op \in {"insert", "remove"}
  BY ChangeFacts
<1>2. ASSUME NEW w \in Seq(LinkWrite), NEW r \in Seq(Update), r # <<>>
      PROVE  w \o r \in Seq(Update) /\ w \o r # <<>>
  <2>1. w \in Seq(Update)
    BY RecordWrites
  <2>2. w \o r \in Seq(Update) /\ Len(w \o r) = Len(w) + Len(r)
    BY <2>1, ConcatProperties
  <2>3. Len(r) \in Nat /\ Len(r) # 0 /\ Len(w) \in Nat
    BY <1>2
  <2>4. Len(w \o r) # 0
    BY <2>2, <2>3
  <2> QED BY <2>2, <2>4
<1>3. /\ Closing(l, op) \in Seq(Update) /\ Closing(l, op) # <<>>
      /\ ClearRecord \in Seq(Update)
  BY <1>1, ClosingWrites
<1>4. CASE Starting(a, s, t, n, l, op)
  <2>1. PICK w \in Seq(LinkWrite) : Opening(w \o Closing(l, op), n, l, op)
    BY <1>4 DEF Starting
  <2>2. PICK r : r = w \o Closing(l, op)
    OBVIOUS
  <2>3. r \in Seq(Update) /\ Opening(r, n, l, op)
    BY <1>2, <1>3, <2>1, <2>2
  <2>4. /\ Recording(r, n) # <<>> /\ Listing(r, n, l) # <<>> /\ Naming(r, n, l, op) # <<>>
        /\ Unnaming(r, n, l, op) # <<>> /\ Unrecording(r, n, l, op) # <<>>
    <3>1. /\ Set("transaction", None, n) \in Update /\ Set("operation_list", None, l) \in Update
          /\ Set("operation", None, op) \in Update /\ Set("operation", None, "none") \in Update
          /\ Set("transaction", None, None) \in Update
      BY <1>1, RecordWrites
    <3>2. /\ Recording(r, n) \in Seq(Update) /\ Listing(r, n, l) \in Seq(Update)
          /\ Naming(r, n, l, op) \in Seq(Update) /\ Unnaming(r, n, l, op) \in Seq(Update)
      BY <1>1, <2>3, OpeningWrites
    <3>3. Recording(r, n) # <<>>
      BY <2>3, <3>1, OneBefore DEF Recording
    <3>4. Listing(r, n, l) # <<>>
      BY <3>1, <3>2, OneBefore DEF Listing
    <3>5. Naming(r, n, l, op) # <<>>
      BY <3>1, <3>2, OneBefore DEF Naming
    <3>6. Unnaming(r, n, l, op) # <<>>
      BY <3>1, <3>2, OneBefore DEF Unnaming
    <3>7. Unrecording(r, n, l, op) # <<>>
      BY <3>1, <3>2, OneBefore DEF Unrecording
    <3> QED BY <3>3, <3>4, <3>5, <3>6, <3>7
  <2> QED BY <2>3, <2>4 DEF Opening
<1>5. CASE Working(a, s, t, n, l, op)
  BY <1>2, <1>3, <1>5 DEF Working
<1>6. CASE Undoing(a, s, t, n, l, op)
  <2>1. ClearRecord # <<>>
    BY DEF ClearRecord
  <2> QED BY <1>2, <1>3, <1>6, <2>1 DEF Undoing
<1> QED BY <1>4, <1>5, <1>6 DEF UnderWay, Torn

\* The writes within a transaction, and with those that end it.
Within(w, l, op) == w \o <<Set("sizes", l, Delta(op))>>
Through(w, l, op) == w \o Closing(l, op)

\* The writes of an operation with its transaction.
LEMMA Transactions ==
  ASSUME NEW w \in Seq(LinkWrite), NEW n \in Node, NEW l \in List, NEW op \in {"insert", "remove"}
  PROVE  /\ Through(w, l, op) \in Seq(Update)
         /\ BeginTransaction(n, op, l) \o Within(w, l, op) \o EndTransaction
              = Naming(Through(w, l, op), n, l, op)
         /\ ClearRecord \o BeginTransaction(n, op, l) \o Within(w, l, op) \o EndTransaction
              = Unrecording(Through(w, l, op), n, l, op)
<1>0. PICK z, r : z = Within(w, l, op) /\ r = Through(w, l, op)
  OBVIOUS
<1>1. PICK a, b, c, e, f, g : /\ a = Set("operation", None, op)
                              /\ b = Set("operation_list", None, l)
                              /\ c = Set("transaction", None, n)
                              /\ e = Set("transaction", None, None)
                              /\ f = Set("operation", None, "none")
                              /\ g = Set("sizes", l, Delta(op))
  OBVIOUS
<1>2. /\ a \in Update /\ b \in Update /\ c \in Update
      /\ e \in Update /\ f \in Update /\ g \in Update
  BY <1>1, RecordWrites
<1>3. PICK B, C, E : B = BeginTransaction(n, op, l) /\ C = ClearRecord /\ E = EndTransaction
  OBVIOUS
<1>4. B = <<a, b, c>> /\ C = <<e, f>>
  BY <1>1, <1>3 DEF BeginTransaction, ClearRecord
<1>5. /\ w \in Seq(Update) /\ B \in Seq(Update) /\ C \in Seq(Update) /\ E \in Seq(Update)
      /\ <<g>> \in Seq(Update) /\ <<a>> \in Seq(Update) /\ <<b>> \in Seq(Update)
      /\ <<c>> \in Seq(Update) /\ <<e>> \in Seq(Update) /\ <<f>> \in Seq(Update)
      /\ <<b, c>> \in Seq(Update)
  BY <1>2, <1>3, <1>4, RecordWrites, ClosingWrites
<1>6. ASSUME NEW x \in Update, NEW y \in Update
      PROVE  <<x, y>> = <<x>> \o <<y>>
  <2>1. PICK q : q = <<x, y>>
    OBVIOUS
  <2>2. PICK u : u = <<x>> \o <<y>>
    OBVIOUS
  <2>3. q \in Seq(Update) /\ Len(q) = 2 /\ q[1] = x /\ q[2] = y
    BY <2>1
  <2>4. u \in Seq(Update) /\ Len(u) = 2 /\ u[1] = x /\ u[2] = y
    BY <2>2
  <2>5. q = u
    BY <2>3, <2>4, SeqEqual
  <2> QED BY <2>1, <2>2, <2>5
<1>7. <<b, c>> = <<b>> \o <<c>> /\ C = <<e>> \o <<f>>
  BY <1>2, <1>4, <1>6
<1>8. <<a, b, c>> = <<a>> \o <<b, c>>
  BY <1>2
<1>9. B = <<a>> \o (<<b>> \o <<c>>)
  BY <1>4, <1>7, <1>8
<1>10. ASSUME NEW q \in Seq(Update)
       PROVE  /\ B \o q = <<a>> \o (<<b>> \o (<<c>> \o q))
              /\ C \o q = <<e>> \o (<<f>> \o q)
  <2>1. <<b>> \o <<c>> \in Seq(Update)
    BY <1>5, <1>7
  <2>2. B \o q = <<a>> \o ((<<b>> \o <<c>>) \o q)
    BY <1>5, <1>9, <2>1, ConcatAssociative
  <2>3. (<<b>> \o <<c>>) \o q = <<b>> \o (<<c>> \o q)
    BY <1>5, ConcatAssociative
  <2>4. C \o q = <<e>> \o (<<f>> \o q)
    BY <1>5, <1>7, ConcatAssociative
  <2> QED BY <2>2, <2>3, <2>4
<1>11. r = w \o (<<g>> \o E) /\ z = w \o <<g>>
  BY <1>0, <1>1, <1>3 DEF Closing, Within, Through
<1>12. <<g>> \o E \in Seq(Update) /\ z \in Seq(Update) /\ z \o E \in Seq(Update)
  <2>1. <<g>> \o E \in Seq(Update) /\ z \in Seq(Update)
    BY <1>5, <1>11, ConcatProperties
  <2> QED BY <1>5, <2>1, ConcatProperties
<1>13. z \o E = r
  BY <1>5, <1>11, ConcatAssociative
<1>14. r \in Seq(Update)
  BY <1>12, <1>13
<1>a. ASSUME NEW x \in Seq(Update), NEW y \in Seq(Update), NEW u \in Seq(Update)
      PROVE  (x \o y) \o u = x \o (y \o u)
  BY ConcatAssociative
<1>b. B \in Seq(Update) /\ C \in Seq(Update) /\ E \in Seq(Update) /\ z \in Seq(Update)
  BY <1>5, <1>12
<1>15. (B \o z) \o E = B \o r
  <2>1. (B \o z) \o E = B \o (z \o E)
    BY <1>a, <1>b
  <2> QED BY <1>13, <2>1
<1>16. B \o r = Naming(r, n, l, op)
  BY <1>1, <1>10, <1>14 DEF Naming, Listing, Recording
<1>17. ((C \o B) \o z) \o E = C \o (B \o r)
  <2>1. C \o B \in Seq(Update)
    BY <1>5, ConcatProperties
  <2>2. ((C \o B) \o z) \o E = (C \o B) \o r
    <3>1. ((C \o B) \o z) \o E = (C \o B) \o (z \o E)
      BY <1>a, <1>b, <2>1, Zenon
    <3> QED BY <1>13, <3>1
  <2>3. (C \o B) \o r = C \o (B \o r)
    BY <1>a, <1>b, <1>14, ZenonT(60)
  <2> QED BY <2>2, <2>3
<1>18. B \o r \in Seq(Update)
  BY <1>5, <1>14, ConcatProperties
<1>19. C \o (B \o r) = Unrecording(r, n, l, op)
  BY <1>1, <1>10, <1>16, <1>18 DEF Unrecording, Unnaming
<1> QED BY <1>0, <1>3, <1>14, <1>15, <1>16, <1>17, <1>19

\* A new cache has empty lists.
LEMMA InitIsSteady ==
  ASSUME Init
  PROVE  \E a : LruInv(a) /\ a = [l \in List |-> <<>>]
<1>1. PICK a : a = [l \in List |-> <<>>]
  OBVIOUS
<1>2. \A l \in List : a[l] = <<>> /\ Len(a[l]) = 0
  BY <1>1
<1>3. Proper(a)
  BY <1>1 DEF Proper
<1>4. \A n : ~ In(a, n)
  BY <1>2 DEF In, Elements
<1>5. Drift(a)
  BY <1>2 DEF Init, Drift
<1>6. Typed
  <2>1. 0 \in List /\ None \in Address /\ 0 \in 0 .. MaxCrashes
    BY RankingsAssumption DEF List, Address
  <2>2. todo \in Seq(Update)
    BY DEF Init
  <2> QED BY <2>1, <2>2 DEF Init, Typed
<1>7. ASSUME NEW k \in Loc PROVE Disk[k] = Image(a)[k]
  <2>1. CASE \E m \in List : k = <<"heads", m>>
    <3>1. PICK m \in List : k = <<"heads", m>>
      BY <2>1
    <3>2. heads[m] = None /\ HeadOf(a)[m] = None
      BY <1>2 DEF Init, HeadOf
    <3>3. Disk[<<"heads", m>>] = <<heads[m], None>>
      BY DiskAt
    <3>4. Image(a)[<<"heads", m>>] = <<HeadOf(a)[m], None>>
      BY ImageAt
    <3> QED BY <3>1, <3>2, <3>3, <3>4
  <2>2. CASE \E m \in List : k = <<"tails", m>>
    <3>1. PICK m \in List : k = <<"tails", m>>
      BY <2>2
    <3>2. tails[m] = None /\ TailOf(a)[m] = None
      BY <1>2 DEF Init, TailOf
    <3>3. Disk[<<"tails", m>>] = <<tails[m], None>>
      BY DiskAt
    <3>4. Image(a)[<<"tails", m>>] = <<TailOf(a)[m], None>>
      BY ImageAt
    <3> QED BY <3>1, <3>2, <3>3, <3>4
  <2>3. CASE \E y \in Node : k = <<"node", y>>
    <3>1. PICK y \in Node : k = <<"node", y>>
      BY <2>3
    <3>2. NextOf(a)[y] = None /\ PrevOf(a)[y] = None
      BY <1>4, LinksOut
    <3>3. next[y] = None /\ prev[y] = None
      BY DEF Init
    <3>4. Disk[<<"node", y>>] = <<next[y], prev[y]>>
      BY DiskAt
    <3>5. Image(a)[<<"node", y>>] = <<NextOf(a)[y], PrevOf(a)[y]>>
      BY ImageAt
    <3> QED BY <3>1, <3>2, <3>3, <3>4, <3>5
  <2> QED BY <2>1, <2>2, <2>3, Locations
<1>8. Disk = Image(a)
  BY <1>7, DiskIsFunction, ImageIsFunction
<1>9. Steady(a)
  <2>1. todo \in Seq(RecordWrite) /\ transaction = None /\ reinsert = None
    BY DEF Init
  <2> QED BY <1>3, <1>5, <1>8, <2>1 DEF Steady
<1> QED BY <1>1, <1>6, <1>9 DEF LruInv

\* With the links of the lists on disk, a reader finds the lists.
LEMMA ReadLists ==
  ASSUME NEW s, Proper(s), Disk = Image(s), NEW l \in List
  PROVE  OnDisk(l) = s[l]
<1>1. heads[l] = HeadOf(s)[l] /\ \A y \in Node : next[y] = NextOf(s)[y]
  BY DiskIsImage
<1>2. \A y \in Elements(s[l]) : y \in Node
  BY DEF Elements, Proper
<1> QED BY <1>1, <1>2, WalkFindsList

\* When nothing is under way, no transaction is recorded.
LEMMA RestIsSteady ==
  ASSUME NEW a, LruInv(a), todo = <<>>, mode # "down"
  PROVE  Typed /\ Steady(a)
<1>1. Typed
  BY DEF LruInv
<1>2. ~ Settled(a)
  <2> SUFFICES ASSUME Settled(a) PROVE FALSE
    OBVIOUS
  <2>1. PICK r \in Seq(RecordWrite) : todo = <<Set("transaction", None, None)>> \o r
    BY DEF Settled
  <2>2. r \in Seq(Update) /\ Set("transaction", None, None) \in Update
    BY RecordWrites
  <2> QED BY <2>1, <2>2, OneBefore
<1>3. ASSUME NEW s, NEW t, NEW n, NEW l, NEW op,
             Change(s, t, n, l, op), UnderWay(a, s, t, n, l, op)
      PROVE  FALSE
  BY <1>1, <1>3, UnderWayIsBusy
<1> QED BY <1>1, <1>2, <1>3 DEF LruInv

\* An Insert finds links that it accepts, and starts its transaction.
LEMMA InsertStarts ==
  ASSUME NEW a, LruInv(a), mode = "up", todo = <<>>,
         NEW n \in Node, NEW l \in List, ~ In(a, n), StartInsert(n, l),
         UNCHANGED <<control, nodes, mode, crashes>>, reinsert' = None
  PROVE  LruInv(a)'
<1>1. Typed /\ Steady(a)
  BY RestIsSteady
<1>2. /\ heads' = heads /\ tails' = tails /\ sizes' = sizes /\ next' = next /\ prev' = prev
      /\ transaction' = transaction /\ operation' = operation /\ operation_list' = operation_list
      /\ mode' = mode /\ crashes' = crashes
  BY DEF control, nodes
<1>3. Disk' = Disk /\ Drift(a)'
  BY <1>1, <1>2, DiskUnchanged, DriftUnchanged DEF Steady
<1>4. Proper(a) /\ Disk = Image(a) /\ transaction = None
  BY <1>1 DEF Steady
<1>5. PICK t : t = Inserted(a, n, l)
  OBVIOUS
<1>6. PICK op : op = "insert"
  OBVIOUS
<1>7. Change(a, t, n, l, op)
  BY <1>4, <1>5, <1>6 DEF Change
<1>8. Key(n, l, op) = <<"heads", l>> /\ Delta(op) = 1
  BY <1>6 DEF Key, Delta
<1>9. Between(Disk, Image(a), Image(t), <<"heads", l>>)
  BY <1>4 DEF Between
<1>10. HeadIsValid(n, l)
  BY <1>4, <1>5, <1>9, InsertPlan
<1>11. PICK w \in Seq(LinkWrite) : /\ InsertWrites(n, l) = w \o <<Set("sizes", l, 1)>>
                                   /\ Plan(Disk, Image(a), Image(t), <<"heads", l>>, w)
  BY <1>4, <1>5, <1>9, InsertPlan
<1>12. PICK r : r = w \o Closing(l, op)
  OBVIOUS
<1>13. /\ todo' = BeginTransaction(n, op, l) \o InsertWrites(n, l) \o EndTransaction
       /\ disabled' = disabled
  BY <1>6, <1>10 DEF StartInsert
<1>14. InsertWrites(n, l) = Within(w, l, op) /\ r = Through(w, l, op)
  BY <1>8, <1>11, <1>12 DEF Within, Through
<1>16. op \in {"insert", "remove"}
  BY <1>6
<1>15. Through(w, l, op) \in Seq(Update)
  BY <1>16, Transactions
<1>17. BeginTransaction(n, op, l) \o Within(w, l, op) \o EndTransaction
         = Naming(Through(w, l, op), n, l, op)
  BY <1>16, Transactions, Zenon
<1>18. todo' = Naming(r, n, l, op) /\ todo' \in Seq(Update)
  <2>1. todo' = Naming(r, n, l, op)
    BY <1>13, <1>14, <1>17, Zenon
  <2> QED BY <1>14, <1>15, <1>16, <2>1, OpeningWrites
<1>19. Opening(w \o Closing(l, op), n, l, op)'
  BY <1>2, <1>4, <1>12, <1>18 DEF Opening
<1>20. Plan(Disk', Image(a), Image(t), Key(n, l, op), w)
  BY <1>3, <1>8, <1>11
<1>21. \E v \in Seq(LinkWrite) : /\ Plan(Disk', Image(a), Image(t), Key(n, l, op), v)
                                 /\ Opening(v \o Closing(l, op), n, l, op)'
  BY <1>19, <1>20
<1>22. Starting(a, a, t, n, l, op)'
  BY <1>2, <1>3, <1>4, <1>21 DEF Starting
<1>23. Typed'
  BY <1>1, <1>2, <1>13, <1>18 DEF Typed
<1>24. UnderWay(a, a, t, n, l, op)'
  BY <1>22 DEF UnderWay
<1> QED BY <1>7, <1>23, <1>24 DEF LruInv, Change

\* A Remove finds links that it accepts, and starts its transaction.
LEMMA RemoveStarts ==
  ASSUME NEW a, LruInv(a), mode = "up", todo = <<>>,
         NEW n \in Node, NEW l \in List, n \in Elements(OnDisk(l)), StartRemove(n, l),
         UNCHANGED <<control, nodes, mode, crashes>>,
         \/ reinsert' = None
         \/ reinsert' \in Node \X List /\ reinsert'[1] = n
  PROVE  LruInv(a)'
<1>1. Typed /\ Steady(a)
  BY RestIsSteady
<1>2. /\ heads' = heads /\ tails' = tails /\ sizes' = sizes /\ next' = next /\ prev' = prev
      /\ transaction' = transaction /\ operation' = operation /\ operation_list' = operation_list
      /\ mode' = mode /\ crashes' = crashes
  BY DEF control, nodes
<1>3. Disk' = Disk /\ Drift(a)'
  BY <1>1, <1>2, DiskUnchanged, DriftUnchanged DEF Steady
<1>4. Proper(a) /\ Disk = Image(a) /\ transaction = None
  BY <1>1 DEF Steady
<1>5. n \in Elements(a[l])
  BY <1>4, ReadLists
<1>6. PICK i \in 1 .. Len(a[l]) : a[l][i] = n
  <2>1. a[l] \in Seq(Node)
    BY <1>4 DEF Proper
  <2> QED BY <1>5, <2>1 DEF Elements
<1>7. PICK t : t = Removed(a, l, i)
  OBVIOUS
<1>8. PICK op : op = "remove"
  OBVIOUS
<1>9. Change(a, t, n, l, op)
  BY <1>4, <1>6, <1>7, <1>8 DEF Change
<1>10. Key(n, l, op) = <<"node", n>> /\ Delta(op) = -1
  BY <1>8 DEF Key, Delta
<1>11. /\ SanityCheck(next[n]) /\ SanityCheck(prev[n])
       /\ LinksAreValid(n) /\ ListOf(n, l) = l
  <2>1. n \in Elements(a[l])
    BY <1>5
  <2> QED BY <1>4, <2>1, RemoveIsAccepted
<1>12. PICK shared \in BOOLEAN :
         todo' = BeginTransaction(n, op, l) \o RemoveWrites(n, l, shared) \o EndTransaction
  BY <1>8, <1>11 DEF StartRemove
<1>13. disabled' = disabled
  BY <1>11 DEF StartRemove
<1>14. PICK w \in Seq(LinkWrite) : /\ RemoveWrites(n, l, shared) = w \o <<Set("sizes", l, -1)>>
                                   /\ Plan(Disk, Image(a), Image(t), <<"node", n>>, w)
  BY <1>4, <1>6, <1>7, RemovePlan
<1>15. PICK r : r = w \o Closing(l, op)
  OBVIOUS
<1>16. RemoveWrites(n, l, shared) = Within(w, l, op) /\ r = Through(w, l, op)
  BY <1>10, <1>14, <1>15 DEF Within, Through
<1>18. op \in {"insert", "remove"}
  BY <1>8
<1>17. Through(w, l, op) \in Seq(Update)
  BY <1>18, Transactions
<1>19. BeginTransaction(n, op, l) \o Within(w, l, op) \o EndTransaction
         = Naming(Through(w, l, op), n, l, op)
  BY <1>18, Transactions, Zenon
<1>20. todo' = Naming(r, n, l, op) /\ todo' \in Seq(Update)
  <2>1. todo' = Naming(r, n, l, op)
    BY <1>12, <1>16, <1>19, Zenon
  <2> QED BY <1>16, <1>17, <1>18, <2>1, OpeningWrites
<1>21. Opening(w \o Closing(l, op), n, l, op)'
  BY <1>2, <1>4, <1>15, <1>20 DEF Opening
<1>22. Plan(Disk', Image(a), Image(t), Key(n, l, op), w)
  BY <1>3, <1>10, <1>14
<1>23. \E v \in Seq(LinkWrite) : /\ Plan(Disk', Image(a), Image(t), Key(n, l, op), v)
                                 /\ Opening(v \o Closing(l, op), n, l, op)'
  BY <1>21, <1>22
<1>24. reinsert' # None => op = "remove" /\ reinsert'[1] = n
  BY <1>8
<1>25. Starting(a, a, t, n, l, op)'
  BY <1>2, <1>3, <1>4, <1>23, <1>24 DEF Starting
<1>26. Typed'
  BY <1>1, <1>2, <1>13, <1>20 DEF Typed
<1>27. UnderWay(a, a, t, n, l, op)'
  BY <1>25 DEF UnderWay
<1> QED BY <1>9, <1>26, <1>27 DEF LruInv, Change

\* A crash forgets what is left to write.
LEMMA CrashKeeps ==
  ASSUME NEW a, LruInv(a), Crash, ~ CrashInRecovery
  PROVE  LruInv(a)'
<1>1. Typed
  BY DEF LruInv
<1>2. /\ mode = "up" /\ crashes < MaxCrashes /\ crashes' = crashes + 1
      /\ mode' = "down" /\ todo' = <<>> /\ reinsert' = None /\ disabled' = disabled
      /\ heads' = heads /\ tails' = tails /\ sizes' = sizes /\ next' = next /\ prev' = prev
      /\ transaction' = transaction /\ operation' = operation /\ operation_list' = operation_list
  BY DEF Crash, control, nodes
<1>3. Disk' = Disk
  BY <1>2, DiskUnchanged
<1>4. crashes \in Nat /\ crashes' \in 0 .. MaxCrashes
  BY <1>1, <1>2, RankingsAssumption DEF Typed
<1>5. Typed'
  <2>1. todo' \in Seq(Update)
    BY <1>2
  <2> QED BY <1>1, <1>2, <1>4, <2>1 DEF Typed
<1>6. ASSUME NEW s, Proper(s), Drift(s)
      PROVE  Drift(s)'
  <2> SUFFICES ASSUME NEW m \in List
               PROVE  sizes[m] <= Len(s[m]) + (crashes + 1) /\ Len(s[m]) <= sizes[m] + (crashes + 1)
    BY <1>2 DEF Drift
  <2>1. PICK z \in Nat : z = sizes[m]
    BY <1>1 DEF Typed
  <2>2. PICK k \in Nat : k = Len(s[m])
    BY <1>6 DEF Proper
  <2>3. z <= k + crashes /\ k <= z + crashes
    BY <1>6, <2>1, <2>2 DEF Drift
  <2>4. z <= k + (crashes + 1) /\ k <= z + (crashes + 1)
    BY <1>4, <2>3
  <2> QED BY <2>1, <2>2, <2>4
<1>7. CASE Steady(a)
  <2>1. Steady(a)'
    <3>1. todo' \in Seq(RecordWrite)
      BY <1>2
    <3> QED BY <1>2, <1>3, <1>6, <1>7, <3>1 DEF Steady
  <2> QED BY <1>5, <2>1 DEF LruInv
<1>8. CASE Settled(a)
  <2>1. Settled(a)'
    BY <1>2, <1>3, <1>6, <1>8 DEF Settled
  <2> QED BY <1>5, <2>1 DEF LruInv
<1>9. ASSUME NEW s, NEW t, NEW n, NEW l, NEW op,
             Change(s, t, n, l, op), UnderWay(a, s, t, n, l, op)
      PROVE  LruInv(a)'
  <2>1. /\ Proper(s) /\ Proper(t) /\ n \in Node /\ l \in List /\ op \in {"insert", "remove"}
        /\ op = "insert" => HeadOf(t)[l] = n
        /\ op = "remove" => ~ In(t, n)
    BY <1>9, ChangeFacts
  <2>2. CASE Starting(a, s, t, n, l, op)
    <3>1. Steady(a)'
      <4>1. todo' \in Seq(RecordWrite)
        BY <1>2
      <4>2. Drift(s) /\ Disk = Image(s) /\ a = s /\ transaction = None
        BY <1>2, <2>2 DEF Starting
      <4> QED BY <1>2, <1>3, <1>6, <2>1, <4>1, <4>2 DEF Steady
    <3> QED BY <1>5, <3>1 DEF LruInv
  <2>3. CASE Working(a, s, t, n, l, op)
    <3>1. Drift(s) /\ Record(n, l, op)
      BY <2>3 DEF Working
    <3>2. Drift(s)' /\ Drift(t)'
      BY <1>1, <1>2, <1>9, <3>1, SizeLost
    <3>3. Record(n, l, op)'
      BY <1>2, <3>1 DEF Record
    <3>4. PICK w : \/ /\ Plan(Disk, Image(s), Image(t), Key(n, l, op), w)
                      /\ a = IF op = "insert" THEN t ELSE s
                   \/ Disk = Image(t) /\ a = t
      BY <2>3 DEF Working
    <3>5. CASE Plan(Disk, Image(s), Image(t), Key(n, l, op), w) /\ a = IF op = "insert" THEN t ELSE s
      <4>1. Between(Disk', Image(s), Image(t), Key(n, l, op))
        BY <1>3, <3>5 DEF Plan
      <4>2. Torn(a, s, t, n, l, op)'
        BY <1>2, <3>2, <3>3, <3>5, <4>1 DEF Torn
      <4>3. UnderWay(a, s, t, n, l, op)'
        BY <4>2 DEF UnderWay
      <4> QED BY <1>5, <1>9, <4>3 DEF LruInv, Change
    <3>6. CASE Disk = Image(t) /\ a = t
      <4>1. transaction' = n /\ operation' = op /\ operation_list' = l
        BY <3>3 DEF Record
      <4>2. Settled(a)'
        BY <1>2, <1>3, <2>1, <3>2, <3>6, <4>1 DEF Settled
      <4> QED BY <1>5, <4>2 DEF LruInv
    <3> QED BY <3>4, <3>5, <3>6
  <2>4. CASE Torn(a, s, t, n, l, op) \/ Undoing(a, s, t, n, l, op)
    BY <1>2, <2>4 DEF Torn, Undoing
  <2> QED BY <1>9, <2>2, <2>3, <2>4 DEF UnderWay
<1> QED BY <1>7, <1>8, <1>9 DEF LruInv

\* Init finishes an insertion, takes back a removal, or clears the record.
LEMMA RestartKeeps ==
  ASSUME NEW a, LruInv(a), Restart
  PROVE  LruInv(a)'
<1>1. Typed
  BY DEF LruInv
<1>2. /\ mode = "down" /\ mode' = "recovering" /\ todo = <<>>
      /\ reinsert' = reinsert /\ reinsert = None /\ crashes' = crashes
      /\ heads' = heads /\ tails' = tails /\ sizes' = sizes /\ next' = next /\ prev' = prev
      /\ transaction' = transaction /\ operation' = operation /\ operation_list' = operation_list
  BY <1>1 DEF Restart, control, nodes, Typed
<1>3. Disk' = Disk
  BY <1>2, DiskUnchanged
<1>4. ASSUME todo' \in Seq(Update), disabled' = disabled
      PROVE  Typed'
  BY <1>1, <1>2, <1>4 DEF Typed
<1>5. None \notin Node
  BY RankingsAssumption
<1>6. PICK e : e = Set("transaction", None, None)
  OBVIOUS
<1>7. PICK ll \in List : TRUE
  BY RankingsAssumption DEF List
<1>8. /\ \E r \in Seq(RecordWrite) : ClearRecord = <<e>> \o r
      /\ ClearRecord \in Seq(Update)
  <2>1. PICK op : op = "insert"
    OBVIOUS
  <2> QED BY <1>6, <1>7, ClosingWrites
<1>9. <<e>> \in Seq(Update) /\ \E r \in Seq(RecordWrite) : <<e>> = <<e>> \o r
  <2>1. e \in Update
    BY <1>6, RecordWrites
  <2>2. <<e>> \in Seq(Update) /\ <<>> \in Seq(RecordWrite)
    BY <2>1
  <2>3. <<e>> \o <<>> = <<e>>
    BY <2>2, ConcatEmptySeq
  <2> QED BY <2>2, <2>3
<1>10. CASE Steady(a)
  <2>1. transaction = None /\ Drift(a)
    BY <1>10 DEF Steady
  <2>2. todo' = todo /\ disabled' = disabled
    BY <2>1 DEF Restart
  <2>3. Typed' /\ Drift(a)'
    BY <1>1, <1>2, <1>4, <2>1, <2>2, DriftUnchanged DEF Typed
  <2>4. Steady(a)'
    BY <1>2, <1>3, <1>10, <2>2, <2>3 DEF Steady
  <2> QED BY <2>3, <2>4 DEF LruInv
<1>11. CASE Settled(a)
  <2>1. Proper(a) /\ Disk = Image(a) /\ Drift(a) /\ transaction \in Node /\ operation_list \in List
    BY <1>1, <1>11 DEF Settled, Typed
  <2>2. Drift(a)'
    BY <1>2, <2>1, DriftUnchanged
  <2>3. CASE operation = "insert" /\ HeadOf(a)[operation_list] = transaction
    <3>1. heads[operation_list] = transaction
      BY <2>1, <2>3, DiskIsImage
    <3>2. todo' = ClearRecord /\ disabled' = disabled
      BY <1>5, <2>1, <2>3, <3>1 DEF Restart, FinishInsert, ClearRecord
    <3>3. Typed'
      BY <1>4, <1>8, <3>2
    <3>4. Settled(a)'
      BY <1>2, <1>3, <1>6, <1>8, <2>1, <2>2, <2>3, <3>2 DEF Settled
    <3> QED BY <3>3, <3>4 DEF LruInv
  <2>4. CASE operation = "remove" /\ ~ In(a, transaction)
    <3>1. next[transaction] = None
      BY <2>1, <2>4, LinksOut, DiskIsImage
    <3>2. todo' = <<e>> /\ disabled' = disabled
      BY <1>5, <1>6, <2>1, <2>4, <3>1 DEF Restart, RevertRemove
    <3>3. Typed'
      BY <1>4, <1>9, <3>2
    <3>4. Settled(a)'
      BY <1>2, <1>3, <1>6, <1>9, <2>1, <2>2, <2>4, <3>2 DEF Settled
    <3> QED BY <3>3, <3>4 DEF LruInv
  <2> QED BY <1>11, <2>3, <2>4 DEF Settled
<1>12. ASSUME NEW s, NEW t, NEW n, NEW l, NEW op,
              Change(s, t, n, l, op), UnderWay(a, s, t, n, l, op)
       PROVE  LruInv(a)'
  <2>1. Torn(a, s, t, n, l, op)
    BY <1>2, <1>12 DEF UnderWay, Starting, Working, Undoing
  <2>2. /\ Drift(s) /\ Between(Disk, Image(s), Image(t), Key(n, l, op))
        /\ a = IF op = "insert" THEN t ELSE s
        /\ transaction = n /\ operation = op /\ operation_list = l
    BY <2>1 DEF Torn, Record
  <2>3. Proper(s) /\ n \in Node /\ l \in List /\ op \in {"insert", "remove"}
    BY <1>12, ChangeFacts
  <2>4. Drift(s)'
    BY <1>2, <2>2, DriftUnchanged
  <2>5. ASSUME Typed', UnderWay(a, s, t, n, l, op)' PROVE LruInv(a)'
    BY <1>12, <2>5 DEF LruInv, Change
  <2>6. CASE op = "insert"
    <3>1. ~ In(s, n) /\ t = Inserted(s, n, l)
      BY <1>12, <2>6 DEF Change
    <3>2. Key(n, l, op) = <<"heads", l>> /\ Delta(op) = 1
      BY <2>6 DEF Key, Delta
    <3>3. Between(Disk, Image(s), Image(t), <<"heads", l>>)
      BY <2>2, <3>2
    <3>4. heads[l] # n /\ HeadIsValid(n, l)
      BY <2>3, <3>1, <3>3, InsertPlan
    <3>5. PICK w \in Seq(LinkWrite) : /\ InsertWrites(n, l) = w \o <<Set("sizes", l, 1)>>
                                      /\ Plan(Disk, Image(s), Image(t), <<"heads", l>>, w)
      BY <2>3, <3>1, <3>3, InsertPlan
    <3>6. /\ todo' = ClearRecord \o BeginTransaction(n, op, l) \o InsertWrites(n, l) \o EndTransaction
          /\ disabled' = disabled
      BY <1>5, <2>2, <2>3, <2>6, <3>4 DEF Restart, FinishInsert, ClearRecord
    <3>7. InsertWrites(n, l) = Within(w, l, op) /\ w \o Closing(l, op) = Through(w, l, op)
      BY <3>2, <3>5 DEF Within, Through
    <3>8. Through(w, l, op) \in Seq(Update)
      BY <2>3, Transactions
    <3>9. ClearRecord \o BeginTransaction(n, op, l) \o Within(w, l, op) \o EndTransaction
            = Unrecording(Through(w, l, op), n, l, op)
      BY <2>3, Transactions, Zenon
    <3>10. todo' = Unrecording(Through(w, l, op), n, l, op)
      BY <3>6, <3>7, <3>9, Zenon
    <3>11. todo' \in Seq(Update)
      BY <2>3, <3>8, <3>10, OpeningWrites
    <3>12. Opening(w \o Closing(l, op), n, l, op)'
      BY <1>2, <2>2, <3>7, <3>10 DEF Opening
    <3>13. Plan(Disk', Image(s), Image(t), Key(n, l, op), w)
      BY <1>3, <3>2, <3>5
    <3>14. \E v \in Seq(LinkWrite) : /\ Plan(Disk', Image(s), Image(t), Key(n, l, op), v)
                                     /\ Opening(v \o Closing(l, op), n, l, op)'
      BY <3>12, <3>13
    <3>15. Starting(a, s, t, n, l, op)'
      BY <1>2, <2>2, <2>4, <2>6, <3>14 DEF Starting
    <3>16. UnderWay(a, s, t, n, l, op)'
      BY <3>15 DEF UnderWay
    <3> QED BY <1>4, <2>5, <3>6, <3>11, <3>16
  <2>7. CASE op = "remove"
    <3>1. PICK i \in 1 .. Len(s[l]) : s[l][i] = n /\ t = Removed(s, l, i)
      BY <1>12, <2>7 DEF Change
    <3>2. Key(n, l, op) = <<"node", n>>
      BY <2>7 DEF Key
    <3>3. Between(Disk, Image(s), Image(t), <<"node", n>>)
      BY <2>2, <3>2
    <3>4. PICK v : v = RevertWrites(n, l)
      OBVIOUS
    <3>5. v \in Seq(LinkWrite) /\ Covers(Disk, Image(s), v)
      BY <2>3, <3>1, <3>3, <3>4, RevertPlan
    <3>6. PICK x, p : x = NextOf(s)[n] /\ p = PrevOf(s)[n]
      OBVIOUS
    <3>7. next[n] = x /\ x \in Node /\ prev[n] = p /\ p \in Node
      BY <2>3, <3>1, <3>3, <3>6, TornLinks
    <3>8. PICK f : f = Set("operation", None, "none")
      OBVIOUS
    <3>9. todo' = (v \o <<e>>) \o <<f>> /\ disabled' = disabled
      BY <1>5, <1>6, <2>2, <2>3, <2>7, <3>4, <3>7, <3>8 DEF Restart, RevertRemove
    <3>10. /\ v \in Seq(Update) /\ e \in Update /\ f \in Update
           /\ <<e>> \in Seq(Update) /\ <<f>> \in Seq(Update)
      <4>1. v \in Seq(Update) /\ e \in Update /\ f \in Update
        BY <1>6, <3>5, <3>8, RecordWrites
      <4> QED BY <4>1
    <3>11. (v \o <<e>>) \o <<f>> = v \o (<<e>> \o <<f>>)
      BY <3>10, ConcatAssociative
    <3>12. <<e>> \o <<f>> = ClearRecord
      <4>1. PICK q : q = <<e, f>>
        OBVIOUS
      <4>2. PICK u : u = <<e>> \o <<f>>
        OBVIOUS
      <4>3. q \in Seq(Update) /\ Len(q) = 2 /\ q[1] = e /\ q[2] = f
        BY <3>10, <4>1
      <4>4. u \in Seq(Update) /\ Len(u) = 2 /\ u[1] = e /\ u[2] = f
        BY <3>10, <4>2
      <4>5. q = u
        BY <4>3, <4>4, SeqEqual
      <4>6. q = ClearRecord
        BY <1>6, <3>8, <4>1 DEF ClearRecord
      <4> QED BY <4>2, <4>5, <4>6
    <3>13. todo' = v \o ClearRecord
      BY <3>9, <3>11, <3>12, Zenon
    <3>14. todo' \in Seq(Update)
      BY <1>8, <3>10, <3>13, ConcatProperties
    <3>15. \E u \in Seq(LinkWrite) : Covers(Disk', Image(s), u) /\ todo' = u \o ClearRecord
      BY <1>3, <3>5, <3>13
    <3>16. Record(n, l, op)' /\ Between(Disk', Image(s), Image(t), Key(n, l, op))
      BY <1>2, <1>3, <2>2 DEF Record
    <3>17. Undoing(a, s, t, n, l, op)'
      BY <1>2, <2>2, <2>4, <2>7, <3>15, <3>16 DEF Undoing
    <3>18. UnderWay(a, s, t, n, l, op)'
      BY <3>17 DEF UnderWay
    <3> QED BY <1>4, <2>5, <3>9, <3>14, <3>18
  <2> QED BY <2>3, <2>6, <2>7
<1> QED BY <1>10, <1>11, <1>12 DEF LruInv

\* The end of Init.
LEMMA RecoveredKeeps ==
  ASSUME NEW a, LruInv(a), Recovered
  PROVE  LruInv(a)'
<1>1. /\ mode = "recovering" /\ mode' = "up" /\ todo = <<>> /\ todo' = todo
      /\ reinsert' = reinsert /\ crashes' = crashes /\ disabled' = disabled
      /\ heads' = heads /\ tails' = tails /\ sizes' = sizes /\ next' = next /\ prev' = prev
      /\ transaction' = transaction /\ operation' = operation /\ operation_list' = operation_list
  BY DEF Recovered, control, nodes
<1>2. Typed /\ Steady(a)
  BY <1>1, RestIsSteady
<1>3. Typed'
  BY <1>1, <1>2 DEF Typed
<1>4. Disk' = Disk /\ Drift(a)'
  BY <1>1, <1>2, DiskUnchanged, DriftUnchanged DEF Steady
<1>5. Steady(a)'
  BY <1>1, <1>2, <1>4 DEF Steady
<1> QED BY <1>3, <1>5 DEF LruInv

\* Steps that change nothing.
LEMMA StutterKeeps ==
  ASSUME NEW a, LruInv(a), UNCHANGED vars
  PROVE  LruInv(a)'
<1>1. /\ mode' = mode /\ todo' = todo
      /\ reinsert' = reinsert /\ crashes' = crashes /\ disabled' = disabled
      /\ heads' = heads /\ tails' = tails /\ sizes' = sizes /\ next' = next /\ prev' = prev
      /\ transaction' = transaction /\ operation' = operation /\ operation_list' = operation_list
  BY DEF vars, control, nodes
<1>2. Typed'
  BY <1>1 DEF LruInv, Typed
<1>3. Disk' = Disk
  BY <1>1, DiskUnchanged
<1>4. \A s : Drift(s) => Drift(s)'
  BY <1>1 DEF Drift
<1>5. CASE Steady(a)
  <2>1. Steady(a)'
    BY <1>1, <1>3, <1>4, <1>5 DEF Steady
  <2> QED BY <1>2, <2>1 DEF LruInv
<1>6. CASE Settled(a)
  <2>1. Settled(a)'
    BY <1>1, <1>3, <1>4, <1>6 DEF Settled
  <2> QED BY <1>2, <2>1 DEF LruInv
<1>7. ASSUME NEW s, NEW t, NEW n, NEW l, NEW op,
             Change(s, t, n, l, op), UnderWay(a, s, t, n, l, op)
      PROVE  LruInv(a)'
  <2>1. Starting(a, s, t, n, l, op) => Starting(a, s, t, n, l, op)'
    BY <1>1, <1>3, <1>4 DEF Starting, Opening
  <2>2. Working(a, s, t, n, l, op) => Working(a, s, t, n, l, op)'
    BY <1>1, <1>3, <1>4 DEF Working, Record
  <2>3. Torn(a, s, t, n, l, op) => Torn(a, s, t, n, l, op)'
    BY <1>1, <1>3, <1>4 DEF Torn, Record
  <2>4. Undoing(a, s, t, n, l, op) => Undoing(a, s, t, n, l, op)'
    BY <1>1, <1>3, <1>4 DEF Undoing, Record
  <2>5. UnderWay(a, s, t, n, l, op)'
    BY <1>7, <2>1, <2>2, <2>3, <2>4 DEF UnderWay
  <2> QED BY <1>2, <1>7, <2>5 DEF LruInv, Change
<1> QED BY <1>5, <1>6, <1>7 DEF LruInv

\* A node of a list has links.
LEMMA LinksIn ==
  ASSUME NEW s, Proper(s), NEW n \in Node, In(s, n)
  PROVE  NextOf(s)[n] \in Node
<1>1. PICK l \in List : n \in Elements(s[l])
  BY DEF In
<1>2. PICK x, p : x = NextOf(s)[n] /\ p = PrevOf(s)[n]
  OBVIOUS
<1>3. x \in Node
  BY <1>1, <1>2, NodeFacts
<1> QED BY <1>2, <1>3

\* The inductive step: the invariant is kept, and the lists stay or change as
\* one insertion or one removal changes them.
LEMMA NextKeeps ==
  ASSUME NEW a, LruInv(a), [Next]_vars, ~ CrashInRecovery
  PROVE  \E b : LruInv(b)' /\ Moves(a, b)
<1>1. Moves(a, a)
  BY DEF Moves
<1>2. ASSUME NEW n \in Node, NEW l \in List, Insert(n, l) PROVE LruInv(a)'
  <2>1. /\ mode = "up" /\ todo = <<>> /\ next[n] = None /\ StartInsert(n, l)
        /\ UNCHANGED <<control, nodes, mode, crashes>> /\ reinsert' = None
    BY <1>2 DEF Insert, Idle
  <2>2. Steady(a)
    BY <2>1, RestIsSteady
  <2>3. next[n] = NextOf(a)[n]
    BY <2>2, DiskIsImage DEF Steady
  <2>4. ~ In(a, n)
    BY <2>1, <2>2, <2>3, LinksIn, RankingsAssumption DEF Steady
  <2> QED BY <2>1, <2>4, InsertStarts
<1>3. ASSUME NEW n \in Node, NEW l \in List, Remove(n, l) PROVE LruInv(a)'
  <2>1. /\ mode = "up" /\ todo = <<>> /\ n \in Elements(OnDisk(l)) /\ StartRemove(n, l)
        /\ UNCHANGED <<control, nodes, mode, crashes>> /\ reinsert' = None
    BY <1>3 DEF Remove, Idle
  <2> QED BY <2>1, RemoveStarts
<1>4. ASSUME NEW n \in Node, NEW l \in List, NEW to \in List, UpdateRank(n, l, to) PROVE LruInv(a)'
  <2>1. /\ mode = "up" /\ todo = <<>> /\ n \in Elements(OnDisk(l)) /\ StartRemove(n, l)
        /\ UNCHANGED <<control, nodes, mode, crashes>> /\ reinsert' = <<n, to>>
    BY <1>4 DEF UpdateRank, Idle
  <2>2. reinsert' \in Node \X List /\ reinsert'[1] = n
    BY <2>1
  <2> QED BY <2>1, <2>2, RemoveStarts
<1>5. ASSUME Reinsert PROVE LruInv(a)'
  <2>1. /\ mode = "up" /\ todo = <<>> /\ reinsert # None /\ StartInsert(reinsert[1], reinsert[2])
        /\ UNCHANGED <<control, nodes, mode, crashes>> /\ reinsert' = None
    BY <1>5 DEF Reinsert
  <2>2. Typed /\ Steady(a)
    BY <2>1, RestIsSteady
  <2>3. reinsert \in Node \X List /\ ~ In(a, reinsert[1])
    BY <2>1, <2>2 DEF Typed, Steady
  <2>4. PICK n \in Node, l \in List : n = reinsert[1] /\ l = reinsert[2]
    BY <2>3
  <2>5. StartInsert(n, l) /\ ~ In(a, n)
    BY <2>1, <2>3, <2>4
  <2> QED BY <2>1, <2>5, InsertStarts
<1>6. CASE Write
  BY <1>6, WriteKeeps
<1>7. CASE Crash
  BY <1>1, <1>7, CrashKeeps
<1>8. CASE Restart
  BY <1>1, <1>8, RestartKeeps
<1>9. CASE Recovered
  BY <1>1, <1>9, RecoveredKeeps
<1>10. CASE UNCHANGED vars
  BY <1>1, <1>10, StutterKeeps
<1> QED BY <1>1, <1>2, <1>3, <1>4, <1>5, <1>6, <1>7, <1>8, <1>9, <1>10 DEF Next

-----------------------------------------------------------------------------
(* What the invariant says.                                                *)

\* Between operations the disk holds the lists of the invariant.
LEMMA InvariantGivesLists ==
  ASSUME NEW a, LruInv(a)
  PROVE  ListsAreWellFormed
<1> SUFFICES ASSUME Idle PROVE ListsAreWellFormed
  BY DEF ListsAreWellFormed
<1>1. Proper(a) /\ Disk = Image(a)
  BY RestIsSteady DEF Idle, Steady
<1>2. \A l \in List : OnDisk(l) = a[l]
  BY <1>1, ReadLists
<1>3. /\ \A m \in List : heads[m] = HeadOf(a)[m] /\ tails[m] = TailOf(a)[m]
      /\ \A y \in Node : next[y] = NextOf(a)[y] /\ prev[y] = PrevOf(a)[y]
  BY <1>1, DiskIsImage
<1>4. \A l \in List : a[l] \in Seq(Node) /\ Len(a[l]) \in Nat /\ DOMAIN a[l] = 1 .. Len(a[l])
  BY <1>1 DEF Proper
<1>5. \A l \in List : a[l] = <<>> <=> tails[l] = None
  BY <1>1, <1>3, EndFacts
<1>6. ASSUME NEW l \in List, NEW s, s = a[l], s # <<>>
      PROVE  /\ prev[s[1]] = s[1]
             /\ s[Len(s)] = tails[l] /\ next[tails[l]] = tails[l]
             /\ \A i \in 1 .. Len(s) - 1 : prev[s[i + 1]] = s[i]
             /\ \A i, j \in DOMAIN s : s[i] = s[j] => i = j
  <2>1. PICK k \in Nat : k = Len(s)
    BY <1>4, <1>6
  <2>2. 1 \in 1 .. k /\ k \in 1 .. k
    BY <1>4, <1>6, <2>1
  <2>3. \A i \in 1 .. k : /\ s[i] \in Node
                          /\ next[s[i]] = After(s, i) /\ prev[s[i]] = Before(s, i)
    BY <1>1, <1>3, <1>6, <2>1, LinksAt
  <2>4. prev[s[1]] = s[1]
    BY <2>2, <2>3 DEF Before
  <2>5. tails[l] = s[k]
    BY <1>3, <1>6, <2>1 DEF TailOf
  <2>6. next[s[k]] = s[k]
    BY <2>1, <2>2, <2>3 DEF After
  <2>7. ASSUME NEW i \in 1 .. k - 1 PROVE prev[s[i + 1]] = s[i]
    <3>1. i + 1 \in 1 .. k /\ i + 1 # 1 /\ (i + 1) - 1 = i
      BY <2>1
    <3>2. prev[s[i + 1]] = Before(s, i + 1)
      BY <2>3, <3>1
    <3> QED BY <3>1, <3>2 DEF Before
  <2>8. \A i, j \in DOMAIN s : s[i] = s[j] => i = j
    BY <1>1, <1>6 DEF Proper
  <2> QED BY <2>1, <2>4, <2>5, <2>6, <2>7, <2>8
<1>7. \A l, m \in List : l # m => Elements(a[l]) \cap Elements(a[m]) = {}
  BY <1>1 DEF Proper, Elements
<1>8. ASSUME NEW n \in Node, \A l \in List : n \notin Elements(a[l])
      PROVE  next[n] = None /\ prev[n] = None
  <2>1. ~ In(a, n)
    BY <1>8 DEF In
  <2> QED BY <1>3, <2>1, LinksOut
<1>9. \A l \in List :
        LET s == OnDisk(l)
        IN  /\ s = <<>> <=> tails[l] = None
            /\ s # <<>> =>
                 /\ prev[s[1]] = s[1]
                 /\ s[Len(s)] = tails[l] /\ next[tails[l]] = tails[l]
                 /\ \A i \in 1 .. Len(s) - 1 : prev[s[i + 1]] = s[i]
                 /\ \A i, j \in DOMAIN s : s[i] = s[j] => i = j
  BY <1>2, <1>5, <1>6, ZenonT(60)
<1>10. \A l, m \in List : l # m => Elements(OnDisk(l)) \cap Elements(OnDisk(m)) = {}
  BY <1>2, <1>7
<1>11. \A n \in Node : (\A l \in List : n \notin Elements(OnDisk(l))) => next[n] = None /\ prev[n] = None
  BY <1>2, <1>8
<1> QED BY <1>9, <1>10, <1>11 DEF ListsAreWellFormed

\* Between operations every counter is off by at most the number of crashes.
LEMMA InvariantGivesCounters ==
  ASSUME NEW a, LruInv(a)
  PROVE  CountersDriftByCrashes
<1> SUFFICES ASSUME Idle, NEW l \in List
             PROVE  sizes[l] - Len(OnDisk(l)) <= crashes /\ - (sizes[l] - Len(OnDisk(l))) <= crashes
  BY DEF CountersDriftByCrashes
<1>1. Typed /\ Proper(a) /\ Disk = Image(a) /\ Drift(a)
  BY RestIsSteady DEF Idle, Steady
<1>2. OnDisk(l) = a[l]
  BY <1>1, ReadLists
<1>3. PICK z \in Nat : z = sizes[l]
  BY <1>1 DEF Typed
<1>4. PICK k \in Nat : k = Len(a[l])
  BY <1>1 DEF Proper
<1>5. PICK c \in Nat : c = crashes
  BY <1>1, RankingsAssumption DEF Typed
<1>6. z <= k + c /\ k <= z + c
  BY <1>1, <1>3, <1>4, <1>5 DEF Drift
<1>7. z - k <= c /\ - (z - k) <= c
  BY <1>6
<1> QED BY <1>2, <1>3, <1>4, <1>5, <1>7

\* The types: a list is no longer than there are nodes, so the counters are bounded.
LEMMA InvariantGivesTypes ==
  ASSUME NEW a, LruInv(a)
  PROVE  TypeOK
<1>1. Typed
  BY DEF LruInv
<1>2. PICK s : Proper(s) /\ Drift(s)
  BY ChangeFacts DEF LruInv, Steady, Settled, UnderWay, Starting, Working, Torn, Undoing
<1>3. ASSUME NEW l \in List PROVE sizes[l] \in 0 .. Cardinality(Node) + MaxCrashes
  <2>1. PICK z \in Nat : z = sizes[l]
    BY <1>1 DEF Typed
  <2>2. PICK k, N \in Nat : k = Len(s[l]) /\ N = Cardinality(Node) /\ k <= N
    BY <1>2, ListLength
  <2>3. PICK c \in Nat : c = crashes /\ c <= MaxCrashes
    BY <1>1, RankingsAssumption DEF Typed
  <2>4. z <= k + c
    BY <1>2, <2>1, <2>2, <2>3 DEF Drift
  <2>5. z \in 0 .. N + MaxCrashes
    BY <2>2, <2>3, <2>4, RankingsAssumption
  <2> QED BY <2>1, <2>2, <2>5
<1>4. sizes \in [List -> 0 .. Cardinality(Node) + MaxCrashes]
  BY <1>1, <1>3 DEF Typed
<1>5. \A i \in DOMAIN todo :
        todo[i].field \in {"operation", "operation_list", "transaction", "heads",
                           "tails", "sizes", "node"}
  <2>1. todo \in Seq(Update)
    BY <1>1 DEF Typed
  <2>2. \A i \in DOMAIN todo : todo[i] \in Update
    BY <2>1
  <2>3. \A w \in Update : w.field \in Field
    BY DEF Update
  <2> QED BY <2>2, <2>3 DEF Field
<1> QED BY <1>1, <1>4, <1>5 DEF TypeOK, Typed

\* What RevertRemove finds is between the links before and after the removal.
LEMMA InvariantGivesKnownStates ==
  ASSUME NEW a, LruInv(a)
  PROVE  RevertFindsKnownState
<1> DEFINE n == transaction
           x == next[n]
           p == prev[n]
<1> SUFFICES ASSUME mode = "down", n # None, operation = "remove", x # None, p # None
             PROVE  next[p] \in {n, p, x} /\ prev[x] \in {n, x, p}
  BY DEF RevertFindsKnownState
<1>1. ~ Steady(a)
  BY DEF Steady
<1>2. ~ Settled(a)
  <2> SUFFICES ASSUME Settled(a) PROVE FALSE
    OBVIOUS
  <2>1. n \in Node /\ ~ In(a, n) /\ Disk = Image(a)
    BY DEF Settled
  <2>2. next[n] = NextOf(a)[n]
    BY <2>1, DiskIsImage
  <2> QED BY <2>1, <2>2, LinksOut
<1>3. PICK s, t, m, l, op : Change(s, t, m, l, op) /\ UnderWay(a, s, t, m, l, op)
  BY <1>1, <1>2 DEF LruInv
<1>4. Torn(a, s, t, m, l, op)
  BY <1>3 DEF UnderWay, Starting, Working, Undoing
<1>5. m = n /\ op = "remove" /\ Between(Disk, Image(s), Image(t), <<"node", m>>)
  BY <1>4 DEF Torn, Record, Key
<1>6. Proper(s) /\ l \in List
  BY <1>3 DEF Change
<1>7. PICK i \in 1 .. Len(s[l]) : s[l][i] = m /\ t = Removed(s, l, i)
  BY <1>3, <1>5 DEF Change
<1>8. PICK y, q : y = NextOf(s)[m] /\ q = PrevOf(s)[m]
  OBVIOUS
<1>9. /\ next[m] = y /\ prev[m] = q
      /\ y # m => prev[y] \in {m, IF q = m THEN y ELSE q}
      /\ q # m => next[q] \in {m, IF y = m THEN q ELSE y}
  BY <1>5, <1>6, <1>7, <1>8, TornLinks
<1>10. next[q] \in {m, q, y} /\ prev[y] \in {m, y, q}
  BY <1>9
<1> QED BY <1>5, <1>9, <1>10

-----------------------------------------------------------------------------
(* Theorems.                                                               *)

LruInvariant == \E a : LruInv(a)

\* The inductive invariant: whatever the process was doing when it crashed, the
\* links on disk are those of proper lists, or lie between those before and those
\* after the one operation that is recorded.
THEOREM LruListsInvariant ==
  ASSUME ~ CrashInRecovery
  PROVE  Spec => []LruInvariant
<1>1. Init => LruInvariant
  BY InitIsSteady DEF LruInvariant
<1>2. LruInvariant /\ [Next]_vars => LruInvariant'
  BY NextKeeps DEF LruInvariant
<1> QED BY <1>1, <1>2, PTL DEF Spec

\* Whenever no operation of Rankings is under way, and whatever crashes came before,
\* the disk holds proper lists (Insert, Remove, CompleteTransaction of rankings.cc).
THEOREM WellFormedLists ==
  ASSUME ~ CrashInRecovery
  PROVE  Spec => []ListsAreWellFormed
<1>1. LruInvariant => ListsAreWellFormed
  BY InvariantGivesLists DEF LruInvariant
<1> QED BY <1>1, LruListsInvariant, PTL

\* Insert, Remove and Init never meet links that make them call CriticalError, and
\* RevertRemove finds only the states that its DCHECKs allow.
THEOREM UnderstoodDisk ==
  ASSUME ~ CrashInRecovery
  PROVE  Spec => []DiskIsUnderstood
<1>1. LruInvariant => DiskIsUnderstood
  <2> SUFFICES ASSUME LruInvariant PROVE DiskIsUnderstood
    OBVIOUS
  <2>1. PICK a : LruInv(a)
    BY DEF LruInvariant
  <2>2. TypeOK /\ RevertFindsKnownState
    BY <2>1, InvariantGivesTypes, InvariantGivesKnownStates
  <2>3. NeverCritical
    BY <2>1 DEF LruInv, Typed, NeverCritical
  <2> QED BY <2>2, <2>3 DEF DiskIsUnderstood
<1> QED BY <1>1, LruListsInvariant, PTL

\* A counter of IncrementCounter and DecrementCounter is off by at most one for
\* every crash.
THEOREM BoundedDrift ==
  ASSUME ~ CrashInRecovery
  PROVE  Spec => []CountersDriftByCrashes
<1>1. LruInvariant => CountersDriftByCrashes
  BY InvariantGivesCounters DEF LruInvariant
<1> QED BY <1>1, LruListsInvariant, PTL
-----------------------------------------------------------------------------
(* What the lists are, seen through the record of the transaction.         *)

\* The places of x in q, and q with n put in front of the place k.
PlacesOf(q, x) == {i \in DOMAIN q : q[i] = x}
Filled(q, k, n) == SubSeq(q, 1, k - 1) \o <<n>> \o SubSeq(q, k, Len(q))

\* The refinement mapping at one list, case by case: the list is what is on disk,
LEMMA ListsAsOnDisk ==
  ASSUME NEW l \in List, NEW n, n = Committed, NEW s, s = OnDisk(l),
         \/ n = None
         \/ operation_list # l
         \/ n \in Elements(s)
         \/ operation = "remove" /\ next[n] = None
  PROVE  Lists[l] = s
BY DEF Lists

\* it gets the node that is being inserted,
LEMMA ListsWithInsertion ==
  ASSUME NEW l \in List, NEW n, n = Committed, NEW s, s = OnDisk(l),
         n # None, operation_list = l, n \notin Elements(s), operation # "remove"
  PROVE  Lists[l] = <<n>> \o s
BY DEF Lists

\* or it gets back the node that is being removed, as the last,
LEMMA ListsWithLast ==
  ASSUME NEW l \in List, NEW n, n = Committed, NEW s, s = OnDisk(l),
         n # None, operation_list = l, n \notin Elements(s),
         operation = "remove", next[n] = n
  PROVE  Lists[l] = Append(s, n)
BY DEF Lists

\* or in front of the one that follows it.
LEMMA ListsWithRemoved ==
  ASSUME NEW l \in List, NEW n, n = Committed, NEW s, s = OnDisk(l),
         n # None, operation_list = l, n \notin Elements(s),
         operation = "remove", next[n] # n, next[n] # None,
         NEW k, PlacesOf(s, next[n]) = {k}
  PROVE  Lists[l] = Filled(s, k, n)
<1>1. PICK at : at = {i \in DOMAIN s : s[i] = next[n]}
  OBVIOUS
<1>2. PICK before : before = CHOOSE i \in at : TRUE
  OBVIOUS
<1>3. before = k
  BY <1>1, <1>2 DEF PlacesOf
<1>4. Lists[l] = SubSeq(s, 1, before - 1) \o <<n>> \o SubSeq(s, before, Len(s))
  BY <1>1, <1>2 DEF Lists
<1> QED BY <1>3, <1>4 DEF Filled

\* Nothing is under way, or all of it is done.
LEMMA ReadDone ==
  ASSUME NEW a, Proper(a), Disk = Image(a),
         \/ Committed = None
         \/ /\ operation = "insert" /\ Committed \in Node
            /\ HeadOf(a)[operation_list] = Committed /\ operation_list \in List
         \/ operation = "remove" /\ Committed \in Node /\ ~ In(a, Committed)
  PROVE  Lists = a
<1>1. ASSUME NEW l \in List PROVE Lists[l] = a[l]
  <2>1. PICK n : n = Committed
    OBVIOUS
  <2>2. PICK s : s = OnDisk(l)
    OBVIOUS
  <2>3. s = a[l]
    BY <2>2, ReadLists
  <2>4. CASE n = None
    <3>1. Lists[l] = s
      BY <2>1, <2>2, <2>4, ListsAsOnDisk
    <3> QED BY <2>3, <3>1
  <2>5. CASE operation = "insert" /\ n \in Node /\ HeadOf(a)[operation_list] = n /\ operation_list \in List
    <3>1. operation_list = l => n \in Elements(s)
      BY <2>3, <2>5, EndFacts, RankingsAssumption
    <3>2. Lists[l] = s
      BY <2>1, <2>2, <3>1, ListsAsOnDisk
    <3> QED BY <2>3, <3>2
  <2>6. CASE operation = "remove" /\ n \in Node /\ ~ In(a, n)
    <3>1. next[n] = None
      BY <2>6, DiskIsImage, LinksOut
    <3>2. n \notin Elements(s)
      BY <2>3, <2>6 DEF In
    <3>3. n # None
      BY <2>6, RankingsAssumption
    <3>4. CASE operation_list # l
      BY <2>1, <2>2, <2>3, <3>4, ListsAsOnDisk
    <3>5. CASE operation_list = l
      <4>1. n = Committed /\ s = OnDisk(l)
        BY <2>1, <2>2
      <4>2. Lists[l] = s
        BY <2>6, <3>1, <3>2, <3>3, <3>5, <4>1, ListsAsOnDisk
      <4> QED BY <2>3, <4>2
    <3> QED BY <3>4, <3>5
  <2> QED BY <2>1, <2>4, <2>5, <2>6
<1>2. Lists = [l \in List |-> Lists[l]] /\ a = [l \in List |-> a[l]]
  BY DEF Lists, Proper
<1> QED BY <1>1, <1>2

\* An insertion is committed to and not yet at the head.
LEMMA ReadInserting ==
  ASSUME NEW s, Proper(s), NEW n \in Node, ~ In(s, n), NEW l \in List,
         NEW t, t = Inserted(s, n, l),
         Between(Disk, Image(s), Image(t), <<"heads", l>>),
         Committed = n, operation # "remove", operation_list = l
  PROVE  Lists = t
<1>1. PICK h : h = HeadOf(s)[l]
  OBVIOUS
<1>2. /\ \A m \in List : HeadOf(t)[m] = IF m = l THEN n ELSE HeadOf(s)[m]
      /\ \A x \in Node : NextOf(t)[x] =
           IF x = n THEN IF h = None THEN n ELSE h ELSE NextOf(s)[x]
  BY <1>1, InsertedLinks
<1>3. PICK k0 : k0 = <<"heads", l>>
  OBVIOUS
<1>4. /\ \A m \in List : heads[m] = HeadOf(s)[m] \/ heads[m] = HeadOf(t)[m]
      /\ \A y \in Node : next[y] = NextOf(s)[y] \/ next[y] = NextOf(t)[y]
      /\ heads[l] = HeadOf(s)[l]
  BY <1>3, BetweenAt
<1>5. ASSUME NEW m \in List PROVE OnDisk(m) = s[m]
  <2>1. heads[m] = HeadOf(s)[m]
    BY <1>2, <1>4
  <2>2. \A y \in Elements(s[m]) : y \in Node /\ y # n
    BY DEF Proper, Elements, In
  <2>3. \A y \in Elements(s[m]) : next[y] = NextOf(s)[y]
    BY <1>2, <1>4, <2>2
  <2> QED BY <2>1, <2>3, WalkFindsList
<1>6. t \in [List -> Seq(Node)] /\ t[l] = <<n>> \o s[l] /\ \A m \in List : m # l => t[m] = s[m]
  BY DEF Inserted, Proper
<1>7. ASSUME NEW m \in List PROVE Lists[m] = t[m]
  <2>1. PICK q : q = OnDisk(m)
    OBVIOUS
  <2>2. q = s[m] /\ n \notin Elements(q) /\ n # None
    BY <1>5, <2>1, RankingsAssumption DEF In
  <2>3. CASE m = l
    BY <1>6, <2>1, <2>2, <2>3, ListsWithInsertion, ZenonT(60)
  <2>4. CASE m # l
    BY <1>6, <2>1, <2>2, <2>4, ListsAsOnDisk
  <2> QED BY <2>3, <2>4
<1>8. Lists = [m \in List |-> Lists[m]] /\ t = [m \in List |-> t[m]]
  BY <1>6 DEF Lists
<1> QED BY <1>7, <1>8

\* The sequence q is u with n put back at the place i.
Restores(q, u, i, n) ==
  /\ i = Len(q) => Append(u, n) = q
  /\ i # Len(q) => PlacesOf(u, q[i + 1]) = {i} /\ Filled(u, i, n) = q

\* The node that is being removed is put back where it was.
LEMMA PutBack ==
  ASSUME NEW s, Proper(s), NEW l \in List, NEW i \in 1 .. Len(s[l]),
         NEW t, t = Removed(s, l, i), NEW n, n = s[l][i],
         NEW q, q = s[l], NEW u, u = t[l]
  PROVE  Restores(q, u, i, n)
<1>1. q = s[l] /\ u = t[l]
  OBVIOUS
<1>2. PICK k \in Nat : k = Len(q)
  BY <1>1 DEF Proper
<1>3. /\ u \in Seq(Node) /\ Len(u) = k - 1
      /\ \A j \in 1 .. k - 1 : u[j] = IF j < i THEN q[j] ELSE q[j + 1]
  BY <1>1, <1>2, RemovedPlaces
<1>4. q \in Seq(Node) /\ i \in 1 .. k /\ n = q[i] /\ n \in Node
  BY <1>1, <1>2 DEF Proper
<1>5. \A j, m \in 1 .. k : q[j] = q[m] => j = m
  BY <1>1, <1>2, <1>4 DEF Proper
<1>6. CASE i = k
  <2>1. PICK v : v = Append(u, n)
    OBVIOUS
  <2>2. v \in Seq(Node) /\ Len(v) = k /\ \A j \in 1 .. k : v[j] = IF j = k THEN n ELSE u[j]
    BY <1>2, <1>3, <1>4, <2>1
  <2>3. \A j \in 1 .. k : v[j] = q[j]
    BY <1>3, <1>4, <1>6, <2>2
  <2>4. v = q
    BY <1>2, <1>4, <2>2, <2>3, SeqEqual
  <2> QED BY <1>2, <1>6, <2>1, <2>4 DEF Restores
<1>7. CASE i # k
  <2>1. i \in 1 .. k - 1 /\ i + 1 \in 1 .. k
    BY <1>4, <1>7
  <2>2. PICK x : x = q[i + 1]
    OBVIOUS
  <2>3. u[i] = x
    BY <1>3, <2>1, <2>2
  <2>4. DOMAIN u = 1 .. k - 1
    BY <1>3
  <2>5. ASSUME NEW j \in 1 .. k - 1, u[j] = x PROVE j = i
    <3>1. CASE j < i
      <4>1. j \in 1 .. k /\ q[j] = x
        BY <1>2, <1>3, <2>5, <3>1
      <4>2. j = i + 1
        BY <1>5, <2>1, <2>2, <4>1
      <4> QED BY <2>1, <3>1, <4>2
    <3>2. CASE ~ (j < i)
      <4>1. j + 1 \in 1 .. k /\ q[j + 1] = x
        BY <1>2, <1>3, <2>5, <3>2
      <4>2. j + 1 = i + 1
        BY <1>5, <2>1, <2>2, <4>1
      <4> QED BY <2>1, <4>2
    <3> QED BY <3>1, <3>2
  <2>6. {j \in DOMAIN u : u[j] = x} = {i}
    BY <2>1, <2>3, <2>4, <2>5
  <2>7. PICK a, b, c, v : a = SubSeq(u, 1, i - 1) /\ b = SubSeq(u, i, Len(u)) /\ c = a \o <<n>> /\ v = c \o b
    OBVIOUS
  <2>8. a \in Seq(Node) /\ Len(a) = i - 1 /\ \A j \in 1 .. i - 1 : a[j] = u[j]
    BY <1>2, <1>3, <2>1, <2>7
  <2>9. b \in Seq(Node) /\ Len(b) = k - i /\ \A j \in 1 .. k - i : b[j] = u[i + j - 1]
    BY <1>2, <1>3, <2>1, <2>7, SMTT(40)
  <2>10. <<n>> \in Seq(Node) /\ Len(<<n>>) = 1 /\ <<n>>[1] = n
    BY <1>4
  <2>11. /\ c \in Seq(Node) /\ Len(c) = i
         /\ \A j \in 1 .. i : c[j] = IF j <= i - 1 THEN a[j] ELSE n
    <3>1. /\ c \in Seq(Node) /\ Len(c) = Len(a) + 1
          /\ \A j \in 1 .. Len(a) + 1 : c[j] = IF j <= Len(a) THEN a[j] ELSE <<n>>[j - Len(a)]
      BY <2>7, <2>8, <2>10, ConcatProperties
    <3>2. Len(a) + 1 = i
      BY <2>1, <2>8
    <3>3. ASSUME NEW j \in 1 .. i PROVE c[j] = IF j <= i - 1 THEN a[j] ELSE n
      <4>1. c[j] = IF j <= i - 1 THEN a[j] ELSE <<n>>[j - (i - 1)]
        BY <2>8, <3>1, <3>2
      <4>2. ~ (j <= i - 1) => j - (i - 1) = 1
        BY <2>1
      <4> QED BY <2>10, <4>1, <4>2
    <3> QED BY <3>1, <3>2, <3>3
  <2>12. /\ v \in Seq(Node) /\ Len(v) = k
         /\ \A j \in 1 .. k : v[j] = IF j <= i THEN c[j] ELSE b[j - i]
    <3>1. /\ v \in Seq(Node) /\ Len(v) = Len(c) + Len(b)
          /\ \A j \in 1 .. Len(c) + Len(b) : v[j] = IF j <= Len(c) THEN c[j] ELSE b[j - Len(c)]
      <4>1. c \in Seq(Node) /\ b \in Seq(Node) /\ v = c \o b
        BY <2>7, <2>9, <2>11
      <4> QED BY <4>1, ConcatProperties
    <3>2. Len(c) + Len(b) = k
      BY <1>2, <2>1, <2>9, <2>11
    <3> QED BY <2>11, <3>1, <3>2
  <2>13. ASSUME NEW j \in 1 .. k PROVE v[j] = q[j]
    <3>1. CASE j <= i - 1
      <4>1. j \in 1 .. i - 1 /\ j \in 1 .. i /\ j \in 1 .. k - 1 /\ j <= i /\ j < i
        BY <1>2, <2>1, <3>1
      <4>2. v[j] = c[j]
        BY <2>12, <4>1
      <4>3. c[j] = a[j]
        BY <2>11, <3>1, <4>1
      <4>4. a[j] = u[j] /\ u[j] = q[j]
        BY <1>3, <2>8, <4>1
      <4> QED BY <4>2, <4>3, <4>4
    <3>2. CASE j = i
      <4>1. v[j] = c[i] /\ c[i] = n
        BY <2>1, <2>11, <2>12, <3>2
      <4> QED BY <1>4, <3>2, <4>1
    <3>3. CASE j > i
      <4>1. j - i \in 1 .. k - i /\ j - 1 \in 1 .. k - 1 /\ i + (j - i) - 1 = j - 1 /\ ~ (j - 1 < i) /\ (j - 1) + 1 = j /\ ~ (j <= i)
        BY <1>2, <2>1, <3>3
      <4>2. v[j] = b[j - i]
        BY <2>12, <4>1
      <4>3. b[j - i] = u[j - 1]
        BY <2>9, <4>1
      <4>4. u[j - 1] = q[j]
        BY <1>3, <4>1
      <4> QED BY <4>2, <4>3, <4>4
    <3> QED BY <2>1, <3>1, <3>2, <3>3
  <2>14. v = q
    BY <1>2, <1>4, <2>12, <2>13, SeqEqual
  <2>15. SubSeq(u, 1, i - 1) \o <<n>> \o SubSeq(u, i, Len(u)) = q
    BY <2>7, <2>14
  <2> QED BY <1>2, <1>7, <2>2, <2>6, <2>15 DEF PlacesOf, Filled, Restores
<1> QED BY <1>6, <1>7

\* A removal is recorded and its node still has its links.
LEMMA ReadRemoving ==
  ASSUME NEW s, Proper(s), NEW l \in List, NEW i \in 1 .. Len(s[l]),
         NEW t, t = Removed(s, l, i), NEW n, n = s[l][i],
         Between(Disk, Image(s), Image(t), <<"node", n>>),
         Committed = n, operation = "remove", operation_list = l
  PROVE  Lists = s
<1>1. PICK x, p : x = NextOf(s)[n] /\ p = PrevOf(s)[n]
  OBVIOUS
<1>2. /\ \A m \in List : m # l => HeadOf(t)[m] = HeadOf(s)[m]
      /\ HeadOf(s)[l] # n => HeadOf(t)[l] = HeadOf(s)[l]
      /\ \A y \in Node : y # n /\ y # p => NextOf(t)[y] = NextOf(s)[y]
  BY <1>1, RemovedLinks
<1>3. PICK k0 : k0 = <<"node", n>>
  OBVIOUS
<1>4. /\ \A m \in List : heads[m] = HeadOf(s)[m] \/ heads[m] = HeadOf(t)[m]
      /\ \A y \in Node : next[y] = NextOf(s)[y] \/ next[y] = NextOf(t)[y]
  BY <1>3, BetweenAt
<1>5. n \in Node /\ x \in Node /\ p \in Node /\ next[n] = x
  BY <1>1, TornLinks
<1>6. n \in Elements(s[l])
  BY DEF Elements, Proper
<1>7. /\ p \in Elements(s[l])
      /\ p = n <=> HeadOf(s)[l] = n
      /\ p # n => NextOf(s)[p] = n
  BY <1>1, <1>6, NodeFacts
<1>8. \A m \in List : \A y \in Elements(s[m]) : y \in Node /\ (m # l => y # n /\ y # p)
  BY <1>6, <1>7 DEF Proper, Elements
<1>9. Proper(t) /\ (\A y : y \in Elements(t[l]) <=> y \in Elements(s[l]) /\ y # n)
  BY RemovedIsProper
<1>10. ASSUME NEW m \in List, m # l PROVE Lists[m] = s[m]
  <2>1. heads[m] = HeadOf(s)[m]
    BY <1>2, <1>4, <1>10
  <2>2. \A y \in Elements(s[m]) : next[y] = NextOf(s)[y]
    BY <1>2, <1>4, <1>8, <1>10
  <2>3. OnDisk(m) = s[m]
    BY <2>1, <2>2, WalkFindsList
  <2>4. PICK q : q = OnDisk(m)
    OBVIOUS
  <2>5. Lists[m] = q
    BY <1>10, <2>4, ListsAsOnDisk
  <2> QED BY <2>3, <2>4, <2>5
<1>11. ASSUME heads[l] = HeadOf(s)[l] /\ (p # n => next[p] = n)
       PROVE  Lists[l] = s[l]
  <2>1. ASSUME NEW y \in Elements(s[l]) PROVE next[y] = NextOf(s)[y]
    <3>1. y \in Node
      BY <1>8
    <3> QED BY <1>1, <1>2, <1>4, <1>5, <1>7, <1>11, <3>1
  <2>2. OnDisk(l) = s[l]
    BY <1>11, <2>1, WalkFindsList
  <2>3. PICK q : q = OnDisk(l)
    OBVIOUS
  <2>4. n \in Elements(q)
    BY <1>6, <2>2, <2>3
  <2>5. Lists[l] = q
    BY <2>3, <2>4, ListsAsOnDisk
  <2>6. Lists[l] = s[l]
    BY <2>2, <2>3, <2>5
  <2> QED BY <2>6
<1>12. ASSUME ~ (heads[l] = HeadOf(s)[l] /\ (p # n => next[p] = n))
       PROVE  Lists[l] = s[l]
  <2>1. heads[l] = HeadOf(t)[l]
    BY <1>2, <1>4, <1>7, <1>12
  <2>2. p # n => next[p] = NextOf(t)[p]
    BY <1>2, <1>4, <1>5, <1>7, <1>12
  <2>3. ASSUME NEW y \in Elements(t[l]) PROVE next[y] = NextOf(t)[y]
    <3>1. y \in Node /\ y # n
      BY <1>8, <1>9
    <3> QED BY <1>2, <1>4, <2>2, <3>1
  <2>4. OnDisk(l) = t[l]
    BY <1>9, <2>1, <2>3, WalkFindsList
  <2>5. PICK q : q = OnDisk(l)
    OBVIOUS
  <2>6. n \notin Elements(q)
    BY <1>9, <2>4, <2>5
  <2>7. n # None /\ x # None
    BY <1>5, RankingsAssumption
  <2>8. x = After(s[l], i)
    BY <1>1, LinksAt
  <2>9. PICK k \in Nat : k = Len(s[l])
    BY DEF Proper
  <2>12. PICK r : r = s[l]
    OBVIOUS
  <2>13. q = t[l]
    BY <2>4, <2>5
  <2>15. Restores(r, q, i, n)
    BY <2>12, <2>13, PutBack
  <2>14. /\ i = Len(r) => Append(q, n) = r
         /\ i # Len(r) => PlacesOf(q, r[i + 1]) = {i} /\ Filled(q, i, n) = r
    BY <2>15 DEF Restores
  <2>10. CASE i = Len(s[l])
    <3>1. next[n] = n
      BY <1>5, <2>8, <2>10 DEF After
    <3>2. Lists[l] = Append(q, n)
      BY <2>5, <2>6, <2>7, <3>1, ListsWithLast
    <3> QED BY <2>10, <2>12, <2>14, <3>2
  <2>11. CASE i # Len(s[l])
    <3>1. x = s[l][i + 1] /\ i + 1 \in 1 .. Len(s[l]) /\ i + 1 # i
      BY <2>8, <2>9, <2>11 DEF After
    <3>2. x # n
      BY <3>1 DEF Proper
    <3>3. PlacesOf(q, next[n]) = {i}
      BY <1>5, <2>11, <2>12, <2>14, <3>1
    <3>5. next[n] # n /\ next[n] # None
      BY <1>5, <2>7, <3>2
    <3>6. Lists[l] = Filled(q, i, n)
      BY <2>5, <2>6, <2>7, <3>3, <3>5, ListsWithRemoved
    <3> QED BY <2>11, <2>12, <2>14, <3>6
  <2> QED BY <2>10, <2>11
<1>13. \A m \in List : Lists[m] = s[m]
  BY <1>10, <1>11, <1>12
<1>14. Lists = [m \in List |-> Lists[m]] /\ s = [m \in List |-> s[m]]
  BY DEF Lists, Proper
<1> QED BY <1>13, <1>14

\* The writes q record no transaction but that of n; they record that of n.
NamesOnly(q, n) ==
  \A i \in 1 .. Len(q) : q[i].field = "transaction" => q[i].to = None \/ q[i].to = n
Names(q, n) == \E i \in 1 .. Len(q) : q[i].field = "transaction" /\ q[i].to = n

\* One write before the others names a transaction if it does or they do.
LEMMA NamesBefore ==
  ASSUME NEW x \in Update, NEW r \in Seq(Update), NEW n, NamesOnly(r, n),
         x.field = "transaction" => x.to = None \/ x.to = n,
         NEW q, q = <<x>> \o r
  PROVE  /\ q \in Seq(Update) /\ NamesOnly(q, n)
         /\ Names(r, n) => Names(q, n)
         /\ x.field = "transaction" /\ x.to = n => Names(q, n)
<1>1. PICK k \in Nat : k = Len(r)
  OBVIOUS
<1>2. <<x>> \in Seq(Update) /\ Len(<<x>>) = 1 /\ <<x>>[1] = x
  OBVIOUS
<1>3. /\ q \in Seq(Update) /\ Len(q) = k + 1
      /\ \A i \in 1 .. k + 1 : q[i] = IF i <= 1 THEN x ELSE r[i - 1]
  <2>1. /\ q \in Seq(Update) /\ Len(q) = 1 + k
        /\ \A i \in 1 .. 1 + k : q[i] = IF i <= 1 THEN <<x>>[i] ELSE r[i - 1]
    BY <1>1, <1>2, ConcatProperties
  <2> QED BY <1>1, <1>2, <2>1
<1>4. q[1] = x /\ 1 \in 1 .. Len(q)
  BY <1>1, <1>3
<1>5. \A i \in 1 .. k : i + 1 \in 1 .. Len(q) /\ q[i + 1] = r[i]
  <2> SUFFICES ASSUME NEW i \in 1 .. k PROVE i + 1 \in 1 .. Len(q) /\ q[i + 1] = r[i]
    OBVIOUS
  <2>1. i + 1 \in 1 .. k + 1 /\ ~ (i + 1 <= 1) /\ (i + 1) - 1 = i
    BY <1>1
  <2> QED BY <1>3, <2>1
<1>6. ASSUME NEW i \in 1 .. Len(q) PROVE q[i] = x \/ \E j \in 1 .. k : q[i] = r[j]
  <2>1. CASE i <= 1
    BY <1>1, <1>3, <2>1
  <2>2. CASE ~ (i <= 1)
    <3>1. i - 1 \in 1 .. k /\ i \in 1 .. k + 1
      BY <1>1, <1>3, <2>2
    <3> QED BY <1>3, <2>2, <3>1
  <2> QED BY <2>1, <2>2
<1>7. NamesOnly(q, n)
  BY <1>1, <1>6 DEF NamesOnly
<1>8. Names(r, n) => Names(q, n)
  BY <1>1, <1>5 DEF Names
<1>9. x.field = "transaction" /\ x.to = n => Names(q, n)
  BY <1>4 DEF Names
<1> QED BY <1>3, <1>7, <1>8, <1>9

\* The writes after the record of a transaction name no other.
LEMMA NamesNoOther ==
  ASSUME NEW w \in Seq(LinkWrite), NEW l \in List, NEW op, NEW n, NEW r, r = w \o Closing(l, op)
  PROVE  r \in Seq(Update) /\ NamesOnly(r, n)
<1>1. PICK g, e : g = Set("sizes", l, Delta(op)) /\ e = Set("transaction", None, None)
  OBVIOUS
<1>2. g \in Update /\ e \in Update
  BY <1>1, RecordWrites
<1>3. g.field # "transaction" /\ e.to = None
  BY <1>1 DEF Set
<1>4. PICK z \in Seq(RecordWrite) : EndTransaction = <<e>> \o z
  BY <1>1, ClosingWrites
<1>5. z \in Seq(Update)
  BY RecordWrites
<1>6. NamesOnly(z, n)
  <2>1. \A i \in 1 .. Len(z) : z[i] \in RecordWrite
    OBVIOUS
  <2>2. \A y \in RecordWrite : y.field # "transaction"
    BY DEF RecordWrite, Set
  <2> QED BY <2>1, <2>2 DEF NamesOnly
<1>7. PICK u : u = <<e>> \o z
  OBVIOUS
<1>8. u \in Seq(Update) /\ NamesOnly(u, n)
  BY <1>2, <1>3, <1>5, <1>6, <1>7, NamesBefore
<1>9. PICK c : c = <<g>> \o u
  OBVIOUS
<1>10. c \in Seq(Update) /\ NamesOnly(c, n)
  BY <1>2, <1>3, <1>8, <1>9, NamesBefore
<1>11. c = Closing(l, op)
  BY <1>1, <1>4, <1>7, <1>9 DEF Closing
<1>12. w \in Seq(Update) /\ r = w \o c
  BY <1>11, RecordWrites
<1>13. PICK k, m \in Nat : k = Len(w) /\ m = Len(c)
  BY <1>10
<1>14. /\ r \in Seq(Update) /\ Len(r) = k + m
       /\ \A i \in 1 .. k + m : r[i] = IF i <= k THEN w[i] ELSE c[i - k]
  BY <1>10, <1>12, <1>13, ConcatProperties
<1>15. \A y \in LinkWrite : y.field # "transaction"
  <2> SUFFICES ASSUME NEW y \in LinkWrite PROVE y.field # "transaction"
    OBVIOUS
  <2>1. At(y) \in Loc
    BY LinkWriteFacts
  <2> QED BY <2>1 DEF At, Loc
<1>16. ASSUME NEW i \in 1 .. Len(r), r[i].field = "transaction"
       PROVE  r[i].to = None \/ r[i].to = n
  <2>1. CASE i <= k
    <3>1. r[i] = w[i] /\ i \in 1 .. k
      BY <1>14, <2>1
    <3>2. w[i] \in LinkWrite
      BY <1>13, <3>1
    <3> QED BY <1>15, <1>16, <3>1, <3>2
  <2>2. CASE ~ (i <= k)
    <3>1. i - k \in 1 .. m /\ r[i] = c[i - k]
      BY <1>13, <1>14, <2>2
    <3> QED BY <1>10, <1>13, <1>16, <3>1 DEF NamesOnly
  <2> QED BY <2>1, <2>2
<1> QED BY <1>14, <1>16 DEF NamesOnly

\* Init, about to insert again, is committed to the insertion.
LEMMA CommittedAgain ==
  ASSUME Typed, NEW a, NEW s, NEW t, NEW n, NEW l, NEW op,
         Change(s, t, n, l, op), Starting(a, s, t, n, l, op), mode = "recovering"
  PROVE  Committed = n
<1>1. n \in Node /\ l \in List /\ op \in {"insert", "remove"} /\ n # None
  BY ChangeFacts, RankingsAssumption
<1>2. PICK w \in Seq(LinkWrite) : Opening(w \o Closing(l, op), n, l, op)
  BY DEF Starting
<1>3. PICK r : r = w \o Closing(l, op)
  OBVIOUS
<1>4. r \in Seq(Update) /\ NamesOnly(r, n)
  BY <1>1, <1>3, NamesNoOther
<1>5. Opening(r, n, l, op)
  BY <1>2, <1>3
<1>6. CASE transaction = n
  BY <1>1, <1>6 DEF Committed
<1>7. CASE transaction # n
  <2>1. PICK b, c, d, f : /\ b = Set("transaction", None, n) /\ c = Set("operation_list", None, l)
                          /\ d = Set("operation", None, op) /\ f = Set("operation", None, "none")
    OBVIOUS
  <2>2. b \in Update /\ c \in Update /\ d \in Update /\ f \in Update
    BY <1>1, <2>1, RecordWrites
  <2>3. /\ b.field = "transaction" /\ b.to = n /\ c.field # "transaction"
        /\ d.field # "transaction" /\ f.field # "transaction"
    BY <2>1 DEF Set
  <2>4. PICK q1 : q1 = Recording(r, n)
    OBVIOUS
  <2>5. q1 = <<b>> \o r
    BY <2>1, <2>4 DEF Recording
  <2>6. q1 \in Seq(Update) /\ NamesOnly(q1, n) /\ Names(q1, n)
    BY <1>4, <2>2, <2>3, <2>5, NamesBefore
  <2>7. PICK q2 : q2 = Listing(r, n, l)
    OBVIOUS
  <2>8. q2 = <<c>> \o q1
    BY <2>1, <2>4, <2>7 DEF Listing
  <2>9. q2 \in Seq(Update) /\ NamesOnly(q2, n) /\ Names(q2, n)
    BY <2>2, <2>3, <2>6, <2>8, NamesBefore
  <2>10. PICK q3 : q3 = Naming(r, n, l, op)
    OBVIOUS
  <2>11. q3 = <<d>> \o q2
    BY <2>1, <2>7, <2>10 DEF Naming
  <2>12. q3 \in Seq(Update) /\ NamesOnly(q3, n) /\ Names(q3, n)
    BY <2>2, <2>3, <2>9, <2>11, NamesBefore
  <2>13. PICK q4 : q4 = Unnaming(r, n, l, op)
    OBVIOUS
  <2>14. q4 = <<f>> \o q3
    BY <2>1, <2>10, <2>13 DEF Unnaming
  <2>15. q4 \in Seq(Update) /\ NamesOnly(q4, n) /\ Names(q4, n)
    BY <2>2, <2>3, <2>12, <2>14, NamesBefore
  <2>16. transaction = None /\ (todo = q1 \/ todo = q2 \/ todo = q3 \/ todo = q4)
    BY <1>5, <1>7, <2>4, <2>7, <2>10, <2>13 DEF Opening
  <2>17. NamesOnly(todo, n) /\ Names(todo, n)
    BY <2>6, <2>9, <2>12, <2>15, <2>16
  <2>18. DOMAIN todo = 1 .. Len(todo)
    BY DEF Typed
  <2>19. Again # {}
    BY <1>1, <2>17, <2>18 DEF Again, Names
  <2>20. \A i \in Again : todo[i].to = n
    BY <2>17, <2>18 DEF Again, NamesOnly
  <2>21. PICK j : j = CHOOSE i \in Again : TRUE
    OBVIOUS
  <2>22. todo[j].to = n
    BY <2>19, <2>20, <2>21
  <2> QED BY <2>16, <2>19, <2>21, <2>22 DEF Committed
<1> QED BY <1>6, <1>7

\* Nothing is committed to while nothing is recorded and Init repairs nothing.
LEMMA CommittedToNothing ==
  ASSUME transaction = None, mode # "recovering" \/ todo \in Seq(RecordWrite)
  PROVE  Committed = None
<1>1. CASE mode # "recovering"
  BY <1>1 DEF Committed
<1>2. CASE todo \in Seq(RecordWrite)
  <2>1. \A i \in DOMAIN todo : todo[i] \in RecordWrite
    BY <1>2
  <2>2. \A y \in RecordWrite : y.field # "transaction"
    BY DEF RecordWrite, Set
  <2>3. Again = {}
    BY <2>1, <2>2 DEF Again
  <2> QED BY <2>3 DEF Committed
<1> QED BY <1>1, <1>2

\* The lists of the invariant are those of the refinement mapping.
LEMMA ListsAreThose == \A a : LruInv(a) => Lists = a
<1> SUFFICES ASSUME NEW a, LruInv(a) PROVE Lists = a
  OBVIOUS
<1>1. Typed
  BY DEF LruInv
<1>2. None \notin Node
  BY RankingsAssumption
<1>3. CASE Steady(a)
  <2>1. Proper(a) /\ Disk = Image(a) /\ transaction = None /\ todo \in Seq(RecordWrite)
    BY <1>3 DEF Steady
  <2>2. Committed = None
    BY <2>1, CommittedToNothing
  <2> QED BY <2>1, <2>2, ReadDone
<1>4. CASE Settled(a)
  <2>1. Proper(a) /\ Disk = Image(a) /\ transaction \in Node
    BY <1>4 DEF Settled
  <2>2. Committed = transaction /\ operation_list \in List
    BY <1>1, <1>2, <2>1 DEF Committed, Typed
  <2>3. \/ operation = "insert" /\ HeadOf(a)[operation_list] = transaction
        \/ operation = "remove" /\ ~ In(a, transaction)
    BY <1>4 DEF Settled
  <2> QED BY <2>1, <2>2, <2>3, ReadDone
<1>5. ASSUME NEW s, NEW t, NEW n, NEW l, NEW op,
             Change(s, t, n, l, op), UnderWay(a, s, t, n, l, op)
      PROVE  Lists = a
  <2>1. /\ Proper(s) /\ Proper(t) /\ n \in Node /\ l \in List /\ op \in {"insert", "remove"}
        /\ op = "insert" => HeadOf(t)[l] = n
        /\ op = "remove" => ~ In(t, n)
    BY <1>5, ChangeFacts
  <2>2. ASSUME op = "insert", Between(Disk, Image(s), Image(t), Key(n, l, op)),
               Committed = n, operation # "remove", operation_list = l
        PROVE  Lists = t
    <3>1. ~ In(s, n) /\ t = Inserted(s, n, l)
      BY <1>5, <2>2 DEF Change
    <3>2. Between(Disk, Image(s), Image(t), <<"heads", l>>)
      BY <2>2 DEF Key
    <3> QED BY <2>1, <2>2, <3>1, <3>2, ReadInserting
  <2>3. ASSUME op = "remove", Between(Disk, Image(s), Image(t), Key(n, l, op)), Record(n, l, op)
        PROVE  Lists = s
    <3>1. PICK i \in 1 .. Len(s[l]) : s[l][i] = n /\ t = Removed(s, l, i)
      BY <1>5, <2>3 DEF Change
    <3>2. Between(Disk, Image(s), Image(t), <<"node", n>>)
      BY <2>3 DEF Key
    <3>3. Committed = n /\ operation = "remove" /\ operation_list = l
      BY <1>2, <2>1, <2>3 DEF Record, Committed
    <3> QED BY <2>1, <3>1, <3>2, <3>3, ReadRemoving
  <2>4. ASSUME Record(n, l, op), Between(Disk, Image(s), Image(t), Key(n, l, op)),
               a = IF op = "insert" THEN t ELSE s
        PROVE  Lists = a
    <3>1. transaction = n /\ operation = op /\ operation_list = l /\ Committed = n
      BY <1>2, <2>1, <2>4 DEF Record, Committed
    <3>2. CASE op = "insert"
      BY <2>2, <2>4, <3>1, <3>2
    <3>3. CASE op = "remove"
      BY <2>3, <2>4, <3>3
    <3> QED BY <2>1, <3>2, <3>3
  <2>5. CASE Starting(a, s, t, n, l, op)
    <3>1. CASE mode = "up"
      <4>1. Disk = Image(s) /\ a = s /\ transaction = None
        BY <2>5, <3>1 DEF Starting
      <4>2. Committed = None
        BY <3>1, <4>1, CommittedToNothing
      <4> QED BY <2>1, <4>1, <4>2, ReadDone
    <3>2. CASE mode = "recovering"
      <4>1. op = "insert" /\ operation_list = l /\ operation # "remove" /\ a = t
        BY <2>5, <3>2 DEF Starting
      <4>2. Between(Disk, Image(s), Image(t), Key(n, l, op))
        BY <2>5 DEF Starting, Plan
      <4>3. Committed = n
        BY <1>1, <1>5, <2>5, <3>2, CommittedAgain
      <4> QED BY <2>2, <4>1, <4>2, <4>3
    <3> QED BY <2>5, <3>1, <3>2 DEF Starting
  <2>6. CASE Working(a, s, t, n, l, op)
    <3>1. Record(n, l, op)
      BY <2>6 DEF Working
    <3>2. PICK w : \/ /\ Plan(Disk, Image(s), Image(t), Key(n, l, op), w)
                      /\ a = IF op = "insert" THEN t ELSE s
                   \/ Disk = Image(t) /\ a = t
      BY <2>6 DEF Working
    <3>3. CASE Plan(Disk, Image(s), Image(t), Key(n, l, op), w) /\ a = IF op = "insert" THEN t ELSE s
      BY <2>4, <3>1, <3>3 DEF Plan
    <3>4. CASE Disk = Image(t) /\ a = t
      <4>1. transaction = n /\ operation = op /\ operation_list = l /\ Committed = n
        BY <1>2, <2>1, <3>1 DEF Record, Committed
      <4> QED BY <2>1, <3>4, <4>1, ReadDone
    <3> QED BY <3>2, <3>3, <3>4
  <2>7. CASE Torn(a, s, t, n, l, op)
    BY <2>4, <2>7 DEF Torn
  <2>8. CASE Undoing(a, s, t, n, l, op)
    BY <2>3, <2>8 DEF Undoing
  <2> QED BY <1>5, <2>5, <2>6, <2>7, <2>8 DEF UnderWay
<1> QED BY <1>3, <1>4, <1>5 DEF LruInv

\* A change of the lists is a step of the abstract specification.
LEMMA MovesAreSteps ==
  ASSUME NEW a, NEW b, Moves(a, b), Lists = a, Lists' = b
  PROVE  [Lru!Next]_Lists
<1>1. CASE a = b
  BY <1>1
<1>2. CASE a # b
  <2>1. PICK n, l, op : Change(a, b, n, l, op)
    BY <1>2 DEF Moves
  <2>2. n \in Node /\ l \in List
    BY <2>1 DEF Change
  <2>3. CASE op = "insert" /\ ~ In(a, n) /\ b = Inserted(a, n, l)
    <3>1. \A x \in List : n \notin Lru!Elements(a[x])
      BY <2>3 DEF In, Elements, Lru!Elements
    <3>2. Lru!Insert(n, l)
      BY <2>3, <3>1 DEF Lru!Insert, Inserted
    <3> QED BY <2>2, <3>2 DEF Lru!Next
  <2>4. CASE op = "remove" /\ \E i \in 1 .. Len(a[l]) : a[l][i] = n /\ b = Removed(a, l, i)
    <3>1. PICK i \in 1 .. Len(a[l]) : a[l][i] = n /\ b = Removed(a, l, i)
      BY <2>4
    <3>2. i \in DOMAIN a[l]
      BY <2>1, <2>2 DEF Change, Proper
    <3>3. Lru!Remove(n, l)
      BY <3>1, <3>2 DEF Lru!Remove, Removed
    <3> QED BY <2>2, <3>3 DEF Lru!Next
  <2> QED BY <2>1, <2>3, <2>4 DEF Change
<1> QED BY <1>1, <1>2

\* Rankings implements LruLists: seen through the record of the transaction, every
\* Insert and every Remove happens at once or not at all, crashes and recoveries
\* included.
THEOREM AtomicOperations ==
  ASSUME ~ CrashInRecovery
  PROVE  Spec => OperationsAreAtomic
<1>1. Init => Lru!Init
  BY InitIsSteady, ListsAreThose DEF Lru!Init
<1>2. (\A a : LruInv(a) => Lists = a)'
  BY ListsAreThose, PTL
<1>3. LruInvariant /\ [Next]_vars => [Lru!Next]_Lists
  <2> SUFFICES ASSUME LruInvariant, [Next]_vars PROVE [Lru!Next]_Lists
    OBVIOUS
  <2>1. PICK a : LruInv(a)
    BY DEF LruInvariant
  <2>2. PICK b : LruInv(b)' /\ Moves(a, b)
    BY <2>1, NextKeeps
  <2>3. Lists = a /\ Lists' = b
    BY <1>2, <2>1, <2>2, ListsAreThose
  <2> QED BY <2>2, <2>3, MovesAreSteps
<1> QED BY <1>1, <1>3, LruListsInvariant, PTL DEF Spec, OperationsAreAtomic, Lru!Spec
=============================================================================
