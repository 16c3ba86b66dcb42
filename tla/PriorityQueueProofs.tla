------------------------- MODULE PriorityQueueProofs -------------------------
(***************************************************************************)
(* What the operations of PriorityQueue do, for any set P of priorities    *)
(* and any set V of values: the lemmas the proofs about its clients use.   *)
(***************************************************************************)
EXTENDS PriorityQueue, SequenceTheorems, WellFoundedInduction, TLAPS

\* Every nonempty set of naturals has a least element: the induction that the
\* proofs about loops and scans use.
LEMMA LeastNat ==
  ASSUME NEW T, T \subseteq Nat, T # {}
  PROVE  \E x \in T : \A y \in T : x <= y
<1> DEFINE R == OpToRel(<, Nat)
<1>1. IsWellFoundedOn(R, Nat)
  BY NatLessThanWellFounded, Zenon
<1>2. \A x, y \in Nat : x < y => <<x, y>> \in R
  BY DEF OpToRel
<1>h. HIDE DEF R
<1>3. PICK x \in T : \A y \in T : ~ (<<y, x>> \in R)
  BY <1>1, WFMin, Zenon
<1>4. \A y \in T : ~ (y < x)
  BY <1>2, <1>3
<1> QED
  BY <1>4

\* A nonempty set of naturals below a bound has a greatest element.
LEMMA GreatestNat ==
  ASSUME NEW n \in Nat, NEW T, T \subseteq 0 .. n, T # {}
  PROVE  \E x \in T : \A y \in T : x >= y
<1> DEFINE U == {n - x : x \in T}
<1>1. U \subseteq Nat /\ U # {}
  <2>1. \A x \in T : n - x \in Nat
    OBVIOUS
  <2> QED BY <2>1
<1>2. PICK u \in U : \A w \in U : u <= w
  <2> HIDE DEF U
  <2> QED BY <1>1, LeastNat
<1>3. PICK x \in T : u = n - x
  OBVIOUS
<1>4. \A y \in T : n - x <= n - y
  BY <1>2, <1>3
<1> QED
  BY <1>4

\* The value v is somewhere in one of the lists of q.
Occurs(q, v) == \E p \in DOMAIN q : \E i \in 1 .. Len(q[p]) : q[p][i] = v

\* The values of a queue are the ones that occur in it.
LEMMA InQueue ==
  ASSUME NEW P, NEW V, NEW q \in [P -> Seq(V)]
  PROVE  \A v : v \in Values(q) <=> Occurs(q, v)
<1> TAKE v
<1>1. \A p \in P : DOMAIN q[p] = 1 .. Len(q[p])
  BY LenProperties
<1>2. DOMAIN q = P
  OBVIOUS
<1>3. \A p \in P : v \in ToSet(q[p]) <=> \E i \in 1 .. Len(q[p]) : q[p][i] = v
  BY <1>1, Zenon DEF ToSet
<1>4. v \in Values(q) <=> \E p \in P : v \in ToSet(q[p])
  BY <1>2, Zenon DEF Values
<1> QED
  BY <1>2, <1>3, <1>4, Zenon DEF Occurs

\* NoDuplicates in terms of places.
LEMMA NoDuplicatesPlaces ==
  ASSUME NEW P, NEW V, NEW q \in [P -> Seq(V)]
  PROVE  NoDuplicates(q) <=>
           \A p, r \in P : \A i \in 1 .. Len(q[p]), j \in 1 .. Len(q[r]) :
             q[p][i] = q[r][j] => p = r /\ i = j
<1>1. \A p \in P : DOMAIN q[p] = 1 .. Len(q[p])
  BY LenProperties
<1>2. DOMAIN q = P
  OBVIOUS
<1>3. \A p, r \in P :
        ToSet(q[p]) \intersect ToSet(q[r]) = {} <=>
          \A i \in 1 .. Len(q[p]), j \in 1 .. Len(q[r]) : q[p][i] # q[r][j]
  BY <1>1, Zenon DEF ToSet
<1>4. NoDuplicates(q) <=>
        /\ \A p \in P : \A i, j \in 1 .. Len(q[p]) :
              q[p][i] = q[p][j] => i = j
        /\ \A p, r \in P : p # r =>
              \A i \in 1 .. Len(q[p]), j \in 1 .. Len(q[r]) : q[p][i] # q[r][j]
  BY <1>2, <1>3 DEF NoDuplicates
<1> QED
  BY <1>4

\* n is the queue q with the value v added to the list of p, at the place k.
AddedAt(q, n, v, p, k) ==
  /\ \A r \in DOMAIN q : r # p => n[r] = q[r]
  /\ Len(n[p]) = Len(q[p]) + 1
  /\ k \in 1 .. Len(n[p])
  /\ n[p][k] = v
  /\ \A i \in 1 .. Len(q[p]) :
       IF i < k THEN n[p][i] = q[p][i] ELSE n[p][i + 1] = q[p][i]

\* Adding a value at any place adds it to the values, and duplicates nothing
\* exactly if nothing was duplicated and the value is new.
LEMMA AddedAtProperties ==
  ASSUME NEW P, NEW V, NEW q \in [P -> Seq(V)], NEW n \in [P -> Seq(V)],
         NEW v, NEW p \in P, NEW k, AddedAt(q, n, v, p, k)
  PROVE  /\ Values(n) = Values(q) \union {v}
         /\ NoDuplicates(n) <=> NoDuplicates(q) /\ v \notin Values(q)
<1> DEFINE In(i) == IF i < k THEN i ELSE i + 1
<1>1. /\ Len(q[p]) \in Nat
      /\ k \in 1 .. Len(q[p]) + 1
      /\ Len(n[p]) = Len(q[p]) + 1
      /\ n[p][k] = v
  BY LenProperties DEF AddedAt
<1>2. \A r \in P : r # p => n[r] = q[r]
  BY DEF AddedAt
<1>3. \A i \in 1 .. Len(q[p]) :
        In(i) \in 1 .. Len(n[p]) /\ In(i) # k /\ n[p][In(i)] = q[p][i]
  BY <1>1 DEF AddedAt
<1>4. \A j \in 1 .. Len(n[p]) :
        j = k \/ \E i \in 1 .. Len(q[p]) : j = In(i)
  <2> SUFFICES ASSUME NEW j \in 1 .. Len(n[p]), j # k
               PROVE  \E i \in 1 .. Len(q[p]) : j = In(i)
    OBVIOUS
  <2>1. CASE j < k
    <3>1. j \in 1 .. Len(q[p]) /\ j = In(j)
      BY <1>1, <2>1
    <3> QED BY <3>1
  <2>2. CASE j > k
    <3>1. j - 1 \in 1 .. Len(q[p]) /\ j = In(j - 1)
      BY <1>1, <2>2
    <3> QED BY <3>1
  <2> QED BY <1>1, <2>1, <2>2
<1>5. \A i, j \in 1 .. Len(q[p]) : In(i) = In(j) => i = j
  BY <1>1
<1>h. HIDE DEF In
<1>6. /\ \A w : w \in Values(q) <=>
                  \E r \in P : \E i \in 1 .. Len(q[r]) : q[r][i] = w
      /\ \A w : w \in Values(n) <=>
                  \E r \in P : \E i \in 1 .. Len(n[r]) : n[r][i] = w
  <2>1. \A w : w \in Values(q) <=> Occurs(q, w)
    BY InQueue, Zenon
  <2>2. \A w : w \in Values(n) <=> Occurs(n, w)
    BY InQueue, Zenon
  <2>3. DOMAIN q = P /\ DOMAIN n = P
    OBVIOUS
  <2> QED BY <2>1, <2>2, <2>3, Zenon DEF Occurs
<1>7. Values(n) = Values(q) \union {v}
  <2>1. ASSUME NEW w, w \in Values(n) PROVE w \in Values(q) \union {v}
    <3>1. PICK r \in P : \E i \in 1 .. Len(n[r]) : n[r][i] = w
      BY <1>6, <2>1
    <3>2. PICK j \in 1 .. Len(n[r]) : n[r][j] = w
      BY <3>1
    <3>3. CASE r # p
      BY <3>2, <3>3, <1>2, <1>6
    <3>4. CASE r = p /\ j = k
      BY <3>2, <3>4, <1>1
    <3>5. CASE r = p /\ j # k
      <4>1. PICK i \in 1 .. Len(q[p]) : j = In(i)
        BY <1>4, <3>5
      <4>2. q[p][i] = w
        BY <1>3, <3>2, <3>5, <4>1
      <4> QED BY <4>2, <1>6
    <3> QED BY <3>3, <3>4, <3>5
  <2>2. ASSUME NEW w, w \in Values(q) PROVE w \in Values(n)
    <3>1. PICK r \in P : \E i \in 1 .. Len(q[r]) : q[r][i] = w
      BY <1>6, <2>2
    <3>2. PICK i \in 1 .. Len(q[r]) : q[r][i] = w
      BY <3>1
    <3>3. CASE r # p
      BY <3>2, <3>3, <1>2, <1>6
    <3>4. CASE r = p
      <4>1. In(i) \in 1 .. Len(n[p]) /\ n[p][In(i)] = w
        BY <1>3, <3>2, <3>4
      <4> QED BY <4>1, <1>6
    <3> QED BY <3>3, <3>4
  <2>3. v \in Values(n)
    BY <1>1, <1>6
  <2> QED BY <2>1, <2>2, <2>3
<1>8. NoDuplicates(n) <=>
        \A r, s \in P : \A i \in 1 .. Len(n[r]), j \in 1 .. Len(n[s]) :
          n[r][i] = n[s][j] => r = s /\ i = j
  BY NoDuplicatesPlaces
<1>9. NoDuplicates(q) <=>
        \A r, s \in P : \A i \in 1 .. Len(q[r]), j \in 1 .. Len(q[s]) :
          q[r][i] = q[s][j] => r = s /\ i = j
  BY NoDuplicatesPlaces
<1> DEFINE Move(r, i) == IF r = p THEN In(i) ELSE i
<1>10. \A r \in P : \A i \in 1 .. Len(q[r]) :
         /\ Move(r, i) \in 1 .. Len(n[r])
         /\ n[r][Move(r, i)] = q[r][i]
         /\ r = p => Move(r, i) # k
         /\ \A j \in 1 .. Len(q[r]) : Move(r, i) = Move(r, j) => i = j
  BY <1>2, <1>3, <1>5
<1>11. \A r \in P : \A j \in 1 .. Len(n[r]) :
         \/ r = p /\ j = k
         \/ \E i \in 1 .. Len(q[r]) : j = Move(r, i)
  BY <1>2, <1>4
<1>i. HIDE DEF Move
<1>12. ASSUME NoDuplicates(n) PROVE NoDuplicates(q) /\ v \notin Values(q)
  <2>1. ASSUME NEW r \in P, NEW s \in P,
               NEW i \in 1 .. Len(q[r]), NEW j \in 1 .. Len(q[s]),
               q[r][i] = q[s][j]
        PROVE  r = s /\ i = j
    <3>1. n[r][Move(r, i)] = n[s][Move(s, j)]
      BY <1>10, <2>1
    <3>2. r = s /\ Move(r, i) = Move(s, j)
      BY <1>8, <1>10, <1>12, <3>1
    <3> QED BY <1>10, <3>2
  <2>2. ASSUME v \in Values(q) PROVE FALSE
    <3>1. PICK r \in P : \E i \in 1 .. Len(q[r]) : q[r][i] = v
      BY <1>6, <2>2
    <3>2. PICK i \in 1 .. Len(q[r]) : q[r][i] = v
      BY <3>1
    <3>3. /\ Move(r, i) \in 1 .. Len(n[r])
          /\ n[r][Move(r, i)] = n[p][k]
          /\ r = p => Move(r, i) # k
          /\ k \in 1 .. Len(n[p])
      BY <1>1, <1>10, <3>2
    <3> QED BY <1>8, <1>12, <3>3
  <2> QED BY <1>9, <2>1, <2>2
<1>13. ASSUME NoDuplicates(q), v \notin Values(q) PROVE NoDuplicates(n)
  <2> SUFFICES ASSUME NEW r \in P, NEW s \in P,
                      NEW i \in 1 .. Len(n[r]), NEW j \in 1 .. Len(n[s]),
                      n[r][i] = n[s][j]
               PROVE  r = s /\ i = j
    BY <1>8
  <2>1. \A t \in P : \A l \in 1 .. Len(q[t]) : q[t][l] # v
    BY <1>6, <1>13
  <2>2. CASE (r = p /\ i = k) /\ (s = p /\ j = k)
    BY <2>2
  <2>3. ASSUME NEW a \in 1 .. Len(q[r]), i = Move(r, a), s = p, j = k
        PROVE FALSE
    BY <2>1, <2>3, <1>1, <1>10
  <2>4. ASSUME NEW b \in 1 .. Len(q[s]), j = Move(s, b), r = p, i = k
        PROVE FALSE
    <3>1. n[s][j] = q[s][b] /\ n[r][i] = v
      BY <2>4, <1>1, <1>10
    <3> QED BY <2>1, <3>1
  <2>5. ASSUME NEW a \in 1 .. Len(q[r]), i = Move(r, a),
               NEW b \in 1 .. Len(q[s]), j = Move(s, b)
        PROVE  r = s /\ i = j
    <3>1. q[r][a] = q[s][b]
      BY <1>10, <2>5
    <3>2. r = s /\ a = b
      BY <1>9, <1>13, <3>1
    <3> QED BY <2>5, <3>2
  <2> QED BY <1>11, <2>2, <2>3, <2>4, <2>5
<1> QED
  BY <1>7, <1>12, <1>13

\* Insert adds the value, and only it.
LEMMA InsertProperties ==
  ASSUME NEW P, NEW V, NEW q \in [P -> Seq(V)], NEW v \in V, NEW p \in P
  PROVE  /\ Insert(q, v, p) \in [P -> Seq(V)]
         /\ Values(Insert(q, v, p)) = Values(q) \union {v}
         /\ NoDuplicates(q) /\ v \notin Values(q) =>
              NoDuplicates(Insert(q, v, p))
<1>1. PICK n : n = Insert(q, v, p)
  OBVIOUS
<1>2. n = [q EXCEPT ![p] = Append(q[p], v)]
  BY <1>1 DEF Insert
<1>3. n \in [P -> Seq(V)] /\ n[p] = Append(q[p], v)
  BY <1>2, AppendProperties
<1>k. PICK k : k = Len(q[p]) + 1
  OBVIOUS
<1>4. AddedAt(q, n, v, p, k)
  <2>1. q[p] \in Seq(V) /\ Len(q[p]) \in Nat
    BY LenProperties
  <2>2. /\ Len(n[p]) = Len(q[p]) + 1
        /\ \A i \in 1 .. Len(q[p]) : n[p][i] = q[p][i]
        /\ n[p][Len(q[p]) + 1] = v
    BY <1>3, <2>1, AppendProperties
  <2>3. \A r \in DOMAIN q : r # p => n[r] = q[r]
    BY <1>2
  <2> QED BY <1>k, <2>1, <2>2, <2>3 DEF AddedAt
<1>5. /\ Values(n) = Values(q) \union {v}
      /\ NoDuplicates(n) <=> NoDuplicates(q) /\ v \notin Values(q)
  BY <1>3, <1>4, AddedAtProperties, Zenon
<1> QED
  BY <1>1, <1>3, <1>5

\* So does InsertAtFront.
LEMMA InsertAtFrontProperties ==
  ASSUME NEW P, NEW V, NEW q \in [P -> Seq(V)], NEW v \in V, NEW p \in P
  PROVE  /\ InsertAtFront(q, v, p) \in [P -> Seq(V)]
         /\ Values(InsertAtFront(q, v, p)) = Values(q) \union {v}
         /\ NoDuplicates(q) /\ v \notin Values(q) =>
              NoDuplicates(InsertAtFront(q, v, p))
<1>1. PICK n : n = InsertAtFront(q, v, p)
  OBVIOUS
<1>2. n = [q EXCEPT ![p] = <<v>> \o q[p]]
  BY <1>1 DEF InsertAtFront
<1>3. <<v>> \in Seq(V) /\ Len(<<v>>) = 1 /\ <<v>>[1] = v
  OBVIOUS
<1>4. /\ <<v>> \o q[p] \in Seq(V)
      /\ Len(<<v>> \o q[p]) = 1 + Len(q[p])
      /\ \A i \in 1 .. 1 + Len(q[p]) :
           (<<v>> \o q[p])[i] = IF i <= 1 THEN <<v>>[i] ELSE q[p][i - 1]
  BY <1>3, ConcatProperties
<1>5. n \in [P -> Seq(V)] /\ n[p] = <<v>> \o q[p]
  BY <1>2, <1>4
<1>6. AddedAt(q, n, v, p, 1)
  <2>1. q[p] \in Seq(V) /\ Len(q[p]) \in Nat
    BY LenProperties
  <2>2. \A r \in DOMAIN q : r # p => n[r] = q[r]
    BY <1>2
  <2>3. /\ Len(n[p]) = Len(q[p]) + 1
        /\ n[p][1] = v
    BY <1>3, <1>4, <1>5, <2>1
  <2>4. \A i \in 1 .. Len(q[p]) : n[p][i + 1] = q[p][i]
    <3> SUFFICES ASSUME NEW i \in 1 .. Len(q[p])
                 PROVE  n[p][i + 1] = q[p][i]
      OBVIOUS
    <3>1. i + 1 \in 1 .. 1 + Len(q[p]) /\ ~ (i + 1 <= 1) /\ (i + 1) - 1 = i
      BY <2>1
    <3> QED BY <1>4, <1>5, <3>1
  <2> QED BY <2>1, <2>2, <2>3, <2>4 DEF AddedAt
<1>7. /\ Values(n) = Values(q) \union {v}
      /\ NoDuplicates(n) <=> NoDuplicates(q) /\ v \notin Values(q)
  BY <1>5, <1>6, AddedAtProperties, Zenon
<1> QED
  BY <1>1, <1>5, <1>7

\* Erase takes a value that is in the queue out of its list; the other lists
\* stay, and no list becomes nonempty.
LEMMA EraseProperties ==
  ASSUME NEW P, NEW V, NEW q \in [P -> Seq(V)], NEW v \in Values(q)
  PROVE  /\ Erase(q, v) \in [P -> Seq(V)]
         /\ Values(q) = Values(Erase(q, v)) \union {v}
         /\ NoDuplicates(q) =>
              NoDuplicates(Erase(q, v)) /\ v \notin Values(Erase(q, v))
         /\ \A r \in P : q[r] = << >> => Erase(q, v)[r] = << >>
<1>1. PICK n : n = Erase(q, v)
  OBVIOUS
<1>2. PICK p : p = PriorityOf(q, v)
  OBVIOUS
<1>3. \A r \in P : DOMAIN q[r] = 1 .. Len(q[r]) /\ Len(q[r]) \in Nat
  BY LenProperties
<1>4. \E r \in P : \E i \in 1 .. Len(q[r]) : q[r][i] = v
  BY InQueue DEF Occurs
<1>5. \E r \in DOMAIN q : v \in ToSet(q[r])
  BY <1>3, <1>4 DEF ToSet
<1>6. p \in P /\ v \in ToSet(q[p])
  BY <1>2, <1>5 DEF PriorityOf
<1>7. PICK k : k = IndexOf(q[p], v)
  OBVIOUS
<1>8. k \in 1 .. Len(q[p]) /\ q[p][k] = v
  <2>1. \E i \in DOMAIN q[p] : q[p][i] = v
    BY <1>6 DEF ToSet
  <2> QED BY <1>3, <1>6, <1>7, <2>1 DEF IndexOf
<1>9. n = [q EXCEPT ![p] = RemoveAt(q[p], k)]
  BY <1>1, <1>2, <1>7, Zenon DEF Erase
<1> DEFINE before == SubSeq(q[p], 1, k - 1)
           after == SubSeq(q[p], k + 1, Len(q[p]))
<1>10. \A i \in 1 .. Len(q[p]) : q[p][i] \in V
  BY <1>6, ElementOfSeq
<1>11. /\ before \in Seq(V)
       /\ Len(before) = k - 1
       /\ \A i \in 1 .. k - 1 : before[i] = q[p][i]
  <2>1. \A i \in 1 .. k - 1 : q[p][i] \in V
    BY <1>3, <1>6, <1>8, <1>10
  <2>2. /\ before \in Seq(V)
        /\ Len(before) = IF 1 <= k - 1 THEN (k - 1) - 1 + 1 ELSE 0
        /\ \A i \in 1 .. (k - 1) - 1 + 1 : before[i] = q[p][1 + i - 1]
    BY <1>3, <1>6, <1>8, <2>1, SubSeqProperties
  <2> QED BY <1>3, <1>6, <1>8, <2>2
<1>12. /\ after \in Seq(V)
       /\ Len(after) = Len(q[p]) - k
       /\ \A i \in 1 .. Len(q[p]) - k : after[i] = q[p][k + i]
  <2>1. \A i \in k + 1 .. Len(q[p]) : q[p][i] \in V
    BY <1>3, <1>6, <1>8, <1>10
  <2>2. /\ after \in Seq(V)
        /\ Len(after) = IF k + 1 <= Len(q[p]) THEN Len(q[p]) - (k + 1) + 1
                                             ELSE 0
        /\ \A i \in 1 .. Len(q[p]) - (k + 1) + 1 :
             after[i] = q[p][(k + 1) + i - 1]
    BY <1>3, <1>6, <1>8, <2>1, SubSeqProperties
  <2> QED BY <1>3, <1>6, <1>8, <2>2
<1>13. RemoveAt(q[p], k) = before \o after
  BY DEF RemoveAt
<1>h. HIDE DEF before, after
<1>14. /\ before \o after \in Seq(V)
       /\ Len(before \o after) = Len(before) + Len(after)
       /\ \A i \in 1 .. Len(before) + Len(after) :
            (before \o after)[i] =
              IF i <= Len(before) THEN before[i] ELSE after[i - Len(before)]
  BY <1>11, <1>12, ConcatProperties
<1>15. n \in [P -> Seq(V)] /\ n[p] = before \o after
  BY <1>6, <1>9, <1>13, <1>14
<1>16. AddedAt(n, q, v, p, k)
  <2>1. \A r \in DOMAIN n : r # p => q[r] = n[r]
    BY <1>9, <1>15
  <2>0. Len(q[p]) \in Nat
    BY <1>3, <1>6
  <2>2. Len(n[p]) = Len(q[p]) - 1 /\ Len(q[p]) \in Nat
    <3>1. Len(n[p]) = (k - 1) + (Len(q[p]) - k)
      BY <1>11, <1>12, <1>14, <1>15
    <3> QED BY <1>8, <2>0, <3>1
  <2>3. \A i \in 1 .. Len(n[p]) :
          IF i < k THEN q[p][i] = n[p][i] ELSE q[p][i + 1] = n[p][i]
    <3> SUFFICES ASSUME NEW i \in 1 .. Len(n[p])
                 PROVE  IF i < k THEN q[p][i] = n[p][i]
                                 ELSE q[p][i + 1] = n[p][i]
      OBVIOUS
    <3>1. n[p][i] = IF i <= k - 1 THEN before[i] ELSE after[i - (k - 1)]
      BY <1>8, <1>11, <1>12, <1>14, <1>15, <2>2
    <3>2. CASE i < k
      BY <1>8, <1>11, <2>2, <3>1, <3>2
    <3>3. CASE ~ (i < k)
      <4>1. i - (k - 1) \in 1 .. Len(q[p]) - k /\ k + (i - (k - 1)) = i + 1
        BY <1>8, <2>2, <3>3
      <4> QED BY <1>8, <1>12, <2>2, <3>1, <3>3, <4>1
    <3> QED BY <3>2, <3>3
  <2> QED BY <1>8, <2>1, <2>2, <2>3 DEF AddedAt
<1>17. /\ Values(q) = Values(n) \union {v}
       /\ NoDuplicates(q) <=> NoDuplicates(n) /\ v \notin Values(n)
  BY <1>6, <1>15, <1>16, AddedAtProperties, Zenon
<1>18. \A r \in P : q[r] = << >> => n[r] = << >>
  <2>1. q[p] # << >>
    BY <1>8
  <2> QED BY <1>9, <2>1
<1> QED
  BY <1>1, <1>15, <1>17, <1>18

\* The constructor's queue holds nothing.
LEMMA EmptyQueueProperties ==
  ASSUME NEW P, NEW V
  PROVE  /\ EmptyQueue(P) \in [P -> Seq(V)]
         /\ Values(EmptyQueue(P)) = {}
         /\ NoDuplicates(EmptyQueue(P))
         /\ \A r \in P : EmptyQueue(P)[r] = << >>
<1>1. PICK q : q = EmptyQueue(P)
  OBVIOUS
<1>2. q = [r \in P |-> << >>]
  BY <1>1 DEF EmptyQueue
<1>3. q \in [P -> Seq(V)] /\ \A r \in P : q[r] = << >>
  BY <1>2
<1>4. \A r \in P : Len(q[r]) = 0
  BY <1>3
<1>5. Values(q) = {}
  <2>1. \A w : w \in Values(q) <=> Occurs(q, w)
    BY <1>3, InQueue, Zenon
  <2>2. \A w : ~ Occurs(q, w)
    BY <1>2, <1>4 DEF Occurs
  <2> QED BY <2>1, <2>2
<1>6. NoDuplicates(q)
  <2>1. \A r, s \in P : \A i \in 1 .. Len(q[r]), j \in 1 .. Len(q[s]) :
          q[r][i] = q[s][j] => r = s /\ i = j
    BY <1>4
  <2> QED BY <1>3, <2>1, NoDuplicatesPlaces
<1> QED
  BY <1>1, <1>3, <1>5, <1>6

\* The head of a list is one of its values.
LEMMA HeadInQueue ==
  ASSUME NEW P, NEW V, NEW q \in [P -> Seq(V)], NEW p \in P, q[p] # << >>
  PROVE  Head(q[p]) \in Values(q)
<1>1. 1 \in 1 .. Len(q[p]) /\ q[p][1] = Head(q[p])
  <2>1. q[p] \in Seq(V)
    OBVIOUS
  <2> QED BY <2>1, EmptySeq, LenProperties
<1>2. Occurs(q, Head(q[p]))
  BY <1>1 DEF Occurs
<1> QED
  BY <1>2, InQueue

\* FirstMax finds a value of the highest priority that has one.
LEMMA FirstMaxProperties ==
  ASSUME NEW n \in Nat, NEW V, NEW q \in [0 .. n -> Seq(V)], ~ empty(q)
  PROVE  /\ Max(NonEmpty(q)) \in 0 .. n
         /\ q[Max(NonEmpty(q))] # << >>
         /\ \A r \in 0 .. n : q[r] # << >> => r <= Max(NonEmpty(q))
         /\ FirstMax(q) \in Values(q)
<1>1. NonEmpty(q) \subseteq 0 .. n /\ NonEmpty(q) # {}
  BY DEF NonEmpty, empty
<1>2. \E x \in NonEmpty(q) : \A y \in NonEmpty(q) : x >= y
  BY <1>1, GreatestNat
<1>3. PICK m : m = Max(NonEmpty(q))
  OBVIOUS
<1>4. m \in NonEmpty(q) /\ \A y \in NonEmpty(q) : m >= y
  BY <1>2, <1>3 DEF Max
<1>5. /\ m \in 0 .. n
      /\ q[m] # << >>
      /\ \A r \in 0 .. n : q[r] # << >> => r <= m
  BY <1>1, <1>4 DEF NonEmpty
<1>6. FirstMax(q) \in Values(q)
  BY <1>3, <1>5, HeadInQueue DEF FirstMax
<1> QED
  BY <1>3, <1>5, <1>6

\* FirstMin finds a value of the lowest priority that has one.
LEMMA FirstMinProperties ==
  ASSUME NEW n \in Nat, NEW V, NEW q \in [0 .. n -> Seq(V)], ~ empty(q)
  PROVE  FirstMin(q) \in Values(q)
<1>0. NonEmpty(q) \subseteq 0 .. n /\ NonEmpty(q) # {}
  BY DEF NonEmpty, empty
<1>1. NonEmpty(q) \subseteq Nat /\ NonEmpty(q) # {}
  BY <1>0
<1>2. \E x \in NonEmpty(q) : \A y \in NonEmpty(q) : x <= y
  BY <1>1, LeastNat
<1>3. PICK m : m = Min(NonEmpty(q))
  OBVIOUS
<1>4. m \in NonEmpty(q)
  BY <1>2, <1>3 DEF Min
<1>5. m \in 0 .. n /\ q[m] # << >>
  BY <1>4 DEF NonEmpty
<1> QED
  BY <1>3, <1>5, HeadInQueue DEF FirstMin

\* A queue of members of V has only members of V as values.
LEMMA ValuesType ==
  ASSUME NEW P, NEW V, NEW q \in [P -> Seq(V)]
  PROVE  Values(q) \subseteq V
<1>1. \A w : w \in Values(q) <=> Occurs(q, w)
  BY InQueue, Zenon
<1>2. ASSUME NEW w, Occurs(q, w) PROVE w \in V
  <2>1. PICK p \in P : \E i \in 1 .. Len(q[p]) : q[p][i] = w
    BY <1>2 DEF Occurs
  <2>2. PICK i \in 1 .. Len(q[p]) : q[p][i] = w
    BY <2>1
  <2> QED BY <2>2, ElementOfSeq
<1> QED
  BY <1>1, <1>2

\* The value v is in the list of p, at the place i.
IsAt(q, v, p, i) == p \in DOMAIN q /\ i \in 1 .. Len(q[p]) /\ q[p][i] = v

\* Every value is at one place only.
DistinctPlaces(q) ==
  \A v, p, i, r, j : IsAt(q, v, p, i) /\ IsAt(q, v, r, j) => p = r /\ i = j

\* In a queue without duplicates a value has one place.
LEMMA PlacesAreDistinct ==
  ASSUME NEW P, NEW V, NEW q \in [P -> Seq(V)], NoDuplicates(q)
  PROVE  DistinctPlaces(q)
<1>1. \A s, t \in P : \A a \in 1 .. Len(q[s]), b \in 1 .. Len(q[t]) :
        q[s][a] = q[t][b] => s = t /\ a = b
  BY NoDuplicatesPlaces
<1>2. DOMAIN q = P
  OBVIOUS
<1> QED
  BY <1>1, <1>2 DEF DistinctPlaces, IsAt

\* PriorityOf and IndexOf say where a value is.
LEMMA PlaceProperties ==
  ASSUME NEW P, NEW V, NEW q \in [P -> Seq(V)], NEW v, v \in Values(q)
  PROVE  IsAt(q, v, PriorityOf(q, v), IndexOf(q[PriorityOf(q, v)], v))
<1>1. PICK p : p = PriorityOf(q, v)
  OBVIOUS
<1>2. PICK i : i = IndexOf(q[p], v)
  OBVIOUS
<1>3. \A r \in P : DOMAIN q[r] = 1 .. Len(q[r])
  BY LenProperties
<1>4. \E r \in P : \E k \in 1 .. Len(q[r]) : q[r][k] = v
  BY InQueue DEF Occurs
<1>5. \E r \in DOMAIN q : v \in ToSet(q[r])
  BY <1>3, <1>4 DEF ToSet
<1>6. p \in P /\ v \in ToSet(q[p])
  BY <1>1, <1>5 DEF PriorityOf
<1>7. \E k \in DOMAIN q[p] : q[p][k] = v
  BY <1>6 DEF ToSet
<1>8. i \in 1 .. Len(q[p]) /\ q[p][i] = v
  BY <1>2, <1>3, <1>6, <1>7 DEF IndexOf
<1>9. IsAt(q, v, p, i)
  BY <1>6, <1>8 DEF IsAt
<1> QED
  BY <1>1, <1>2, <1>9

\* v comes before w: it has a higher priority, or is earlier in the same list.
IsAhead(q, v, w) ==
  \/ PriorityOf(q, w) < PriorityOf(q, v)
  \/ /\ PriorityOf(q, w) = PriorityOf(q, v)
     /\ IndexOf(q[PriorityOf(q, v)], v) < IndexOf(q[PriorityOf(q, v)], w)

\* The head of the highest nonempty list is ahead of every other value.
LEMMA HighestHeadIsAhead ==
  ASSUME NEW P, P \subseteq Int, NEW V, NEW q \in [P -> Seq(V)],
         NoDuplicates(q),
         NEW m \in P, q[m] # << >>, \A r \in P : q[r] # << >> => r <= m,
         NEW v, v = Head(q[m]), NEW w, w \in Values(q), w # v
  PROVE  IsAhead(q, v, w)
<1>1. DistinctPlaces(q)
  BY PlacesAreDistinct, Zenon
<1>2. Len(q[m]) \in Nat /\ 1 \in 1 .. Len(q[m]) /\ q[m][1] = v
  BY EmptySeq, LenProperties
<1>3. IsAt(q, v, m, 1)
  BY <1>2 DEF IsAt
<1>4. v \in Values(q)
  BY HeadInQueue
<1>5. PICK p : p = PriorityOf(q, v)
  OBVIOUS
<1>6. PICK i : i = IndexOf(q[p], v)
  OBVIOUS
<1>7. PICK r : r = PriorityOf(q, w)
  OBVIOUS
<1>8. PICK j : j = IndexOf(q[r], w)
  OBVIOUS
<1>9. IsAt(q, v, p, i)
  BY <1>4, <1>5, <1>6, PlaceProperties, Zenon
<1>10. IsAt(q, w, r, j)
  BY <1>7, <1>8, PlaceProperties, Zenon
<1>11. p = m /\ i = 1
  BY <1>1, <1>3, <1>9, Zenon DEF DistinctPlaces
<1>12. r \in P /\ j \in 1 .. Len(q[r]) /\ q[r][j] = w
  BY <1>10 DEF IsAt
<1>13. r <= m
  <2>1. q[r] # << >>
    BY <1>12
  <2> QED BY <1>12, <2>1
<1>14. r = m => j > 1
  BY <1>2, <1>12
<1>15. r < p \/ (r = p /\ i < IndexOf(q[p], w))
  BY <1>8, <1>11, <1>12, <1>13, <1>14
<1> QED
  BY <1>5, <1>6, <1>7, <1>15 DEF IsAhead
=============================================================================
