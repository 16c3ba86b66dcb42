---------------------------- MODULE PriorityQueue ----------------------------
(***************************************************************************)
(* The container of base/priority_queue.h, as operators.                   *)
(*                                                                         *)
(* A queue is a function from priorities (0 is the lowest) to one FIFO     *)
(* list each, like lists_ in the code.  Both clients of this module keep a *)
(* value in the queue at most once, so a value stands for the Pointer      *)
(* (priority and list iterator) that the code hands out for it, and a null *)
(* Pointer is returned exactly when the queue is empty.                    *)
(***************************************************************************)
EXTENDS Integers, Sequences, FiniteSets, FiniteSetsExt, SequencesExt

\* The constructor: one empty list per priority.
EmptyQueue(Priority) == [p \in Priority |-> << >>]

\* The values that are in the queue: the ones a valid Pointer refers to.
Values(q) == UNION {ToSet(q[p]) : p \in DOMAIN q}

empty(q) == \A p \in DOMAIN q : q[p] = << >>

\* size_ counts insertions minus erasures.
size(q) == Cardinality(Values(q))

\* Pointer::priority().
PriorityOf(q, v) == CHOOSE p \in DOMAIN q : v \in ToSet(q[p])

\* Where the Pointer's iterator stands in its list.
IndexOf(s, v) == CHOOSE i \in DOMAIN s : s[i] = v

Insert(q, v, p) == [q EXCEPT ![p] = Append(@, v)]

InsertAtFront(q, v, p) == [q EXCEPT ![p] = << v >> \o @]

Erase(q, v) ==
  LET p == PriorityOf(q, v)
  IN  [q EXCEPT ![p] = RemoveAt(@, IndexOf(@, v))]

\* The lists the scans of FirstMin, FirstMax and their kin stop at.
NonEmpty(q) == {p \in DOMAIN q : q[p] # << >>}

FirstMin(q) == Head(q[Min(NonEmpty(q))])

FirstMax(q) == Head(q[Max(NonEmpty(q))])

\* No value is in the queue twice, in one list or in two: what lets a value
\* stand for its Pointer.
NoDuplicates(q) ==
  /\ \A p \in DOMAIN q : \A i, j \in 1 .. Len(q[p]) : q[p][i] = q[p][j] => i = j
  /\ \A p, r \in DOMAIN q :
       p # r => ToSet(q[p]) \intersect ToSet(q[r]) = {}

=============================================================================
