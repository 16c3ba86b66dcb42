------------------------------ MODULE LruLists ------------------------------
(***************************************************************************)
(* What disk_cache/blockfile/rankings.{h,cc} promises: lists of nodes, the *)
(* most recently used first, on which an insertion or a removal happens at *)
(* once or not at all, even if the process crashes.                        *)
(***************************************************************************)
EXTENDS Integers, Sequences, FiniteSets

CONSTANTS
  Node,     \* the rankings nodes (the cache entries)
  List      \* the lists: NO_USE, LOW_USE, ...

VARIABLE lists    \* per list: the sequence of its nodes, head first

Elements(s) == {s[i] : i \in DOMAIN s}

Init == lists = [l \in List |-> <<>>]

Insert(n, l) ==
  /\ \A x \in List : n \notin Elements(lists[x])
  /\ lists' = [lists EXCEPT ![l] = <<n>> \o @]

Remove(n, l) ==
  \E i \in DOMAIN lists[l] :
    /\ lists[l][i] = n
    /\ lists' = [lists EXCEPT ![l] = SubSeq(@, 1, i - 1) \o SubSeq(@, i + 1, Len(@))]

Next == \E n \in Node, l \in List : Insert(n, l) \/ Remove(n, l)

Spec == Init /\ [][Next]_lists

=============================================================================
