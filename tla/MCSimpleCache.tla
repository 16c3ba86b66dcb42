--------------------------- MODULE MCSimpleCache ---------------------------
(***************************************************************************)
(* SimpleCache on small instances.                                         *)
(***************************************************************************)
EXTENDS SimpleCache

\* Optimistic operations, and nothing fails.
Plain == [calls |-> 5, optimistic |-> TRUE, iterate |-> FALSE, faults |-> {}]

Faulty == [Plain EXCEPT !.calls = 4, !.faults = {"io", "lazy"}]

Iterating == [Plain EXCEPT !.calls = 4, !.optimistic = FALSE, !.iterate = TRUE]

MCScenarios ==
  {Plain, Faulty, [Faulty EXCEPT !.faults = {"lazy"}], Iterating}

=============================================================================
