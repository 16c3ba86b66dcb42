----------------------- MODULE MCPrioritizedDispatcher -----------------------
(***************************************************************************)
(* PrioritizedDispatcher on small instances.                               *)
(***************************************************************************)
EXTENDS PrioritizedDispatcher

CONSTANT MaxTotalJobs   \* bound: the largest total_jobs a client asks for

\* Every legal combination of reserved slots up to the bound.
MCLimits ==
  {limits \in [total_jobs : 0 .. MaxTotalJobs,
               reserved_slots : [Priority -> 0 .. MaxTotalJobs]] :
     ReservedUpTo(limits)[Highest] <= limits.total_jobs}

Symmetry == Permutations(Job)

=============================================================================
