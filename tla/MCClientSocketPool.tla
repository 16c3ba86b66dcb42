------------------------- MODULE MCClientSocketPool -------------------------
(***************************************************************************)
(* ClientSocketPool on small instances.                                    *)
(***************************************************************************)
EXTENDS ClientSocketPool

\* Handles that respect the limits are interchangeable, and so are groups.
Symmetry == Permutations(Handle \ IgnoreLimits) \union Permutations(Group)

=============================================================================
