----------------------------- MODULE MCRankings -----------------------------
\* Rankings for TLC.
EXTENDS Rankings, TLC

Symmetry == Permutations(Node)

=============================================================================
