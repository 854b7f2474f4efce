----------------------------- MODULE MCWrapper ------------------------------
\* Wrapper for TLC: the sessions and the wrappers of each pool are sets of
\* model values.
EXTENDS Wrapper, TLC

Symmetry ==
  Permutations(Sessions) \cup Permutations(Ws) \cup Permutations(Pc)
    \cup Permutations(Dc)
=============================================================================
