--------------------------- MODULE MCResolutionCache ---------------------------
(***************************************************************************)
(* Small instances of ResolutionCache.                                     *)
(***************************************************************************)
EXTENDS ResolutionCache, TLC

CONSTANTS r1, r2, w1, w2, k1, k2, k3

Symmetry ==
  Permutations({r1, r2} \intersect Readers) \union Permutations({w1, w2} \intersect Writers)
    \union Permutations({k1, k2, k3} \intersect Keys)
===============================================================================
