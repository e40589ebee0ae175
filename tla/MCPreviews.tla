------------------------------- MODULE MCPreviews ------------------------------
(***************************************************************************)
(* Small instances of Previews: requests, deployments and admin calls of   *)
(* one feature.                                                            *)
(***************************************************************************)
EXTENDS Previews, TLC

CONSTANTS r1, r2, d1, d2, a1

Symmetry == Permutations({r1, r2} \intersect Visitors) \union Permutations({d1, d2} \intersect Deployers)
===============================================================================
