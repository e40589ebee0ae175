------------------------------- MODULE MCServing -------------------------------
(***************************************************************************)
(* Small instances of Serving: one or two requests, deployments and admin  *)
(* calls.                                                                  *)
(***************************************************************************)
EXTENDS Serving, TLC

CONSTANTS r1, r2, d1, d2, a1, a2

Symmetry == Permutations({r1, r2} \intersect Visitors) \union Permutations({d1, d2} \intersect Deployers)
===============================================================================
