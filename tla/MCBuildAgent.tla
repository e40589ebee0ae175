------------------------------ MODULE MCBuildAgent ------------------------------
(***************************************************************************)
(* BuildAgent on small instances.                                          *)
(***************************************************************************)
EXTENDS BuildAgent, TLC

CONSTANTS r1, r2, l1

Symmetry == Permutations(Requests)
===============================================================================
