---------------------------- MODULE MCFeatureService ----------------------------
(***************************************************************************)
(* FeatureService on small instances.                                      *)
(***************************************************************************)
EXTENDS FeatureService, TLC

CONSTANTS p1, p2, s1, f1

Symmetry == Permutations({p1, p2} \intersect Callers)
===============================================================================
