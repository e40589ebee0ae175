---------------------------- MODULE MCMetaService ----------------------------
(***************************************************************************)
(* MetaService on small instances.                                         *)
(***************************************************************************)
EXTENDS MetaService, TLC

CONSTANTS o1, o2, s1, f1

Symmetry == Permutations(Owners)
=============================================================================
