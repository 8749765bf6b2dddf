---------------------------- MODULE MCExpansion ----------------------------
(* Instances of Expansion for TLC.                                         *)
EXTENDS Expansion, TLC

Symmetry == Permutations(Serials)
=============================================================================
