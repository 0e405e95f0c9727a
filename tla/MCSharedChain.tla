---------------------------- MODULE MCSharedChain ----------------------------
(***************************************************************************)
(* Instances of SharedChain for TLC.                                       *)
(***************************************************************************)
EXTENDS SharedChain, TLC

Symmetry == Permutations(Callers) \cup Permutations(Fields)
==============================================================================
