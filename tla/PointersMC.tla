----------------------------- MODULE PointersMC -----------------------------
(***************************************************************************)
(* Instances of Pointers for TLC.  Nothing tells addresses apart, nor one  *)
(* object from another.                                                    *)
(***************************************************************************)
EXTENDS Pointers, TLC

Symmetry == Permutations(Addresses) \cup Permutations(Owners)
=============================================================================
