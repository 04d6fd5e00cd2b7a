---------------------------- MODULE OwnedStringsMC ----------------------------
(***************************************************************************)
(* Instances of OwnedStrings for TLC.  Nothing tells addresses apart, nor  *)
(* one object or character from another.                                   *)
(***************************************************************************)
EXTENDS OwnedStrings, TLC

Symmetry ==
  Permutations(Addresses) \cup Permutations(Owners) \cup Permutations(Chars)
=============================================================================
