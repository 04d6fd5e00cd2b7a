------------------------------ MODULE HashMapMC ------------------------------
(***************************************************************************)
(* Instances of HashMap for TLC: a key is its own hash value.              *)
(***************************************************************************)
EXTENDS HashMap

KeyHash == [key \in Keys |-> key]
=============================================================================
