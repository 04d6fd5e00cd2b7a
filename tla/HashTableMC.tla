----------------------------- MODULE HashTableMC -----------------------------
(***************************************************************************)
(* Instances of HashTable for TLC.  A key is its own hash value, so keys   *)
(* that are equal modulo the size of the table collide; the same key may   *)
(* be inserted more than once.                                             *)
(***************************************************************************)
EXTENDS HashTable

KeyHash == [key \in Keys |-> key]
=============================================================================
