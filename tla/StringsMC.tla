------------------------------ MODULE StringsMC ------------------------------
(***************************************************************************)
(* Instances of Strings for TLC.  The capacities are the least powers of   *)
(* two, which the code computes (PowersAreLeast of PureMC).                *)
(***************************************************************************)
EXTENDS Strings

CONSTANT Width

Word == INSTANCE PowerOfTwo

Powers == [v \in 0 .. Longest |-> Word!LeastPower(v)]
=============================================================================
