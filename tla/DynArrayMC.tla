------------------------------ MODULE DynArrayMC ------------------------------
(***************************************************************************)
(* Instances of DynArray for TLC, with the capacities the code computes.   *)
(***************************************************************************)
EXTENDS DynArray, TLC

CONSTANT Width

Word == INSTANCE PowerOfTwo

Powers == [v \in 0 .. MaxSize |-> Word!UpperPowerOfTwo(v)]

\* Arrays meet only in cloning: beside a large one, small ones are enough.
OneIsSmall == \E x \in Arrays : blocks[x].cap <= 1

ArraysAreAlike == Permutations(Arrays)
=============================================================================
