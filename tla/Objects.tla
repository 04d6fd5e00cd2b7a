-------------------------------- MODULE Objects --------------------------------
(***************************************************************************)
(* What objects that own memory promise: each holds elements of its own,   *)
(* and a call changes those of the objects it is made on.                  *)
(***************************************************************************)
CONSTANT Nothing   \* what an object holds that owns no memory

VARIABLE held      \* the elements each object holds, or Nothing

Assign(x, s) == held' = [held EXCEPT ![x] = s]

\* Those of X (at most one of which owns what a pointer points to) hold s.
Become(X, s) == held' = [x \in DOMAIN held |-> IF x \in X THEN s ELSE held[x]]

Move(x, y) == held' = [held EXCEPT ![x] = held[y], ![y] = Nothing]

\* No object but those of X is changed.
Within(X) == \A x \in DOMAIN held \ X : held'[x] = held[x]
=============================================================================
