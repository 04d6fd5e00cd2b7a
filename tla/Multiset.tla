------------------------------- MODULE Multiset -------------------------------
(***************************************************************************)
(* What a hash table promises its callers: it is a multiset of keys.  A    *)
(* call asks for some keys to be added; each is then added once or refused *)
(* (the table could not grow enough), in order, and nothing else changes   *)
(* what is held until the table is freed.  A call that replaces a key may  *)
(* add it at once, in the place of what was no key.                        *)
(***************************************************************************)
EXTENDS Naturals, Sequences

CONSTANT Keys

VARIABLES
  bag,   \* how many copies of each key are held
  owed,  \* the keys the running call has yet to add
  given  \* the key of the call that returned, if it was to replace one

Empty == [key \in Keys |-> 0]

Init == bag = Empty /\ owed = <<>>

Ask == owed = <<>> /\ owed' \in Seq(Keys) /\ bag' = bag

Add ==
  /\ owed # <<>>
  /\ bag' = [bag EXCEPT ![Head(owed)] = @ + 1]
  /\ owed' = Tail(owed)

Refuse == owed # <<>> /\ bag' = bag /\ owed' = Tail(owed)

Put ==
  /\ owed = <<>> /\ owed' = <<>>
  /\ \E key \in given' : bag' = [bag EXCEPT ![key] = @ + 1]

Clear == owed = <<>> /\ bag' = Empty /\ owed' = <<>>

Next == Ask \/ Add \/ Refuse \/ Put \/ Clear

Spec == Init /\ [][Next]_<<bag, owed>>
=============================================================================
