------------------------------- MODULE HashMap -------------------------------
(***************************************************************************)
(* The hash map of include/fp/hash/map.h.                                  *)
(*                                                                         *)
(* Its algorithm is the one of table.h, step for step (the retries, the    *)
(* swaps, the marks), so every action here is the action of HashTable and  *)
(* what it does besides: the map keeps, in the header, the functions that  *)
(* hash, compare, copy, swap and finalize elements.  An element has a key, *)
(* all that is hashed and compared, which is HashTable's `slot`, and a     *)
(* value.  What matters of a value is who owns it: with a copy function of *)
(* its own the map makes a resource for every copy, which the finalizer    *)
(* should get back once; memcpy, the default, keeps the caller's.          *)
(*                                                                         *)
(* Hash is the hash function the map got before its first element; the     *)
(* swap function exchanges whole elements.                                 *)
(***************************************************************************)
EXTENDS HashTable

CONSTANTS
  Borrowed,  \* the value of an element that was copied by memcpy
  NoValue,   \* what uninitialised memory holds in its place
  MaxLive    \* bound: copies that are not finalized yet

ASSUME ValuesAssumption == Borrowed \notin Nat /\ NoValue \notin Nat /\ Borrowed # NoValue
ASSUME LiveAssumption == MaxLive \in Nat

VARIABLES
  value,      \* the values of the elements, by position
  live,       \* the resources copies made and the finalizer has not got yet
  copier,     \* header->copier makes a resource (FALSE: it is memcpy)
  finalizer   \* header->finalizer # NULL

functions == <<copier, finalizer>>
held      == <<value, live>>
mapVars   == <<vars, held, functions>>

NoValues == [p \in {} |-> NoValue]

MapInit ==
  /\ Init
  /\ value = NoValues /\ live = {} /\ copier = FALSE /\ finalizer = FALSE

-----------------------------------------------------------------------------
(* Copying and finalizing. *)

\* Mutant of NewResource: the copy function hands out the one it made first.
NewResourceAgain(L) == 1

\* A resource that is not among L.
NewResource(L) == CHOOSE r \in 1 .. Cardinality(L) + 1 : r \notin L

\* One call of __fp_hash_map_copy: what the copy holds, and L with it.
Copy(L)     == IF copier THEN NewResource(L) ELSE Borrowed
WithCopy(L) == IF copier THEN L \cup {NewResource(L)} ELSE L

\* One call of __fp_hash_map_swap, on the values of p and q.
ExchangedNot(p, q) == value   \* Mutant of Exchanged: only the keys are swapped.
Exchanged(p, q)    == [value EXCEPT ![p] = value[q], ![q] = value[p]]

Values == {value[p] : p \in occ}

\* Mutant of MapDoubleSize: the elements stay in a block of the old size.
MapDoubleSizeShort ==
  /\ copier' = (n > 0 /\ copier) /\ finalizer' = (n > 0 /\ finalizer)
  /\ UNCHANGED held

\* __fp_hash_map_double_size: a header that is not new is copied with its functions.
MapDoubleSize ==
  /\ value' = [p \in Positions' |-> IF p \in Positions THEN value[p] ELSE NoValue]
  /\ copier' = (n > 0 /\ copier) /\ finalizer' = (n > 0 /\ finalizer)
  /\ UNCHANGED live

-----------------------------------------------------------------------------
(* The calls. *)

Room(count) == Cardinality(live) + count <= MaxLive

\* fp_hash_map_set_copy_function, fp_hash_map_set_finalize_function
SetCopyFunction(owning) ==
  /\ pc = "idle" /\ n > 0
  /\ copier' = owning
  /\ UNCHANGED <<vars, held, finalizer>>
SetFinalizeFunction(given) ==
  /\ pc = "idle" /\ n > 0
  /\ finalizer' = given
  /\ UNCHANGED <<vars, held, copier>>

MapInsert(key, st) == Room(1) /\ Insert(key, st) /\ UNCHANGED <<held, functions>>

\* Mutant of MapReplace: an element that is found is left as it is.
MapReplaceNot(key) == Replace(key) /\ UNCHANGED <<held, functions>>

\* fp_hash_map_insert_or_replace copies the element over the one it finds,
\* which is not finalized;
MapReplace(key) ==
  /\ Room(1)
  /\ Replace(key)
  /\ \E p \in Positions :
       /\ MayReturn(key, p) /\ slot' = [slot EXCEPT ![p] = key]
       /\ value' = [value EXCEPT ![p] = Copy(live)]
  /\ live' = WithCopy(live)
  /\ UNCHANGED functions
\* what it inserts is copied by insert and then once more (see MapPlace).
MapInsertOrReplace(key) ==
  Room(2) /\ InsertOrReplace(key) /\ UNCHANGED <<held, functions>>

MapDoubleSizeAndRehash(st) == DoubleSizeAndRehash(st) /\ UNCHANGED <<held, functions>>

MapConvertArray(array, st) ==
  Room(Len(array)) /\ ConvertArray(array, st) /\ MapDoubleSize

MapCreateEmptyTable(st) == CreateEmptyTable(st) /\ MapDoubleSize

\* Mutant of MapFree: the finalizer is called for one entry less.
MapFreeLess(typed) ==
  /\ Free
  /\ live' = IF typed /\ finalizer
             THEN live \ {value[p] : p \in occ \ {Size - 1}} ELSE live
  /\ value' = NoValues /\ copier' = FALSE /\ finalizer' = FALSE

\* fp_hash_map_free_and_null, and fp_hash_map_free_finalize_and_null (typed),
\* which calls the finalizer for every occupied entry
MapFree(typed) ==
  /\ Free
  /\ live' = IF typed /\ finalizer THEN live \ Values ELSE live
  /\ value' = NoValues /\ copier' = FALSE /\ finalizer' = FALSE

-----------------------------------------------------------------------------
(* The steps that move or make elements. *)

\* insert copies the element to the spot; insert_or_replace does so again.
MapPlace ==
  /\ Place
  /\ LET first  == WithCopy(live)
         twice  == op = "replace"
     IN  /\ \E p \in Positions :
              /\ EmptySpot(InsertHash, p)
              /\ value' = [value EXCEPT ![p] = IF twice THEN Copy(first) ELSE Copy(live)]
         /\ live' = IF twice THEN WithCopy(first) ELSE first
  /\ UNCHANGED functions

MapGrow == Grow /\ MapDoubleSize

MapSpread == Spread /\ value' = Exchanged(i, Size - i) /\ UNCHANGED <<live, functions>>

\* The spot the element moves to is the one that becomes occupied.
MapMove ==
  /\ Move
  /\ \E p \in occ' \ occ : value' = Exchanged(p, i)
  /\ UNCHANGED <<live, functions>>

\* The steps that touch no element are those of the table.
MapQuiet ==
  /\ \/ GrowToInsert \/ GiveUp \/ ConvertNext \/ ConvertDone
     \/ SpreadNot \/ SpreadDone
     \/ Settle \/ RehashAgain \/ RehashFails \/ Skipped \/ RehashDone
  /\ UNCHANGED <<held, functions>>

-----------------------------------------------------------------------------
MapCalls ==
  \/ \E key \in Keys, st \in BOOLEAN : MapInsert(key, st)
  \/ \E key \in Keys : MapReplace(key) \/ MapInsertOrReplace(key)
  \/ \E st \in BOOLEAN : MapDoubleSizeAndRehash(st) \/ MapCreateEmptyTable(st)
  \/ \E array \in Arrays, st \in BOOLEAN : MapConvertArray(array, st)
  \/ \E b \in BOOLEAN : SetCopyFunction(b) \/ SetFinalizeFunction(b) \/ MapFree(b)

MapSteps == MapPlace \/ MapGrow \/ MapSpread \/ MapMove \/ MapQuiet

MapNext == MapCalls \/ MapSteps

MapSpec == MapInit /\ [][MapNext]_mapVars

\* As for the table: a call that was made runs.
MapFairSpec == MapSpec /\ WF_mapVars(MapSteps)

-----------------------------------------------------------------------------
\* The type invariant: the table's, with a value for each of its positions.
MapTypeOK ==
  /\ TypeOK
  /\ value \in [Positions -> Nat \cup {Borrowed, NoValue}]
  /\ live \subseteq Nat /\ IsFiniteSet(live)
  /\ copier \in BOOLEAN /\ finalizer \in BOOLEAN

\* Every copy is in one place and not finalized yet, so that freeing with
\* finalization finalizes what the map holds exactly once: growth copies and
\* rehash swaps whole elements, and no element is without its value.
HeldOnce ==
  /\ \A p \in Positions : /\ value[p] \in live \cup {Borrowed, NoValue}
                          /\ slot[p] # Junk => value[p] # NoValue
  /\ \A p, q \in Positions : p # q /\ value[p] \in live => value[p] # value[q]

\* A copy is lost to its map only by insert_or_replace, which loses one each
\* time (the copy insert made, or the one it overwrites), and by a free that
\* does not finalize.
Leaked == live \ Values
CopiesAreLost ==
  [][LET lost == Leaked' \ Leaked
     IN  lost # {} => \/ op' = "replace" /\ Cardinality(lost) = 1
                      \/ op' = "free" /\ live' = live]_mapVars

\* A value stays with its key through growth and rehash: of the pairs the map
\* holds, a call replaces those of the key it was given and drops no other.
Pairs == {<<slot[p], value[p]>> : p \in {q \in occ : slot[q] # Junk}}
PairsStay ==
  [][\A pair \in Pairs \ Pairs' : op' = "free" \/ (op' = "replace" /\ pair[1] = arg')]_mapVars

\* After insert_or_replace find returns the new value: whether the key was
\* there, even when the map holds several elements of it, or was inserted, after
\* any number of rehashes.  Not when the map held the key out of find's reach
\* and the call grew it: the rehash can move the old element in front of the new
\* one.  Without stored hashes: what find makes of one never written is open.
Answers(key) == {value[p] : p \in {q \in Positions : MayReturn(key, q)}}
Seen(key) ==
  /\ op' = "replace" /\ pc' = "idle" /\ key = arg'
  /\ copier /\ UNCHANGED functions /\ ~hasHashes
  => Answers(key)' \cap Values = {}
ReplaceIsSeen ==
  [][\A key \in Keys : n' = start' \/ Copies(key) = {} => Seen(key)]_mapVars

-----------------------------------------------------------------------------
(* What the repository says of it and the code does not do. *)

\* "If the table has a (nonnull) finalizer, finalize every occupied element":
\* what free passes to the finalizer are elements.
FinalizesElements == pc = "idle" /\ finalizer => NoValue \notin Values
=============================================================================
