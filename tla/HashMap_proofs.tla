--------------------------- MODULE HashMap_proofs ---------------------------
(***************************************************************************)
(* The hash map is a hash table, so that what is proved of the table holds *)
(* of it; and it holds every copy it makes once.                           *)
(***************************************************************************)
EXTENDS HashMap, HashTable_proofs

-----------------------------------------------------------------------------
(* The map implements the table. *)

LEMMA MapCallIsCall == MapCalls => [Next]_vars
<1> SUFFICES ASSUME MapCalls PROVE [Next]_vars
  OBVIOUS
<1>1. ASSUME NEW key \in Keys, NEW st \in BOOLEAN, MapInsert(key, st)
      PROVE  Next
  BY <1>1 DEF MapInsert, Next, Calls
<1>2. ASSUME NEW key \in Keys, MapReplace(key) \/ MapInsertOrReplace(key)
      PROVE  Next
  BY <1>2 DEF MapReplace, MapInsertOrReplace, Next, Calls
<1>3. ASSUME NEW st \in BOOLEAN, MapDoubleSizeAndRehash(st) \/ MapCreateEmptyTable(st)
      PROVE  Next
  BY <1>3 DEF MapDoubleSizeAndRehash, MapCreateEmptyTable, Next, Calls
<1>4. ASSUME NEW array \in Arrays, NEW st \in BOOLEAN, MapConvertArray(array, st)
      PROVE  Next
  BY <1>4 DEF MapConvertArray, Next, Calls
<1>5. ASSUME NEW b \in BOOLEAN, SetCopyFunction(b) \/ SetFinalizeFunction(b)
      PROVE  UNCHANGED vars
  BY <1>5 DEF SetCopyFunction, SetFinalizeFunction
<1>6. ASSUME NEW b \in BOOLEAN, MapFree(b)
      PROVE  Next
  BY <1>6 DEF MapFree, Next, Calls
<1>7. QED
  BY <1>1, <1>2, <1>3, <1>4, <1>5, <1>6 DEF MapCalls

LEMMA MapStepIsStep == MapSteps => Steps
BY DEF MapSteps, MapPlace, MapGrow, MapSpread, MapMove, MapQuiet, Steps

LEMMA MapNextIsNext == [MapNext]_mapVars => [Next]_vars
<1> SUFFICES ASSUME [MapNext]_mapVars PROVE [Next]_vars
  OBVIOUS
<1>1. CASE MapCalls
  BY <1>1, MapCallIsCall
<1>2. CASE MapSteps
  BY <1>2, MapStepIsStep DEF Next
<1>3. CASE UNCHANGED mapVars
  BY <1>3 DEF mapVars
<1>4. QED BY <1>1, <1>2, <1>3 DEF MapNext

\* map.h runs the algorithm of table.h: every behaviour of the map is one of
\* the table, which carries over every theorem about the table.
THEOREM ImplementsTable == MapSpec => Spec
<1>1. MapInit => Init
  BY DEF MapInit
<1>2. QED BY <1>1, MapNextIsNext, PTL DEF MapSpec, Spec

-----------------------------------------------------------------------------
(* What copying, growing and swapping do to the values. *)

MapInv == MapTypeOK /\ HeldOnce

\* There is a resource that is not among finitely many.
LEMMA NewResourceIsNew ==
  ASSUME NEW L \in SUBSET Nat, IsFiniteSet(L)
  PROVE  NewResource(L) \in Nat /\ NewResource(L) \notin L
<1>1. Cardinality(L) \in Nat
  BY FS_CardinalityType
<1> DEFINE c == Cardinality(L)
<1>2. Cardinality(1 .. c + 1) = c + 1
  BY <1>1, FS_Interval
<1>3. \E r \in 1 .. c + 1 : r \notin L
  <2>1. SUFFICES ASSUME 1 .. c + 1 \subseteq L PROVE FALSE
    OBVIOUS
  <2>2. Cardinality(1 .. c + 1) <= c
    BY <2>1, FS_Subset
  <2>3. QED BY <1>1, <1>2, <2>2
<1>4. NewResource(L) \in 1 .. c + 1 /\ NewResource(L) \notin L
  BY <1>3 DEF NewResource
<1>5. QED BY <1>1, <1>4

\* A copy is borrowed or new, and counted among the live ones.
LEMMA CopyIsNew ==
  ASSUME NEW L \in SUBSET Nat, IsFiniteSet(L), copier \in BOOLEAN
  PROVE  /\ WithCopy(L) \in SUBSET Nat /\ IsFiniteSet(WithCopy(L)) /\ L \subseteq WithCopy(L)
         /\ Copy(L) \in WithCopy(L) \cup {Borrowed}
         /\ Copy(L) \notin L /\ Copy(L) # NoValue
<1>1. CASE copier
  <2>1. NewResource(L) \in Nat /\ NewResource(L) \notin L
    BY NewResourceIsNew
  <2>2. IsFiniteSet(L \cup {NewResource(L)})
    BY FS_AddElement
  <2>3. QED BY <1>1, <2>1, <2>2, ValuesAssumption DEF Copy, WithCopy
<1>2. CASE ~copier
  BY <1>2, ValuesAssumption DEF Copy, WithCopy
<1>3. QED BY <1>1, <1>2

\* Writing a new copy to one entry keeps every copy in one place.
LEMMA WriteHeldOnce ==
  ASSUME MapInv, NEW p \in Positions, NEW v, NEW L,
         UNCHANGED n,
         \A q \in Positions : q # p => slot'[q] = slot[q],
         value' = [value EXCEPT ![p] = v], live' = L,
         live \subseteq L, L \in SUBSET Nat,
         v \in L \cup {Borrowed}, v \notin live, v # NoValue
  PROVE  HeldOnce' /\ value' \in [Positions' -> Nat \cup {Borrowed, NoValue}]
<1>1. Positions' = Positions
  BY DEF Positions, Size
<1>2. /\ value' \in [Positions' -> Nat \cup {Borrowed, NoValue}]
      /\ value'[p] = v /\ \A q \in Positions : q # p => value'[q] = value[q]
  BY <1>1 DEF MapInv, MapTypeOK
<1>3. \A q \in Positions : value[q] \in live \cup {Borrowed, NoValue}
  BY DEF MapInv, HeldOnce
<1>4. ASSUME NEW q \in Positions
      PROVE  /\ value'[q] \in live' \cup {Borrowed, NoValue}
             /\ slot'[q] # Junk => value'[q] # NoValue
  <2>1. CASE q = p
    BY <1>2, <2>1
  <2>2. CASE q # p
    <3>1. value'[q] = value[q] /\ slot'[q] = slot[q]
      BY <1>2, <2>2
    <3>2. value[q] \in live \cup {Borrowed, NoValue} /\ (slot[q] # Junk => value[q] # NoValue)
      BY DEF MapInv, HeldOnce
    <3>3. QED BY <3>1, <3>2
  <2>3. QED BY <2>1, <2>2
<1>5. ASSUME NEW q \in Positions, NEW r \in Positions, q # r, value'[q] \in live'
      PROVE  value'[q] # value'[r]
  <2>1. CASE q = p
    <3>1. v # Borrowed
      BY <1>2, <1>5, <2>1, ValuesAssumption
    <3>2. QED BY <1>2, <1>3, <1>5, <2>1, <3>1
  <2>2. CASE q # p /\ r = p
    <3>1. value[q] # NoValue /\ value[q] # Borrowed
      BY <1>2, <1>5, <2>2, ValuesAssumption
    <3>2. QED BY <1>2, <1>3, <1>5, <2>2, <3>1
  <2>3. CASE q # p /\ r # p
    <3>1. value[q] \in live
      <4>1. value[q] \in L
        BY <1>2, <1>5, <2>3
      <4>2. value[q] # Borrowed /\ value[q] # NoValue
        BY <4>1, ValuesAssumption
      <4>3. QED BY <1>3, <1>5, <4>2
    <3>2. QED BY <1>2, <1>5, <2>3, <3>1 DEF MapInv, HeldOnce
  <2>4. QED BY <2>1, <2>2, <2>3
<1>6. QED BY <1>1, <1>2, <1>4, <1>5 DEF HeldOnce

\* So does swapping two elements.
LEMMA SwapHeldOnce ==
  ASSUME MapInv, NEW p \in Positions, NEW q \in Positions, UNCHANGED <<n, live>>,
         slot' = Swapped(p, q) \/ slot' = Swapped(q, p), value' = Exchanged(p, q)
  PROVE  HeldOnce' /\ value' \in [Positions' -> Nat \cup {Borrowed, NoValue}]
<1>1. Positions' = Positions
  BY DEF Positions, Size
<1> DEFINE other(r) == IF r = p THEN q ELSE IF r = q THEN p ELSE r
<1>2. \A r \in Positions : /\ other(r) \in Positions
                           /\ slot'[r] = slot[other(r)] /\ value'[r] = value[other(r)]
  BY DEF Swapped, Exchanged, MapInv, MapTypeOK, TypeOK
<1>3. \A r, s \in Positions : r # s => other(r) # other(s)
  OBVIOUS
<1>4. value' \in [Positions' -> Nat \cup {Borrowed, NoValue}]
  BY <1>1 DEF Exchanged, MapInv, MapTypeOK
<1> HIDE DEF other
<1>5. QED BY <1>1, <1>2, <1>3, <1>4 DEF HeldOnce, MapInv

\* Growing adds entries that have neither element nor value.
LEMMA DoubleSizeHeldOnce ==
  ASSUME MapInv, NEW st \in BOOLEAN, DoubleSize(st), MapDoubleSize
  PROVE  HeldOnce' /\ value' \in [Positions' -> Nat \cup {Borrowed, NoValue}]
<1>1. Positions \subseteq Positions' /\ Positions' = Skip .. Skip + DoubledSize - 1
  <2>1. n' \in Nat /\ Positions \subseteq Positions'
    BY DoubleSizeType DEF MapInv, MapTypeOK
  <2>2. QED BY <2>1, SkipAssumption DEF DoubleSize, Positions, Size
<1>2. \A p \in Positions' : /\ value'[p] = IF p \in Positions THEN value[p] ELSE NoValue
                            /\ slot'[p] = IF p \in Positions THEN slot[p] ELSE Junk
  BY <1>1 DEF DoubleSize, MapDoubleSize
<1>3. value' \in [Positions' -> Nat \cup {Borrowed, NoValue}]
  BY DEF MapDoubleSize, MapInv, MapTypeOK
<1>4. live' = live /\ live \subseteq Nat
  BY DEF MapDoubleSize, MapInv, MapTypeOK
<1>5. QED
  BY <1>2, <1>3, <1>4, ValuesAssumption DEF HeldOnce, MapInv

-----------------------------------------------------------------------------
(* Every step keeps the copies apart. *)

LEMMA HeldInit == MapInit => MapInv
<1> SUFFICES ASSUME MapInit PROVE MapInv
  OBVIOUS
<1>1. TypeOK
  BY TypeInit DEF MapInit
<1>2. Positions = {}
  BY SkipAssumption DEF MapInit, Init, Positions, Size
<1>3. value \in [Positions -> Nat \cup {Borrowed, NoValue}]
  BY <1>2 DEF MapInit, NoValues
<1>4. IsFiniteSet({})
  BY FS_EmptySet
<1>5. QED BY <1>1, <1>2, <1>3, <1>4 DEF MapInit, MapInv, MapTypeOK, HeldOnce

\* What a step does when it leaves elements and values alone.
LEMMA HeldQuiet ==
  ASSUME MapInv, UNCHANGED <<n, slot, held>>
  PROVE  HeldOnce' /\ value' \in [Positions' -> Nat \cup {Borrowed, NoValue}]
BY DEF MapInv, MapTypeOK, HeldOnce, Positions, Size, held

LEMMA HeldCalls ==
  ASSUME MapInv, MapCalls, TypeOK'
  PROVE  MapInv'
<1>0. TypeOK /\ live \in SUBSET Nat /\ IsFiniteSet(live) /\ copier \in BOOLEAN
  BY DEF MapInv, MapTypeOK
<1>1. ASSUME NEW key, NEW st,
             MapInsert(key, st) \/ MapInsertOrReplace(key) \/ MapDoubleSizeAndRehash(st)
      PROVE  MapInv'
  <2>1. UNCHANGED <<n, slot, held, functions>>
    BY <1>1 DEF MapInsert, MapInsertOrReplace, MapDoubleSizeAndRehash, Insert,
                InsertOrReplace, DoubleSizeAndRehash, table
  <2>2. QED BY <2>1, HeldQuiet DEF MapInv, MapTypeOK, held, functions
<1>2. ASSUME NEW key \in Keys, MapReplace(key)
      PROVE  MapInv'
  <2>1. PICK p \in Positions : /\ slot' = [slot EXCEPT ![p] = key]
                               /\ value' = [value EXCEPT ![p] = Copy(live)]
    BY <1>2 DEF MapReplace
  <2>2. UNCHANGED <<n, functions>> /\ live' = WithCopy(live)
    BY <1>2 DEF MapReplace, Replace
  <2>3. \A q \in Positions : q # p => slot'[q] = slot[q]
    BY <1>0, <2>1 DEF TypeOK
  <2>4. QED
    BY <1>0, <2>1, <2>2, <2>3, CopyIsNew, WriteHeldOnce DEF MapInv, MapTypeOK, functions
<1>3. ASSUME NEW st \in BOOLEAN, DoubleSize(st), MapDoubleSize
      PROVE  MapInv'
  <2>1. live' = live /\ copier' \in BOOLEAN /\ finalizer' \in BOOLEAN
    BY <1>3 DEF MapDoubleSize, MapInv, MapTypeOK
  <2>2. QED BY <1>3, <2>1, DoubleSizeHeldOnce DEF MapInv, MapTypeOK
<1>4. ASSUME NEW b \in BOOLEAN, SetCopyFunction(b) \/ SetFinalizeFunction(b)
      PROVE  MapInv'
  <2>1. UNCHANGED <<n, slot, held>> /\ copier' \in BOOLEAN /\ finalizer' \in BOOLEAN
    BY <1>4 DEF SetCopyFunction, SetFinalizeFunction, vars, table, MapInv, MapTypeOK
  <2>2. QED BY <2>1, HeldQuiet DEF MapInv, MapTypeOK, held
<1>5. ASSUME NEW b \in BOOLEAN, MapFree(b)
      PROVE  MapInv'
  <2>1. Positions' = {}
    BY <1>5, SkipAssumption DEF MapFree, Free, Positions, Size
  <2>2. value' \in [Positions' -> Nat \cup {Borrowed, NoValue}]
    BY <1>5, <2>1 DEF MapFree, NoValues
  <2>3. live' \subseteq live /\ copier' \in BOOLEAN /\ finalizer' \in BOOLEAN
    BY <1>5 DEF MapFree
  <2>4. IsFiniteSet(live')
    BY <1>0, <2>3, FS_Subset
  <2>5. QED BY <1>0, <2>1, <2>2, <2>3, <2>4 DEF MapInv, MapTypeOK, HeldOnce
<1>6. ASSUME NEW st \in BOOLEAN, MapCreateEmptyTable(st)
      PROVE  MapInv'
  BY <1>3, <1>6 DEF MapCreateEmptyTable, CreateEmptyTable
<1>7. ASSUME NEW array \in Arrays, NEW st \in BOOLEAN, MapConvertArray(array, st)
      PROVE  MapInv'
  BY <1>3, <1>7 DEF MapConvertArray, ConvertArray
<1>8. QED
  BY <1>1, <1>2, <1>4, <1>5, <1>6, <1>7 DEF MapCalls

\* find_empty_spot returns one spot.
LEMMA EmptySpotIsOne ==
  ASSUME NEW hash, NEW p, NEW r, EmptySpot(hash, p), EmptySpot(hash, r)
  PROVE  p = r
<1>1. PICK j \in 0 .. NeighborhoodSize - 1 :
        p = Probe(hash, j) /\ p \notin occ /\ \A l \in 0 .. j - 1 : Probe(hash, l) \in occ
  BY DEF EmptySpot
<1>2. PICK k \in 0 .. NeighborhoodSize - 1 :
        r = Probe(hash, k) /\ r \notin occ /\ \A l \in 0 .. k - 1 : Probe(hash, l) \in occ
  BY DEF EmptySpot
<1> USE NeighborhoodAssumption
<1>3. ~(j < k) /\ ~(k < j)
  BY <1>1, <1>2
<1>4. QED BY <1>1, <1>2, <1>3

LEMMA HeldPlace ==
  ASSUME MapInv, MapPlace, TypeOK'
  PROVE  MapInv'
<1>0. TypeOK /\ live \in SUBSET Nat /\ IsFiniteSet(live) /\ copier \in BOOLEAN
  BY DEF MapInv, MapTypeOK
<1> DEFINE first == WithCopy(live)
           v == IF op = "replace" THEN Copy(first) ELSE Copy(live)
           L == IF op = "replace" THEN WithCopy(first) ELSE first
<1>1. PICK p \in Positions : EmptySpot(InsertHash, p) /\ value' = [value EXCEPT ![p] = v]
  BY DEF MapPlace
<1>2. live' = L /\ UNCHANGED <<n, functions>>
  BY DEF MapPlace, Place
<1>3. /\ live \subseteq L /\ L \in SUBSET Nat /\ IsFiniteSet(L)
      /\ v \in L \cup {Borrowed} /\ v \notin live /\ v # NoValue
  <2>1. /\ first \in SUBSET Nat /\ IsFiniteSet(first) /\ live \subseteq first
        /\ Copy(live) \in first \cup {Borrowed} /\ Copy(live) \notin live /\ Copy(live) # NoValue
    BY <1>0, CopyIsNew
  <2>2. /\ WithCopy(first) \in SUBSET Nat /\ IsFiniteSet(WithCopy(first))
        /\ first \subseteq WithCopy(first)
        /\ Copy(first) \in WithCopy(first) \cup {Borrowed}
        /\ Copy(first) \notin first /\ Copy(first) # NoValue
    BY <1>0, <2>1, CopyIsNew
  <2> HIDE DEF first
  <2>3. QED BY <2>1, <2>2
<1>4. \A q \in Positions : q # p => slot'[q] = slot[q]
  <2>1. PICK r \in Positions : EmptySpot(InsertHash, r) /\ slot' = [slot EXCEPT ![r] = arg]
    BY DEF MapPlace, Place
  <2>2. r = p
    BY <1>0, <1>1, <2>1, EmptySpotIsOne
  <2>3. QED BY <2>1, <2>2 DEF TypeOK
<1> HIDE DEF v, L
<1>5. HeldOnce' /\ value' \in [Positions' -> Nat \cup {Borrowed, NoValue}]
  BY <1>1, <1>2, <1>3, <1>4, WriteHeldOnce
<1>6. QED BY <1>2, <1>3, <1>5 DEF MapInv, MapTypeOK, functions

LEMMA HeldSteps ==
  ASSUME MapInv, MapSteps, TypeOK'
  PROVE  MapInv'
<1>0. TypeOK
  BY DEF MapInv, MapTypeOK
<1>1. CASE MapPlace
  BY <1>1, HeldPlace
<1>2. CASE MapGrow
  <2>1. DoubleSize(store) /\ store \in BOOLEAN /\ MapDoubleSize
    BY <1>0, <1>2 DEF MapGrow, Grow, TypeOK
  <2>2. live' = live /\ copier' \in BOOLEAN /\ finalizer' \in BOOLEAN
    BY <2>1 DEF MapDoubleSize, MapInv, MapTypeOK
  <2>3. QED BY <2>1, <2>2, DoubleSizeHeldOnce DEF MapInv, MapTypeOK
<1>3. CASE MapSpread
  <2>1. i \in Positions /\ Size - i \in Positions
    BY <1>0, <1>3, SkipAssumption DEF MapSpread, Spread, Spreads, TypeOK, Positions, Size
  <2>2. UNCHANGED <<n, live, functions>> /\ slot' = Swapped(i, Size - i)
        /\ value' = Exchanged(i, Size - i)
    BY <1>3 DEF MapSpread, Spread
  <2>3. QED BY <2>1, <2>2, SwapHeldOnce DEF MapInv, MapTypeOK, functions
<1>4. CASE MapMove
  <2>1. PICK hash \in HashesOf(i), p \in Positions : \E mark \in Marks(i, Distance(hash, p)) :
          /\ EmptySpot(hash, p)
          /\ slot' = Swapped(p, i)
          /\ occ'  = ((occ \ {i}) \cup {p}) \cup mark
    BY <1>4 DEF MapMove, Move
  <2>2. i \in occ /\ i \in Positions
    BY <1>0, <1>4 DEF MapMove, Move, TypeOK
  <2>3. occ' \ occ = {p}
    <3>1. PICK mark \in Marks(i, Distance(hash, p)) : occ' = ((occ \ {i}) \cup {p}) \cup mark
      BY <2>1
    <3>2. mark \subseteq {i} /\ p \notin occ
      BY <2>1, <3>1, MarksType DEF EmptySpot
    <3>3. QED BY <2>2, <3>1, <3>2
  <2>4. value' = Exchanged(p, i) /\ UNCHANGED <<n, live, functions>>
    BY <1>4, <2>3 DEF MapMove, Move
  <2>5. QED BY <2>1, <2>2, <2>4, SwapHeldOnce DEF MapInv, MapTypeOK, functions
<1>5. CASE MapQuiet
  <2>1. UNCHANGED <<n, slot, held, functions>>
    BY <1>5 DEF MapQuiet, GrowToInsert, GiveUp, ConvertNext, ConvertDone, SpreadNot,
                SpreadDone, Settle, RehashAgain, RehashFails, Skipped, RehashDone, table
  <2>2. QED BY <2>1, HeldQuiet DEF MapInv, MapTypeOK, held, functions
<1>6. QED BY <1>1, <1>2, <1>3, <1>4, <1>5 DEF MapSteps

LEMMA HeldStep == MapInv /\ [MapNext]_mapVars => MapInv'
<1> SUFFICES ASSUME MapInv, [MapNext]_mapVars PROVE MapInv'
  OBVIOUS
<1>1. TypeOK'
  BY TypeStep, MapNextIsNext DEF MapInv, MapTypeOK
<1>2. CASE MapCalls
  BY <1>1, <1>2, HeldCalls
<1>3. CASE MapSteps
  BY <1>1, <1>3, HeldSteps
<1>4. CASE UNCHANGED mapVars
  BY <1>1, <1>4, HeldQuiet DEF mapVars, vars, table, held, functions, MapInv, MapTypeOK
<1>5. QED BY <1>2, <1>3, <1>4 DEF MapNext

\* The types of the map: a value for every position of the table.
THEOREM MapTypeCorrect == MapSpec => []MapTypeOK
<1>1. MapInv => MapTypeOK
  BY DEF MapInv
<1>2. QED BY <1>1, HeldInit, HeldStep, PTL DEF MapSpec

\* Every copy the map made and has not finalized is in at most one entry, for
\* every table size, hash function and number of copies: free with finalization
\* cannot finalize one twice.
THEOREM CopiesAreHeldOnce == MapSpec => []HeldOnce
<1>1. MapInv => HeldOnce
  BY DEF MapInv
<1>2. QED BY <1>1, HeldInit, HeldStep, PTL DEF MapSpec
\* What free passes to the finalizer are elements, for entries of at least 8
\* bytes: the table then has no occupied entry that nobody inserted.
THEOREM FinalizerGetsElements ==
  ASSUME Skip = 1, NeighborhoodSize + 1 < OccupiedBit
  PROVE  MapSpec => []FinalizesElements
<1>1. MapSpec => []EntriesAreElements
  BY ImplementsTable, SizeCountsElements, PTL
<1>2. MapTypeOK /\ HeldOnce /\ EntriesAreElements => FinalizesElements
  BY DEF MapTypeOK, TypeOK, HeldOnce, EntriesAreElements, FinalizesElements, Values
<1>3. QED BY <1>1, <1>2, MapTypeCorrect, CopiesAreHeldOnce, PTL

-----------------------------------------------------------------------------
(* Which steps drop an element or a copy. *)

\* Every occupied entry goes on with its key and value, here or elsewhere.
Kept == \A p \in occ : \E q \in occ' : slot'[q] = slot[p] /\ value'[q] = value[p]

LEMMA KeptBySwap ==
  ASSUME MapTypeOK, NEW p \in occ, NEW q \in Positions, q \notin occ,
         slot' = Swapped(p, q) \/ slot' = Swapped(q, p),
         value' = Exchanged(p, q) \/ value' = Exchanged(q, p),
         (occ \ {p}) \cup {q} \subseteq occ'
  PROVE  Kept
<1>1. p \in Positions /\ occ \subseteq Positions
  BY DEF MapTypeOK, TypeOK
<1>2. slot'[q] = slot[p] /\ value'[q] = value[p]
  BY <1>1 DEF Swapped, Exchanged, MapTypeOK, TypeOK
<1>3. \A r \in occ : r # p => slot'[r] = slot[r] /\ value'[r] = value[r]
  BY <1>1 DEF Swapped, Exchanged, MapTypeOK, TypeOK
<1>4. QED BY <1>2, <1>3 DEF Kept

LEMMA KeptByDoubleSize ==
  ASSUME MapTypeOK, NEW st \in BOOLEAN, DoubleSize(st), MapDoubleSize
  PROVE  Kept
<1>1. occ' = occ /\ occ \subseteq Positions
  BY DEF DoubleSize, MapTypeOK, TypeOK
<1>2. Positions \subseteq Positions' /\ Positions' = Skip .. Skip + DoubledSize - 1
  <2>1. n' \in Nat /\ Positions \subseteq Positions'
    BY DoubleSizeType DEF MapTypeOK
  <2>2. QED BY <2>1, SkipAssumption DEF DoubleSize, Positions, Size
<1>3. \A p \in Positions : slot'[p] = slot[p] /\ value'[p] = value[p]
  BY <1>2 DEF DoubleSize, MapDoubleSize
<1>4. QED BY <1>1, <1>3 DEF Kept

LEMMA KeptByPlace ==
  ASSUME MapTypeOK, MapPlace
  PROVE  Kept
<1>1. PICK p \in Positions : EmptySpot(InsertHash, p) /\ occ \subseteq occ'
                             /\ slot' = [slot EXCEPT ![p] = arg]
  BY DEF MapPlace, Place
<1>2. PICK q \in Positions : /\ EmptySpot(InsertHash, q)
                             /\ \E v : value' = [value EXCEPT ![q] = v]
  BY DEF MapPlace
<1>3. p \notin occ /\ q \notin occ
  BY <1>1, <1>2 DEF EmptySpot
<1>4. \A r \in occ : slot'[r] = slot[r] /\ value'[r] = value[r]
  BY <1>1, <1>2, <1>3 DEF MapTypeOK, TypeOK
<1>5. QED BY <1>1, <1>4 DEF Kept

LEMMA KeptByRest ==
  ASSUME UNCHANGED <<slot, value>>, occ \subseteq occ'
  PROVE  Kept
BY DEF Kept

LEMMA KeptBySteps ==
  ASSUME Skip <= 2, IInv, MapTypeOK, MapSteps
  PROVE  Kept
<1>1. CASE MapPlace
  BY <1>1, KeptByPlace
<1>2. CASE MapGrow
  BY <1>2, KeptByDoubleSize DEF MapGrow, Grow, MapTypeOK, TypeOK
<1>3. CASE MapSpread
  <2>1. i \in occ /\ Size - i \in Positions /\ Size - i \notin occ
    BY <1>3, SpreadIsFree DEF MapSpread, IInv
  <2>2. /\ slot' = Swapped(i, Size - i) /\ value' = Exchanged(i, Size - i)
        /\ occ' = (occ \ {i}) \cup {Size - i}
    BY <1>3 DEF MapSpread, Spread
  <2>3. QED BY <2>1, <2>2, KeptBySwap
<1>4. CASE MapMove
  <2>1. PICK hash \in HashesOf(i), p \in Positions : \E mark \in Marks(i, Distance(hash, p)) :
          /\ EmptySpot(hash, p)
          /\ slot' = Swapped(p, i)
          /\ occ'  = ((occ \ {i}) \cup {p}) \cup mark
    BY <1>4 DEF MapMove, Move
  <2>2. i \in occ /\ p \notin occ
    BY <1>4, <2>1 DEF MapMove, Move, EmptySpot
  <2>3. PICK mark \in Marks(i, Distance(hash, p)) : occ' = ((occ \ {i}) \cup {p}) \cup mark
    BY <2>1
  <2>4. occ' \ occ = {p} /\ (occ \ {i}) \cup {p} \subseteq occ'
    BY <2>2, <2>3, MarksType
  <2>5. value' = Exchanged(p, i)
    BY <1>4, <2>4 DEF MapMove
  <2>6. QED BY <2>1, <2>2, <2>4, <2>5, KeptBySwap
<1>5. CASE MapQuiet
  <2>1. UNCHANGED <<slot, value>> /\ occ \subseteq occ'
    BY <1>5 DEF MapQuiet, held, GrowToInsert, GiveUp, ConvertNext, ConvertDone, SpreadNot,
                SpreadDone, Settle, RehashAgain, RehashFails, Skipped, RehashDone, table
  <2>2. QED BY <2>1, KeptByRest
<1>6. QED BY <1>1, <1>2, <1>3, <1>4, <1>5 DEF MapSteps

\* Among the calls only insert_or_replace and free drop anything at once.
LEMMA KeptByCalls ==
  ASSUME MapTypeOK, MapCalls
  PROVE  Kept \/ (\E key \in Keys : MapReplace(key)) \/ (\E b \in BOOLEAN : MapFree(b))
<1>1. ASSUME NEW key, NEW st,
             MapInsert(key, st) \/ MapInsertOrReplace(key) \/ MapDoubleSizeAndRehash(st)
      PROVE  Kept
  <2>1. UNCHANGED <<slot, value, occ>>
    BY <1>1 DEF MapInsert, MapInsertOrReplace, MapDoubleSizeAndRehash, Insert,
                InsertOrReplace, DoubleSizeAndRehash, table, held
  <2>2. QED BY <2>1, KeptByRest
<1>2. ASSUME NEW b, SetCopyFunction(b) \/ SetFinalizeFunction(b)
      PROVE  Kept
  <2>1. UNCHANGED <<slot, value, occ>>
    BY <1>2 DEF SetCopyFunction, SetFinalizeFunction, vars, table, held
  <2>2. QED BY <2>1, KeptByRest
<1>3. ASSUME NEW st \in BOOLEAN, MapCreateEmptyTable(st)
      PROVE  Kept
  BY <1>3, KeptByDoubleSize DEF MapCreateEmptyTable, CreateEmptyTable
<1>4. ASSUME NEW array, NEW st \in BOOLEAN, MapConvertArray(array, st)
      PROVE  Kept
  BY <1>4, KeptByDoubleSize DEF MapConvertArray, ConvertArray
<1>5. QED BY <1>1, <1>2, <1>3, <1>4 DEF MapCalls

\* The parts of the two properties that a step which keeps everything satisfies.
LEMMA KeptPairs ==
  ASSUME Kept
  PROVE  Pairs \subseteq Pairs' /\ Values \subseteq Values'
<1>1. Values \subseteq Values'
  BY DEF Kept, Values
<1>2. ASSUME NEW p \in occ, slot[p] # Junk
      PROVE  <<slot[p], value[p]>> \in Pairs'
  <2>1. PICK q \in occ' : slot'[q] = slot[p] /\ value'[q] = value[p]
    BY DEF Kept
  <2>2. q \in {r \in occ' : slot'[r] # Junk}
    BY <1>2, <2>1
  <2>3. <<slot'[q], value'[q]>> \in Pairs'
    BY <2>2 DEF Pairs
  <2>4. QED BY <2>1, <2>3
<1>3. QED BY <1>1, <1>2 DEF Pairs

LEMMA PairsStep ==
  ASSUME Skip <= 2, IInv, MapInv, [MapNext]_mapVars,
         NEW pair \in Pairs \ Pairs'
  PROVE  op' = "free" \/ (op' = "replace" /\ pair[1] = arg')
<1>0. MapTypeOK
  BY DEF MapInv
<1>1. ~Kept
  BY KeptPairs
<1>2. ~UNCHANGED mapVars
  BY <1>1, KeptByRest DEF mapVars, vars, table, held
<1>3. (\E key \in Keys : MapReplace(key)) \/ (\E b \in BOOLEAN : MapFree(b))
  BY <1>0, <1>1, <1>2, KeptBySteps, KeptByCalls DEF MapNext
<1>4. ASSUME NEW b, MapFree(b)
      PROVE  op' = "free"
  BY <1>4 DEF MapFree, Free
<1>5. ASSUME NEW key \in Keys, MapReplace(key)
      PROVE  op' = "replace" /\ pair[1] = arg'
  <2>1. PICK p \in Positions : /\ MayReturn(key, p) /\ slot' = [slot EXCEPT ![p] = key]
                               /\ value' = [value EXCEPT ![p] = Copy(live)]
    BY <1>5 DEF MapReplace
  <2>2. occ' = occ /\ op' = "replace" /\ arg' = key
    BY <1>5 DEF MapReplace, Replace, Call
  <2>3. slot[p] \in {key, Junk}
    BY <2>1 DEF MayReturn, MayFindAt
  <2>4. PICK q \in occ : slot[q] # Junk /\ pair = <<slot[q], value[q]>>
    BY DEF Pairs
  <2>5. q = p
    <3>1. SUFFICES ASSUME q # p PROVE pair \in Pairs'
      OBVIOUS
    <3>2. value'[q] = value[q] /\ slot'[q] = slot[q]
      BY <1>0, <2>1, <3>1 DEF MapTypeOK, TypeOK
    <3>3. q \in {r \in occ' : slot'[r] # Junk} /\ pair = <<slot'[q], value'[q]>>
      BY <2>2, <2>4, <3>2
    <3>4. QED BY <3>3 DEF Pairs
  <2>6. QED BY <2>2, <2>3, <2>4, <2>5
<1>6. QED BY <1>3, <1>4, <1>5
\* What the table's invariants add to the map's.
LEMMA MapElementsStay ==
  ASSUME Skip <= 2
  PROVE  MapSpec => [](IInv /\ MapInv)
<1>1. Spec => []TypeOK
  BY TypeCorrect
<1>2. Spec => []ElementsArePut
  BY ElementsStay
<1>3. TypeOK /\ ElementsArePut => IInv
  BY DEF IInv
<1>4. MapSpec => []MapInv
  BY HeldInit, HeldStep, PTL DEF MapSpec
<1>5. QED BY <1>1, <1>2, <1>3, <1>4, ImplementsTable, PTL

\* Every value stays with its key, through any number of insertions, growths
\* and rehashes, until insert_or_replace overwrites it or free takes it.
THEOREM ValuesStayWithKeys ==
  ASSUME Skip <= 2
  PROVE  MapSpec => PairsStay
<1>1. IInv /\ MapInv /\ [MapNext]_mapVars =>
        [\A pair \in Pairs \ Pairs' :
           op' = "free" \/ (op' = "replace" /\ pair[1] = arg')]_mapVars
  BY PairsStep
<1>2. QED BY <1>1, MapElementsStay, PTL DEF MapSpec, PairsStay

-----------------------------------------------------------------------------
(* Who loses a copy. *)

LEMMA LeakStep ==
  ASSUME Skip <= 2, IInv, MapInv, [MapNext]_mapVars,
         Leaked' \ Leaked # {}
  PROVE  \/ op' = "replace" /\ Cardinality(Leaked' \ Leaked) = 1
         \/ op' = "free" /\ live' = live
<1> DEFINE lost == Leaked' \ Leaked
<1>0. MapTypeOK /\ TypeOK
  BY DEF MapInv, MapTypeOK
<1>1. SUFFICES ASSUME ~(op' = "free" /\ live' = live)
               PROVE  op' = "replace" /\ \E x : lost = {x}
  BY FS_Singleton
<1>2. live' # live \/ ~Kept
  BY KeptPairs DEF Leaked
<1>3. CASE MapPlace
  <2>1. PICK p \in Positions :
          /\ EmptySpot(InsertHash, p)
          /\ value' = [value EXCEPT ![p] = IF op = "replace" THEN Copy(WithCopy(live))
                                                            ELSE Copy(live)]
    BY <1>3 DEF MapPlace
  <2>2. p \in occ'
    <3>1. PICK r \in Positions : EmptySpot(InsertHash, r) /\ r \in occ'
      BY <1>3 DEF MapPlace, Place
    <3>2. QED BY <2>1, <3>1, EmptySpotIsOne
  <2>3. value'[p] \in Values'
    BY <2>2 DEF Values
  <2>4. value'[p] = IF op = "replace" THEN Copy(WithCopy(live)) ELSE Copy(live)
    BY <1>0, <2>1 DEF MapTypeOK
  <2>5. Values \subseteq Values'
    BY <1>0, <1>3, KeptByPlace, KeptPairs
  <2>6. op' = op
    BY <1>3 DEF MapPlace, Place, call
  <2>7. CASE op = "replace"
    <3>1. live' = WithCopy(WithCopy(live))
      BY <1>3, <2>7 DEF MapPlace
    <3>2. CASE ~copier
      BY <2>5, <3>1, <3>2 DEF WithCopy, Leaked
    <3>3. CASE copier
      <4>1. live' = live \cup {NewResource(live)} \cup {NewResource(WithCopy(live))}
        BY <3>1, <3>3 DEF WithCopy
      <4>2. NewResource(WithCopy(live)) \in Values'
        BY <2>3, <2>4, <2>7, <3>3 DEF Copy
      <4>3. lost \subseteq {NewResource(live)}
        BY <2>5, <4>1, <4>2 DEF Leaked
      <4>4. QED BY <2>6, <2>7, <4>3
    <3>4. QED BY <3>2, <3>3
  <2>8. CASE op # "replace"
    <3>1. live' = WithCopy(live)
      BY <1>3, <2>8 DEF MapPlace
    <3>2. CASE ~copier
      BY <2>5, <3>1, <3>2 DEF WithCopy, Leaked
    <3>3. CASE copier
      BY <2>3, <2>4, <2>5, <2>8, <3>1, <3>3 DEF WithCopy, Copy, Leaked
    <3>4. QED BY <3>2, <3>3
  <2>9. QED BY <2>7, <2>8
<1>4. ASSUME NEW key \in Keys, MapReplace(key)
      PROVE  op' = "replace" /\ \E x : lost = {x}
  <2>1. PICK p \in Positions : MayReturn(key, p) /\ value' = [value EXCEPT ![p] = Copy(live)]
    BY <1>4 DEF MapReplace
  <2>2. p \in occ /\ occ' = occ /\ op' = "replace" /\ live' = WithCopy(live)
    BY <1>4, <2>1 DEF MapReplace, Replace, Call, table, MayReturn, MayFindAt
  <2>3. value'[p] = Copy(live) /\ \A q \in occ : q # p => value'[q] = value[q]
    BY <1>0, <2>1 DEF MapTypeOK, TypeOK
  <2>4. Copy(live) \in Values' /\ Values \subseteq Values' \cup {value[p]}
    BY <2>2, <2>3 DEF Values
  <2>5. lost \subseteq {value[p]}
    <3>1. CASE ~copier
      BY <2>2, <2>4, <3>1 DEF WithCopy, Leaked
    <3>2. CASE copier
      BY <2>2, <2>4, <3>2 DEF WithCopy, Copy, Leaked
    <3>3. QED BY <3>1, <3>2
  <2>6. QED BY <2>2, <2>5
<1>5. ASSUME NEW b, MapFree(b)
      PROVE  FALSE
  <2>1. op' = "free" /\ live' = IF b /\ finalizer THEN live \ Values ELSE live
    BY <1>5 DEF MapFree, Free
  <2>2. live' = Leaked
    BY <1>1, <2>1 DEF Leaked
  <2>3. QED BY <2>2 DEF Leaked
<1>6. ~MapPlace => live' = live \/ (\E key \in Keys : MapReplace(key)) \/ (\E b \in BOOLEAN : MapFree(b))
  BY DEF MapNext, MapCalls, MapSteps, MapInsert, MapInsertOrReplace, MapDoubleSizeAndRehash,
         MapConvertArray, MapCreateEmptyTable, SetCopyFunction, SetFinalizeFunction, MapGrow,
         MapSpread, MapMove, MapQuiet, MapDoubleSize, held, mapVars
<1>7. UNCHANGED mapVars => Kept
  BY KeptByRest DEF mapVars, vars, table, held
<1>8. QED
  BY <1>0, <1>2, <1>3, <1>4, <1>5, <1>6, <1>7, KeptBySteps, KeptByCalls DEF MapNext

\* No copy is lost to the map but one for each insert_or_replace, and those of
\* a free that does not finalize.
THEOREM OnlyReplaceLeaks ==
  ASSUME Skip <= 2
  PROVE  MapSpec => CopiesAreLost
<1>1. IInv /\ MapInv /\ [MapNext]_mapVars =>
        [LET lost == Leaked' \ Leaked
         IN  lost # {} => \/ op' = "replace" /\ Cardinality(lost) = 1
                          \/ op' = "free" /\ live' = live]_mapVars
  BY LeakStep
<1>2. QED BY <1>1, MapElementsStay, PTL DEF MapSpec, CopiesAreLost

-----------------------------------------------------------------------------
(* What find returns after insert_or_replace. *)

\* While insert_or_replace inserts, the map has grown since the call began, or
\* is as it was, and find does not see the key in it.
ReplaceInserts ==
  op = "replace" /\ pc \notin {"idle", "crashed"} =>
    /\ pc \in {"probe", "grow", "spread", "place"}
    /\ n \in Nat /\ start \in Nat /\ 0 < start /\ start <= n
    /\ start = n => pc \in {"probe", "grow"} /\ ~Finds(arg)

LEMMA ReplaceInsertsStep == TypeOK /\ ReplaceInserts /\ [Next]_vars => ReplaceInserts'
<1> SUFFICES ASSUME TypeOK, ReplaceInserts, [Next]_vars,
                    op' = "replace", pc' \notin {"idle", "crashed"}
             PROVE  /\ pc' \in {"probe", "grow", "spread", "place"}
                    /\ n' \in Nat /\ start' \in Nat /\ 0 < start' /\ start' <= n'
                    /\ start' = n' => pc' \in {"probe", "grow"} /\ ~Finds(arg)'
  BY DEF ReplaceInserts
<1>1. ASSUME UNCHANGED <<table, arg>>
      PROVE  Finds(arg)' = Finds(arg)
  BY <1>1 DEF table, Finds, FindsAt, HashOf, Probe, Modulo, Positions, Size
<1>2. CASE Calls
  <2>1. PICK key \in Keys : InsertOrReplace(key)
    BY <1>2 DEF Calls, Call, Insert, Replace, DoubleSizeAndRehash, ConvertArray,
                CreateEmptyTable, Free
  <2>2. UNCHANGED table /\ ~Finds(key) /\ arg' = key /\ start' = n /\ n > 0 /\ pc' = "probe"
    BY <2>1 DEF InsertOrReplace, Call
  <2>3. Finds(key)' = Finds(key)
    BY <2>2 DEF table, Finds, FindsAt, HashOf, Probe, Modulo, Positions, Size
  <2>4. Finds(arg)' = Finds(key)'
    BY <2>2 DEF Finds, FindsAt, HashOf, Probe, Modulo, Positions, Size
  <2>5. QED BY <2>2, <2>3, <2>4 DEF TypeOK, table
<1>3. CASE Grow
  <2>1. 0 < n /\ n \in Nat /\ start <= n /\ start \in Nat /\ 0 < start
    BY <1>3 DEF ReplaceInserts, Grow, call
  <2>2. n' = DoubledSize /\ start' = start /\ pc' = "spread"
    BY <1>3 DEF Grow, DoubleSize
  <2>3. n' \in Nat /\ n < n'
    BY <2>1, <2>2, NeighborhoodAssumption DEF DoubledSize
  <2>4. QED BY <2>1, <2>2, <2>3
<1>4. CASE Steps /\ ~Grow
  <2>1. op = "replace" /\ pc \notin {"idle", "crashed"} /\ UNCHANGED <<n, start>>
    BY <1>4 DEF Steps, Place, GrowToInsert, GiveUp, ConvertNext, ConvertDone, Spread, SpreadNot,
                SpreadDone, Settle, Move, RehashAgain, RehashFails, Skipped, RehashDone,
                Return, table, call
  <2>2. CASE GrowToInsert
    <3>1. Finds(arg)' = Finds(arg) /\ pc = "probe" /\ pc' = "grow"
      BY <1>1, <2>2 DEF GrowToInsert, call
    <3>2. QED BY <2>1, <3>1 DEF ReplaceInserts
  <2>3. CASE ~GrowToInsert
    <3>1. pc \notin {"probe", "convert"} /\ pc' \in {"probe", "grow", "spread", "place"} /\ pc # "grow"
      BY <1>4, <2>1, <2>3
         DEF Steps, Place, GiveUp, ConvertNext, ConvertDone, Spread, SpreadNot,
             SpreadDone, Settle, Move, RehashAgain, RehashFails, Skipped, RehashDone, Return,
             ReplaceInserts
    <3>2. QED BY <2>1, <3>1 DEF ReplaceInserts
  <2>4. QED BY <2>2, <2>3
<1>5. CASE UNCHANGED vars
  <2>1. Finds(arg)' = Finds(arg)
    BY <1>1, <1>5 DEF vars, call
  <2>2. QED BY <1>5, <2>1 DEF vars, table, call, ReplaceInserts
<1>6. QED BY <1>2, <1>3, <1>4, <1>5 DEF Next

LEMMA ReplaceInsertsAlways == Spec => []ReplaceInserts
<1>1. Init => ReplaceInserts
  BY DEF Init, ReplaceInserts
<1>2. Spec => []TypeOK
  BY TypeCorrect
<1>3. QED BY <1>1, <1>2, ReplaceInsertsStep, PTL DEF Spec

\* Once every entry holds an element, and no hashes are stored, find returns at
\* most one position for a key.
LEMMA ReturnIsOne ==
  ASSUME EntriesAreElements, ~hasHashes, NEW key, NEW p, NEW q,
         MayReturn(key, p), MayReturn(key, q)
  PROVE  p = q
<1>1. ASSUME NEW r, MayFindAt(key, r)
      PROVE  FindsAt(key, r)
  BY <1>1 DEF MayFindAt, FindsAt, EntriesAreElements
<1>2. PICK j \in 0 .. NeighborhoodSize :
        p = Probe(HashOf(key), j) /\ FindsAt(key, p)
        /\ \A l \in 0 .. j - 1 : ~FindsAt(key, Probe(HashOf(key), l))
  BY <1>1 DEF MayReturn
<1>3. PICK k \in 0 .. NeighborhoodSize :
        q = Probe(HashOf(key), k) /\ FindsAt(key, q)
        /\ \A l \in 0 .. k - 1 : ~FindsAt(key, Probe(HashOf(key), l))
  BY <1>1 DEF MayReturn
<1> USE NeighborhoodAssumption
<1>4. ~(j < k) /\ ~(k < j)
  BY <1>2, <1>3
<1>5. QED BY <1>2, <1>3, <1>4

\* What a copy function makes is no value of the map yet.
LEMMA CopyIsUnseen ==
  ASSUME MapInv, copier, NEW L \in SUBSET Nat, IsFiniteSet(L), live \subseteq L
  PROVE  Copy(L) \notin Values
<1>1. NewResource(L) \in Nat /\ NewResource(L) \notin L /\ Copy(L) = NewResource(L)
  BY NewResourceIsNew DEF Copy
<1>2. Values \subseteq live \cup {Borrowed, NoValue}
  BY DEF Values, MapInv, MapTypeOK, TypeOK, HeldOnce
<1>3. QED BY <1>1, <1>2, ValuesAssumption

LEMMA ReplaceIsSeenStep ==
  ASSUME Skip = 1, NeighborhoodSize + 1 < OccupiedBit,
         ElementsInv, MapInv, ReplaceInserts, [MapNext]_mapVars, ~UNCHANGED mapVars,
         NEW key \in Keys, n' = start' \/ Copies(key) = {}
  PROVE  Seen(key)
<1> SUFFICES ASSUME op' = "replace", pc' = "idle", key = arg', copier, UNCHANGED functions,
                    ~hasHashes, NEW r \in Positions', MayReturn(key, r)'
             PROVE  value'[r] \notin Values
  BY DEF Seen, Answers
<1>0. /\ MapTypeOK /\ TypeOK /\ live \in SUBSET Nat /\ IsFiniteSet(live) /\ copier \in BOOLEAN
      /\ IInv /\ EntriesAreElements /\ EntriesAreElements'
  <2>1. ElementsInv'
    BY ElementsStep, MapNextIsNext
  <2>2. QED BY <2>1 DEF MapInv, MapTypeOK, ElementsInv, IInv
<1>1. ASSUME MapReplace(key)
      PROVE  value'[r] \notin Values
  <2>1. PICK p \in Positions : /\ MayReturn(key, p) /\ slot' = [slot EXCEPT ![p] = key]
                               /\ value' = [value EXCEPT ![p] = Copy(live)]
    BY <1>1 DEF MapReplace
  <2>2. UNCHANGED table
    <3>1. slot[p] = key
      BY <1>0, <2>1 DEF MayReturn, MayFindAt, EntriesAreElements
    <3>2. slot' = slot
      BY <1>0, <2>1, <3>1 DEF TypeOK
    <3> QED BY <1>1, <3>2 DEF MapReplace, Replace, table
  <2>3. MayReturn(key, r)
    BY <2>2 DEF MayReturn, MayFindAt, FindsAt, HashOf, Probe, Modulo, table
  <2>4. r = p
    BY <1>0, <2>1, <2>3, ReturnIsOne
  <2>5. value'[r] = Copy(live)
    BY <1>0, <2>1, <2>4 DEF MapTypeOK
  <2>6. QED BY <1>0, <2>5, CopyIsUnseen
<1>2. CASE MapPlace
  <2>1. PICK p \in Positions : \E mark \in Marks(InsertHash, Distance(InsertHash, p)) :
          /\ EmptySpot(InsertHash, p)
          /\ slot' = [slot EXCEPT ![p] = arg]
          /\ occ'  = occ \cup {p} \cup mark
    BY <1>2 DEF MapPlace, Place
  <2>2. op = "replace" /\ pc = "probe" /\ arg = key /\ UNCHANGED <<n, start, hasHashes>>
    BY <1>2 DEF MapPlace, Place, call
  <2>3. r \in occ' /\ slot'[r] = key
    BY <1>0 DEF MayReturn, MayFindAt, EntriesAreElements
  <2>4. r = p
    <3>1. SUFFICES ASSUME r # p PROVE FALSE
      OBVIOUS
    <3>2. r \in Positions /\ slot[r] = key
      BY <1>0, <2>1, <2>2, <2>3, <3>1 DEF TypeOK, Positions, Size
    <3>3. r \in occ
      BY <1>0, <3>2, KeysAssumption DEF IInv, ElementsArePut
    <3>4. n = start
      BY <2>2, <3>2, <3>3 DEF Copies
    <3>5. n > 0 /\ ~Finds(key)
      BY <2>2, <3>4 DEF ReplaceInserts
    <3>6. r \in {Probe(HashOf(key), j) : j \in 0 .. NeighborhoodSize}
      BY <2>2 DEF MayReturn, MayFindAt, HashOf, Probe, Modulo
    <3>7. FindsAt(key, r)
      BY <3>2, <3>3, <3>6 DEF FindsAt
    <3>8. QED BY <3>2, <3>5, <3>7 DEF Finds
  <2>5. PICK q \in Positions : /\ EmptySpot(InsertHash, q)
                               /\ value' = [value EXCEPT ![q] = Copy(WithCopy(live))]
    BY <1>2, <2>2 DEF MapPlace
  <2>6. value'[r] = Copy(WithCopy(live))
    BY <1>0, <2>1, <2>4, <2>5, EmptySpotIsOne DEF MapTypeOK
  <2>7. WithCopy(live) \in SUBSET Nat /\ IsFiniteSet(WithCopy(live)) /\ live \subseteq WithCopy(live)
    BY <1>0, CopyIsNew
  <2>8. QED BY <2>6, <2>7, CopyIsUnseen
<1>3. MapPlace \/ MapReplace(key)
  <2>1. ASSUME MapCalls
        PROVE  MapReplace(key)
    BY <2>1 DEF MapCalls, MapInsert, MapReplace, MapInsertOrReplace, MapDoubleSizeAndRehash,
                MapCreateEmptyTable, MapConvertArray, SetCopyFunction, SetFinalizeFunction,
                MapFree, Insert, Replace, InsertOrReplace, DoubleSizeAndRehash,
                CreateEmptyTable, ConvertArray, Free, Call, functions, mapVars
  <2>2. ASSUME MapSteps, ~MapPlace
        PROVE  FALSE
    BY <1>0, <2>2 DEF MapSteps, MapGrow, MapSpread, MapMove, MapQuiet, Grow, GrowToInsert, GiveUp,
                ConvertNext, ConvertDone, Spread, SpreadNot, SpreadDone, Settle, Move,
                RehashAgain, RehashFails, Skipped, RehashDone, Return, call, TypeOK
  <2>3. QED BY <2>1, <2>2 DEF MapNext
<1>4. QED BY <1>1, <1>2, <1>3

\* What find returns for a key after insert_or_replace is the new value, however
\* many elements of that key the map holds, unless the call grew a map that had
\* an element of it already.
THEOREM ReplaceIsFound ==
  ASSUME Skip = 1, NeighborhoodSize + 1 < OccupiedBit
  PROVE  MapSpec => ReplaceIsSeen
<1>1. MapSpec => []ElementsInv
  BY ImplementsTable, ElementsAlways, PTL
<1>2. MapSpec => []ReplaceInserts
  BY ImplementsTable, ReplaceInsertsAlways, PTL
<1>3. MapSpec => [](IInv /\ MapInv)
  BY MapElementsStay
<1>4. ElementsInv /\ MapInv /\ ReplaceInserts /\ [MapNext]_mapVars =>
        [\A key \in Keys : n' = start' \/ Copies(key) = {} => Seen(key)]_mapVars
  BY ReplaceIsSeenStep
<1>5. QED BY <1>1, <1>2, <1>3, <1>4, PTL DEF MapSpec, ReplaceIsSeen

\* No call of the map runs for ever: no step of one leaves the table, its
\* algorithm's state, as it is, and each makes what is left of the call less.
THEOREM EveryMapCallEnds == MapSpec => []IsMeasured /\ [][Running => IsLess]_mapVars
<1>1. MapSpec => [](TypeOK /\ RetriesInv)
  <2>1. MapInit => TypeOK /\ RetriesInv
    BY TypeInit, RetriesInit DEF MapInit
  <2>2. TypeOK /\ RetriesInv /\ [MapNext]_mapVars => (TypeOK /\ RetriesInv)'
    BY TypeStep, RetriesStep, MapNextIsNext
  <2> QED BY <2>1, <2>2, PTL DEF MapSpec
<1>2. MapSpec => []IsMeasured
  BY ImplementsTable, EveryCallEnds, PTL
<1>3. TypeOK /\ RetriesInv /\ [MapNext]_mapVars => [Running => IsLess]_mapVars
  <2>1. MapCalls => ~Running
    <3>1. MapCalls => Calls \/ pc = "idle"
      BY DEF MapCalls, MapInsert, MapReplace, MapInsertOrReplace, MapDoubleSizeAndRehash,
             MapCreateEmptyTable, MapConvertArray, MapFree, Calls, SetCopyFunction,
             SetFinalizeFunction
    <3> QED BY <3>1, CallsStartIdle DEF Running
  <2>2. TypeOK /\ RetriesInv /\ MapSteps => IsLess
    BY MapStepIsStep, StepIsLess
  <2> QED BY <2>1, <2>2 DEF MapNext
<1> QED BY <1>1, <1>2, <1>3, PTL DEF MapSpec
=============================================================================
