-------------------------- MODULE HashTable_proofs --------------------------
(***************************************************************************)
(* What HashTableMC's runs check on small tables, for every number of      *)
(* keys, hash function, neighbourhood, retry limit and table size.         *)
(*                                                                         *)
(* Four parts: the types; a table of entries of at least 4 bytes (Skip <=  *)
(* 2) implements a multiset; where the elements are and what find sees of  *)
(* them; how far an insertion makes the table grow.                        *)
(***************************************************************************)
EXTENDS HashTable, FiniteSetTheorems, Induction, TLAPS

-----------------------------------------------------------------------------
(* The table's arithmetic stays inside the table. *)

LEMMA ModuloType ==
  ASSUME NEW m \in Int, n \in Nat, n > 0
  PROVE  Modulo(m) \in Positions
BY SkipAssumption DEF Modulo, Positions, Size

\* Hashing a key of a table that is not null gives one of its positions.
LEMMA HashOfType ==
  ASSUME NEW key \in Keys, n \in Nat, n > 0
  PROVE  HashOf(key) \in Positions
BY KeysAssumption, ModuloType DEF HashOf

LEMMA HashesOfType ==
  ASSUME TypeOK, n > 0, NEW p \in Positions
  PROVE  HashesOf(p) \subseteq Positions
BY HashOfType DEF HashesOf, TypeOK

\* The mark a step leaves is on the entry it shifts the bit into, or nowhere.
LEMMA MarksType ==
  ASSUME NEW p, NEW d, NEW mark \in Marks(p, d)
  PROVE  mark \subseteq {p}
BY DEF Marks

LEMMA InsertHashType ==
  ASSUME TypeOK, pc = "probe"
  PROVE  InsertHash \in Nat /\ (n > 0 => InsertHash \in Positions)
<1>1. CASE n = 0
  BY <1>1 DEF InsertHash, TypeOK
<1>2. CASE n # 0
  <2>1. n > 0 /\ arg \in Keys
    BY <1>2 DEF TypeOK, Inserting
  <2>2. QED
    BY <1>2, <2>1, HashOfType, SkipAssumption DEF InsertHash, TypeOK, Positions, Size
<1>3. QED BY <1>1, <1>2

-----------------------------------------------------------------------------
(* Growing keeps the old entries where they are. *)

LEMMA DoubleSizeType ==
  ASSUME TypeOK, NEW st \in BOOLEAN, DoubleSize(st)
  PROVE  /\ n' \in Nat /\ n' > 0 /\ n' >= 2 * n
         /\ Positions \subseteq Positions'
         /\ slot' \in [Positions' -> Keys \cup {Junk}]
         /\ occ' \subseteq Positions'
         /\ hasHashes' \in BOOLEAN
         /\ hashes' \in [Positions' -> Nat \cup {Junk}]
<1> USE SkipAssumption, NeighborhoodAssumption
<1>1. n' \in Nat /\ n' > 0 /\ n' >= 2 * n
  BY DEF DoubleSize, DoubledSize, TypeOK
<1>2. Positions' = Skip .. Skip + DoubledSize - 1 /\ Positions \subseteq Positions'
  BY <1>1 DEF DoubleSize, Positions, Size, TypeOK
<1>3. slot' \in [Positions' -> Keys \cup {Junk}]
  BY <1>2 DEF DoubleSize, TypeOK
<1>4. hashes' \in [Positions' -> Nat \cup {Junk}]
  BY <1>2 DEF DoubleSize, TypeOK
<1>5. hasHashes' \in BOOLEAN /\ occ' \subseteq Positions'
  BY <1>2 DEF DoubleSize, TypeOK
<1>6. QED BY <1>1, <1>2, <1>3, <1>4, <1>5

-----------------------------------------------------------------------------
(* Type correctness. *)

LEMMA NoEntriesType ==
  ASSUME NEW S
  PROVE  NoEntries \in [{} -> S]
BY DEF NoEntries

LEMMA TypeInit == Init => TypeOK
<1> SUFFICES ASSUME Init PROVE TypeOK
  OBVIOUS
<1>1. Positions = {}
  BY SkipAssumption DEF Init, Positions, Size
<1>2. slot \in [Positions -> Keys \cup {Junk}] /\ hashes \in [Positions -> Nat \cup {Junk}]
  BY <1>1, NoEntriesType DEF Init
<1>3. todo \in Seq(Keys)
  BY DEF Init
<1>4. QED
  BY <1>2, <1>3 DEF Init, TypeOK, Pcs, Ops, Inserting

\* Steps that do not touch the table.
LEMMA TypeControl ==
  ASSUME TypeOK,
         \/ GrowToInsert \/ GiveUp \/ ConvertNext \/ ConvertDone
         \/ SpreadNot \/ SpreadDone \/ RehashAgain \/ RehashFails
         \/ Skipped \/ RehashDone
  PROVE  TypeOK'
<1> USE SkipAssumption
<1>0. Positions' = Positions
  BY DEF GrowToInsert, GiveUp, ConvertNext, ConvertDone, SpreadNot, SpreadDone,
         RehashAgain, RehashFails, Skipped, RehashDone, table, Positions, Size
<1>1. CASE GrowToInsert
  BY <1>0, <1>1 DEF GrowToInsert, TypeOK, table, call, Pcs, Ops, Inserting, Size
<1>2. CASE GiveUp
  BY <1>0, <1>2 DEF GiveUp, Return, TypeOK, table, call, Pcs, Ops, Inserting, Size
<1>3. CASE ConvertNext
  BY <1>0, <1>3 DEF ConvertNext, TypeOK, table, Pcs, Ops, Inserting, Size
<1>4. CASE ConvertDone
  BY <1>0, <1>4 DEF ConvertDone, TypeOK, table, call, Pcs, Ops, Inserting, Size
<1>5. CASE SpreadNot
  BY <1>0, <1>5 DEF SpreadNot, TypeOK, table, call, Pcs, Ops, Inserting, Size
<1>6. CASE SpreadDone
  BY <1>0, <1>6 DEF SpreadDone, TypeOK, table, call, Pcs, Ops, Inserting, Size
<1>7. CASE RehashAgain
  BY <1>0, <1>7 DEF RehashAgain, TypeOK, table, call, Pcs, Ops, Inserting, Size
<1>8. CASE RehashFails
  BY <1>0, <1>8 DEF RehashFails, Return, TypeOK, table, call, Pcs, Ops, Inserting, Size
<1>9. CASE Skipped
  BY <1>0, <1>9 DEF Skipped, TypeOK, table, call, Pcs, Ops, Inserting, Size
<1>10. CASE RehashDone
  BY <1>0, <1>10 DEF RehashDone, TypeOK, table, call, Pcs, Ops, Inserting, Size
<1>11. QED
  BY <1>1, <1>2, <1>3, <1>4, <1>5, <1>6, <1>7, <1>8, <1>9, <1>10

\* What replace writes: the key, in an occupied entry that holds it or junk.
LEMMA ReplaceWrites ==
  ASSUME NEW key \in Keys, Replace(key)
  PROVE  /\ \E p \in Positions : /\ p \in occ /\ slot[p] \in {key, Junk}
                                 /\ slot' = [slot EXCEPT ![p] = key]
         /\ UNCHANGED <<n, occ, hasHashes, hashes, pc, todo>>
         /\ pc = "idle" /\ op' = "replace" /\ arg' = key
BY DEF Replace, Call, MayReturn, MayFindAt

\* The calls.
LEMMA TypeCalls ==
  ASSUME TypeOK, Calls
  PROVE  TypeOK'
<1> USE SkipAssumption
<1>1. ASSUME NEW key \in Keys, NEW st \in BOOLEAN, Insert(key, st)
      PROVE  TypeOK'
  BY <1>1 DEF Insert, Call, TypeOK, table, Positions, Size, Pcs, Ops, Inserting
<1>2. ASSUME NEW key \in Keys, Replace(key)
      PROVE  TypeOK'
  BY <1>2 DEF Replace, Call, TypeOK, table, Positions, Size, Pcs, Ops, Inserting
<1>3. ASSUME NEW key \in Keys, InsertOrReplace(key)
      PROVE  TypeOK'
  BY <1>3 DEF InsertOrReplace, Call, TypeOK, table, Positions, Size, Pcs, Ops, Inserting
<1>4. ASSUME NEW st \in BOOLEAN, DoubleSizeAndRehash(st)
      PROVE  TypeOK'
  BY <1>4 DEF DoubleSizeAndRehash, Call, TypeOK, table, Positions, Size, Pcs, Ops, Inserting
<1>5. ASSUME NEW st \in BOOLEAN, CreateEmptyTable(st)
      PROVE  TypeOK'
  <2>1. DoubleSize(st)
    BY <1>5 DEF CreateEmptyTable
  <2>2. QED
    BY <1>5, <2>1, DoubleSizeType DEF CreateEmptyTable, Call, TypeOK, Pcs, Ops, Inserting
<1>6. ASSUME NEW array \in Arrays, NEW st \in BOOLEAN, ConvertArray(array, st)
      PROVE  TypeOK'
  <2>1. DoubleSize(st)
    BY <1>6 DEF ConvertArray
  <2>2. array \in Seq(Keys)
    BY BoundsAssumption DEF Arrays
  <2>3. QED
    BY <1>6, <2>1, <2>2, DoubleSizeType DEF ConvertArray, Call, TypeOK, Pcs, Ops, Inserting
<1>7. CASE Free
  <2>1. Positions' = {} /\ n' = 0
    BY <1>7 DEF Free, Positions, Size
  <2>2. /\ slot' \in [Positions' -> Keys \cup {Junk}]
        /\ hashes' \in [Positions' -> Nat \cup {Junk}]
    BY <1>7, <2>1, NoEntriesType DEF Free
  <2>3. /\ occ' \subseteq Positions' /\ n' \in Nat /\ start' \in Nat
        /\ hasHashes' \in BOOLEAN
    BY <1>7 DEF Free, TypeOK
  <2>4. pc' = "idle" /\ op' = "free" /\ todo' = todo /\ todo = <<>>
    BY <1>7 DEF Free, TypeOK
  <2>5. ~Inserting'
    BY <2>4 DEF Inserting
  <2>6. QED
    BY <1>7, <2>2, <2>3, <2>4, <2>5 DEF Free, TypeOK, Pcs, Ops
<1>8. QED
  BY <1>1, <1>2, <1>3, <1>4, <1>5, <1>6, <1>7 DEF Calls

\* The steps that write the table.
LEMMA TypeTable ==
  ASSUME TypeOK, Place \/ Grow \/ Spread \/ Settle \/ Move
  PROVE  TypeOK'
<1> USE SkipAssumption
<1>1. CASE Place
  <2>1. PICK p \in Positions : \E mark \in Marks(InsertHash, Distance(InsertHash, p)) :
          /\ EmptySpot(InsertHash, p)
          /\ slot' = [slot EXCEPT ![p] = arg]
          /\ occ'  = occ \cup {p} \cup mark
          /\ hashes' = IF hasHashes THEN [hashes EXCEPT ![p] = InsertHash] ELSE hashes
    BY <1>1 DEF Place
  <2>2. n > 0
    BY <2>1 DEF EmptySpot
  <2>3. pc = "probe" /\ InsertHash \in Positions /\ InsertHash \in Nat
    BY <1>1, <2>2, InsertHashType DEF Place
  <2>4. Positions' = Positions
    BY <1>1 DEF Place, Positions, Size
  <2>5. occ' \subseteq Positions
    <3>1. PICK mark \in Marks(InsertHash, Distance(InsertHash, p)) : occ' = occ \cup {p} \cup mark
      BY <2>1
    <3>2. mark \subseteq {InsertHash}
      BY <3>1, MarksType
    <3>3. QED BY <2>3, <3>1, <3>2 DEF TypeOK
  <2>6. arg \in Keys
    BY <2>3 DEF TypeOK, Inserting
  <2>7. slot' \in [Positions -> Keys \cup {Junk}] /\ hashes' \in [Positions -> Nat \cup {Junk}]
    BY <2>1, <2>3, <2>6 DEF TypeOK
  <2>8. QED
    BY <1>1, <2>3, <2>4, <2>5, <2>7 DEF Place, Return, TypeOK, call, Pcs, Ops, Inserting
<1>2. CASE Grow
  <2>1. DoubleSize(store) /\ store \in BOOLEAN
    BY <1>2 DEF Grow, TypeOK
  <2>2. Skip \in Skip .. Size' /\ Skip \in Nat
    BY <2>1, DoubleSizeType DEF Size
  <2>3. QED
    BY <1>2, <2>1, <2>2, DoubleSizeType DEF Grow, TypeOK, call, Pcs, Ops, Inserting
<1>3. CASE Spread
  <2>1. Positions' = Positions /\ Size' = Size
    BY <1>3 DEF Spread, Positions, Size
  <2>2. n > 0 /\ i \in occ /\ i \in Positions /\ i < Size \div 2
    BY <1>3 DEF Spread, Spreads, TypeOK
  <2>3. Size - i \in Positions
    BY <2>2 DEF Positions, Size, TypeOK
  <2>4. slot' \in [Positions -> Keys \cup {Junk}]
    BY <1>3, <2>2, <2>3 DEF Spread, Swapped, TypeOK
  <2>5. occ' \subseteq Positions
    BY <1>3, <2>3 DEF Spread, TypeOK
  <2>6. i' \in Skip .. Size /\ i' \in Nat
    BY <1>3, <2>2 DEF Spread, Size, TypeOK
  <2>7. QED
    BY <1>3, <2>1, <2>4, <2>5, <2>6 DEF Spread, TypeOK, call, Pcs, Ops, Inserting
<1>4. CASE Settle
  <2>1. PICK hash \in HashesOf(i) : \E mark \in Marks(hash, Distance(hash, i)) :
          /\ occ' = occ \cup mark
          /\ hashes' = IF hasHashes THEN [hashes EXCEPT ![i] = hash] ELSE hashes
    BY <1>4 DEF Settle
  <2>2. n > 0 /\ i \in Positions
    BY <1>4 DEF Settle, TypeOK
  <2>3. hash \in Positions /\ hash \in Nat
    BY <2>1, <2>2, HashesOfType DEF Positions, Size, TypeOK
  <2>4. Positions' = Positions /\ Size' = Size
    BY <1>4 DEF Settle, Positions, Size
  <2>5. occ' \subseteq Positions
    <3>1. PICK mark \in Marks(hash, Distance(hash, i)) : occ' = occ \cup mark
      BY <2>1
    <3>2. mark \subseteq {hash}
      BY <3>1, MarksType
    <3>3. QED BY <2>3, <3>1, <3>2 DEF TypeOK
  <2>6. hashes' \in [Positions -> Nat \cup {Junk}]
    BY <2>1, <2>2, <2>3 DEF TypeOK
  <2>7. i' \in Skip .. Size /\ i' \in Nat
    BY <1>4 DEF Settle, Size, TypeOK
  <2>8. QED
    BY <1>4, <2>4, <2>5, <2>6, <2>7 DEF Settle, TypeOK, call, Pcs, Ops, Inserting
<1>5. CASE Move
  <2>1. PICK hash \in HashesOf(i), p \in Positions : \E mark \in Marks(i, Distance(hash, p)) :
          /\ slot' = Swapped(p, i)
          /\ occ'  = ((occ \ {i}) \cup {p}) \cup mark
    BY <1>5 DEF Move
  <2>2. n > 0 /\ i \in Positions
    BY <1>5 DEF Move, TypeOK
  <2>3. Positions' = Positions /\ Size' = Size
    BY <1>5 DEF Move, Positions, Size
  <2>4. occ' \subseteq Positions
    <3>1. PICK mark \in Marks(i, Distance(hash, p)) : occ' = ((occ \ {i}) \cup {p}) \cup mark
      BY <2>1
    <3>2. mark \subseteq {i}
      BY <3>1, MarksType
    <3>3. QED BY <2>2, <3>1, <3>2 DEF TypeOK
  <2>5. slot' \in [Positions -> Keys \cup {Junk}]
    BY <2>1, <2>2 DEF Swapped, TypeOK
  <2>6. i' \in Skip .. Size /\ i' \in Nat
    BY <1>5 DEF Move, Size, TypeOK
  <2>7. QED
    BY <1>5, <2>3, <2>4, <2>5, <2>6 DEF Move, TypeOK, call, Pcs, Ops, Inserting
<1>6. QED
  BY <1>1, <1>2, <1>3, <1>4, <1>5

LEMMA TypeStep == TypeOK /\ [Next]_vars => TypeOK'
<1> SUFFICES ASSUME TypeOK, [Next]_vars PROVE TypeOK'
  OBVIOUS
<1>1. CASE Next
  BY <1>1, TypeControl, TypeCalls, TypeTable DEF Next, Steps
<1>2. CASE UNCHANGED vars
  BY <1>2 DEF vars, table, call, TypeOK, Positions, Size, Inserting
<1>3. QED BY <1>1, <1>2

\* Entries, flags, stored hashes and the rehash index stay inside the block
\* (table.h: every access of the hop infos and hashes is in range).
THEOREM TypeCorrect == Spec => []TypeOK
<1>1. QED BY TypeInit, TypeStep, PTL DEF Spec

-----------------------------------------------------------------------------
(* The table is a multiset: no call loses or doubles an element, whatever the
   hash function, the collisions and the number of times the table grows. *)

IInv == TypeOK /\ ElementsArePut

-----------------------------------------------------------------------------
(* Counting the copies of a key. *)

LEMMA CopiesFinite ==
  ASSUME TypeOK, NEW key
  PROVE  IsFiniteSet(Copies(key)) /\ Cardinality(Copies(key)) \in Nat
<1>1. IsFiniteSet(Positions)
  BY SkipAssumption, FS_Interval DEF TypeOK, Positions, Size
<1>2. Copies(key) \in SUBSET Positions
  BY DEF Copies, TypeOK
<1>3. QED
  BY <1>1, <1>2, FS_Subset, FS_CardinalityType

\* Swapping an element with a vacant entry, wherever a stray mark falls.
LEMMA SwapKeepsBag ==
  ASSUME TypeOK, ElementsArePut,
         NEW p \in occ, NEW q \in Positions, q \notin occ,
         NEW mark \in SUBSET {p},
         \/ slot' = Swapped(p, q)
         \/ slot' = Swapped(q, p),
         occ' = ((occ \ {p}) \cup {q}) \cup mark
  PROVE  Bag' = Bag
<1>1. /\ p \in Positions /\ p # q /\ slot[q] = Junk
      /\ slot' = [slot EXCEPT ![p] = Junk, ![q] = slot[p]]
  BY DEF TypeOK, ElementsArePut, Swapped
<1> SUFFICES ASSUME NEW key \in Keys
             PROVE  Cardinality(Copies(key)') = Cardinality(Copies(key))
  BY DEF Bag
<1>2. key # Junk
  BY KeysAssumption
<1>3. CASE slot[p] = key
  <2>1. Copies(key)' = (Copies(key) \ {p}) \cup {q}
    BY <1>1, <1>2, <1>3 DEF Copies, TypeOK
  <2>2. p \in Copies(key) /\ q \notin Copies(key) \ {p}
    BY <1>3 DEF Copies
  <2>3. /\ IsFiniteSet(Copies(key) \ {p})
        /\ Cardinality(Copies(key) \ {p}) = Cardinality(Copies(key)) - 1
    BY <2>2, CopiesFinite, FS_RemoveElement
  <2>4. Cardinality(Copies(key)') = Cardinality(Copies(key) \ {p}) + 1
    BY <2>1, <2>2, <2>3, FS_AddElement
  <2>5. QED BY <2>3, <2>4, CopiesFinite
<1>4. CASE slot[p] # key
  <2>1. Copies(key)' = Copies(key)
    BY <1>1, <1>2, <1>4 DEF Copies, TypeOK
  <2>2. QED BY <2>1
<1>5. QED BY <1>3, <1>4

\* Growing, or a stray mark, changes no element.
LEMMA SlotsKeepBag ==
  ASSUME TypeOK, ElementsArePut, NEW mark \in SUBSET Positions,
         occ' = occ \cup mark,
         \A p \in Positions : slot'[p] = slot[p]
  PROVE  Bag' = Bag
<1> SUFFICES ASSUME NEW key \in Keys PROVE Copies(key)' = Copies(key)
  BY DEF Bag
<1>1. key # Junk
  BY KeysAssumption
<1>2. \A p \in occ' : p \in Positions /\ (p \notin occ => slot[p] = Junk)
  BY DEF TypeOK, ElementsArePut
<1>3. \A p : p \in Copies(key)' <=> p \in Copies(key)
  BY <1>1, <1>2 DEF Copies, TypeOK
<1>4. QED
  BY <1>3 DEF Copies

LEMMA DoubleSizeKeepsBag ==
  ASSUME TypeOK, ElementsArePut, NEW st \in BOOLEAN, DoubleSize(st)
  PROVE  Bag' = Bag
<1>1. \A p \in Positions : slot'[p] = slot[p]
  <2>1. Positions \subseteq Positions'
    BY DoubleSizeType
  <2>2. Positions' = Skip .. Skip + DoubledSize - 1
    BY SkipAssumption, DoubleSizeType DEF DoubleSize, Positions, Size, TypeOK
  <2>3. QED BY <2>1, <2>2 DEF DoubleSize
<1>2. occ' = occ \cup {}
  BY DEF DoubleSize
<1>3. {} \in SUBSET Positions
  OBVIOUS
<1>4. QED
  BY <1>1, <1>2, <1>3, SlotsKeepBag

-----------------------------------------------------------------------------
(* The elements stay where rehash may look for them. *)

LEMMA PutInit == Init => ElementsArePut
<1> SUFFICES ASSUME Init PROVE ElementsArePut
  OBVIOUS
<1>1. Positions = {} /\ pc # "spread"
  BY SkipAssumption DEF Init, Positions, Size
<1>2. QED BY <1>1 DEF ElementsArePut

LEMMA DoubleSizePut ==
  ASSUME TypeOK, ElementsArePut, NEW st \in BOOLEAN, DoubleSize(st)
  PROVE  /\ \A p \in Positions' : p \notin occ' => slot'[p] = Junk
         /\ \A p \in occ' : 2 * p < 2 * Skip + n'
<1>1. n' \in Nat /\ n' >= 2 * n /\ n' > 0
  BY DoubleSizeType
<1>2. Positions' = Skip .. Skip + DoubledSize - 1
  BY <1>1, SkipAssumption DEF DoubleSize, Positions, Size, TypeOK
<1>3. ASSUME NEW p \in Positions', p \notin occ'
      PROVE  slot'[p] = Junk
  BY <1>2, <1>3 DEF DoubleSize, ElementsArePut
<1>4. ASSUME NEW p \in occ'
      PROVE  2 * p < 2 * Skip + n'
  <2>1. p \in Positions
    BY <1>4 DEF DoubleSize, TypeOK
  <2>2. n \in Nat /\ p \in Nat /\ p <= n + Skip - 1
    BY <2>1, SkipAssumption DEF Positions, Size, TypeOK
  <2>3. PICK m \in Nat : n' = m /\ m >= 2 * n
    BY <1>1
  <2>4. 2 * p < 2 * Skip + m
    BY <2>2, <2>3, SkipAssumption
  <2>5. QED
    BY <2>3, <2>4
<1>5. QED BY <1>3, <1>4

\* A spread never meets an occupied entry: the second half starts beyond the
\* mirror of the first when Skip <= 2.
LEMMA SpreadIsFree ==
  ASSUME Skip <= 2, TypeOK, ElementsArePut, Spread
  PROVE  i \in occ /\ Size - i \in Positions /\ Size - i \notin occ /\ i # Size - i
<1> USE SkipAssumption
<1>1. i \in occ /\ i \in Positions /\ i < Size \div 2 /\ pc = "spread" /\ n \in Nat
  BY DEF Spread, Spreads, TypeOK
<1>2. Size - i \in Positions /\ Size - i > i
  BY <1>1 DEF Positions, Size
<1>3. 2 * i <= n + Skip - 2
  BY <1>1 DEF Positions, Size
<1>4. ASSUME Size - i \in occ PROVE FALSE
  <2>1. 2 * (Size - i) < 2 * Skip + n \/ Size - i > Size - i
    BY <1>1, <1>2, <1>4 DEF ElementsArePut, Positions, Size
  <2>2. QED
    BY <1>1, <1>3, <2>1 DEF Positions, Size
<1>5. QED BY <1>1, <1>2, <1>4 DEF Positions, Size

\* The steps that leave the elements where they are.
LEMMA PutControl ==
  ASSUME TypeOK, ElementsArePut,
         \/ GrowToInsert \/ GiveUp \/ ConvertNext \/ ConvertDone
         \/ SpreadNot \/ SpreadDone \/ RehashAgain \/ RehashFails
         \/ Skipped \/ RehashDone
  PROVE  ElementsArePut' /\ Bag' = Bag
<1>1. UNCHANGED table
  BY DEF GrowToInsert, GiveUp, ConvertNext, ConvertDone, SpreadNot, SpreadDone,
         RehashAgain, RehashFails, Skipped, RehashDone
<1>2. Positions' = Positions /\ Size' = Size
  BY <1>1 DEF table, Positions, Size
<1>3. Bag' = Bag
  BY <1>1 DEF table, Bag, Copies
<1>4. pc' # "spread" \/ SpreadNot
  BY DEF GrowToInsert, GiveUp, ConvertNext, ConvertDone, SpreadDone, Return,
         RehashAgain, RehashFails, Skipped, RehashDone
<1>5. CASE pc' # "spread"
  BY <1>1, <1>2, <1>3, <1>5 DEF ElementsArePut, table
<1>6. CASE SpreadNot
  <2>1. pc = "spread" /\ i' = i + 1 /\ i \in Nat /\ occ \subseteq Nat
    BY <1>6, SkipAssumption DEF SpreadNot, TypeOK, Positions, Size
  <2>2. Size \in Nat
    BY SkipAssumption DEF Size, TypeOK
  <2>3. ASSUME NEW p \in occ, p >= i + 1
        PROVE  2 * p < 2 * Skip + n \/ p > Size - (i + 1)
    <3>1. p \in Nat /\ p >= i
      BY <2>1, <2>3
    <3>2. 2 * p < 2 * Skip + n \/ p > Size - i
      BY <2>1, <3>1 DEF ElementsArePut
    <3>3. QED BY <2>1, <2>2, <3>1, <3>2
  <2>4. QED
    BY <1>1, <1>2, <1>3, <2>1, <2>3 DEF ElementsArePut, table
<1>7. QED BY <1>4, <1>5, <1>6

LEMMA PutSpread ==
  ASSUME Skip <= 2, TypeOK, ElementsArePut, Spread
  PROVE  ElementsArePut' /\ Bag' = Bag
<1>1. i \in occ /\ Size - i \in Positions /\ Size - i \notin occ /\ i # Size - i
  BY SpreadIsFree
<1>2. /\ slot' = Swapped(i, Size - i) /\ occ' = ((occ \ {i}) \cup {Size - i}) \cup {}
      /\ n' = n /\ i' = i + 1 /\ pc' = pc /\ pc = "spread"
  BY DEF Spread
<1>3. Bag' = Bag
  <2>1. {} \in SUBSET {i}
    OBVIOUS
  <2>2. QED BY <1>1, <1>2, <2>1, SwapKeepsBag
<1>4. Positions' = Positions /\ Size' = Size /\ i \in Nat /\ i \in Positions
  BY <1>1, <1>2 DEF Positions, Size, TypeOK
<1>5. slot[Size - i] = Junk
  BY <1>1 DEF ElementsArePut
<1>6. \A p \in Positions : p \notin occ' => slot'[p] = Junk
  BY <1>1, <1>2, <1>4, <1>5 DEF ElementsArePut, Swapped, TypeOK
<1>7. ASSUME NEW p \in occ', p >= i + 1
      PROVE  2 * p < 2 * Skip + n \/ p > Size - (i + 1)
  <2>1. CASE p = Size - i
    BY <1>4, <2>1, SkipAssumption DEF Size, TypeOK
  <2>2. CASE p # Size - i
    <3>1. p \in occ /\ p \in Nat
      BY <1>2, <1>7, <2>2, SkipAssumption DEF TypeOK, Positions, Size
    <3>2. 2 * p < 2 * Skip + n \/ p > Size - i
      BY <1>2, <1>4, <1>7, <3>1 DEF ElementsArePut
    <3>3. Size \in Nat
      BY SkipAssumption DEF Size, TypeOK
    <3>4. Size - i > Size - (i + 1)
      BY <1>4, <3>3
    <3>5. QED
      BY <1>4, <3>1, <3>2, <3>3, <3>4
  <2>3. QED BY <2>1, <2>2
<1>8. ElementsArePut'
  BY <1>2, <1>4, <1>6, <1>7 DEF ElementsArePut
<1>9. QED BY <1>3, <1>8

LEMMA PutSettle ==
  ASSUME TypeOK, ElementsArePut, Settle
  PROVE  ElementsArePut' /\ Bag' = Bag
<1>1. PICK hash \in HashesOf(i) : \E mark \in Marks(hash, Distance(hash, i)) :
        occ' = occ \cup mark
  BY DEF Settle
<1>2. PICK mark \in Marks(hash, Distance(hash, i)) : occ' = occ \cup mark
  BY <1>1
<1>3. pc = "place" /\ pc' = "place" /\ slot' = slot /\ n' = n /\ Positions' = Positions
  BY DEF Settle, Positions, Size
<1>4. n > 0 /\ i \in Positions
  BY DEF Settle, TypeOK
<1>5. mark \in SUBSET Positions
  BY <1>1, <1>2, <1>4, MarksType, HashesOfType
<1>6. Bag' = Bag
  BY <1>2, <1>3, <1>5, SlotsKeepBag
<1>7. ElementsArePut'
  BY <1>2, <1>3 DEF ElementsArePut
<1>8. QED BY <1>6, <1>7

LEMMA PutMove ==
  ASSUME TypeOK, ElementsArePut, Move
  PROVE  ElementsArePut' /\ Bag' = Bag
<1>1. PICK hash \in HashesOf(i), p \in Positions : \E mark \in Marks(i, Distance(hash, p)) :
        /\ EmptySpot(hash, p)
        /\ slot' = Swapped(p, i)
        /\ occ'  = ((occ \ {i}) \cup {p}) \cup mark
  BY DEF Move
<1>2. PICK mark \in Marks(i, Distance(hash, p)) :
        /\ slot' = Swapped(p, i)
        /\ occ'  = ((occ \ {i}) \cup {p}) \cup mark
  BY <1>1
<1>3. p \notin occ /\ i \in occ
  BY <1>1 DEF Move, EmptySpot
<1>4. pc' = "place" /\ n' = n /\ Positions' = Positions /\ i \in Positions
  BY <1>3 DEF Move, Positions, Size, TypeOK
<1>5. mark \in SUBSET {i}
  BY <1>2, MarksType
<1>6. Bag' = Bag
  BY <1>2, <1>3, <1>5, SwapKeepsBag
<1>7. slot[p] = Junk
  BY <1>3 DEF ElementsArePut
<1>8. \A q \in Positions : q \notin occ' => slot'[q] = Junk
  BY <1>2, <1>3, <1>4, <1>5, <1>7 DEF ElementsArePut, Swapped, TypeOK
<1>9. QED BY <1>4, <1>6, <1>8 DEF ElementsArePut

\* insert's write: one more copy of its key, and of nothing else.
LEMMA PutPlace ==
  ASSUME TypeOK, ElementsArePut, Place
  PROVE  /\ ElementsArePut'
         /\ arg \in Keys
         /\ Bag' = [Bag EXCEPT ![arg] = @ + 1]
<1>1. PICK p \in Positions : \E mark \in Marks(InsertHash, Distance(InsertHash, p)) :
        /\ EmptySpot(InsertHash, p)
        /\ slot' = [slot EXCEPT ![p] = arg]
        /\ occ'  = occ \cup {p} \cup mark
  BY DEF Place
<1>2. PICK mark \in Marks(InsertHash, Distance(InsertHash, p)) :
        /\ slot' = [slot EXCEPT ![p] = arg]
        /\ occ'  = occ \cup {p} \cup mark
  BY <1>1
<1>3. n > 0 /\ p \notin occ /\ pc = "probe" /\ pc' # "spread" /\ arg \in Keys
  BY <1>1 DEF Place, Return, EmptySpot, TypeOK, Inserting
<1>4. Positions' = Positions
  BY DEF Place, Positions, Size
<1>5. mark \subseteq Positions
  BY <1>2, <1>3, MarksType, InsertHashType
<1>6. ElementsArePut'
  BY <1>2, <1>3, <1>4 DEF ElementsArePut, TypeOK
<1>7. ASSUME NEW key \in Keys
      PROVE  Cardinality(Copies(key)') =
               IF key = arg THEN Cardinality(Copies(key)) + 1 ELSE Cardinality(Copies(key))
  <2>1. key # Junk
    BY KeysAssumption
  <2>2. \A q \in occ' : q # p => slot'[q] = slot[q] /\ (q \notin occ => slot[q] = Junk)
    BY <1>2, <1>5 DEF ElementsArePut, TypeOK
  <2>3. p \in occ' /\ slot'[p] = arg
    BY <1>2 DEF TypeOK
  <2>4. \A q \in occ : q \in occ' /\ q # p
    BY <1>2, <1>3
  <2>5. CASE key = arg
    <3>1. Copies(key)' = Copies(key) \cup {p} /\ p \notin Copies(key)
      BY <1>3, <2>1, <2>2, <2>3, <2>4, <2>5 DEF Copies
    <3>2. QED BY <2>5, <3>1, CopiesFinite, FS_AddElement
  <2>6. CASE key # arg
    <3>1. Copies(key)' = Copies(key)
      BY <1>3, <2>1, <2>2, <2>3, <2>4, <2>6 DEF Copies
    <3>2. QED BY <2>6, <3>1
  <2>7. QED BY <2>5, <2>6
<1>8. Bag' = [Bag EXCEPT ![arg] = @ + 1]
  BY <1>3, <1>7 DEF Bag
<1>9. QED BY <1>3, <1>6, <1>8

\* replace's write: over an equal key nothing changes, over junk there is one
\* more copy of its key.
LEMMA PutReplace ==
  ASSUME TypeOK, ElementsArePut, NEW key \in Keys, Replace(key)
  PROVE  /\ ElementsArePut'
         /\ Bag' = Bag \/ Bag' = [Bag EXCEPT ![key] = @ + 1]
<1>1. PICK p \in Positions : /\ p \in occ /\ slot[p] \in {key, Junk}
                             /\ slot' = [slot EXCEPT ![p] = key]
  BY ReplaceWrites
<1>2. /\ occ' = occ /\ Positions' = Positions /\ pc' = "idle" /\ key # Junk
  BY ReplaceWrites, KeysAssumption DEF Positions, Size
<1>3. ElementsArePut'
  BY <1>1, <1>2 DEF ElementsArePut, TypeOK
<1>4. CASE slot[p] = key
  <2>1. slot' = slot
    BY <1>1, <1>4 DEF TypeOK
  <2> QED BY <1>2, <1>3, <2>1 DEF Bag, Copies
<1>5. CASE slot[p] = Junk
  <2>1. \A q \in occ : q # p => slot'[q] = slot[q]
    BY <1>1 DEF TypeOK
  <2>2. slot'[p] = key
    BY <1>1 DEF TypeOK
  <2>3. ASSUME NEW k \in Keys
        PROVE  Cardinality(Copies(k)') =
                 IF k = key THEN Cardinality(Copies(k)) + 1 ELSE Cardinality(Copies(k))
    <3>1. k # Junk
      BY KeysAssumption
    <3>2. CASE k = key
      <4>1. Copies(k)' = Copies(k) \cup {p} /\ p \notin Copies(k)
        BY <1>1, <1>2, <1>5, <2>1, <2>2, <3>1, <3>2 DEF Copies
      <4> QED BY <3>2, <4>1, CopiesFinite, FS_AddElement
    <3>3. CASE k # key
      <4>1. Copies(k)' = Copies(k)
        BY <1>1, <1>2, <1>5, <2>1, <2>2, <3>1, <3>3 DEF Copies
      <4> QED BY <3>3, <4>1
    <3> QED BY <3>2, <3>3
  <2>4. Bag' = [Bag EXCEPT ![key] = @ + 1]
    BY <2>3 DEF Bag
  <2> QED BY <1>3, <2>4
<1> QED BY <1>1, <1>3, <1>4, <1>5

\* The other calls leave the elements where they are; free drops them all.
LEMMA PutCalls ==
  ASSUME TypeOK, ElementsArePut, Calls, ~(\E key \in Keys : Replace(key))
  PROVE  ElementsArePut' /\ (Bag' = Bag \/ (Free /\ Bag' = Contents!Empty))
<1>1. CASE \/ \E key \in Keys, st \in BOOLEAN : Insert(key, st)
           \/ \E key \in Keys : InsertOrReplace(key)
           \/ \E st \in BOOLEAN : DoubleSizeAndRehash(st)
  <2>1. UNCHANGED table /\ pc' # "spread"
    BY <1>1 DEF Insert, InsertOrReplace, DoubleSizeAndRehash, Call
  <2>2. QED BY <2>1 DEF table, ElementsArePut, Bag, Copies, Positions, Size
<1>2. CASE \/ \E st \in BOOLEAN : CreateEmptyTable(st)
           \/ \E array \in Arrays, st \in BOOLEAN : ConvertArray(array, st)
  <2>1. PICK st \in BOOLEAN : DoubleSize(st)
    BY <1>2 DEF CreateEmptyTable, ConvertArray
  <2>2. pc' # "spread"
    BY <1>2 DEF CreateEmptyTable, ConvertArray, Call
  <2>3. QED BY <2>1, <2>2, DoubleSizePut, DoubleSizeKeepsBag DEF ElementsArePut
<1>3. CASE Free
  <2>1. Positions' = {} /\ pc' # "spread" /\ occ' = {}
    BY <1>3, SkipAssumption DEF Free, Positions, Size
  <2>2. \A key : Copies(key)' = {}
    BY <2>1 DEF Copies
  <2>3. Bag' = Contents!Empty
    BY <2>2, FS_EmptySet DEF Bag, Contents!Empty
  <2>4. QED BY <1>3, <2>1, <2>3 DEF ElementsArePut
<1>4. QED BY <1>1, <1>2, <1>3 DEF Calls

LEMMA PutGrow ==
  ASSUME TypeOK, ElementsArePut, Grow
  PROVE  ElementsArePut' /\ Bag' = Bag
<1>1. DoubleSize(store) /\ store \in BOOLEAN
  BY DEF Grow, TypeOK
<1>2. QED BY <1>1, DoubleSizePut, DoubleSizeKeepsBag DEF ElementsArePut

LEMMA PutStep ==
  ASSUME Skip <= 2, IInv, [Next]_vars
  PROVE  IInv'
<1> USE DEF IInv
<1>1. TypeOK'
  BY TypeStep
<1>2. CASE Calls
  BY <1>1, <1>2, PutCalls, PutReplace
<1>3. CASE Steps
  BY <1>1, <1>3, PutControl, PutPlace, PutGrow, PutSpread, PutSettle, PutMove DEF Steps
<1>4. CASE UNCHANGED vars
  BY <1>1, <1>4 DEF vars, table, ElementsArePut, Positions, Size
<1>5. QED BY <1>2, <1>3, <1>4 DEF Next

\* An entry whose occupied flag is clear holds no element, so what insert writes
\* over, and what rehash swaps an element with, is never another element: for
\* types of at least 4 bytes.  (That a set flag is an element's is
\* SizeCountsElements, which needs 8.)
THEOREM ElementsStay ==
  ASSUME Skip <= 2
  PROVE  Spec => []ElementsArePut
<1>1. Init => IInv
  BY TypeInit, PutInit DEF IInv
<1>2. IInv /\ [Next]_vars => IInv'
  BY PutStep
<1>3. IInv => ElementsArePut
  BY DEF IInv
<1>4. QED BY <1>1, <1>2, <1>3, PTL DEF Spec

-----------------------------------------------------------------------------
(* What a running call still owes. *)

\* Answering an insertion takes the first owed key off.
LEMMA OwedAnswer ==
  ASSUME TypeOK, Inserting, UNCHANGED <<call, todo>>, Return(TRUE) \/ Return(FALSE)
  PROVE  Owed # <<>> /\ Head(Owed) = arg /\ Owed' = Tail(Owed)
<1>1. arg \in Keys /\ todo \in Seq(Keys) /\ op \in {"insert", "replace", "convert"}
  BY DEF TypeOK, Inserting
<1>2. Owed = <<arg>> \o todo
  BY <1>1 DEF Owed, Inserting
<1>3. Owed # <<>> /\ Head(Owed) = arg /\ Tail(Owed) = todo
  BY <1>1, <1>2
<1>4. CASE op = "convert"
  BY <1>3, <1>4 DEF Owed, Return
<1>5. CASE op # "convert"
  <2>1. todo = <<>>
    BY <1>5 DEF TypeOK
  <2>2. QED BY <1>3, <1>5, <2>1 DEF Owed, Return, call
<1>6. QED BY <1>4, <1>5

\* The other steps of a call owe what they owed.
LEMMA OwedSteps ==
  ASSUME TypeOK,
         \/ GrowToInsert \/ ConvertNext \/ ConvertDone \/ Grow \/ Spread \/ SpreadNot
         \/ SpreadDone \/ Settle \/ Move \/ RehashAgain \/ Skipped \/ RehashDone
         \/ (RehashFails /\ op = "rehash")
  PROVE  Owed' = Owed
<1>1. CASE ConvertNext
  <2>1. todo \in Seq(Keys) /\ todo # <<>> /\ op = "convert"
    BY <1>1 DEF ConvertNext, TypeOK
  <2>2. todo = <<Head(todo)>> \o Tail(todo)
    BY <2>1
  <2>3. QED BY <1>1, <2>1, <2>2 DEF ConvertNext, Owed
<1>2. CASE ConvertDone
  BY <1>2 DEF ConvertDone, Owed, call
<1>3. CASE GrowToInsert
  BY <1>3 DEF GrowToInsert, Owed, call, TypeOK, Inserting
<1>4. CASE RehashDone
  BY <1>4 DEF RehashDone, Owed, call, TypeOK, Inserting
<1>5. CASE RehashFails /\ op = "rehash"
  BY <1>5 DEF RehashFails, Owed, call
<1>6. CASE \/ Grow \/ Spread \/ SpreadNot \/ SpreadDone
           \/ Settle \/ Move \/ RehashAgain \/ Skipped
  <2>1. UNCHANGED <<call, todo>> /\ pc \in {"grow", "spread", "place"}
                                 /\ pc' \in {"grow", "spread", "place"}
    BY <1>6 DEF Grow, Spread, SpreadNot, SpreadDone, Settle, Move, RehashAgain, Skipped
  <2>2. QED BY <2>1 DEF Owed, call
<1>7. QED BY <1>1, <1>2, <1>3, <1>4, <1>5, <1>6

\* A call asks for the keys it is given.
LEMMA OwedCalls ==
  ASSUME TypeOK, Calls
  PROVE  Owed = <<>> /\ Owed' \in Seq(Keys) /\ (Free => Owed' = <<>>)
<1>1. pc = "idle" /\ Owed = <<>> /\ todo = <<>>
  BY DEF Calls, Insert, Replace, InsertOrReplace, DoubleSizeAndRehash,
         CreateEmptyTable, ConvertArray, Free, Call, Owed, TypeOK
<1>2. CASE \/ \E key \in Keys, st \in BOOLEAN : Insert(key, st)
           \/ \E key \in Keys : InsertOrReplace(key)
  <2>1. arg' \in Keys /\ todo' = <<>> /\ pc' = "probe" /\ op' # "rehash"
    BY <1>1, <1>2 DEF Insert, InsertOrReplace, Call
  <2>2. Owed' = <<arg'>> \o <<>> /\ ~Free
    BY <1>2, <2>1 DEF Owed, Free
  <2>3. QED BY <1>1, <2>1, <2>2
<1>3. CASE \E array \in Arrays, st \in BOOLEAN : ConvertArray(array, st)
  <2>1. PICK array \in Arrays : todo' = array /\ pc' = "convert"
    BY <1>3 DEF ConvertArray
  <2>2. array \in Seq(Keys)
    BY BoundsAssumption DEF Arrays
  <2>3. QED BY <1>1, <2>1, <2>2 DEF Owed, Free
<1>4. CASE \/ \E key \in Keys : Replace(key)
           \/ \E st \in BOOLEAN : DoubleSizeAndRehash(st) \/ CreateEmptyTable(st)
           \/ Free
  <2>1. Owed' = <<>>
    BY <1>1, <1>4 DEF Replace, DoubleSizeAndRehash, CreateEmptyTable, Free, Call, Owed
  <2>2. QED BY <1>1, <2>1
<1>5. QED BY <1>2, <1>3, <1>4 DEF Calls

LEMMA OwedReplace ==
  ASSUME NEW key \in Keys, Replace(key)
  PROVE  Owed = <<>> /\ Owed' = <<>>
BY ReplaceWrites DEF Owed

-----------------------------------------------------------------------------
(* The refinement. *)

LEMMA ContentsInit == Init => Contents!Init
<1> SUFFICES ASSUME Init PROVE Contents!Init
  OBVIOUS
<1>1. \A key : Copies(key) = {}
  BY DEF Init, Copies
<1>2. Bag = Contents!Empty
  BY <1>1, FS_EmptySet DEF Bag, Contents!Empty
<1>3. Owed = <<>>
  BY DEF Init, Owed
<1>4. QED BY <1>2, <1>3 DEF Contents!Init

LEMMA ContentsStep ==
  ASSUME Skip <= 2, IInv, [Next]_vars
  PROVE  Contents!Next \/ UNCHANGED <<Bag, Owed>>
<1> USE DEF IInv
<1>1. CASE Calls
  <2>1. CASE ~(\E key \in Keys : Replace(key))
    BY <1>1, <2>1, PutCalls, OwedCalls DEF Contents!Next, Contents!Ask, Contents!Clear
  <2>2. CASE \E key \in Keys : Replace(key)
    <3>1. PICK key \in Keys : Replace(key)
      BY <2>2
    <3>2. Owed = <<>> /\ Owed' = <<>>
      BY <3>1, OwedReplace
    <3>3. Bag' = Bag \/ Bag' = [Bag EXCEPT ![key] = @ + 1]
      BY <3>1, PutReplace
    <3>4. op' = "replace" /\ pc' = "idle" /\ arg' = key
      BY <3>1, ReplaceWrites
    <3>5. Contents!Put \/ UNCHANGED <<Bag, Owed>>
      BY <3>2, <3>3, <3>4 DEF Contents!Put
    <3> QED BY <3>5 DEF Contents!Next
  <2> QED BY <2>1, <2>2
<1>2. CASE Place
  <2>1. Inserting /\ UNCHANGED <<call, todo>> /\ Return(TRUE)
    BY <1>2 DEF Place, Inserting
  <2>2. Owed # <<>> /\ Head(Owed) = arg /\ Owed' = Tail(Owed)
    BY <2>1, OwedAnswer
  <2>3. Contents!Add
    BY <1>2, <2>2, PutPlace DEF Contents!Add
  <2>4. QED BY <2>3 DEF Contents!Next
<1>3. CASE GiveUp \/ (RehashFails /\ op # "rehash")
  <2>1. Inserting /\ UNCHANGED <<call, todo>> /\ Return(FALSE)
    BY <1>3 DEF GiveUp, RehashFails, Inserting
  <2>2. Bag' = Bag
    BY <1>3, PutControl
  <2>3. Contents!Refuse
    BY <2>1, <2>2, OwedAnswer DEF Contents!Refuse
  <2>4. QED BY <2>3 DEF Contents!Next
<1>4. CASE \/ GrowToInsert \/ ConvertNext \/ ConvertDone \/ Grow \/ Spread \/ SpreadNot
           \/ SpreadDone \/ Settle \/ Move \/ RehashAgain \/ Skipped \/ RehashDone
           \/ (RehashFails /\ op = "rehash")
  BY <1>4, OwedSteps, PutControl, PutGrow, PutSpread, PutSettle, PutMove
<1>5. CASE UNCHANGED vars
  BY <1>5 DEF vars, table, call, Bag, Copies, Owed
<1>6. QED BY <1>1, <1>2, <1>3, <1>4, <1>5 DEF Next, Steps

\* The hash table implements a multiset: every insertion that returns an
\* element adds exactly one copy of its key, one that returns null adds none,
\* insert_or_replace adds one at once only where it writes over stray junk, and
\* rehashing, however often it doubles the table, neither loses nor doubles an
\* element (fp_hash_insert, fp_hash_double_size_and_rehash).
THEOREM ImplementsMultiset ==
  ASSUME Skip <= 2
  PROVE  Spec => IsMultiset
<1>1. Init => IInv
  BY TypeInit, PutInit DEF IInv
<1>2. IInv /\ [Next]_vars => IInv'
  BY PutStep
<1>3. IInv /\ [Next]_vars => [Contents!Next]_<<Bag, Owed>>
  BY ContentsStep
<1>4. QED
  BY <1>1, <1>2, <1>3, ContentsInit, PTL DEF Spec, IsMultiset, Contents!Spec

-----------------------------------------------------------------------------
(* An insertion is found, and hides nothing. *)

\* The entry insert wrote is one of find's probes and carries the hash find
\* compares with.
LEMMA PlaceIsFound ==
  ASSUME TypeOK, Place
  PROVE  arg \in Found'
<1>1. PICK p \in Positions : \E mark \in Marks(InsertHash, Distance(InsertHash, p)) :
        /\ EmptySpot(InsertHash, p)
        /\ slot' = [slot EXCEPT ![p] = arg]
        /\ occ'  = occ \cup {p} \cup mark
        /\ hashes' = IF hasHashes THEN [hashes EXCEPT ![p] = InsertHash] ELSE hashes
  BY DEF Place
<1>2. n > 0 /\ arg \in Keys /\ n' = n /\ arg' = arg /\ hasHashes' = hasHashes
  BY <1>1 DEF Place, call, EmptySpot, TypeOK, Inserting
<1>3. InsertHash = HashOf(arg) /\ HashOf(arg)' = HashOf(arg) /\ Positions' = Positions
  BY <1>2 DEF InsertHash, HashOf, Modulo, Positions, Size
<1>4. PICK j \in 0 .. NeighborhoodSize - 1 : p = Probe(HashOf(arg), j)
  BY <1>1, <1>3 DEF EmptySpot
<1>5. p \in {Probe(HashOf(arg), l) : l \in 0 .. NeighborhoodSize}
  BY <1>4, NeighborhoodAssumption
<1>6. p \in {Probe(HashOf(arg), l) : l \in 0 .. NeighborhoodSize}'
  BY <1>2, <1>3, <1>5 DEF Probe, Modulo
<1>7. p \in occ' /\ slot'[p] = arg /\ (hasHashes => hashes'[p] = HashOf(arg))
  BY <1>1, <1>3 DEF TypeOK
<1>8. FindsAt(arg, p)'
  BY <1>2, <1>3, <1>6, <1>7 DEF FindsAt
<1>9. QED BY <1>1, <1>2, <1>3, <1>8 DEF Found, Finds

\* It writes an entry that was not occupied, so no other key's.
LEMMA PlaceHidesNothing ==
  ASSUME TypeOK, Place, NEW key \in Found
  PROVE  key \in Found'
<1>1. PICK p \in Positions :
        /\ p \notin occ
        /\ slot' = [slot EXCEPT ![p] = arg]
        /\ occ \subseteq occ'
        /\ hashes' = IF hasHashes THEN [hashes EXCEPT ![p] = InsertHash] ELSE hashes
  BY DEF Place, EmptySpot
<1>2. PICK q \in Positions : FindsAt(key, q)
  BY DEF Found, Finds
<1>3. q \in occ /\ q # p
  BY <1>1, <1>2 DEF FindsAt
<1>4. n' = n /\ hasHashes' = hasHashes /\ Positions' = Positions
  BY DEF Place, Positions, Size
<1>5. slot'[q] = slot[q] /\ hashes'[q] = hashes[q] /\ q \in occ'
  BY <1>1, <1>2, <1>3 DEF TypeOK
<1>6. FindsAt(key, q)'
  BY <1>2, <1>4, <1>5 DEF FindsAt, HashOf, Probe, Modulo
<1>7. QED BY <1>2, <1>4, <1>6 DEF Found, Finds

\* In any table, rehashed or not, what insert returns is found at once and what
\* find saw before it still sees (fp_hash_insert, fp_hash_find).
THEOREM InsertedIsFound == Spec => InsertIsFound
<1>1. ASSUME TypeOK, [Next]_vars, pc = "probe", occ' # occ
      PROVE  Found \cup {arg} \subseteq Found'
  <2>1. Place
    BY <1>1 DEF Next, Calls, Insert, Replace, InsertOrReplace, DoubleSizeAndRehash,
        CreateEmptyTable, ConvertArray, Free, Call, Steps, GrowToInsert, GiveUp,
        ConvertNext, ConvertDone, Grow, Spread, SpreadNot, SpreadDone, Settle, Move,
        RehashAgain, RehashFails, Skipped, RehashDone, table, vars
  <2>2. QED BY <1>1, <2>1, PlaceIsFound, PlaceHidesNothing
<1>2. TypeOK /\ [Next]_vars => [pc = "probe" /\ occ' # occ => Found \cup {arg} \subseteq Found']_vars
  BY <1>1
<1>3. QED
  BY <1>2, TypeCorrect, PTL DEF Spec, InsertIsFound

-----------------------------------------------------------------------------
(* The occupied flags are those of elements. *)

\* A table that is not null has room for a neighbourhood.
MinimumSize == n > 0 => n >= NeighborhoodSize

LEMMA MinimumSizeStep ==
  ASSUME TypeOK, MinimumSize, [Next]_vars
  PROVE  MinimumSize'
<1>1. CASE \E st \in BOOLEAN : DoubleSize(st)
  BY <1>1, NeighborhoodAssumption DEF DoubleSize, DoubledSize, MinimumSize, TypeOK
<1>2. CASE Free
  BY <1>2 DEF Free, MinimumSize
<1>3. CASE n' = n
  BY <1>3 DEF MinimumSize
<1>4. (\E st \in BOOLEAN : DoubleSize(st)) \/ Free \/ n' = n
  BY DEF Next, Calls, Insert, Replace, InsertOrReplace, DoubleSizeAndRehash,
         CreateEmptyTable, ConvertArray, Free, Call, Steps, Place, GrowToInsert, GiveUp,
         ConvertNext, ConvertDone, Grow, Spread, SpreadNot, SpreadDone, Settle, Move,
         RehashAgain, RehashFails, Skipped, RehashDone, table, vars, TypeOK
<1>5. QED BY <1>1, <1>2, <1>3, <1>4

\* The distance of a probed spot is the number of the probe, even when it
\* wraps around the table.
LEMMA ProbeDistance ==
  ASSUME Skip = 1, n \in Nat, n >= NeighborhoodSize,
         NEW h \in Positions, NEW j \in 0 .. NeighborhoodSize - 1
  PROVE  Distance(h, Probe(h, j)) \in 0 .. NeighborhoodSize
<1> USE NeighborhoodAssumption
<1>1. h \in Nat /\ 1 <= h /\ h <= n /\ n > 0
  BY DEF Positions, Size
<1>2. CASE h + j < n
  <2>1. Probe(h, j) = 1 + (h + j)
    BY <1>1, <1>2 DEF Probe, Modulo
  <2>2. QED BY <1>1, <2>1 DEF Distance
<1>3. CASE h + j >= n
  <2>1. (h + j) % n = h + j - n
    BY <1>1, <1>3
  <2>2. Probe(h, j) = 1 + (h + j - n)
    BY <2>1 DEF Probe, Modulo
  <2>3. QED BY <1>1, <2>2 DEF Distance
<1>4. QED BY <1>1, <1>2, <1>3

\* That of an element in its neighbourhood is one further at most, unless it
\* is where it hashes to.
LEMMA NeighborDistance ==
  ASSUME Skip = 1, n \in Nat, n >= NeighborhoodSize,
         NEW h \in Positions, NEW p \in Positions, p # h, IsInNeighborhood(h, p)
  PROVE  Distance(h, p) \in 0 .. NeighborhoodSize + 1
<1> USE NeighborhoodAssumption
<1>1. /\ h \in Nat /\ 1 <= h /\ h <= n /\ n > 0
      /\ p \in Nat /\ 1 <= p /\ p <= n
  BY DEF Positions, Size
<1>2. CASE h + NeighborhoodSize < n
  <2>1. Probe(h, NeighborhoodSize) = 1 + (h + NeighborhoodSize)
    BY <1>1, <1>2 DEF Probe, Modulo
  <2>2. h <= p /\ p <= 1 + (h + NeighborhoodSize)
    BY <1>1, <2>1 DEF IsInNeighborhood, Size
  <2>3. QED BY <1>1, <2>2 DEF Distance
<1>3. CASE h + NeighborhoodSize >= n /\ h + NeighborhoodSize < 2 * n
  <2>1. (h + NeighborhoodSize) % n = h + NeighborhoodSize - n
    BY <1>1, <1>3
  <2>2. Probe(h, NeighborhoodSize) = 1 + (h + NeighborhoodSize - n)
    BY <2>1 DEF Probe, Modulo
  <2>3. p > h \/ p <= 1 + (h + NeighborhoodSize - n)
    BY <1>1, <2>2 DEF IsInNeighborhood, Size
  <2>4. QED BY <1>1, <1>3, <2>3 DEF Distance
<1>4. CASE h + NeighborhoodSize = 2 * n
  <2>1. h = n /\ (h + NeighborhoodSize) % n = 0
    BY <1>1, <1>4
  <2>2. Probe(h, NeighborhoodSize) = 1
    BY <2>1 DEF Probe, Modulo
  <2>3. p > h \/ p <= 1
    BY <1>1, <1>4, <2>1, <2>2 DEF IsInNeighborhood, Size
  <2>4. QED BY <1>1, <1>4, <2>1, <2>3 DEF Distance
<1>5. QED BY <1>1, <1>2, <1>3, <1>4

\* A distance within the hop bits sets no occupied flag.
LEMMA NoMark ==
  ASSUME NeighborhoodSize + 1 < OccupiedBit,
         NEW p, NEW d \in 0 .. NeighborhoodSize + 1, NEW mark \in Marks(p, d)
  PROVE  mark = {}
BY NeighborhoodAssumption, BitAssumption DEF Marks

ElementsInv == TypeOK /\ ElementsArePut /\ MinimumSize /\ EntriesAreElements

LEMMA ElementsPlace ==
  ASSUME Skip = 1, NeighborhoodSize + 1 < OccupiedBit, ElementsInv, Place
  PROVE  EntriesAreElements'
<1> USE DEF ElementsInv
<1>1. PICK p \in Positions : \E mark \in Marks(InsertHash, Distance(InsertHash, p)) :
        /\ EmptySpot(InsertHash, p)
        /\ slot' = [slot EXCEPT ![p] = arg]
        /\ occ'  = occ \cup {p} \cup mark
  BY DEF Place
<1>2. n > 0 /\ arg \in Keys /\ InsertHash \in Positions
  BY <1>1, InsertHashType DEF Place, EmptySpot, TypeOK, Inserting
<1>3. Distance(InsertHash, p) \in 0 .. NeighborhoodSize + 1
  <2>1. PICK j \in 0 .. NeighborhoodSize - 1 : p = Probe(InsertHash, j)
    BY <1>1 DEF EmptySpot
  <2>2. n \in Nat /\ n >= NeighborhoodSize
    BY <1>2 DEF TypeOK, MinimumSize
  <2>3. Distance(InsertHash, p) \in 0 .. NeighborhoodSize
    BY <1>2, <2>1, <2>2, ProbeDistance
  <2>4. QED BY <2>3, NeighborhoodAssumption
<1>4. occ' = occ \cup {p}
  BY <1>1, <1>3, NoMark
<1>5. QED
  BY <1>1, <1>2, <1>4, KeysAssumption DEF EntriesAreElements, TypeOK

LEMMA ElementsSettle ==
  ASSUME Skip = 1, NeighborhoodSize + 1 < OccupiedBit, ElementsInv, Settle
  PROVE  EntriesAreElements'
<1> USE DEF ElementsInv
<1>1. PICK hash \in HashesOf(i) : \E mark \in Marks(hash, Distance(hash, i)) :
        IsInNeighborhood(hash, i) /\ occ' = occ \cup mark
  BY DEF Settle
<1>2. PICK mark \in Marks(hash, Distance(hash, i)) : occ' = occ \cup mark
  BY <1>1
<1>3. i \in occ /\ i \in Positions /\ n > 0 /\ slot' = slot
  BY DEF Settle, TypeOK
<1>4. hash \in Positions
  BY <1>1, <1>3, HashesOfType
<1>5. CASE hash = i
  BY <1>2, <1>3, <1>5, MarksType DEF EntriesAreElements
<1>6. CASE hash # i
  <2>1. n \in Nat /\ n >= NeighborhoodSize
    BY <1>3 DEF TypeOK, MinimumSize
  <2>2. Distance(hash, i) \in 0 .. NeighborhoodSize + 1
    BY <1>1, <1>3, <1>4, <1>6, <2>1, NeighborDistance
  <2>3. mark = {}
    BY <1>2, <2>2, NoMark
  <2>4. QED BY <1>2, <1>3, <2>3 DEF EntriesAreElements
<1>7. QED BY <1>5, <1>6

LEMMA ElementsMove ==
  ASSUME Skip = 1, NeighborhoodSize + 1 < OccupiedBit, ElementsInv, Move
  PROVE  EntriesAreElements'
<1> USE DEF ElementsInv
<1>1. PICK hash \in HashesOf(i), p \in Positions : \E mark \in Marks(i, Distance(hash, p)) :
        /\ EmptySpot(hash, p)
        /\ slot' = Swapped(p, i)
        /\ occ'  = ((occ \ {i}) \cup {p}) \cup mark
  BY DEF Move
<1>2. i \in occ /\ i \in Positions /\ n > 0
  BY DEF Move, TypeOK
<1>3. Distance(hash, p) \in 0 .. NeighborhoodSize + 1
  <2>1. PICK j \in 0 .. NeighborhoodSize - 1 : p = Probe(hash, j)
    BY <1>1 DEF EmptySpot
  <2>2. n \in Nat /\ n >= NeighborhoodSize /\ hash \in Positions
    BY <1>1, <1>2, HashesOfType DEF TypeOK, MinimumSize
  <2>3. Distance(hash, p) \in 0 .. NeighborhoodSize
    BY <2>1, <2>2, ProbeDistance
  <2>4. QED BY <2>3, NeighborhoodAssumption
<1>4. occ' = (occ \ {i}) \cup {p}
  BY <1>1, <1>3, NoMark
<1>5. QED
  BY <1>1, <1>2, <1>4 DEF EntriesAreElements, Swapped, TypeOK

LEMMA ElementsSpread ==
  ASSUME Skip = 1, ElementsInv, Spread
  PROVE  EntriesAreElements'
<1>1. i \in occ /\ Size - i \in Positions /\ Size - i \notin occ /\ i # Size - i
  BY SpreadIsFree DEF ElementsInv
<1>2. slot' = Swapped(i, Size - i) /\ occ' = (occ \ {i}) \cup {Size - i}
  BY DEF Spread
<1>3. QED
  BY <1>1, <1>2 DEF ElementsInv, EntriesAreElements, Swapped, TypeOK

\* replace writes a key into an occupied entry.
LEMMA ElementsReplace ==
  ASSUME ElementsInv, NEW key \in Keys, Replace(key)
  PROVE  EntriesAreElements'
<1>1. PICK p \in Positions : p \in occ /\ slot' = [slot EXCEPT ![p] = key]
  BY ReplaceWrites
<1>2. occ' = occ /\ key # Junk
  BY ReplaceWrites, KeysAssumption
<1> QED BY <1>1, <1>2 DEF ElementsInv, EntriesAreElements, TypeOK

\* The steps that move no element and set no flag.
LEMMA ElementsOther ==
  ASSUME ElementsInv, Next, ~Place, ~Settle, ~Move, ~Spread
  PROVE  EntriesAreElements'
<1> USE DEF ElementsInv
<1>1. CASE \E st \in BOOLEAN : DoubleSize(st)
  <2>1. PICK st \in BOOLEAN : DoubleSize(st)
    BY <1>1
  <2>2. occ' = occ /\ Positions \subseteq Positions'
    BY <2>1, DoubleSizeType DEF DoubleSize
  <2>3. Positions' = Skip .. Skip + DoubledSize - 1
    BY <2>1, SkipAssumption, DoubleSizeType DEF DoubleSize, Positions, Size, TypeOK
  <2>4. \A p \in Positions : slot'[p] = slot[p]
    BY <2>1, <2>2, <2>3 DEF DoubleSize
  <2>5. QED BY <2>2, <2>4 DEF EntriesAreElements, TypeOK
<1>2. CASE Free
  BY <1>2 DEF Free, EntriesAreElements
<1>3. CASE UNCHANGED table
  BY <1>3 DEF table, EntriesAreElements
<1>4. \/ \E st \in BOOLEAN : DoubleSize(st)
      \/ Free \/ UNCHANGED table \/ \E key \in Keys : Replace(key)
  BY DEF Next, Calls, Insert, InsertOrReplace, DoubleSizeAndRehash,
         CreateEmptyTable, ConvertArray, Free, Call, Steps, GrowToInsert, GiveUp,
         ConvertNext, ConvertDone, Grow, SpreadNot, SpreadDone,
         RehashAgain, RehashFails, Skipped, RehashDone, TypeOK
<1>5. QED BY <1>1, <1>2, <1>3, <1>4, ElementsReplace

LEMMA ElementsStep ==
  ASSUME Skip = 1, NeighborhoodSize + 1 < OccupiedBit, ElementsInv, [Next]_vars
  PROVE  ElementsInv'
<1>1. IInv' /\ MinimumSize'
  BY PutStep, MinimumSizeStep DEF ElementsInv, IInv
<1>2. CASE Next
  BY <1>1, <1>2, ElementsPlace, ElementsSettle, ElementsMove, ElementsSpread, ElementsOther
     DEF ElementsInv, IInv
<1>3. CASE UNCHANGED vars
  BY <1>1, <1>3 DEF ElementsInv, IInv, EntriesAreElements, vars, table
<1>4. QED BY <1>2, <1>3

LEMMA ElementsAlways ==
  ASSUME Skip = 1, NeighborhoodSize + 1 < OccupiedBit
  PROVE  Spec => []ElementsInv
<1>1. Init => ElementsInv
  BY TypeInit, PutInit DEF ElementsInv, Init, MinimumSize, EntriesAreElements
<1>2. ElementsInv /\ [Next]_vars => ElementsInv'
  BY ElementsStep
<1>3. QED BY <1>1, <1>2, PTL DEF Spec

\* fp_hash_size counts elements only, for entries of at least 8 bytes, as long
\* as a neighbourhood fits in the bits below the occupied flag (8 in 31).
THEOREM SizeCountsElements ==
  ASSUME Skip = 1, NeighborhoodSize + 1 < OccupiedBit
  PROVE  Spec => []EntriesAreElements
<1>1. ElementsInv => EntriesAreElements
  BY DEF ElementsInv
<1>2. QED BY <1>1, ElementsAlways, PTL

-----------------------------------------------------------------------------
(* What rehash settles and find then sees. *)

\* A spot find_empty_spot returns is in the neighbourhood.
LEMMA ProbeInNeighborhood ==
  ASSUME n \in Nat, n > Skip + NeighborhoodSize,
         NEW h \in Positions, NEW j \in 0 .. NeighborhoodSize - 1
  PROVE  IsInNeighborhood(h, Probe(h, j))
<1> USE SkipAssumption, NeighborhoodAssumption
<1>1. h \in Nat /\ Skip <= h /\ h <= Skip + n - 1 /\ n > 0
  BY DEF Positions, Size
<1>2. CASE h + NeighborhoodSize < n
  <2>1. /\ Probe(h, NeighborhoodSize) = Skip + (h + NeighborhoodSize)
        /\ Probe(h, j) = Skip + (h + j)
    BY <1>1, <1>2 DEF Probe, Modulo
  <2>2. QED BY <1>1, <2>1 DEF IsInNeighborhood
<1>3. CASE h + NeighborhoodSize >= n
  <2>1. (h + NeighborhoodSize) % n = h + NeighborhoodSize - n
    BY <1>1, <1>3
  <2>2. Probe(h, NeighborhoodSize) = Skip + (h + NeighborhoodSize - n)
    BY <2>1 DEF Probe, Modulo
  <2>3. CASE h + j < n
    <3>1. Probe(h, j) = Skip + (h + j)
      BY <1>1, <2>3 DEF Probe, Modulo
    <3>2. QED BY <1>1, <2>2, <3>1 DEF IsInNeighborhood
  <2>4. CASE h + j >= n
    <3>1. (h + j) % n = h + j - n
      BY <1>1, <2>4
    <3>2. Probe(h, j) = Skip + (h + j - n)
      BY <3>1 DEF Probe, Modulo
    <3>3. QED BY <1>1, <2>2, <3>2 DEF IsInNeighborhood
  <2>5. QED BY <1>1, <2>3, <2>4
<1>4. QED BY <1>1, <1>2, <1>3

\* An entry of the neighbourhood is one of find's probes unless it is one of
\* the first Skip.
LEMMA NeighborIsProbed ==
  ASSUME n \in Nat, n > Skip + NeighborhoodSize,
         NEW h \in Positions, NEW p \in Positions,
         IsInNeighborhood(h, p), (p - h) % n >= Skip
  PROVE  \E l \in 0 .. NeighborhoodSize : p = Probe(h, l)
<1> USE SkipAssumption, NeighborhoodAssumption
<1>1. /\ h \in Nat /\ Skip <= h /\ h <= Skip + n - 1 /\ n > 0
      /\ p \in Nat /\ Skip <= p /\ p <= Skip + n - 1
  BY DEF Positions, Size
<1>2. (p - Skip) % n = p - Skip
  BY <1>1
<1>3. CASE p >= h
  <2>1. (p - h) % n = p - h
    BY <1>1, <1>3
  <2>2. p - h - Skip \in 0 .. NeighborhoodSize
    <3>1. CASE h + NeighborhoodSize < n
      <4>1. Probe(h, NeighborhoodSize) = Skip + (h + NeighborhoodSize)
        BY <1>1, <3>1 DEF Probe, Modulo
      <4>2. p <= Skip + (h + NeighborhoodSize)
        BY <1>1, <1>3, <4>1 DEF IsInNeighborhood, Size
      <4>3. QED BY <1>1, <2>1, <4>2
    <3>2. CASE h + NeighborhoodSize >= n
      BY <1>1, <2>1, <3>2
    <3>3. QED BY <1>1, <3>1, <3>2
  <2>3. p = Probe(h, p - h - Skip)
    BY <1>1, <1>2, <2>2 DEF Probe, Modulo
  <2>4. QED BY <2>2, <2>3
<1>4. CASE p < h
  <2>1. (p - h) % n = p - h + n
    BY <1>1, <1>4
  <2>2. h + NeighborhoodSize >= n
    <3>1. CASE h + NeighborhoodSize < n
      <4>1. Probe(h, NeighborhoodSize) = Skip + (h + NeighborhoodSize)
        BY <1>1, <3>1 DEF Probe, Modulo
      <4>2. QED BY <1>1, <1>4, <4>1 DEF IsInNeighborhood, Size
    <3>2. QED BY <1>1, <3>1
  <2>3. (h + NeighborhoodSize) % n = h + NeighborhoodSize - n
    BY <1>1, <2>2
  <2>4. Probe(h, NeighborhoodSize) = Skip + (h + NeighborhoodSize - n)
    BY <2>3 DEF Probe, Modulo
  <2>5. p <= Skip + (h + NeighborhoodSize - n)
    BY <1>1, <1>4, <2>4 DEF IsInNeighborhood, Size
  <2>6. p - h + n - Skip \in 0 .. NeighborhoodSize
    BY <1>1, <2>1, <2>5
  <2>7. (h + (p - h + n - Skip)) % n = p - Skip
    BY <1>1
  <2>8. p = Probe(h, p - h + n - Skip)
    BY <1>1, <2>7 DEF Probe, Modulo
  <2>9. QED BY <2>6, <2>8
<1>5. QED BY <1>1, <1>3, <1>4

\* What the second loop has visited is settled.
Settled ==
  (pc = "place" /\ n > Skip + NeighborhoodSize) =>
    \A p \in occ : (p < i /\ slot[p] \in Keys) => IsInNeighborhood(HashOf(slot[p]), p)

LEMMA SettledBySettle ==
  ASSUME TypeOK, ElementsArePut, Settled, Settle
  PROVE  Settled'
<1>1. PICK hash \in HashesOf(i) : \E mark \in Marks(hash, Distance(hash, i)) :
        IsInNeighborhood(hash, i) /\ occ' = occ \cup mark
  BY DEF Settle
<1>2. PICK mark \in Marks(hash, Distance(hash, i)) : occ' = occ \cup mark
  BY <1>1
<1>3. /\ i \in occ /\ i \in Positions /\ n > 0 /\ slot' = slot /\ n' = n
      /\ pc = "place" /\ i' = i + 1
  BY DEF Settle, TypeOK
<1>4. mark \subseteq Positions
  BY <1>1, <1>2, <1>3, MarksType, HashesOfType
<1>5. SUFFICES ASSUME n > Skip + NeighborhoodSize,
                      NEW p \in occ', p < i + 1, slot[p] \in Keys
               PROVE  IsInNeighborhood(HashOf(slot[p]), p)
  BY <1>3 DEF Settled, IsInNeighborhood, HashOf, Probe, Modulo, Size
<1>6. p \in occ /\ p \in Nat /\ i \in Nat
  BY <1>2, <1>4, <1>5, KeysAssumption, SkipAssumption
     DEF ElementsArePut, TypeOK, Positions, Size
<1>7. CASE p = i
  BY <1>1, <1>5, <1>7, KeysAssumption DEF HashesOf
<1>8. CASE p # i
  BY <1>3, <1>5, <1>6, <1>8 DEF Settled
<1>9. QED BY <1>7, <1>8

LEMMA SettledByMove ==
  ASSUME TypeOK, ElementsArePut, Settled, Move
  PROVE  Settled'
<1>1. PICK hash \in HashesOf(i), q \in Positions : \E mark \in Marks(i, Distance(hash, q)) :
        /\ EmptySpot(hash, q)
        /\ slot' = Swapped(q, i)
        /\ occ'  = ((occ \ {i}) \cup {q}) \cup mark
  BY DEF Move
<1>2. PICK mark \in Marks(i, Distance(hash, q)) : occ' = ((occ \ {i}) \cup {q}) \cup mark
  BY <1>1
<1>3. /\ i \in occ /\ i \in Positions /\ n > 0 /\ n' = n
      /\ pc = "place" /\ i' = i + 1
      /\ q \notin occ
  BY <1>1 DEF Move, TypeOK, EmptySpot
<1>4. mark \subseteq {i} /\ slot[q] = Junk
  BY <1>1, <1>2, <1>3, MarksType DEF ElementsArePut
<1>5. slot' = [slot EXCEPT ![q] = slot[i], ![i] = Junk]
  BY <1>1, <1>4 DEF Swapped
<1>6. SUFFICES ASSUME n > Skip + NeighborhoodSize,
                      NEW p \in occ', p < i + 1, slot'[p] \in Keys
               PROVE  IsInNeighborhood(HashOf(slot'[p]), p)
  BY <1>3 DEF Settled, IsInNeighborhood, HashOf, Probe, Modulo, Size
<1>7. p \in Positions /\ p \in Nat /\ i \in Nat /\ p # i
  BY <1>2, <1>3, <1>4, <1>5, <1>6, KeysAssumption, SkipAssumption
     DEF TypeOK, Positions, Size
<1>8. CASE p = q
  <2>1. slot'[p] = slot[i] /\ slot[i] # Junk
    BY <1>3, <1>5, <1>6, <1>7, <1>8, KeysAssumption DEF TypeOK
  <2>2. hash = HashOf(slot'[p])
    BY <1>1, <2>1 DEF HashesOf
  <2>3. hash \in Positions
    BY <1>1, <1>3, HashesOfType
  <2>4. PICK j \in 0 .. NeighborhoodSize - 1 : q = Probe(hash, j)
    BY <1>1 DEF EmptySpot
  <2>5. n \in Nat
    BY DEF TypeOK
  <2>6. IsInNeighborhood(hash, Probe(hash, j))
    BY <1>6, <2>3, <2>4, <2>5, ProbeInNeighborhood
  <2>7. QED BY <1>8, <2>2, <2>4, <2>6
<1>9. CASE p # q
  <2>1. p \in occ /\ slot'[p] = slot[p] /\ p < i
    BY <1>2, <1>4, <1>5, <1>6, <1>7, <1>9 DEF TypeOK
  <2>2. QED BY <1>3, <1>6, <2>1 DEF Settled
<1>10. QED BY <1>8, <1>9

LEMMA SettledStep ==
  ASSUME TypeOK, ElementsArePut, Settled, [Next]_vars
  PROVE  Settled'
<1>1. CASE Settle \/ Move
  BY <1>1, SettledBySettle, SettledByMove
<1>2. CASE SpreadDone
  <2>1. i' = Skip /\ occ' = occ /\ \A p \in occ : ~(p < Skip)
    BY <1>2, SkipAssumption DEF SpreadDone, table, TypeOK, Positions, Size
  <2>2. QED BY <2>1 DEF Settled
<1>3. CASE Skipped
  <2>1. UNCHANGED table /\ pc = "place" /\ i' = i + 1 /\ i \notin occ /\ i \in Nat
    BY <1>3 DEF Skipped, TypeOK
  <2>2. \A p \in occ : p < i + 1 => p < i
    BY <2>1, SkipAssumption DEF TypeOK, Positions, Size
  <2>3. QED
    BY <2>1, <2>2 DEF Settled, table, IsInNeighborhood, HashOf, Probe, Modulo, Size
<1>4. CASE UNCHANGED vars
  BY <1>4 DEF Settled, vars, table, IsInNeighborhood, HashOf, Probe, Modulo, Size
<1>5. CASE pc' # "place"
  BY <1>5 DEF Settled
<1>6. Settle \/ Move \/ SpreadDone \/ Skipped \/ UNCHANGED vars \/ pc' # "place"
  BY DEF Next, Calls, Insert, Replace, InsertOrReplace, DoubleSizeAndRehash,
         CreateEmptyTable, ConvertArray, Free, Call, Steps, Place, GrowToInsert, GiveUp,
         ConvertNext, ConvertDone, Grow, Spread, SpreadNot,
         RehashAgain, RehashFails, RehashDone, Return
<1>7. QED BY <1>1, <1>2, <1>3, <1>4, <1>5, <1>6

LEMMA SettledFinds ==
  ASSUME TypeOK, Settled
  PROVE  RehashSettles
<1> SUFFICES ASSUME pc = "place", i = Size, n > Skip + NeighborhoodSize,
                    NEW p \in occ, slot[p] \in Keys
             PROVE  /\ IsInNeighborhood(HashOf(slot[p]), p)
                    /\ (~hasHashes /\ Offset(p) >= Skip) => FindsAt(slot[p], p)
  BY DEF RehashSettles
<1>1. p \in Positions /\ n \in Nat /\ n > 0 /\ p < i
  BY SkipAssumption DEF TypeOK, Positions, Size
<1>2. IsInNeighborhood(HashOf(slot[p]), p)
  BY <1>1 DEF Settled
<1>3. ASSUME ~hasHashes, Offset(p) >= Skip
      PROVE  FindsAt(slot[p], p)
  <2>1. HashOf(slot[p]) \in Positions
    BY <1>1, HashOfType
  <2>2. \E l \in 0 .. NeighborhoodSize : p = Probe(HashOf(slot[p]), l)
    BY <1>1, <1>2, <1>3, <2>1, NeighborIsProbed DEF Offset
  <2>3. QED BY <1>3, <2>2 DEF FindsAt
<1>4. QED BY <1>2, <1>3

\* When rehash is done every element is in its neighbourhood; find sees it
\* there, when no hashes are stored, but in the first Skip entries, which it
\* never probes (__fp_hash_rehash, __fp_hash_find_position).
THEOREM RehashIsSettled ==
  ASSUME Skip <= 2
  PROVE  Spec => []RehashSettles
<1>1. Init => IInv /\ Settled
  BY TypeInit, PutInit DEF IInv, Init, Settled
<1>2. IInv /\ Settled /\ [Next]_vars => (IInv /\ Settled)'
  BY PutStep, SettledStep DEF IInv
<1>3. IInv /\ Settled => RehashSettles
  BY SettledFinds DEF IInv
<1>4. QED BY <1>1, <1>2, <1>3, PTL DEF Spec

-----------------------------------------------------------------------------
(* How far an insertion makes the table grow. *)

LEMMA DoublingsDef ==
  /\ Doublings \in [Nat -> Nat \ {0}] /\ Doublings[0] = 1
  /\ \A k \in Nat : Doublings[k + 1] = 2 * Doublings[k]
<1> DEFINE Positive == Nat \ {0}
           step == [k \in Nat |-> [v \in Positive |-> 2 * v]]
<1>1. step \in [Nat -> [Positive -> Positive]] /\ 1 \in Positive
  OBVIOUS
<1> HIDE DEF step, Positive
<1>2. IsRecursion(Positive, 1, step)
  BY <1>1 DEF IsRecursion
<1>3. PICK f : Solves(f, Positive, 1, step)
  BY <1>2, RecursionExists
<1>4. f \in [Nat -> Positive] /\ f[0] = 1 /\ \A k \in Nat : f[k + 1] = step[k][f[k]]
  BY <1>3 DEF Solves
<1>5. ASSUME NEW k \in Nat
      PROVE  f[k] = IF k = 0 THEN 1 ELSE 2 * f[k - 1]
  <2>1. CASE k = 0
    BY <1>4, <2>1
  <2>2. CASE k # 0
    <3>1. k - 1 \in Nat /\ (k - 1) + 1 = k
      BY <2>2
    <3>2. f[(k - 1) + 1] = step[k - 1][f[k - 1]] /\ f[k - 1] \in Positive
      BY <1>4, <3>1
    <3>3. step[k - 1][f[k - 1]] = 2 * f[k - 1]
      BY <3>1, <3>2 DEF step
    <3> QED BY <2>2, <3>1, <3>2, <3>3
  <2> QED BY <2>1, <2>2
<1>6. f = [k \in Nat |-> IF k = 0 THEN 1 ELSE 2 * f[k - 1]]
  BY <1>4, <1>5
<1>7. Doublings = [k \in Nat |-> IF k = 0 THEN 1 ELSE 2 * Doublings[k - 1]]
  BY <1>6, Zenon DEF Doublings
<1>8. Doublings[0] = 1 /\ \A k \in Nat : Doublings[k + 1] = 2 * Doublings[k]
  <2>1. Doublings[0] = 1
    BY <1>7
  <2>2. ASSUME NEW k \in Nat
        PROVE  Doublings[k + 1] = 2 * Doublings[k]
    <3>1. k + 1 \in Nat /\ k + 1 # 0 /\ (k + 1) - 1 = k
      OBVIOUS
    <3> QED BY <1>7, <3>1
  <2> QED BY <2>1, <2>2
<1> DEFINE S == {k \in Nat : Doublings[k] \in Nat \ {0}}
<1>9. 0 \in S /\ \A k \in Nat : k \in S => k + 1 \in S
  BY <1>8
<1> HIDE DEF S
<1>10. \A k \in Nat : k \in S
  BY <1>9, SetInduction
<1>11. DOMAIN Doublings = Nat /\ \A k \in Nat : Doublings[k] \in Nat \ {0}
  BY <1>7, <1>10 DEF S
<1>12. Doublings = [k \in Nat |-> Doublings[k]]
  BY <1>7
<1> QED BY <1>8, <1>11, <1>12

\* More doublings give no less, whatever is doubled.
LEMMA DoublingsGrow ==
  ASSUME NEW a \in Nat, NEW b \in Nat, a <= b, NEW m \in Nat
  PROVE  m * Doublings[a] \in Nat /\ m * Doublings[a] <= m * Doublings[b]
<1> DEFINE S == {k \in Nat : a <= k => Doublings[a] <= Doublings[k]}
<1>1. 0 \in S
  BY DoublingsDef
<1>2. ASSUME NEW k \in Nat, k \in S
      PROVE  k + 1 \in S
  <2>1. Doublings[k + 1] = 2 * Doublings[k] /\ Doublings[k] \in Nat /\ Doublings[a] \in Nat
    BY DoublingsDef
  <2>2. CASE a <= k
    BY <1>2, <2>1, <2>2
  <2>3. CASE a = k + 1
    BY <2>1, <2>3
  <2> QED BY <2>2, <2>3
<1> HIDE DEF S
<1>3. \A k \in Nat : k \in S
  BY <1>1, <1>2, SetInduction
<1>4. Doublings[a] <= Doublings[b] /\ Doublings[a] \in Nat /\ Doublings[b] \in Nat
  BY <1>3, DoublingsDef DEF S
<1> QED BY <1>4

LEMMA DoublingsAtLeast ==
  ASSUME NEW k \in Nat, NEW m \in Nat
  PROVE  m <= m * Doublings[k]
  BY DoublingsDef

\* The doublings that may follow in a call with its counter of retries at q:
\* rehash is called with each value from q on, and doubles from there to the end.
Left(q) == ((MaxFailRetries - q) * (MaxFailRetries - q + 3)) \div 2

LEMMA LeftNext ==
  ASSUME NEW q \in Nat, q < MaxFailRetries
  PROVE  Left(q) = (MaxFailRetries - q + 1) + Left(q + 1) /\ Left(q + 1) \in Nat
<1> DEFINE d == MaxFailRetries - q - 1
           x == d * (d + 3)
<1>1. d \in Nat
  BY RetriesAssumption
<1> HIDE DEF d
<1>2. x \in Nat
  BY <1>1
<1>3. (d + 1) * (d + 4) = x + 2 * (d + 2)
  BY <1>1
<1> HIDE DEF x
<1>4. (x + 2 * (d + 2)) \div 2 = (x \div 2) + (d + 2) /\ x \div 2 \in Nat
  BY <1>1, <1>2
<1>5. MaxFailRetries - q = d + 1 /\ MaxFailRetries - (q + 1) = d /\ (d + 1) + 3 = d + 4
  BY RetriesAssumption DEF d
<1>6. Left(q) = ((d + 1) * (d + 4)) \div 2 /\ Left(q + 1) = x \div 2
  BY <1>5 DEF Left, x
<1> QED BY <1>1, <1>3, <1>4, <1>5, <1>6

LEMMA LeftType ==
  /\ RetryBudget = Left(0) /\ \A q \in 0 .. MaxFailRetries : Left(q) \in Nat
  /\ \A q \in 0 .. MaxFailRetries : Left(q) <= RetryBudget
<1>1. RetryBudget = Left(0) /\ Left(MaxFailRetries) = 0
  BY RetriesAssumption DEF RetryBudget, Left
<1>2. ASSUME NEW q \in 0 .. MaxFailRetries
      PROVE  Left(q) \in Nat
  <2>1. CASE q = MaxFailRetries
    BY <1>1, <2>1
  <2>2. CASE q < MaxFailRetries
    BY <2>2, LeftNext, RetriesAssumption
  <2> QED BY <2>1, <2>2, RetriesAssumption
<1> DEFINE S == {q \in Nat : q <= MaxFailRetries => Left(q) <= RetryBudget}
<1>3. 0 \in S
  BY <1>1, <1>2, RetriesAssumption
<1>4. ASSUME NEW q \in Nat, q \in S
      PROVE  q + 1 \in S
  <2> SUFFICES ASSUME q < MaxFailRetries PROVE Left(q + 1) <= RetryBudget
    BY RetriesAssumption
  <2>1. Left(q) <= RetryBudget
    BY <1>4, RetriesAssumption
  <2>2. Left(q) = (MaxFailRetries - q + 1) + Left(q + 1) /\ Left(q + 1) \in Nat
    BY LeftNext
  <2> QED BY <1>1, <1>2, <2>1, <2>2, RetriesAssumption
<1> HIDE DEF S
<1>5. \A q \in Nat : q \in S
  BY <1>3, <1>4, SetInduction
<1> QED BY <1>1, <1>2, <1>5 DEF S

\* The doublings that may still follow at this point of the call, and the
\* invariant: the table is no larger than those that are used up allow, and
\* no smaller than one doubling for each retry makes it.
Remaining ==
  IF pc = "probe" THEN Left(insRetries)
  ELSE IF pc = "grow" THEN (MaxFailRetries - rehRetries + 1) + Left(insRetries + 1)
  ELSE IF pc \in {"spread", "place"} THEN (MaxFailRetries - rehRetries) + Left(insRetries + 1)
  ELSE 0
Growing == pc \in {"grow", "spread", "place"}

GrowthInv ==
  op \in {"insert", "replace"} =>
    /\ pc = "probe" => insRetries \in 0 .. MaxFailRetries
    /\ Growing => insRetries \in Nat /\ insRetries < MaxFailRetries
                    /\ rehRetries \in insRetries .. MaxFailRetries
    /\ n <= First * Doublings[RetryBudget - Remaining]
    /\ pc = "probe" => start * Doublings[insRetries] <= n
    /\ pc = "grow" => start * Doublings[rehRetries] <= n
    /\ pc \in {"spread", "place"} => start * Doublings[rehRetries + 1] <= n
    /\ pc = "crashed" => start * Doublings[MaxFailRetries] <= n

LEMMA RemainingType ==
  ASSUME GrowthInv, op \in {"insert", "replace"}
  PROVE  Remaining \in 0 .. RetryBudget /\ RetryBudget \in Nat
<1>1. RetryBudget \in Nat /\ \A q \in 0 .. MaxFailRetries : Left(q) \in Nat /\ Left(q) <= RetryBudget
  BY LeftType, RetriesAssumption
<1>2. CASE pc = "probe"
  BY <1>1, <1>2 DEF GrowthInv, Remaining
<1>3. CASE Growing
  <2>1. /\ insRetries \in Nat /\ insRetries < MaxFailRetries
        /\ rehRetries \in insRetries .. MaxFailRetries
    BY <1>3 DEF GrowthInv
  <2>2. /\ Left(insRetries) = (MaxFailRetries - insRetries + 1) + Left(insRetries + 1)
        /\ Left(insRetries + 1) \in Nat
    BY <2>1, LeftNext
  <2>3. Left(insRetries) <= RetryBudget
    BY <1>1, <2>1, RetriesAssumption
  <2>4. Remaining \in Nat /\ Remaining <= Left(insRetries)
    <3> HIDE DEF Left
    <3> QED BY <1>3, <2>1, <2>2, RetriesAssumption DEF Remaining, Growing
  <2> QED BY <1>1, <2>1, <2>2, <2>3, <2>4, RetriesAssumption
<1>4. CASE pc # "probe" /\ ~Growing
  BY <1>1, <1>4 DEF Remaining, Growing
<1> QED BY <1>2, <1>3, <1>4

LEMMA FirstType == TypeOK => First \in Nat /\ First > 0 /\ start \in Nat /\ start <= First
  BY NeighborhoodAssumption DEF TypeOK, First

LEMMA UsedUp ==
  ASSUME NEW b \in Nat, NEW r \in 0 .. b, NEW s \in Nat, s <= r
  PROVE  b - r \in Nat /\ b - s \in Nat /\ b - r <= b - s /\ (r = s + 1 => b - s = (b - r) + 1)
  OBVIOUS

\* While the table stays as it is, the doublings left may only become less.
LEMMA StaysBounded ==
  ASSUME TypeOK, GrowthInv, op \in {"insert", "replace"}, UNCHANGED <<n, start>>,
         Remaining' \in Nat, Remaining' <= Remaining
  PROVE  n' <= First' * Doublings[RetryBudget - Remaining']
<1>1. Remaining \in 0 .. RetryBudget /\ RetryBudget \in Nat
  BY RemainingType
<1> DEFINE a == RetryBudget - Remaining
           b == RetryBudget - Remaining'
<1>2. a \in Nat /\ b \in Nat /\ a <= b
  BY <1>1, UsedUp
<1>3. n <= First * Doublings[a] /\ First' = First
  BY DEF GrowthInv, First
<1> HIDE DEF a, b
<1>4. First * Doublings[a] \in Nat /\ First * Doublings[a] <= First * Doublings[b]
  BY <1>2, DoublingsGrow, FirstType
<1>5. First * Doublings[b] \in Nat
  BY <1>2, DoublingsGrow, FirstType
<1>6. n' <= First' * Doublings[b]
  BY <1>3, <1>4, <1>5 DEF TypeOK
<1> QED BY <1>6 DEF b

\* The end of the call.
LEMMA GrowthAtEnd ==
  ASSUME TypeOK, GrowthInv, op \in {"insert", "replace"}, op' = op, UNCHANGED <<n, start>>,
         pc' \notin {"probe", "grow", "spread", "place"},
         pc' = "crashed" => start * Doublings[MaxFailRetries] <= n
  PROVE  GrowthInv'
<1>1. Remaining' = 0 /\ Remaining \in Nat
  BY RemainingType DEF Remaining
<1>2. n' <= First' * Doublings[RetryBudget - Remaining']
  BY <1>1, StaysBounded
<1> QED BY <1>2 DEF GrowthInv, Growing

LEMMA GrowthCalls ==
  ASSUME TypeOK, GrowthInv, Calls
  PROVE  GrowthInv'
<1>1. CASE op' \notin {"insert", "replace"}
  BY <1>1 DEF GrowthInv
<1>2. CASE op' \in {"insert", "replace"}
  <2>1. /\ n' = n /\ start' = n
        /\ \/ pc' = "probe" /\ insRetries' = 0
           \/ pc' = "idle" /\ n > 0
    BY <1>2 DEF Calls, Insert, Replace, InsertOrReplace, DoubleSizeAndRehash, CreateEmptyTable,
                ConvertArray, Free, Call, table
  <2>2. n \in Nat /\ First' \in Nat /\ n <= First'
    BY <2>1, NeighborhoodAssumption DEF TypeOK, First
  <2>3. CASE pc' = "probe" /\ insRetries' = 0
    <3>1. Remaining' = RetryBudget /\ RetryBudget - RetryBudget = 0
      BY <2>3, LeftType, RetriesAssumption DEF Remaining
    <3>2. n' <= First' * Doublings[RetryBudget - Remaining']
      BY <2>1, <2>2, <3>1, DoublingsDef
    <3>3. start' * Doublings[insRetries'] <= n'
      BY <2>1, <2>2, <2>3, DoublingsDef
    <3> QED BY <2>3, <3>2, <3>3, RetriesAssumption DEF GrowthInv, Growing
  <2>4. CASE pc' = "idle" /\ n > 0
    <3>1. Remaining' = 0 /\ RetryBudget - 0 = RetryBudget /\ RetryBudget \in Nat
      BY <2>4, LeftType, RetriesAssumption DEF Remaining
    <3>2. First' <= First' * Doublings[RetryBudget]
      BY <2>2, <3>1, DoublingsAtLeast
    <3>3. n' <= First' * Doublings[RetryBudget - Remaining']
      <4>1. Doublings[RetryBudget] \in Nat
        BY <3>1, DoublingsDef
      <4>2. n <= First' * Doublings[RetryBudget]
        BY <2>2, <3>2, <4>1
      <4> QED BY <2>1, <3>1, <4>2
    <3> QED BY <2>4, <3>3 DEF GrowthInv, Growing
  <2> QED BY <2>1, <2>3, <2>4
<1> QED BY <1>1, <1>2

LEMMA GrowthGrow ==
  ASSUME TypeOK, MinimumSize, GrowthInv, op \in {"insert", "replace"}, Grow
  PROVE  GrowthInv'
<1>0. /\ pc = "grow" /\ pc' = "spread" /\ op' = op /\ DoubleSize(store)
      /\ UNCHANGED <<insRetries, rehRetries, start>>
  BY DEF Grow, call
<1>1. /\ insRetries \in Nat /\ insRetries < MaxFailRetries
      /\ rehRetries \in insRetries .. MaxFailRetries
  BY <1>0 DEF GrowthInv, Growing
<1>2. Remaining \in 0 .. RetryBudget /\ RetryBudget \in Nat
  BY RemainingType
<1>3. Remaining = Remaining' + 1 /\ Remaining' \in Nat
  <2>1. Left(insRetries + 1) \in Nat
    BY <1>1, LeftNext
  <2> QED BY <1>0, <1>1, <2>1, RetriesAssumption DEF Remaining, Left
<1> DEFINE a == RetryBudget - Remaining
<1>4. a \in Nat /\ RetryBudget - Remaining' = a + 1
  <2> DEFINE r == Remaining
             s == Remaining'
  <2>1. r \in 0 .. RetryBudget /\ s \in Nat /\ r = s + 1
    BY <1>2, <1>3
  <2> HIDE DEF r, s
  <2>2. s <= r
    BY <2>1
  <2>3. RetryBudget - r \in Nat /\ RetryBudget - s = (RetryBudget - r) + 1
    BY <1>2, <2>1, <2>2, UsedUp
  <2> QED BY <2>3 DEF r, s
<1>5. n <= First * Doublings[a] /\ start * Doublings[rehRetries] <= n
  BY <1>0 DEF GrowthInv
<1> HIDE DEF a
<1>6. /\ Doublings[a + 1] = 2 * Doublings[a] /\ Doublings[a] \in Nat \ {0}
      /\ Doublings[rehRetries + 1] = 2 * Doublings[rehRetries] /\ Doublings[rehRetries] \in Nat \ {0}
  BY <1>1, <1>4, DoublingsDef
<1>7. /\ First * Doublings[a + 1] = 2 * (First * Doublings[a]) /\ First * Doublings[a] \in Nat
      /\ start * Doublings[rehRetries + 1] = 2 * (start * Doublings[rehRetries])
      /\ start * Doublings[rehRetries] \in Nat /\ start <= start * Doublings[rehRetries]
      /\ First <= First * Doublings[a]
  BY <1>6, FirstType
<1>8. n' = IF 2 * n < NeighborhoodSize THEN NeighborhoodSize ELSE 2 * n
  BY <1>0 DEF DoubleSize, DoubledSize
<1>9. n' <= 2 * (First * Doublings[a])
  <2>1. CASE 2 * n < NeighborhoodSize
    <3>1. start = 0
      BY <1>5, <1>7, <2>1, FirstType, NeighborhoodAssumption DEF MinimumSize, TypeOK
    <3>2. First = NeighborhoodSize
      BY <3>1 DEF First
    <3> QED BY <1>7, <1>8, <2>1, <3>2, NeighborhoodAssumption
  <2>2. CASE ~(2 * n < NeighborhoodSize)
    BY <1>5, <1>7, <1>8, <2>2 DEF TypeOK
  <2> QED BY <2>1, <2>2
<1>10. 2 * n <= n'
  BY <1>8, NeighborhoodAssumption DEF TypeOK
<1>11. start' * Doublings[rehRetries' + 1] <= n'
  <2> DEFINE low == start * Doublings[rehRetries]
  <2>1. low \in Nat /\ low <= n /\ start * Doublings[rehRetries + 1] = 2 * low
    BY <1>5, <1>7
  <2> HIDE DEF low
  <2>2. n \in Nat /\ n' \in Nat
    BY <1>8, NeighborhoodAssumption DEF TypeOK
  <2>3. 2 * low <= n'
    BY <1>10, <2>1, <2>2
  <2> QED BY <1>0, <2>1, <2>3
<1>12. n' <= First' * Doublings[RetryBudget - Remaining']
  BY <1>0, <1>4, <1>7, <1>9 DEF First
<1> QED BY <1>0, <1>1, <1>11, <1>12 DEF GrowthInv, Growing

\* The steps that do not change the size of the table.
LEMMA GrowthSteps ==
  ASSUME TypeOK, GrowthInv, op \in {"insert", "replace"}, Steps, ~Grow
  PROVE  GrowthInv'
<1>0. op' = op /\ UNCHANGED <<n, start>>
  BY DEF Steps, Place, GrowToInsert, GiveUp, ConvertNext, ConvertDone, Spread, SpreadNot, SpreadDone,
         Settle, Move, RehashAgain, RehashFails, Skipped, RehashDone, table, call
<1>1. First' = First
  BY <1>0 DEF First
<1>2. Remaining \in 0 .. RetryBudget /\ RetryBudget \in Nat
  BY RemainingType
<1>3. CASE Place \/ GiveUp \/ RehashFails
  <2>1. pc' \notin {"probe", "grow", "spread", "place"}
    BY <1>3 DEF Place, GiveUp, RehashFails, Return
  <2>2. ASSUME pc' = "crashed"
        PROVE  start * Doublings[MaxFailRetries] <= n
    <3>1. CASE Place
      BY <2>2, <3>1 DEF Place, Return
    <3>2. CASE GiveUp
      <4>1. insRetries = MaxFailRetries /\ pc = "probe"
        BY <3>2, RetriesAssumption DEF GiveUp, GrowthInv
      <4> QED BY <4>1 DEF GrowthInv
    <3>3. CASE RehashFails
      <4>1. rehRetries = MaxFailRetries /\ pc = "place" /\ MaxFailRetries + 1 \in Nat
        BY <3>3, RetriesAssumption DEF RehashFails, GrowthInv, Growing
      <4>2. start * Doublings[MaxFailRetries + 1] <= n /\ n \in Nat
        BY <4>1 DEF GrowthInv, TypeOK
      <4> DEFINE m == MaxFailRetries + 1
      <4>3. m \in Nat /\ MaxFailRetries <= m /\ start * Doublings[m] <= n
        BY <4>1, <4>2, RetriesAssumption
      <4> HIDE DEF m
      <4>4. /\ start * Doublings[MaxFailRetries] \in Nat
            /\ start * Doublings[MaxFailRetries] <= start * Doublings[m]
            /\ start * Doublings[m] \in Nat
        BY <4>3, DoublingsGrow, FirstType, RetriesAssumption
      <4> QED BY <4>2, <4>3, <4>4
    <3> QED BY <1>3, <3>1, <3>2, <3>3
  <2> QED BY <1>0, <2>1, <2>2, GrowthAtEnd
<1>4. CASE ConvertNext \/ ConvertDone
  BY <1>4 DEF ConvertNext, ConvertDone, TypeOK
<1>5. CASE GrowToInsert
  <2>1. /\ pc = "probe" /\ pc' = "grow" /\ insRetries' = insRetries /\ rehRetries' = insRetries
        /\ insRetries < MaxFailRetries /\ insRetries \in Nat
    BY <1>5 DEF GrowToInsert, TypeOK
  <2>2. Remaining' = Remaining
    <3>1. Left(insRetries) = (MaxFailRetries - insRetries + 1) + Left(insRetries + 1)
      BY <2>1, LeftNext
    <3> QED BY <2>1, <3>1 DEF Remaining, Left
  <2>3. n' <= First' * Doublings[RetryBudget - Remaining']
    BY <1>0, <1>1, <2>2 DEF GrowthInv
  <2>4. start' * Doublings[rehRetries'] <= n'
    BY <1>0, <2>1 DEF GrowthInv
  <2> QED BY <2>1, <2>3, <2>4, RetriesAssumption DEF GrowthInv, Growing
<1>6. CASE RehashAgain
  <2>1. /\ pc = "place" /\ pc' = "grow" /\ insRetries' = insRetries /\ rehRetries' = rehRetries + 1
        /\ insRetries \in Nat /\ insRetries < MaxFailRetries
        /\ rehRetries \in insRetries .. MaxFailRetries /\ rehRetries < MaxFailRetries
    BY <1>6 DEF RehashAgain, GrowthInv, Growing
  <2>2. Remaining' = Remaining
    <3>1. Left(insRetries + 1) \in Nat
      BY <2>1, LeftNext
    <3> QED BY <2>1, <3>1, RetriesAssumption DEF Remaining, Left
  <2>3. n' <= First' * Doublings[RetryBudget - Remaining']
    BY <1>0, <1>1, <2>2 DEF GrowthInv
  <2>4. start' * Doublings[rehRetries'] <= n'
    BY <1>0, <2>1 DEF GrowthInv
  <2> QED BY <2>1, <2>3, <2>4, RetriesAssumption DEF GrowthInv, Growing
<1>7. CASE RehashDone
  <2>1. /\ pc = "place" /\ pc' = "probe" /\ insRetries' = insRetries + 1
        /\ insRetries \in Nat /\ insRetries < MaxFailRetries
        /\ rehRetries \in insRetries .. MaxFailRetries
    BY <1>7 DEF RehashDone, GrowthInv, Growing
  <2> DEFINE r == Remaining
             s == Remaining'
             m == Left(insRetries + 1)
  <2>2. m \in Nat
    BY <2>1, LeftNext
  <2>3. s = m
    BY <2>1 DEF Remaining, Left
  <2>4. r = (MaxFailRetries - rehRetries) + m
    BY <2>1 DEF Remaining
  <2> HIDE DEF r, s, m
  <2>5. s \in Nat /\ s <= r
    BY <2>1, <2>2, <2>3, <2>4, RetriesAssumption
  <2>6. n' <= First' * Doublings[RetryBudget - Remaining']
    BY <1>0, <2>5, StaysBounded DEF r, s
  <2>7. start' * Doublings[insRetries'] <= n'
    <3> DEFINE q == insRetries + 1
    <3>1. q \in Nat /\ rehRetries + 1 \in Nat /\ q <= rehRetries + 1
      BY <2>1, RetriesAssumption
    <3> HIDE DEF q
    <3>2. /\ start * Doublings[q] \in Nat /\ start * Doublings[q] <= start * Doublings[rehRetries + 1]
          /\ start * Doublings[rehRetries + 1] \in Nat
      BY <3>1, DoublingsGrow, FirstType
    <3>3. start * Doublings[rehRetries + 1] <= n /\ n \in Nat
      BY <2>1 DEF GrowthInv, TypeOK
    <3>4. start * Doublings[q] <= n
      BY <3>2, <3>3
    <3> QED BY <1>0, <2>1, <3>4 DEF q
  <2> QED BY <2>1, <2>6, <2>7, RetriesAssumption DEF GrowthInv, Growing
<1>8. CASE Spread \/ SpreadNot \/ SpreadDone \/ Settle \/ Move \/ Skipped
  <2>1. /\ pc \in {"spread", "place"} /\ pc' \in {"spread", "place"}
        /\ insRetries' = insRetries /\ rehRetries' = rehRetries
    BY <1>8 DEF Spread, SpreadNot, SpreadDone, Settle, Move, Skipped
  <2>2. Remaining' = Remaining
    BY <2>1 DEF Remaining, Left
  <2>3. n' <= First' * Doublings[RetryBudget - Remaining']
    BY <1>0, <1>1, <2>2 DEF GrowthInv
  <2>4. start' * Doublings[rehRetries' + 1] <= n'
    BY <1>0, <2>1 DEF GrowthInv
  <2>5. /\ insRetries' \in Nat /\ insRetries' < MaxFailRetries
        /\ rehRetries' \in insRetries' .. MaxFailRetries
    BY <2>1 DEF GrowthInv, Growing
  <2> QED BY <2>1, <2>3, <2>4, <2>5 DEF GrowthInv
<1> QED BY <1>3, <1>4, <1>5, <1>6, <1>7, <1>8 DEF Steps

\* However the recursion of insert and rehash through double_size_and_rehash
\* runs, an insertion doubles the table at most as often as its two retry
\* counters allow together; and one that gives up has doubled it MaxFailRetries
\* times at least: for any number of retries and size of the neighbourhood.
THEOREM GrowthStaysBounded == Spec => []GrowthIsBounded
<1> DEFINE I == TypeOK /\ MinimumSize /\ GrowthInv
<1>1. Init => I
  BY TypeInit DEF Init, MinimumSize, GrowthInv
<1>2. I /\ [Next]_vars => I'
  <2> SUFFICES ASSUME I, [Next]_vars PROVE I'
    OBVIOUS
  <2>1. TypeOK' /\ MinimumSize'
    BY TypeStep, MinimumSizeStep
  <2>2. CASE Calls
    BY <2>1, <2>2, GrowthCalls
  <2>3. CASE Steps /\ op \in {"insert", "replace"}
    BY <2>1, <2>3, GrowthGrow, GrowthSteps
  <2>4. CASE Steps /\ op \notin {"insert", "replace"}
    <3>1. op' = op
      BY <2>4 DEF Steps, Place, GrowToInsert, GiveUp, ConvertNext, ConvertDone, Grow, Spread,
                  SpreadNot, SpreadDone, Settle, Move, RehashAgain, RehashFails, Skipped,
                  RehashDone, call
    <3> QED BY <2>1, <2>4, <3>1 DEF GrowthInv
  <2>5. CASE UNCHANGED vars
    <3>1. /\ op' = op /\ pc' = pc /\ insRetries' = insRetries /\ rehRetries' = rehRetries
          /\ n' = n /\ start' = start
      BY <2>5 DEF vars, table, call
    <3>2. First' = First /\ Remaining' = Remaining /\ (Growing' <=> Growing)
      BY <3>1 DEF First, Remaining, Growing, Left
    <3> QED BY <2>1, <3>1, <3>2 DEF GrowthInv
  <2> QED BY <2>2, <2>3, <2>4, <2>5 DEF Next
<1>3. I => GrowthIsBounded
  <2> SUFFICES ASSUME I, op \in {"insert", "replace"}
               PROVE  /\ n <= First * Doublings[RetryBudget]
                      /\ (GivesUp /\ start > 0) => n >= start * Doublings[MaxFailRetries]
    BY DEF GrowthIsBounded
  <2> DEFINE a == RetryBudget - Remaining
  <2>1. a \in Nat /\ RetryBudget \in Nat /\ a <= RetryBudget
    BY RemainingType, UsedUp
  <2>2. n <= First * Doublings[a] /\ n \in Nat
    BY DEF GrowthInv, TypeOK
  <2> HIDE DEF a
  <2>3. /\ First * Doublings[a] <= First * Doublings[RetryBudget] /\ First * Doublings[a] \in Nat
        /\ First * Doublings[RetryBudget] \in Nat
    BY <2>1, DoublingsGrow, FirstType
  <2>4. n <= First * Doublings[RetryBudget]
    BY <2>2, <2>3
  <2>5. ASSUME pc = "probe", insRetries >= MaxFailRetries
        PROVE  n >= start * Doublings[MaxFailRetries]
    <3>1. insRetries = MaxFailRetries
      BY <2>5, RetriesAssumption DEF GrowthInv
    <3> QED BY <2>5, <3>1 DEF GrowthInv
  <2>6. ASSUME pc = "crashed"
        PROVE  n >= start * Doublings[MaxFailRetries]
    <3>1. n \in Nat /\ start \in Nat /\ Doublings[MaxFailRetries] \in Nat
      BY DoublingsDef, RetriesAssumption DEF TypeOK
    <3>2. start * Doublings[MaxFailRetries] \in Nat
      BY <3>1
    <3> QED BY <2>6, <3>1, <3>2 DEF GrowthInv
  <2> QED BY <2>4, <2>5, <2>6 DEF GivesUp
<1>4. QED BY <1>1, <1>2, <1>3, PTL DEF Spec

-----------------------------------------------------------------------------
(* That calls end. *)

\* A call is running: not after it has returned, or crashed.
Running == pc \notin {"idle", "crashed"}

\* What is left of a running call: the insertions it owes, the tries of this
\* insertion, the tries of its rehash (one more before there is one), the
\* loops of this rehash and the rounds of this loop.
InsertionsLeft == IF ~Running THEN 0 ELSE 2 * Len(todo) + (IF pc = "convert" THEN 1 ELSE 2)
TriesLeft      == IF Inserting THEN MaxFailRetries - insRetries ELSE 0
RehashesLeft   == IF Growing THEN MaxFailRetries - rehRetries
                  ELSE IF pc = "probe" THEN MaxFailRetries + 1 ELSE 0
LoopsLeft      == IF pc = "grow" THEN 2 ELSE IF pc = "spread" THEN 1 ELSE 0
RoundsLeft     == IF pc \in {"spread", "place"} THEN Size - i ELSE 0

\* None of them is below zero,
IsMeasured ==
  /\ InsertionsLeft \in Nat /\ TriesLeft \in Nat /\ RehashesLeft \in Nat
  /\ LoopsLeft \in Nat /\ RoundsLeft \in Nat

\* and a step makes one of them less and keeps those named before it.
IsLess ==
  \/ InsertionsLeft' < InsertionsLeft
  \/ /\ InsertionsLeft' = InsertionsLeft
     /\ \/ TriesLeft' < TriesLeft
        \/ /\ TriesLeft' = TriesLeft
           /\ \/ RehashesLeft' < RehashesLeft
              \/ /\ RehashesLeft' = RehashesLeft
                 /\ \/ LoopsLeft' < LoopsLeft
                    \/ LoopsLeft' = LoopsLeft /\ RoundsLeft' < RoundsLeft

\* Insert and rehash stop at their retries: insert enters a rehash only with
\* one of its own left.
RetriesInv ==
  /\ pc = "probe" => insRetries <= MaxFailRetries
  /\ Growing => rehRetries <= MaxFailRetries
  /\ Growing /\ op # "rehash" => insRetries < MaxFailRetries

LEMMA RetriesInit == Init => RetriesInv
  BY DEF Init, RetriesInv, Growing

LEMMA RetriesStep ==
  ASSUME TypeOK, RetriesInv, [Next]_vars
  PROVE  RetriesInv'
<1> USE RetriesAssumption DEF RetriesInv, Growing
<1>1. CASE Calls
  BY <1>1 DEF Calls, Insert, Replace, InsertOrReplace, DoubleSizeAndRehash, CreateEmptyTable,
              ConvertArray, Free, Call, TypeOK
<1>2. CASE Place \/ GiveUp \/ RehashFails
  <2>1. pc' \in {"idle", "convert", "crashed"}
    BY <1>2 DEF Place, GiveUp, RehashFails, Return
  <2> QED BY <2>1
<1>3. CASE GrowToInsert
  BY <1>3 DEF GrowToInsert, TypeOK, call
<1>4. CASE ConvertNext \/ ConvertDone
  BY <1>4 DEF ConvertNext, ConvertDone
<1>5. CASE Grow \/ Spread \/ SpreadNot \/ SpreadDone \/ Settle \/ Move \/ Skipped
  <2>1. /\ pc \in {"grow", "spread", "place"} /\ pc' \in {"spread", "place"}
        /\ op' = op /\ insRetries' = insRetries /\ rehRetries' = rehRetries
    BY <1>5 DEF Grow, Spread, SpreadNot, SpreadDone, Settle, Move, Skipped, call
  <2> QED BY <2>1
<1>6. CASE RehashAgain
  BY <1>6 DEF RehashAgain, TypeOK, call
<1>7. CASE RehashDone
  BY <1>7 DEF RehashDone, TypeOK, call
<1>8. CASE UNCHANGED vars
  BY <1>8 DEF vars, call
<1> QED BY <1>1, <1>2, <1>3, <1>4, <1>5, <1>6, <1>7, <1>8 DEF Next, Steps

LEMMA MeasureType ==
  ASSUME TypeOK, RetriesInv
  PROVE  IsMeasured
<1> USE RetriesAssumption, SkipAssumption
<1>1. InsertionsLeft \in Nat
  BY DEF TypeOK, InsertionsLeft
<1>2. TriesLeft \in Nat
  BY DEF TypeOK, RetriesInv, Inserting, Growing, TriesLeft
<1>3. RehashesLeft \in Nat
  BY DEF TypeOK, RetriesInv, Growing, RehashesLeft
<1>4. LoopsLeft \in Nat /\ RoundsLeft \in Nat
  BY DEF TypeOK, LoopsLeft, RoundsLeft, Size
<1> QED BY <1>1, <1>2, <1>3, <1>4 DEF IsMeasured

\* Insert returns: to its caller, or to the loop of convert_array.
LEMMA ReturnIsLess ==
  ASSUME TypeOK, Running, pc # "convert", pc' \in {"idle", "convert", "crashed"},
         todo' = todo
  PROVE  InsertionsLeft' < InsertionsLeft
  BY DEF TypeOK, Running, InsertionsLeft

\* A step that leaves the insertion where it is.
LEMMA SameInsertion ==
  ASSUME TypeOK, Running, pc # "convert", pc' \in {"grow", "spread", "place"},
         UNCHANGED <<todo, op, insRetries>>
  PROVE  InsertionsLeft' = InsertionsLeft /\ TriesLeft' = TriesLeft
  BY DEF TypeOK, Running, InsertionsLeft, TriesLeft, Inserting, Pcs

LEMMA StepIsLess ==
  ASSUME TypeOK, RetriesInv, Steps
  PROVE  IsLess
<1> USE RetriesAssumption, SkipAssumption
<1>1. CASE Place \/ GiveUp \/ RehashFails
  <2>1. /\ pc \in {"probe", "place"} /\ pc' \in {"idle", "convert", "crashed"} /\ todo' = todo
    BY <1>1 DEF Place, GiveUp, RehashFails, Return
  <2> QED BY <2>1, ReturnIsLess DEF IsLess, Running
<1>2. CASE ConvertNext
  <2>1. /\ pc = "convert" /\ pc' = "probe" /\ todo \in Seq(Keys) /\ todo # <<>> /\ todo' = Tail(todo)
    BY <1>2 DEF ConvertNext, TypeOK
  <2>2. Len(todo') = Len(todo) - 1 /\ Len(todo) \in Nat
    BY <2>1
  <2>3. InsertionsLeft' < InsertionsLeft
    BY <2>1, <2>2 DEF InsertionsLeft, Running
  <2> QED BY <2>3 DEF IsLess
<1>3. CASE ConvertDone
  <2>1. InsertionsLeft' < InsertionsLeft
    BY <1>3 DEF ConvertDone, InsertionsLeft, Running, TypeOK
  <2> QED BY <2>1 DEF IsLess
<1>4. CASE GrowToInsert
  <2>1. /\ pc = "probe" /\ pc' = "grow" /\ UNCHANGED <<todo, op, insRetries>>
        /\ rehRetries' = insRetries /\ insRetries \in Nat
    BY <1>4 DEF GrowToInsert, TypeOK, call
  <2>2. InsertionsLeft' = InsertionsLeft /\ TriesLeft' = TriesLeft
    BY <2>1, SameInsertion DEF Running
  <2>3. RehashesLeft' < RehashesLeft
    BY <2>1 DEF RehashesLeft, Growing
  <2> QED BY <2>2, <2>3 DEF IsLess
<1>5. CASE RehashAgain
  <2>1. /\ pc = "place" /\ pc' = "grow" /\ UNCHANGED <<todo, op, insRetries>>
        /\ rehRetries' = rehRetries + 1 /\ rehRetries \in Nat
    BY <1>5 DEF RehashAgain, TypeOK, call
  <2>2. InsertionsLeft' = InsertionsLeft /\ TriesLeft' = TriesLeft
    BY <2>1, SameInsertion DEF Running
  <2>3. RehashesLeft' < RehashesLeft
    BY <2>1 DEF RehashesLeft, Growing
  <2> QED BY <2>2, <2>3 DEF IsLess
<1>6. CASE RehashDone
  <2>1. CASE op = "rehash"
    <3>1. pc = "place" /\ pc' = "idle" /\ todo' = todo
      BY <1>6, <2>1 DEF RehashDone
    <3> QED BY <3>1, ReturnIsLess DEF IsLess, Running
  <2>2. CASE op # "rehash"
    <3>1. /\ pc = "place" /\ pc' = "probe" /\ UNCHANGED <<todo, op>>
          /\ insRetries' = insRetries + 1 /\ insRetries \in Nat
      BY <1>6, <2>2 DEF RehashDone, TypeOK, call
    <3>2. InsertionsLeft' = InsertionsLeft
      BY <3>1 DEF InsertionsLeft, Running
    <3>3. TriesLeft' < TriesLeft
      BY <2>2, <3>1 DEF TriesLeft, Inserting
    <3> QED BY <3>2, <3>3 DEF IsLess
  <2> QED BY <2>1, <2>2
<1>7. CASE Grow \/ SpreadDone
  <2>1. /\ \/ pc = "grow" /\ pc' = "spread"
           \/ pc = "spread" /\ pc' = "place"
        /\ UNCHANGED <<todo, op, insRetries, rehRetries>>
    BY <1>7 DEF Grow, SpreadDone, call
  <2>2. InsertionsLeft' = InsertionsLeft /\ TriesLeft' = TriesLeft
    BY <2>1, SameInsertion DEF Running
  <2>3. RehashesLeft' = RehashesLeft /\ LoopsLeft' < LoopsLeft
    BY <2>1 DEF RehashesLeft, Growing, LoopsLeft
  <2> QED BY <2>2, <2>3 DEF IsLess
<1>8. CASE Spread \/ SpreadNot \/ Settle \/ Move \/ Skipped
  <2>1. /\ pc \in {"spread", "place"} /\ pc' = pc /\ i < Size /\ i' = i + 1 /\ i \in Nat /\ n' = n
        /\ UNCHANGED <<todo, op, insRetries, rehRetries>>
    BY <1>8 DEF Spread, SpreadNot, Settle, Move, Skipped, TypeOK, call, table
  <2>2. InsertionsLeft' = InsertionsLeft /\ TriesLeft' = TriesLeft
    BY <2>1, SameInsertion DEF Running
  <2>3. RehashesLeft' = RehashesLeft /\ LoopsLeft' = LoopsLeft
    BY <2>1 DEF RehashesLeft, Growing, LoopsLeft
  <2>4. RoundsLeft' < RoundsLeft
    BY <2>1 DEF RoundsLeft, Size, TypeOK
  <2> QED BY <2>2, <2>3, <2>4 DEF IsLess
<1> QED BY <1>1, <1>2, <1>3, <1>4, <1>5, <1>6, <1>7, <1>8 DEF Steps

\* No call starts before the last one has ended.
LEMMA CallsStartIdle == Calls => ~Running
BY DEF Calls, Insert, Replace, InsertOrReplace, DoubleSizeAndRehash, CreateEmptyTable,
       ConvertArray, Free, Call, Running

\* No call runs for ever: each step of one makes its measure, five numbers
\* compared from the first on, less.  The recursion of insert, convert_array,
\* double_size_and_rehash and rehash uses up the elements still to be inserted,
\* then insert's retries, rehash's, and the rounds of its loops, whatever the
\* hash function, the size of the table and the number of retries.
THEOREM EveryCallEnds == Spec => []IsMeasured /\ [][Running => IsLess]_vars
<1> DEFINE I == TypeOK /\ RetriesInv
<1>1. Init => I
  BY TypeInit, RetriesInit
<1>2. I /\ [Next]_vars => I'
  BY TypeStep, RetriesStep
<1>3. I => IsMeasured
  BY MeasureType
<1>4. I /\ [Next]_vars => [Running => IsLess]_vars
  BY StepIsLess, CallsStartIdle DEF Next
<1> HIDE DEF I
<1>5. QED BY <1>1, <1>2, <1>3, <1>4, PTL DEF Spec
=============================================================================
