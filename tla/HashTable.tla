------------------------------ MODULE HashTable ------------------------------
(***************************************************************************)
(* The hopscotch-style hash table of include/fp/hash/table.h.              *)
(*                                                                         *)
(* The table is one array of Skip + n elements.  Its first Skip elements   *)
(* hold a pointer to the header (the hop infos and, when they are stored,  *)
(* the hashes); the entries are the positions Skip .. Skip + n - 1.  A     *)
(* null table pointer is n = 0.  Of a hop info only bit 31, the occupied   *)
(* flag, is ever read by the functions of this module: `occ` is the set of *)
(* entries that have it set.                                               *)
(*                                                                         *)
(* The library is sequential: a call runs to completion before the next    *)
(* one starts.  A call is split into one step per iteration of its loops,  *)
(* so that the recursion of insert, double_size_and_rehash and rehash is a *)
(* program counter and two retry counters (every recursive call but the    *)
(* one insert makes to double_size_and_rehash is a tail call).             *)
(***************************************************************************)
EXTENDS Integers, Sequences, FiniteSets

CONSTANTS
  Keys,              \* the values stored (type_size bytes each)
  Hash,              \* FP_HASH_FUNCTION: key -> 64 bit value
  Junk,              \* uninitialised memory
  Skip,              \* fp_hash_elements_to_skip(type)
  NeighborhoodSize,  \* FP_HASH_NEIGHBORHOOD_SIZE
  MaxFailRetries,    \* FP_HASH_MAX_FAIL_RETRIES
  OccupiedBit,       \* 31, the flag's bit in a uint32_t hop info
  ConvertExisting,   \* may convert_array be given a table that is not null?
  MaxStart,          \* bound: no call that can grow starts on a larger table
  MaxEntries,        \* bound: no insertion starts with this many entries
  MaxArray           \* bound: length of an array that is converted

ASSUME KeysAssumption == Hash \in [Keys -> Nat] /\ Junk \notin Keys /\ Junk \notin Int
ASSUME SkipAssumption == Skip \in Nat \ {0}
ASSUME NeighborhoodAssumption == NeighborhoodSize \in Nat \ {0}
ASSUME RetriesAssumption == MaxFailRetries \in Nat
ASSUME BitAssumption == OccupiedBit \in Nat
ASSUME BoundsAssumption ==
  ConvertExisting \in BOOLEAN /\ MaxStart \in Nat /\ MaxEntries \in Nat /\ MaxArray \in Nat

VARIABLES
  n,           \* fpda_size(table) - Skip, 0 for a null table
  slot,        \* the elements, at their positions
  occ,         \* the positions whose occupied flag is set
  hasHashes,   \* header->hashes # NULL
  hashes,      \* the stored hashes, by position
  pc,          \* where the running call is, "idle" between calls
  op,          \* the call that is running
  arg,         \* the key being inserted
  store,       \* its store_hashes_while_initializing argument
  todo,        \* convert_array: what is left of the array
  insRetries,  \* the retries argument of __fp_hash_insert
  rehRetries,  \* the retries argument of __fp_hash_rehash
  i,           \* the loop index of __fp_hash_rehash
  start        \* history: n when the running (or last) call was made

table == <<n, slot, occ, hasHashes, hashes>>
call  == <<op, arg, store>>
vars  == <<table, pc, call, todo, insRetries, rehRetries, i, start>>

Size      == n + Skip                \* fpda_size(table)
Positions == Skip .. Size - 1

-----------------------------------------------------------------------------
(* The table's arithmetic. *)

\* __fp_hash_element_modulo: it adds Skip to an argument that, in every
\* caller but __fp_hash itself, is already a position.
Modulo(m) == Skip + (m % n)

HashOf(key) == Modulo(Hash[key])

\* The hash rehash computes for what an occupied entry holds: of junk, any.
HashesOf(p) == IF slot[p] = Junk THEN Positions ELSE {HashOf(slot[p])}

Probe(hash, j) == Modulo(hash + j)

\* Mutant of EmptySpot: the first spot is taken without a look at its flag.
EmptySpotUnseen(hash, p) == n > 0 /\ p = Probe(hash, 0)

\* __fp_hash_find_empty_spot returns p / returns the invalid position.
EmptySpot(hash, p) ==
  n > 0 /\ \E j \in 0 .. NeighborhoodSize - 1 :
    /\ p = Probe(hash, j)
    /\ p \notin occ
    /\ \A l \in 0 .. j - 1 : Probe(hash, l) \in occ
NoEmptySpot(hash) ==
  n > 0 => \A j \in 0 .. NeighborhoodSize - 1 : Probe(hash, j) \in occ

\* Mutant of IsInNeighborhood: the end of the neighbourhood is not compared.
IsInNeighborhoodEndless(hash, needle) == hash <= needle

IsInNeighborhood(hash, needle) ==
  LET end == Probe(hash, NeighborhoodSize)
  IN  \/ NeighborhoodSize > Size
      \/ hash <= end /\ hash <= needle /\ needle <= end
      \/ hash > end  /\ (hash <= needle \/ needle <= end)

\* The bit rehash and insert set for an element of hash `hash` kept at p.
\* They pass their void** argument, not the table, to element_modulo; the
\* memory in front of that variable has no array header, so its fpda_size is 0
\* and the modulo by 0 - Skip (2^64 - Skip) leaves hash - p as it is.
Distance(hash, p) == IF p > hash THEN p - hash ELSE n - (Skip + (hash - p))

\* Mutant of Marks: the bit of a neighbour is taken for the occupied flag.
MarksAlways(p, d) == {{p}}

\* The entries whose occupied flag  hop_info(p) |= 1 << d  may set: a shift
\* by a negative amount, or by 32 or more, may set it or not.
Marks(p, d) == IF d = OccupiedBit THEN {{p}}
               ELSE IF d \in 0 .. OccupiedBit THEN {{}} ELSE {{}, {p}}

\* Mutant of Swapped: the first is copied over the second.
SwappedOver(p, q) == [slot EXCEPT ![q] = slot[p]]

Swapped(p, q) == [slot EXCEPT ![p] = slot[q], ![q] = slot[p]]

\* __fp_hash_find_position returns p for key.  The comparison with a stored
\* hash that was never written can come out either way; when it must come
\* out equal, the key is found whatever that memory held.
FindsAt(key, p) ==
  /\ p \in {Probe(HashOf(key), j) : j \in 0 .. NeighborhoodSize} \cap occ
  /\ slot[p] = key
  /\ hasHashes => hashes[p] = HashOf(key)
MayFindAt(key, p) ==
  /\ p \in {Probe(HashOf(key), j) : j \in 0 .. NeighborhoodSize} \cap occ
  /\ slot[p] \in {key, Junk}
  /\ hasHashes => hashes[p] \in {HashOf(key), Junk}

Finds(key) == n > 0 /\ \E p \in Positions : FindsAt(key, p)

\* What fp_hash_find may return for key: the first probe that matches.
MayReturn(key, p) ==
  \E j \in 0 .. NeighborhoodSize :
    /\ p = Probe(HashOf(key), j) /\ MayFindAt(key, p)
    /\ \A l \in 0 .. j - 1 : ~FindsAt(key, Probe(HashOf(key), l))

-----------------------------------------------------------------------------
NoEntries == [p \in {} |-> Junk]

Init ==
  /\ n = 0 /\ slot = NoEntries /\ occ = {} /\ hasHashes = FALSE /\ hashes = NoEntries
  /\ pc = "idle" /\ op = "none" /\ arg = Junk /\ store = FALSE /\ todo = <<>>
  /\ insRetries = 0 /\ rehRetries = 0 /\ i = 0 /\ start = 0

\* Mutant of DoubledSize: the table grows by a neighbourhood.
DoubledSizeLinear == n + NeighborhoodSize

(* __fp_hash_double_size, with the header it reallocates. *)
DoubledSize == IF 2 * n < NeighborhoodSize THEN NeighborhoodSize ELSE 2 * n
DoubleSize(st) ==
  LET old == Positions
      new == Skip .. Skip + DoubledSize - 1
  IN  /\ n' = DoubledSize
      /\ slot'   = [p \in new |-> IF p \in old THEN slot[p] ELSE Junk]
      /\ hashes' = [p \in new |-> IF hasHashes /\ p \in old THEN hashes[p] ELSE Junk]
      /\ hasHashes' = (st \/ hasHashes)
      /\ occ' = occ

-----------------------------------------------------------------------------
(* The calls. *)

Call(name, key, st) ==
  /\ pc = "idle" /\ n <= MaxStart
  /\ op' = name /\ arg' = key /\ store' = st /\ start' = n

\* fp_hash_insert_store_hashes; fp_hash_insert passes FALSE
Insert(key, st) ==
  /\ Call("insert", key, st)
  /\ Cardinality(occ) < MaxEntries
  /\ pc' = "probe" /\ insRetries' = 0
  /\ UNCHANGED <<table, todo, rehRetries, i>>

\* fp_hash_insert_or_replace: find_position asserts that the table exists.
\* The key is copied over what is found: an equal key, or an occupied entry of
\* junk, which becomes an element.
Replace(key) ==
  /\ n > 0
  /\ Call("replace", key, FALSE)
  /\ \E p \in Positions : MayReturn(key, p) /\ slot' = [slot EXCEPT ![p] = key]
  /\ UNCHANGED <<n, occ, hasHashes, hashes, pc, todo, insRetries, rehRetries, i>>
InsertOrReplace(key) ==
  /\ n > 0
  /\ Call("replace", key, FALSE)
  /\ Cardinality(occ) < MaxEntries
  /\ ~Finds(key)
  /\ pc' = "probe" /\ insRetries' = 0
  /\ UNCHANGED <<table, todo, rehRetries, i>>

\* fp_hash_double_size_and_rehash
DoubleSizeAndRehash(st) ==
  /\ Call("rehash", Junk, st)
  /\ pc' = "grow" /\ rehRetries' = 0
  /\ UNCHANGED <<table, todo, insRetries, i>>

\* fp_hash_convert_array_expert_with_existing, of an array that is not yet a
\* hash table: it doubles the given table without rehashing it.
\* `array` stands for what its loop reads: the `size` elements from the starting
\* offset on, all in whole elements: the plain macros pass offset 0 and a
\* considered type size.
ConvertArray(array, st) ==
  /\ n > 0 => ConvertExisting
  /\ Call("convert", Junk, st)
  /\ Cardinality(occ) + Len(array) <= MaxEntries
  /\ DoubleSize(st)
  /\ pc' = "convert" /\ todo' = array
  /\ UNCHANGED <<insRetries, rehRetries, i>>

\* fp_hash_create_empty_table
CreateEmptyTable(st) ==
  /\ n = 0
  /\ Call("create", Junk, st)
  /\ DoubleSize(st)
  /\ UNCHANGED <<pc, todo, insRetries, rehRetries, i>>

\* fp_hash_free_and_null: __fp_hash_free follows the table's header pointer
Free ==
  /\ pc = "idle" /\ n > 0
  /\ n' = 0 /\ slot' = NoEntries /\ occ' = {} /\ hasHashes' = FALSE /\ hashes' = NoEntries
  /\ op' = "free" /\ start' = n
  /\ UNCHANGED <<pc, arg, store, todo, insRetries, rehRetries, i>>

-----------------------------------------------------------------------------
(* __fp_hash_insert *)

\* Mutant of Return: convert_array stops after its first insertion.
ReturnIdle(found) == pc' = IF op = "replace" /\ ~found THEN "crashed" ELSE "idle"

\* What the caller of insert does with its result; insert_or_replace copies
\* the key to it, and crashes when it is null.
Return(found) ==
  pc' = IF op = "convert" THEN "convert"
        ELSE IF op = "replace" /\ ~found THEN "crashed" ELSE "idle"

\* Mutant of InsertHash: the hash is not brought to a position.
InsertHashRaw == IF n = 0 THEN 0 ELSE Hash[arg]

InsertHash == IF n = 0 THEN 0 ELSE HashOf(arg)

Place ==
  /\ pc = "probe"
  /\ \E p \in Positions : \E mark \in Marks(InsertHash, Distance(InsertHash, p)) :
       /\ EmptySpot(InsertHash, p)
       /\ slot' = [slot EXCEPT ![p] = arg]
       /\ occ'  = occ \cup {p} \cup mark
       /\ hashes' = IF hasHashes THEN [hashes EXCEPT ![p] = InsertHash] ELSE hashes
  /\ Return(TRUE)
  /\ UNCHANGED <<n, hasHashes, call, todo, insRetries, rehRetries, i, start>>

GrowToInsert ==
  /\ pc = "probe" /\ NoEmptySpot(InsertHash)
  /\ insRetries < MaxFailRetries
  /\ pc' = "grow" /\ rehRetries' = insRetries
  /\ UNCHANGED <<table, call, todo, insRetries, i, start>>

GiveUp ==
  /\ pc = "probe" /\ NoEmptySpot(InsertHash)
  /\ insRetries >= MaxFailRetries
  /\ Return(FALSE)
  /\ UNCHANGED <<table, call, todo, insRetries, rehRetries, i, start>>

\* The loop of __fp_hash_convert_array; it ignores what insert returns.
ConvertNext ==
  /\ pc = "convert" /\ todo # <<>>
  /\ arg' = Head(todo) /\ todo' = Tail(todo)
  /\ pc' = "probe" /\ insRetries' = 0
  /\ UNCHANGED <<table, op, store, rehRetries, i, start>>
ConvertDone ==
  /\ pc = "convert" /\ todo = <<>>
  /\ pc' = "idle"
  /\ UNCHANGED <<table, call, todo, insRetries, rehRetries, i, start>>

-----------------------------------------------------------------------------
(* __fp_hash_double_size_and_rehash and __fp_hash_rehash *)

Grow ==
  /\ pc = "grow"
  /\ DoubleSize(store)
  /\ pc' = "spread" /\ i' = Skip
  /\ UNCHANGED <<call, todo, insRetries, rehRetries, start>>

\* The first loop clears the hop infos but for the occupied flags and moves
\* every other element of the first half to the second half.
Spreads(p) == p \in occ /\ p < Size \div 2 /\ p % 2 = 1
Spread ==
  /\ pc = "spread" /\ i < Size /\ Spreads(i)
  /\ slot' = Swapped(i, Size - i)
  /\ occ'  = (occ \ {i}) \cup {Size - i}
  /\ i' = i + 1
  /\ UNCHANGED <<n, hasHashes, hashes, pc, call, todo, insRetries, rehRetries, start>>
\* Mutant of SpreadNot: the loop stays at an entry it does not move.
SpreadNotStuck ==
  pc = "spread" /\ i < Size /\ ~Spreads(i) /\ UNCHANGED vars

SpreadNot ==
  /\ pc = "spread" /\ i < Size /\ ~Spreads(i)
  /\ i' = i + 1
  /\ UNCHANGED <<table, pc, call, todo, insRetries, rehRetries, start>>
SpreadDone ==
  /\ pc = "spread" /\ i >= Size
  /\ pc' = "place" /\ i' = Skip
  /\ UNCHANGED <<table, call, todo, insRetries, rehRetries, start>>

\* The second loop leaves an element that is in its neighbourhood,
Settle ==
  /\ pc = "place" /\ i < Size /\ i \in occ
  /\ \E hash \in HashesOf(i) : \E mark \in Marks(hash, Distance(hash, i)) :
       /\ IsInNeighborhood(hash, i)
       /\ occ' = occ \cup mark
       /\ hashes' = IF hasHashes THEN [hashes EXCEPT ![i] = hash] ELSE hashes
  /\ i' = i + 1
  /\ UNCHANGED <<n, slot, hasHashes, pc, call, todo, insRetries, rehRetries, start>>

\* moves one that is not (marking the hop info of the entry it left),
Move ==
  /\ pc = "place" /\ i < Size /\ i \in occ
  /\ \E hash \in HashesOf(i), p \in Positions : \E mark \in Marks(i, Distance(hash, p)) :
       /\ ~IsInNeighborhood(hash, i)
       /\ EmptySpot(hash, p)
       /\ slot' = Swapped(p, i)
       /\ occ'  = ((occ \ {i}) \cup {p}) \cup mark
  /\ i' = i + 1
  /\ UNCHANGED <<n, hasHashes, hashes, pc, call, todo, insRetries, rehRetries, start>>

\* and, when it finds no spot for one, doubles the table and starts again.
Stuck == \E hash \in HashesOf(i) : ~IsInNeighborhood(hash, i) /\ NoEmptySpot(hash)
RehashAgain ==
  /\ pc = "place" /\ i < Size /\ i \in occ /\ Stuck
  /\ rehRetries < MaxFailRetries
  /\ pc' = "grow" /\ rehRetries' = rehRetries + 1
  /\ UNCHANGED <<table, call, todo, insRetries, i, start>>
RehashFails ==
  /\ pc = "place" /\ i < Size /\ i \in occ /\ Stuck
  /\ rehRetries >= MaxFailRetries
  /\ IF op = "rehash" THEN pc' = "idle" ELSE Return(FALSE)
  /\ UNCHANGED <<table, call, todo, insRetries, rehRetries, i, start>>

Skipped ==
  /\ pc = "place" /\ i < Size /\ i \notin occ
  /\ i' = i + 1
  /\ UNCHANGED <<table, pc, call, todo, insRetries, rehRetries, start>>

\* rehash is done: insert tries again
RehashDone ==
  /\ pc = "place" /\ i >= Size
  /\ IF op = "rehash" THEN pc' = "idle" /\ UNCHANGED insRetries
                      ELSE pc' = "probe" /\ insRetries' = insRetries + 1
  /\ UNCHANGED <<table, call, todo, rehRetries, i, start>>

-----------------------------------------------------------------------------
Arrays == UNION {[1 .. l -> Keys] : l \in 1 .. MaxArray}

Calls ==
  \/ \E key \in Keys, st \in BOOLEAN : Insert(key, st)
  \/ \E key \in Keys : Replace(key) \/ InsertOrReplace(key)
  \/ \E st \in BOOLEAN : DoubleSizeAndRehash(st) \/ CreateEmptyTable(st)
  \/ \E array \in Arrays, st \in BOOLEAN : ConvertArray(array, st)
  \/ Free

Steps ==
  \/ Place \/ GrowToInsert \/ GiveUp \/ ConvertNext \/ ConvertDone
  \/ Grow \/ Spread \/ SpreadNot \/ SpreadDone
  \/ Settle \/ Move \/ RehashAgain \/ RehashFails \/ Skipped \/ RehashDone

Next == Calls \/ Steps

Spec == Init /\ [][Next]_vars

\* A call that was made runs: nothing else is scheduled against it.
FairSpec == Spec /\ WF_vars(Steps)

-----------------------------------------------------------------------------
(* What must be true of it. *)

Pcs == {"idle", "probe", "convert", "grow", "spread", "place", "crashed"}
Ops == {"none", "insert", "replace", "rehash", "convert", "create", "free"}

\* A call of __fp_hash_insert is running.
Inserting == \/ pc = "probe"
             \/ pc \in {"grow", "spread", "place"} /\ op # "rehash"

\* The type invariant: entries, flags and stored hashes stay inside the block,
\* and the loop index of rehash inside its range.
TypeOK ==
  /\ n \in Nat /\ start \in Nat
  /\ slot \in [Positions -> Keys \cup {Junk}]
  /\ occ \subseteq Positions
  /\ hasHashes \in BOOLEAN /\ store \in BOOLEAN
  /\ hashes \in [Positions -> Nat \cup {Junk}]
  /\ pc \in Pcs /\ op \in Ops
  /\ arg \in Keys \cup {Junk} /\ todo \in Seq(Keys)
  /\ insRetries \in Nat /\ rehRetries \in Nat
  /\ i \in Nat
  /\ pc \in {"spread", "place"} => n > 0 /\ i \in Skip .. Size
  /\ Inserting => arg \in Keys /\ op \in {"insert", "replace", "convert"}
  /\ pc = "convert" => op = "convert"
  /\ op # "convert" \/ pc = "idle" => todo = <<>>

\* What the table holds: every occupied entry that is not junk, with its
\* number of copies; and the keys a running call has yet to insert.
Copies(key) == {p \in occ : slot[p] = key}
Bag  == [key \in Keys |-> Cardinality(Copies(key))]
Owed == IF pc = "convert" THEN todo
        ELSE IF pc \in {"idle", "crashed"} \/ op = "rehash" THEN <<>>
        ELSE <<arg>> \o todo

Contents == INSTANCE Multiset WITH
              bag <- Bag, owed <- Owed,
              given <- IF op = "replace" /\ pc = "idle" THEN {arg} ELSE {}

\* A call adds exactly the keys it was given, each at most once, and neither
\* growing, nor distributing, nor moving the elements, nor giving up half way
\* through a rehash loses or doubles one: the table is a multiset
\* (fp_hash_insert, fp_hash_double_size_and_rehash).  A key insert has no room
\* for is dropped, and insert_or_replace may make an element of stray junk.
IsMultiset == Contents!Spec

\* Why no element is lost: an entry whose occupied flag is clear holds none, and
\* while rehash distributes, what it has still to visit is in the old half or
\* was already mirrored, so an element is only ever swapped with a free entry.
ElementsArePut ==
  /\ \A p \in Positions : p \notin occ => slot[p] = Junk
  /\ pc = "spread" =>
       \A p \in occ : p >= i => (2 * p < 2 * Skip + n \/ p > Size - i)

Found == {key \in Keys : Finds(key)}

\* An insertion that finds a spot is seen by find at once and hides no key
\* find saw before, whatever rehashes came before it (find and find_empty_spot
\* start at the same probe, find's last one being one further).
InsertIsFound ==
  [][pc = "probe" /\ occ' # occ => Found \cup {arg} \subseteq Found']_vars

\* What fp_hash_size counts are the elements: no hop bit that insert or rehash
\* shifts into place is the occupied flag of an entry that holds nothing.
\* True of types of 8 bytes and more: with more skipped entries the distance
\* of an element that wrapped around can be negative.
EntriesAreElements == \A p \in occ : slot[p] # Junk

\* How far after the position it hashes to an entry is, around the table.
Offset(p) == (p - HashOf(slot[p])) % n

\* The two loops of rehash end with every element in its neighbourhood, and
\* find then misses an element, when no hashes are stored, only where rehash
\* and find disagree: in the Skip entries before find's first probe.
RehashSettles ==
  (pc = "place" /\ i = Size /\ n > Skip + NeighborhoodSize) =>
    \A p \in occ : slot[p] \in Keys =>
      /\ IsInNeighborhood(HashOf(slot[p]), p)
      /\ (~hasHashes /\ Offset(p) >= Skip) => FindsAt(slot[p], p)

\* An insertion that gives up, or whose null result insert_or_replace writes
\* through, has doubled the table at least MaxFailRetries times for nothing, and
\* no call doubles it more often than the two retry counters allow together.
Doublings[k \in Nat] == IF k = 0 THEN 1 ELSE 2 * Doublings[k - 1]   \* what k of them make of 1
RetryBudget == (MaxFailRetries * (MaxFailRetries + 3)) \div 2
First == IF start = 0 THEN NeighborhoodSize ELSE start
GivesUp == pc = "crashed" \/ (pc = "probe" /\ insRetries >= MaxFailRetries)
GrowthIsBounded ==
  op \in {"insert", "replace"} =>
    /\ n <= First * Doublings[RetryBudget]
    /\ GivesUp /\ start > 0 => n >= start * Doublings[MaxFailRetries]

\* Every call returns, or crashes on the null result of its insertion: the
\* recursion of insert and rehash through double_size_and_rehash ends.
Returns == pc \notin {"idle", "crashed"} ~> pc \in {"idle", "crashed"}

-----------------------------------------------------------------------------
(* What the repository says of it and the code does not do. *)

\* After double_size_and_rehash every element is found again, in a table that
\* stores no hashes (TEST_CASE "Hash") and in one that does (TEST_CASE
\* "Hash::StoreHashes"): both tests look each of their elements up after it.
Lost(key) == Copies(key) # {} /\ ~Finds(key)
FindsAfterRehash == pc = "idle" => \A key \in Keys : ~Lost(key)
=============================================================================
