--------------------------- MODULE DynArray_proofs ---------------------------
(***************************************************************************)
(* Type correctness of DynArray and the invariant that keeps every call    *)
(* inside its block: as long as no call has misused memory, the capacity   *)
(* is backed by the bytes allocated and the size fits the capacity.  Each  *)
(* call makes one new block; the lemmas say, for each way a block is made, *)
(* that it is one (IsBlock) and backed (Backed).                           *)
(***************************************************************************)
EXTENDS DynArray, SequenceTheorems, TLAPS

Elements == Values \cup {None}

Good(b) == IsBlock(b) /\ Backed(b)

\* Multiplying by the size of an element shrinks no number.
LEMMA Scaled == \A m \in Nat : m * TypeSize \in Nat /\ m * TypeSize >= m
  BY TypeSizeAssumption

\* A block is made of numbers and elements.
LEMMA BlockIsBlock ==
  ASSUME NEW room \in Nat, NEW cap \in Nat, NEW size \in Nat, NEW d,
         \A j \in 0 .. size - 1 : d[j] \in Elements
  PROVE  /\ IsBlock(Block(room, cap, size, d))
         /\ Block(room, cap, size, d).room = room
         /\ Block(room, cap, size, d).cap  = cap
         /\ Block(room, cap, size, d).size = size
  BY DEF IsBlock, Block, Elements

\* A good block, from the bounds on its numbers.
LEMMA BlockIsGood ==
  ASSUME NEW room \in Nat, NEW cap \in Nat, NEW size \in Nat, NEW d,
         \A j \in 0 .. size - 1 : d[j] \in Elements,
         size <= cap, cap * TypeSize <= room
  PROVE  Good(Block(room, cap, size, d))
<1> DEFINE b == Block(room, cap, size, d)
<1>1. IsBlock(b) /\ b.room = room /\ b.cap = cap /\ b.size = size
  BY BlockIsBlock
<1> HIDE DEF b
<1>2. Backed(b)
  BY <1>1 DEF Backed
<1> QED
  BY <1>1, <1>2 DEF Good, b

LEMMA NullIsGood == Good(Null) /\ IsNull(Null)
<1>1. 0 * TypeSize <= 0
  BY TypeSizeAssumption
<1>2. \A j \in 0 .. 0 - 1 : (<<>>)[j] \in Elements
  OBVIOUS
<1> QED
  BY <1>1, <1>2, BlockIsGood, BlockIsBlock DEF Null, IsNull

\* The memory of a block up to any index.
LEMMA MemoryIsTyped ==
  ASSUME NEW b, IsBlock(b), NEW k \in Nat
  PROVE  Memory(b, k) \in [0 .. k - 1 -> Elements]
  BY DEF Memory, IsBlock, Elements

LEMMA LargerIsLarger ==
  ASSUME NEW m \in Nat, NEW k \in Nat
  PROVE  Larger(m, k) \in Nat /\ Larger(m, k) >= m /\ Larger(m, k) >= k
         /\ (Larger(m, k) = m \/ Larger(m, k) = k)
  BY DEF Larger

\* memmove within a block.
LEMMA MovedIsTyped ==
  ASSUME NEW size \in Nat, NEW d \in [0 .. size - 1 -> Elements],
         NEW to \in Nat, NEW from \in Nat, NEW len \in Int,
         to + len <= size, from + len <= size
  PROVE  Moved(d, to, from, len) \in [0 .. size - 1 -> Elements]
<1>1. ASSUME NEW j \in 0 .. size - 1
      PROVE  (IF j \in to .. to + len - 1 THEN d[from + j - to] ELSE d[j]) \in Elements
  OBVIOUS
<1> QED
  BY <1>1 DEF Moved

\* memcpy of overlapping ranges reads inside the block whichever way it goes.
LEMMA SmearedIsTyped ==
  ASSUME NEW size \in Nat, NEW d \in [0 .. size - 1 -> Elements],
         NEW to \in Nat, NEW from \in Nat, NEW len \in Int,
         to + len <= size, from + len <= size, to # from
  PROVE  Smeared(d, to, from, len) \in [0 .. size - 1 -> Elements]
<1>1. ASSUME NEW j \in to .. to + len - 1, to > from
      PROVE  from + ((j - to) % (to - from)) \in 0 .. size - 1
  <2> DEFINE D == to - from
             r == (j - to) % D
  <2>1. D \in Nat \ {0} /\ j - to \in Nat
    BY <1>1
  <2>2. r \in 0 .. D - 1
    BY <2>1
  <2> QED
    BY <2>1, <2>2, <1>1
<1>2. ASSUME NEW j \in to .. to + len - 1, ~(to > from)
      PROVE  j + (from - to) * (1 + ((to + len - 1 - j) \div (from - to))) \in 0 .. size - 1
  <2> DEFINE D == from - to
             m == to + len - 1 - j
             q == m \div D
  <2>1. D \in Nat \ {0} /\ m \in Nat
    BY <1>2
  <2>2. q \in Nat /\ D * q <= m /\ D * q >= 0
    BY <2>1
  <2>3. D * (1 + q) = D + D * q
    BY <2>1, <2>2
  <2>4. j + D * (1 + q) \in 0 .. size - 1
    <3> HIDE DEF q
    <3>1. PICK w \in Nat : D * q = w
      BY <2>1, <2>2
    <3> QED
      BY <2>1, <2>2, <2>3, <3>1
  <2> QED
    BY <2>4
<1>3. ASSUME NEW j \in 0 .. size - 1
      PROVE  Smeared(d, to, from, len)[j] \in Elements
  <2>1. CASE j \notin to .. to + len - 1
    BY <2>1 DEF Smeared
  <2>2. CASE j \in to .. to + len - 1 /\ to > from
    BY <2>2, <1>1 DEF Smeared
  <2>3. CASE j \in to .. to + len - 1 /\ ~(to > from)
    BY <2>3, <1>2 DEF Smeared
  <2> QED
    BY <2>1, <2>2, <2>3
<1> QED
  BY <1>3 DEF Smeared

LEMMA CopiesAreTyped ==
  ASSUME NEW size \in Nat, NEW d \in [0 .. size - 1 -> Elements],
         NEW to \in Nat, NEW from \in Nat, NEW len \in Int,
         to + len <= size, from + len <= size
  PROVE  Copies(d, to, from, len) \subseteq [0 .. size - 1 -> Elements]
<1>1. Overlap(to, from, len) => to # from
  BY DEF Overlap
<1> QED
  BY <1>1, MovedIsTyped, SmearedIsTyped DEF Copies

-----------------------------------------------------------------------------
(* The ways a call makes a block. *)

LEMMA AllocatedIsGood ==
  ASSUME NEW cap \in Nat
  PROVE  Good(Allocated(cap)) /\ Allocated(cap).size = 0 /\ Allocated(cap).cap = cap
<1>1. \A j \in 0 .. 0 - 1 : (<<>>)[j] \in Elements
  OBVIOUS
<1>2. cap * TypeSize \in Nat
  BY Scaled
<1> QED
  BY <1>1, <1>2, BlockIsGood, BlockIsBlock DEF Allocated

LEMMA OpenedIsGood ==
  ASSUME NEW b, Good(b), NEW newSize \in Nat, NEW exact \in BOOLEAN
  PROVE  /\ Good(Opened(b, newSize, exact))
         /\ Opened(b, newSize, exact).size = b.size
         /\ b.cap <= Opened(b, newSize, exact).cap
<1>1. CASE ~IsNull(b)
  BY <1>1 DEF Opened, Good, IsBlock
<1>2. CASE IsNull(b)
  <2>1. b.room = 0 /\ b.cap \in Nat /\ b.size \in Nat /\ b.size <= b.cap /\ b.cap * TypeSize <= 0
    BY <1>2 DEF IsNull, Good, IsBlock, Backed
  <2>2. b.cap * TypeSize >= b.cap
    BY <2>1, Scaled
  <2>3. b.cap = 0 /\ b.size = 0
    BY <2>1, <2>2, TypeSizeAssumption
  <2>4. DefaultBytes \div TypeSize \in Nat
    BY DefaultAssumption, TypeSizeAssumption
  <2> DEFINE first == IF exact THEN newSize ELSE DefaultBytes \div TypeSize
  <2>5. Larger(1, first) \in Nat
    BY <2>4, LargerIsLarger
  <2>6. Opened(b, newSize, exact) = Allocated(Larger(1, first))
    BY <1>2 DEF Opened
  <2> QED
    BY <2>3, <2>5, <2>6, AllocatedIsGood
<1> QED
  BY <1>1, <1>2

LEMMA SizedIsGood ==
  ASSUME NEW b, Good(b), NEW newSize \in Nat, newSize <= b.cap
  PROVE  Good(Sized(b, newSize)) /\ Sized(b, newSize).size = Larger(b.size, newSize)
<1>1. /\ IsBlock(b) /\ b.room \in Nat /\ b.cap \in Nat /\ b.size \in Nat
      /\ b.size <= b.cap /\ b.cap * TypeSize <= b.room
  BY DEF Good, IsBlock, Backed
<1>2. Larger(b.size, newSize) \in Nat /\ Larger(b.size, newSize) <= b.cap
  BY <1>1, LargerIsLarger
<1> DEFINE size == Larger(b.size, newSize)
           d    == Memory(b, size)
<1>3. d \in [0 .. size - 1 -> Elements]
  BY <1>1, <1>2, MemoryIsTyped
<1>4. Sized(b, newSize) = Block(b.room, b.cap, size, d)
  BY DEF Sized
<1>5. size \in Nat /\ size <= b.cap
  BY <1>2
<1> HIDE DEF size, d
<1>6. \A j \in 0 .. size - 1 : d[j] \in Elements
  BY <1>3
<1>7. Good(Sized(b, newSize)) /\ Sized(b, newSize).size = size
  BY <1>1, <1>4, <1>5, <1>6, BlockIsGood, BlockIsBlock
<1> QED
  BY <1>7 DEF size

LEMMA EnlargedIsGood ==
  ASSUME NEW b, Good(b), NEW newSize \in 1 .. MaxSize, b.cap < newSize,
         NEW update \in BOOLEAN, NEW exact \in BOOLEAN
  PROVE  /\ Good(Enlarged(b, newSize, update, exact))
         /\ update => Enlarged(b, newSize, update, exact).size = Larger(b.size, newSize)
<1> DEFINE cap  == NewCapacity(newSize, exact)
           size == IF update THEN Larger(b.size, newSize) ELSE 0
<1>1. /\ IsBlock(b) /\ b.cap \in Nat /\ b.size \in Nat /\ b.size <= b.cap
  BY DEF Good, IsBlock, Backed
<1>2. cap \in Nat /\ newSize <= cap /\ newSize \in Nat
  BY PowerAssumption, MaxSizeAssumption DEF NewCapacity
<1>3. update => size = Larger(b.size, newSize)
  OBVIOUS
<1>4. Enlarged(b, newSize, update, exact) = Block(cap * TypeSize, cap, size, Memory(b, size))
  BY DEF Enlarged
<1>5. size \in Nat /\ size <= cap
  <2> HIDE DEF cap
  <2>1. Larger(b.size, newSize) \in Nat /\ Larger(b.size, newSize) <= newSize
    BY <1>1, <1>2 DEF Larger
  <2>2. CASE update
    BY <2>1, <2>2, <1>2
  <2>3. CASE ~update
    BY <2>3, <1>2
  <2> QED
    BY <2>2, <2>3
<1> DEFINE d == Memory(b, size)
           room == cap * TypeSize
<1> HIDE DEF cap, size
<1>6. \A j \in 0 .. size - 1 : d[j] \in Elements
  BY <1>1, <1>5, MemoryIsTyped
<1>7. room \in Nat /\ cap * TypeSize <= room
  BY <1>2, Scaled
<1>8. Enlarged(b, newSize, update, exact) = Block(room, cap, size, d)
  BY <1>4
<1> HIDE DEF d, room
<1> QED
  BY <1>2, <1>3, <1>5, <1>6, <1>7, <1>8, BlockIsGood, BlockIsBlock

\* __fpda_maybe_grow returns a backed array of the larger of the old and the
\* new size, provided its callers ask for no more than MaxSize or the capacity.
LEMMA GrowingIsGood ==
  ASSUME NEW b, Good(b), NEW newSize \in Nat, newSize <= MaxSize \/ newSize <= b.cap,
         NEW update \in BOOLEAN, NEW exact \in BOOLEAN
  PROVE  /\ Good(MaybeGrow(b, newSize, update, exact))
         /\ update => MaybeGrow(b, newSize, update, exact).size = Larger(b.size, newSize)
<1> DEFINE o == Opened(b, newSize, exact)
<1>1. Good(o) /\ o.size = b.size /\ b.cap <= o.cap
  BY OpenedIsGood
<1>2. b.cap \in Nat /\ o.cap \in Nat
  BY <1>1 DEF Good, IsBlock
<1> HIDE DEF o
<1>3. CASE o.cap >= newSize /\ update
  <2>1. MaybeGrow(b, newSize, update, exact) = Sized(o, newSize)
    BY <1>3 DEF MaybeGrow, o
  <2> QED
    BY <2>1, <1>1, <1>2, <1>3, SizedIsGood
<1>4. CASE o.cap >= newSize /\ ~update
  BY <1>1, <1>4 DEF MaybeGrow, o
<1>5. CASE ~(o.cap >= newSize)
  <2>1. MaybeGrow(b, newSize, update, exact) = Enlarged(o, newSize, update, exact)
    BY <1>5 DEF MaybeGrow, o
  <2>2. newSize \in 1 .. MaxSize /\ o.cap < newSize
    BY <1>1, <1>2, <1>5, MaxSizeAssumption
  <2> QED
    BY <2>1, <2>2, <1>1, EnlargedIsGood
<1> QED
  BY <1>3, <1>4, <1>5

LEMMA FilledIsGood ==
  ASSUME NEW b, Good(b), NEW from, NEW v \in Values
  PROVE  Good(Filled(b, from, v))
<1>1. /\ b.room \in Nat /\ b.cap \in Nat /\ b.size \in Nat
      /\ b.size <= b.cap /\ b.cap * TypeSize <= b.room
      /\ b.data \in [0 .. b.size - 1 -> Elements]
  BY DEF Good, IsBlock, Backed, Elements
<1> DEFINE d == [j \in 0 .. b.size - 1 |-> IF j >= from THEN v ELSE b.data[j]]
<1>2. \A j \in 0 .. b.size - 1 : d[j] \in Elements
  BY <1>1 DEF Elements
<1>3. Filled(b, from, v) = Block(b.room, b.cap, b.size, d)
  BY DEF Filled
<1> HIDE DEF d
<1> QED
  BY <1>1, <1>2, <1>3, BlockIsGood

LEMMA InsertedIsGood ==
  ASSUME NEW b, Good(b), NEW count \in Nat, b.size + count <= MaxSize,
         NEW pos \in Nat, pos <= b.size, NEW v \in Elements
  PROVE  Good(Inserted(b, pos, count, v))
<1> DEFINE g == Grown(b, count)
           moved == Moved(g.data, pos + count, pos, g.size - pos - count)
           d == [j \in 0 .. g.size - 1 |-> IF j \in pos .. pos + count - 1 THEN v ELSE moved[j]]
<1>1. b.size \in Nat /\ b.size + count \in Nat
  BY DEF Good, IsBlock
<1>2. Good(g) /\ g.size = Larger(b.size, b.size + count)
  BY <1>1, GrowingIsGood DEF Grown
<1> HIDE DEF g
<1>3. /\ g.room \in Nat /\ g.cap \in Nat /\ g.size \in Nat
      /\ g.size <= g.cap /\ g.cap * TypeSize <= g.room
      /\ g.data \in [0 .. g.size - 1 -> Elements]
  BY <1>2 DEF Good, IsBlock, Backed, Elements
<1>4. g.size = b.size + count
  BY <1>1, <1>2 DEF Larger
<1>5. moved \in [0 .. g.size - 1 -> Elements]
  <2> DEFINE to == pos + count
             len == g.size - pos - count
  <2>1. to \in Nat /\ len \in Int /\ to + len <= g.size /\ pos + len <= g.size
    <3>1. g.size \in Nat
      BY <1>3
    <3>2. PICK m \in Nat : g.size = m
      BY <3>1
    <3> QED
      BY <3>2
  <2> HIDE DEF to, len
  <2>2. Moved(g.data, to, pos, len) \in [0 .. g.size - 1 -> Elements]
    BY <2>1, <1>3, MovedIsTyped
  <2> QED
    BY <2>2 DEF to, len
<1> HIDE DEF moved
<1>6. \A j \in 0 .. g.size - 1 : d[j] \in Elements
  BY <1>5
<1>7. Inserted(b, pos, count, v) = Block(g.room, g.cap, g.size, d)
  BY DEF Inserted, g, moved
<1> HIDE DEF d
<1> QED
  BY <1>3, <1>6, <1>7, BlockIsGood

LEMMA ShrunkIsGood ==
  ASSUME NEW size \in Nat, NEW d, \A j \in 0 .. size - 1 : d[j] \in Elements
  PROVE  Good(Shrunk(size, d))
<1>1. size * TypeSize \in Nat
  BY Scaled
<1>2. Larger(1, size * TypeSize) \in Nat /\ size * TypeSize <= Larger(1, size * TypeSize)
  BY <1>1, LargerIsLarger
<1> QED
  BY <1>2, BlockIsGood DEF Shrunk

-----------------------------------------------------------------------------
(* The calls. *)

Inv == TypeOK /\ CapacityIsBacked

\* A call that leaves one array with a block, backed if nothing went wrong.
LEMMA OneBlock ==
  ASSUME Inv, fault = "none", NEW x \in Arrays, NEW b, IsBlock(b),
         blocks' = [blocks EXCEPT ![x] = b],
         fault' \in Faults, fault' = "none" => Backed(b)
  PROVE  Inv'
<1>1. DOMAIN blocks = Arrays /\ \A y \in Arrays : IsBlock(blocks[y]) /\ Backed(blocks[y])
  BY DEF Inv, TypeOK, CapacityIsBacked
<1>2. DOMAIN blocks' = Arrays
  BY <1>1
<1>3. \A y \in Arrays : blocks'[y] = IF y = x THEN b ELSE blocks[y]
  BY <1>1
<1>4. \A y \in Arrays : IsBlock(blocks'[y]) /\ (fault' = "none" => Backed(blocks'[y]))
  BY <1>1, <1>3
<1>5. (\A y \in Arrays : IsBlock(blocks[y]))'
  BY <1>4 DEF IsBlock
<1>6. (\A y \in Arrays : fault = "none" => Backed(blocks[y]))'
  BY <1>4 DEF Backed
<1> QED
  BY <1>2, <1>5, <1>6 DEF Inv, TypeOK, CapacityIsBacked

LEMMA NoFault == "none" \in Faults
  BY DEF Faults

LEMMA GoodBlock ==
  ASSUME Inv, NEW x \in Arrays, NEW b, Good(b), Becomes(x, b) \/ CopiesTo(x, b)
  PROVE  Inv'
<1>1. fault' \in Faults
  BY DEF Becomes, CopiesTo, NullCopies, Faults
<1>2. fault = "none" /\ blocks' = [blocks EXCEPT ![x] = b]
  BY DEF Becomes, CopiesTo
<1> QED
  BY <1>1, <1>2, OneBlock DEF Good

\* The block of an array, as long as nothing went wrong.
LEMMA BlocksAreGood ==
  ASSUME Inv, fault = "none", NEW x \in Arrays
  PROVE  /\ Good(blocks[x])
         /\ blocks[x].room \in Nat /\ blocks[x].cap \in Nat /\ blocks[x].size \in Nat
         /\ blocks[x].size <= blocks[x].cap /\ blocks[x].cap * TypeSize <= blocks[x].room
         /\ blocks[x].data \in [0 .. blocks[x].size - 1 -> Elements]
  BY DEF Inv, TypeOK, CapacityIsBacked, Good, IsBlock, Backed, Elements

LEMMA SizesAreNat == Sizes \subseteq Nat /\ \A s \in Sizes : s <= MaxSize
  BY MaxSizeAssumption DEF Sizes

\* The calls that add elements.
LEMMA AddingIsGood ==
  ASSUME Inv, NEW x \in Arrays, NEW size \in Sizes, NEW v \in Values,
         \/ GrowAndInitialize(x, size, v) \/ GrowToSizeAndInitialize(x, size, v)
         \/ PushBack(x, v) \/ Insert(x, size, v)
  PROVE  Inv'
<1>1. fault = "none"
  BY DEF GrowAndInitialize, GrowToSizeAndInitialize, PushBack, Insert, Becomes
<1>2. Good(blocks[x]) /\ blocks[x].size \in Nat
  BY <1>1, BlocksAreGood
<1>3. ASSUME NEW k \in Nat, GrowAndInitialize(x, k, v) PROVE Inv'
  <2>1. blocks[x].size + k \in Nat /\ blocks[x].size + k <= MaxSize
    BY <1>2, <1>3 DEF GrowAndInitialize
  <2>2. Good(Grown(blocks[x], k))
    BY <1>2, <2>1, GrowingIsGood DEF Grown
  <2>3. Good(Filled(Grown(blocks[x], k), blocks[x].size, v))
    BY <2>2, FilledIsGood
  <2> QED
    BY <1>3, <2>3, GoodBlock DEF GrowAndInitialize
<1>4. CASE GrowAndInitialize(x, size, v)
  BY <1>3, <1>4, SizesAreNat
<1>5. CASE PushBack(x, v)
  BY <1>3, <1>5 DEF PushBack
<1>6. CASE GrowToSizeAndInitialize(x, size, v)
  <2>1. Good(GrownTo(blocks[x], size))
    BY <1>2, SizesAreNat, GrowingIsGood DEF GrownTo
  <2>2. Good(Filled(GrownTo(blocks[x], size), blocks[x].size, v))
    BY <2>1, FilledIsGood
  <2> QED
    BY <1>6, <2>2, GoodBlock DEF GrowToSizeAndInitialize
<1>7. CASE Insert(x, size, v)
  <2>1. /\ size \in Nat /\ size <= blocks[x].size /\ blocks[x].size + 1 <= MaxSize
        /\ v \in Elements
    BY <1>2, <1>7, SizesAreNat, MaxSizeAssumption DEF Insert, Elements
  <2>2. Good(Inserted(blocks[x], size, 1, v))
    BY <1>2, <2>1, InsertedIsGood
  <2> QED
    BY <1>7, <2>2, GoodBlock DEF Insert
<1> QED
  BY <1>4, <1>5, <1>6, <1>7

\* The calls that take a size.
LEMMA SizingIsGood ==
  ASSUME Inv, NEW x \in Arrays, NEW size \in Sizes,
         \/ Reserve(x, size) \/ GrowToSize(x, size) \/ Grow(x, size)
         \/ PopBackN(x, size) \/ PopBackToSize(x, size) \/ Resize(x, size)
  PROVE  Inv'
<1> DEFINE b == blocks[x]
<1>1. fault = "none"
  BY DEF Reserve, GrowToSize, Grow, PopBackN, PopBackToSize, Resize, Becomes, CopiesTo
<1>2. /\ Good(b) /\ b.room \in Nat /\ b.cap \in Nat /\ b.size \in Nat
      /\ b.size <= b.cap /\ b.cap * TypeSize <= b.room
      /\ b.data \in [0 .. b.size - 1 -> Elements] /\ IsBlock(b)
  BY <1>1, BlocksAreGood DEF Good
<1>3. size \in Nat /\ size <= MaxSize
  BY SizesAreNat
<1>4. CASE Reserve(x, size)
  BY <1>2, <1>3, <1>4, GrowingIsGood, GoodBlock DEF Reserve
<1>5. CASE GrowToSize(x, size)
  BY <1>2, <1>3, <1>5, GrowingIsGood, GoodBlock DEF GrowToSize, GrownTo
<1>6. CASE Grow(x, size)
  <2>1. b.size + size \in Nat /\ b.size + size <= MaxSize
    BY <1>2, <1>3, <1>6 DEF Grow
  <2> QED
    BY <1>2, <1>6, <2>1, GrowingIsGood, GoodBlock DEF Grow, Grown
<1>7. ASSUME NEW count \in Nat, PopBackN(x, count) PROVE Inv'
  <2> DEFINE left == IF b.size = 0 THEN 0 ELSE b.size - count
  <2>1. left \in Nat /\ left <= b.size
    BY <1>2, <1>7 DEF PopBackN
  <2> DEFINE c == Block(b.room, b.cap, left, b.data)
  <2>2. \A j \in 0 .. left - 1 : b.data[j] \in Elements
    BY <1>2, <2>1
  <2>3. Becomes(x, MaybeGrow(c, left, TRUE, FALSE))
    BY <1>7 DEF PopBackN
  <2> HIDE DEF left, b
  <2>4. Good(c) /\ c.cap = b.cap
    BY <1>2, <2>1, <2>2, BlockIsGood, BlockIsBlock
  <2> HIDE DEF c
  <2>5. left <= c.cap
    BY <1>2, <2>1, <2>4
  <2> QED
    BY <2>1, <2>3, <2>4, <2>5, GrowingIsGood, GoodBlock
<1>8. CASE PopBackN(x, size)
  BY <1>3, <1>7, <1>8
<1>9. CASE PopBackToSize(x, size)
  BY <1>2, <1>3, <1>7, <1>9 DEF PopBackToSize
<1>10. CASE Resize(x, size)
  <2>1. CASE size > b.cap
    BY <1>2, <1>3, <1>10, <2>1, GrowingIsGood, GoodBlock DEF Resize, GrownTo
  <2>2. CASE ~(size > b.cap)
    <3>1. Memory(b, size) \in [0 .. size - 1 -> Elements]
      BY <1>2, <1>3, MemoryIsTyped
    <3>2. Good(Shrunk(size, Memory(b, size)))
      BY <1>3, <3>1, ShrunkIsGood
    <3> QED
      BY <1>10, <2>2, <3>2, GoodBlock DEF Resize
  <2> QED
    BY <2>1, <2>2
<1> QED
  BY <1>4, <1>5, <1>6, <1>8, <1>9, <1>10

\* The calls that take a range.
LEMMA RangingIsGood ==
  ASSUME Inv, NEW x \in Arrays, NEW pos \in Sizes, NEW count \in Sizes,
         \/ InsertUninitialized(x, pos, count)
         \/ DeleteRange(x, pos, count) \/ ShrinkDeleteRange(x, pos, count)
         \/ SwapDeleteRange(x, pos, count)
  PROVE  Inv'
<1> DEFINE b == blocks[x]
           left == b.size - count
           rest == b.size - pos - count
           d == Moved(b.data, pos, pos + count, rest)
<1>1. fault = "none"
  BY DEF InsertUninitialized, DeleteRange, ShrinkDeleteRange, SwapDeleteRange, Becomes, CopiesTo
<1>2. /\ Good(b) /\ b.room \in Nat /\ b.cap \in Nat /\ b.size \in Nat
      /\ b.size <= b.cap /\ b.cap * TypeSize <= b.room
      /\ b.data \in [0 .. b.size - 1 -> Elements]
  BY <1>1, BlocksAreGood
<1>3. pos \in Nat /\ count \in Nat
  BY SizesAreNat
<1>4. ASSUME pos + count <= b.size
      PROVE  /\ left \in Nat /\ left <= b.size /\ left <= b.cap
             /\ \A j \in 0 .. left - 1 : d[j] \in Elements
  <2>1. left \in Nat /\ left <= b.size /\ left <= b.cap
    BY <1>2, <1>3, <1>4
  <2>2. /\ rest \in Int /\ pos + count \in Nat
        /\ pos + rest <= b.size /\ (pos + count) + rest <= b.size
    BY <1>2, <1>3, <1>4
  <2> HIDE DEF b, rest
  <2>3. d \in [0 .. b.size - 1 -> Elements]
    BY <1>2, <1>3, <2>2, MovedIsTyped
  <2> HIDE DEF d
  <2> QED
    BY <1>2, <2>1, <2>3
<1>5. CASE InsertUninitialized(x, pos, count)
  <2>1. b.size + count <= MaxSize /\ pos <= b.size /\ None \in Elements
    BY <1>5 DEF InsertUninitialized, Elements
  <2>2. Good(Inserted(b, pos, count, None))
    BY <1>2, <1>3, <2>1, InsertedIsGood
  <2> QED
    BY <1>5, <2>2, GoodBlock DEF InsertUninitialized
<1>6. CASE DeleteRange(x, pos, count)
  <2>1. pos + count <= b.size /\ Becomes(x, Block(b.room, b.cap, left, d))
    BY <1>6 DEF DeleteRange
  <2>2. left \in Nat /\ left <= b.cap /\ \A j \in 0 .. left - 1 : d[j] \in Elements
    BY <1>4, <2>1
  <2> HIDE DEF b, left, d
  <2>3. Good(Block(b.room, b.cap, left, d))
    BY <1>2, <2>2, BlockIsGood
  <2> QED
    BY <2>1, <2>3, GoodBlock
<1>7. CASE ShrinkDeleteRange(x, pos, count)
  <2>1. pos + count <= b.size /\ CopiesTo(x, Shrunk(left, d))
    BY <1>7 DEF ShrinkDeleteRange
  <2>2. left \in Nat /\ \A j \in 0 .. left - 1 : d[j] \in Elements
    BY <1>4, <2>1
  <2> HIDE DEF b, left, d
  <2>3. Good(Shrunk(left, d))
    BY <2>2, ShrunkIsGood
  <2> QED
    BY <2>1, <2>3, GoodBlock
<1>8. CASE SwapDeleteRange(x, pos, count)
  <2> DEFINE copies == IF b.cap - b.size > count THEN Copies(b.data, pos, left, count)
                       ELSE {Moved(b.data, pos, left, count)}
  <2>1. pos + count <= b.size
    BY <1>8 DEF SwapDeleteRange
  <2>2. PICK e \in copies : CopiesTo(x, Block(b.room, b.cap, left, e))
    BY <1>8 DEF SwapDeleteRange
  <2>3. left \in Nat /\ left <= b.cap /\ left + count <= b.size
    BY <1>2, <1>3, <1>4, <2>1
  <2> HIDE DEF b, left
  <2>4. /\ Copies(b.data, pos, left, count) \subseteq [0 .. b.size - 1 -> Elements]
        /\ Moved(b.data, pos, left, count) \in [0 .. b.size - 1 -> Elements]
    <3>1. b.size \in Nat /\ b.data \in [0 .. b.size - 1 -> Elements] /\ count \in Int
      BY <1>2, <1>3
    <3>2. Copies(b.data, pos, left, count) \subseteq [0 .. b.size - 1 -> Elements]
      BY <1>3, <2>1, <2>3, <3>1, CopiesAreTyped
    <3>3. Moved(b.data, pos, left, count) \in [0 .. b.size - 1 -> Elements]
      BY <1>3, <2>1, <2>3, <3>1, MovedIsTyped
    <3> QED
      BY <3>2, <3>3
  <2>5. e \in [0 .. b.size - 1 -> Elements]
    BY <2>2, <2>4
  <2>6. \A j \in 0 .. left - 1 : e[j] \in Elements
    BY <1>2, <1>3, <2>3, <2>5
  <2>7. Good(Block(b.room, b.cap, left, e))
    BY <1>2, <2>3, <2>6, BlockIsGood
  <2> QED
    BY <2>2, <2>7, GoodBlock
<1> QED
  BY <1>5, <1>6, <1>7, <1>8

LEMMA SwappingIsGood ==
  ASSUME Inv, NEW x \in Arrays, NEW p \in Sizes, NEW q \in Sizes, NEW count \in Sizes,
         SwapRange(x, p, q, count)
  PROVE  Inv'
<1> DEFINE b == blocks[x]
<1>1. fault = "none"
  BY DEF SwapRange, Becomes
<1>2. /\ Good(b) /\ b.room \in Nat /\ b.cap \in Nat /\ b.size \in Nat
      /\ b.size <= b.cap /\ b.cap * TypeSize <= b.room
      /\ b.data \in [0 .. b.size - 1 -> Elements]
  BY <1>1, BlocksAreGood
<1>3. p \in Nat /\ q \in Nat /\ count \in Nat
  BY SizesAreNat
<1>4. p + count <= b.size /\ q + count <= b.size
  BY DEF SwapRange
<1>5. PICK e \in Copies(b.data, p, q, count) :
        Becomes(x, Block(b.room, b.cap, b.size, [j \in 0 .. b.size - 1 |->
          IF p # q /\ j \in q .. q + count - 1 THEN b.data[p + j - q] ELSE e[j]]))
  BY DEF SwapRange
<1> DEFINE d == [j \in 0 .. b.size - 1 |->
                   IF p # q /\ j \in q .. q + count - 1 THEN b.data[p + j - q] ELSE e[j]]
<1> HIDE DEF b
<1>6. b.size \in Nat /\ b.data \in [0 .. b.size - 1 -> Elements] /\ count \in Int
  BY <1>2, <1>3
<1>7. e \in [0 .. b.size - 1 -> Elements]
  BY <1>3, <1>4, <1>5, <1>6, CopiesAreTyped
<1>8. ASSUME NEW j \in 0 .. b.size - 1 PROVE d[j] \in Elements
  <2>1. CASE p # q /\ j \in q .. q + count - 1
    <3>1. p + j - q \in 0 .. b.size - 1
      BY <1>3, <1>4, <1>6, <2>1
    <3>2. b.data[p + j - q] \in Elements
      BY <1>6, <3>1
    <3>3. d[j] = b.data[p + j - q]
      BY <2>1
    <3> QED
      BY <3>2, <3>3
  <2>2. CASE ~(p # q /\ j \in q .. q + count - 1)
    BY <1>7, <2>2
  <2> QED
    BY <2>1, <2>2
<1> HIDE DEF d
<1>9. Good(Block(b.room, b.cap, b.size, d))
  BY <1>2, <1>8, BlockIsGood
<1> QED
  BY <1>5, <1>9, GoodBlock DEF d

\* The calls that take an array alone.
LEMMA AloneIsGood ==
  ASSUME Inv, NEW x \in Arrays,
         ShrinkToFit(x) \/ PopFront(x) \/ Clear(x) \/ Free(x)
  PROVE  Inv'
<1> DEFINE b == blocks[x]
<1>1. fault = "none"
  BY DEF ShrinkToFit, ShrinkDeleteRange, PopFront, Clear, Free, Becomes, CopiesTo
<1>2. /\ Good(b) /\ b.room \in Nat /\ b.cap \in Nat /\ b.size \in Nat
      /\ b.size <= b.cap /\ b.cap * TypeSize <= b.room
      /\ b.data \in [0 .. b.size - 1 -> Elements]
  BY <1>1, BlocksAreGood
<1>3. CASE ShrinkToFit(x)
  BY <1>3, RangingIsGood, MaxSizeAssumption DEF ShrinkToFit, Sizes
<1>4. CASE PopFront(x)
  <2>1. CASE b.size <= 1
    BY <1>2, <1>4, <2>1, GoodBlock DEF PopFront
  <2>2. CASE ~(b.size <= 1)
    <3> DEFINE left == b.size - 1
               d == Moved(b.data, 0, 1, left)
    <3>1. blocks' = [blocks EXCEPT ![x] = Block(b.room, b.cap, left, d)] /\ fault' \in Faults
      BY <1>4, <2>2 DEF PopFront, Faults
    <3>2. left \in Nat /\ left <= b.cap /\ 0 + left <= b.size /\ 1 + left <= b.size
      BY <1>2, <2>2
    <3> HIDE DEF b, left
    <3>3. d \in [0 .. b.size - 1 -> Elements]
      <4>1. b.size \in Nat /\ b.data \in [0 .. b.size - 1 -> Elements]
        BY <1>2
      <4> QED
        BY <3>2, <4>1, MovedIsTyped
    <3> HIDE DEF d
    <3>4. \A j \in 0 .. left - 1 : d[j] \in Elements
      BY <1>2, <3>2, <3>3
    <3>5. Good(Block(b.room, b.cap, left, d))
      BY <1>2, <3>2, <3>4, BlockIsGood
    <3> QED
      BY <1>1, <3>1, <3>5, OneBlock DEF Good
  <2> QED
    BY <2>1, <2>2
<1>5. CASE Clear(x)
  <2>1. Becomes(x, Block(b.room, b.cap, 0, <<>>))
    BY <1>5 DEF Clear
  <2>2. \A j \in 0 .. 0 - 1 : (<<>>)[j] \in Elements
    OBVIOUS
  <2> HIDE DEF b
  <2>3. Good(Block(b.room, b.cap, 0, <<>>))
    BY <1>2, <2>2, BlockIsGood
  <2> QED
    BY <2>1, <2>3, GoodBlock
<1>6. CASE Free(x)
  BY <1>6, NullIsGood, GoodBlock DEF Free
<1> QED
  BY <1>3, <1>4, <1>5, <1>6

\* Cloning: the block of the destination holds the bytes of the capacity it is
\* given, whether it is kept or reallocated.
LEMMA CloningIsGood ==
  ASSUME Inv, NEW x \in Arrays, NEW y \in Arrays, NEW shrink \in BOOLEAN,
         CloneTo(x, y, shrink)
  PROVE  Inv'
<1> DEFINE dest  == blocks[x]
           src   == blocks[y]
           cap   == IF shrink THEN src.size ELSE src.cap
           need  == cap * TypeSize
           kept  == ~IsNull(dest) /\ dest.cap >= need
           bytes == Larger(dest.size, need)
           room  == IF kept THEN dest.room ELSE Larger(1, need)
           size  == IF x = y /\ kept THEN bytes ELSE src.size
           d     == Memory(src, size)
<1>1. fault = "none"
  BY DEF CloneTo
<1>2. /\ dest.room \in Nat /\ dest.cap \in Nat /\ dest.size \in Nat
      /\ dest.size <= dest.cap /\ dest.cap * TypeSize <= dest.room
  BY <1>1, BlocksAreGood
<1>3. src.cap \in Nat /\ src.size \in Nat /\ src.size <= src.cap /\ IsBlock(src)
  BY <1>1, BlocksAreGood DEF Good
<1>4. blocks' = [blocks EXCEPT ![x] = Block(room, cap, size, d)]
  BY DEF CloneTo, Cloned
<1>5. fault' \in Faults
  BY DEF CloneTo, NullCopies, Faults
<1>6. x = y /\ size > cap => fault' # "none"
  <2>1. CASE IsNull(src) /\ x = y
    <3>1. src.size <= cap /\ ~kept
      BY <1>3, <2>1
    <3> QED
      BY <1>3, <2>1, <3>1
  <2>2. CASE ~IsNull(src) /\ x = y
    BY <2>2 DEF CloneTo
  <2> QED
    BY <2>1, <2>2
<1>7. cap \in Nat /\ src.size <= cap
  BY <1>3
<1> HIDE DEF dest, src, cap
<1>8. need \in Nat /\ need >= cap
  BY <1>7, Scaled
<1>9. dest.cap * TypeSize \in Nat /\ dest.cap * TypeSize >= dest.cap
  BY <1>2, Scaled
<1> HIDE DEF need
<1>10. room \in Nat /\ need <= room
  <2>1. CASE kept
    BY <2>1, <1>2, <1>8, <1>9
  <2>2. CASE ~kept
    BY <2>2, <1>8, LargerIsLarger
  <2> QED
    BY <2>1, <2>2
<1>11. size \in Nat /\ (x # y => size <= cap)
  <2>1. bytes \in Nat
    BY <1>2, <1>8, LargerIsLarger
  <2> QED
    BY <2>1, <1>3, <1>7
<1> HIDE DEF room, size
<1>12. \A j \in 0 .. size - 1 : d[j] \in Elements
  BY <1>3, <1>11, MemoryIsTyped
<1> DEFINE b == Block(room, cap, size, d)
<1> HIDE DEF d
<1>13. IsBlock(b) /\ b.room = room /\ b.cap = cap /\ b.size = size
  BY <1>7, <1>10, <1>11, <1>12, BlockIsBlock
<1>14. fault' = "none" => size <= cap
  BY <1>6, <1>7, <1>11
<1>15. fault' = "none" => Backed(b)
  <2> HIDE DEF b
  <2> QED
    BY <1>10, <1>13, <1>14 DEF Backed, need
<1>16. blocks' = [blocks EXCEPT ![x] = b]
  BY <1>4
<1> HIDE DEF b
<1> QED
  BY <1>1, <1>5, <1>13, <1>15, <1>16, OneBlock

-----------------------------------------------------------------------------
LEMMA InvHolds == Spec => []Inv
<1>1. Init => Inv
  BY NullIsGood DEF Init, Inv, TypeOK, CapacityIsBacked, Good, Faults
<1>2. Inv /\ [Next]_vars => Inv'
  <2> SUFFICES ASSUME Inv, [Next]_vars PROVE Inv'
    OBVIOUS
  <2>1. CASE UNCHANGED vars
    BY <2>1 DEF vars, Inv, TypeOK, CapacityIsBacked, IsBlock, Backed
  <2>2. ASSUME NEW x \in Arrays, NEW size \in Sizes,
               \/ Reserve(x, size) \/ GrowToSize(x, size) \/ Grow(x, size)
               \/ PopBackN(x, size) \/ PopBackToSize(x, size) \/ Resize(x, size)
        PROVE  Inv'
    BY <2>2, SizingIsGood
  <2>3. ASSUME NEW x \in Arrays, NEW size \in Sizes, NEW v \in Values,
               \/ GrowAndInitialize(x, size, v) \/ GrowToSizeAndInitialize(x, size, v)
               \/ PushBack(x, v) \/ Insert(x, size, v)
        PROVE  Inv'
    BY <2>3, AddingIsGood
  <2>4. ASSUME NEW x \in Arrays, NEW v \in Values, PushBack(x, v) PROVE Inv'
    BY <2>4, AddingIsGood, MaxSizeAssumption DEF Sizes
  <2>5. ASSUME NEW x \in Arrays, NEW pos \in Sizes, NEW count \in Sizes,
               \/ InsertUninitialized(x, pos, count)
               \/ DeleteRange(x, pos, count) \/ ShrinkDeleteRange(x, pos, count)
               \/ SwapDeleteRange(x, pos, count)
        PROVE  Inv'
    BY <2>5, RangingIsGood
  <2>6. ASSUME NEW x \in Arrays, NEW p \in Sizes, NEW q \in Sizes, NEW count \in Sizes,
               SwapRange(x, p, q, count)
        PROVE  Inv'
    BY <2>6, SwappingIsGood
  <2>7. ASSUME NEW x \in Arrays, ShrinkToFit(x) \/ PopFront(x) \/ Clear(x) \/ Free(x)
        PROVE  Inv'
    BY <2>7, AloneIsGood
  <2>8. ASSUME NEW x \in Arrays, NEW y \in Arrays, NEW shrink \in BOOLEAN,
               CloneTo(x, y, shrink)
        PROVE  Inv'
    BY <2>8, CloningIsGood
  <2> QED
    BY <2>1, <2>2, <2>3, <2>4, <2>5, <2>6, <2>7, <2>8 DEF Next
<1> QED
  BY <1>1, <1>2, PTL DEF Spec

\* Arrays keep defined elements below their size, whatever calls are made
\* (all of include/fp/dynarray.h).
THEOREM TypeCorrect == Spec => []TypeOK
<1>1. Inv => TypeOK
  BY DEF Inv
<1> QED
  BY <1>1, InvHolds, PTL

\* No call leaves an array whose capacity exceeds the bytes of its block or
\* whose size exceeds its capacity, unless it has misused memory already
\* (__fpda_maybe_grow, __fpda_delete and __fpda_clone_to).
THEOREM BlocksAreBacked == Spec => []CapacityIsBacked
<1>1. Inv => CapacityIsBacked
  BY DEF Inv
<1> QED
  BY <1>1, InvHolds, PTL

\* What may go wrong in a call, of the ways FaultsAreNarrow admits.
Narrow ==
  \E x, y \in Arrays, shrink \in BOOLEAN :
    \/ fault' = "null copy" /\ IsNull(blocks[y])
    \/ fault' = "overflow" /\ PopFront(x) /\ blocks[x].size = blocks[x].cap
    \/ fault' \in {"use after free", "oversize"} /\ CloneTo(x, x, shrink)
    \/ /\ fault' = "overread" /\ CloneTo(x, y, shrink)
       /\ blocks[x].size > TypeSize * blocks[y].size

LEMMA CopyIsNarrow ==
  ASSUME fault' # fault, NEW x \in Arrays, NEW b, Becomes(x, b) \/ CopiesTo(x, b)
  PROVE  Narrow
  BY DEF Narrow, Becomes, CopiesTo, NullCopies

LEMMA PopIsNarrow ==
  ASSUME Inv, fault' # fault, NEW x \in Arrays, PopFront(x)
  PROVE  Narrow
<1> DEFINE b == blocks[x]
<1>1. fault = "none"
  BY DEF PopFront, Becomes
<1>2. /\ b.room \in Nat /\ b.cap \in Nat /\ b.size \in Nat
      /\ b.size <= b.cap /\ b.cap * TypeSize <= b.room
  BY <1>1, BlocksAreGood
<1>3. fault' = "overflow" /\ (b.size + 1) * TypeSize > b.room + Slack
  BY <1>1 DEF PopFront, Becomes
<1>4. b.size = b.cap
  <2> HIDE DEF b
  <2> SUFFICES ASSUME b.size + 1 <= b.cap PROVE FALSE
    BY <1>2
  <2>1. PICK more \in Nat : b.cap = (b.size + 1) + more
    <3>1. b.cap - (b.size + 1) \in Nat /\ b.cap = (b.size + 1) + (b.cap - (b.size + 1))
      BY <1>2
    <3> QED
      BY <3>1
  <2>2. b.cap * TypeSize = (b.size + 1) * TypeSize + more * TypeSize
    BY <1>2, <2>1, TypeSizeAssumption
  <2>3. more * TypeSize \in Nat /\ (b.size + 1) * TypeSize \in Nat
    BY <1>2, <2>1, Scaled
  <2> QED
    BY <1>2, <1>3, <2>2, <2>3 DEF Slack
<1> QED
  BY <1>3, <1>4 DEF Narrow

LEMMA CloneIsNarrow ==
  ASSUME Inv, fault' # fault, NEW x \in Arrays, NEW y \in Arrays, NEW shrink \in BOOLEAN,
         CloneTo(x, y, shrink)
  PROVE  Narrow
<1> DEFINE dest  == blocks[x]
           src   == blocks[y]
           cap   == IF shrink THEN src.size ELSE src.cap
           need  == cap * TypeSize
           bytes == Larger(dest.size, need)
<1>1. fault = "none"
  BY DEF CloneTo
<1>2. CASE IsNull(src)
  BY <1>1, <1>2 DEF CloneTo, NullCopies, Narrow
<1>3. CASE ~IsNull(src) /\ x = y
  BY <1>1, <1>3 DEF CloneTo, Narrow
<1>4. CASE ~IsNull(src) /\ x # y
  <2>1. fault' = "overread" /\ bytes > src.room + Slack
    BY <1>1, <1>4 DEF CloneTo
  <2>2. /\ src.room \in Nat /\ src.cap \in Nat /\ src.size \in Nat
        /\ src.size <= src.cap /\ src.cap * TypeSize <= src.room /\ dest.size \in Nat
    BY <1>1, BlocksAreGood
  <2>3. cap \in Nat /\ cap <= src.cap /\ src.size <= src.cap
    BY <2>2
  <2> HIDE DEF dest, src, cap
  <2>4. ASSUME NEW k \in Nat, k <= src.cap PROVE k * TypeSize \in Nat /\ k * TypeSize <= src.room
    <3>1. src.cap - k \in Nat /\ src.cap = k + (src.cap - k)
      BY <2>2, <2>4
    <3>2. PICK more \in Nat : src.cap = k + more
      BY <3>1
    <3>3. src.cap * TypeSize = k * TypeSize + more * TypeSize
      BY <3>2, <2>4, TypeSizeAssumption
    <3>4. more * TypeSize \in Nat /\ k * TypeSize \in Nat /\ src.cap * TypeSize \in Nat
      BY <2>2, <2>4, <3>2, Scaled
    <3> QED
      BY <2>2, <3>3, <3>4
  <2>5. need \in Nat /\ need <= src.room
    BY <2>3, <2>4
  <2>6. src.size * TypeSize \in Nat /\ src.size * TypeSize <= src.room
    BY <2>2, <2>4
  <2> HIDE DEF need
  <2>7. dest.size > src.room
    BY <2>1, <2>2, <2>5 DEF Larger, Slack
  <2>8. TypeSize * src.size = src.size * TypeSize
    BY <2>2, TypeSizeAssumption
  <2>9. dest.size > TypeSize * src.size
    BY <2>2, <2>6, <2>7, <2>8
  <2> QED
    BY <2>1, <2>9 DEF Narrow, dest, src
<1> QED
  BY <1>2, <1>3, <1>4

\* Every misuse of memory is of one of the kinds FaultsAreNarrow lists, for
\* arrays of elements of any size.
THEOREM MisuseIsNarrow == Spec => FaultsAreNarrow
<1>1. Inv /\ [Next]_vars => (fault' # fault => Narrow)
  <2> SUFFICES ASSUME Inv, Next, fault' # fault PROVE Narrow
    BY DEF vars
  <2> USE CopyIsNarrow
  <2>1. ASSUME NEW x \in Arrays, NEW size \in Sizes,
               \/ Reserve(x, size) \/ GrowToSize(x, size) \/ Grow(x, size)
               \/ PopBackN(x, size) \/ PopBackToSize(x, size) \/ Resize(x, size)
        PROVE  Narrow
    BY <2>1 DEF Reserve, GrowToSize, Grow, PopBackN, PopBackToSize, Resize
  <2>2. ASSUME NEW x \in Arrays, NEW size \in Sizes, NEW v \in Values,
               \/ GrowAndInitialize(x, size, v) \/ GrowToSizeAndInitialize(x, size, v)
               \/ PushBack(x, v) \/ Insert(x, size, v)
        PROVE  Narrow
    BY <2>2 DEF GrowAndInitialize, GrowToSizeAndInitialize, PushBack, Insert
  <2>3. ASSUME NEW x \in Arrays, NEW v \in Values, PushBack(x, v) PROVE Narrow
    BY <2>3 DEF GrowAndInitialize, PushBack
  <2>4. ASSUME NEW x \in Arrays, NEW pos \in Sizes, NEW count \in Sizes,
               \/ InsertUninitialized(x, pos, count)
               \/ DeleteRange(x, pos, count) \/ ShrinkDeleteRange(x, pos, count)
               \/ SwapDeleteRange(x, pos, count)
        PROVE  Narrow
    BY <2>4 DEF InsertUninitialized, DeleteRange, ShrinkDeleteRange, SwapDeleteRange
  <2>5. ASSUME NEW x \in Arrays, NEW p \in Sizes, NEW q \in Sizes, NEW count \in Sizes,
               SwapRange(x, p, q, count)
        PROVE  Narrow
    BY <2>5 DEF SwapRange
  <2>6. ASSUME NEW x \in Arrays, ShrinkToFit(x) \/ Clear(x) \/ Free(x) PROVE Narrow
    BY <2>6 DEF ShrinkToFit, ShrinkDeleteRange, Clear, Free
  <2> QED
    BY <2>1, <2>2, <2>3, <2>4, <2>5, <2>6, PopIsNarrow, CloneIsNarrow DEF Next
<1> QED
  BY <1>1, InvHolds, PTL DEF Spec, FaultsAreNarrow, Narrow

-----------------------------------------------------------------------------
(* What the calls do to the sequences they stand for: Vector, for elements  *)
(* of every size and arrays of every length and capacity, whether or not a  *)
(* call makes a new block.  Each kind of block (grown, filled, inserted     *)
(* into, shortened) has a lemma that gives its size and elements, index by  *)
(* index; each action of Vector one that says when a block with such        *)
(* elements is its result; a call then needs only the two.                  *)

\* The sequence a block stands for.
Elts(b) == [j \in 1 .. b.size |-> b.data[j - 1]]

\* The call left x with block b.
Leaves(x, b) == blocks' = [blocks EXCEPT ![x] = b]

LEMMA EltsAreSequence ==
  ASSUME NEW b, IsBlock(b)
  PROVE  /\ Elts(b) \in Seq(Elements) /\ Len(Elts(b)) = b.size
         /\ \A i \in 1 .. b.size : Elts(b)[i] = b.data[i - 1]
<1>1. b.size \in Nat /\ \A i \in 1 .. b.size : b.data[i - 1] \in Elements
  BY DEF IsBlock, Elements
<1>2. Elts(b) \in [1 .. b.size -> Elements]
  BY <1>1 DEF Elts
<1>3. \A i \in 1 .. b.size : Elts(b)[i] = b.data[i - 1]
  BY DEF Elts
<1> HIDE DEF Elts
<1>4. Elts(b) \in Seq(Elements) /\ Len(Elts(b)) = b.size
  BY <1>1, <1>2
<1> QED BY <1>3, <1>4

\* The sequences of Vector: all of them, before and after a call that left x with b.
All == [y \in Arrays |-> Elts(blocks[y])]

LEMMA AllAfter ==
  ASSUME DOMAIN blocks = Arrays, NEW x \in Arrays, NEW b, Leaves(x, b)
  PROVE  All[x] = Elts(blocks[x]) /\ All' = [All EXCEPT ![x] = Elts(b)]
<1>1. \A y \in Arrays : blocks'[y] = IF y = x THEN b ELSE blocks[y]
  BY DEF Leaves
<1> QED BY <1>1 DEF All, Elts

-----------------------------------------------------------------------------
(* Sequences, by their elements. *)

LEMMA ConcatByElements ==
  ASSUME NEW S, NEW s \in Seq(S), NEW t \in Seq(S), NEW r \in Seq(S), Len(r) = Len(s) + Len(t),
         \A i \in 1 .. Len(s) : r[i] = s[i], \A i \in 1 .. Len(t) : r[Len(s) + i] = t[i]
  PROVE  r = s \o t
<1>1. /\ s \o t \in Seq(S) /\ Len(s \o t) = Len(r)
      /\ \A i \in 1 .. Len(s) + Len(t) : (s \o t)[i] = IF i <= Len(s) THEN s[i] ELSE t[i - Len(s)]
  BY ConcatProperties
<1>2. ASSUME NEW i \in 1 .. Len(r) PROVE r[i] = (s \o t)[i]
  <2>1. CASE i <= Len(s)
    BY <1>1, <2>1
  <2>2. CASE ~(i <= Len(s))
    <3>1. i - Len(s) \in 1 .. Len(t) /\ Len(s) + (i - Len(s)) = i
      BY <2>2
    <3> QED BY <1>1, <2>2, <3>1
  <2> QED BY <2>1, <2>2
<1> QED BY <1>1, <1>2, SeqEqual

\* s with t put at pos, and without count elements at pos.
Put(s, pos, t)        == SubSeq(s, 1, pos) \o t \o SubSeq(s, pos + 1, Len(s))
Without(s, pos, count) == SubSeq(s, 1, pos) \o SubSeq(s, pos + count + 1, Len(s))

\* r is that, index by index.
IsPut(s, pos, t, r) ==
  /\ pos \in 0 .. Len(s) /\ Len(r) = Len(s) + Len(t)
  /\ \A i \in 1 .. pos : r[i] = s[i]
  /\ \A i \in 1 .. Len(t) : r[pos + i] = t[i]
  /\ \A i \in pos + 1 .. Len(s) : r[Len(t) + i] = s[i]
IsWithout(s, pos, count, r) ==
  /\ pos + count <= Len(s) /\ Len(r) = Len(s) - count
  /\ \A i \in 1 .. pos : r[i] = s[i]
  /\ \A i \in pos + 1 .. Len(s) - count : r[i] = s[i + count]

LEMMA InsertedByElements ==
  ASSUME NEW S, NEW s \in Seq(S), NEW t \in Seq(S), NEW r \in Seq(S), NEW pos, IsPut(s, pos, t, r)
  PROVE  r = Put(s, pos, t)
<1> USE DEF IsPut
<1> DEFINE a == SubSeq(s, 1, pos)
           b == SubSeq(s, pos + 1, Len(s))
<1>1. a \in Seq(S) /\ Len(a) = pos /\ \A i \in 1 .. pos : a[i] = s[i]
  BY SubSeqProperties
<1>2. b \in Seq(S) /\ Len(b) = Len(s) - pos /\ \A i \in 1 .. Len(s) - pos : b[i] = s[pos + i]
  BY SubSeqProperties
<1> HIDE DEF a, b
<1>3. /\ a \o t \in Seq(S) /\ Len(a \o t) = pos + Len(t)
      /\ \A i \in 1 .. pos + Len(t) : (a \o t)[i] = IF i <= pos THEN a[i] ELSE t[i - pos]
  BY <1>1, ConcatProperties
<1>4. ASSUME NEW i \in 1 .. pos + Len(t) PROVE r[i] = (a \o t)[i]
  <2>0. pos \in Nat /\ i \in Nat /\ Len(t) \in Nat
    OBVIOUS
  <2>1. CASE i <= pos
    <3>1. i \in 1 .. pos
      BY <2>0, <2>1
    <3> QED BY <1>1, <1>3, <2>1, <3>1
  <2>2. CASE ~(i <= pos)
    <3>1. i - pos \in 1 .. Len(t) /\ pos + (i - pos) = i
      BY <2>0, <2>2
    <3>2. r[pos + (i - pos)] = t[i - pos]
      BY <3>1
    <3> QED BY <1>3, <2>2, <3>1, <3>2
  <2> QED BY <2>1, <2>2
<1>5. ASSUME NEW i \in 1 .. Len(s) - pos PROVE r[pos + Len(t) + i] = b[i]
  <2>1. pos + i \in pos + 1 .. Len(s) /\ Len(t) + (pos + i) = pos + Len(t) + i
    OBVIOUS
  <2> QED BY <1>2, <2>1
<1> DEFINE c == a \o t
<1>6. /\ c \in Seq(S) /\ Len(c) = pos + Len(t) /\ Len(r) = Len(c) + Len(b)
      /\ \A i \in 1 .. Len(c) : r[i] = c[i]
      /\ \A i \in 1 .. Len(b) : r[Len(c) + i] = b[i]
  <2>1. c \in Seq(S) /\ Len(c) = pos + Len(t) /\ \A i \in 1 .. pos + Len(t) : r[i] = c[i]
    BY <1>3, <1>4
  <2> HIDE DEF c
  <2>2. Len(r) = Len(c) + Len(b)
    BY <1>2, <2>1
  <2> QED BY <1>2, <1>5, <2>1, <2>2
<1> HIDE DEF c
<1>7. r = c \o b
  BY <1>2, <1>6, ConcatByElements
<1> QED BY <1>7 DEF a, b, c, Put

LEMMA RemovedByElements ==
  ASSUME NEW S, NEW s \in Seq(S), NEW r \in Seq(S), NEW pos \in Nat, NEW count \in Nat,
         IsWithout(s, pos, count, r)
  PROVE  r = Without(s, pos, count)
<1> USE DEF IsWithout
<1> DEFINE a == SubSeq(s, 1, pos)
           b == SubSeq(s, pos + count + 1, Len(s))
<1>1. a \in Seq(S) /\ Len(a) = pos /\ \A i \in 1 .. pos : a[i] = s[i]
  BY SubSeqProperties
<1>2. /\ b \in Seq(S) /\ Len(b) = Len(s) - count - pos
      /\ \A i \in 1 .. Len(s) - count - pos : b[i] = s[pos + count + i]
  <2> DEFINE m == pos + count + 1
  <2> HIDE DEF a, b
  <2>1. m \in Int /\ Len(s) \in Int /\ \A i \in m .. Len(s) : s[i] \in S
    OBVIOUS
  <2>2. Len(s) - m + 1 = Len(s) - count - pos /\ (m <= Len(s) \/ Len(s) - count - pos = 0)
    <3> DEFINE l == Len(s)
    <3>1. l \in Nat /\ pos + count <= l
      OBVIOUS
    <3> HIDE DEF l
    <3>2. l - m + 1 = l - count - pos /\ (m <= l \/ l - count - pos = 0)
      BY <3>1 DEF m
    <3> QED BY <3>2 DEF l
  <2>3. \A i \in Int : m + i - 1 = pos + count + i
    OBVIOUS
  <2> HIDE DEF m
  <2>4. /\ SubSeq(s, m, Len(s)) \in Seq(S)
        /\ Len(SubSeq(s, m, Len(s))) = IF m <= Len(s) THEN Len(s) - m + 1 ELSE 0
        /\ \A i \in 1 .. Len(s) - m + 1 : SubSeq(s, m, Len(s))[i] = s[m + i - 1]
    BY <2>1, SubSeqProperties
  <2>5. b = SubSeq(s, m, Len(s))
    BY DEF b, m
  <2>6. \A i \in 1 .. Len(s) - m + 1 : b[i] = s[pos + count + i]
    BY <2>3, <2>4, <2>5
  <2>7. b \in Seq(S) /\ Len(b) = Len(s) - count - pos
    BY <2>1, <2>2, <2>4, <2>5
  <2> QED BY <2>2, <2>6, <2>7
<1> HIDE DEF a, b
<1>3. ASSUME NEW i \in 1 .. Len(b) PROVE r[Len(a) + i] = b[i]
  <2>1. pos + i \in pos + 1 .. Len(s) - count /\ (pos + i) + count = pos + count + i
    BY <1>2
  <2> QED BY <1>1, <1>2, <2>1
<1>4. Len(r) = Len(a) + Len(b) /\ \A i \in 1 .. Len(a) : r[i] = a[i]
  BY <1>1, <1>2
<1>5. r = a \o b
  BY <1>1, <1>2, <1>3, <1>4, ConcatByElements
<1> QED BY <1>5 DEF a, b, Without

-----------------------------------------------------------------------------
(* The blocks of the calls that add elements. *)

\* A block, by its parts.
LEMMA BlockParts ==
  ASSUME NEW room, NEW cap, NEW size \in Nat, NEW d
  PROVE  /\ Block(room, cap, size, d).size = size
         /\ \A j \in 0 .. size - 1 : Block(room, cap, size, d).data[j] = d[j]
BY DEF Block

\* A grown block has the elements it had, and undefined ones behind them.
LEMMA GrowingElements ==
  ASSUME NEW b, Good(b), NEW n \in Nat, NEW exact \in BOOLEAN
  PROVE  /\ MaybeGrow(b, n, TRUE, exact).size = Larger(b.size, n)
         /\ \A j \in 0 .. Larger(b.size, n) - 1 :
              MaybeGrow(b, n, TRUE, exact).data[j] = IF j < b.size THEN b.data[j] ELSE None
<1> DEFINE o == Opened(b, n, exact)
           size == Larger(b.size, n)
           d == Memory(o, size)
<1>1. b.size \in Nat /\ b.cap \in Nat /\ b.size <= b.cap /\ b.cap * TypeSize <= b.room
  BY DEF Good, IsBlock, Backed
<1>2. o.size = b.size /\ \A j \in 0 .. b.size - 1 : o.data[j] = b.data[j]
  <2>1. CASE IsNull(b)
    <3>1. b.size = 0
      BY <1>1, <2>1, Scaled DEF IsNull
    <3>2. o.size = 0
      BY <2>1 DEF Opened, Allocated, Block
    <3> QED BY <3>1, <3>2
  <2>2. CASE ~IsNull(b)
    BY <2>2 DEF Opened
  <2> QED BY <2>1, <2>2
<1>3. size \in Nat
  BY <1>1, LargerIsLarger
<1>4. Larger(o.size, n) = size
  BY <1>2
<1>5. MaybeGrow(b, n, TRUE, exact)
        = IF o.cap >= n THEN Block(o.room, o.cap, size, d)
          ELSE Block(NewCapacity(n, exact) * TypeSize, NewCapacity(n, exact), size, d)
  BY <1>4 DEF MaybeGrow, Sized, Enlarged
<1> HIDE DEF o
<1>6. \A j \in 0 .. size - 1 : d[j] = IF j < b.size THEN b.data[j] ELSE None
  BY <1>1, <1>2, <1>3 DEF Memory
<1> HIDE DEF size, d
<1>7. /\ MaybeGrow(b, n, TRUE, exact).size = size
      /\ \A j \in 0 .. size - 1 : MaybeGrow(b, n, TRUE, exact).data[j] = d[j]
  <2>1. CASE o.cap >= n
    <3>1. MaybeGrow(b, n, TRUE, exact) = Block(o.room, o.cap, size, d)
      BY <1>5, <2>1
    <3>2. /\ Block(o.room, o.cap, size, d).size = size
          /\ \A j \in 0 .. size - 1 : Block(o.room, o.cap, size, d).data[j] = d[j]
      BY <1>3, BlockParts
    <3> QED BY <3>1, <3>2
  <2>2. CASE ~(o.cap >= n)
    <3> DEFINE cap == NewCapacity(n, exact)
    <3>1. MaybeGrow(b, n, TRUE, exact) = Block(cap * TypeSize, cap, size, d)
      BY <1>5, <2>2
    <3> HIDE DEF cap
    <3>2. /\ Block(cap * TypeSize, cap, size, d).size = size
          /\ \A j \in 0 .. size - 1 : Block(cap * TypeSize, cap, size, d).data[j] = d[j]
      BY <1>3, BlockParts
    <3> QED BY <3>1, <3>2
  <2> QED BY <2>1, <2>2
<1>8. /\ MaybeGrow(b, n, TRUE, exact).size = size
      /\ \A j \in 0 .. size - 1 :
           MaybeGrow(b, n, TRUE, exact).data[j] = IF j < b.size THEN b.data[j] ELSE None
  BY <1>6, <1>7
<1> QED BY <1>8 DEF size

-----------------------------------------------------------------------------
(* The actions of Vector, from the elements of the block before and after. *)

\* The block of x before the call and the block b it leaves.
Called(x, b) ==
  /\ DOMAIN blocks = Arrays /\ x \in Arrays /\ IsBlock(blocks[x])
  /\ IsBlock(b) /\ Leaves(x, b)

LEMMA CallSequences ==
  ASSUME NEW x, NEW b, Called(x, b)
  PROVE  /\ DOMAIN blocks = Arrays /\ x \in Arrays /\ Leaves(x, b)
         /\ blocks[x].size \in Nat /\ b.size \in Nat
         /\ Elts(blocks[x]) \in Seq(Elements) /\ Len(Elts(blocks[x])) = blocks[x].size
         /\ \A i \in 1 .. blocks[x].size : Elts(blocks[x])[i] = blocks[x].data[i - 1]
         /\ Elts(b) \in Seq(Elements) /\ Len(Elts(b)) = b.size
         /\ \A i \in 1 .. b.size : Elts(b)[i] = b.data[i - 1]
BY EltsAreSequence DEF Called, IsBlock

Fill(v, k) == [j \in 1 .. k |-> v]

LEMMA FillIsSequence ==
  ASSUME NEW v \in Elements, NEW k \in Nat
  PROVE  /\ Fill(v, k) \in Seq(Elements) /\ Len(Fill(v, k)) = k
         /\ \A i \in 1 .. k : Fill(v, k)[i] = v
<1>1. Fill(v, k) \in [1 .. k -> Elements]
  BY DEF Fill
<1> QED BY <1>1 DEF Fill

\* The same elements.
LEMMA Keeps ==
  ASSUME NEW x, NEW b, Called(x, b), b.size = blocks[x].size,
         \A j \in 0 .. b.size - 1 : b.data[j] = blocks[x].data[j]
  PROVE  All' = All
<1>1. Elts(b) = Elts(blocks[x])
  <2>1. b.size \in Nat
    BY CallSequences
  <2>2. \A i \in 1 .. b.size : b.data[i - 1] = blocks[x].data[i - 1]
    BY <2>1
  <2> QED BY <2>2 DEF Elts
<1>2. All' = [All EXCEPT ![x] = Elts(blocks[x])] /\ All[x] = Elts(blocks[x])
  BY <1>1, CallSequences, AllAfter
<1> QED BY <1>2 DEF All

\* s is put at pos: block b has it there, and what block a had around it.
Gains(a, b, pos, s) ==
  /\ pos <= a.size /\ b.size = a.size + Len(s)
  /\ \A j \in 0 .. pos - 1 : b.data[j] = a.data[j]
  /\ \A i \in 1 .. Len(s) : b.data[pos + i - 1] = s[i]
  /\ \A j \in pos .. a.size - 1 : b.data[Len(s) + j] = a.data[j]

LEMMA Inserts ==
  ASSUME NEW x, NEW b, Called(x, b), NEW s \in Seq(Elements), NEW pos \in Nat,
         Gains(blocks[x], b, pos, s)
  PROVE  All' = [All EXCEPT ![x] = Put(All[x], pos, s)]
<1> USE DEF Gains
<1> DEFINE e == Elts(blocks[x])
           r == Elts(b)
<1>1. /\ e \in Seq(Elements) /\ r \in Seq(Elements)
      /\ Len(e) = blocks[x].size /\ Len(r) = b.size /\ blocks[x].size \in Nat
      /\ \A i \in 1 .. blocks[x].size : e[i] = blocks[x].data[i - 1]
      /\ \A i \in 1 .. b.size : r[i] = b.data[i - 1]
  BY CallSequences
<1> HIDE DEF e, r
<1>2. ASSUME NEW i \in 1 .. pos PROVE r[i] = e[i]
  <2>1. i \in 1 .. b.size /\ i \in 1 .. blocks[x].size /\ i - 1 \in 0 .. pos - 1
    BY <1>1
  <2> QED BY <1>1, <2>1
<1>3. ASSUME NEW i \in 1 .. Len(s) PROVE r[pos + i] = s[i]
  <2>1. pos + i \in 1 .. b.size
    BY <1>1
  <2> QED BY <1>1, <2>1
<1>4. ASSUME NEW i \in pos + 1 .. Len(e) PROVE r[Len(s) + i] = e[i]
  <2>1. /\ i \in 1 .. blocks[x].size /\ Len(s) + i \in 1 .. b.size
        /\ i - 1 \in pos .. blocks[x].size - 1 /\ (Len(s) + i) - 1 = Len(s) + (i - 1)
    BY <1>1
  <2> QED BY <1>1, <2>1
<1>5. e \in Seq(Elements) /\ r \in Seq(Elements) /\ s \in Seq(Elements)
  BY <1>1
<1>6. IsPut(e, pos, s, r)
  BY <1>1, <1>2, <1>3, <1>4 DEF IsPut
<1>7. r = Put(e, pos, s)
  BY <1>5, <1>6, InsertedByElements
<1>8. All[x] = e /\ All' = [All EXCEPT ![x] = r]
  BY CallSequences, AllAfter DEF e, r
<1> QED BY <1>7, <1>8

\* s is put at the end.
LEMMA Extends ==
  ASSUME NEW x, NEW b, Called(x, b), NEW s \in Seq(Elements),
         b.size = blocks[x].size + Len(s),
         \A j \in 0 .. blocks[x].size - 1 : b.data[j] = blocks[x].data[j],
         \A i \in 1 .. Len(s) : b.data[blocks[x].size + i - 1] = s[i]
  PROVE  All' = [All EXCEPT ![x] = All[x] \o s]
<1> DEFINE e == Elts(blocks[x])
           r == Elts(b)
<1>1. /\ e \in Seq(Elements) /\ r \in Seq(Elements) /\ s \in Seq(Elements)
      /\ Len(e) = blocks[x].size /\ Len(r) = b.size /\ blocks[x].size \in Nat
      /\ \A i \in 1 .. blocks[x].size : e[i] = blocks[x].data[i - 1]
      /\ \A i \in 1 .. b.size : r[i] = b.data[i - 1]
  BY CallSequences
<1> HIDE DEF e, r
<1>2. ASSUME NEW i \in 1 .. Len(e) PROVE r[i] = e[i]
  <2>1. i \in 1 .. b.size /\ i \in 1 .. blocks[x].size /\ i - 1 \in 0 .. blocks[x].size - 1
    BY <1>1
  <2> QED BY <1>1, <2>1
<1>3. ASSUME NEW i \in 1 .. Len(s) PROVE r[Len(e) + i] = s[i]
  <2>1. Len(e) + i \in 1 .. b.size /\ (Len(e) + i) - 1 = blocks[x].size + i - 1
    BY <1>1
  <2>2. r[Len(e) + i] = b.data[blocks[x].size + i - 1]
    BY <1>1, <2>1
  <2> QED BY <2>2
<1>4. r = e \o s
  <2>1. Len(r) = Len(e) + Len(s)
    BY <1>1
  <2> QED BY <1>1, <1>2, <1>3, <2>1, ConcatByElements
<1>5. All[x] = e /\ All' = [All EXCEPT ![x] = r]
  BY CallSequences, AllAfter DEF e, r
<1> QED BY <1>4, <1>5

\* count elements are removed at pos: block b has the others of a.
Loses(a, b, pos, count) ==
  /\ pos + count <= a.size /\ b.size = a.size - count
  /\ \A j \in 0 .. pos - 1 : b.data[j] = a.data[j]
  /\ \A j \in pos .. a.size - count - 1 : b.data[j] = a.data[j + count]

LEMMA Removes ==
  ASSUME NEW x, NEW b, Called(x, b), NEW pos \in Nat, NEW count \in Nat,
         Loses(blocks[x], b, pos, count)
  PROVE  All' = [All EXCEPT ![x] = Without(All[x], pos, count)]
<1> USE DEF Loses
<1> DEFINE e == Elts(blocks[x])
           r == Elts(b)
<1>1. /\ e \in Seq(Elements) /\ r \in Seq(Elements)
      /\ Len(e) = blocks[x].size /\ Len(r) = b.size /\ blocks[x].size \in Nat /\ b.size \in Nat
      /\ \A i \in 1 .. blocks[x].size : e[i] = blocks[x].data[i - 1]
      /\ \A i \in 1 .. b.size : r[i] = b.data[i - 1]
  BY CallSequences
<1> HIDE DEF e, r
<1>2. ASSUME NEW i \in 1 .. pos PROVE r[i] = e[i]
  <2>1. i \in 1 .. b.size /\ i \in 1 .. blocks[x].size /\ i - 1 \in 0 .. pos - 1
    BY <1>1
  <2> QED BY <1>1, <2>1
<1>3. ASSUME NEW i \in pos + 1 .. Len(e) - count PROVE r[i] = e[i + count]
  <2>1. /\ i \in 1 .. b.size /\ i + count \in 1 .. blocks[x].size
        /\ i - 1 \in pos .. b.size - 1 /\ (i + count) - 1 = (i - 1) + count
    BY <1>1
  <2> QED BY <1>1, <2>1
<1>4. IsWithout(e, pos, count, r)
  BY <1>1, <1>2, <1>3 DEF IsWithout
<1>5. r = Without(e, pos, count)
  BY <1>1, <1>4, RemovedByElements
<1>6. All[x] = e /\ All' = [All EXCEPT ![x] = r]
  BY CallSequences, AllAfter DEF e, r
<1> QED BY <1>5, <1>6

\* All but the first size elements are removed, if there are more.
LEMMA Cuts ==
  ASSUME NEW x, NEW b, Called(x, b), NEW size \in Nat,
         b.size = IF size < blocks[x].size THEN size ELSE blocks[x].size,
         \A j \in 0 .. b.size - 1 : b.data[j] = blocks[x].data[j]
  PROVE  V!CutTo(x, size)
<1>1. Len(All[x]) = blocks[x].size /\ blocks[x].size \in Nat
  BY CallSequences DEF All
<1>2. CASE size < blocks[x].size
  <2> DEFINE count == blocks[x].size - size
  <2>1. /\ count \in Nat /\ size + count <= blocks[x].size /\ b.size = blocks[x].size - count
        /\ \A j \in 0 .. size - 1 : b.data[j] = blocks[x].data[j]
        /\ \A j \in size .. blocks[x].size - count - 1 : b.data[j] = blocks[x].data[j + count]
    <3>1. PICK m \in Nat : blocks[x].size = m
      BY <1>1
    <3>2. size < m /\ count = m - size
      BY <1>2, <3>1
    <3> HIDE DEF count
    <3>3. count \in Nat /\ size + count <= m /\ size = m - count
      BY <3>2
    <3>4. b.size = size
      BY <1>2
    <3> QED BY <3>1, <3>3, <3>4
  <2> HIDE DEF count
  <2>2. All' = [All EXCEPT ![x] = Without(All[x], size, count)]
    <3>1. Loses(blocks[x], b, size, count)
      BY <2>1 DEF Loses
    <3> QED BY <2>1, <3>1, Removes
  <2>3. size < Len(All[x]) /\ All' = [All EXCEPT ![x] = Without(All[x], size, Len(All[x]) - size)]
    BY <1>1, <1>2, <2>2 DEF count
  <2> QED BY <2>3 DEF V!CutTo, V!Remove, V!Becomes, All, Elts, Without
<1>3. CASE ~(size < blocks[x].size)
  <2>1. All' = All
    BY <1>3, Keeps
  <2>2. ~(size < Len(All[x]))
    BY <1>1, <1>3
  <2> QED BY <2>1, <2>2 DEF V!CutTo, V!Keep, All, Elts
<1> QED BY <1>2, <1>3

\* Elements v are put at the end until there are size, if there are fewer.
LEMMA Lengthens ==
  ASSUME NEW x, NEW b, Called(x, b), NEW size \in Nat, NEW v \in Elements,
         b.size = Larger(blocks[x].size, size),
         \A j \in 0 .. b.size - 1 : b.data[j] = IF j < blocks[x].size THEN blocks[x].data[j] ELSE v
  PROVE  V!LengthenTo(x, size, v)
<1>1. Len(All[x]) = blocks[x].size /\ blocks[x].size \in Nat
  BY CallSequences DEF All
<1>2. CASE size > blocks[x].size
  <2> DEFINE count == size - blocks[x].size
             s     == Fill(v, count)
  <2>1. count \in Nat /\ b.size = blocks[x].size + count
    BY <1>1, <1>2 DEF Larger
  <2>2. s \in Seq(Elements) /\ Len(s) = count /\ \A i \in 1 .. count : s[i] = v
    BY <2>1, FillIsSequence
  <2> HIDE DEF count, s
  <2>3. \A j \in 0 .. blocks[x].size - 1 : b.data[j] = blocks[x].data[j]
    BY <1>1, <2>1
  <2>4. ASSUME NEW i \in 1 .. Len(s) PROVE b.data[blocks[x].size + i - 1] = s[i]
    <3>1. /\ blocks[x].size + i - 1 \in 0 .. b.size - 1
          /\ ~(blocks[x].size + i - 1 < blocks[x].size) /\ s[i] = v
      BY <1>1, <2>1, <2>2
    <3> QED BY <3>1
  <2>5. All' = [All EXCEPT ![x] = All[x] \o s]
    <3>1. b.size = blocks[x].size + Len(s)
      BY <2>1, <2>2
    <3> QED BY <2>2, <2>3, <2>4, <3>1, Extends
  <2>6. size > Len(All[x]) /\ All' = [All EXCEPT ![x] = All[x] \o Fill(v, size - Len(All[x]))]
    BY <1>1, <1>2, <2>5 DEF count, s
  <2> QED BY <2>6 DEF V!LengthenTo, V!Extend, V!Becomes, V!Fill, Fill, All, Elts
<1>3. CASE ~(size > blocks[x].size)
  <2>1. b.size = blocks[x].size
    BY <1>1, <1>3 DEF Larger
  <2>2. All' = All
    BY <1>1, <2>1, Keeps
  <2>3. ~(size > Len(All[x]))
    BY <1>1, <1>3
  <2> QED BY <2>2, <2>3 DEF V!LengthenTo, V!Keep, All, Elts
<1> QED BY <1>2, <1>3

-----------------------------------------------------------------------------
(* The calls that add elements. *)

LEMMA CallIsMade ==
  ASSUME Inv, fault = "none", NEW x \in Arrays, NEW b, IsBlock(b), blocks' = [blocks EXCEPT ![x] = b]
  PROVE  Called(x, b)
BY DEF Inv, TypeOK, Called, Leaves

\* fpda_reserve moves nothing, or moves no element.
LEMMA ReserveKeeps ==
  ASSUME Inv, NEW x \in Arrays, NEW size \in Sizes, Reserve(x, size),
         size <= blocks[x].cap \/ blocks[x].size = 0
  PROVE  All' = All
<1> DEFINE b == blocks[x]
           o == Opened(b, size, TRUE)
           g == MaybeGrow(b, size, FALSE, TRUE)
<1>1. fault = "none" /\ blocks' = [blocks EXCEPT ![x] = g]
  BY DEF Reserve, Becomes
<1>2. Good(b) /\ b.size \in Nat /\ b.cap \in Nat /\ b.size <= b.cap /\ b.cap * TypeSize <= b.room
  BY <1>1, BlocksAreGood
<1>3. size \in Nat /\ size <= MaxSize
  BY SizesAreNat
<1>4. Good(g) /\ Good(o) /\ o.size = b.size /\ b.cap <= o.cap
  BY <1>2, <1>3, GrowingIsGood, OpenedIsGood
<1>5. \A j \in 0 .. b.size - 1 : o.data[j] = b.data[j]
  <2>1. CASE IsNull(b)
    BY <1>2, <2>1, Scaled DEF IsNull
  <2>2. CASE ~IsNull(b)
    BY <2>2 DEF Opened
  <2> QED BY <2>1, <2>2
<1>6. g = IF o.cap >= size THEN o ELSE Enlarged(o, size, FALSE, TRUE)
  BY DEF MaybeGrow
<1>7. Enlarged(o, size, FALSE, TRUE).size = 0
  BY DEF Enlarged, Block
<1>8. o.cap \in Nat /\ IsBlock(g)
  BY <1>4 DEF Good, IsBlock
<1> HIDE DEF o, g
<1>9. g.size = b.size /\ \A j \in 0 .. b.size - 1 : g.data[j] = b.data[j]
  <2>1. CASE o.cap >= size
    BY <1>4, <1>5, <1>6, <2>1
  <2>2. CASE ~(o.cap >= size)
    <3>1. b.size = 0
      BY <1>2, <1>3, <1>4, <1>8, <2>2
    <3>2. g.size = 0
      BY <1>6, <1>7, <2>2
    <3> QED BY <3>1, <3>2
  <2> QED BY <2>1, <2>2
<1>10. Called(x, g)
  BY <1>1, <1>8, CallIsMade
<1> QED BY <1>9, <1>10, Keeps

\* fpda_reserve of more than the capacity leaves a new block of size 0.
LEMMA ReserveDrops ==
  ASSUME Inv, NEW x \in Arrays, NEW size \in Sizes, Reserve(x, size),
         ~(size <= blocks[x].cap \/ blocks[x].size = 0)
  PROVE  All' = [All EXCEPT ![x] = <<>>]
<1> DEFINE b == blocks[x]
           g == MaybeGrow(b, size, FALSE, TRUE)
<1>1. fault = "none" /\ blocks' = [blocks EXCEPT ![x] = g]
  BY DEF Reserve, Becomes
<1>2. Good(b) /\ b.size \in Nat /\ b.cap \in Nat /\ b.size <= b.cap /\ b.cap * TypeSize <= b.room
  BY <1>1, BlocksAreGood
<1>3. size \in Nat /\ size <= MaxSize /\ ~(b.cap >= size) /\ b.size # 0
  BY <1>2, SizesAreNat
<1>4. ~IsNull(b)
  BY <1>2, <1>3, Scaled DEF IsNull
<1>5. g = Enlarged(b, size, FALSE, TRUE)
  BY <1>3, <1>4 DEF MaybeGrow, Opened
<1>6. g.size = 0
  <2>1. Enlarged(b, size, FALSE, TRUE).size = 0
    BY DEF Enlarged, Block
  <2> HIDE DEF g
  <2> QED BY <1>5, <2>1
<1>7. IsBlock(g)
  BY <1>2, <1>3, GrowingIsGood DEF Good
<1> HIDE DEF g
<1>8. Called(x, g)
  BY <1>1, <1>7, CallIsMade
<1>9. Elts(g) = <<>>
  BY <1>6 DEF Elts
<1> QED BY <1>8, <1>9, CallSequences, AllAfter

\* The block fpda_grow and fpda_grow_to_size make, before it is filled.
LEMMA GrownBlock ==
  ASSUME NEW b, Good(b), NEW n \in Nat, n <= MaxSize, NEW exact \in BOOLEAN
  PROVE  /\ Good(MaybeGrow(b, n, TRUE, exact)) /\ IsBlock(MaybeGrow(b, n, TRUE, exact))
         /\ MaybeGrow(b, n, TRUE, exact).size = Larger(b.size, n)
         /\ \A j \in 0 .. Larger(b.size, n) - 1 :
              MaybeGrow(b, n, TRUE, exact).data[j] = IF j < b.size THEN b.data[j] ELSE None
<1>1. Good(MaybeGrow(b, n, TRUE, exact))
  BY GrowingIsGood
<1> QED BY <1>1, GrowingElements DEF Good

LEMMA FilledElements ==
  ASSUME NEW b, Good(b), NEW from \in Nat, NEW v \in Values
  PROVE  /\ IsBlock(Filled(b, from, v)) /\ Filled(b, from, v).size = b.size
         /\ \A j \in 0 .. b.size - 1 :
              Filled(b, from, v).data[j] = IF j < from THEN b.data[j] ELSE v
<1>1. IsBlock(Filled(b, from, v))
  BY FilledIsGood DEF Good
<1> QED BY <1>1 DEF Filled, Block, Good, IsBlock

\* fpda_grow_to_size, with or without initialising the elements
LEMMA GrowToSizeLengthens ==
  ASSUME Inv, NEW x \in Arrays, NEW size \in Sizes, GrowToSize(x, size)
  PROVE  V!LengthenTo(x, size, None)
<1> DEFINE b == blocks[x]
           g == GrownTo(b, size)
<1>1. fault = "none" /\ blocks' = [blocks EXCEPT ![x] = g]
  BY DEF GrowToSize, Becomes
<1>2. Good(b)
  BY <1>1, BlocksAreGood
<1>3. size \in Nat /\ size <= MaxSize
  BY SizesAreNat
<1>4. /\ IsBlock(g) /\ g.size = Larger(b.size, size)
      /\ \A j \in 0 .. g.size - 1 : g.data[j] = IF j < b.size THEN b.data[j] ELSE None
  BY <1>2, <1>3, GrownBlock DEF GrownTo
<1> HIDE DEF g
<1>5. Called(x, g)
  BY <1>1, <1>4, CallIsMade
<1> QED BY <1>3, <1>4, <1>5, Lengthens DEF Elements

LEMMA GrowToSizeFills ==
  ASSUME Inv, NEW x \in Arrays, NEW size \in Sizes, NEW v \in Values,
         GrowToSizeAndInitialize(x, size, v)
  PROVE  V!LengthenTo(x, size, v)
<1> DEFINE b == blocks[x]
           g == GrownTo(b, size)
           f == Filled(g, b.size, v)
<1>1. fault = "none" /\ blocks' = [blocks EXCEPT ![x] = f]
  BY DEF GrowToSizeAndInitialize, Becomes
<1>2. Good(b) /\ b.size \in Nat
  BY <1>1, BlocksAreGood
<1>3. size \in Nat /\ size <= MaxSize
  BY SizesAreNat
<1>4. /\ Good(g) /\ g.size = Larger(b.size, size)
      /\ \A j \in 0 .. g.size - 1 : g.data[j] = IF j < b.size THEN b.data[j] ELSE None
  BY <1>2, <1>3, GrownBlock DEF GrownTo
<1> HIDE DEF g
<1>5. /\ IsBlock(f) /\ f.size = g.size
      /\ \A j \in 0 .. g.size - 1 : f.data[j] = IF j < b.size THEN g.data[j] ELSE v
  BY <1>2, <1>4, FilledElements
<1> HIDE DEF f
<1>6. /\ f.size = Larger(b.size, size)
      /\ \A j \in 0 .. f.size - 1 : f.data[j] = IF j < b.size THEN b.data[j] ELSE v
  BY <1>4, <1>5
<1>7. Called(x, f)
  BY <1>1, <1>5, CallIsMade
<1> QED BY <1>3, <1>6, <1>7, Lengthens DEF Elements

\* fpda_grow, with or without initialising the elements
LEMMA GrowExtends ==
  ASSUME Inv, NEW x \in Arrays, NEW k \in Sizes, Grow(x, k)
  PROVE  All' = [All EXCEPT ![x] = All[x] \o Fill(None, k)]
<1> DEFINE b == blocks[x]
           n == b.size + k
           g == MaybeGrow(b, n, TRUE, FALSE)
           s == Fill(None, k)
<1>1. fault = "none" /\ blocks' = [blocks EXCEPT ![x] = g] /\ n <= MaxSize
  BY DEF Grow, Becomes, Grown
<1>2. Good(b) /\ b.size \in Nat /\ k \in Nat
  BY <1>1, BlocksAreGood, SizesAreNat
<1>3. n \in Nat /\ Larger(b.size, n) = n
  BY <1>2 DEF Larger
<1>4. s \in Seq(Elements) /\ Len(s) = k /\ \A i \in 1 .. k : s[i] = None
  BY <1>2, FillIsSequence DEF Elements
<1> HIDE DEF n, s
<1>5. /\ IsBlock(g) /\ g.size = n
      /\ \A j \in 0 .. n - 1 : g.data[j] = IF j < b.size THEN b.data[j] ELSE None
  BY <1>1, <1>2, <1>3, GrownBlock
<1> HIDE DEF g
<1>6. Called(x, g) /\ g.size = b.size + Len(s)
  BY <1>1, <1>4, <1>5, CallIsMade DEF n
<1>7. \A j \in 0 .. b.size - 1 : g.data[j] = b.data[j]
  BY <1>2, <1>5 DEF n
<1>8. \A i \in 1 .. Len(s) : g.data[b.size + i - 1] = s[i]
  <2> SUFFICES ASSUME NEW i \in 1 .. k PROVE g.data[b.size + i - 1] = None
    BY <1>4
  <2>1. b.size + i - 1 \in 0 .. n - 1 /\ ~(b.size + i - 1 < b.size)
    BY <1>2 DEF n
  <2> QED BY <1>5, <2>1
<1>9. All' = [All EXCEPT ![x] = All[x] \o s]
  BY <1>4, <1>6, <1>7, <1>8, Extends
<1> QED BY <1>9 DEF s

LEMMA GrowFills ==
  ASSUME Inv, NEW x \in Arrays, NEW k \in Nat, NEW v \in Values, GrowAndInitialize(x, k, v)
  PROVE  All' = [All EXCEPT ![x] = All[x] \o Fill(v, k)]
<1> DEFINE b == blocks[x]
           n == b.size + k
           g == MaybeGrow(b, n, TRUE, FALSE)
           f == Filled(g, b.size, v)
           s == Fill(v, k)
<1>1. fault = "none" /\ blocks' = [blocks EXCEPT ![x] = f] /\ n <= MaxSize
  BY DEF GrowAndInitialize, Becomes, Grown
<1>2. Good(b) /\ b.size \in Nat
  BY <1>1, BlocksAreGood
<1>3. n \in Nat /\ Larger(b.size, n) = n
  BY <1>2 DEF Larger
<1>4. s \in Seq(Elements) /\ Len(s) = k /\ \A i \in 1 .. k : s[i] = v
  BY FillIsSequence DEF Elements
<1> HIDE DEF n, s
<1>5. /\ Good(g) /\ g.size = n
      /\ \A j \in 0 .. n - 1 : g.data[j] = IF j < b.size THEN b.data[j] ELSE None
  BY <1>1, <1>2, <1>3, GrownBlock
<1> HIDE DEF g
<1>6. /\ IsBlock(f) /\ f.size = n
      /\ \A j \in 0 .. n - 1 : f.data[j] = IF j < b.size THEN g.data[j] ELSE v
  BY <1>2, <1>5, FilledElements
<1> HIDE DEF f
<1>7. Called(x, f) /\ f.size = b.size + Len(s)
  BY <1>1, <1>4, <1>6, CallIsMade DEF n
<1>8. \A j \in 0 .. b.size - 1 : f.data[j] = b.data[j]
  <2> SUFFICES ASSUME NEW j \in 0 .. b.size - 1 PROVE f.data[j] = b.data[j]
    OBVIOUS
  <2>1. j \in 0 .. n - 1 /\ j < b.size
    BY <1>2 DEF n
  <2> QED BY <1>5, <1>6, <2>1
<1>9. \A i \in 1 .. Len(s) : f.data[b.size + i - 1] = s[i]
  <2> SUFFICES ASSUME NEW i \in 1 .. k PROVE f.data[b.size + i - 1] = v
    BY <1>4
  <2>1. b.size + i - 1 \in 0 .. n - 1 /\ ~(b.size + i - 1 < b.size)
    BY <1>2 DEF n
  <2> QED BY <1>6, <2>1
<1>10. All' = [All EXCEPT ![x] = All[x] \o s]
  <2>1. s \in Seq(Elements) /\ Called(x, f) /\ f.size = blocks[x].size + Len(s)
    BY <1>4, <1>7
  <2> HIDE DEF b
  <2>2. /\ \A j \in 0 .. blocks[x].size - 1 : f.data[j] = blocks[x].data[j]
        /\ \A i \in 1 .. Len(s) : f.data[blocks[x].size + i - 1] = s[i]
    BY <1>8, <1>9 DEF b
  <2> QED BY <2>1, <2>2, Extends
<1> QED BY <1>10 DEF s

LEMMA PushExtends ==
  ASSUME Inv, NEW x \in Arrays, NEW v \in Values, PushBack(x, v)
  PROVE  All' = [All EXCEPT ![x] = All[x] \o <<v>>]
<1>1. All' = [All EXCEPT ![x] = All[x] \o Fill(v, 1)]
  BY GrowFills DEF PushBack
<1>2. Fill(v, 1) = <<v>>
  BY DEF Fill
<1> QED BY <1>1, <1>2

LEMMA MovedElements ==
  ASSUME NEW size \in Nat, NEW d \in [0 .. size - 1 -> Elements],
         NEW to \in Int, NEW from \in Int, NEW len \in Int, NEW j \in 0 .. size - 1
  PROVE  Moved(d, to, from, len)[j] = IF to <= j /\ j < to + len THEN d[from + j - to] ELSE d[j]
<1>1. DOMAIN d = 0 .. size - 1
  OBVIOUS
<1>2. Moved(d, to, from, len)[j] = IF j \in to .. to + len - 1 THEN d[from + j - to] ELSE d[j]
  BY <1>1 DEF Moved
<1>3. j \in to .. to + len - 1 <=> to <= j /\ j < to + len
  OBVIOUS
<1> QED BY <1>2, <1>3

\* __fpda_maybe_grow_insert: count elements v before position pos.
LEMMA InsertedElements ==
  ASSUME NEW b, Good(b), NEW count \in Nat, b.size + count <= MaxSize,
         NEW pos \in Nat, pos <= b.size, NEW v \in Elements
  PROVE  /\ IsBlock(Inserted(b, pos, count, v))
         /\ Inserted(b, pos, count, v).size = b.size + count
         /\ \A j \in 0 .. b.size + count - 1 :
              Inserted(b, pos, count, v).data[j] =
                IF j < pos THEN b.data[j] ELSE IF j < pos + count THEN v ELSE b.data[j - count]
<1> DEFINE n == b.size + count
           g == MaybeGrow(b, n, TRUE, FALSE)
           len == g.size - pos - count
           moved == Moved(g.data, pos + count, pos, len)
           d == [j \in 0 .. g.size - 1 |-> IF j \in pos .. pos + count - 1 THEN v ELSE moved[j]]
           r == Inserted(b, pos, count, v)
<1>1. b.size \in Nat /\ n \in Nat /\ n <= MaxSize /\ Larger(b.size, n) = n
  BY DEF Good, IsBlock, Larger
<1>2. IsBlock(r)
  BY InsertedIsGood DEF Good
<1>3. r = Block(g.room, g.cap, g.size, d)
  BY DEF Inserted, Grown
<1> HIDE DEF n, r
<1>4. /\ IsBlock(g) /\ g.size = n
      /\ \A j \in 0 .. n - 1 : g.data[j] = IF j < b.size THEN b.data[j] ELSE None
  BY <1>1, GrownBlock
<1> HIDE DEF g
<1>5. g.data \in [0 .. n - 1 -> Elements]
  BY <1>4 DEF IsBlock, Elements
<1>6. len = b.size - pos
  BY <1>1, <1>4 DEF n
<1> HIDE DEF len, moved
<1>7. ASSUME NEW j \in 0 .. n - 1
      PROVE  moved[j] = IF pos + count <= j THEN g.data[j - count] ELSE g.data[j]
  <2>1. moved[j] = IF pos + count <= j /\ j < pos + count + len THEN g.data[pos + j - (pos + count)]
                   ELSE g.data[j]
    <3> DEFINE to == pos + count
    <3>1. to \in Int /\ pos \in Int /\ len \in Int /\ n \in Nat
      BY <1>1, <1>6
    <3> HIDE DEF to
    <3>2. Moved(g.data, to, pos, len)[j] = IF to <= j /\ j < to + len THEN g.data[pos + j - to] ELSE g.data[j]
      BY <1>5, <3>1, MovedElements
    <3> QED BY <3>2 DEF to, moved
  <2>2. j < pos + count + len /\ pos + j - (pos + count) = j - count
    BY <1>1, <1>6 DEF n
  <2> QED BY <2>1, <2>2
<1>8. ASSUME NEW j \in 0 .. n - 1
      PROVE  d[j] = IF j < pos THEN b.data[j] ELSE IF j < pos + count THEN v ELSE b.data[j - count]
  <2>1. CASE j < pos
    <3>1. ~(pos + count <= j) /\ j \notin pos .. pos + count - 1 /\ j < b.size
      BY <1>1, <2>1 DEF n
    <3> QED BY <1>4, <1>7, <2>1, <3>1
  <2>2. CASE ~(j < pos) /\ j < pos + count
    <3>1. j \in pos .. pos + count - 1
      BY <1>1, <2>2 DEF n
    <3> QED BY <1>4, <2>2, <3>1
  <2>3. CASE ~(j < pos + count)
    <3>1. /\ pos + count <= j /\ j \notin pos .. pos + count - 1 /\ ~(j < pos)
          /\ j - count \in 0 .. n - 1 /\ j - count < b.size
      BY <1>1, <2>3 DEF n
    <3>2. d[j] = g.data[j - count]
      BY <1>4, <1>7, <3>1
    <3>3. g.data[j - count] = b.data[j - count]
      BY <1>4, <3>1
    <3> QED BY <2>3, <3>1, <3>2, <3>3
  <2> QED BY <1>1, <2>1, <2>2, <2>3
<1> HIDE DEF d
<1>9. r.size = n /\ \A j \in 0 .. n - 1 : r.data[j] = d[j]
  BY <1>1, <1>3, <1>4, BlockParts
<1>10. r.size = n /\ \A j \in 0 .. n - 1 :
         r.data[j] = IF j < pos THEN b.data[j] ELSE IF j < pos + count THEN v ELSE b.data[j - count]
  BY <1>8, <1>9
<1>11. r.size = b.size + count /\ \A j \in 0 .. b.size + count - 1 :
         r.data[j] = IF j < pos THEN b.data[j] ELSE IF j < pos + count THEN v ELSE b.data[j - count]
  BY <1>1, <1>10 DEF n
<1> QED BY <1>2, <1>11 DEF r

LEMMA InsertsFill ==
  ASSUME Inv, fault = "none", NEW x \in Arrays, NEW pos \in Nat, NEW count \in Nat,
         pos <= blocks[x].size, blocks[x].size + count <= MaxSize, NEW v \in Elements,
         blocks' = [blocks EXCEPT ![x] = Inserted(blocks[x], pos, count, v)]
  PROVE  All' = [All EXCEPT ![x] = Put(All[x], pos, Fill(v, count))]
<1> DEFINE b == blocks[x]
           r == Inserted(b, pos, count, v)
           s == Fill(v, count)
<1>1. Good(b) /\ b.size \in Nat
  BY BlocksAreGood
<1>2. /\ IsBlock(r) /\ r.size = b.size + count
      /\ \A j \in 0 .. b.size + count - 1 :
           r.data[j] = IF j < pos THEN b.data[j] ELSE IF j < pos + count THEN v ELSE b.data[j - count]
  BY <1>1, InsertedElements
<1> HIDE DEF r
<1>3. s \in Seq(Elements) /\ Len(s) = count /\ \A i \in 1 .. count : s[i] = v
  BY FillIsSequence
<1> HIDE DEF s
<1>4. Called(x, r)
  BY <1>2, CallIsMade DEF r
<1>5. \A j \in 0 .. pos - 1 : r.data[j] = b.data[j]
  <2> SUFFICES ASSUME NEW j \in 0 .. pos - 1 PROVE r.data[j] = b.data[j]
    OBVIOUS
  <2>1. j \in 0 .. b.size + count - 1 /\ j < pos
    BY <1>1
  <2> QED BY <1>2, <2>1
<1>6. \A i \in 1 .. count : r.data[pos + i - 1] = s[i]
  <2> SUFFICES ASSUME NEW i \in 1 .. count PROVE r.data[pos + i - 1] = v
    BY <1>3
  <2>1. /\ pos + i - 1 \in 0 .. b.size + count - 1
        /\ ~(pos + i - 1 < pos) /\ pos + i - 1 < pos + count
    BY <1>1
  <2> QED BY <1>2, <2>1
<1>7. \A j \in pos .. b.size - 1 : r.data[count + j] = b.data[j]
  <2> SUFFICES ASSUME NEW j \in pos .. b.size - 1 PROVE r.data[count + j] = b.data[j]
    OBVIOUS
  <2>1. /\ count + j \in 0 .. b.size + count - 1
        /\ ~(count + j < pos) /\ ~(count + j < pos + count) /\ (count + j) - count = j
    BY <1>1
  <2> QED BY <1>2, <2>1
<1>8. pos <= blocks[x].size /\ r.size = blocks[x].size + Len(s)
  BY <1>1, <1>2, <1>3
<1> HIDE DEF b
<1>9. Gains(blocks[x], r, pos, s)
  BY <1>3, <1>5, <1>6, <1>7, <1>8 DEF b, Gains
<1>10. All' = [All EXCEPT ![x] = Put(All[x], pos, s)]
  BY <1>3, <1>4, <1>9, Inserts
<1> QED BY <1>10 DEF s

\* fpda_grow, fpda_push_back and fpda_insert add at the position they are given
\* what they are given, fpda_grow_to_size lengthens the array to the size, and
\* fpda_reserve leaves the array as it was within its capacity and empties it
\* beyond: for elements of every size, with and without a new block.
THEOREM AddingCalls == Spec => AddsMatch
<1>1. ASSUME Inv, NEW x \in Arrays, NEW size \in Sizes, Reserve(x, size),
             size <= blocks[x].cap \/ blocks[x].size = 0
      PROVE  V!Keep
  <2>1. All' = All
    BY <1>1, ReserveKeeps
  <2> QED BY <2>1 DEF V!Keep, All, Elts
<1>10. ASSUME Inv, NEW x \in Arrays, NEW size \in Sizes, Reserve(x, size),
              ~(size <= blocks[x].cap \/ blocks[x].size = 0)
       PROVE  V!Becomes(x, <<>>)
  <2>1. All' = [All EXCEPT ![x] = <<>>]
    BY <1>10, ReserveDrops
  <2> QED BY <2>1 DEF V!Becomes, All, Elts
<1>2. ASSUME Inv, NEW x \in Arrays, NEW size \in Sizes, Grow(x, size)
      PROVE  V!Extend(x, V!Fill(None, size))
  <2>1. All' = [All EXCEPT ![x] = All[x] \o Fill(None, size)]
    BY <1>2, GrowExtends
  <2> QED BY <2>1 DEF V!Extend, V!Becomes, V!Fill, Fill, All, Elts
<1>3. ASSUME Inv, NEW x \in Arrays, NEW v \in Values, PushBack(x, v)
      PROVE  V!Extend(x, <<v>>)
  <2>1. All' = [All EXCEPT ![x] = All[x] \o <<v>>]
    BY <1>3, PushExtends
  <2> QED BY <2>1 DEF V!Extend, V!Becomes, All, Elts
<1>4. ASSUME Inv, NEW x \in Arrays, NEW size \in Sizes, NEW v \in Values, GrowAndInitialize(x, size, v)
      PROVE  V!Extend(x, V!Fill(v, size))
  <2>1. All' = [All EXCEPT ![x] = All[x] \o Fill(v, size)]
    BY <1>4, SizesAreNat, GrowFills
  <2> QED BY <2>1 DEF V!Extend, V!Becomes, V!Fill, Fill, All, Elts
<1>5. ASSUME Inv, NEW x \in Arrays, NEW pos \in Sizes, NEW v \in Values, Insert(x, pos, v)
      PROVE  V!InsertAt(x, pos, <<v>>)
  <2>1. /\ fault = "none" /\ pos <= blocks[x].size /\ blocks[x].size < MaxSize
        /\ blocks' = [blocks EXCEPT ![x] = Inserted(blocks[x], pos, 1, v)]
    BY <1>5 DEF Insert, Becomes
  <2>2. pos \in Nat /\ blocks[x].size + 1 <= MaxSize
    BY <1>5, <2>1, BlocksAreGood, SizesAreNat, MaxSizeAssumption
  <2>3. All' = [All EXCEPT ![x] = Put(All[x], pos, Fill(v, 1))]
    BY <1>5, <2>1, <2>2, InsertsFill DEF Elements
  <2>4. Fill(v, 1) = <<v>>
    BY DEF Fill
  <2>5. All' = [All EXCEPT ![x] = Put(All[x], pos, <<v>>)]
    BY <2>3, <2>4
  <2> QED BY <2>5 DEF V!InsertAt, V!Becomes, All, Elts, Put
<1>6. ASSUME Inv, NEW x \in Arrays, NEW pos \in Sizes, NEW count \in Sizes, InsertUninitialized(x, pos, count)
      PROVE  V!InsertAt(x, pos, V!Fill(None, count))
  <2>1. /\ fault = "none" /\ pos <= blocks[x].size /\ blocks[x].size + count <= MaxSize
        /\ blocks' = [blocks EXCEPT ![x] = Inserted(blocks[x], pos, count, None)]
    BY <1>6 DEF InsertUninitialized, Becomes
  <2>2. pos \in Nat /\ count \in Nat
    BY SizesAreNat
  <2>3. All' = [All EXCEPT ![x] = Put(All[x], pos, Fill(None, count))]
    BY <1>6, <2>1, <2>2, InsertsFill DEF Elements
  <2> QED BY <2>3 DEF V!InsertAt, V!Becomes, V!Fill, Fill, All, Elts, Put
<1>7. ASSUME Inv, NEW x \in Arrays, NEW size \in Sizes, GrowToSize(x, size)
      PROVE  V!LengthenTo(x, size, None)
  BY <1>7, GrowToSizeLengthens
<1>8. ASSUME Inv, NEW x \in Arrays, NEW size \in Sizes, NEW v \in Values,
             GrowToSizeAndInitialize(x, size, v)
      PROVE  V!LengthenTo(x, size, v)
  BY <1>8, GrowToSizeFills
<1>9. Inv => \A x \in Changed :
       /\ \A size \in Sizes :
            /\ Reserve(x, size) =>
                 IF size <= blocks[x].cap \/ blocks[x].size = 0 THEN V!Keep
                 ELSE V!Becomes(x, <<>>)
            /\ GrowToSize(x, size) => V!LengthenTo(x, size, None)
            /\ Grow(x, size) => V!Extend(x, V!Fill(None, size))
       /\ \A v \in Values : PushBack(x, v) => V!Extend(x, <<v>>)
       /\ \A size \in Sizes, v \in Values :
            /\ GrowAndInitialize(x, size, v) => V!Extend(x, V!Fill(v, size))
            /\ GrowToSizeAndInitialize(x, size, v) => V!LengthenTo(x, size, v)
            /\ Insert(x, size, v) => V!InsertAt(x, size, <<v>>)
       /\ \A pos, count \in Sizes :
            InsertUninitialized(x, pos, count) => V!InsertAt(x, pos, V!Fill(None, count))
  <2> HAVE Inv
  <2> TAKE x \in Changed
  <2>1. x \in Arrays
    BY DEF Changed
  <2> QED BY <1>1, <1>2, <1>3, <1>4, <1>5, <1>6, <1>7, <1>8, <1>10, <2>1
<1> QED BY <1>9, InvHolds, PTL DEF AddsMatch

-----------------------------------------------------------------------------
(* The calls that remove elements. *)

LEMMA CallLeaves ==
  ASSUME Inv, Inv', NEW x \in Arrays, NEW b, blocks' = [blocks EXCEPT ![x] = b]
  PROVE  Called(x, b)
<1>1. blocks'[x] = b
  BY DEF Inv, TypeOK
<1> QED BY <1>1 DEF Inv, TypeOK, Called, Leaves

\* Moved over the range at pos, the elements behind it close the gap.
Closed(a, pos, count, room, cap) ==
  Block(room, cap, a.size - count, Moved(a.data, pos, pos + count, a.size - pos - count))

LEMMA ClosedBlock ==
  ASSUME NEW a, IsBlock(a), NEW pos \in Nat, NEW count \in Nat, pos + count <= a.size, NEW room, NEW cap
  PROVE  Loses(a, Closed(a, pos, count, room, cap), pos, count)
<1>1. PICK n \in Nat : a.size = n
  BY DEF IsBlock
<1>2. PICK f \in [0 .. n - 1 -> Elements] : a.data = f
  BY <1>1 DEF IsBlock, Elements
<1> DEFINE left == n - count
           from == pos + count
           rest == n - pos - count
           d == Moved(f, pos, from, rest)
           c == Closed(a, pos, count, room, cap)
<1>3. pos + count <= n /\ left \in Nat
  BY <1>1
<1>4. ASSUME NEW j \in 0 .. left - 1
      PROVE  d[j] = IF pos <= j THEN f[j + count] ELSE f[j]
  <2>1. /\ from \in Int /\ rest \in Int /\ from = pos + count
        /\ j \in DOMAIN f /\ (j \in pos .. pos + rest - 1 <=> pos <= j)
        /\ from + j - pos = j + count
    BY <1>3
  <2> HIDE DEF from, rest
  <2>2. d[j] = IF j \in pos .. pos + rest - 1 THEN f[from + j - pos] ELSE f[j]
    BY <2>1 DEF Moved
  <2> QED BY <2>1, <2>2
<1>5. c = Block(room, cap, left, d)
  BY <1>1, <1>2 DEF Closed
<1> HIDE DEF d, c
<1>6. c.size = left /\ \A j \in 0 .. left - 1 : c.data[j] = d[j]
  BY <1>3, <1>5, BlockParts
<1>7. ASSUME NEW j \in 0 .. pos - 1 PROVE c.data[j] = f[j]
  <2>1. j \in 0 .. left - 1 /\ ~(pos <= j)
    BY <1>3
  <2> QED BY <1>4, <1>6, <2>1
<1>8. ASSUME NEW j \in pos .. left - 1 PROVE c.data[j] = f[j + count]
  <2>1. j \in 0 .. left - 1 /\ pos <= j
    BY <1>3
  <2> QED BY <1>4, <1>6, <2>1
<1>9. /\ c.size = a.size - count
      /\ \A j \in 0 .. pos - 1 : c.data[j] = a.data[j]
      /\ \A j \in pos .. a.size - count - 1 : c.data[j] = a.data[j + count]
  BY <1>1, <1>2, <1>6, <1>7, <1>8
<1> QED BY <1>9 DEF c, Loses

LEMMA ClosingGap ==
  ASSUME Inv, Inv', fault = "none", NEW x \in Arrays, NEW pos \in Nat, NEW count \in Nat,
         pos + count <= blocks[x].size, NEW room, NEW cap,
         blocks' = [blocks EXCEPT ![x] = Closed(blocks[x], pos, count, room, cap)]
  PROVE  All' = [All EXCEPT ![x] = Without(All[x], pos, count)]
<1> DEFINE b == Closed(blocks[x], pos, count, room, cap)
<1>1. IsBlock(blocks[x])
  BY BlocksAreGood DEF Good
<1>2. Loses(blocks[x], b, pos, count)
  BY <1>1, ClosedBlock
<1>3. Called(x, b)
  BY CallLeaves
<1> HIDE DEF b
<1> QED BY <1>2, <1>3, Removes

LEMMA RangesAreRemoved ==
  ASSUME Inv, Inv', NEW x \in Arrays, NEW pos \in Nat, NEW count \in Nat,
         DeleteRange(x, pos, count) \/ ShrinkDeleteRange(x, pos, count)
  PROVE  All' = [All EXCEPT ![x] = Without(All[x], pos, count)]
<1>1. fault = "none" /\ pos + count <= blocks[x].size
  BY DEF DeleteRange, ShrinkDeleteRange, Becomes, CopiesTo
<1>2. PICK room, cap : blocks' = [blocks EXCEPT ![x] = Closed(blocks[x], pos, count, room, cap)]
  BY DEF DeleteRange, ShrinkDeleteRange, Becomes, CopiesTo, Shrunk, Closed
<1> QED BY <1>1, <1>2, ClosingGap

LEMMA PopFrontRemoves ==
  ASSUME Inv, Inv', NEW x \in Arrays, PopFront(x), blocks[x].size > 1
  PROVE  All' = [All EXCEPT ![x] = Without(All[x], 0, 1)]
<1> DEFINE b == blocks[x]
<1>1. fault = "none"
  BY DEF PopFront, Becomes
<1>2. PICK n \in Nat : b.size = n
  BY <1>1, BlocksAreGood
<1>3. ~(b.size <= 1) /\ 0 + 1 <= b.size /\ b.size - 1 = b.size - 0 - 1 /\ 0 + 1 = 1
  BY <1>2
<1>4. blocks' = [blocks EXCEPT ![x] = Block(b.room, b.cap, b.size - 1, Moved(b.data, 0, 1, b.size - 1))]
  BY <1>3 DEF PopFront
<1>5. blocks' = [blocks EXCEPT ![x] = Closed(b, 0, 1, b.room, b.cap)]
  BY <1>3, <1>4 DEF Closed
<1> QED BY <1>1, <1>3, <1>5, ClosingGap

\* fpda_pop_back_n
LEMMA PopLeaves ==
  ASSUME Inv, Inv', NEW x \in Arrays, NEW count \in Nat, PopBackN(x, count),
         NEW size \in Nat, size = IF blocks[x].size = 0 THEN 0 ELSE blocks[x].size - count
  PROVE  V!CutTo(x, size)
<1> DEFINE b == blocks[x]
           c == Block(b.room, b.cap, size, b.data)
           g == MaybeGrow(c, size, TRUE, FALSE)
<1>1. fault = "none" /\ blocks' = [blocks EXCEPT ![x] = g] /\ (b.size > 0 => count <= b.size)
  BY DEF PopBackN, Becomes
<1>2. /\ b.room \in Nat /\ b.cap \in Nat /\ b.size \in Nat
      /\ b.size <= b.cap /\ b.cap * TypeSize <= b.room /\ b.data \in [0 .. b.size - 1 -> Elements]
  BY <1>1, BlocksAreGood
<1>3. size <= b.size
  BY <1>1, <1>2
<1>4. \A j \in 0 .. size - 1 : b.data[j] \in Elements
  BY <1>2, <1>3
<1>5. Good(c) /\ c.size = size /\ \A j \in 0 .. size - 1 : c.data[j] = b.data[j]
  <2> HIDE DEF b
  <2>1. size <= b.cap
    BY <1>2, <1>3
  <2> QED BY <1>2, <1>4, <2>1, BlockIsGood, BlockParts
<1>6. Called(x, g)
  BY <1>1, CallLeaves
<1> HIDE DEF c
<1>7. Larger(size, size) = size
  BY DEF Larger
<1>8. g.size = size /\ \A j \in 0 .. size - 1 : g.data[j] = IF j < size THEN c.data[j] ELSE None
  <2>1. Good(c) /\ Larger(c.size, size) = size /\ FALSE \in BOOLEAN
    BY <1>5, <1>7
  <2>2. /\ MaybeGrow(c, size, TRUE, FALSE).size = Larger(c.size, size)
        /\ \A j \in 0 .. Larger(c.size, size) - 1 :
             MaybeGrow(c, size, TRUE, FALSE).data[j] = IF j < c.size THEN c.data[j] ELSE None
    BY <2>1, GrowingElements
  <2> QED BY <1>5, <2>1, <2>2
<1> HIDE DEF g
<1>9. \A j \in 0 .. size - 1 : g.data[j] = b.data[j]
  BY <1>5, <1>8
<1>10. g.size = IF size < blocks[x].size THEN size ELSE blocks[x].size
  BY <1>2, <1>3, <1>8
<1> QED BY <1>6, <1>8, <1>9, <1>10, Cuts

\* fpda_resize
LEMMA ResizeLeaves ==
  ASSUME Inv, Inv', NEW x \in Arrays, NEW size \in Sizes, Resize(x, size)
  PROVE  IF size <= blocks[x].size THEN V!CutTo(x, size) ELSE V!LengthenTo(x, size, None)
<1> DEFINE b == blocks[x]
           g == GrownTo(b, size)
           h == Shrunk(size, Memory(b, size))
<1>1. fault = "none"
  BY DEF Resize, Becomes, CopiesTo
<1>2. Good(b) /\ b.cap \in Nat /\ b.size \in Nat /\ b.size <= b.cap
  BY <1>1, BlocksAreGood
<1>3. size \in Nat /\ size <= MaxSize
  BY SizesAreNat
<1>4. CASE size > b.cap
  <2>1. blocks' = [blocks EXCEPT ![x] = g]
    BY <1>4 DEF Resize, Becomes
  <2>2. Called(x, g)
    BY <2>1, CallLeaves
  <2>3. /\ g.size = Larger(b.size, size)
        /\ \A j \in 0 .. g.size - 1 : g.data[j] = IF j < b.size THEN b.data[j] ELSE None
    BY <1>2, <1>3, GrownBlock DEF GrownTo
  <2> HIDE DEF g
  <2>4. V!LengthenTo(x, size, None)
    BY <1>3, <2>2, <2>3, Lengthens DEF Elements
  <2> QED BY <1>2, <1>3, <1>4, <2>4
<1>5. CASE ~(size > b.cap)
  <2>1. blocks' = [blocks EXCEPT ![x] = h]
    BY <1>5 DEF Resize, CopiesTo
  <2>2. Called(x, h)
    BY <2>1, CallLeaves
  <2> DEFINE d == Memory(b, size)
  <2>3. \A j \in 0 .. size - 1 : d[j] = IF j < b.size THEN b.data[j] ELSE None
    BY DEF Memory
  <2> HIDE DEF d
  <2>4. h.size = size /\ \A j \in 0 .. size - 1 : h.data[j] = d[j]
    BY <1>3, BlockParts DEF Shrunk, d
  <2> HIDE DEF h
  <2>5. \A j \in 0 .. size - 1 : h.data[j] = IF j < b.size THEN b.data[j] ELSE None
    BY <2>3, <2>4
  <2>6. CASE size <= b.size
    <3>1. \A j \in 0 .. size - 1 : h.data[j] = b.data[j]
      BY <1>2, <1>3, <2>5, <2>6
    <3>2. h.size = IF size < blocks[x].size THEN size ELSE blocks[x].size
      BY <1>2, <1>3, <2>4, <2>6
    <3>3. V!CutTo(x, size)
      BY <1>3, <2>2, <2>4, <3>1, <3>2, Cuts
    <3> QED BY <2>6, <3>3
  <2>7. CASE ~(size <= b.size)
    <3>1. h.size = Larger(b.size, size)
      BY <1>2, <1>3, <2>4, <2>7 DEF Larger
    <3>2. V!LengthenTo(x, size, None)
      BY <1>3, <2>2, <2>4, <2>5, <3>1, Lengthens DEF Elements
    <3> QED BY <2>7, <3>2
  <2> QED BY <2>6, <2>7
<1> QED BY <1>4, <1>5

\* memcpy, of ranges that do not overlap
LEMMA CopiesOfApart ==
  ASSUME NEW d, NEW p, NEW q, NEW len, ~Overlap(p, q, len)
  PROVE  Copies(d, p, q, len) = {Moved(d, p, q, len)}
BY DEF Copies

\* What fpda_swap_delete_range leaves of a sequence.
SwappedOut(s, pos, count) ==
  [j \in 1 .. Len(s) - count |->
    IF j \in pos + 1 .. pos + count THEN s[Len(s) - count + j - pos] ELSE s[j]]

LEMMA SwapDeleteLeaves ==
  ASSUME Inv, Inv', NEW x \in Arrays, NEW pos \in Sizes, NEW count \in Sizes,
         SwapDeleteRange(x, pos, count), Disjoint(pos, blocks[x].size - count, count)
  PROVE  All' = [All EXCEPT ![x] = SwappedOut(All[x], pos, count)]
<1> DEFINE a == blocks[x]
           last == a.size - count
           d == Moved(a.data, pos, last, count)
           b == Block(a.room, a.cap, last, d)
           e == Elts(a)
           r == Elts(b)
<1>1. fault = "none" /\ pos + count <= a.size
  BY DEF SwapDeleteRange, CopiesTo
<1>2. PICK n \in Nat : a.size = n /\ a.data \in [0 .. n - 1 -> Elements]
  BY <1>1, BlocksAreGood
<1>3. pos \in Nat /\ count \in Nat
  BY SizesAreNat
<1>4. last = n - count /\ last \in Nat /\ pos + count <= n
  BY <1>1, <1>2, <1>3
<1>5. ~Overlap(pos, last, count)
  <2> HIDE DEF last
  <2>1. pos + count <= last \/ last + count <= pos
    BY DEF Disjoint, last
  <2> QED BY <1>3, <1>4, <2>1 DEF Overlap
<1>6. blocks' = [blocks EXCEPT ![x] = b]
  <2>1. PICK f \in (IF a.cap - a.size > count THEN Copies(a.data, pos, last, count)
                    ELSE {Moved(a.data, pos, last, count)}) :
          blocks' = [blocks EXCEPT ![x] = Block(a.room, a.cap, last, f)]
    BY DEF SwapDeleteRange, CopiesTo
  <2>2. f = d
    <3> HIDE DEF a, last
    <3>1. Copies(a.data, pos, last, count) = {Moved(a.data, pos, last, count)}
      BY <1>5, CopiesOfApart
    <3> QED BY <2>1, <3>1
  <2> QED BY <2>1, <2>2
<1>7. Called(x, b)
  BY <1>6, CallLeaves
<1> HIDE DEF last
<1>8. b.size = last /\ \A j \in 0 .. last - 1 : b.data[j] = d[j]
  BY <1>4, BlockParts
<1> HIDE DEF b
<1>9. ASSUME NEW j \in 0 .. last - 1
      PROVE  d[j] = IF pos <= j /\ j < pos + count THEN a.data[last + j - pos] ELSE a.data[j]
  <2> HIDE DEF a
  <2>1. j \in 0 .. n - 1 /\ n \in Nat /\ a.data \in [0 .. n - 1 -> Elements]
    BY <1>2, <1>3, <1>4
  <2>2. last \in Int /\ pos \in Int /\ count \in Int
    BY <1>3, <1>4
  <2> QED BY <2>1, <2>2, MovedElements
<1> HIDE DEF d
<1>10. /\ e \in Seq(Elements) /\ Len(e) = n /\ \A i \in 1 .. n : e[i] = a.data[i - 1]
       /\ r = [i \in 1 .. last |-> b.data[i - 1]]
  BY <1>2, <1>7, <1>8, CallSequences DEF Elts
<1> HIDE DEF e, r, a
<1>11. ASSUME NEW i \in 1 .. last
       PROVE  b.data[i - 1] = IF i \in pos + 1 .. pos + count THEN e[last + i - pos] ELSE e[i]
  <2>1. i - 1 \in 0 .. last - 1 /\ i \in 1 .. n
    BY <1>3, <1>4
  <2>2. CASE i \in pos + 1 .. pos + count
    <3>1. /\ pos <= i - 1 /\ i - 1 < pos + count /\ last + (i - 1) - pos = (last + i - pos) - 1
          /\ last + i - pos \in 1 .. n
      BY <1>3, <1>4, <2>2
    <3>2. b.data[i - 1] = a.data[last + (i - 1) - pos]
      BY <1>8, <1>9, <2>1, <3>1
    <3>3. e[last + i - pos] = a.data[(last + i - pos) - 1]
      BY <1>10, <3>1
    <3> QED BY <2>2, <3>1, <3>2, <3>3
  <2>3. CASE ~(i \in pos + 1 .. pos + count)
    <3>1. ~(pos <= i - 1 /\ i - 1 < pos + count)
      BY <1>3, <2>3
    <3>2. b.data[i - 1] = a.data[i - 1]
      BY <1>8, <1>9, <2>1, <3>1
    <3> QED BY <1>10, <2>1, <2>3, <3>2
  <2> QED BY <2>2, <2>3
<1>12. r = SwappedOut(e, pos, count)
  <2>1. Len(e) - count = last
    BY <1>4, <1>10
  <2> QED BY <1>10, <1>11, <2>1 DEF SwappedOut
<1>13. All[x] = e /\ All' = [All EXCEPT ![x] = r]
  BY <1>7, CallSequences, AllAfter DEF e, r, a
<1> QED BY <1>12, <1>13

\* fpda_pop_back, fpda_delete_range, fpda_resize, fpda_pop_front and their like
\* keep every element they do not remove, in its order, whether they shorten the
\* block or make a new one; fpda_swap_delete_range moves the last elements into
\* the gap, where the two ranges do not overlap.
THEOREM RemovingCalls == Spec => RemovesMatch
<1>1. ASSUME Inv, Inv', NEW x \in Arrays, NEW size \in Sizes, PopBackN(x, size)
      PROVE  V!CutTo(x, Larger(0, blocks[x].size - size))
  <2> DEFINE b == blocks[x]
  <2>1. fault = "none" /\ (b.size > 0 => size <= b.size)
    BY <1>1 DEF PopBackN, Becomes
  <2>2. b.size \in Nat /\ size \in Nat
    BY <2>1, BlocksAreGood, SizesAreNat, <1>1
  <2>3. PICK left \in Nat : left = IF b.size = 0 THEN 0 ELSE b.size - size
    BY <2>1, <2>2
  <2>4. V!CutTo(x, left)
    BY <1>1, <2>2, <2>3, PopLeaves
  <2>5. Larger(0, b.size - size) = left
    BY <2>1, <2>2, <2>3 DEF Larger
  <2> QED BY <2>4, <2>5 DEF V!CutTo, V!Remove, V!Becomes, V!Keep
<1>2. ASSUME Inv, Inv', NEW x \in Arrays, NEW size \in Sizes, PopBackToSize(x, size)
      PROVE  V!CutTo(x, size)
  <2> DEFINE b == blocks[x]
  <2>1. fault = "none"
    BY <1>2 DEF PopBackToSize, PopBackN, Becomes
  <2>2. b.size \in Nat /\ size \in Nat
    BY <1>2, <2>1, BlocksAreGood, SizesAreNat
  <2>3. PICK count \in Nat : count = IF b.size > size THEN b.size - size ELSE 0
    BY <2>2
  <2>4. PICK left \in Nat : left = IF b.size = 0 THEN 0 ELSE b.size - count
    BY <2>2, <2>3
  <2>5. V!CutTo(x, left)
    <3>1. PopBackN(x, count)
      BY <1>2, <2>3 DEF PopBackToSize, PopBackN, Becomes
    <3> QED BY <1>2, <2>4, <3>1, PopLeaves
  <2>6. Len(All[x]) = b.size
    BY <1>2, <2>1, BlocksAreGood, EltsAreSequence DEF All, Good
  <2>7. CASE b.size > size
    <3>1. left = size
      BY <2>2, <2>3, <2>4, <2>7
    <3> QED BY <2>5, <3>1 DEF V!CutTo, V!Remove, V!Becomes, V!Keep
  <2>8. CASE ~(b.size > size)
    <3>1. ~(left < Len(All[x])) /\ ~(size < Len(All[x]))
      BY <2>2, <2>3, <2>4, <2>6, <2>8
    <3> QED BY <2>5, <3>1 DEF V!CutTo, V!Keep, All, Elts
  <2> QED BY <2>7, <2>8
<1>3. ASSUME Inv, Inv', NEW x \in Arrays, NEW pos \in Sizes, NEW count \in Sizes,
             DeleteRange(x, pos, count) \/ ShrinkDeleteRange(x, pos, count)
      PROVE  V!Remove(x, pos, count)
  <2>1. All' = [All EXCEPT ![x] = Without(All[x], pos, count)]
    BY <1>3, SizesAreNat, RangesAreRemoved
  <2> QED BY <2>1 DEF V!Remove, V!Becomes, All, Elts, Without
<1>4. ASSUME Inv, Inv', NEW x \in Arrays, NEW pos \in Sizes, NEW count \in Sizes,
             SwapDeleteRange(x, pos, count), Disjoint(pos, blocks[x].size - count, count)
      PROVE  V!SwapRemove(x, pos, count)
  <2>1. All' = [All EXCEPT ![x] = SwappedOut(All[x], pos, count)]
    BY <1>4, SwapDeleteLeaves
  <2> QED BY <2>1 DEF V!SwapRemove, V!Becomes, All, Elts, SwappedOut
<1>5. ASSUME Inv, Inv', NEW x \in Arrays, ShrinkToFit(x)
      PROVE  V!Keep
  <2>1. All' = [All EXCEPT ![x] = Without(All[x], 0, 0)]
    BY <1>5, RangesAreRemoved DEF ShrinkToFit
  <2>2. fault = "none"
    BY <1>5 DEF ShrinkToFit, ShrinkDeleteRange, CopiesTo
  <2>3. All[x] \in Seq(Elements)
    BY <1>5, <2>2, BlocksAreGood, EltsAreSequence DEF All, Good
  <2> DEFINE s == All[x]
  <2> HIDE DEF s
  <2>4. Len(s) = Len(s) - 0 /\ IsWithout(s, 0, 0, s)
    BY <2>3 DEF IsWithout, s
  <2>5. s = Without(s, 0, 0)
    BY <2>3, <2>4, RemovedByElements DEF s
  <2>6. All' = All
    BY <2>1, <2>5 DEF All, s
  <2> QED BY <2>6 DEF V!Keep, All, Elts
<1>6. ASSUME Inv, Inv', NEW x \in Arrays, PopFront(x), blocks[x].size > 1
      PROVE  V!Remove(x, 0, 1)
  <2>1. All' = [All EXCEPT ![x] = Without(All[x], 0, 1)]
    BY <1>6, PopFrontRemoves
  <2> QED BY <2>1 DEF V!Remove, V!Becomes, All, Elts, Without
<1>7. ASSUME Inv, Inv', NEW x \in Arrays, Clear(x) \/ Free(x)
      PROVE  V!Becomes(x, <<>>)
  <2>1. PICK room, cap : blocks' = [blocks EXCEPT ![x] = Block(room, cap, 0, <<>>)]
    BY <1>7 DEF Clear, Free, Becomes, Null
  <2> DEFINE b == Block(room, cap, 0, <<>>)
  <2>2. Called(x, b)
    BY <1>7, <2>1, CallLeaves
  <2>3. b.size = 0
    BY DEF Block
  <2> HIDE DEF b
  <2>4. Elts(b) = <<>>
    BY <2>3 DEF Elts
  <2>5. All' = [All EXCEPT ![x] = <<>>]
    BY <2>2, <2>4, CallSequences, AllAfter
  <2> QED BY <2>5 DEF V!Becomes, All, Elts
<1>8. Inv /\ Inv' => \A x \in Changed :
       /\ \A size \in Sizes :
            /\ PopBackN(x, size) => V!CutTo(x, Larger(0, blocks[x].size - size))
            /\ PopBackToSize(x, size) => V!CutTo(x, size)
            /\ Resize(x, size) => IF size <= blocks[x].size THEN V!CutTo(x, size)
                                  ELSE V!LengthenTo(x, size, None)
       /\ \A pos, count \in Sizes :
            /\ DeleteRange(x, pos, count) => V!Remove(x, pos, count)
            /\ ShrinkDeleteRange(x, pos, count) => V!Remove(x, pos, count)
            /\ SwapDeleteRange(x, pos, count) =>
                 (Disjoint(pos, blocks[x].size - count, count) => V!SwapRemove(x, pos, count))
       /\ ShrinkToFit(x) => V!Keep
       /\ PopFront(x) => (blocks[x].size > 1 => V!Remove(x, 0, 1))
       /\ Clear(x) \/ Free(x) => V!Becomes(x, <<>>)
  <2> HAVE Inv /\ Inv'
  <2> TAKE x \in Changed
  <2>1. x \in Arrays
    BY DEF Changed
  <2> QED BY <1>1, <1>2, <1>3, <1>4, <1>5, <1>6, <1>7, <2>1, ResizeLeaves
<1> QED BY <1>8, InvHolds, PTL DEF RemovesMatch

-----------------------------------------------------------------------------
(* The calls that move elements. *)

\* What fpda_swap_range makes of a sequence.
Exchanged(s, p, q, count) ==
  [j \in 1 .. Len(s) |->
    IF j \in p + 1 .. p + count THEN s[j - p + q]
    ELSE IF j \in q + 1 .. q + count THEN s[j - q + p] ELSE s[j]]

LEMMA SwapExchanges ==
  ASSUME Inv, Inv', NEW x \in Arrays, NEW p \in Sizes, NEW q \in Sizes, NEW count \in Sizes,
         SwapRange(x, p, q, count), p = q \/ Disjoint(p, q, count)
  PROVE  All' = [All EXCEPT ![x] = Exchanged(All[x], p, q, count)]
<1> DEFINE a == blocks[x]
           d == Moved(a.data, p, q, count)
           t == [j \in 0 .. a.size - 1 |->
                  IF p # q /\ j \in q .. q + count - 1 THEN a.data[p + j - q] ELSE d[j]]
           b == Block(a.room, a.cap, a.size, t)
           e == Elts(a)
           r == Elts(b)
<1>1. fault = "none" /\ p + count <= a.size /\ q + count <= a.size
  BY DEF SwapRange, Becomes
<1>2. PICK n \in Nat : a.size = n /\ a.data \in [0 .. n - 1 -> Elements]
  BY <1>1, BlocksAreGood
<1>3. p \in Nat /\ q \in Nat /\ count \in Nat /\ p + count <= n /\ q + count <= n
  BY <1>1, <1>2, SizesAreNat
<1>4. ~Overlap(p, q, count)
  BY <1>3 DEF Overlap, Disjoint
<1>5. blocks' = [blocks EXCEPT ![x] = b]
  <2>1. PICK f \in Copies(a.data, p, q, count) :
          blocks' = [blocks EXCEPT ![x] = Block(a.room, a.cap, a.size,
            [j \in 0 .. a.size - 1 |->
              IF p # q /\ j \in q .. q + count - 1 THEN a.data[p + j - q] ELSE f[j]])]
    BY DEF SwapRange, Becomes
  <2>2. f = d
    <3> HIDE DEF a
    <3> QED BY <1>4, <2>1, CopiesOfApart
  <2> QED BY <2>1, <2>2
<1>6. Called(x, b)
  BY <1>5, CallLeaves
<1>7. \A j \in 0 .. n - 1 : t[j] = IF p # q /\ j \in q .. q + count - 1 THEN a.data[p + j - q] ELSE d[j]
  BY <1>2
<1>8. \A j \in 0 .. n - 1 : d[j] = IF j \in p .. p + count - 1 THEN a.data[q + j - p] ELSE a.data[j]
  BY <1>2 DEF Moved
<1> HIDE DEF d, t
<1>9. b.size = n /\ \A j \in 0 .. n - 1 : b.data[j] = t[j]
  BY <1>2, BlockParts
<1> HIDE DEF b
<1>10. /\ e \in Seq(Elements) /\ Len(e) = n /\ \A i \in 1 .. n : e[i] = a.data[i - 1]
       /\ r = [i \in 1 .. n |-> b.data[i - 1]]
  BY <1>2, <1>6, <1>9, CallSequences DEF Elts
<1> HIDE DEF e, r, a
<1>11. ASSUME NEW i \in 1 .. n
       PROVE  b.data[i - 1] = IF i \in p + 1 .. p + count THEN e[i - p + q]
                              ELSE IF i \in q + 1 .. q + count THEN e[i - q + p] ELSE e[i]
  <2>1. i - 1 \in 0 .. n - 1
    BY <1>3
  <2>2. /\ i \in p + 1 .. p + count <=> i - 1 \in p .. p + count - 1
        /\ i \in q + 1 .. q + count <=> i - 1 \in q .. q + count - 1
    BY <1>3
  <2>3. b.data[i - 1] = IF p # q /\ i \in q + 1 .. q + count THEN a.data[p + (i - 1) - q]
                        ELSE IF i \in p + 1 .. p + count THEN a.data[q + (i - 1) - p] ELSE a.data[i - 1]
    BY <1>7, <1>8, <1>9, <2>1, <2>2
  <2>4. CASE i \in p + 1 .. p + count
    <3>1. ~(p # q /\ i \in q + 1 .. q + count)
      BY <1>3, <2>4 DEF Disjoint
    <3>2. i - p + q \in 1 .. n /\ (i - p + q) - 1 = q + (i - 1) - p
      BY <1>3, <2>4
    <3> QED BY <1>10, <2>3, <2>4, <3>1, <3>2
  <2>5. CASE i \notin p + 1 .. p + count /\ i \in q + 1 .. q + count
    <3>1. p # q
      BY <2>5
    <3>2. i - q + p \in 1 .. n /\ (i - q + p) - 1 = p + (i - 1) - q
      BY <1>3, <2>5
    <3> QED BY <1>10, <2>3, <2>5, <3>1, <3>2
  <2>6. CASE i \notin p + 1 .. p + count /\ i \notin q + 1 .. q + count
    BY <1>10, <2>3, <2>6
  <2> QED BY <2>4, <2>5, <2>6
<1>12. r = Exchanged(e, p, q, count)
  BY <1>10, <1>11 DEF Exchanged
<1>13. All[x] = e /\ All' = [All EXCEPT ![x] = r]
  BY <1>6, CallSequences, AllAfter DEF e, r, a
<1> QED BY <1>12, <1>13

LEMMA CloneAssigns ==
  ASSUME Inv, Inv', NEW x \in Arrays, NEW y \in Arrays, NEW shrink \in BOOLEAN,
         CloneTo(x, y, shrink), x # y
  PROVE  All' = [All EXCEPT ![x] = All[y]]
<1> DEFINE src == blocks[y]
<1>1. fault = "none"
  BY DEF CloneTo
<1>2. PICK n \in Nat : src.size = n
  BY <1>1, BlocksAreGood
<1>3. PICK room, cap : blocks' = [blocks EXCEPT ![x] = Cloned(room, cap, n, src)]
  BY <1>2 DEF CloneTo
<1> DEFINE b == Cloned(room, cap, n, src)
           d == Memory(src, n)
<1>4. Called(x, b)
  BY <1>3, CallLeaves
<1>5. \A j \in 0 .. n - 1 : d[j] = src.data[j]
  BY <1>2 DEF Memory
<1> HIDE DEF d
<1>6. b.size = n /\ \A j \in 0 .. n - 1 : b.data[j] = d[j]
  BY BlockParts DEF Cloned, d
<1> HIDE DEF b
<1>7. Elts(b) = Elts(src)
  <2>1. \A i \in 1 .. n : b.data[i - 1] = src.data[i - 1]
    BY <1>5, <1>6
  <2> QED BY <1>2, <1>6, <2>1 DEF Elts
<1>8. All' = [All EXCEPT ![x] = Elts(b)] /\ All[y] = Elts(src)
  BY <1>4, CallSequences, AllAfter DEF All
<1> QED BY <1>7, <1>8

\* fpda_swap_range exchanges two ranges that do not overlap and moves nothing
\* else, and fpda_clone_to makes the destination the sequence of the source,
\* whatever the sizes of both, as long as the two are different arrays.
THEOREM MovingCalls == Spec => MovesMatch
<1>1. ASSUME Inv, Inv', NEW x \in Arrays, NEW p \in Sizes, NEW q \in Sizes, NEW count \in Sizes,
             SwapRange(x, p, q, count), p = q \/ Disjoint(p, q, count)
      PROVE  V!Exchange(x, p, q, count)
  <2>1. All' = [All EXCEPT ![x] = Exchanged(All[x], p, q, count)]
    BY <1>1, SwapExchanges
  <2> QED BY <2>1 DEF V!Exchange, V!Becomes, All, Elts, Exchanged
<1>2. ASSUME Inv, Inv', NEW x \in Arrays, NEW y \in Arrays, NEW shrink \in BOOLEAN,
             CloneTo(x, y, shrink), x # y
      PROVE  V!Assign(x, y)
  <2>1. All' = [All EXCEPT ![x] = All[y]]
    BY <1>2, CloneAssigns
  <2> QED BY <2>1 DEF V!Assign, V!Becomes, All, Elts
<1>3. Inv /\ Inv' => \A x \in Changed :
       /\ \A p, q, count \in Sizes :
            SwapRange(x, p, q, count) => (p = q \/ Disjoint(p, q, count) => V!Exchange(x, p, q, count))
       /\ \A y \in Arrays, shrink \in BOOLEAN :
            CloneTo(x, y, shrink) => (x # y /\ fault' = "none" => V!Assign(x, y))
  <2> HAVE Inv /\ Inv'
  <2> TAKE x \in Changed
  <2>1. x \in Arrays
    BY DEF Changed
  <2> QED BY <1>1, <1>2, <2>1
<1> QED BY <1>3, InvHolds, PTL DEF MovesMatch
=============================================================================
