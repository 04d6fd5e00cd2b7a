------------------------------- MODULE DynArray -------------------------------
(***************************************************************************)
(* The dynamic arrays of include/fp/dynarray.h.                            *)
(*                                                                         *)
(* An array variable is null or points behind a header (capacity, size)    *)
(* into an allocated block.  A call is one step: the library is sequential.*)
(* What the source asserts, and what its callers must know (an index below *)
(* the size), are guards; behaviour the source leaves undefined shows in   *)
(* `fault`, and where copying overlapping memory is undefined, in a choice.*)
(* Memory past the last element is kept as None: a call that uncovers it   *)
(* hands out what it calls uninitialised elements.                         *)
(***************************************************************************)
EXTENDS Integers, Sequences

CONSTANTS
  Arrays,            \* the array variables of the caller
  Values, None,      \* elements; an uninitialised one
  TypeSize,          \* sizeof(*a)
  DefaultBytes,      \* FPDA_DEFAULT_SIZE_BYTES
  NextPower,   \* fp_upper_power_of_two, as a function
  MaxSize            \* bound: no call asks for more elements

ASSUME NoneAssumption == None \notin Values
ASSUME TypeSizeAssumption == TypeSize \in Nat \ {0}
ASSUME DefaultAssumption == DefaultBytes \in Nat
ASSUME MaxSizeAssumption == MaxSize \in Nat
ASSUME PowerAssumption ==
  \A v \in 1 .. MaxSize : NextPower[v] \in Nat /\ NextPower[v] >= v

VARIABLES
  blocks,   \* what each array variable points to
  fault     \* memory misused, or a header spoilt, by a call: nothing follows

vars == <<blocks, fault>>

-----------------------------------------------------------------------------
(* A block: the bytes allocated for its elements (0 for a null pointer), the *)
(* capacity and size in its header, and the elements.                        *)

Block(room, cap, size, d) ==
  [room |-> room, cap |-> cap, size |-> size,
   data |-> [j \in 0 .. size - 1 |-> d[j]]]

Null      == Block(0, 0, 0, <<>>)
IsNull(b) == b.room = 0

\* Two bytes follow the elements of a block (the final zeros of the array and
\* of the allocation it is made from).
Slack == 2

Larger(m, k) == IF m > k THEN m ELSE k

\* A block's elements, with what follows them up to index k.
Memory(b, k) == [j \in 0 .. k - 1 |-> IF j < b.size THEN b.data[j] ELSE None]

\* memmove, and memcpy of ranges that do not overlap
Moved(d, to, from, len) ==
  [j \in DOMAIN d |-> IF j \in to .. to + len - 1 THEN d[from + j - to] ELSE d[j]]

\* memcpy of any ranges: of overlapping ones either it behaves as memmove, or
\* it copies from the wrong end and reads what it has already written.
Overlap(p, q, len) == p # q /\ p < q + len /\ q < p + len
Smeared(d, to, from, len) ==
  [j \in DOMAIN d |->
    IF j \notin to .. to + len - 1 THEN d[j]
    ELSE IF to > from THEN d[from + ((j - to) % (to - from))]
    ELSE d[j + (from - to) * (1 + ((to + len - 1 - j) \div (from - to)))]]
Copies(d, to, from, len) ==
  {Moved(d, to, from, len)} \cup
    (IF Overlap(to, from, len) THEN {Smeared(d, to, from, len)} ELSE {})

\* Filled from index `from` on with v.
Filled(b, from, v) ==
  Block(b.room, b.cap, b.size, [j \in 0 .. b.size - 1 |-> IF j >= from THEN v ELSE b.data[j]])

\* Mutant of Allocated: the bytes are not scaled by the size of an element.
AllocatedUnscaled(cap) == Block(cap, cap, 0, <<>>)

\* __fpda_malloc of a block for cap elements
Allocated(cap) == Block(cap * TypeSize, cap, 0, <<>>)

\* __fpda_maybe_grow.  When it reallocates without updating the size, the new
\* block keeps the size 0 it was allocated with.
Opened(b, newSize, exact) ==
  IF IsNull(b) THEN Allocated(Larger(1, IF exact THEN newSize ELSE DefaultBytes \div TypeSize))
               ELSE b
NewCapacity(newSize, exact) == IF exact THEN newSize ELSE NextPower[newSize]
Sized(b, newSize) ==
  Block(b.room, b.cap, Larger(b.size, newSize), Memory(b, Larger(b.size, newSize)))
\* Mutant of Enlarged: the elements are not copied to the new block.
EnlargedUncopied(b, newSize, update, exact) ==
  LET cap  == NewCapacity(newSize, exact)
      size == IF update THEN Larger(b.size, newSize) ELSE 0
  IN  Block(cap * TypeSize, cap, size, Memory(Allocated(cap), size))

Enlarged(b, newSize, update, exact) ==
  LET cap  == NewCapacity(newSize, exact)
      size == IF update THEN Larger(b.size, newSize) ELSE 0
  IN  Block(cap * TypeSize, cap, size, Memory(b, size))
MaybeGrow(b, newSize, update, exact) ==
  LET o == Opened(b, newSize, exact)
  IN  IF o.cap >= newSize THEN IF update THEN Sized(o, newSize) ELSE o
      ELSE Enlarged(o, newSize, update, exact)

Grown(b, k)   == MaybeGrow(b, b.size + k, TRUE, FALSE)
GrownTo(b, k) == MaybeGrow(b, k, TRUE, TRUE)

\* __fpda_maybe_grow_insert
Inserted(b, pos, count, v) ==
  LET g == Grown(b, count)
      moved == Moved(g.data, pos + count, pos, g.size - pos - count)
  IN  Block(g.room, g.cap, g.size,
            [j \in 0 .. g.size - 1 |-> IF j \in pos .. pos + count - 1 THEN v ELSE moved[j]])

\* Mutant of Shrunk: the capacity stays that of the array of bytes.
ShrunkBytes(size, d) == Block(Larger(1, size * TypeSize), size * TypeSize, size, d)

\* __fpda_delete into a new block of just the size: made as an array of bytes,
\* of one byte when nothing is left
Shrunk(size, d) == Block(Larger(1, size * TypeSize), size, size, d)

-----------------------------------------------------------------------------
Init == blocks = [x \in Arrays |-> Null] /\ fault = "none"

Becomes(x, b) == fault = "none" /\ blocks' = [blocks EXCEPT ![x] = b] /\ fault' = fault

\* A memcpy from or to a null pointer is undefined even when it copies no
\* bytes: compiled without the null checks behind it, the call may crash.
NullCopies(b) == IF IsNull(b) THEN {"none", "null copy"} ELSE {"none"}
CopiesTo(x, b) ==
  /\ fault = "none" /\ blocks' = [blocks EXCEPT ![x] = b]
  /\ fault' \in NullCopies(blocks[x])

Sizes == 0 .. MaxSize

\* fpda_reserve
Reserve(x, size) == Becomes(x, MaybeGrow(blocks[x], size, FALSE, TRUE))

\* fpda_grow_to_size
GrowToSize(x, size) == Becomes(x, GrownTo(blocks[x], size))

\* fpda_grow
Grow(x, k) == blocks[x].size + k <= MaxSize /\ Becomes(x, Grown(blocks[x], k))

\* fpda_grow_and_initialize, fpda_push_back, fpda_grow_to_size_and_initialize
GrowAndInitialize(x, k, v) ==
  /\ blocks[x].size + k <= MaxSize
  /\ Becomes(x, Filled(Grown(blocks[x], k), blocks[x].size, v))
PushBack(x, v) == GrowAndInitialize(x, 1, v)
GrowToSizeAndInitialize(x, size, v) ==
  Becomes(x, Filled(GrownTo(blocks[x], size), blocks[x].size, v))

\* Mutant of PopBackN: more elements than there are can be popped.
PopBackNUnchecked(x, count) ==
  LET b    == blocks[x]
      left == IF b.size = 0 THEN 0 ELSE b.size - count
  IN  Becomes(x, MaybeGrow(Block(b.room, b.cap, left, b.data), left, TRUE, FALSE))

\* fpda_pop_back_n and fpda_pop_back_to_size: popping from an empty array
\* grows it by nothing, popping more than there is fails __fpda_malloc's assert
PopBackN(x, count) ==
  LET b    == blocks[x]
      left == IF b.size = 0 THEN 0 ELSE b.size - count
  IN  /\ b.size > 0 => count <= b.size
      /\ Becomes(x, MaybeGrow(Block(b.room, b.cap, left, b.data), left, TRUE, FALSE))
PopBackToSize(x, size) ==
  PopBackN(x, IF blocks[x].size > size THEN blocks[x].size - size ELSE 0)

\* fpda_insert_uninitialized, fpda_insert and fpda_push_front
InsertUninitialized(x, pos, count) ==
  /\ count > 0 /\ pos <= blocks[x].size /\ blocks[x].size + count <= MaxSize
  /\ Becomes(x, Inserted(blocks[x], pos, count, None))
Insert(x, pos, v) ==
  /\ pos <= blocks[x].size /\ blocks[x].size < MaxSize
  /\ Becomes(x, Inserted(blocks[x], pos, 1, v))

\* Mutant of DeleteRange: the elements behind the range are not moved.
DeleteRangeUnmoved(x, pos, count) ==
  LET b == blocks[x]
  IN  /\ pos + count <= b.size
      /\ Becomes(x, Block(b.room, b.cap, b.size - count, b.data))

\* fpda_delete_range (it changes nothing when count is 0)
DeleteRange(x, pos, count) ==
  LET b == blocks[x]
  IN  /\ pos + count <= b.size
      /\ Becomes(x, Block(b.room, b.cap, b.size - count,
                          Moved(b.data, pos, pos + count, b.size - pos - count)))

\* fpda_shrink_delete_range and fpda_shrink_to_fit
ShrinkDeleteRange(x, pos, count) ==
  LET b == blocks[x]
  IN  /\ pos + count <= b.size
      /\ CopiesTo(x, Shrunk(b.size - count,
                            Moved(b.data, pos, pos + count, b.size - pos - count)))
ShrinkToFit(x) == ShrinkDeleteRange(x, 0, 0)

\* fpda_resize: within the capacity, the number of elements to delete wraps
\* when the array is to become longer, and the new block is `size` long
Resize(x, size) ==
  LET b == blocks[x]
  IN  IF size > b.cap THEN Becomes(x, GrownTo(b, size))
                      ELSE CopiesTo(x, Shrunk(size, Memory(b, size)))

\* Mutant of SwapRange: the second range is not overwritten.
SwapRangeOneWay(x, p, q, count) ==
  LET b == blocks[x]
  IN  /\ p + count <= b.size /\ q + count <= b.size
      /\ \E d \in Copies(b.data, p, q, count) : Becomes(x, Block(b.room, b.cap, b.size, d))

\* fpda_swap_range, by memswap: it keeps a copy of the first range
SwapRange(x, p, q, count) ==
  LET b == blocks[x]
  IN  /\ p + count <= b.size /\ q + count <= b.size
      /\ \E d \in Copies(b.data, p, q, count) :
           Becomes(x, Block(b.room, b.cap, b.size, [j \in 0 .. b.size - 1 |->
             IF p # q /\ j \in q .. q + count - 1 THEN b.data[p + j - q] ELSE d[j]]))

\* fpda_swap_delete_range: the last count elements are copied over the deleted,
\* of overlapping ranges through a scratch buffer.  With more than count
\* elements of excess capacity the buffer is the last count elements themselves.
SwapDeleteRange(x, pos, count) ==
  LET b    == blocks[x]
      last == b.size - count
  IN  /\ pos + count <= b.size
      /\ \E d \in (IF b.cap - b.size > count THEN Copies(b.data, pos, last, count)
                   ELSE {Moved(b.data, pos, last, count)}) :
           CopiesTo(x, Block(b.room, b.cap, last, d))

\* fpda_pop_front: it keeps the element it pops at index size, behind the array
PopFront(x) ==
  LET b == blocks[x]
  IN  IF b.size <= 1 THEN Becomes(x, b)
      ELSE /\ fault = "none"
           /\ blocks' = [blocks EXCEPT ![x] =
                Block(b.room, b.cap, b.size - 1, Moved(b.data, 0, 1, b.size - 1))]
           /\ fault' = IF (b.size + 1) * TypeSize > b.room + Slack THEN "overflow" ELSE "none"

\* Mutant of Cloned: the size becomes the capacity.
ClonedFull(room, cap, size, src) == Block(room, cap, cap, Memory(src, cap))

\* The array __fpda_clone_to leaves in its destination.
Cloned(room, cap, size, src) == Block(room, cap, size, Memory(src, size))

\* fpda_clone_to: it grows the destination as an array of bytes (it compares
\* its capacity, in elements, with the bytes needed, and takes the larger of
\* its size and these for the bytes to copy).  Cloned to itself the source is
\* the grown destination, whose size is now in bytes, or the block just freed.
CloneTo(x, y, shrink) ==
  LET dest  == blocks[x]
      src   == blocks[y]
      cap   == IF shrink THEN src.size ELSE src.cap
      need  == cap * TypeSize
      kept  == ~IsNull(dest) /\ dest.cap >= need
      bytes == Larger(dest.size, need)
      room  == IF kept THEN dest.room ELSE Larger(1, need)
      size  == IF x = y /\ kept THEN bytes ELSE src.size
  IN  /\ fault = "none"
      /\ blocks' = [blocks EXCEPT ![x] = Cloned(room, cap, size, src)]
      /\ fault' \in IF IsNull(src) THEN IF dest.size > 0 THEN {"null copy"} ELSE NullCopies(src)
                   ELSE IF x = y THEN IF size > cap THEN {"oversize"}
                                      ELSE IF kept THEN {"none"} ELSE {"use after free"}
                   ELSE IF bytes > src.room + Slack THEN {"overread"} ELSE {"none"}

\* fpda_clear, fpda_free_and_null
Clear(x) == Becomes(x, Block(blocks[x].room, blocks[x].cap, 0, <<>>))
Free(x)  == Becomes(x, Null)

-----------------------------------------------------------------------------
Next ==
  \E x \in Arrays :
    \/ \E size \in Sizes :
         \/ Reserve(x, size) \/ GrowToSize(x, size) \/ Grow(x, size)
         \/ PopBackN(x, size) \/ PopBackToSize(x, size) \/ Resize(x, size)
         \/ \E v \in Values :
              \/ GrowAndInitialize(x, size, v) \/ GrowToSizeAndInitialize(x, size, v)
              \/ Insert(x, size, v)
    \/ \E v \in Values : PushBack(x, v)
    \/ \E pos, count \in Sizes :
         \/ InsertUninitialized(x, pos, count)
         \/ DeleteRange(x, pos, count) \/ ShrinkDeleteRange(x, pos, count)
         \/ SwapDeleteRange(x, pos, count)
         \/ \E q \in Sizes : SwapRange(x, pos, q, count)
    \/ ShrinkToFit(x) \/ PopFront(x) \/ Clear(x) \/ Free(x)
    \/ \E y \in Arrays, shrink \in BOOLEAN : CloneTo(x, y, shrink)

Spec == Init /\ [][Next]_vars

-----------------------------------------------------------------------------
(* What must be true of it. *)

Faults == {"none", "overflow", "overread", "null copy", "use after free", "oversize"}

IsBlock(b) ==
  /\ b = [room |-> b.room, cap |-> b.cap, size |-> b.size, data |-> b.data]
  /\ b.room \in Nat /\ b.cap \in Nat /\ b.size \in Nat
  /\ b.data \in [0 .. b.size - 1 -> Values \cup {None}]

\* The type invariant: an array has a defined value at every index below its
\* size (None where the call that made it so long leaves it uninitialised).
TypeOK ==
  /\ DOMAIN blocks = Arrays
  /\ \A x \in Arrays : IsBlock(blocks[x])
  /\ fault \in Faults

\* The elements fit the capacity, and the capacity, which is counted in
\* elements by some calls and in bytes by others (__fpda_delete and
\* __fpda_clone_to grow arrays of bytes and set the capacity afterwards),
\* fits the bytes that were allocated.
Backed(b) == b.size <= b.cap /\ b.cap * TypeSize <= b.room
CapacityIsBacked == fault = "none" => \A x \in Arrays : Backed(blocks[x])

\* Memory is misused only by pop_front on an array whose capacity is used up,
\* by an array cloned to itself, by cloning into an array that holds more
\* elements than the source has bytes, and on null arrays: every other call
\* stays within its block.
FaultsAreNarrow ==
  [][fault' # fault =>
       \E x, y \in Arrays, shrink \in BOOLEAN :
         \/ fault' = "null copy" /\ IsNull(blocks[y])
         \/ fault' = "overflow" /\ PopFront(x) /\ blocks[x].size = blocks[x].cap
         \/ fault' \in {"use after free", "oversize"} /\ CloneTo(x, x, shrink)
         \/ /\ fault' = "overread" /\ CloneTo(x, y, shrink)
            /\ blocks[x].size > TypeSize * blocks[y].size]_vars

V == INSTANCE Vector WITH
       seqs <- [x \in Arrays |-> [j \in 1 .. blocks[x].size |-> blocks[x].data[j - 1]]]

\* A call changes one array.
Changed == {x \in Arrays : blocks'[x] # blocks[x]}

Disjoint(p, q, count) == p + count <= q \/ q + count <= p

\* Every call that adds elements does to the sequence what it says, whether or
\* not it reallocates (__fpda_maybe_grow, __fpda_maybe_grow_insert); reserving
\* does not: more than the capacity takes a new block, whose size stays 0, and
\* the array loses every element it had.
AddsMatch ==
  [][\A x \in Changed :
       /\ \A size \in Sizes :
            /\ Reserve(x, size) =>
                 IF size <= blocks[x].cap \/ blocks[x].size = 0 THEN V!Keep
                 ELSE V!Becomes(x, <<>>)
            /\ GrowToSize(x, size) => V!LengthenTo(x, size, None)
            /\ Grow(x, size) => V!Extend(x, V!Fill(None, size))
       /\ \A v \in Values : PushBack(x, v) => V!Extend(x, <<v>>)
       /\ \A size \in Sizes, v \in Values :
            /\ GrowAndInitialize(x, size, v) => V!Extend(x, V!Fill(v, size))
            /\ GrowToSizeAndInitialize(x, size, v) => V!LengthenTo(x, size, v)
            /\ Insert(x, size, v) => V!InsertAt(x, size, <<v>>)
       /\ \A pos, count \in Sizes :
            InsertUninitialized(x, pos, count) => V!InsertAt(x, pos, V!Fill(None, count))]_vars

\* Every call that removes elements keeps the others and their order, in the
\* old block or in a new one; pop_front from an array of two or more.
RemovesMatch ==
  [][\A x \in Changed :
       /\ \A size \in Sizes :
            /\ PopBackN(x, size) => V!CutTo(x, Larger(0, blocks[x].size - size))
            /\ PopBackToSize(x, size) => V!CutTo(x, size)
            /\ Resize(x, size) => IF size <= blocks[x].size THEN V!CutTo(x, size)
                                  ELSE V!LengthenTo(x, size, None)
       /\ \A pos, count \in Sizes :
            /\ DeleteRange(x, pos, count) => V!Remove(x, pos, count)
            /\ ShrinkDeleteRange(x, pos, count) => V!Remove(x, pos, count)
            /\ SwapDeleteRange(x, pos, count) =>
                 (Disjoint(pos, blocks[x].size - count, count) => V!SwapRemove(x, pos, count))
       /\ ShrinkToFit(x) => V!Keep
       /\ PopFront(x) => (blocks[x].size > 1 => V!Remove(x, 0, 1))
       /\ Clear(x) \/ Free(x) => V!Becomes(x, <<>>)]_vars

\* Two ranges that do not overlap change places, and a clone, where it does not
\* misuse memory, is a copy of its source that shares no element with it.
MovesMatch ==
  [][\A x \in Changed :
       /\ \A p, q, count \in Sizes :
            SwapRange(x, p, q, count) => (p = q \/ Disjoint(p, q, count) => V!Exchange(x, p, q, count))
       /\ \A y \in Arrays, shrink \in BOOLEAN :
            CloneTo(x, y, shrink) => (x # y /\ fault' = "none" => V!Assign(x, y))]_vars
=============================================================================
