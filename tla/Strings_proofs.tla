---------------------------- MODULE Strings_proofs ----------------------------
(***************************************************************************)
(* What StringsMC's runs check for short strings, for every length, view,  *)
(* alphabet and number of arguments: the types, which calls may misuse     *)
(* memory or leave no 0 behind, what replace makes of a text, and where    *)
(* split cuts.  A string is an array of DynArray, whose lemmas are used.   *)
(***************************************************************************)
EXTENDS Strings, Induction, SequenceTheorems

P == INSTANCE DynArray_proofs WITH
       Arrays <- {"str"}, Values <- Chars, TypeSize <- 1, MaxSize <- Longest,
       blocks <- [x \in {"str"} |-> str]

Elements == Chars \cup {None}
Good(b)  == A!IsBlock(b) /\ A!Backed(b)

LEMMA BoundsType ==
  /\ MaxView \in Nat /\ MaxNeedle \in Nat /\ MaxArgs \in Nat /\ MaxLen \in Nat
  /\ MaxPieces \in Nat /\ DefaultBytes \in Nat
  /\ Longest \in Nat /\ MaxLen <= Longest /\ MaxArgs * MaxView <= Longest
  /\ MaxLen + MaxView <= Longest /\ MaxLen + MaxLen * MaxView <= Longest
<1>1. /\ MaxView \in Nat /\ MaxNeedle \in Nat /\ MaxArgs \in Nat /\ MaxLen \in Nat
      /\ MaxPieces \in Nat /\ DefaultBytes \in Nat
  BY BoundsAssumption
<1>2. (MaxLen + MaxArgs + 1) * MaxView = MaxLen * MaxView + MaxArgs * MaxView + MaxView
  BY <1>1
<1>3. MaxLen * MaxView \in Nat /\ MaxArgs * MaxView \in Nat
  BY <1>1
<1>4. QED BY <1>1, <1>2, <1>3 DEF Longest

-----------------------------------------------------------------------------
(* The blocks of a string: those of an array of elements of one byte. *)

LEMMA GoodIsGood == \A b : Good(b) <=> P!Good(b)
BY DEF Good, P!Good, A!IsBlock, P!IsBlock, A!Backed, P!Backed

LEMMA GoodBlock ==
  ASSUME NEW b, Good(b)
  PROVE  /\ b.room \in Nat /\ b.cap \in Nat /\ b.size \in Nat
         /\ b.size <= b.cap /\ b.cap <= b.room
         /\ b.data \in [0 .. b.size - 1 -> Elements]
BY DEF Good, A!IsBlock, A!Backed, Elements

LEMMA BlockIsGood ==
  ASSUME NEW room \in Nat, NEW cap \in Nat, NEW size \in Nat, NEW d,
         \A j \in 0 .. size - 1 : d[j] \in Elements,
         size <= cap, cap <= room
  PROVE  Good(A!Block(room, cap, size, d))
BY DEF Good, A!IsBlock, A!Backed, A!Block, Elements

LEMMA BlockFields ==
  ASSUME NEW room, NEW cap, NEW size, NEW d
  PROVE  /\ A!Block(room, cap, size, d).room = room
         /\ A!Block(room, cap, size, d).cap = cap
         /\ A!Block(room, cap, size, d).size = size
         /\ A!Block(room, cap, size, d).data = [j \in 0 .. size - 1 |-> d[j]]
BY DEF A!Block

LEMMA NullBlock ==
  Good(A!Null) /\ A!IsNull(A!Null) /\ A!Null.room = 0 /\ A!Null.cap = 0 /\ A!Null.size = 0
<1>1. \A j \in 0 .. 0 - 1 : (<<>>)[j] \in Elements
  OBVIOUS
<1>2. Good(A!Null)
  BY <1>1, BlockIsGood DEF A!Null
<1>3. QED BY <1>2 DEF A!Null, A!IsNull, A!Block

LEMMA MaybeGrowIsGood ==
  ASSUME NEW b, Good(b), NEW size \in 0 .. Longest, NEW update \in BOOLEAN, NEW exact \in BOOLEAN
  PROVE  /\ Good(A!MaybeGrow(b, size, update, exact))
         /\ update => A!MaybeGrow(b, size, update, exact).size = A!Larger(b.size, size)
<1>1. A!MaybeGrow(b, size, update, exact) = P!MaybeGrow(b, size, update, exact)
  BY DEF A!MaybeGrow, P!MaybeGrow, A!Opened, P!Opened, A!Sized, P!Sized, A!Enlarged, P!Enlarged,
         A!NewCapacity, P!NewCapacity, A!Memory, P!Memory, A!Block, P!Block, A!Allocated,
         P!Allocated, A!IsNull, P!IsNull, A!Larger, P!Larger
<1>2. A!Larger(b.size, size) = P!Larger(b.size, size)
  BY DEF A!Larger, P!Larger
<1>3. 1 \in Nat \ {0} /\ size \in Nat /\ size <= Longest
  BY BoundsType
<1>4. QED
  BY <1>1, <1>2, <1>3, GoodIsGood, BoundsType, PowerAssumption, CharsAssumption,
     P!GrowingIsGood

\* Growing keeps what is there.
LEMMA GrownKeeps ==
  ASSUME NEW b, Good(b), NEW size \in 0 .. Longest, NEW exact \in BOOLEAN
  PROVE  LET g == A!MaybeGrow(b, size, TRUE, exact)
         IN  /\ Good(g) /\ g.size = A!Larger(b.size, size)
             /\ \A j \in 0 .. b.size - 1 : g.data[j] = b.data[j]
             /\ b.cap <= g.cap /\ (A!IsNull(b) => 1 <= g.cap)
<1> DEFINE g == A!MaybeGrow(b, size, TRUE, exact)
           o == A!Opened(b, size, exact)
<1>1. Good(g) /\ g.size = A!Larger(b.size, size)
  BY MaybeGrowIsGood
<1>2. /\ b.room \in Nat /\ b.cap \in Nat /\ b.size \in Nat /\ b.size <= b.cap /\ b.cap <= b.room
      /\ b.data \in [0 .. b.size - 1 -> Elements]
  BY GoodBlock
<1>3. A!Larger(b.size, size) \in Nat /\ b.size <= A!Larger(b.size, size) /\ size \in Nat
  BY <1>2, BoundsType DEF A!Larger
<1>4. /\ o.size = b.size /\ o.cap \in Nat /\ b.cap <= o.cap /\ (A!IsNull(b) => 1 <= o.cap)
      /\ ~A!IsNull(b) => o = b
      /\ A!IsNull(b) => b.cap = 0
  <2>1. CASE ~A!IsNull(b)
    BY <1>2, <2>1 DEF A!Opened
  <2>2. CASE A!IsNull(b)
    <3>1. b.cap = 0 /\ b.size = 0
      BY <1>2, <2>2 DEF A!IsNull
    <3>2. DefaultBytes \div 1 = DefaultBytes
      BY BoundsType
    <3> DEFINE first == A!Larger(1, IF exact THEN size ELSE DefaultBytes \div 1)
    <3>3. first \in Nat /\ 1 <= first 
      BY <1>3, <3>2, BoundsType DEF A!Larger
    <3>4. o.size = 0 /\ o.cap = first
      BY <2>2 DEF A!Opened, A!Allocated, A!Block
    <3> HIDE DEF first
    <3>5. QED BY <2>2, <3>1, <3>3, <3>4
  <2>3. QED BY <2>1, <2>2
<1>5. \A j \in 0 .. b.size - 1 : j < A!Larger(b.size, size) /\ 0 <= j
  BY <1>2, <1>3
<1> HIDE DEF o, g
<1>6. CASE o.cap >= size
  <2>1. g = A!Sized(o, size)
    BY <1>6 DEF A!MaybeGrow, o, g
  <2>2. g.cap = o.cap
    BY <2>1 DEF A!Sized, A!Block
  <2>3. ASSUME NEW j \in 0 .. b.size - 1
        PROVE  g.data[j] = b.data[j]
    <3>1. j < o.size /\ j \in 0 .. A!Larger(o.size, size) - 1 /\ o = b
      <4>1. b.size > 0
        BY <1>2, <2>3
      <4>2. ~A!IsNull(b)
        BY <1>2, <1>4, <4>1
      <4>3. QED BY <1>2, <1>3, <1>4, <1>5, <4>2
    <3>2. QED BY <2>1, <3>1 DEF A!Sized, A!Block, A!Memory
  <2>4. QED BY <1>1, <1>4, <2>2, <2>3 DEF g
<1>7. CASE ~(o.cap >= size)
  <2>1. g = A!Enlarged(o, size, TRUE, exact)
    BY <1>7 DEF A!MaybeGrow, o, g
  <2>2. g.cap = A!NewCapacity(size, exact)
    BY <2>1 DEF A!Enlarged, A!Block
  <2>3. o.cap < size /\ size \in 1 .. Longest
    BY <1>3, <1>4, <1>7
  <2>4. A!NewCapacity(size, exact) \in Nat /\ size <= A!NewCapacity(size, exact)
    BY <1>3, <2>3, PowerAssumption DEF A!NewCapacity
  <2>5. ASSUME NEW j \in 0 .. b.size - 1
        PROVE  g.data[j] = b.data[j]
    <3>1. j < o.size /\ j \in 0 .. A!Larger(o.size, size) - 1 /\ o = b
      <4>1. b.size > 0
        BY <1>2, <2>5
      <4>2. ~A!IsNull(b)
        BY <1>2, <1>4, <4>1
      <4>3. QED BY <1>2, <1>3, <1>4, <1>5, <4>2
    <3>2. QED BY <2>1, <3>1 DEF A!Enlarged, A!Block, A!Memory
  <2>6. b.cap <= g.cap /\ 1 <= g.cap
    BY <1>2, <1>4, <2>2, <2>3, <2>4
  <2>7. QED BY <1>1, <2>5, <2>6 DEF g
<1>8. QED BY <1>6, <1>7 DEF g

\* Growing to an exact size needs no power of two, and leaves no capacity to spare.
LEMMA ResizedKeeps ==
  ASSUME NEW b, Good(b), NEW size \in Nat
  PROVE  LET r == Resized(b, size)
         IN  /\ Good(r) /\ r.size = size /\ r.cap = size
             /\ \A j \in 0 .. b.size - 1 : j < size => r.data[j] = b.data[j]
<1> DEFINE r == Resized(b, size)
           o == A!Opened(b, size, TRUE)
           m == A!Memory(b, size)
<1>1. /\ b.room \in Nat /\ b.cap \in Nat /\ b.size \in Nat /\ b.size <= b.cap /\ b.cap <= b.room
      /\ b.data \in [0 .. b.size - 1 -> Elements]
  BY GoodBlock
<1>2. \A j \in 0 .. size - 1 : m[j] \in Elements /\ (j < b.size => m[j] = b.data[j])
  BY <1>1 DEF A!Memory, Elements
<1> HIDE DEF r, m
<1>3. CASE size <= b.cap
  <2>1. r = A!Block(A!Larger(1, size * 1), size, size, m)
    BY <1>1, <1>3 DEF r, m, Resized, A!Shrunk
  <2>2. A!Larger(1, size * 1) \in Nat /\ size <= A!Larger(1, size * 1)
    BY DEF A!Larger
  <2>3. Good(r)
    BY <1>2, <2>1, <2>2, BlockIsGood
  <2>4. r.size = size /\ r.cap = size /\ r.data = [j \in 0 .. size - 1 |-> m[j]]
    BY <2>1, BlockFields
  <2>5. \A j \in 0 .. b.size - 1 : j < size => r.data[j] = b.data[j]
    BY <1>1, <1>2, <2>4
  <2> QED BY <2>3, <2>4, <2>5 DEF r
<1>4. CASE size > b.cap
  <2>1. b.room # 0 => o = b
    BY DEF A!Opened, A!IsNull
  <2>2. b.room = 0 => o.size = 0 /\ o.cap = size /\ o.room = size /\ b.size = 0
    BY <1>1, <1>4 DEF A!Opened, A!IsNull, A!Allocated, A!Block, A!Larger
  <2>3. r = IF o.cap >= size THEN A!Sized(o, size) ELSE A!Enlarged(o, size, TRUE, TRUE)
    BY <1>4, <1>1 DEF r, Resized, A!GrownTo, A!MaybeGrow
  <2> HIDE DEF o
  <2>4. o.size = b.size
    BY <2>1, <2>2
  <2>5. A!Larger(b.size, size) = size /\ A!Larger(o.size, size) = size
    BY <1>1, <1>4, <2>4 DEF A!Larger
  <2>6. A!Memory(o, size) = m
    <3>1. CASE b.room = 0
      BY <2>2, <3>1 DEF m, A!Memory
    <3>2. CASE b.room # 0
      BY <2>1, <3>2 DEF m
    <3> QED BY <3>1, <3>2
  <2>7. r = A!Block(size, size, size, m)
    <3>1. CASE b.room = 0
      <4>1. o.cap >= size /\ o.cap = size /\ o.room = size
        BY <2>2, <3>1
      <4> QED BY <2>5, <2>6, <2>3, <4>1 DEF A!Sized
    <3>2. CASE b.room # 0
      <4>1. ~(o.cap >= size)
        BY <1>1, <1>4, <2>1, <3>2
      <4>2. size * 1 = size
        OBVIOUS
      <4> QED BY <2>5, <2>6, <2>3, <4>1, <4>2 DEF A!Enlarged, A!NewCapacity
    <3> QED BY <3>1, <3>2
  <2>8. Good(r)
    BY <1>2, <2>7, BlockIsGood
  <2>9. r.size = size /\ r.cap = size /\ r.data = [j \in 0 .. size - 1 |-> m[j]]
    BY <2>7, BlockFields
  <2>10. \A j \in 0 .. b.size - 1 : j < size => r.data[j] = b.data[j]
    BY <1>1, <1>2, <2>9
  <2> QED BY <2>8, <2>9, <2>10 DEF r
<1> QED BY <1>1, <1>3, <1>4

LEMMA WrittenIs ==
  ASSUME NEW b, Good(b), NEW at \in Nat, NEW s \in Seq(Chars), at + Len(s) <= b.size
  PROVE  LET w == Written(b, at, s)
         IN  /\ Good(w) /\ w.room = b.room /\ w.cap = b.cap /\ w.size = b.size
             /\ \A j \in 0 .. b.size - 1 :
                  w.data[j] = IF j \in at .. at + Len(s) - 1 THEN s[j - at + 1] ELSE b.data[j]
<1> DEFINE d == [j \in 0 .. b.size - 1 |->
                   IF j \in at .. at + Len(s) - 1 THEN s[j - at + 1] ELSE b.data[j]]
           w == Written(b, at, s)
<1>1. /\ b.room \in Nat /\ b.cap \in Nat /\ b.size \in Nat /\ b.size <= b.cap /\ b.cap <= b.room
      /\ b.data \in [0 .. b.size - 1 -> Elements]
  BY GoodBlock
<1>2. Len(s) \in Nat /\ \A i \in 1 .. Len(s) : s[i] \in Chars
  OBVIOUS
<1>3. \A j \in 0 .. b.size - 1 : d[j] \in Elements
  <2> SUFFICES ASSUME NEW j \in 0 .. b.size - 1 PROVE d[j] \in Elements
    OBVIOUS
  <2>1. CASE j \in at .. at + Len(s) - 1
    <3>1. j - at + 1 \in 1 .. Len(s)
      BY <1>2, <2>1
    <3> QED BY <1>2, <2>1, <3>1 DEF Elements
  <2>2. CASE j \notin at .. at + Len(s) - 1
    BY <1>1, <2>2
  <2> QED BY <2>1, <2>2
<1>4. w = A!Block(b.room, b.cap, b.size, d)
  BY DEF Written
<1> HIDE DEF d, w
<1>5. Good(w)
  BY <1>1, <1>3, <1>4, BlockIsGood
<1>6. /\ w.room = b.room /\ w.cap = b.cap /\ w.size = b.size
      /\ w.data = [j \in 0 .. b.size - 1 |-> d[j]]
  BY <1>4, BlockFields
<1> QED BY <1>5, <1>6 DEF d, w

-----------------------------------------------------------------------------
(* The operations of a string keep its characters characters. *)

Clean(b) == Good(b) /\ \A j \in 0 .. b.size - 1 : b.data[j] \in Chars

LEMMA NullIsClean == Clean(A!Null)
BY NullBlock DEF Clean

LEMMA WrittenIsClean ==
  ASSUME NEW b, Good(b), NEW at \in Nat, NEW s \in Seq(Chars), at + Len(s) = b.size,
         \A j \in 0 .. at - 1 : b.data[j] \in Chars
  PROVE  LET w == Written(b, at, s)
         IN  Clean(w) /\ w.room = b.room /\ w.cap = b.cap /\ w.size = b.size
<1> DEFINE w == Written(b, at, s)
<1>1. /\ Good(w) /\ w.room = b.room /\ w.cap = b.cap /\ w.size = b.size
      /\ \A j \in 0 .. b.size - 1 :
           w.data[j] = IF j \in at .. at + Len(s) - 1 THEN s[j - at + 1] ELSE b.data[j]
  BY WrittenIs, GoodBlock
<1>2. Len(s) \in Nat /\ \A i \in 1 .. Len(s) : s[i] \in Chars
  OBVIOUS
<1> HIDE DEF w
<1>3. ASSUME NEW j \in 0 .. w.size - 1
      PROVE  w.data[j] \in Chars
  <2>1. CASE j < at
    BY <1>1, <1>2, <2>1, GoodBlock
  <2>2. CASE ~(j < at)
    <3>1. j \in at .. at + Len(s) - 1 /\ j - at + 1 \in 1 .. Len(s) /\ j \in 0 .. b.size - 1
      BY <1>1, <1>2, <2>2, GoodBlock
    <3> QED BY <1>1, <1>2, <3>1
  <2> QED BY <2>1, <2>2
<1> QED BY <1>1, <1>3 DEF Clean, w

LEMMA ResumedIsClean ==
  ASSUME NEW b, Clean(b), NEW s \in Seq(Chars)
  PROVE  LET r == Resumed(b, s)
         IN  /\ Clean(r) /\ r.size = b.size + Len(s)
             /\ r = b \/ EndsInZero(r)
<1> DEFINE r == Resumed(b, s)
           z == Resized(b, b.size + Len(s))
<1>1. Good(b) /\ b.size \in Nat /\ Len(s) \in Nat /\ \A j \in 0 .. b.size - 1 : b.data[j] \in Chars
  BY GoodBlock DEF Clean
<1>2. CASE b.size + Len(s) = 0
  BY <1>1, <1>2 DEF Resumed
<1>3. CASE b.size + Len(s) # 0
  <2>1. b.size + Len(s) \in Nat
    BY <1>1
  <2>2. /\ Good(z) /\ z.size = b.size + Len(s) /\ z.cap = b.size + Len(s)
        /\ \A j \in 0 .. b.size - 1 : j < b.size + Len(s) => z.data[j] = b.data[j]
    BY <1>1, <2>1, ResizedKeeps
  <2> HIDE DEF z
  <2>3. \A j \in 0 .. b.size - 1 : z.data[j] \in Chars
    BY <1>1, <2>2
  <2>4. r = Written(z, b.size, s)
    BY <1>3 DEF Resumed, z
  <2>5. Clean(r) /\ r.cap = z.cap /\ r.size = z.size
    BY <1>1, <2>2, <2>3, <2>4, WrittenIsClean
  <2>6. EndsInZero(r)
    BY <1>1, <1>3, <2>2, <2>5 DEF EndsInZero
  <2> QED BY <2>2, <2>5, <2>6 DEF r
<1> QED BY <1>2, <1>3

LEMMA ExtendedIsClean ==
  ASSUME NEW b, Clean(b), NEW s \in Seq(Chars), b.size + Len(s) <= Longest
  PROVE  LET r == Extended(b, s)
         IN  /\ Clean(r) /\ r.size = b.size + Len(s)
             /\ A!IsNull(b) \/ 1 <= b.cap => 1 <= r.cap
<1> DEFINE r == Extended(b, s)
           g == A!MaybeGrow(b, b.size + Len(s), TRUE, FALSE)
<1>1. /\ Good(b) /\ b.size \in Nat /\ b.cap \in Nat /\ b.room \in Nat /\ b.cap <= b.room
      /\ Len(s) \in Nat /\ \A j \in 0 .. b.size - 1 : b.data[j] \in Chars
  BY GoodBlock DEF Clean
<1>2. b.size + Len(s) \in 0 .. Longest
  BY <1>1, BoundsType
<1>3. /\ Good(g) /\ g.size = A!Larger(b.size, b.size + Len(s))
      /\ \A j \in 0 .. b.size - 1 : g.data[j] = b.data[j]
      /\ b.cap <= g.cap /\ (A!IsNull(b) => 1 <= g.cap)
  BY <1>1, <1>2, GrownKeeps
<1> HIDE DEF g
<1>4. g.size = b.size + Len(s)
  <2>1. A!Larger(b.size, b.size + Len(s)) = b.size + Len(s)
    BY <1>1 DEF A!Larger
  <2> QED BY <1>3, <2>1
<1>5. A!IsNull(b) \/ 1 <= b.cap => 1 <= g.cap
  <2>1. g.cap \in Nat
    BY <1>3, GoodBlock
  <2> QED BY <1>1, <1>3, <2>1
<1>6. r = Written(g, b.size, s)
  BY DEF Extended, A!Grown, g
<1>7. Clean(r) /\ r.cap = g.cap /\ r.size = g.size
  <2>1. \A j \in 0 .. b.size - 1 : g.data[j] \in Chars
    BY <1>1, <1>3
  <2> QED BY <1>1, <1>3, <1>4, <1>6, <2>1, WrittenIsClean
<1> QED BY <1>4, <1>5, <1>7 DEF r

LEMMA PushedIsClean ==
  ASSUME NEW b, Clean(b), NEW c \in Chars, b.size < Longest
  PROVE  Clean(Pushed(b, c)) /\ Pushed(b, c).size = b.size + 1
<1> DEFINE g == A!MaybeGrow(b, b.size + 1, TRUE, FALSE)
           d == [j \in 0 .. g.size - 1 |-> IF j >= b.size THEN c ELSE g.data[j]]
           r == Pushed(b, c)
<1>1. /\ Good(b) /\ b.size \in Nat /\ \A j \in 0 .. b.size - 1 : b.data[j] \in Chars
  BY GoodBlock DEF Clean
<1>2. b.size + 1 \in 0 .. Longest
  BY <1>1, BoundsType
<1>3. /\ Good(g) /\ g.size = A!Larger(b.size, b.size + 1)
      /\ \A j \in 0 .. b.size - 1 : g.data[j] = b.data[j]
  BY <1>1, <1>2, GrownKeeps
<1> HIDE DEF g
<1>4. g.size = b.size + 1
  <2>1. A!Larger(b.size, b.size + 1) = b.size + 1
    BY <1>1 DEF A!Larger
  <2> QED BY <1>3, <2>1
<1>5. g.room \in Nat /\ g.cap \in Nat /\ g.size <= g.cap /\ g.cap <= g.room
  BY <1>3, GoodBlock
<1>6. r = A!Block(g.room, g.cap, g.size, d)
  BY DEF Pushed, A!Filled, A!Grown, g
<1> HIDE DEF r
<1>7. \A j \in 0 .. g.size - 1 : d[j] \in Chars
  BY <1>1, <1>3, <1>4
<1> HIDE DEF d
<1>8. Good(r)
  BY <1>1, <1>4, <1>5, <1>6, <1>7, BlockIsGood DEF Elements
<1>9. r.size = g.size /\ r.data = [j \in 0 .. g.size - 1 |-> d[j]]
  BY <1>6, BlockFields
<1> QED BY <1>4, <1>7, <1>8, <1>9 DEF Clean, r

-----------------------------------------------------------------------------
(* The loops that do the same with each of several views. *)

Once(op, b, x) ==
  CASE op = "extend" -> Extended(b, x) [] op = "resume" -> Resumed(b, x) [] op = "push" -> Pushed(b, x)
IsLoop(r, op, b, s, m) == r = [k \in 0 .. m |-> IF k = 0 THEN b ELSE Once(op, r[k - 1], s[k])]

LEMMA LoopExists ==
  ASSUME NEW op, NEW b, NEW s
  PROVE  \A m \in Nat : \E r : IsLoop(r, op, b, s, m)
<1> DEFINE S == {m \in Nat : \E r : IsLoop(r, op, b, s, m)}
<1>1. 0 \in S
  <2> DEFINE r == [k \in 0 .. 0 |-> b]
  <2>1. r = [k \in 0 .. 0 |-> IF k = 0 THEN b ELSE Once(op, r[k - 1], s[k])]
    OBVIOUS
  <2>2. IsLoop(r, op, b, s, 0)
    BY <2>1 DEF IsLoop
  <2> QED BY <2>2
<1>2. ASSUME NEW m \in Nat, m \in S
      PROVE  m + 1 \in S
  <2>1. PICK r : IsLoop(r, op, b, s, m)
    BY <1>2
  <2> DEFINE t == [k \in 0 .. m + 1 |-> IF k = m + 1 THEN Once(op, r[m], s[m + 1]) ELSE r[k]]
  <2>2. r = [k \in 0 .. m |-> IF k = 0 THEN b ELSE Once(op, r[k - 1], s[k])]
    BY <2>1 DEF IsLoop
  <2>3. ASSUME NEW k \in 0 .. m + 1
        PROVE  t[k] = IF k = 0 THEN b ELSE Once(op, t[k - 1], s[k])
    <3>1. CASE k = 0
      <4>1. t[k] = r[0]
        BY <3>1
      <4>2. r[0] = b
        BY <2>2
      <4> QED BY <3>1, <4>1, <4>2
    <3>2. CASE k = m + 1
      <4>1. t[m] = r[m] /\ k - 1 = m
        BY <3>2
      <4>2. t[k] = Once(op, r[m], s[k])
        BY <3>2
      <4> QED BY <3>2, <4>1, <4>2
    <3>3. CASE k # 0 /\ k # m + 1
      <4>1. t[k] = r[k] /\ t[k - 1] = r[k - 1] /\ k \in 0 .. m
        BY <3>3
      <4>2. r[k] = Once(op, r[k - 1], s[k])
        <5> HIDE DEF t
        <5> QED BY <2>2, <3>3, <4>1
      <4> QED BY <3>3, <4>1, <4>2
    <3> QED BY <3>1, <3>2, <3>3
  <2>4. t = [k \in 0 .. m + 1 |-> t[k]]
    OBVIOUS
  <2> HIDE DEF t
  <2>5. [k \in 0 .. m + 1 |-> t[k]]
        = [k \in 0 .. m + 1 |-> IF k = 0 THEN b ELSE Once(op, t[k - 1], s[k])]
    BY <2>3
  <2>6. IsLoop(t, op, b, s, m + 1)
    BY <2>4, <2>5 DEF IsLoop
  <2> QED BY <2>6
<1> HIDE DEF S
<1>3. \A m \in Nat : m \in S
  BY <1>1, <1>2, SetInduction
<1> QED BY <1>3 DEF S

LEMMA LoopSteps ==
  ASSUME NEW op, NEW b, NEW s, NEW m \in Nat, NEW r, IsLoop(r, op, b, s, m)
  PROVE  r[0] = b /\ \A k \in Nat : k < m => r[k + 1] = Once(op, r[k], s[k + 1])
<1>1. r[0] = b
  BY DEF IsLoop
<1>2. ASSUME NEW k \in Nat, k < m
      PROVE  r[k + 1] = Once(op, r[k], s[k + 1])
  <2>1. k + 1 \in 0 .. m /\ k + 1 # 0 /\ (k + 1) - 1 = k
    BY <1>2
  <2>2. r[k + 1] = Once(op, r[(k + 1) - 1], s[k + 1])
    BY <2>1 DEF IsLoop
  <2> QED BY <2>1, <2>2
<1> QED BY <1>1, <1>2

LEMMA ExtendedLoop ==
  ASSUME NEW b, NEW s, NEW m \in Nat
  PROVE  \E r : IsLoop(r, "extend", b, s, m) /\ Folded(Extended, b, s, m) = r[m]
<1>1. \A x, v : Once("extend", x, v) = Extended(x, v)
  BY DEF Once
<1> DEFINE r == CHOOSE r : r = [k \in 0 .. m |-> IF k = 0 THEN b ELSE Extended(r[k - 1], s[k])]
<1>2. \E t : t = [k \in 0 .. m |-> IF k = 0 THEN b ELSE Extended(t[k - 1], s[k])]
  <2>1. PICK t : IsLoop(t, "extend", b, s, m)
    BY LoopExists
  <2>2. t = [k \in 0 .. m |-> IF k = 0 THEN b ELSE Extended(t[k - 1], s[k])]
    BY <1>1, <2>1 DEF IsLoop
  <2> QED BY <2>2
<1>3. r = [k \in 0 .. m |-> IF k = 0 THEN b ELSE Extended(r[k - 1], s[k])]
  BY <1>2
<1>4. Folded(Extended, b, s, m) = r[m]
  BY DEF Folded
<1> HIDE DEF r
<1>5. IsLoop(r, "extend", b, s, m)
  BY <1>1, <1>3 DEF IsLoop
<1> QED BY <1>4, <1>5

LEMMA ResumedLoop ==
  ASSUME NEW b, NEW s, NEW m \in Nat
  PROVE  \E r : IsLoop(r, "resume", b, s, m) /\ Folded(Resumed, b, s, m) = r[m]
<1>1. \A x, v : Once("resume", x, v) = Resumed(x, v)
  BY DEF Once
<1> DEFINE r == CHOOSE r : r = [k \in 0 .. m |-> IF k = 0 THEN b ELSE Resumed(r[k - 1], s[k])]
<1>2. \E t : t = [k \in 0 .. m |-> IF k = 0 THEN b ELSE Resumed(t[k - 1], s[k])]
  <2>1. PICK t : IsLoop(t, "resume", b, s, m)
    BY LoopExists
  <2>2. t = [k \in 0 .. m |-> IF k = 0 THEN b ELSE Resumed(t[k - 1], s[k])]
    BY <1>1, <2>1 DEF IsLoop
  <2> QED BY <2>2
<1>3. r = [k \in 0 .. m |-> IF k = 0 THEN b ELSE Resumed(r[k - 1], s[k])]
  BY <1>2
<1>4. Folded(Resumed, b, s, m) = r[m]
  BY DEF Folded
<1> HIDE DEF r
<1>5. IsLoop(r, "resume", b, s, m)
  BY <1>1, <1>3 DEF IsLoop
<1> QED BY <1>4, <1>5

LEMMA PushedLoop ==
  ASSUME NEW b, NEW s, NEW m \in Nat
  PROVE  \E r : IsLoop(r, "push", b, s, m) /\ Folded(Pushed, b, s, m) = r[m]
<1>1. \A x, v : Once("push", x, v) = Pushed(x, v)
  BY DEF Once
<1> DEFINE r == CHOOSE r : r = [k \in 0 .. m |-> IF k = 0 THEN b ELSE Pushed(r[k - 1], s[k])]
<1>2. \E t : t = [k \in 0 .. m |-> IF k = 0 THEN b ELSE Pushed(t[k - 1], s[k])]
  <2>1. PICK t : IsLoop(t, "push", b, s, m)
    BY LoopExists
  <2>2. t = [k \in 0 .. m |-> IF k = 0 THEN b ELSE Pushed(t[k - 1], s[k])]
    BY <1>1, <2>1 DEF IsLoop
  <2> QED BY <2>2
<1>3. r = [k \in 0 .. m |-> IF k = 0 THEN b ELSE Pushed(r[k - 1], s[k])]
  BY <1>2
<1>4. Folded(Pushed, b, s, m) = r[m]
  BY DEF Folded
<1> HIDE DEF r
<1>5. IsLoop(r, "push", b, s, m)
  BY <1>1, <1>3 DEF IsLoop
<1> QED BY <1>4, <1>5

LEMMA ViewsAre == \A v : v \in Views <=> v \in Seq(Chars) /\ Len(v) <= MaxView
<1>1. MaxView \in Nat
  BY BoundsType
<1>2. ASSUME NEW v \in Views
      PROVE  v \in Seq(Chars) /\ Len(v) <= MaxView
  <2>1. PICK l \in 0 .. MaxView : v \in [1 .. l -> Chars]
    BY DEF Views
  <2>2. l \in Nat
    BY <1>1
  <2>3. v \in Seq(Chars)
    BY <2>1, <2>2, SeqDef
  <2>4. Len(v) = l
    <3>1. DOMAIN v = 1 .. Len(v) /\ Len(v) \in Nat
      BY <2>3
    <3>2. 1 .. Len(v) = 1 .. l
      BY <2>1, <3>1
    <3>3. \A n, k \in Nat : 1 .. n = 1 .. k => n = k
      OBVIOUS
    <3> QED BY <2>2, <3>1, <3>2, <3>3
  <2> QED BY <2>3, <2>4
<1>3. ASSUME NEW v \in Seq(Chars), Len(v) <= MaxView
      PROVE  v \in Views
  <2>1. v \in [1 .. Len(v) -> Chars] /\ Len(v) \in Nat
    OBVIOUS
  <2>2. Len(v) \in 0 .. MaxView
    BY <1>1, <1>3, <2>1
  <2> QED BY <2>1, <2>2 DEF Views
<1> QED BY <1>2, <1>3

LEMMA ExtendedManyIsClean ==
  ASSUME NEW m \in Nat, NEW s, \A k \in 1 .. m : s[k] \in Views, m * MaxView <= Longest
  PROVE  LET r == Folded(Extended, A!Null, s, m)
         IN  /\ Clean(r) /\ r.size <= m * MaxView
             /\ A!IsNull(r) \/ 1 <= r.cap
<1>1. PICK r : IsLoop(r, "extend", A!Null, s, m) /\ Folded(Extended, A!Null, s, m) = r[m]
  BY ExtendedLoop
<1>2. r[0] = A!Null /\ \A k \in Nat : k < m => r[k + 1] = Extended(r[k], s[k + 1])
  BY <1>1, LoopSteps DEF Once
<1> DEFINE Q(k) == /\ Clean(r[k]) /\ r[k].size <= k * MaxView
                   /\ A!IsNull(r[k]) \/ 1 <= r[k].cap
           S    == {k \in Nat : k <= m => Q(k)}
<1>3. 0 \in S
  <2>1. r[0].size <= 0 * MaxView
    BY <1>2, NullBlock, BoundsType
  <2> QED BY <1>2, <2>1, NullBlock, NullIsClean
<1>4. ASSUME NEW k \in Nat, k \in S, k + 1 <= m
      PROVE  Q(k + 1)
  <2>1. Clean(r[k]) /\ r[k].size <= k * MaxView /\ (A!IsNull(r[k]) \/ 1 <= r[k].cap)
    BY <1>4
  <2>2. s[k + 1] \in Seq(Chars) /\ Len(s[k + 1]) <= MaxView /\ Len(s[k + 1]) \in Nat
    BY <1>4, ViewsAre
  <2>3. r[k].size \in Nat
    BY <2>1, GoodBlock DEF Clean
  <2>4. (k + 1) * MaxView = k * MaxView + MaxView /\ k * MaxView \in Nat
    BY BoundsType
  <2>5. (k + 1) * MaxView <= m * MaxView /\ m * MaxView \in Nat
    <3>1. m * MaxView = (k + 1) * MaxView + (m - (k + 1)) * MaxView
      BY BoundsType
    <3>2. (m - (k + 1)) * MaxView \in Nat
      BY <1>4, BoundsType
    <3> QED BY <2>4, <3>1, <3>2, BoundsType
  <2>6. r[k].size + Len(s[k + 1]) <= (k + 1) * MaxView
    BY <2>1, <2>2, <2>3, <2>4, BoundsType
  <2>7. r[k].size + Len(s[k + 1]) <= Longest
    BY <2>2, <2>3, <2>4, <2>5, <2>6, BoundsType
  <2>8. /\ Clean(r[k + 1]) /\ r[k + 1].size = r[k].size + Len(s[k + 1]) /\ 1 <= r[k + 1].cap
    <3>1. r[k + 1] = Extended(r[k], s[k + 1])
      BY <1>2, <1>4
    <3> QED BY <2>1, <2>2, <2>7, <3>1, ExtendedIsClean
  <2> QED BY <2>6, <2>8
<1> HIDE DEF Q
<1>5. \A k \in Nat : k \in S => k + 1 \in S
  BY <1>4
<1> HIDE DEF S
<1>6. \A k \in Nat : k \in S
  BY <1>3, <1>5, SetInduction
<1>7. Q(m)
  BY <1>6 DEF S
<1> QED BY <1>1, <1>7 DEF Q

LEMMA ResumedManyIsClean ==
  ASSUME NEW b, Clean(b), NEW m \in Nat, NEW s, \A k \in 1 .. m : s[k] \in Seq(Chars)
  PROVE  LET r == Folded(Resumed, b, s, m) IN Clean(r) /\ (r = b \/ EndsInZero(r))
<1>1. PICK r : IsLoop(r, "resume", b, s, m) /\ Folded(Resumed, b, s, m) = r[m]
  BY ResumedLoop
<1>2. r[0] = b /\ \A k \in Nat : k < m => r[k + 1] = Resumed(r[k], s[k + 1])
  <2>1. r[0] = b /\ \A k \in Nat : k < m => r[k + 1] = Once("resume", r[k], s[k + 1])
    BY <1>1, LoopSteps
  <2>2. \A x, y : Once("resume", x, y) = Resumed(x, y)
    BY DEF Once
  <2> QED BY <2>1, <2>2
<1> DEFINE Q(k) == Clean(r[k]) /\ (r[k] = b \/ EndsInZero(r[k]))
           S    == {k \in Nat : k <= m => Q(k)}
<1>3. 0 \in S
  BY <1>2
<1>4. ASSUME NEW k \in Nat, k \in S, k + 1 <= m
      PROVE  Q(k + 1)
  <2>1. Clean(r[k]) /\ (r[k] = b \/ EndsInZero(r[k]))
    BY <1>4
  <2>2. s[k + 1] \in Seq(Chars) /\ r[k + 1] = Resumed(r[k], s[k + 1])
    BY <1>2, <1>4
  <2>3. Clean(r[k + 1]) /\ (r[k + 1] = r[k] \/ EndsInZero(r[k + 1]))
    BY <2>1, <2>2, ResumedIsClean
  <2> QED BY <2>1, <2>3
<1> HIDE DEF Q
<1>5. \A k \in Nat : k \in S => k + 1 \in S
  BY <1>4
<1> HIDE DEF S
<1>6. \A k \in Nat : k \in S
  BY <1>3, <1>5, SetInduction
<1>7. Q(m)
  BY <1>6 DEF S
<1> QED BY <1>1, <1>7 DEF Q

LEMMA PushedManyIsClean ==
  ASSUME NEW b, Clean(b), NEW m \in Nat, NEW s, \A k \in 1 .. m : s[k] \in Chars,
         b.size + m <= Longest
  PROVE  LET r == Folded(Pushed, b, s, m) IN Clean(r) /\ r.size = b.size + m
<1>1. PICK r : IsLoop(r, "push", b, s, m) /\ Folded(Pushed, b, s, m) = r[m]
  BY PushedLoop
<1>2. r[0] = b /\ \A k \in Nat : k < m => r[k + 1] = Pushed(r[k], s[k + 1])
  <2>1. \A x, v : Once("push", x, v) = Pushed(x, v)
    BY DEF Once
  <2>2. r[0] = b /\ \A k \in Nat : k < m => r[k + 1] = Once("push", r[k], s[k + 1])
    BY <1>1, LoopSteps
  <2> QED BY <2>1, <2>2
<1> DEFINE Q(k) == Clean(r[k]) /\ r[k].size = b.size + k
           S    == {k \in Nat : k <= m => Q(k)}
<1>3. b.size \in Nat
  BY GoodBlock DEF Clean
<1>4. 0 \in S
  BY <1>2, <1>3
<1>5. ASSUME NEW k \in Nat, k \in S, k + 1 <= m
      PROVE  Q(k + 1)
  <2>1. Clean(r[k]) /\ r[k].size = b.size + k
    BY <1>5
  <2>2. r[k].size < Longest
    BY <1>3, <1>5, <2>1, BoundsType
  <2>3. r[k + 1] = Pushed(r[k], s[k + 1]) /\ s[k + 1] \in Chars
    BY <1>2, <1>5
  <2>4. Clean(r[k + 1]) /\ r[k + 1].size = (b.size + k) + 1
    BY <2>1, <2>2, <2>3, PushedIsClean
  <2> QED BY <1>3, <2>4
<1> HIDE DEF Q
<1>6. \A k \in Nat : k \in S => k + 1 \in S
  BY <1>5
<1> HIDE DEF S
<1>7. \A k \in Nat : k \in S
  BY <1>4, <1>6, SetInduction
<1>8. Q(m)
  BY <1>7 DEF S
<1> QED BY <1>1, <1>8 DEF Q

-----------------------------------------------------------------------------
(* The text of a string, and what is found in it. *)

TextOf(b) == [j \in 1 .. b.size |-> b.data[j - 1]]

LEMMA TextIs ==
  ASSUME NEW b, Good(b)
  PROVE  /\ TextOf(b) \in Seq(Elements) /\ Len(TextOf(b)) = b.size
         /\ \A j \in 1 .. b.size : TextOf(b)[j] = b.data[j - 1]
<1>1. b.size \in Nat /\ b.data \in [0 .. b.size - 1 -> Elements]
  BY GoodBlock
<1>2. \A j \in 1 .. b.size : b.data[j - 1] \in Elements
  BY <1>1
<1> QED BY <1>1, <1>2 DEF TextOf

LEMMA CleanText ==
  ASSUME NEW b, Clean(b)
  PROVE  TextOf(b) \in Seq(Chars) /\ Len(TextOf(b)) = b.size
<1>1. b.size \in Nat /\ \A j \in 0 .. b.size - 1 : b.data[j] \in Chars
  BY GoodBlock DEF Clean
<1>2. \A j \in 1 .. b.size : b.data[j - 1] \in Chars
  BY <1>1
<1> QED BY <1>1, <1>2 DEF TextOf

LEMMA TextOfStr == Text = TextOf(str)
BY DEF Text, TextOf

LEMMA LeastMember ==
  ASSUME NEW S \in SUBSET Nat, S # {}
  PROVE  Min(S) \in S /\ \A y \in S : Min(S) <= y
<1>1. \E x \in S : \A y \in S : x <= y
  <2> SUFFICES ASSUME \A x \in S : \E y \in S : ~(x <= y)
               PROVE  FALSE
    OBVIOUS
  <2> DEFINE T == {k \in Nat : \A y \in S : k <= y}
  <2>1. 0 \in T
    OBVIOUS
  <2>2. ASSUME NEW k \in Nat, k \in T
        PROVE  k + 1 \in T
    <3>1. k \notin S
      BY <2>2
    <3>2. \A y \in S : k + 1 <= y
      BY <2>2, <3>1
    <3> QED BY <3>2
  <2> HIDE DEF T
  <2>3. \A k \in Nat : k \in T
    BY <2>1, <2>2, SetInduction
  <2>4. PICK x \in S : TRUE
    OBVIOUS
  <2>5. x + 1 \in T /\ x \in Nat
    BY <2>3
  <2> QED BY <2>5 DEF T
<1> QED BY <1>1 DEF Min

LEMMA FindIs ==
  ASSUME NEW E, NEW text \in Seq(E), NEW F, NEW needle \in Seq(F), NEW from \in Nat
  PROVE  LET p == Find(text, needle, from)
         IN  \/ p = -1 /\ Hits(text, needle, from) = {}
             \/ /\ p \in Nat /\ p \in from .. Len(text) - Len(needle)
                /\ p \in Hits(text, needle, from)
                /\ \A q \in Hits(text, needle, from) : p <= q
<1>1. Len(text) \in Nat /\ Len(needle) \in Nat
  OBVIOUS
<1> DEFINE hits == Hits(text, needle, from)
<1>2. hits \subseteq from .. Len(text) - Len(needle)
  BY DEF Hits
<1>3. hits \in SUBSET Nat
  BY <1>1, <1>2
<1> HIDE DEF hits
<1>4. CASE hits = {}
  BY <1>4 DEF Find, hits
<1>5. CASE hits # {}
  <2>1. Min(hits) \in hits /\ \A q \in hits : Min(hits) <= q
    BY <1>3, <1>5, LeastMember
  <2>2. Find(text, needle, from) = Min(hits)
    BY <1>5 DEF Find, hits
  <2> QED BY <1>2, <1>3, <2>1, <2>2 DEF hits
<1> QED BY <1>4, <1>5

-----------------------------------------------------------------------------
(* Replacing a range of the string. *)

NewSize(s, len) == str.size + Len(s) - len

\* The range from `from` of len characters of it, and s, which takes its place.
IsRange(s, from, len) ==
  /\ Good(str) /\ s \in Seq(Chars) /\ from \in Nat /\ len \in Nat
  /\ from + len <= str.size /\ NewSize(s, len) <= Longest

\* The characters the string should have when s is in place of the range.
Spliced(s, from, len) ==
  [j \in 0 .. NewSize(s, len) - 1 |->
     IF j < from THEN str.data[j]
     ELSE IF j < from + Len(s) THEN s[j - from + 1] ELSE str.data[j + len - Len(s)]]

LEMMA SplicedIsClean ==
  ASSUME NEW s, NEW from, NEW len, IsRange(s, from, len)
  PROVE  /\ \A j \in 0 .. NewSize(s, len) - 1 : Spliced(s, from, len)[j] \in Elements
         /\ Clean(str) =>
              \A j \in 0 .. NewSize(s, len) - 1 : Spliced(s, from, len)[j] \in Chars
<1>1. /\ str.size \in Nat /\ str.data \in [0 .. str.size - 1 -> Elements]
      /\ from \in Nat /\ len \in Nat /\ from + len <= str.size /\ Len(s) \in Nat
      /\ \A i \in 1 .. Len(s) : s[i] \in Chars
      /\ NewSize(s, len) = str.size + Len(s) - len
  BY GoodBlock DEF IsRange, NewSize
<1>2. ASSUME NEW E, E \in {Elements, Chars}, \A j \in 0 .. str.size - 1 : str.data[j] \in E,
             NEW j \in 0 .. NewSize(s, len) - 1
      PROVE  Spliced(s, from, len)[j] \in E
  <2>1. CASE j < from
    <3>1. j \in 0 .. str.size - 1
      BY <1>1, <2>1
    <3> QED BY <1>2, <2>1, <3>1 DEF Spliced
  <2>2. CASE ~(j < from) /\ j < from + Len(s)
    <3>1. j - from + 1 \in 1 .. Len(s)
      BY <1>1, <2>2
    <3>2. s[j - from + 1] \in E
      BY <1>1, <1>2, <3>1 DEF Elements
    <3> QED BY <2>2, <3>2 DEF Spliced
  <2>3. CASE ~(j < from) /\ ~(j < from + Len(s))
    <3>1. j + len - Len(s) \in 0 .. str.size - 1
      BY <1>1, <2>3
    <3> QED BY <1>2, <2>3, <3>1 DEF Spliced
  <2> QED BY <2>1, <2>2, <2>3
<1>3. \A j \in 0 .. str.size - 1 : str.data[j] \in Elements
  BY <1>1
<1>4. Clean(str) => \A j \in 0 .. str.size - 1 : str.data[j] \in Chars
  BY DEF Clean
<1> QED BY <1>2, <1>3, <1>4

LEMMA SplicedIs ==
  ASSUME NEW s, NEW from, NEW len
  PROVE  /\ Spliced(s, from, len) = [j \in 0 .. NewSize(s, len) - 1 |-> Spliced(s, from, len)[j]]
         /\ \A j \in 0 .. NewSize(s, len) - 1 :
              /\ j < from => Spliced(s, from, len)[j] = str.data[j]
              /\ ~(j < from) /\ j < from + Len(s) => Spliced(s, from, len)[j] = s[j - from + 1]
              /\ ~(j < from) /\ ~(j < from + Len(s)) =>
                   Spliced(s, from, len)[j] = str.data[j + len - Len(s)]
BY DEF Spliced

LEMMA TightenedIs ==
  ASSUME NEW s, NEW from, NEW len, IsRange(s, from, len), Len(s) <= len
  PROVE  LET t == Tightened(s, from, len)
         IN  Good(t) /\ t.size = NewSize(s, len) /\ t.data = Spliced(s, from, len)
<1> DEFINE size == NewSize(s, len)
           over == len - Len(s)
           d    == [j \in 0 .. str.size - over - 1 |->
                      IF j < from THEN str.data[j]
                      ELSE IF j < from + Len(s) THEN s[j - from + 1] ELSE str.data[j + over]]
           t == Tightened(s, from, len)
<1>1. /\ str.size \in Nat /\ str.cap \in Nat /\ str.room \in Nat
      /\ str.size <= str.cap /\ str.cap <= str.room
      /\ from \in Nat /\ len \in Nat /\ from + len <= str.size /\ Len(s) \in Nat
  BY GoodBlock DEF IsRange
<1>2. t = A!Block(str.room, str.cap, str.size - over, d)
  BY DEF Tightened
<1>3. /\ str.size - over = size /\ \A j \in Int : j + over = j + len - Len(s)
      /\ size \in Nat /\ size <= str.cap
  BY <1>1 DEF NewSize
<1> HIDE DEF size, over
<1>4. \A j \in 0 .. size - 1 : d[j] = Spliced(s, from, len)[j]
  BY <1>3 DEF Spliced, size
<1>5. \A j \in 0 .. size - 1 : Spliced(s, from, len)[j] \in Elements
  BY SplicedIsClean DEF size
<1>6. d = [j \in 0 .. size - 1 |-> d[j]]
  BY <1>3
<1> HIDE DEF d, t
<1>7. Good(t)
  <2>1. \A j \in 0 .. size - 1 : d[j] \in Elements
    BY <1>4, <1>5
  <2> QED BY <1>1, <1>2, <1>3, <2>1, BlockIsGood
<1>8. t.size = size /\ t.data = [j \in 0 .. size - 1 |-> d[j]]
  BY <1>2, <1>3, BlockFields
<1>9. Spliced(s, from, len) = [j \in 0 .. size - 1 |-> Spliced(s, from, len)[j]]
  BY DEF Spliced, size
<1>10. t.data = Spliced(s, from, len)
  BY <1>4, <1>8, <1>9
<1> QED BY <1>7, <1>8, <1>10 DEF size, t

LEMMA WidenedIs ==
  ASSUME NEW s, NEW from, NEW len, IsRange(s, from, len), Len(s) > len
  PROVE  LET w == Widened(s, from, len)
         IN  /\ Good(w) /\ w.size = NewSize(s, len)
             /\ WidenFault(s, from, len) \in {"none", "overflow", "unwritten"}
             /\ Clean(str) /\ WidenFault(s, from, len) = "none" => w.data = Spliced(s, from, len)
             /\ Clean(str) /\ Len(s) = 2 * len => WidenFault(s, from, len) = "none"
<1> DEFINE more   == Len(s) - len
           size   == str.size + more
           b      == A!MaybeGrow(str, size, TRUE, FALSE)
           bytes  == MovedBytes(s, from, len)
           own    == from .. from + Len(s) - 1
           moved  == from + len + more .. from + len + more + bytes - 1
           old(j) == IF j < str.size THEN str.data[j] ELSE None
           d      == [j \in 0 .. str.size + more - 1 |->
                        IF j \in own THEN s[j - from + 1]
                        ELSE IF j \in moved THEN old(j - more) ELSE old(j)]
           w      == Widened(s, from, len)
<1>1. /\ str.size \in Nat /\ str.data \in [0 .. str.size - 1 -> Elements]
      /\ \A i \in 1 .. Len(s) : s[i] \in Chars
      /\ Good(str)
  <2>1. Good(str) /\ \A i \in 1 .. Len(s) : s[i] \in Chars
    BY DEF IsRange
  <2> QED BY <2>1, GoodBlock
<1>2. /\ str.size \in Nat /\ from \in Nat /\ len \in Nat /\ Len(s) \in Nat
      /\ from + len <= str.size /\ NewSize(s, len) <= Longest
  BY <1>1 DEF IsRange
<1>3. /\ more \in Nat /\ more > 0 /\ size \in Nat /\ size \in 0 .. Longest
      /\ size = NewSize(s, len) /\ size = str.size + more /\ Len(s) = len + more
      /\ bytes = str.size - from - more /\ bytes \in Int
  BY <1>2, BoundsType DEF NewSize, MovedBytes
<1>4. w = A!Block(b.room, b.cap, b.size, d)
  BY DEF Widened, A!Grown
<1>5. WidenFault(s, from, len) =
        IF bytes < 0 \/ from + Len(s) + bytes > w.room + A!Slack THEN "overflow"
        ELSE IF None \in Range(w.data) /\ None \notin Range(str.data) THEN "unwritten" ELSE "none"
  BY DEF WidenFault
<1>6. own = from .. from + Len(s) - 1 /\ moved = from + Len(s) .. from + Len(s) + bytes - 1
  <2> HIDE DEF more, bytes
  <2> QED BY <1>2, <1>3
<1>7. d = [j \in 0 .. size - 1 |-> d[j]] /\ 0 .. size - 1 = 0 .. str.size + more - 1
  <2>1. 0 .. size - 1 = 0 .. str.size + more - 1
    <3> HIDE DEF more
    <3> QED BY <1>2, <1>3
  <2> HIDE DEF size
  <2> QED BY <2>1
<1>8. \A j \in 0 .. size - 1 :
        /\ j \in own => d[j] = s[j - from + 1]
        /\ j \notin own /\ j \in moved => d[j] = old(j - more)
        /\ j \notin own /\ j \notin moved => d[j] = old(j)
  <2> HIDE DEF own, moved, old, size
  <2> QED BY <1>7
<1> HIDE DEF d, w, own, moved, bytes, b, size, more
<1>9. Good(b) /\ b.size = size /\ b.room \in Nat /\ b.cap \in Nat /\ size <= b.cap /\ b.cap <= b.room
  <2>1. Good(b) /\ b.size = A!Larger(str.size, size)
    BY <1>1, <1>3, GrownKeeps DEF b
  <2>2. A!Larger(str.size, size) = size
    BY <1>2, <1>3 DEF A!Larger
  <2> QED BY <2>1, <2>2, GoodBlock
<1>10. ASSUME NEW j \in 0 .. size - 1
       PROVE  /\ j \in own <=> ~(j < from) /\ j < from + Len(s)
              /\ j \in own => j - from + 1 \in 1 .. Len(s)
              /\ j \in moved <=> ~(j < from + Len(s)) /\ j < from + Len(s) + bytes
              /\ j \in moved => j - more \in 0 .. size - 1
              /\ j < from => j \in 0 .. str.size - 1
  <2>1. j \in own <=> ~(j < from) /\ j < from + Len(s)
    BY <1>2, <1>6
  <2>2. j \in own => j - from + 1 \in 1 .. Len(s)
    BY <1>2, <2>1
  <2>3. j \in moved <=> ~(j < from + Len(s)) /\ j < from + Len(s) + bytes
    <3>1. \A i, p, q \in Int : i \in p .. p + q - 1 <=> ~(i < p) /\ i < p + q
      OBVIOUS
    <3>2. from + Len(s) \in Int /\ bytes \in Int /\ j \in Int
      BY <1>2, <1>3
    <3> QED BY <1>6, <3>1, <3>2
  <2>4. j \in moved => j - more \in 0 .. size - 1
    BY <1>2, <1>3, <2>3
  <2>5. j < from => j \in 0 .. str.size - 1
    BY <1>2, <1>3
  <2> QED BY <2>1, <2>2, <2>3, <2>4, <2>5
<1>11. \A j \in 0 .. size - 1 : d[j] \in Elements
  <2>1. \A i \in 0 .. size - 1 : old(i) \in Elements
    BY <1>1 DEF Elements
  <2>2. Chars \subseteq Elements
    BY DEF Elements
  <2> HIDE DEF old
  <2> QED BY <1>1, <1>8, <1>10, <2>1, <2>2
<1>12. Good(w) /\ w.room \in Nat /\ size <= w.room
  <2>1. Good(w)
    BY <1>3, <1>4, <1>9, <1>11, BlockIsGood
  <2>2. w.room = b.room
    BY <1>4 DEF A!Block
  <2> QED BY <1>3, <1>9, <2>1, <2>2
<1>13. w.size = size /\ w.data = d
  <2>1. w.size = b.size /\ w.data = [j \in 0 .. b.size - 1 |-> d[j]]
    BY <1>4 DEF A!Block
  <2> QED BY <1>7, <1>9, <2>1
<1>14. ASSUME Clean(str)
       PROVE  None \notin Range(str.data) /\ \A i \in 0 .. str.size - 1 : str.data[i] \in Chars
  BY <1>1, <1>14, CharsAssumption DEF Clean, Range
<1>15. ASSUME bytes >= 0, None \notin Range(w.data)
       PROVE  w.data = Spliced(s, from, len)
  <2>1. \A j \in 0 .. size - 1 : d[j] # None
    BY <1>7, <1>13, <1>15 DEF Range
  <2>2. more <= len
    <3> SUFFICES ASSUME more > len PROVE FALSE
      BY <1>2, <1>3
    <3>1. size - 1 \in 0 .. size - 1 /\ ~(size - 1 < str.size)
      BY <1>2, <1>3
    <3>2. ~(size - 1 < from + Len(s)) /\ ~(size - 1 < from + Len(s) + bytes)
      BY <1>2, <1>3, <1>15
    <3>3. size - 1 \notin own /\ size - 1 \notin moved
      BY <1>10, <3>1, <3>2
    <3>4. d[size - 1] = None
      BY <1>8, <3>1, <3>3
    <3> QED BY <2>1, <3>1, <3>4
  <2> DEFINE f == Spliced(s, from, len)
  <2>3. /\ f = [j \in 0 .. size - 1 |-> f[j]]
        /\ \A j \in 0 .. size - 1 :
             /\ j < from => f[j] = str.data[j]
             /\ ~(j < from) /\ j < from + Len(s) => f[j] = s[j - from + 1]
             /\ ~(j < from) /\ ~(j < from + Len(s)) => f[j] = str.data[j + len - Len(s)]
    <3>1. size = NewSize(s, len)
      BY <1>3
    <3> HIDE DEF f
    <3>2. /\ f = [j \in 0 .. NewSize(s, len) - 1 |-> f[j]]
          /\ \A j \in 0 .. NewSize(s, len) - 1 :
               /\ j < from => f[j] = str.data[j]
               /\ ~(j < from) /\ j < from + Len(s) => f[j] = s[j - from + 1]
               /\ ~(j < from) /\ ~(j < from + Len(s)) => f[j] = str.data[j + len - Len(s)]
      BY SplicedIs DEF f
    <3> QED BY <3>1, <3>2
  <2> HIDE DEF f
  <2>4. ASSUME NEW j \in 0 .. size - 1
        PROVE  d[j] = f[j]
    <3>1. CASE j < from
      <4>1. j \notin own /\ j \notin moved /\ j < str.size
        BY <1>2, <1>3, <1>10, <3>1
      <4>2. d[j] = str.data[j]
        BY <1>8, <4>1
      <4>3. f[j] = str.data[j]
        BY <2>3, <3>1
      <4> QED BY <4>2, <4>3
    <3>2. CASE ~(j < from) /\ j < from + Len(s)
      <4>1. d[j] = s[j - from + 1]
        BY <1>8, <1>10, <3>2
      <4>2. f[j] = s[j - from + 1]
        BY <2>3, <3>2
      <4> QED BY <4>1, <4>2
    <3>3. CASE ~(j < from) /\ ~(j < from + Len(s))
      <4>1. j < from + Len(s) + bytes
        <5>1. from + Len(s) + bytes = str.size + len
          <6>1. from \in Int /\ len \in Int /\ more \in Int /\ str.size \in Int
            BY <1>2, <1>3
          <6>2. from + (len + more) + (str.size - from - more) = str.size + len
            BY <6>1
          <6> QED BY <1>3, <6>2
        <5>2. j < str.size + len
          BY <1>2, <1>3, <2>2
        <5> QED BY <5>1, <5>2
      <4>2. j \notin own /\ j \in moved /\ j - more < str.size /\ j - more = j + len - Len(s)
        BY <1>2, <1>3, <1>10, <3>3, <4>1
      <4>3. d[j] = str.data[j + len - Len(s)]
        BY <1>8, <4>2
      <4>4. f[j] = str.data[j + len - Len(s)]
        BY <2>3, <3>3
      <4> QED BY <4>3, <4>4
    <3> QED BY <3>1, <3>2, <3>3
  <2>5. w.data = f
    BY <1>7, <1>13, <2>3, <2>4
  <2> QED BY <2>5 DEF f
<1>16. ASSUME Clean(str), Len(s) = 2 * len
       PROVE  WidenFault(s, from, len) = "none"
  <2>1. more = len /\ bytes = str.size - from - len
    BY <1>2, <1>3, <1>16
  <2>2. bytes >= 0 /\ from + Len(s) + bytes = size
    BY <1>2, <1>3, <1>16, <2>1
  <2>3. ~(from + Len(s) + bytes > w.room + A!Slack)
    BY <1>3, <1>12, <2>2 DEF A!Slack
  <2>4. ASSUME NEW j \in 0 .. size - 1
        PROVE  d[j] \in Chars
    <3>1. CASE j < from
      <4>1. j \notin own /\ j \notin moved /\ j < str.size /\ j \in 0 .. str.size - 1
        BY <1>2, <1>3, <1>10, <3>1
      <4> QED BY <1>8, <1>14, <1>16, <4>1
    <3>2. CASE ~(j < from) /\ j < from + Len(s)
      BY <1>1, <1>8, <1>10, <3>2
    <3>3. CASE ~(j < from) /\ ~(j < from + Len(s))
      <4>1. /\ j \notin own /\ j \in moved
            /\ j - more < str.size /\ j - more \in 0 .. str.size - 1
        <5>1. j < from + Len(s) + bytes
          BY <1>3, <2>2
        <5>2. j \notin own /\ j \in moved
          BY <1>10, <3>3, <5>1
        <5>3. j - more \in 0 .. size - 1 /\ j - more < str.size
          BY <1>2, <1>3, <1>10, <5>2
        <5> QED BY <1>2, <5>2, <5>3
      <4> QED BY <1>8, <1>14, <1>16, <4>1
    <3> QED BY <3>1, <3>2, <3>3
  <2>5. None \notin Range(w.data)
    BY <1>7, <1>13, <2>4, CharsAssumption DEF Range
  <2>6. ~(bytes < 0)
    BY <1>3, <2>2
  <2> QED BY <1>5, <2>3, <2>5, <2>6
<1>17. ASSUME Clean(str), WidenFault(s, from, len) = "none"
       PROVE  w.data = Spliced(s, from, len)
  <2>1. ~(bytes < 0) /\ ~(None \in Range(w.data) /\ None \notin Range(str.data))
    BY <1>5, <1>17
  <2>2. bytes >= 0 /\ None \notin Range(w.data)
    BY <1>3, <1>14, <1>17, <2>1
  <2> QED BY <1>15, <2>2
<1>18. WidenFault(s, from, len) \in {"none", "overflow", "unwritten"}
  BY <1>5
<1> QED BY <1>3, <1>12, <1>13, <1>16, <1>17, <1>18 DEF w

\* What is before an index, and from it on.
LEMMA PartsOfText ==
  ASSUME Clean(str), NEW from \in 0 .. str.size
  PROVE  /\ Done(from) \in Seq(Chars) /\ Len(Done(from)) = from
         /\ \A j \in 1 .. from : Done(from)[j] = str.data[j - 1]
         /\ Rest(from) \in Seq(Chars) /\ Len(Rest(from)) = str.size - from
         /\ \A j \in 1 .. str.size - from : Rest(from)[j] = str.data[from + j - 1]
<1>1. /\ str.size \in Nat /\ Text \in Seq(Chars) /\ Len(Text) = str.size
      /\ \A j \in 1 .. str.size : Text[j] = str.data[j - 1]
  BY GoodBlock, CleanText, TextIs, TextOfStr DEF Clean
<1>2. from \in Nat /\ from <= str.size
  BY <1>1
<1> HIDE DEF Text
<1>3. /\ Done(from) \in Seq(Chars) /\ Len(Done(from)) = from
      /\ \A j \in 1 .. from : Done(from)[j] = Text[j]
  BY <1>1, <1>2 DEF Done
<1>4. /\ Rest(from) \in Seq(Chars) /\ Len(Rest(from)) = str.size - from
      /\ \A j \in 1 .. str.size - from : Rest(from)[j] = Text[from + j]
  BY <1>1, <1>2 DEF Rest
<1>5. \A j \in 1 .. from : j \in 1 .. str.size
  BY <1>1, <1>2
<1>6. \A j \in 1 .. str.size - from :
        from + j \in 1 .. str.size /\ (from + j) - 1 = from + j - 1
  BY <1>1, <1>2
<1>7. \A j \in 1 .. from : Done(from)[j] = str.data[j - 1]
  BY <1>1, <1>3, <1>5
<1>8. ASSUME NEW j \in 1 .. str.size - from
      PROVE  Rest(from)[j] = str.data[from + j - 1]
  <2>1. Rest(from)[j] = Text[from + j]
    BY <1>4
  <2>2. Text[from + j] = str.data[(from + j) - 1]
    BY <1>1, <1>6
  <2>3. (from + j) - 1 = from + j - 1
    BY <1>6
  <2> QED BY <2>1, <2>2, <2>3
<1> QED BY <1>3, <1>4, <1>7, <1>8

LEMMA SubstituteIs ==
  ASSUME NEW s, NEW from, NEW len, IsRange(s, from, len), NEW f \in ReplaceFaults(s, from, len)
  PROVE  LET b == Replaced(s, from, len)
         IN  /\ Good(b) /\ b.size = NewSize(s, len)
             /\ f \in {"none", "null copy", "overflow", "unwritten"}
             /\ Clean(str) /\ f = "none" => Clean(b) /\ b.data = Spliced(s, from, len)
             /\ f \in {"overflow", "unwritten"} =>
                  Len(s) > len /\ (Clean(str) => Len(s) # 2 * len)
<1> DEFINE b == Replaced(s, from, len)
<1>1. Len(s) \in Nat /\ len \in Nat
  BY DEF IsRange
<1>2. ASSUME Good(b), b.size = NewSize(s, len), Clean(str), b.data = Spliced(s, from, len)
      PROVE  Clean(b)
  BY <1>2, SplicedIsClean DEF Clean
<1>3. CASE Len(s) > len
  <2>1. b = Widened(s, from, len) /\ f = WidenFault(s, from, len)
    BY <1>3 DEF Replaced, ReplaceFaults
  <2> HIDE DEF b
  <2>2. /\ Good(b) /\ b.size = NewSize(s, len)
        /\ f \in {"none", "overflow", "unwritten"}
        /\ Clean(str) /\ f = "none" => b.data = Spliced(s, from, len)
        /\ Clean(str) /\ Len(s) = 2 * len => f = "none"
    BY <1>3, <2>1, WidenedIs
  <2>3. Clean(str) /\ f \in {"overflow", "unwritten"} => Len(s) # 2 * len
    BY <2>2
  <2> QED BY <1>2, <1>3, <2>2, <2>3 DEF b
<1>4. CASE ~(Len(s) > len)
  <2>1. b = Tightened(s, from, len) /\ f \in {"none", "null copy"}
    BY <1>4 DEF Replaced, ReplaceFaults, NullCopies
  <2> HIDE DEF b
  <2>2. Len(s) <= len
    BY <1>1, <1>4
  <2>3. Good(b) /\ b.size = NewSize(s, len) /\ b.data = Spliced(s, from, len)
    BY <2>1, <2>2, TightenedIs
  <2> QED BY <1>2, <2>1, <2>3 DEF b
<1> QED BY <1>3, <1>4

\* A replacement that misuses no memory puts in its characters and keeps the others.
LEMMA SplicedText ==
  ASSUME NEW s, NEW from, NEW len, IsRange(s, from, len), Clean(str),
         NEW b, Clean(b), b.size = NewSize(s, len), b.data = Spliced(s, from, len)
  PROVE  TextOf(b) = Done(from) \o s \o Rest(from + len)
<1>1. /\ str.size \in Nat /\ from \in Nat /\ len \in Nat /\ from + len <= str.size
      /\ s \in Seq(Chars) /\ Len(s) \in Nat
      /\ from \in 0 .. str.size /\ from + len \in 0 .. str.size
  <2>1. str.size \in Nat /\ from \in Nat /\ len \in Nat /\ from + len <= str.size
        /\ s \in Seq(Chars)
    BY GoodBlock DEF IsRange
  <2> QED BY <2>1
<1> DEFINE done == Done(from)
           rest == Rest(from + len)
           text == done \o s \o rest
<1>2. /\ done \in Seq(Chars) /\ Len(done) = from
      /\ \A j \in 1 .. from : done[j] = str.data[j - 1]
  BY <1>1, PartsOfText
<1>3. /\ rest \in Seq(Chars) /\ Len(rest) = str.size - (from + len)
      /\ \A j \in 1 .. str.size - (from + len) : rest[j] = str.data[(from + len) + j - 1]
  BY <1>1, PartsOfText
<1> HIDE DEF done, rest
<1>4. done \o s \in Seq(Chars) /\ Len(done \o s) = from + Len(s)
  BY <1>1, <1>2, ConcatProperties
<1>5. text \in Seq(Chars) /\ Len(text) = from + Len(s) + (str.size - (from + len))
  <2>1. rest \in Seq(Chars) /\ done \o s \in Seq(Chars)
    BY <1>3, <1>4
  <2>2. text \in Seq(Chars) /\ Len(text) = Len(done \o s) + Len(rest)
    BY <2>1, ConcatProperties
  <2> QED BY <1>3, <1>4, <2>2
<1>6. NewSize(s, len) = Len(text) /\ NewSize(s, len) \in Nat
  BY <1>1, <1>5 DEF NewSize
<1>7. TextOf(b) \in Seq(Chars) /\ Len(TextOf(b)) = b.size
      /\ \A j \in 1 .. b.size : TextOf(b)[j] = b.data[j - 1]
  BY CleanText, TextIs DEF Clean
<1>8. ASSUME NEW j \in 1 .. b.size
      PROVE  TextOf(b)[j] = text[j]
  <2>1. j - 1 \in 0 .. NewSize(s, len) - 1 /\ j \in 1 .. Len(text) /\ j \in Nat
    BY <1>6
  <2>2. TextOf(b)[j] = Spliced(s, from, len)[j - 1]
    BY <1>7
  <2>3. CASE j <= from
    <3>1. j - 1 < from /\ j \in 1 .. from
      BY <1>1, <2>1, <2>3
    <3>2. Spliced(s, from, len)[j - 1] = str.data[j - 1]
      BY <2>1, <3>1, SplicedIs
    <3>3. (done \o s)[j] = done[j] /\ j \in 1 .. Len(done \o s)
      BY <1>1, <1>2, <1>4, <3>1
    <3>4. text[j] = (done \o s)[j]
      BY <1>3, <1>4, <3>3
    <3> QED BY <1>2, <2>2, <3>1, <3>2, <3>3, <3>4
  <2>4. CASE ~(j <= from) /\ j <= from + Len(s)
    <3>1. ~(j - 1 < from) /\ j - 1 < from + Len(s) /\ (j - 1) - from + 1 = j - from
      BY <1>1, <2>1, <2>4
    <3>2. Spliced(s, from, len)[j - 1] = s[j - from]
      <4>1. Spliced(s, from, len)[j - 1] = s[(j - 1) - from + 1]
        BY <2>1, <3>1, SplicedIs
      <4> QED BY <3>1, <4>1
    <3>3. (done \o s)[j] = s[j - from] /\ j \in 1 .. Len(done \o s)
      BY <1>1, <1>2, <1>4, <2>1, <2>4
    <3>4. text[j] = (done \o s)[j]
      BY <1>3, <1>4, <3>3
    <3> QED BY <2>2, <3>2, <3>3, <3>4
  <2>5. CASE ~(j <= from) /\ ~(j <= from + Len(s))
    <3>1. ~(j - 1 < from) /\ ~(j - 1 < from + Len(s))
      BY <1>1, <2>1, <2>5
    <3> DEFINE i == j - (from + Len(s))
    <3>2. i \in 1 .. str.size - (from + len)
          /\ (j - 1) + len - Len(s) = (from + len) + i - 1
      BY <1>1, <1>5, <2>1, <2>5
    <3>3. Spliced(s, from, len)[j - 1] = str.data[(j - 1) + len - Len(s)]
      BY <2>1, <3>1, SplicedIs
    <3>4. text[j] = rest[i]
      BY <1>1, <1>3, <1>4, <2>1, <2>5
    <3> HIDE DEF i
    <3> QED BY <1>3, <2>2, <3>2, <3>3, <3>4
  <2> QED BY <1>1, <2>1, <2>3, <2>4, <2>5
<1>9. TextOf(b) = text
  <2> HIDE DEF text
  <2>1. Len(TextOf(b)) = Len(text)
    BY <1>6, <1>7
  <2> QED BY <1>5, <1>7, <1>8, <2>1, SeqEqual
<1> QED BY <1>9 DEF done, rest

-----------------------------------------------------------------------------
(* What replacing every occurrence makes of a text. *)

Texts == Seq(Chars)
ReplaceStep(f, s, g, t) ==
  IF Len(t) < Len(f) THEN t
  ELSE IF IsPrefix(f, t) THEN s \o g[SubSeq(t, Len(f) + 1, Len(t))]
  ELSE <<Head(t)>> \o g[Tail(t)]

LEMMA ShorterParts ==
  ASSUME NEW f \in Texts, f # <<>>, NEW t \in Texts, ~(Len(t) < Len(f))
  PROVE  /\ SubSeq(t, Len(f) + 1, Len(t)) \in Texts /\ Len(SubSeq(t, Len(f) + 1, Len(t))) < Len(t)
         /\ Tail(t) \in Texts /\ Len(Tail(t)) < Len(t) /\ <<Head(t)>> \in Texts
<1>1. Len(f) \in Nat /\ Len(f) > 0 /\ Len(t) \in Nat
  BY EmptySeq DEF Texts
<1>2. t # <<>>
  BY <1>1
<1>3. Tail(t) \in Texts /\ Len(Tail(t)) = Len(t) - 1 /\ Head(t) \in Chars
  BY <1>2, HeadTailProperties DEF Texts
<1>4. SubSeq(t, Len(f) + 1, Len(t)) \in Texts
  <2>1. \A i \in Len(f) + 1 .. Len(t) : t[i] \in Chars
    BY <1>1 DEF Texts
  <2> QED BY <1>1, <2>1, SubSeqProperties DEF Texts
<1>5. Len(SubSeq(t, Len(f) + 1, Len(t))) < Len(t)
  <2>1. \A i \in Len(f) + 1 .. Len(t) : t[i] \in Chars
    BY <1>1 DEF Texts
  <2>2. Len(SubSeq(t, Len(f) + 1, Len(t))) =
          IF Len(f) + 1 <= Len(t) THEN Len(t) - (Len(f) + 1) + 1 ELSE 0
    BY <1>1, <2>1, SubSeqProperties
  <2> QED BY <1>1, <2>2
<1> QED BY <1>1, <1>3, <1>4, <1>5 DEF Texts

LEMMA ReplaceStepTyped ==
  ASSUME NEW f \in Texts, f # <<>>, NEW s \in Texts, NEW g \in [Texts -> Texts], NEW t \in Texts
  PROVE  ReplaceStep(f, s, g, t) \in Texts
<1>1. CASE Len(t) < Len(f)
  BY <1>1 DEF ReplaceStep
<1>2. CASE ~(Len(t) < Len(f))
  <2>1. /\ SubSeq(t, Len(f) + 1, Len(t)) \in Texts /\ Tail(t) \in Texts /\ <<Head(t)>> \in Texts
    BY <1>2, ShorterParts
  <2>2. s \o g[SubSeq(t, Len(f) + 1, Len(t))] \in Texts
    BY <2>1, ConcatProperties DEF Texts
  <2>3. <<Head(t)>> \o g[Tail(t)] \in Texts
    BY <2>1, ConcatProperties DEF Texts
  <2> QED BY <1>2, <2>2, <2>3 DEF ReplaceStep
<1> QED BY <1>1, <1>2

LEMMA ReplaceStepShorter ==
  ASSUME NEW f \in Texts, f # <<>>, NEW s, NEW g, NEW h, NEW t \in Texts,
         \A u \in Texts : Len(u) < Len(t) => g[u] = h[u]
  PROVE  ReplaceStep(f, s, g, t) = ReplaceStep(f, s, h, t)
<1>1. CASE Len(t) < Len(f)
  BY <1>1 DEF ReplaceStep
<1>2. CASE ~(Len(t) < Len(f))
  <2>1. /\ g[SubSeq(t, Len(f) + 1, Len(t))] = h[SubSeq(t, Len(f) + 1, Len(t))]
        /\ g[Tail(t)] = h[Tail(t)]
    BY <1>2, ShorterParts
  <2> QED BY <1>2, <2>1 DEF ReplaceStep
<1> QED BY <1>1, <1>2

\* There is such a function: of the texts of each length, one after the other.
LEMMA ReplacingExists ==
  ASSUME NEW f \in Texts, f # <<>>, NEW s \in Texts
  PROVE  \E r \in [Texts -> Texts] : r = [t \in Texts |-> ReplaceStep(f, s, r, t)]
<1> DEFINE D    == [Texts -> Texts]
           base == [t \in Texts |-> t]
           step == [k \in Nat |-> [g \in D |-> [t \in Texts |-> ReplaceStep(f, s, g, t)]]]
<1>1. \A g \in D : [t \in Texts |-> ReplaceStep(f, s, g, t)] \in D
  BY ReplaceStepTyped
<1>2. base \in D
  OBVIOUS
<1>3. IsRecursion(D, base, step)
  <2> HIDE DEF D, base
  <2> QED BY <1>1, <1>2 DEF IsRecursion
<1>4. PICK G : Solves(G, D, base, step)
  <2> HIDE DEF D, base, step
  <2> QED BY <1>3, RecursionExists
<1>5. G \in [Nat -> D] /\ G[0] = base /\ \A k \in Nat : G[k + 1] = step[k][G[k]]
  BY <1>4 DEF Solves
<1>6. \A k \in Nat : G[k] \in D
  BY <1>5
<1>7. \A k \in Nat, t \in Texts : G[k + 1][t] = ReplaceStep(f, s, G[k], t)
  <2> TAKE k \in Nat, t \in Texts
  <2> HIDE DEF D
  <2>1. step[k][G[k]] = [u \in Texts |-> ReplaceStep(f, s, G[k], u)]
    BY <1>6
  <2> QED BY <1>5, <2>1
<1>8. \A t \in Texts : G[0][t] = t
  BY <1>5
<1> HIDE DEF D, base, step
<1>9. \A k \in Nat : \A t \in Texts : Len(t) <= k => G[k + 1][t] = G[k][t]
  <2> DEFINE S == {k \in Nat : \A t \in Texts : Len(t) <= k => G[k + 1][t] = G[k][t]}
  <2>1. 0 \in S
    <3> SUFFICES ASSUME NEW t \in Texts, Len(t) <= 0
                 PROVE  G[0 + 1][t] = G[0][t]
      OBVIOUS
    <3>1. Len(t) < Len(f)
      BY EmptySeq DEF Texts
    <3>2. G[0 + 1][t] = ReplaceStep(f, s, G[0], t)
      BY <1>7
    <3> QED BY <1>8, <3>1, <3>2 DEF ReplaceStep
  <2>2. ASSUME NEW k \in Nat, k \in S
        PROVE  k + 1 \in S
    <3> SUFFICES ASSUME NEW t \in Texts, Len(t) <= k + 1
                 PROVE  G[(k + 1) + 1][t] = G[k + 1][t]
      OBVIOUS
    <3>1. \A u \in Texts : Len(u) < Len(t) => G[k + 1][u] = G[k][u]
      <4> SUFFICES ASSUME NEW u \in Texts, Len(u) < Len(t) PROVE G[k + 1][u] = G[k][u]
        OBVIOUS
      <4>1. Len(u) \in Nat /\ Len(t) \in Nat
        BY DEF Texts
      <4>2. Len(u) <= k
        BY <4>1
      <4> QED BY <2>2, <4>2
    <3>2. ReplaceStep(f, s, G[k + 1], t) = ReplaceStep(f, s, G[k], t)
      BY <3>1, ReplaceStepShorter
    <3> QED BY <1>7, <3>2
  <2> HIDE DEF S
  <2>3. \A k \in Nat : k \in S
    BY <2>1, <2>2, SetInduction
  <2> QED BY <2>3 DEF S
<1>10. \A m \in Nat : \A t \in Texts : Len(t) <= m => G[m][t] = G[Len(t)][t]
  <2> DEFINE S == {m \in Nat : \A t \in Texts : Len(t) <= m => G[m][t] = G[Len(t)][t]}
  <2>1. 0 \in S
    <3> SUFFICES ASSUME NEW t \in Texts, Len(t) <= 0 PROVE Len(t) = 0
      OBVIOUS
    <3> QED BY DEF Texts
  <2>2. ASSUME NEW m \in Nat, m \in S
        PROVE  m + 1 \in S
    <3> SUFFICES ASSUME NEW t \in Texts, Len(t) <= m + 1
                 PROVE  G[m + 1][t] = G[Len(t)][t]
      OBVIOUS
    <3>1. Len(t) \in Nat
      BY DEF Texts
    <3>2. CASE Len(t) = m + 1
      BY <3>2
    <3>3. CASE Len(t) <= m
      BY <1>9, <2>2, <3>3
    <3> QED BY <3>1, <3>2, <3>3
  <2> HIDE DEF S
  <2>3. \A m \in Nat : m \in S
    BY <2>1, <2>2, SetInduction
  <2> QED BY <2>3 DEF S
<1> DEFINE r == [t \in Texts |-> G[Len(t)][t]]
<1>11. ASSUME NEW t \in Texts
       PROVE  G[Len(t)][t] = ReplaceStep(f, s, r, t) /\ G[Len(t)][t] \in Texts
  <2>1. Len(t) \in Nat
    BY DEF Texts
  <2>2. G[Len(t) + 1][t] = G[Len(t)][t]
    BY <1>9, <2>1
  <2>3. G[Len(t) + 1][t] = ReplaceStep(f, s, G[Len(t)], t)
    BY <1>7, <2>1
  <2>4. \A u \in Texts : Len(u) < Len(t) => G[Len(t)][u] = r[u]
    <3> SUFFICES ASSUME NEW u \in Texts, Len(u) < Len(t) PROVE G[Len(t)][u] = r[u]
      OBVIOUS
    <3>1. Len(u) \in Nat /\ Len(u) <= Len(t)
      BY <2>1 DEF Texts
    <3> QED BY <1>10, <2>1, <3>1
  <2>5. ReplaceStep(f, s, G[Len(t)], t) = ReplaceStep(f, s, r, t)
    <3> HIDE DEF r
    <3> QED BY <2>4, ReplaceStepShorter
  <2>6. G[Len(t)][t] \in Texts
    BY <1>6, <2>1 DEF D
  <2> QED BY <2>2, <2>3, <2>5, <2>6
<1>12. r \in [Texts -> Texts] /\ \A t \in Texts : r[t] = ReplaceStep(f, s, r, t)
  BY <1>11
<1>13. r = [t \in Texts |-> r[t]]
  OBVIOUS
<1> HIDE DEF r
<1>14. [t \in Texts |-> r[t]] = [t \in Texts |-> ReplaceStep(f, s, r, t)]
  BY <1>12
<1> QED BY <1>12, <1>13, <1>14

LEMMA ReplacingIs ==
  ASSUME NEW f \in Texts, f # <<>>, NEW s \in Texts
  PROVE  /\ Replacing(f, s) \in [Texts -> Texts]
         /\ \A t \in Texts : Replacing(f, s)[t] = ReplaceStep(f, s, Replacing(f, s), t)
<1> DEFINE r == CHOOSE r : r = [t \in Texts |-> ReplaceStep(f, s, r, t)]
<1>1. \E t : t = [u \in Texts |-> ReplaceStep(f, s, t, u)]
  BY ReplacingExists
<1>2. r = [t \in Texts |-> ReplaceStep(f, s, r, t)]
  BY <1>1
<1>3. Replacing(f, s) = r
  BY DEF Replacing, ReplaceStep, Texts
<1> HIDE DEF r
<1>4. DOMAIN r = Texts /\ \A t \in Texts : r[t] = ReplaceStep(f, s, r, t)
  BY <1>2
<1>5. PICK h \in [Texts -> Texts] : h = [t \in Texts |-> ReplaceStep(f, s, h, t)]
  BY ReplacingExists
<1>6. \A t \in Texts : h[t] = ReplaceStep(f, s, h, t)
  BY <1>5
<1>7. \A t \in Texts : r[t] = h[t]
  <2> DEFINE S == {k \in Nat : \A t \in Texts : Len(t) < k => r[t] = h[t]}
  <2>1. 0 \in S
    BY DEF Texts
  <2>2. ASSUME NEW k \in Nat, k \in S
        PROVE  k + 1 \in S
    <3> SUFFICES ASSUME NEW t \in Texts, Len(t) < k + 1 PROVE r[t] = h[t]
      OBVIOUS
    <3>1. ASSUME NEW u \in Texts, Len(u) < Len(t)
          PROVE  r[u] = h[u]
      <4>1. Len(u) \in Nat /\ Len(t) \in Nat
        BY DEF Texts
      <4>2. Len(u) < k
        BY <3>1, <4>1
      <4> QED BY <2>2, <4>2
    <3>2. ReplaceStep(f, s, r, t) = ReplaceStep(f, s, h, t)
      BY <3>1, ReplaceStepShorter
    <3> QED BY <1>4, <1>6, <3>2
  <2> HIDE DEF S
  <2>3. \A k \in Nat : k \in S
    BY <2>1, <2>2, SetInduction
  <2>4. \A t \in Texts : Len(t) \in Nat /\ Len(t) + 1 \in S
    BY <2>3 DEF Texts
  <2> QED BY <2>4 DEF S
<1>8. r = [t \in Texts |-> r[t]]
  BY <1>2
<1>9. r \in [Texts -> Texts]
  BY <1>5, <1>7, <1>8
<1> QED BY <1>3, <1>4, <1>9

\* A text from index i on, and what replacing makes of it.
Suffix(text, i) == SubSeq(text, i + 1, Len(text))

LEMMA SuffixIs ==
  ASSUME NEW text \in Texts, NEW i \in 0 .. Len(text)
  PROVE  /\ Suffix(text, i) \in Texts /\ Len(Suffix(text, i)) = Len(text) - i
         /\ \A j \in 1 .. Len(text) - i : Suffix(text, i)[j] = text[i + j]
<1>1. Len(text) \in Nat /\ i \in Nat /\ i <= Len(text)
  BY DEF Texts
<1>2. \A j \in i + 1 .. Len(text) : text[j] \in Chars
  BY <1>1 DEF Texts
<1>3. Suffix(text, i) \in Texts
  BY <1>1, <1>2, SubSeqProperties DEF Suffix, Texts
<1>4. Len(Suffix(text, i)) = Len(text) - i
  <2>1. Len(Suffix(text, i)) = IF i + 1 <= Len(text) THEN Len(text) - (i + 1) + 1 ELSE 0
    BY <1>1, <1>2, SubSeqProperties DEF Suffix
  <2> QED BY <1>1, <2>1
<1>5. \A j \in 1 .. Len(text) - i : Suffix(text, i)[j] = text[i + j]
  BY <1>1 DEF Suffix, Texts
<1> QED BY <1>3, <1>4, <1>5

LEMMA SuffixOfSuffix ==
  ASSUME NEW text \in Texts, NEW i \in 0 .. Len(text), NEW k \in 0 .. Len(text) - i
  PROVE  Suffix(Suffix(text, i), k) = Suffix(text, i + k)
<1>1. Len(text) \in Nat /\ i \in Nat /\ k \in Nat /\ i + k \in 0 .. Len(text)
  BY DEF Texts
<1>2. /\ Suffix(text, i) \in Texts /\ Len(Suffix(text, i)) = Len(text) - i
      /\ \A j \in 1 .. Len(text) - i : Suffix(text, i)[j] = text[i + j]
  BY SuffixIs
<1>3. /\ Suffix(text, i + k) \in Texts /\ Len(Suffix(text, i + k)) = Len(text) - (i + k)
      /\ \A j \in 1 .. Len(text) - (i + k) : Suffix(text, i + k)[j] = text[(i + k) + j]
  BY <1>1, SuffixIs
<1> DEFINE u == Suffix(text, i)
<1>4. /\ Suffix(u, k) \in Texts /\ Len(Suffix(u, k)) = Len(u) - k
      /\ \A j \in 1 .. Len(u) - k : Suffix(u, k)[j] = u[k + j]
  <2>1. k \in 0 .. Len(u)
    BY <1>2
  <2> HIDE DEF u
  <2>2. u \in Texts
    BY <1>2 DEF u
  <2> QED BY <2>1, <2>2, SuffixIs
<1> HIDE DEF u
<1>5. \A j \in 1 .. Len(text) - (i + k) : Suffix(u, k)[j] = Suffix(text, i + k)[j]
  <2> SUFFICES ASSUME NEW j \in 1 .. Len(text) - (i + k)
               PROVE  Suffix(u, k)[j] = Suffix(text, i + k)[j]
    OBVIOUS
  <2>1. j \in 1 .. Len(u) - k /\ k + j \in 1 .. Len(text) - i /\ i + (k + j) = (i + k) + j
    BY <1>1, <1>2 DEF u
  <2>2. Suffix(u, k)[j] = u[k + j]
    BY <1>4, <2>1
  <2>3. u[k + j] = text[i + (k + j)]
    BY <1>2, <2>1 DEF u
  <2>4. Suffix(text, i + k)[j] = text[(i + k) + j]
    BY <1>3
  <2> QED BY <2>1, <2>2, <2>3, <2>4
<1>6. Len(Suffix(u, k)) = Len(Suffix(text, i + k)) /\ Len(Suffix(u, k)) = Len(text) - (i + k)
  <2>1. Len(Suffix(u, k)) = (Len(text) - i) - k
    BY <1>2, <1>4 DEF u
  <2>2. (Len(text) - i) - k = Len(text) - (i + k)
    BY <1>1
  <2> QED BY <1>3, <2>1, <2>2
<1>7. Suffix(u, k) = Suffix(text, i + k)
  BY <1>3, <1>4, <1>5, <1>6, SeqEqual DEF Texts
<1> QED BY <1>7 DEF u

\* An occurrence of f is where f is a prefix of the rest.
LEMMA HitIsPrefix ==
  ASSUME NEW text \in Texts, NEW f \in Texts, NEW from \in Nat, NEW i \in 0 .. Len(text), from <= i
  PROVE  i \in Hits(text, f, from) <=>
           ~(Len(Suffix(text, i)) < Len(f)) /\ IsPrefix(f, Suffix(text, i))
<1>1. Len(text) \in Nat /\ Len(f) \in Nat /\ i \in Nat
  BY DEF Texts
<1>2. /\ Suffix(text, i) \in Texts /\ Len(Suffix(text, i)) = Len(text) - i
      /\ \A j \in 1 .. Len(text) - i : Suffix(text, i)[j] = text[i + j]
  BY SuffixIs
<1>3. i \in from .. Len(text) - Len(f) <=> ~(Len(Suffix(text, i)) < Len(f))
  BY <1>1, <1>2
<1>4. ASSUME i <= Len(text) - Len(f)
      PROVE  SubSeq(text, i + 1, i + Len(f)) = SubSeq(Suffix(text, i), 1, Len(f))
  <2> DEFINE u == Suffix(text, i)
             v == SubSeq(text, i + 1, i + Len(f))
             w == SubSeq(u, 1, Len(f))
  <2>1. u \in Seq(Chars) /\ text \in Seq(Chars) /\ Len(f) <= Len(u)
    BY <1>1, <1>2, <1>4 DEF Texts
  <2>2. v \in Seq(Chars) /\ Len(v) = Len(f) /\ \A j \in 1 .. Len(f) : v[j] = text[i + j]
    <3>1. i + 1 \in Int /\ i + Len(f) \in Int /\ i + Len(f) <= Len(text) /\ i \in Nat
      BY <1>1, <1>4
    <3>2. \A j \in i + 1 .. i + Len(f) : text[j] \in Chars
      <4> HIDE DEF u
      <4> QED BY <1>1, <2>1, <3>1
    <3>3. v \in Seq(Chars) /\ Len(v) = IF i + 1 <= i + Len(f) THEN i + Len(f) - (i + 1) + 1 ELSE 0
      BY <3>1, <3>2, SubSeqProperties
    <3>4. Len(v) = Len(f)
      <4> HIDE DEF v
      <4> QED BY <1>1, <3>3
    <3>5. \A j \in 1 .. Len(f) : v[j] = text[i + j]
      <4> SUFFICES ASSUME NEW j \in 1 .. Len(f) PROVE v[j] = text[i + j]
        OBVIOUS
      <4>1. j \in 1 .. (i + Len(f)) - (i + 1) + 1 /\ (i + 1) + j - 1 = i + j
        BY <1>1
      <4>2. v[j] = text[(i + 1) + j - 1]
        BY <3>1, <3>2, <4>1, SubSeqProperties
      <4> QED BY <4>1, <4>2
    <3> QED BY <3>3, <3>4, <3>5
  <2>3. w \in Seq(Chars) /\ Len(w) = Len(f) /\ \A j \in 1 .. Len(f) : w[j] = u[j]
    <3> HIDE DEF u
    <3> QED BY <1>1, <2>1
  <2>4. \A j \in 1 .. Len(f) : u[j] = text[i + j]
    BY <1>1, <1>2, <1>4
  <2> HIDE DEF u, v, w
  <2>5. \A j \in 1 .. Len(v) : v[j] = w[j]
    BY <2>2, <2>3, <2>4
  <2>6. v = w
    BY <2>2, <2>3, <2>5, SeqEqual
  <2> QED BY <2>6 DEF u, v, w
<1>5. SubSeq(f, 1, Len(f)) = f
  BY SubSeqFull DEF Texts
<1>6. Len(f) <= Len(Suffix(text, i)) <=> ~(Len(Suffix(text, i)) < Len(f))
  BY <1>1, <1>2
<1>7. IsPrefix(f, Suffix(text, i)) <=>
        Len(f) <= Len(Suffix(text, i)) /\ f = SubSeq(Suffix(text, i), 1, Len(f))
  BY <1>5 DEF IsPrefix
<1>8. i \in Hits(text, f, from) <=>
        i \in from .. Len(text) - Len(f) /\ SubSeq(text, i + 1, i + Len(f)) = f
  BY DEF Hits
<1>9. i \in from .. Len(text) - Len(f) => i <= Len(text) - Len(f)
  BY <1>1
<1> QED BY <1>3, <1>4, <1>6, <1>7, <1>8, <1>9

\* One step of the recursion, at index i of a text.
Unrolled(r, f, s, text, i) ==
  /\ i \in Hits(text, f, 0) => r[Suffix(text, i)] = s \o r[Suffix(text, i + Len(f))]
  /\ i \notin Hits(text, f, 0) /\ i = Len(text) => r[Suffix(text, i)] = <<>>
  /\ i \notin Hits(text, f, 0) /\ i < Len(text) =>
       \/ Len(text) - i < Len(f) /\ r[Suffix(text, i)] = Suffix(text, i)
       \/ r[Suffix(text, i)] = <<text[i + 1]>> \o r[Suffix(text, i + 1)]

LEMMA ReplacingUnrolls ==
  ASSUME NEW f \in Texts, f # <<>>, NEW s \in Texts, NEW text \in Texts, NEW i \in 0 .. Len(text)
  PROVE  Unrolled(Replacing(f, s), f, s, text, i)
<1> DEFINE r == Replacing(f, s)
           u == Suffix(text, i)
<1>1. Len(text) \in Nat /\ Len(f) \in Nat /\ Len(f) > 0 /\ i \in Nat /\ i <= Len(text)
  BY EmptySeq DEF Texts
<1>2. /\ u \in Texts /\ Len(u) = Len(text) - i
      /\ \A j \in 1 .. Len(text) - i : u[j] = text[i + j]
  BY SuffixIs
<1>3. r \in [Texts -> Texts] /\ r[u] = ReplaceStep(f, s, r, u)
  BY <1>2, ReplacingIs
<1>4. i \in Hits(text, f, 0) <=> ~(Len(u) < Len(f)) /\ IsPrefix(f, u)
  BY <1>1, HitIsPrefix
<1>5. \A k \in 0 .. Len(text) - i : Suffix(u, k) = Suffix(text, i + k)
  BY SuffixOfSuffix
<1>6. SubSeq(u, Len(f) + 1, Len(u)) = Suffix(u, Len(f))
  BY DEF Suffix
<1> HIDE DEF r, u
<1>7. ASSUME i \in Hits(text, f, 0)
      PROVE  i + Len(f) \in 0 .. Len(text) /\ r[u] = s \o r[Suffix(text, i + Len(f))]
  <2>1. i + Len(f) \in 0 .. Len(text) /\ Len(f) \in 0 .. Len(text) - i
    BY <1>1, <1>2, <1>4, <1>7
  <2>2. r[u] = s \o r[SubSeq(u, Len(f) + 1, Len(u))]
    BY <1>3, <1>4, <1>7 DEF ReplaceStep
  <2> QED BY <1>5, <1>6, <2>1, <2>2
<1>8. ASSUME i \notin Hits(text, f, 0), i = Len(text)
      PROVE  r[u] = <<>>
  <2>1. Len(u) < Len(f) /\ Len(u) = 0
    BY <1>1, <1>2, <1>8
  <2>2. r[u] = u
    BY <1>3, <2>1 DEF ReplaceStep
  <2> QED BY <1>2, <2>1, <2>2, EmptySeq DEF Texts
<1>9. ASSUME i \notin Hits(text, f, 0), i < Len(text)
      PROVE  \/ Len(text) - i < Len(f) /\ r[u] = u
             \/ r[u] = <<text[i + 1]>> \o r[Suffix(text, i + 1)]
  <2>1. CASE Len(u) < Len(f)
    BY <1>2, <1>3, <2>1 DEF ReplaceStep
  <2>2. CASE ~(Len(u) < Len(f))
    <3>1. r[u] = <<Head(u)>> \o r[Tail(u)]
      BY <1>3, <1>4, <1>9, <2>2 DEF ReplaceStep
    <3>2. u # <<>> /\ 1 \in 1 .. Len(text) - i /\ 1 \in 0 .. Len(text) - i
      BY <1>1, <1>2, <1>9
    <3>3. Head(u) = text[i + 1]
      BY <1>2, <3>2
    <3>4. Tail(u) = Suffix(u, 1)
      <4>1. Tail(u) = SubSeq(u, 2, Len(u))
        BY <1>2, <3>2, TailIsSubSeq DEF Texts
      <4>2. 1 + 1 = 2
        OBVIOUS
      <4> QED BY <4>1, <4>2 DEF Suffix
    <3> QED BY <1>5, <3>1, <3>2, <3>3, <3>4
  <2> QED BY <2>1, <2>2
<1> QED BY <1>7, <1>8, <1>9 DEF r, u, Unrolled

\* A text splits into its characters up to an index, and the rest.
LEMMA SuffixHead ==
  ASSUME NEW text \in Texts, NEW i \in 0 .. Len(text), i < Len(text)
  PROVE  Suffix(text, i) = <<text[i + 1]>> \o Suffix(text, i + 1)
<1>1. Len(text) \in Nat /\ i + 1 \in 1 .. Len(text) /\ Len(text) \in i + 1 .. Len(text)
  BY DEF Texts
<1> QED BY <1>1, SubSeqRecursiveFirst DEF Suffix, Texts

\* Without an occurrence, replacing changes nothing.
LEMMA ReplacingNothing ==
  ASSUME NEW f \in Texts, f # <<>>, NEW s \in Texts, NEW text \in Texts,
         NEW from \in 0 .. Len(text), Hits(text, f, from) = {}
  PROVE  Replacing(f, s)[Suffix(text, from)] = Suffix(text, from)
<1> DEFINE r == Replacing(f, s)
           S == {k \in Nat : \A i \in from .. Len(text) : Len(text) - i = k =>
                               r[Suffix(text, i)] = Suffix(text, i)}
<1>1. Len(text) \in Nat /\ from \in Nat /\ from <= Len(text)
  BY DEF Texts
<1>2. ASSUME NEW i \in from .. Len(text)
      PROVE  i \notin Hits(text, f, 0) /\ i \in 0 .. Len(text)
  <2>1. i \in 0 .. Len(text) /\ from <= i /\ 0 <= i
    BY <1>1
  <2>2. i \in Hits(text, f, from) <=> i \in Hits(text, f, 0)
    BY <1>1, <2>1, HitIsPrefix
  <2> QED BY <2>1, <2>2
<1>3. 0 \in S
  <2> SUFFICES ASSUME NEW i \in from .. Len(text), Len(text) - i = 0
               PROVE  r[Suffix(text, i)] = Suffix(text, i)
    OBVIOUS
  <2>1. i = Len(text)
    BY <1>1
  <2>2. r[Suffix(text, i)] = <<>>
    <3>1. Unrolled(r, f, s, text, i)
      BY <1>2, ReplacingUnrolls
    <3> HIDE DEF r
    <3> QED BY <1>2, <2>1, <3>1 DEF Unrolled
  <2>3. Suffix(text, i) = <<>>
    BY <1>1, <2>1, SubSeqEmpty DEF Suffix
  <2> QED BY <2>2, <2>3
<1>4. ASSUME NEW k \in Nat, k \in S
      PROVE  k + 1 \in S
  <2> SUFFICES ASSUME NEW i \in from .. Len(text), Len(text) - i = k + 1
               PROVE  r[Suffix(text, i)] = Suffix(text, i)
    OBVIOUS
  <2>1. i < Len(text) /\ i + 1 \in from .. Len(text) /\ Len(text) - (i + 1) = k
    BY <1>1
  <2>2. r[Suffix(text, i + 1)] = Suffix(text, i + 1)
    BY <1>4, <2>1
  <2>3. \/ r[Suffix(text, i)] = Suffix(text, i)
        \/ r[Suffix(text, i)] = <<text[i + 1]>> \o r[Suffix(text, i + 1)]
    <3>1. Unrolled(r, f, s, text, i)
      BY <1>2, ReplacingUnrolls
    <3> HIDE DEF r
    <3> QED BY <1>2, <2>1, <3>1 DEF Unrolled
  <2>4. Suffix(text, i) = <<text[i + 1]>> \o Suffix(text, i + 1)
    BY <1>2, <2>1, SuffixHead
  <2> QED BY <2>2, <2>3, <2>4
<1> HIDE DEF S
<1>5. \A k \in Nat : k \in S
  BY <1>3, <1>4, SetInduction
<1>6. Len(text) - from \in S /\ from \in from .. Len(text)
  BY <1>1, <1>5
<1> QED BY <1>6 DEF S

\* The characters of a text from index i up to p.
Between(text, i, p) == SubSeq(text, i + 1, p)

\* Replacing keeps what is before the first occurrence, and goes on behind it.
LEMMA ReplacingFirst ==
  ASSUME NEW f \in Texts, f # <<>>, NEW s \in Texts, NEW text \in Texts,
         NEW from \in Nat, NEW p \in Hits(text, f, from),
         \A q \in Hits(text, f, from) : p <= q
  PROVE  Replacing(f, s)[Suffix(text, from)] =
           Between(text, from, p) \o (s \o Replacing(f, s)[Suffix(text, p + Len(f))])
<1> DEFINE r    == Replacing(f, s)
           rest == s \o r[Suffix(text, p + Len(f))]
           S    == {k \in Nat : \A i \in from .. p : p - i = k =>
                                  r[Suffix(text, i)] = Between(text, i, p) \o rest}
<1>1. Len(text) \in Nat /\ Len(f) \in Nat /\ Len(f) > 0
  BY EmptySeq DEF Texts
<1>2. p \in Nat /\ from <= p /\ p + Len(f) <= Len(text) /\ p \in from .. p /\ p + Len(f) \in 0 .. Len(text)
  BY <1>1 DEF Hits
<1>3. ASSUME NEW i \in from .. p
      PROVE  i \in 0 .. Len(text) /\ (i \in Hits(text, f, 0) <=> i = p)
  <2>1. i \in 0 .. Len(text) /\ from <= i /\ 0 <= i
    BY <1>1, <1>2
  <2>2. i \in Hits(text, f, from) <=> i \in Hits(text, f, 0)
    BY <1>1, <2>1, HitIsPrefix
  <2> QED BY <1>2, <2>1, <2>2
<1>4. r \in [Texts -> Texts]
  BY ReplacingIs
<1>5. rest \in Texts
  <2>1. Suffix(text, p + Len(f)) \in Texts
    BY <1>2, SuffixIs
  <2> QED BY <1>4, <2>1, ConcatProperties DEF Texts
<1> HIDE DEF r
<1>6. 0 \in S
  <2> SUFFICES ASSUME NEW i \in from .. p, p - i = 0
               PROVE  r[Suffix(text, i)] = Between(text, i, p) \o rest
    OBVIOUS
  <2>1. i = p
    BY <1>2
  <2>2. r[Suffix(text, p)] = rest
    <3>1. Unrolled(r, f, s, text, p) /\ p \in Hits(text, f, 0)
      BY <1>2, <1>3, ReplacingUnrolls DEF r
    <3> QED BY <3>1 DEF Unrolled
  <2>3. Between(text, p, p) = <<>>
    BY <1>2, SubSeqEmpty DEF Between
  <2> HIDE DEF rest
  <2>4. <<>> \o rest = rest
    BY <1>5, ConcatEmptySeq DEF Texts
  <2> QED BY <2>1, <2>2, <2>3, <2>4
<1>7. ASSUME NEW k \in Nat, k \in S
      PROVE  k + 1 \in S
  <2> SUFFICES ASSUME NEW i \in from .. p, p - i = k + 1
               PROVE  r[Suffix(text, i)] = Between(text, i, p) \o rest
    OBVIOUS
  <2>1. /\ i < Len(text) /\ i + 1 \in from .. p /\ p - (i + 1) = k /\ i # p /\ i < p
        /\ ~(Len(text) - i < Len(f))
    BY <1>1, <1>2
  <2>2. r[Suffix(text, i + 1)] = Between(text, i + 1, p) \o rest
    BY <1>7, <2>1
  <2>3. i \in 0 .. Len(text) /\ i \notin Hits(text, f, 0)
    BY <1>3, <2>1
  <2>4. r[Suffix(text, i)] = <<text[i + 1]>> \o r[Suffix(text, i + 1)]
    <3>1. Unrolled(r, f, s, text, i)
      BY <2>3, ReplacingUnrolls DEF r
    <3> QED BY <2>1, <2>3, <3>1 DEF Unrolled
  <2>5. Between(text, i, p) = <<text[i + 1]>> \o Between(text, i + 1, p)
    <3>1. i + 1 \in 1 .. Len(text) /\ p \in i + 1 .. Len(text)
      BY <1>1, <1>2, <2>1
    <3> QED BY <3>1, SubSeqRecursiveFirst DEF Between, Texts
  <2>6. <<text[i + 1]>> \in Texts /\ Between(text, i + 1, p) \in Texts
    <3>1. \A j \in (i + 1) + 1 .. p : text[j] \in Chars
      BY <1>1, <1>2, <2>1 DEF Texts
    <3>2. text[i + 1] \in Chars
      BY <1>1, <1>2, <2>1 DEF Texts
    <3>3. Between(text, i + 1, p) \in Texts
      BY <1>2, <2>1, <3>1, SubSeqProperties DEF Between, Texts
    <3> QED BY <3>2, <3>3 DEF Texts
  <2> HIDE DEF rest
  <2>7. (<<text[i + 1]>> \o Between(text, i + 1, p)) \o rest
        = <<text[i + 1]>> \o (Between(text, i + 1, p) \o rest)
    <3> DEFINE a == <<text[i + 1]>>
               b == Between(text, i + 1, p)
    <3>1. a \in Seq(Chars) /\ b \in Seq(Chars) /\ rest \in Seq(Chars)
      BY <1>5, <2>6 DEF Texts
    <3> HIDE DEF a, b
    <3>2. (a \o b) \o rest = a \o (b \o rest)
      BY <3>1, ConcatAssociative
    <3> QED BY <3>2 DEF a, b
  <2> QED BY <2>2, <2>4, <2>5, <2>7
<1> HIDE DEF S, rest
<1>8. \A k \in Nat : k \in S
  BY <1>6, <1>7, SetInduction
<1>9. p - from \in S /\ from \in from .. p
  BY <1>2, <1>8
<1> QED BY <1>9 DEF S, rest, r

-----------------------------------------------------------------------------
(* The inductive invariant. *)

\* Nothing but a misused replacement leaves a character that nobody wrote.
IsClean == fault = "none" => Clean(str)

\* What replace may still make of the string is no longer than what it may make
\* of the longest it is called with; it does not search what it cannot find.
ReplaceIsBounded ==
  pc = "replace" =>
    /\ str.size <= MaxLen \/ Len(find) <= MaxLen
    /\ find # <<>> => str.size + MaxView * (str.size - start) <= MaxLen + MaxLen * MaxView

\* Split has looked at the string up to `last`, and its search up to `found`.
IsFree(from, to) == \A j \in from + 1 .. to : Text[j] \notin delims
SplitIsOn ==
  /\ pc \notin {"seek", "cut"} => delims = {}
  /\ pc = "cut" =>
       IF found = -1 THEN IsFree(last, str.size) ELSE last <= found /\ IsFree(last, found)

\* The pieces follow each other up to where split is, and hold no delimiter.
PiecesFollow ==
  /\ pieces \in Seq(Nat \X Nat)
  /\ \A k \in 1 .. Len(pieces) :
       /\ pieces[k][1] = IF k = 1 THEN 0 ELSE End(pieces[k - 1])
       /\ IsFree(pieces[k][1] + 1, End(pieces[k]))
  /\ pc \in {"seek", "cut"} /\ Len(pieces) < MaxPieces =>
       last = IF pieces = <<>> THEN 0 ELSE End(pieces[Len(pieces)])
  /\ pc \in {"idle", "replace"} /\ 0 < Len(pieces) /\ Len(pieces) < MaxPieces =>
       End(pieces[Len(pieces)]) = str.size

\* What is left to replace makes the rest of what replace has to end with.
GoalIsAhead ==
  pc = "replace" /\ fault = "none" /\ find # <<>> =>
    goal = Done(start) \o Replacing(find, with)[Rest(start)]

IInv == TypeOK /\ IsClean /\ ReplaceIsBounded /\ SplitIsOn /\ PiecesFollow /\ GoalIsAhead

-----------------------------------------------------------------------------
(* The calls that make or change the string at once. *)

Faults == {"none", "null copy", "use after free", "overflow", "unwritten", "overlap"}

\* What a step may do of the properties that speak of steps.
EndsInZeroOrSpare ==
  str' # str /\ ~A!IsNull(str') /\ ~zero' =>
    /\ str'.size < str'.cap
    /\ \/ CodepointsToString(<<>>, 0)
       \/ \E args \in Args : ConcatenateN(args)

MisusesNarrowly ==
  fault' # fault =>
    \/ fault' = "use after free" /\ ConcatenateInplace(Text, TRUE)
    \/ fault' = "null copy"
    \/ /\ fault' \in {"overflow", "unwritten"}
       /\ \E s \in Views, len \in Indexes :
            /\ \/ ReplaceNext /\ s = with /\ len = Len(find)
               \/ \E from \in Indexes : ReplaceRange(s, from, len)
            /\ Len(s) > len /\ Len(s) # 2 * len
    \/ \E n \in 1 .. MaxView, at, from, len \in Indexes :
         /\ ReplaceOwn(at, n, from, len)
         /\ \/ fault' = "use after free" /\ n > len
            \/ fault' = "overlap" /\ at \in from - n + 1 .. from + n - 1

\* What every step does.
StepIsRight == IInv' /\ EndsInZeroOrSpare /\ MisusesNarrowly

LEMMA CallKeeps ==
  ASSUME IInv, Ready, NEW b, NEW t \in BOOLEAN, Becomes(b, t), Good(b),
         fault' \in Faults, fault' = "none" => Clean(b)
  PROVE  IInv'
<1>1. pc = "idle" /\ pc' = "idle" /\ delims = {} /\ delims' = {} /\ pieces' = <<>> /\ str' = b
  BY DEF IInv, Ready, Becomes, Searching, SplitIsOn
<1>2. TypeOK'
  BY <1>1 DEF IInv, TypeOK, Becomes, Searching, replacing, Good, Faults
<1>3. IsClean'
  BY <1>1 DEF IsClean, Clean, Good
<1>4. ReplaceIsBounded' /\ SplitIsOn' /\ GoalIsAhead'
  BY <1>1 DEF ReplaceIsBounded, SplitIsOn, GoalIsAhead
<1>5. PiecesFollow'
  <2>1. <<>> \in Seq(Nat \X Nat) /\ Len(<<>>) = 0
    OBVIOUS
  <2> QED BY <1>1, <2>1 DEF PiecesFollow
<1> QED BY <1>2, <1>3, <1>4, <1>5 DEF IInv

LEMMA ReadyIsClean == IInv /\ Ready => Clean(str) /\ Good(str) /\ str.size \in Nat /\ zero \in BOOLEAN
BY GoodBlock DEF IInv, Ready, IsClean, Clean, TypeOK

LEMMA MakeDynamicStep ==
  ASSUME IInv, NEW view \in Views, MakeDynamic(view)
  PROVE  StepIsRight
<1> DEFINE b == Resumed(A!Null, view)
<1>1. Clean(b) /\ (b = A!Null \/ EndsInZero(b))
  BY NullIsClean, ResumedIsClean, ViewsAre
<1>2. Ready /\ Becomes(b, EndsInZero(b)) /\ fault' = fault /\ fault = "none"
  BY DEF MakeDynamic, Makes, Ready
<1> HIDE DEF b
<1>3. IInv'
  BY <1>1, <1>2, CallKeeps DEF Clean, EndsInZero, Faults
<1>4. EndsInZeroOrSpare
  BY <1>1, <1>2, NullBlock DEF EndsInZeroOrSpare, Becomes
<1> QED BY <1>2, <1>3, <1>4 DEF StepIsRight, MisusesNarrowly

LEMMA ConcatenateStep ==
  ASSUME IInv, NEW a \in Views, NEW b \in Views, Concatenate(a, b)
  PROVE  StepIsRight
<1> DEFINE ab == Resumed(A!Null, a \o b)
<1>1. Clean(ab) /\ (ab = A!Null \/ EndsInZero(ab))
  <2>1. a \o b \in Seq(Chars)
    BY ViewsAre, ConcatProperties
  <2> QED BY <2>1, NullIsClean, ResumedIsClean
<1>2. Ready /\ Becomes(ab, EndsInZero(ab)) /\ fault' \in {"none", "null copy"} /\ fault = "none"
  BY DEF Concatenate, Makes, Ready, NullCopies
<1> HIDE DEF ab
<1>3. IInv'
  BY <1>1, <1>2, CallKeeps DEF Clean, EndsInZero, Faults
<1>4. EndsInZeroOrSpare
  BY <1>1, <1>2, NullBlock DEF EndsInZeroOrSpare, Becomes
<1> QED BY <1>2, <1>3, <1>4 DEF StepIsRight, MisusesNarrowly

LEMMA ConcatenateNStep ==
  ASSUME IInv, NEW args \in Args, ConcatenateN(args)
  PROVE  StepIsRight
<1> DEFINE n == Len(args) - 1
           b == Folded(Extended, A!Null, args, n)
<1>1. n \in Nat /\ (\A k \in 1 .. n : args[k] \in Views) /\ n * MaxView <= Longest
  <2>1. PICK k \in 1 .. MaxArgs : args \in [1 .. k -> Views]
    BY DEF Args
  <2>2. k \in Nat /\ k >= 1 /\ k <= MaxArgs
    BY <2>1, BoundsType
  <2>3. args \in Seq(Views) /\ Len(args) = k
    <3>1. args \in Seq(Views)
      BY <2>1, <2>2, SeqDef
    <3>2. DOMAIN args = 1 .. Len(args) /\ Len(args) \in Nat
      BY <3>1
    <3>3. 1 .. Len(args) = 1 .. k
      BY <2>1, <3>2
    <3>4. \A p, q \in Nat : 1 .. p = 1 .. q => p = q
      OBVIOUS
    <3> QED BY <2>2, <3>1, <3>2, <3>3, <3>4
  <2>4. n \in Nat /\ n <= MaxArgs /\ \A j \in 1 .. n : j \in 1 .. k
    BY <2>2, <2>3, BoundsType
  <2>5. n * MaxView <= Longest
    <3> HIDE DEF n
    <3>1. MaxArgs * MaxView = n * MaxView + (MaxArgs - n) * MaxView
      BY <2>4, BoundsType
    <3>2. n * MaxView \in Nat /\ (MaxArgs - n) * MaxView \in Nat /\ MaxArgs * MaxView \in Nat
      BY <2>4, BoundsType
    <3> QED BY <3>1, <3>2, BoundsType
  <2> QED BY <2>1, <2>3, <2>4, <2>5
<1>2. Ready /\ Becomes(b, EndsInZero(b)) /\ fault' \in {"none", "null copy"} /\ fault = "none"
  BY DEF ConcatenateN, Makes, Ready, NullCopies
<1> HIDE DEF n
<1>3. Clean(b) /\ (A!IsNull(b) \/ 1 <= b.cap)
  BY <1>1, ExtendedManyIsClean
<1> HIDE DEF b
<1>4. IInv'
  BY <1>2, <1>3, CallKeeps DEF Clean, EndsInZero, Faults
<1>5. b.size \in Nat /\ b.cap \in Nat /\ b.size <= b.cap
  BY <1>3, GoodBlock DEF Clean
<1>6. ~A!IsNull(b) /\ ~EndsInZero(b) => b.size < b.cap
  BY <1>3, <1>5 DEF EndsInZero
<1>7. EndsInZeroOrSpare
  BY <1>2, <1>6 DEF EndsInZeroOrSpare, Becomes
<1> QED BY <1>2, <1>4, <1>7 DEF StepIsRight, MisusesNarrowly

LEMMA VFormatStep ==
  ASSUME IInv, NEW text \in Views, VFormat(text)
  PROVE  StepIsRight
<1> DEFINE r == Resized(A!Null, Len(text))
           b == Written(r, 0, text)
<1>1. text \in Seq(Chars) /\ Len(text) \in Nat
  BY ViewsAre
<1>2. Good(r) /\ r.size = Len(text)
  BY <1>1, NullBlock, ResizedKeeps
<1> HIDE DEF r
<1>3. Clean(b)
  <2> DEFINE at == 0
  <2>1. at \in Nat /\ at + Len(text) = r.size /\ \A j \in 0 .. at - 1 : r.data[j] \in Chars
    BY <1>1, <1>2
  <2> HIDE DEF at
  <2>2. Clean(Written(r, at, text))
    BY <1>1, <1>2, <2>1, WrittenIsClean
  <2> QED BY <2>2 DEF at, b
<1>4. Ready /\ Becomes(b, TRUE) /\ fault' \in {"none", "null copy"} /\ fault = "none"
  BY DEF VFormat, Makes, Ready, NullCopies, r
<1> HIDE DEF b
<1>5. IInv'
  BY <1>3, <1>4, CallKeeps DEF Clean, Faults
<1> QED BY <1>4, <1>5 DEF StepIsRight, MisusesNarrowly, EndsInZeroOrSpare, Becomes

LEMMA CodepointsToStringStep ==
  ASSUME IInv, NEW text \in Views, NEW points \in 0 .. MaxView,
         points <= Len(text), CodepointsToString(text, points)
  PROVE  StepIsRight
<1> DEFINE o == A!MaybeGrow(A!Null, points, FALSE, TRUE)
           b == Folded(Pushed, o, text, Len(text))
<1>1. text \in Seq(Chars) /\ Len(text) \in Nat /\ Len(text) <= MaxView /\ points \in Nat
  BY ViewsAre, BoundsType
<1>2. Clean(o) /\ o.size = 0 /\ (points = 0 => o.cap = 1)
  <2>1. Good(o)
    <3>1. points \in 0 .. Longest
      BY <1>1, BoundsType
    <3> QED BY <3>1, NullBlock, MaybeGrowIsGood
  <2>2. o = A!Allocated(A!Larger(1, points))
    <3>1. A!Opened(A!Null, points, TRUE) = A!Allocated(A!Larger(1, points))
      BY NullBlock DEF A!Opened
    <3>2. A!Allocated(A!Larger(1, points)).cap = A!Larger(1, points)
      BY DEF A!Allocated, A!Block
    <3>3. A!Larger(1, points) >= points
      BY <1>1 DEF A!Larger
    <3> QED BY <3>1, <3>2, <3>3 DEF A!MaybeGrow
  <2> HIDE DEF o
  <2>3. o.size = 0 /\ o.cap = A!Larger(1, points)
    BY <2>2 DEF A!Allocated, A!Block
  <2> QED BY <2>1, <2>3 DEF Clean, A!Larger
<1>3. Ready /\ Becomes(b, text # <<>>) /\ fault' = fault /\ fault = "none"
  BY DEF CodepointsToString, Makes, Ready
<1>4. text = <<>> => b = o
  <2> SUFFICES ASSUME text = <<>> PROVE b = o
    OBVIOUS
  <2>1. Len(text) = 0
    OBVIOUS
  <2> HIDE DEF o
  <2>2. PICK r : IsLoop(r, "push", o, text, 0) /\ Folded(Pushed, o, text, 0) = r[0]
    BY PushedLoop
  <2>3. r[0] = o
    BY <2>2, LoopSteps
  <2> QED BY <2>1, <2>2, <2>3
<1> HIDE DEF o
<1>5. Clean(b)
  <2>1. \A k \in 1 .. Len(text) : text[k] \in Chars
    BY <1>1
  <2>2. o.size + Len(text) <= Longest
    BY <1>1, <1>2, BoundsType
  <2> QED BY <1>1, <1>2, <2>1, <2>2, PushedManyIsClean
<1> HIDE DEF b
<1>6. IInv'
  BY <1>3, <1>5, CallKeeps DEF Clean, Faults
<1>7. EndsInZeroOrSpare
  <2> SUFFICES ASSUME ~zero' PROVE str'.size < str'.cap /\ CodepointsToString(<<>>, 0)
    BY DEF EndsInZeroOrSpare
  <2>1. text = <<>>
    BY <1>3 DEF Becomes
  <2>2. points = 0
    BY <1>1, <2>1
  <2> QED BY <1>2, <1>3, <1>4, <2>1, <2>2 DEF Becomes
<1> QED BY <1>3, <1>6, <1>7 DEF StepIsRight, MisusesNarrowly

LEMMA ConcatenateInplaceStep ==
  ASSUME IInv, NEW b \in Seq(Chars), NEW own \in BOOLEAN, own => b = Text,
         ConcatenateInplace(b, own), str' # str \/ fault' # fault \/ zero' # zero
  PROVE  StepIsRight
<1> DEFINE new == Resumed(str, b)
<1>1. Ready /\ Clean(str) /\ fault = "none"
  BY ReadyIsClean DEF ConcatenateInplace, Ready
<1>2. Becomes(new, EndsInZero(new))
  BY DEF ConcatenateInplace, vars
<1>3. fault' = "none" \/ fault' = "null copy" \/ (own /\ fault' = "use after free")
  BY DEF ConcatenateInplace, vars, NullCopies
<1>4. Clean(new) /\ (new = str \/ EndsInZero(new))
  BY <1>1, ResumedIsClean
<1> HIDE DEF new
<1>5. IInv'
  BY <1>1, <1>2, <1>3, <1>4, CallKeeps DEF Clean, EndsInZero, Faults
<1>6. EndsInZeroOrSpare
  BY <1>2, <1>4 DEF EndsInZeroOrSpare, Becomes
<1>7. own => ConcatenateInplace(Text, TRUE)
  OBVIOUS
<1>8. MisusesNarrowly
  BY <1>1, <1>3, <1>7 DEF MisusesNarrowly
<1> QED BY <1>5, <1>6, <1>8 DEF StepIsRight

LEMMA AppendCharStep ==
  ASSUME IInv, NEW c \in Chars, AppendChar(c)
  PROVE  StepIsRight
<1> DEFINE b == Pushed(str, c)
<1>1. Ready /\ Clean(str) /\ str.size \in Nat /\ str.size < MaxLen
  BY ReadyIsClean DEF AppendChar
<1>2. Clean(b)
  BY <1>1, PushedIsClean, BoundsType
<1>3. Becomes(b, TRUE) /\ fault' = fault /\ fault = "none"
  BY DEF AppendChar, Ready
<1> HIDE DEF b
<1>4. IInv'
  BY <1>1, <1>2, <1>3, CallKeeps DEF Clean, Faults
<1> QED BY <1>3, <1>4 DEF StepIsRight, MisusesNarrowly, EndsInZeroOrSpare, Becomes

LEMMA ReplicateStep ==
  ASSUME IInv, NEW times \in 0 .. MaxArgs, Replicate(times)
  PROVE  StepIsRight
<1> DEFINE copies == [k \in 1 .. times - 1 |-> Text]
           b == IF times = 0 THEN A!Null ELSE Folded(Resumed, str, copies, times - 1)
<1>1. Ready /\ Clean(str) /\ fault = "none" /\ fault' = fault /\ times \in Nat /\ zero \in BOOLEAN
  BY ReadyIsClean, BoundsType DEF Replicate, Ready
<1>2. Becomes(b, IF b = str THEN zero ELSE EndsInZero(b))
  BY DEF Replicate
<1>3. Clean(b) /\ (A!IsNull(b) \/ b = str \/ EndsInZero(b))
  <2>1. CASE times = 0
    BY <2>1, NullIsClean, NullBlock
  <2>2. CASE times # 0
    <3>1. times - 1 \in Nat /\ Text \in Seq(Chars)
      BY <1>1, <2>2, TextOfStr, CleanText
    <3>2. \A k \in 1 .. times - 1 : copies[k] \in Seq(Chars)
      BY <3>1
    <3> HIDE DEF copies
    <3>3. LET r == Folded(Resumed, str, copies, times - 1) IN Clean(r) /\ (r = str \/ EndsInZero(r))
      BY <1>1, <3>1, <3>2, ResumedManyIsClean
    <3> QED BY <2>2, <3>3
  <2> QED BY <2>1, <2>2
<1> HIDE DEF b
<1>4. (IF b = str THEN zero ELSE EndsInZero(b)) \in BOOLEAN
  BY <1>1 DEF EndsInZero
<1>5. IInv'
  BY <1>1, <1>2, <1>3, <1>4, CallKeeps DEF Clean, Faults
<1>6. EndsInZeroOrSpare
  BY <1>2, <1>3 DEF EndsInZeroOrSpare, Becomes
<1> QED BY <1>1, <1>5, <1>6 DEF StepIsRight, MisusesNarrowly

LEMMA FreeStep ==
  ASSUME IInv, Free
  PROVE  StepIsRight
<1>1. Ready /\ Becomes(A!Null, FALSE) /\ fault' = fault /\ fault = "none"
  BY DEF Free, Ready
<1>2. IInv'
  BY <1>1, NullIsClean, CallKeeps DEF Clean, Faults
<1> QED BY <1>1, <1>2, NullBlock DEF StepIsRight, MisusesNarrowly, EndsInZeroOrSpare, Becomes

LEMMA InvalidCodepointsStep ==
  ASSUME IInv, InvalidCodepoints
  PROVE  StepIsRight
<1>1. Ready /\ Becomes(A!Null, FALSE) /\ fault' = fault /\ fault = "none"
  BY DEF InvalidCodepoints, Makes, Ready
<1>2. IInv'
  BY <1>1, NullIsClean, CallKeeps DEF Clean, Faults
<1> QED BY <1>1, <1>2, NullBlock DEF StepIsRight, MisusesNarrowly, EndsInZeroOrSpare, Becomes

-----------------------------------------------------------------------------
(* The calls that replace. *)

\* What is in front of an index and what is behind it.
LEMMA ConcatParts ==
  ASSUME NEW s \in Texts, NEW t \in Texts
  PROVE  SubSeq(s \o t, 1, Len(s)) = s /\ Suffix(s \o t, Len(s)) = t
<1> DEFINE st == s \o t
<1>1. s \in Seq(Chars) /\ t \in Seq(Chars) /\ Len(s) \in Nat /\ Len(t) \in Nat
  BY DEF Texts
<1>2. /\ st \in Seq(Chars) /\ Len(st) = Len(s) + Len(t)
      /\ \A i \in 1 .. Len(s) + Len(t) : st[i] = IF i <= Len(s) THEN s[i] ELSE t[i - Len(s)]
  BY <1>1, ConcatProperties
<1> HIDE DEF st
<1>3. /\ \A i \in 1 .. Len(s) : st[i] = s[i] /\ st[i] \in Chars
      /\ \A i \in 1 .. Len(t) : st[Len(s) + i] = t[i]
  BY <1>1, <1>2
<1>4. SubSeq(st, 1, Len(s)) = s
  <2>1. /\ SubSeq(st, 1, Len(s)) \in Seq(Chars) /\ Len(SubSeq(st, 1, Len(s))) = Len(s)
        /\ \A i \in 1 .. Len(s) : SubSeq(st, 1, Len(s))[i] = st[i]
    BY <1>1, <1>3, SubSeqProperties
  <2> QED BY <1>1, <1>3, <2>1, SeqEqual
<1>5. Suffix(st, Len(s)) = t
  <2>1. /\ Suffix(st, Len(s)) \in Seq(Chars) /\ Len(Suffix(st, Len(s))) = Len(t)
        /\ \A i \in 1 .. Len(t) : Suffix(st, Len(s))[i] = st[Len(s) + i]
    <3>1. st \in Texts /\ Len(s) \in 0 .. Len(st) /\ Len(st) - Len(s) = Len(t)
      BY <1>1, <1>2 DEF Texts
    <3> QED BY <3>1, SuffixIs DEF Texts
  <2> QED BY <1>1, <1>3, <2>1, SeqEqual
<1> QED BY <1>4, <1>5 DEF st

LEMMA DoneIs ==
  ASSUME NEW text \in Texts, NEW i \in 0 .. Len(text)
  PROVE  /\ SubSeq(text, 1, i) \in Texts /\ Len(SubSeq(text, 1, i)) = i
         /\ SubSeq(text, 1, i) \o Suffix(text, i) = text
         /\ \A p \in i .. Len(text) :
              Between(text, i, p) \in Texts
              /\ SubSeq(text, 1, i) \o Between(text, i, p) = SubSeq(text, 1, p)
<1>1. text \in Seq(Chars) /\ Len(text) \in Nat /\ i \in Nat /\ i <= Len(text)
  BY DEF Texts
<1>2. SubSeq(text, 1, i) \in Texts /\ Len(SubSeq(text, 1, i)) = i
  <2>1. \A j \in 1 .. i : text[j] \in Chars
    BY <1>1
  <2> QED BY <1>1, <2>1, SubSeqProperties DEF Texts
<1>3. ASSUME NEW p \in i .. Len(text)
      PROVE  /\ Between(text, i, p) \in Texts
             /\ SubSeq(text, 1, i) \o Between(text, i, p) = SubSeq(text, 1, p)
  <2>1. \A j \in i + 1 .. p : text[j] \in Chars
    BY <1>1
  <2>2. Between(text, i, p) \in Texts
    BY <1>1, <2>1, SubSeqProperties DEF Between, Texts
  <2>3. 1 \in 1 .. Len(text) + 1 /\ i \in 1 - 1 .. Len(text)
    BY <1>1
  <2> QED BY <1>1, <2>2, <2>3, ConcatAdjacentSubSeq DEF Between
<1>4. SubSeq(text, 1, i) \o Suffix(text, i) = text
  <2>1. Len(text) \in i .. Len(text)
    BY <1>1
  <2> QED BY <1>1, <1>3, <2>1, SubSeqFull DEF Between, Suffix
<1> QED BY <1>2, <1>3, <1>4

\* An iteration of replace leaves what it has to end with.
IsFirst(text, f, from, p)  == p \in Hits(text, f, from) /\ \A q \in Hits(text, f, from) : p <= q
Swapped(text, f, s, p)     == SubSeq(text, 1, p) \o s \o Suffix(text, p + Len(f))
Ahead(f, s, text, from)    == SubSeq(text, 1, from) \o Replacing(f, s)[Suffix(text, from)]

LEMMA GoalStays ==
  ASSUME NEW f \in Texts, f # <<>>, NEW s \in Texts, NEW text \in Texts,
         NEW from \in Nat, NEW p, IsFirst(text, f, from, p),
         NEW new, new = Swapped(text, f, s, p)
  PROVE  Ahead(f, s, text, from) = Ahead(f, s, new, p + Len(s))
<1> DEFINE r    == Replacing(f, s)
           done == SubSeq(text, 1, from)
           mid  == Between(text, from, p)
           rest == Suffix(text, p + Len(f))
           at   == SubSeq(text, 1, p)
<1>1. Len(text) \in Nat /\ Len(f) \in Nat /\ Len(f) > 0 /\ Len(s) \in Nat
  BY EmptySeq DEF Texts
<1>2. p \in Nat /\ from <= p /\ p + Len(f) <= Len(text)
  BY <1>1 DEF Hits, IsFirst
<1>3. /\ from \in 0 .. Len(text) /\ p \in 0 .. Len(text) /\ p \in from .. Len(text)
      /\ p + Len(f) \in 0 .. Len(text)
  BY <1>1, <1>2
<1>4. /\ done \in Texts /\ mid \in Texts /\ at \in Texts /\ Len(at) = p /\ rest \in Texts
      /\ done \o mid = at
  BY <1>3, DoneIs, SuffixIs
<1>5. r \in [Texts -> Texts]
  BY ReplacingIs
<1>6. r[Suffix(text, from)] = mid \o (s \o r[rest])
  BY ReplacingFirst DEF IsFirst
<1> HIDE DEF r, done, mid, rest, at
<1>7. r[rest] \in Texts
  BY <1>4, <1>5
<1>8. new = (at \o s) \o rest
  BY DEF at, rest, Swapped
<1>9. at \o s \in Texts /\ Len(at \o s) = p + Len(s)
  <2>1. at \in Seq(Chars) /\ s \in Seq(Chars)
    BY <1>4 DEF Texts
  <2> QED BY <1>4, <2>1, ConcatProperties DEF Texts
<1>10. SubSeq(new, 1, p + Len(s)) = at \o s /\ Suffix(new, p + Len(s)) = rest
  <2> DEFINE as == at \o s
  <2>1. as \in Texts /\ Len(as) = p + Len(s) /\ new = as \o rest
    BY <1>8, <1>9
  <2> HIDE DEF as
  <2>2. SubSeq(as \o rest, 1, Len(as)) = as /\ Suffix(as \o rest, Len(as)) = rest
    BY <1>4, <2>1, ConcatParts
  <2> QED BY <2>1, <2>2 DEF as
<1>11. done \o (mid \o (s \o r[rest])) = (at \o s) \o r[rest]
  <2> DEFINE t == r[rest]
  <2>1. t \in Texts
    BY <1>7
  <2> HIDE DEF t
  <2>2. done \o (mid \o (s \o t)) = ((done \o mid) \o s) \o t
    <3>1. done \in Seq(Chars) /\ mid \in Seq(Chars) /\ s \in Seq(Chars) /\ t \in Seq(Chars)
      BY <1>4, <2>1 DEF Texts
    <3> QED BY ONLY <3>1
  <2> QED BY <1>4, <2>2 DEF t
<1>12. done \o r[Suffix(text, from)] = SubSeq(new, 1, p + Len(s)) \o r[Suffix(new, p + Len(s))]
  BY <1>6, <1>10, <1>11
<1> QED BY <1>12 DEF r, done, Ahead

\* What replacing a range does, in the steps that do it.
Substituted(s, from, len) ==
  /\ Good(str') /\ str'.size = NewSize(s, len) /\ zero' = TRUE /\ pieces' = <<>>
  /\ fault' \in Faults
  /\ fault' = "none" => Clean(str') /\ TextOf(str') = Done(from) \o s \o Rest(from + len)
  /\ fault' # fault =>
       \/ fault' = "null copy"
       \/ fault' \in {"overflow", "unwritten"} /\ Len(s) > len /\ Len(s) # 2 * len

LEMMA SubstitutesIs ==
  ASSUME Clean(str), fault = "none", NEW s, NEW from, NEW len,
         IsRange(s, from, len), Substitutes(s, from, len)
  PROVE  Substituted(s, from, len)
<1> DEFINE b == Replaced(s, from, len)
<1>1. str' = b /\ zero' = TRUE /\ pieces' = <<>> /\ fault' \in ReplaceFaults(s, from, len)
  BY DEF Substitutes
<1>2. /\ Good(b) /\ b.size = NewSize(s, len)
      /\ fault' \in {"none", "null copy", "overflow", "unwritten"}
      /\ fault' = "none" => Clean(b) /\ b.data = Spliced(s, from, len)
      /\ fault' \in {"overflow", "unwritten"} => Len(s) > len /\ Len(s) # 2 * len
  BY <1>1, SubstituteIs
<1> HIDE DEF b
<1>3. fault' = "none" => TextOf(b) = Done(from) \o s \o Rest(from + len)
  BY <1>2, SplicedText
<1> QED BY <1>1, <1>2, <1>3 DEF Faults, Substituted

LEMMA ReplaceRangeStep ==
  ASSUME IInv, NEW s \in Views, NEW from \in Nat, NEW len \in Nat, ReplaceRange(s, from, len)
  PROVE  StepIsRight
<1>1. Ready /\ Clean(str) /\ Good(str) /\ str.size \in Nat /\ fault = "none"
  BY ReadyIsClean DEF ReplaceRange, Ready
<1>2. s \in Seq(Chars) /\ Len(s) \in Nat
  BY ViewsAre
<1>3. /\ str.size + Len(s) - len <= MaxLen /\ Substitutes(s, from, len)
      /\ UNCHANGED <<pc, Searching>> /\ from + len <= str.size
  BY DEF ReplaceRange, Substitutes
<1>4. IsRange(s, from, len)
  BY <1>1, <1>2, <1>3, BoundsType DEF IsRange, NewSize
<1>5. /\ Good(str') /\ str'.size = NewSize(s, len) /\ zero' = TRUE /\ pieces' = <<>>
      /\ fault' \in Faults
      /\ fault' = "none" => Clean(str')
      /\ fault' # fault =>
           \/ fault' = "null copy"
           \/ fault' \in {"overflow", "unwritten"} /\ Len(s) > len /\ Len(s) # 2 * len
  BY <1>1, <1>3, <1>4, SubstitutesIs DEF Substituted
<1>6. IInv'
  <2>1. Becomes(str', TRUE)
    BY <1>3, <1>5 DEF Becomes
  <2> QED BY <1>1, <1>5, <2>1, CallKeeps
<1>7. MisusesNarrowly
  <2> SUFFICES ASSUME fault' \in {"overflow", "unwritten"}, Len(s) > len, Len(s) # 2 * len
               PROVE  \E s1 \in Views, l1 \in Indexes :
                        /\ \E f1 \in Indexes : ReplaceRange(s1, f1, l1)
                        /\ Len(s1) > l1 /\ Len(s1) # 2 * l1
    BY <1>5 DEF MisusesNarrowly
  <2>1. from \in Indexes /\ len \in Indexes
    BY <1>1, <1>2, <1>3, BoundsType DEF Indexes
  <2> QED BY <2>1
<1> QED BY <1>5, <1>6, <1>7 DEF StepIsRight, EndsInZeroOrSpare

\* What is copied of the string itself are characters of it.
LEMMA OwnReadIs ==
  ASSUME Clean(str), NEW at \in Nat, NEW n \in Nat, NEW from \in Nat, NEW len \in Nat,
         at + n <= str.size, from + len <= str.size
  PROVE  OwnRead(at, n, from, len) \in Seq(Chars) /\ Len(OwnRead(at, n, from, len)) = n
<1> DEFINE view     == SubSeq(Text, at + 1, at + n)
           bytes    == MovedBytes(view, from, len)
           moved(j) == n > len /\ j \in from + n .. from + n + bytes - 1
           read(j)  == str.data[IF moved(j) THEN j - (n - len) ELSE j]
           r        == OwnRead(at, n, from, len)
<1>1. str.size \in Nat /\ \A j \in 0 .. str.size - 1 : str.data[j] \in Chars
  BY GoodBlock DEF Clean
<1>2. Len(view) = n
  <2>1. Text \in Seq(Chars) /\ Len(Text) = str.size
    BY CleanText, TextOfStr
  <2> HIDE DEF Text
  <2> QED BY <1>1, <2>1
<1>3. bytes = str.size - from - (n - len)
  BY <1>2 DEF MovedBytes
<1> HIDE DEF view, bytes
<1>4. ASSUME NEW k \in 1 .. n
      PROVE  read(at + k - 1) \in Chars
  <2>1. at + k - 1 \in 0 .. str.size - 1
    BY <1>1
  <2>2. moved(at + k - 1) => (at + k - 1) - (n - len) \in 0 .. str.size - 1
    BY <1>1, <1>3, <2>1
  <2> QED BY <1>1, <2>1, <2>2
<1> HIDE DEF read, moved
<1>5. r = [k \in 1 .. n |-> read(at + k - 1)]
  BY DEF OwnRead, read, moved, bytes, view
<1> HIDE DEF r
<1> QED BY <1>4, <1>5 DEF r

LEMMA ReplaceOwnStep ==
  ASSUME IInv, NEW n \in 1 .. MaxView, NEW at \in Indexes, NEW from \in Indexes,
         NEW len \in Indexes, ReplaceOwn(at, n, from, len)
  PROVE  StepIsRight
<1>1. Ready /\ fault = "none" /\ Clean(str) /\ Good(str) /\ zero \in BOOLEAN
  BY ReadyIsClean DEF ReplaceOwn, Ready
<1>2. /\ n \in Nat /\ at \in Nat /\ from \in Nat /\ len \in Nat
      /\ n <= MaxView /\ MaxView \in Nat
  BY BoundsType DEF Indexes
<1>3. CASE OwnFault(at, n, from, len) # "none"
  <2>1. /\ Becomes(str, zero) /\ fault' = OwnFault(at, n, from, len)
        /\ fault' \in {"use after free", "overlap"}
    BY <1>3 DEF ReplaceOwn, OwnFault
  <2>2. IInv'
    BY <1>1, <2>1, CallKeeps DEF Faults
  <2>3. \/ fault' = "use after free" /\ n > len
        \/ fault' = "overlap" /\ at \in from - n + 1 .. from + n - 1
    <3>1. \/ fault' = "use after free" /\ n > len
          \/ fault' = "overlap" /\ at < from + n /\ from < at + n
      BY <2>1 DEF OwnFault
    <3>2. at < from + n /\ from < at + n => at \in from - n + 1 .. from + n - 1
      BY <1>2
    <3> QED BY <3>1, <3>2
  <2>4. MisusesNarrowly
    BY <2>3 DEF MisusesNarrowly
  <2> QED BY <2>1, <2>2, <2>4 DEF StepIsRight, EndsInZeroOrSpare, Becomes
<1>4. CASE OwnFault(at, n, from, len) = "none"
  <2> DEFINE s == OwnRead(at, n, from, len)
  <2>1. ReplaceRange(s, from, len)
    BY <1>4 DEF ReplaceOwn
  <2>2. at + n <= str.size /\ from + len <= str.size
    BY DEF ReplaceOwn
  <2>3. s \in Seq(Chars) /\ Len(s) = n
    BY <1>1, <1>2, <2>2, OwnReadIs
  <2> HIDE DEF s
  <2>4. s \in Views
    BY <1>2, <2>3, ViewsAre
  <2> QED BY <1>2, <2>1, <2>4, ReplaceRangeStep
<1> QED BY <1>3, <1>4

LEMMA ReplaceFirstStep ==
  ASSUME IInv, NEW f \in Views, NEW s \in Views, NEW from \in Nat, ReplaceFirst(f, s, from),
         Find(Text, f, from) # -1
  PROVE  StepIsRight
<1> DEFINE p == Find(Text, f, from)
<1>1. ReplaceRange(s, p, Len(f))
  BY DEF ReplaceFirst
<1>2. f \in Seq(Chars) /\ Len(f) \in Nat
  BY ViewsAre
<1>3. p \in Nat
  <2>1. Clean(str)
    BY <1>1, ReadyIsClean DEF ReplaceRange
  <2>2. Text \in Seq(Chars)
    BY <2>1, CleanText, TextOfStr
  <2> HIDE DEF Text
  <2> QED BY <1>2, <2>2, FindIs
<1> HIDE DEF p
<1> QED BY <1>1, <1>2, <1>3, ReplaceRangeStep

LEMMA ReplaceCallStep ==
  ASSUME IInv, NEW f \in Needles, NEW s \in Views, NEW from \in Nat, Replace(f, s, from)
  PROVE  StepIsRight
<1>1. Ready /\ Clean(str) /\ Good(str) /\ str.size \in Nat /\ fault = "none"
  BY ReadyIsClean DEF Replace, Ready
<1>2. /\ from <= str.size /\ str.size <= MaxLen /\ from \in 0 .. str.size
      /\ pc = "idle" /\ delims = {} /\ pc' = "replace" /\ find' = f /\ with' = s /\ start' = from
      /\ goal' = IF f = <<>> THEN <<>> ELSE Done(from) \o Replacing(f, s)[Rest(from)]
      /\ UNCHANGED <<str, zero, fault, splitting>>
  BY <1>1 DEF Replace, Ready, IInv, SplitIsOn
<1>3. f \in Texts /\ s \in Texts /\ Len(f) \in Nat /\ Len(s) \in Nat
  BY ViewsAre DEF Texts, Needles
<1>4. goal' \in Seq(Chars)
  <2>1. CASE f = <<>>
    BY <1>2, <2>1
  <2>2. CASE f # <<>>
    <3> DEFINE done == Done(from)
               rest == Replacing(f, s)[Rest(from)]
    <3>1. done \in Seq(Chars) /\ Rest(from) \in Texts
      BY <1>1, <1>2, PartsOfText DEF Texts
    <3>2. rest \in Seq(Chars)
      BY <1>3, <2>2, <3>1, ReplacingIs DEF Texts
    <3>3. goal' = done \o rest
      BY <1>2, <2>2
    <3> HIDE DEF done, rest
    <3> QED BY <3>1, <3>2, <3>3, ConcatProperties
  <2> QED BY <2>1, <2>2
<1>5. TypeOK'
  <2>1. TypeOK /\ find' \in Needles /\ with' \in Views
    BY <1>2 DEF IInv
  <2> QED BY <1>2, <1>4, <2>1 DEF TypeOK, splitting
<1>6. IsClean'
  BY <1>2 DEF IInv, IsClean, Clean, Good
<1>7. ReplaceIsBounded'
  <2>1. MaxView * (str.size - from) <= MaxView * MaxLen
    <3>1. MaxView \in Nat /\ MaxLen \in Nat /\ str.size - from \in Nat /\ MaxLen - (str.size - from) \in Nat
      BY <1>1, <1>2, BoundsType
    <3>2. MaxView * MaxLen = MaxView * (str.size - from) + MaxView * (MaxLen - (str.size - from))
      BY <3>1
    <3>3. MaxView * (str.size - from) \in Nat /\ MaxView * (MaxLen - (str.size - from)) \in Nat
      BY <3>1
    <3> QED BY <3>2, <3>3
  <2>2. str.size + MaxView * (str.size - from) <= MaxLen + MaxLen * MaxView
    <3> DEFINE m == MaxView * (str.size - from)
    <3>1. m \in Int /\ m <= MaxView * MaxLen
      BY <1>1, <1>2, <2>1, BoundsType
    <3> HIDE DEF m
    <3>2. str.size + m <= MaxLen + MaxLen * MaxView
      BY <1>1, <1>2, <3>1, BoundsType
    <3> QED BY <3>2 DEF m
  <2> QED BY <1>2, <2>2 DEF ReplaceIsBounded, splitting
<1>8. SplitIsOn' /\ PiecesFollow'
  <2>1. SplitIsOn /\ PiecesFollow
    BY DEF IInv
  <2> QED BY <1>2, <2>1 DEF SplitIsOn, PiecesFollow, splitting, IsFree, Text
<1>9. GoalIsAhead'
  BY <1>2 DEF GoalIsAhead, Done, Rest, Text
<1> QED BY <1>2, <1>5, <1>6, <1>7, <1>8, <1>9 DEF IInv, StepIsRight, EndsInZeroOrSpare, MisusesNarrowly

LEMMA ReplaceNextStep ==
  ASSUME IInv, ReplaceNext
  PROVE  StepIsRight /\ (find # <<>> => str'.size - start' < str.size - start)
<1> DEFINE L == Len(with)
           F == Len(find)
<1>1. PICK p \in 0 .. str.size :
        /\ p = Find(Text, find, start) /\ Substitutes(with, p, F) /\ start' = p + L
  BY DEF ReplaceNext
<1>2. /\ pc = "replace" /\ pc' = "replace" /\ fault = "none"
      /\ UNCHANGED <<find, with, goal, delims, last, found>>
      /\ find = <<>> => str.size < MaxLen
  BY DEF ReplaceNext
<1>3. Clean(str) /\ Good(str) /\ str.size \in Nat /\ start \in Nat /\ start <= str.size
  <2>1. Clean(str)
    BY <1>2 DEF IInv, IsClean
  <2>2. Good(str) /\ str.size \in Nat
    BY <2>1, GoodBlock DEF Clean
  <2>3. start \in 0 .. str.size
    BY <1>2 DEF IInv, TypeOK
  <2> QED BY <2>1, <2>2, <2>3
<1>4. /\ find \in Texts /\ find \in Needles /\ F \in Nat /\ (find = <<>> \/ F >= 1)
      /\ with \in Texts /\ with \in Views /\ L \in Nat /\ L <= MaxView
  <2>1. find \in Needles /\ with \in Views
    BY DEF IInv, TypeOK
  <2>2. find \in Seq(Chars) /\ with \in Seq(Chars) /\ L <= MaxView
    BY <2>1, ViewsAre DEF Needles
  <2>3. find = <<>> \/ Len(find) # 0
    BY <2>2, EmptySeq
  <2> QED BY <2>1, <2>2, <2>3 DEF Texts
<1>5. Text \in Texts /\ Len(Text) = str.size
  BY <1>3, CleanText, TextOfStr DEF Texts
<1>6. p \in Hits(Text, find, start) /\ start <= p /\ p + F <= str.size /\ p \in Nat
      /\ \A q \in Hits(Text, find, start) : p <= q
  <2> HIDE DEF Text
  <2>1. \/ p = -1
        \/ /\ p \in start .. Len(Text) - F /\ p \in Hits(Text, find, start)
           /\ \A q \in Hits(Text, find, start) : p <= q
    BY <1>1, <1>3, <1>4, <1>5, FindIs DEF Texts
  <2> HIDE DEF F
  <2>2. p # -1 /\ p \in Nat
    BY <1>1, <1>3
  <2> QED BY <1>3, <1>4, <1>5, <2>1, <2>2
<1> HIDE DEF L, F
<1>7. find # <<>> =>
        /\ MaxView * (str.size - start) \in Nat
        /\ MaxView + MaxView * (str.size - p - F) <= MaxView * (str.size - start)
        /\ MaxView * (str.size - p - F) \in Nat
        /\ str.size + MaxView * (str.size - start) <= MaxLen + MaxLen * MaxView
  <2> SUFFICES ASSUME find # <<>>
               PROVE  /\ MaxView * (str.size - start) \in Nat
                      /\ MaxView + MaxView * (str.size - p - F) <= MaxView * (str.size - start)
                      /\ MaxView * (str.size - p - F) \in Nat
                      /\ str.size + MaxView * (str.size - start) <= MaxLen + MaxLen * MaxView
    OBVIOUS
  <2> DEFINE a == str.size - p - F
             e == (p - start) + (F - 1)
  <2>1. a \in Nat /\ e \in Nat /\ str.size - start = 1 + a + e /\ MaxView \in Nat
    BY <1>3, <1>4, <1>6, BoundsType
  <2>2. str.size + MaxView * (str.size - start) <= MaxLen + MaxLen * MaxView
    BY <1>2 DEF IInv, ReplaceIsBounded
  <2> HIDE DEF a, e
  <2>3. MaxView * (1 + a + e) = MaxView + MaxView * a + MaxView * e
    BY <2>1
  <2>4. MaxView * a \in Nat /\ MaxView * e \in Nat
    BY <2>1
  <2> QED BY <2>1, <2>2, <2>3, <2>4 DEF a
<1>8. IsRange(with, p, F)
  <2>1. NewSize(with, F) = str.size + L - F
    BY DEF NewSize, L
  <2>2. str.size + L - F <= Longest
    <3>1. CASE find = <<>>
      BY <1>2, <1>3, <1>4, <3>1, BoundsType
    <3>2. CASE find # <<>>
      <4> DEFINE m == MaxView * (str.size - start)
                 n == MaxView * (str.size - p - F)
                 q == MaxLen * MaxView
      <4>1. /\ m \in Nat /\ n \in Nat /\ q \in Int /\ MaxView + n <= m /\ str.size + m <= MaxLen + q
            /\ MaxLen + q <= Longest /\ Longest \in Nat /\ MaxLen \in Nat /\ MaxView \in Nat
        BY <1>7, <3>2, BoundsType
      <4> HIDE DEF m, n, q
      <4> QED BY <1>3, <1>4, <4>1
    <3> QED BY <3>1, <3>2
  <2> QED BY <1>3, <1>4, <1>6, <2>1, <2>2 DEF IsRange, Texts
<1>9. /\ Good(str') /\ str'.size = str.size + L - F /\ zero' = TRUE /\ pieces' = <<>>
      /\ fault' \in Faults
      /\ fault' = "none" =>
           Clean(str') /\ TextOf(str') = Done(p) \o with \o Rest(p + F)
      /\ fault' # fault =>
           \/ fault' = "null copy"
           \/ fault' \in {"overflow", "unwritten"} /\ L > F /\ L # 2 * F
  <2>1. Substitutes(with, p, F)
    BY <1>1
  <2>2. Substituted(with, p, F)
    BY <1>2, <1>3, <1>8, <2>1, SubstitutesIs
  <2> QED BY <2>2 DEF Substituted, NewSize, L
<1>10. start' \in Nat /\ start' <= str'.size /\ str'.size \in Nat
       /\ str'.size - start' = str.size - p - F
  <2>1. start' = p + L /\ str'.size = str.size + L - F
    BY <1>1, <1>9
  <2>2. str.size \in Nat /\ p \in Nat /\ L \in Nat /\ F \in Nat /\ p + F <= str.size
    BY <1>3, <1>4, <1>6
  <2> QED BY <2>1, <2>2
<1>11. TypeOK'
  <2>1. Good(str') /\ zero' = TRUE /\ fault' \in Faults
    BY <1>9
  <2>2. find' \in Needles /\ with' \in Views /\ goal' \in Seq(Chars) /\ delims' \subseteq Chars
    BY <1>2 DEF IInv, TypeOK
  <2>3. start' \in 0 .. str'.size /\ pc' = "replace"
    BY <1>2, <1>10
  <2>4. A!IsBlock(str') /\ A!Backed(str')
    BY <2>1 DEF Good
  <2>5. A!IsBlock(str)' /\ A!Backed(str)'
    BY <2>4
  <2> QED BY <2>1, <2>2, <2>3, <2>5 DEF TypeOK, Faults
<1>12. IsClean'
  BY <1>9 DEF IsClean, Clean, Good
<1>13. ReplaceIsBounded'
  <2>1. str.size <= MaxLen \/ F <= MaxLen
    BY <1>2 DEF IInv, ReplaceIsBounded, F
  <2>2. F <= MaxLen
    BY <1>3, <1>4, <1>6, <2>1, BoundsType
  <2>3. find # <<>> =>
          str'.size + MaxView * (str'.size - start') <= MaxLen + MaxLen * MaxView
    <3> SUFFICES ASSUME find # <<>>
                 PROVE  str'.size + MaxView * (str'.size - start') <= MaxLen + MaxLen * MaxView
      OBVIOUS
    <3> DEFINE m == MaxView * (str.size - start)
               n == MaxView * (str.size - p - F)
               q == MaxLen * MaxView
    <3>1. m \in Nat /\ n \in Nat /\ q \in Int /\ MaxView + n <= m /\ str.size + m <= MaxLen + q
          /\ MaxLen \in Nat /\ MaxView \in Nat
      BY <1>7, BoundsType
    <3>2. MaxView * (str'.size - start') = n
      BY <1>10
    <3> HIDE DEF m, n, q
    <3>3. str.size + L - F + n <= MaxLen + q
      BY <1>3, <1>4, <3>1
    <3> QED BY <1>9, <3>2, <3>3 DEF q
  <2> QED BY <1>2, <2>2, <2>3 DEF ReplaceIsBounded, F
<1>14. SplitIsOn' /\ PiecesFollow'
  <2>1. delims = {} /\ delims' = {} /\ pieces' = <<>> /\ pc' = "replace"
    BY <1>2, <1>9 DEF IInv, SplitIsOn
  <2>2. <<>> \in Seq(Nat \X Nat) /\ Len(<<>>) = 0
    OBVIOUS
  <2> QED BY <2>1, <2>2 DEF SplitIsOn, PiecesFollow
<1>15. GoalIsAhead'
  <2> SUFFICES ASSUME fault' = "none", find # <<>>
               PROVE  goal' = Done(start)' \o Replacing(find', with')[Rest(start)']
    BY <1>2 DEF GoalIsAhead
  <2> DEFINE new == TextOf(str')
  <2>1. goal = Done(start) \o Replacing(find, with)[Rest(start)]
    BY <1>2 DEF IInv, GoalIsAhead
  <2>2. /\ Done(start) = SubSeq(Text, 1, start) /\ Rest(start) = Suffix(Text, start)
        /\ Done(p) = SubSeq(Text, 1, p) /\ Rest(p + F) = Suffix(Text, p + F)
    BY <1>5 DEF Done, Rest, Suffix
  <2>3. Text' = new /\ Len(new) = str'.size
    <3>1. new \in Seq(Chars) /\ Len(new) = str'.size
      BY <1>9, CleanText
    <3> QED BY <3>1 DEF Text, TextOf
  <2>4. Done(start)' = SubSeq(new, 1, start') /\ Rest(start)' = Suffix(new, start')
    BY <2>3 DEF Done, Rest, Suffix
  <2>5. new = Swapped(Text, find, with, p) /\ IsFirst(Text, find, start, p)
    BY <1>6, <1>9, <2>2 DEF Swapped, IsFirst, F
  <2> HIDE DEF new, Text
  <2>6. Ahead(find, with, Text, start) = Ahead(find, with, new, p + Len(with))
    BY <1>3, <1>4, <1>5, <2>5, GoalStays
  <2>7. goal' = goal /\ find' = find /\ with' = with /\ start' = p + L
    BY <1>1, <1>2
  <2> QED BY <2>1, <2>2, <2>4, <2>6, <2>7 DEF Ahead, L
<1>16. MisusesNarrowly
  <2> SUFFICES ASSUME fault' \in {"overflow", "unwritten"}, L > F, L # 2 * F
               PROVE  \E s1 \in Views, l1 \in Indexes :
                        /\ s1 = with /\ l1 = Len(find)
                        /\ Len(s1) > l1 /\ Len(s1) # 2 * l1
    BY <1>9 DEF MisusesNarrowly
  <2>1. F \in Indexes
    <3>1. str.size <= MaxLen \/ F <= MaxLen
      BY <1>2 DEF IInv, ReplaceIsBounded, F
    <3> QED BY <1>3, <1>4, <1>6, <3>1, BoundsType DEF Indexes
  <2> QED BY <1>4, <2>1 DEF L, F
<1>17. find # <<>> => str'.size - start' < str.size - start
  BY <1>3, <1>4, <1>6, <1>10
<1>18. StepIsRight
  BY <1>9, <1>11, <1>12, <1>13, <1>14, <1>15, <1>16 DEF IInv, StepIsRight, EndsInZeroOrSpare
<1> QED BY <1>17, <1>18

LEMMA ReplaceDoneStep ==
  ASSUME IInv, ReplaceDone
  PROVE  StepIsRight
<1>1. /\ pc = "replace" /\ fault = "none" /\ pc' = "idle" /\ find' = <<>> /\ with' = <<>>
      /\ start' = 0 /\ goal' = <<>> /\ UNCHANGED <<str, zero, fault, splitting>>
  BY DEF ReplaceDone
<1>2. <<>> \in Views /\ <<>> \in Needles /\ <<>> \in Seq(Chars)
  <2>1. <<>> \in Seq(Chars) /\ Len(<<>>) = 0
    OBVIOUS
  <2>2. 0 <= MaxView /\ 0 <= MaxNeedle
    BY BoundsType
  <2>3. <<>> \in Views
    BY <2>1, <2>2, ViewsAre
  <2> QED BY <2>1, <2>2, <2>3 DEF Needles
<1>3. TypeOK'
  <2>1. TypeOK
    BY DEF IInv
  <2> QED BY <1>1, <1>2, <2>1 DEF TypeOK, splitting
<1>4. IsClean'
  BY <1>1 DEF IInv, IsClean, Clean, Good
<1>5. SplitIsOn' /\ PiecesFollow'
  <2>1. SplitIsOn /\ PiecesFollow
    BY DEF IInv
  <2> QED BY <1>1, <2>1 DEF SplitIsOn, PiecesFollow, splitting, IsFree, Text
<1>6. ReplaceIsBounded' /\ GoalIsAhead'
  BY <1>1 DEF ReplaceIsBounded, GoalIsAhead
<1> QED BY <1>1, <1>3, <1>4, <1>5, <1>6 DEF IInv, StepIsRight, EndsInZeroOrSpare, MisusesNarrowly

\* When nothing is left to be found, the string is what it had to end with.
LEMMA ReplaceDoneIsRight ==
  ASSUME IInv, ReplaceDone, find # <<>>
  PROVE  Text = goal
<1>1. /\ pc = "replace" /\ fault = "none" /\ Find(Text, find, start) = -1
      /\ goal = Done(start) \o Replacing(find, with)[Rest(start)]
  BY DEF ReplaceDone, IInv, GoalIsAhead
<1>2. find \in Texts /\ with \in Texts
  BY ViewsAre DEF IInv, TypeOK, Needles, Texts
<1>3. Text \in Texts /\ Len(Text) = str.size /\ start \in 0 .. Len(Text) /\ start \in Nat
  <2>1. Clean(str) /\ start \in 0 .. str.size
    BY <1>1 DEF IInv, IsClean, TypeOK
  <2>2. Text \in Texts /\ Len(Text) = str.size
    BY <2>1, CleanText, TextOfStr DEF Texts
  <2> QED BY <2>1, <2>2
<1>4. Done(start) = SubSeq(Text, 1, start) /\ Rest(start) = Suffix(Text, start)
  BY <1>3 DEF Done, Rest, Suffix
<1> HIDE DEF Text
<1>5. Hits(Text, find, start) = {}
  <2>1. Text \in Seq(Chars) /\ find \in Seq(Chars)
    BY <1>2, <1>3 DEF Texts
  <2>2. LET p == Find(Text, find, start)
        IN  \/ p = -1 /\ Hits(Text, find, start) = {}
            \/ p \in Nat
    BY <1>3, <2>1, FindIs
  <2> QED BY <1>1, <2>2
<1>6. Replacing(find, with)[Suffix(Text, start)] = Suffix(Text, start)
  BY <1>2, <1>3, <1>5, ReplacingNothing
<1>7. SubSeq(Text, 1, start) \o Suffix(Text, start) = Text
  BY <1>3, DoneIs
<1> QED BY <1>1, <1>4, <1>6, <1>7

-----------------------------------------------------------------------------
(* The steps of split. *)

LEMMA SplitStep ==
  ASSUME IInv, NEW ds \in SUBSET Chars, Split(ds)
  PROVE  StepIsRight
<1>1. /\ pc = "idle" /\ pc' = "seek" /\ delims' = ds /\ last' = 0 /\ found' = -1 /\ pieces' = <<>>
      /\ UNCHANGED <<str, zero, fault, replacing>>
  BY DEF Split, Ready
<1>2. TypeOK'
  <2>1. TypeOK /\ str.size \in Nat
    BY GoodBlock DEF IInv, TypeOK, Good
  <2>2. last' \in 0 .. str'.size /\ found' \in -1 .. str'.size
    BY <1>1, <2>1
  <2> QED BY <1>1, <2>1, <2>2 DEF TypeOK, replacing
<1>3. IsClean'
  BY <1>1 DEF IInv, IsClean, Clean, Good
<1>4. ReplaceIsBounded' /\ GoalIsAhead' /\ SplitIsOn'
  BY <1>1 DEF ReplaceIsBounded, GoalIsAhead, SplitIsOn
<1>5. PiecesFollow'
  <2>1. <<>> \in Seq(Nat \X Nat) /\ Len(<<>>) = 0
    OBVIOUS
  <2> QED BY <1>1, <2>1 DEF PiecesFollow
<1> QED BY <1>1, <1>2, <1>3, <1>4, <1>5 DEF IInv, StepIsRight, EndsInZeroOrSpare, MisusesNarrowly

\* A search for one character finds it wherever it is.
LEMMA HitOfOne ==
  ASSUME NEW E, NEW text \in Seq(E), NEW from \in Nat, NEW j \in from + 1 .. Len(text)
  PROVE  j - 1 \in Hits(text, <<text[j]>>, from)
<1>1. /\ j \in Nat /\ j - 1 \in from .. Len(text) - 1 /\ (j - 1) + 1 = j /\ text[j] \in E
      /\ Len(<<text[j]>>) = 1
  OBVIOUS
<1>2. SubSeq(text, j, j) = <<text[j]>>
  <2>1. /\ SubSeq(text, j, j) \in Seq(E) /\ Len(SubSeq(text, j, j)) = 1
        /\ SubSeq(text, j, j)[1] = text[j]
    BY <1>1
  <2>2. <<text[j]>> \in Seq(E)
    BY <1>1
  <2>3. \A i \in 1 .. 1 : SubSeq(text, j, j)[i] = <<text[j]>>[i]
    BY <2>1
  <2> QED BY <1>1, <2>1, <2>2, <2>3, SeqEqual
<1> QED BY <1>1, <1>2 DEF Hits

LEMMA SeekStep ==
  ASSUME IInv, Seek
  PROVE  StepIsRight
<1> DEFINE hits == {Find(Text, <<d>>, last) : d \in delims} \ {-1}
<1>1. /\ pc = "seek" /\ pc' = "cut" /\ found' = IF hits = {} THEN -1 ELSE Min(hits)
      /\ UNCHANGED <<str, zero, fault, replacing, delims, last, pieces>>
  BY DEF Seek
<1>2. /\ TypeOK /\ Good(str) /\ str.size \in Nat /\ delims \subseteq Chars
      /\ last \in Nat /\ last <= str.size
  <2>1. TypeOK /\ Good(str) /\ delims \subseteq Chars /\ last \in 0 .. str.size
    BY <1>1 DEF IInv, TypeOK, Good
  <2>2. str.size \in Nat
    BY <2>1, GoodBlock
  <2> QED BY <2>1, <2>2
<1>3. Text \in Seq(Elements) /\ Len(Text) = str.size
  BY <1>2, TextIs, TextOfStr
<1> HIDE DEF Text
<1>4. ASSUME NEW d \in delims
      PROVE  LET p == Find(Text, <<d>>, last)
             IN  \/ p = -1 /\ Hits(Text, <<d>>, last) = {}
                 \/ /\ p \in Nat /\ last <= p /\ p < str.size
                    /\ \A q \in Hits(Text, <<d>>, last) : p <= q
  <2>1. <<d>> \in Seq(delims) /\ Len(<<d>>) = 1
    OBVIOUS
  <2>2. LET p == Find(Text, <<d>>, last)
        IN  \/ p = -1 /\ Hits(Text, <<d>>, last) = {}
            \/ /\ p \in Nat /\ p \in last .. Len(Text) - Len(<<d>>)
               /\ p \in Hits(Text, <<d>>, last)
               /\ \A q \in Hits(Text, <<d>>, last) : p <= q
    BY <1>2, <1>3, <2>1, FindIs
  <2> DEFINE p == Find(Text, <<d>>, last)
  <2>3. p = -1 \/ p \in last .. str.size - 1
    BY <1>3, <2>1, <2>2
  <2> HIDE DEF p
  <2>4. p = -1 \/ (p \in Nat /\ last <= p /\ p < str.size)
    BY <1>2, <2>3
  <2> QED BY <2>2, <2>4 DEF p
<1>5. \A h \in hits : h \in Nat /\ last <= h /\ h < str.size
  BY <1>4
<1>6. ASSUME NEW j \in last + 1 .. str.size, Text[j] \in delims
      PROVE  \E h \in hits : h < j
  <2>1. j - 1 \in Hits(Text, <<Text[j]>>, last) /\ j \in Nat
    BY <1>2, <1>3, HitOfOne
  <2> DEFINE h == Find(Text, <<Text[j]>>, last)
  <2>2. h \in Nat /\ h <= j - 1
    BY <1>4, <1>6, <2>1
  <2>3. h \in hits
    <3>1. h \in {Find(Text, <<d>>, last) : d \in delims}
      BY <1>6
    <3>2. h # -1
      BY <2>2
    <3> HIDE DEF h
    <3> QED BY <3>1, <3>2
  <2> HIDE DEF h
  <2>4. h < j
    BY <2>1, <2>2
  <2> HIDE DEF hits
  <2> QED BY <2>3, <2>4
<1> HIDE DEF hits
<1>7. /\ hits = {} => found' = -1 /\ IsFree(last, str.size)
      /\ hits # {} => /\ found' \in Nat /\ last <= found' /\ found' < str.size
                      /\ IsFree(last, found')
  <2>1. hits = {} => found' = -1 /\ IsFree(last, str.size)
    BY <1>1, <1>6 DEF IsFree
  <2>2. ASSUME hits # {}
        PROVE  /\ found' \in Nat /\ last <= found' /\ found' < str.size
               /\ IsFree(last, found')
    <3>1. hits \in SUBSET Nat
      BY <1>5
    <3>2. found' \in hits /\ \A h \in hits : found' <= h
      BY <1>1, <2>2, <3>1, LeastMember
    <3>3. found' \in Nat /\ last <= found' /\ found' < str.size
      BY <1>5, <3>2
    <3>4. ASSUME NEW j \in last + 1 .. found', Text[j] \in delims
          PROVE  FALSE
      <4>1. j \in last + 1 .. str.size /\ j \in Nat /\ j <= found'
        BY <1>2, <3>3
      <4>2. PICK h \in hits : h < j
        BY <1>6, <3>4, <4>1
      <4>3. found' <= h /\ h \in Nat
        BY <1>5, <3>2
      <4> QED BY <3>3, <4>1, <4>2, <4>3
    <3> QED BY <3>3, <3>4 DEF IsFree
  <2> QED BY <2>1, <2>2
<1>8. TypeOK'
  <2>1. found' \in -1 .. str.size /\ last \in 0 .. str.size
    BY <1>2, <1>7
  <2> QED BY <1>1, <1>2, <2>1 DEF TypeOK, replacing
<1>9. IsClean'
  BY <1>1 DEF IInv, IsClean, Clean, Good
<1>10. ReplaceIsBounded' /\ GoalIsAhead'
  BY <1>1 DEF ReplaceIsBounded, GoalIsAhead
<1>11. Text' = Text
  BY <1>1 DEF Text
<1>12. SplitIsOn'
  <2>1. CASE hits = {}
    BY <1>1, <1>7, <1>11, <2>1 DEF SplitIsOn, IsFree
  <2>2. CASE hits # {}
    <3>1. found' # -1 /\ last <= found' /\ IsFree(last, found')
      BY <1>7, <2>2
    <3> QED BY <1>1, <1>11, <3>1 DEF SplitIsOn, IsFree
  <2> QED BY <2>1, <2>2
<1>13. PiecesFollow'
  <2>1. PiecesFollow
    BY DEF IInv
  <2> QED BY <1>1, <1>11, <2>1 DEF PiecesFollow, IsFree
<1> QED BY <1>1, <1>8, <1>9, <1>10, <1>12, <1>13 DEF IInv, StepIsRight, EndsInZeroOrSpare, MisusesNarrowly

\* The piece that a step of split adds, unless enough are remembered.
LEMMA RememberedIs ==
  ASSUME IInv, pc = "cut", NEW to \in Nat, last \in Nat, last <= to, IsFree(last, to),
         NEW piece, piece = <<last, to - last>>
  PROVE  /\ Remembered(piece) \in Seq(Nat \X Nat)
         /\ \A k \in 1 .. Len(Remembered(piece)) :
              /\ Remembered(piece)[k][1] = IF k = 1 THEN 0 ELSE End(Remembered(piece)[k - 1])
              /\ IsFree(Remembered(piece)[k][1] + 1, End(Remembered(piece)[k]))
         /\ Len(Remembered(piece)) < MaxPieces =>
              Remembered(piece) # <<>> /\ End(Remembered(piece)[Len(Remembered(piece))]) = to
<1> DEFINE n == Len(pieces)
<1>1. /\ pieces \in Seq(Nat \X Nat) /\ n \in Nat /\ MaxPieces \in Nat
      /\ \A k \in 1 .. n :
           /\ pieces[k][1] = IF k = 1 THEN 0 ELSE End(pieces[k - 1])
           /\ IsFree(pieces[k][1] + 1, End(pieces[k]))
      /\ n < MaxPieces => last = IF pieces = <<>> THEN 0 ELSE End(pieces[n])
  BY BoundsType DEF IInv, PiecesFollow
<1>2. CASE ~(n < MaxPieces)
  <2>1. Remembered(piece) = pieces
    BY <1>2 DEF Remembered
  <2> QED BY <1>1, <1>2, <2>1
<1>3. CASE n < MaxPieces
  <2> DEFINE all == pieces \o <<piece>>
  <2>1. Remembered(piece) = all
    BY <1>3 DEF Remembered
  <2>2. piece \in Nat \X Nat /\ piece[1] = last /\ piece[2] = to - last
    OBVIOUS
  <2>3. /\ all \in Seq(Nat \X Nat) /\ Len(all) = n + 1 /\ all[n + 1] = piece
        /\ \A k \in 1 .. n : all[k] = pieces[k]
    <3>1. <<piece>> \in Seq(Nat \X Nat) /\ Len(<<piece>>) = 1 /\ <<piece>>[1] = piece
      BY <2>2
    <3>2. /\ all \in Seq(Nat \X Nat) /\ Len(all) = n + 1
          /\ \A i \in 1 .. n + 1 : all[i] = IF i <= n THEN pieces[i] ELSE <<piece>>[i - n]
      BY <1>1, <3>1, ConcatProperties
    <3>3. n + 1 \in 1 .. n + 1 /\ ~(n + 1 <= n) /\ (n + 1) - n = 1
      BY <1>1
    <3>4. \A k \in 1 .. n : k \in 1 .. n + 1 /\ k <= n
      BY <1>1
    <3> HIDE DEF all, n
    <3>5. all[n + 1] = piece
      BY ONLY <3>1, <3>2, <3>3
    <3>6. \A k \in 1 .. n : all[k] = pieces[k]
      BY ONLY <3>2, <3>4
    <3> QED BY <3>2, <3>5, <3>6
  <2>4. pieces = <<>> <=> n = 0
    BY <1>1, EmptySeq
  <2> HIDE DEF all, n
  <2>5. End(piece) = to
    BY <2>2 DEF End
  <2>6. ASSUME NEW k \in 1 .. n + 1
        PROVE  /\ all[k][1] = IF k = 1 THEN 0 ELSE End(all[k - 1])
               /\ IsFree(all[k][1] + 1, End(all[k]))
    <3>1. CASE k \in 1 .. n
      <4>1. k # 1 => k - 1 \in 1 .. n
        BY <1>1, <3>1
      <4> QED BY <1>1, <2>3, <3>1, <4>1
    <3>2. CASE k \notin 1 .. n
      <4>1. k = n + 1 /\ (n # 0 => k # 1 /\ k - 1 = n /\ n \in 1 .. n)
        BY <1>1, <3>2
      <4>2. last = IF k = 1 THEN 0 ELSE End(all[k - 1])
        BY <1>1, <1>3, <2>3, <2>4, <4>1
      <4>3. \A j \in (last + 1) + 1 .. to : j \in last + 1 .. to
        OBVIOUS
      <4>4. IsFree(last + 1, to)
        BY <4>3 DEF IsFree
      <4> QED BY <2>2, <2>3, <2>5, <4>1, <4>2, <4>4
    <3> QED BY <3>1, <3>2
  <2>7. all # <<>> /\ End(all[Len(all)]) = to
    <3>1. Len(all) # 0
      BY <1>1, <2>3
    <3> QED BY <2>3, <2>5, <3>1, EmptySeq
  <2> QED BY <2>1, <2>3, <2>6, <2>7
<1> QED BY <1>2, <1>3

LEMMA CutStep ==
  ASSUME IInv, Cut
  PROVE  StepIsRight
<1>1. /\ pc = "cut" /\ pc' = "seek" /\ found # -1
      /\ pieces' = Remembered(<<last, found - last>>) /\ last' = found
      /\ UNCHANGED <<str, zero, fault, replacing, delims, found>>
  BY DEF Cut
<1>2. /\ TypeOK /\ str.size \in Nat /\ last \in Nat /\ found \in Nat /\ found <= str.size
      /\ last <= found /\ IsFree(last, found)
  <2>1. TypeOK /\ Good(str) /\ last \in 0 .. str.size /\ found \in -1 .. str.size
    BY <1>1 DEF IInv, TypeOK, Good
  <2>2. str.size \in Nat
    BY <2>1, GoodBlock
  <2>3. last <= found /\ IsFree(last, found)
    BY <1>1 DEF IInv, SplitIsOn
  <2> QED BY <1>1, <2>1, <2>2, <2>3
<1> DEFINE all == Remembered(<<last, found - last>>)
<1>3. /\ all \in Seq(Nat \X Nat)
      /\ \A k \in 1 .. Len(all) :
           /\ all[k][1] = IF k = 1 THEN 0 ELSE End(all[k - 1])
           /\ IsFree(all[k][1] + 1, End(all[k]))
      /\ Len(all) < MaxPieces => all # <<>> /\ End(all[Len(all)]) = found
  BY <1>1, <1>2, RememberedIs
<1> HIDE DEF all
<1>4. TypeOK'
  <2>1. last' \in 0 .. str.size /\ found' \in -1 .. str.size
    BY <1>1, <1>2
  <2> QED BY <1>1, <1>2, <2>1 DEF TypeOK, replacing
<1>5. IsClean'
  BY <1>1 DEF IInv, IsClean, Clean, Good
<1>6. ReplaceIsBounded' /\ GoalIsAhead' /\ SplitIsOn'
  BY <1>1 DEF ReplaceIsBounded, GoalIsAhead, SplitIsOn
<1>7. PiecesFollow'
  <2>1. pieces' = all /\ last' = found /\ pc' = "seek" /\ Text' = Text /\ delims' = delims
    BY <1>1 DEF all, Text
  <2> HIDE DEF Text
  <2> QED BY <1>3, <2>1 DEF PiecesFollow, IsFree
<1> QED BY <1>1, <1>4, <1>5, <1>6, <1>7 DEF IInv, StepIsRight, EndsInZeroOrSpare, MisusesNarrowly

LEMMA CutLastStep ==
  ASSUME IInv, CutLast
  PROVE  StepIsRight
<1>1. /\ pc = "cut" /\ pc' = "idle" /\ found = -1
      /\ pieces' = Remembered(<<last, str.size - last>>) /\ delims' = {} /\ last' = 0
      /\ UNCHANGED <<str, zero, fault, replacing, found>>
  BY DEF CutLast
<1>2. /\ TypeOK /\ str.size \in Nat /\ last \in Nat /\ last <= str.size
      /\ IsFree(last, str.size)
  <2>1. TypeOK /\ Good(str) /\ last \in 0 .. str.size
    BY <1>1 DEF IInv, TypeOK, Good
  <2>2. str.size \in Nat
    BY <2>1, GoodBlock
  <2>3. IsFree(last, str.size)
    BY <1>1 DEF IInv, SplitIsOn
  <2> QED BY <2>1, <2>2, <2>3
<1> DEFINE all == Remembered(<<last, str.size - last>>)
<1>3. /\ all \in Seq(Nat \X Nat)
      /\ \A k \in 1 .. Len(all) : all[k][1] = IF k = 1 THEN 0 ELSE End(all[k - 1])
      /\ Len(all) < MaxPieces => End(all[Len(all)]) = str.size
  BY <1>1, <1>2, RememberedIs
<1> HIDE DEF all
<1>4. TypeOK'
  BY <1>1, <1>2 DEF TypeOK, replacing
<1>5. IsClean'
  BY <1>1 DEF IInv, IsClean, Clean, Good
<1>6. ReplaceIsBounded' /\ GoalIsAhead' /\ SplitIsOn'
  BY <1>1 DEF ReplaceIsBounded, GoalIsAhead, SplitIsOn
<1>7. PiecesFollow'
  <2>1. pieces' = all /\ str' = str /\ pc' = "idle" /\ delims' = {}
    BY <1>1 DEF all
  <2> QED BY <1>3, <2>1 DEF PiecesFollow, IsFree
<1> QED BY <1>1, <1>4, <1>5, <1>6, <1>7 DEF IInv, StepIsRight, EndsInZeroOrSpare, MisusesNarrowly

-----------------------------------------------------------------------------
(* The theorems. *)

LEMMA UnchangedStep == IInv /\ UNCHANGED vars => StepIsRight
<1> SUFFICES ASSUME IInv, UNCHANGED vars PROVE StepIsRight
  OBVIOUS
<1>1. UNCHANGED <<str, zero, fault, pc, find, with, start, goal, delims, last, found, pieces>>
  BY DEF vars, replacing, splitting
<1>2. TypeOK' /\ IsClean'
  BY <1>1 DEF IInv, TypeOK, IsClean, Clean, Good
<1>3. ReplaceIsBounded' /\ SplitIsOn' /\ PiecesFollow' /\ GoalIsAhead'
  <2>1. ReplaceIsBounded /\ SplitIsOn /\ PiecesFollow /\ GoalIsAhead
    BY DEF IInv
  <2>2. Text' = Text
    BY <1>1 DEF Text
  <2> HIDE DEF Text
  <2>3. ReplaceIsBounded'
    BY <1>1, <2>1 DEF ReplaceIsBounded
  <2>4. SplitIsOn' /\ PiecesFollow'
    BY <1>1, <2>1, <2>2 DEF SplitIsOn, PiecesFollow, IsFree
  <2>5. GoalIsAhead'
    BY <1>1, <2>1, <2>2 DEF GoalIsAhead, Done, Rest
  <2> QED BY <2>3, <2>4, <2>5
<1> QED BY <1>1, <1>2, <1>3 DEF IInv, StepIsRight, EndsInZeroOrSpare, MisusesNarrowly

LEMMA InitIsRight == Init => IInv
<1> SUFFICES ASSUME Init PROVE IInv
  OBVIOUS
<1>1. <<>> \in Views /\ <<>> \in Needles /\ <<>> \in Seq(Chars)
  <2>1. <<>> \in Seq(Chars) /\ Len(<<>>) = 0
    OBVIOUS
  <2>2. 0 <= MaxView /\ 0 <= MaxNeedle
    BY BoundsType
  <2>3. <<>> \in Views
    BY <2>1, <2>2, ViewsAre
  <2> QED BY <2>1, <2>2, <2>3 DEF Needles
<1>2. Good(str) /\ Clean(str)
  BY NullIsClean, NullBlock DEF Init
<1>3. TypeOK
  BY <1>1, <1>2 DEF Init, TypeOK, Good
<1>4. <<>> \in Seq(Nat \X Nat) /\ Len(<<>>) = 0
  OBVIOUS
<1>5. PiecesFollow
  BY <1>4 DEF Init, PiecesFollow
<1> QED BY <1>2, <1>3, <1>5 DEF Init, IInv, IsClean, ReplaceIsBounded, SplitIsOn, GoalIsAhead

\* A step of the specification, be it a call, a step of a loop or none.
LEMMA EveryStepIsRight == IInv /\ [Next]_vars => StepIsRight
<1> SUFFICES ASSUME IInv, [Next]_vars PROVE StepIsRight
  OBVIOUS
<1>1. ASSUME NEW view \in Views, MakeDynamic(view) PROVE StepIsRight
  BY <1>1, MakeDynamicStep
<1>2. ASSUME NEW view \in Views, VFormat(view) PROVE StepIsRight
  BY <1>2, VFormatStep
<1>3. ASSUME NEW b \in Seq(Chars), NEW own \in BOOLEAN, own => b = Text, ConcatenateInplace(b, own)
      PROVE  StepIsRight
  <2>1. CASE str' # str \/ fault' # fault \/ zero' # zero
    BY <1>3, <2>1, ConcatenateInplaceStep
  <2>2. CASE ~(str' # str \/ fault' # fault \/ zero' # zero)
    <3>1. CASE Text \o b = <<>>
      BY <1>3, <3>1, UnchangedStep DEF ConcatenateInplace
    <3>2. CASE Text \o b # <<>>
      <4>1. Becomes(Resumed(str, b), EndsInZero(Resumed(str, b))) /\ Ready
        BY <1>3, <3>2 DEF ConcatenateInplace
      <4>2. Clean(str) /\ Good(str) /\ zero \in BOOLEAN /\ fault = "none"
        BY <4>1, ReadyIsClean DEF Ready
      <4>3. Becomes(str, zero)
        BY <2>2, <4>1 DEF Becomes
      <4>4. IInv'
        BY <2>2, <4>1, <4>2, <4>3, CallKeeps DEF Faults
      <4> QED BY <2>2, <4>4 DEF StepIsRight, EndsInZeroOrSpare, MisusesNarrowly
    <3> QED BY <3>1, <3>2
  <2> QED BY <2>1, <2>2
<1>4. ASSUME NEW a \in Views, NEW b \in Views, Concatenate(a, b) PROVE StepIsRight
  BY <1>4, ConcatenateStep
<1>5. ASSUME NEW args \in Args, ConcatenateN(args) PROVE StepIsRight
  BY <1>5, ConcatenateNStep
<1>6. ASSUME NEW text \in Views, NEW points \in 0 .. MaxView, points <= Len(text),
             CodepointsToString(text, points)
      PROVE  StepIsRight
  BY <1>6, CodepointsToStringStep
<1>7. ASSUME NEW c \in Chars, AppendChar(c) PROVE StepIsRight
  BY <1>7, AppendCharStep
<1>8. ASSUME NEW times \in 0 .. MaxArgs, Replicate(times) PROVE StepIsRight
  BY <1>8, ReplicateStep
<1>9. ASSUME NEW s \in Views, NEW from \in Indexes, NEW len \in Indexes, ReplaceRange(s, from, len)
      PROVE  StepIsRight
  <2>1. from \in Nat /\ len \in Nat
    BY BoundsType DEF Indexes
  <2> QED BY <1>9, <2>1, ReplaceRangeStep
<1>10. ASSUME NEW f \in Needles, NEW s \in Views, NEW from \in Indexes, ReplaceFirst(f, s, from)
       PROVE  StepIsRight
  <2>1. from \in Nat /\ f \in Views
    BY BoundsType DEF Indexes, Needles
  <2>2. CASE Find(Text, f, from) = -1
    BY <1>10, <2>2, UnchangedStep DEF ReplaceFirst
  <2>3. CASE Find(Text, f, from) # -1
    BY <1>10, <2>1, <2>3, ReplaceFirstStep
  <2> QED BY <2>2, <2>3
<1>11. ASSUME NEW f \in Needles, NEW s \in Views, NEW from \in Indexes, Replace(f, s, from)
       PROVE  StepIsRight
  <2>1. from \in Nat
    BY BoundsType DEF Indexes
  <2> QED BY <1>11, <2>1, ReplaceCallStep
<1>12. ASSUME NEW ds \in SUBSET Chars, Split(ds) PROVE StepIsRight
  BY <1>12, SplitStep
<1>13. ASSUME ConcatenateInplace(Text, TRUE) PROVE StepIsRight
  <2>1. Text \in Seq(Chars)
    BY <1>13, ReadyIsClean, CleanText, TextOfStr DEF ConcatenateInplace
  <2> QED BY <1>3, <1>13, <2>1
<1>14. ASSUME NEW view \in Views, ConcatenateInplace(view, FALSE) PROVE StepIsRight
  <2>1. view \in Seq(Chars)
    BY ViewsAre
  <2> QED BY <1>3, <1>14, <2>1
<1>15. ASSUME Calls PROVE StepIsRight
  BY <1>1, <1>2, <1>4, <1>5, <1>6, <1>7, <1>8, <1>9, <1>10, <1>11, <1>12, <1>13, <1>14, <1>15,
     ReplaceOwnStep, InvalidCodepointsStep, FreeStep
     DEF Calls
<1>16. ASSUME Steps PROVE StepIsRight
  BY <1>16, ReplaceNextStep, ReplaceDoneStep, SeekStep, CutStep, CutLastStep DEF Steps
<1> QED BY <1>15, <1>16, UnchangedStep DEF Next

LEMMA InvHolds == Spec => []IInv
<1>1. Init => IInv
  BY InitIsRight
<1>2. IInv /\ [Next]_vars => IInv'
  BY EveryStepIsRight DEF StepIsRight
<1> QED BY <1>1, <1>2, PTL DEF Spec

\* The string is always a block whose elements fit it, whatever the calls
\* before did to it, and the loops' indexes stay in its text.
THEOREM TypeCorrect == Spec => []TypeOK
<1>1. IInv => TypeOK
  BY DEF IInv
<1> QED BY <1>1, InvHolds, PTL

\* The pieces of a split follow each other from the start of the string, to its
\* end when the call returns, and hold delimiters only at their starts.
THEOREM SplitTiles == Spec => []PiecesTile
<1>1. IInv => PiecesTile
  <2> SUFFICES ASSUME IInv PROVE PiecesTile
    OBVIOUS
  <2>1. pieces \in Seq(Nat \X Nat) /\ PiecesFollow
    BY DEF IInv, PiecesFollow
  <2>2. DOMAIN pieces = 1 .. Len(pieces)
    BY <2>1
  <2>3. ASSUME NEW k \in DOMAIN pieces
        PROVE  /\ pieces[k][1] = IF k = 1 THEN 0 ELSE End(pieces[k - 1])
               /\ \A j \in pieces[k][1] + 2 .. End(pieces[k]) : Text[j] \notin delims
    <3>1. /\ pieces[k][1] = IF k = 1 THEN 0 ELSE End(pieces[k - 1])
          /\ IsFree(pieces[k][1] + 1, End(pieces[k]))
      BY <2>1, <2>2 DEF PiecesFollow
    <3>2. pieces[k] \in Nat \X Nat
      BY <2>1
    <3>3. (pieces[k][1] + 1) + 1 = pieces[k][1] + 2
      BY <3>2
    <3> QED BY <3>1, <3>3 DEF IsFree
  <2> QED BY <2>1, <2>3 DEF PiecesTile, PiecesFollow
<1> QED BY <1>1, InvHolds, PTL

\* A call that changes the string leaves a 0 behind it, but for concatenate_n
\* and a string made of no code points, which have capacity to spare.
THEOREM CallsTerminate == Spec => Terminates
<1>1. IInv /\ [Next]_vars =>
        [str' # str /\ ~A!IsNull(str') /\ ~zero' =>
           /\ str'.size < str'.cap
           /\ \/ CodepointsToString(<<>>, 0)
              \/ \E args \in Args : ConcatenateN(args)]_vars
  BY EveryStepIsRight DEF StepIsRight, EndsInZeroOrSpare
<1> QED BY <1>1, InvHolds, PTL DEF Spec, Terminates

\* Memory is misused only by appending a string to itself, by copies of an
\* empty view, by a replacement longer than what it replaces, unless it is
\* exactly twice as long, and by one taken from the string itself, when it
\* overlaps the place it is copied to or is longer than what it replaces.
THEOREM StringMisuseIsNarrow == Spec => MisuseIsNarrow
<1>1. IInv /\ [Next]_vars =>
        [fault' # fault =>
           \/ fault' = "use after free" /\ ConcatenateInplace(Text, TRUE)
           \/ fault' = "null copy"
           \/ /\ fault' \in {"overflow", "unwritten"}
              /\ \E s \in Views, len \in Indexes :
                   /\ \/ ReplaceNext /\ s = with /\ len = Len(find)
                      \/ \E from \in Indexes : ReplaceRange(s, from, len)
                   /\ Len(s) > len /\ Len(s) # 2 * len
           \/ \E n \in 1 .. MaxView, at, from, len \in Indexes :
                /\ ReplaceOwn(at, n, from, len)
                /\ \/ fault' = "use after free" /\ n > len
                   \/ fault' = "overlap" /\ at \in from - n + 1 .. from + n - 1]_vars
  BY EveryStepIsRight DEF StepIsRight, MisusesNarrowly
<1> QED BY <1>1, InvHolds, PTL DEF Spec, MisuseIsNarrow

\* A replacement that ends has replaced every occurrence, from the first on and
\* without searching what it put in, of any text that is not empty.
THEOREM ReplaceIsRight == Spec => ReplacesAll
<1>1. IInv /\ [Next]_vars => [pc = "replace" /\ pc' = "idle" /\ find # <<>> => Text = goal]_vars
  <2> SUFFICES ASSUME IInv, Next, pc = "replace", pc' = "idle", find # <<>>
               PROVE  Text = goal
    OBVIOUS
  <2>1. ~Calls
    BY DEF Calls, MakeDynamic, VFormat, ConcatenateInplace, Concatenate, ConcatenateN,
           CodepointsToString, AppendChar, Replicate, ReplaceRange, ReplaceOwn, ReplaceFirst,
           Replace, Split, InvalidCodepoints, Free, Makes, Ready
  <2>2. ReplaceDone
    BY <2>1 DEF Next, Steps, ReplaceNext, Seek, Cut, CutLast
  <2> QED BY <2>2, ReplaceDoneIsRight
<1> QED BY <1>1, InvHolds, PTL DEF Spec, ReplacesAll

-----------------------------------------------------------------------------
(* That replacing ends. *)

\* The characters replace has still to search, and its last round.
SearchLeft == IF pc = "replace" THEN str.size - start + 1 ELSE 0

\* Replacing does not run for ever, unless what is searched is empty: however
\* long the replacement, each round leaves less to search, as it takes up a
\* character at least and does not search what it put in; and the last round
\* ends the call.
THEOREM EveryReplaceEnds ==
  Spec => /\ [](SearchLeft \in Nat)
          /\ [][(ReplaceNext \/ ReplaceDone) /\ find # <<>> => SearchLeft' < SearchLeft]_vars
<1>1. IInv => SearchLeft \in Nat
  <2> SUFFICES ASSUME IInv, pc = "replace" PROVE str.size - start + 1 \in Nat
    BY DEF SearchLeft
  <2>1. start \in 0 .. str.size /\ Good(str)
    BY DEF IInv, TypeOK, Good
  <2>2. str.size \in Nat
    BY <2>1, GoodBlock
  <2> QED BY <2>1, <2>2
<1>2. ASSUME IInv, ReplaceNext, find # <<>>
      PROVE  SearchLeft' < SearchLeft
  <2>1. pc = "replace" /\ pc' = "replace"
    BY <1>2 DEF ReplaceNext
  <2>2. str'.size - start' < str.size - start /\ IInv'
    BY <1>2, ReplaceNextStep DEF StepIsRight
  <2>3. /\ start \in 0 .. str.size /\ Good(str)
        /\ start' \in 0 .. str'.size /\ Good(str')
    BY <1>2, <2>1, <2>2 DEF IInv, TypeOK, Good
  <2>4. str.size \in Nat /\ str'.size \in Nat
    BY <2>3, GoodBlock
  <2> QED BY <2>1, <2>2, <2>3, <2>4 DEF SearchLeft
<1>3. ASSUME IInv, ReplaceDone
      PROVE  SearchLeft' < SearchLeft
  <2>1. pc = "replace" /\ pc' = "idle"
    BY <1>3 DEF ReplaceDone
  <2>2. start \in 0 .. str.size /\ Good(str)
    BY <1>3, <2>1 DEF IInv, TypeOK, Good
  <2>3. str.size \in Nat
    BY <2>2, GoodBlock
  <2> QED BY <2>1, <2>2, <2>3 DEF SearchLeft
<1>4. IInv /\ [Next]_vars =>
        [(ReplaceNext \/ ReplaceDone) /\ find # <<>> => SearchLeft' < SearchLeft]_vars
  BY <1>2, <1>3
<1> QED BY <1>1, <1>4, InvHolds, PTL DEF Spec
=============================================================================
