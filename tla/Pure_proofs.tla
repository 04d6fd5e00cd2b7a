------------------------------ MODULE Pure_proofs ------------------------------
(***************************************************************************)
(* What PureMC's run checks of arguments that are small or sampled, for    *)
(* all: every word of up to 64 bits, every code point, all texts.          *)
(***************************************************************************)
EXTENDS PureMC, Induction, SequenceTheorems

-----------------------------------------------------------------------------
(* Comparing views. *)

LEMMA LeastOf ==
  ASSUME NEW S \in SUBSET Nat, S # {}
  PROVE  Min(S) \in S /\ \A y \in S : Min(S) <= y
BY LeastNumber DEF Min

\* The sign of memcmp is that of the first difference.
LEMMA MemCmpIs ==
  ASSUME NEW a \in Seq(Nat), NEW b \in Seq(Nat), NEW n \in Nat, n <= Len(a), n <= Len(b)
  PROVE  /\ MemCmp(a, b, n) = 0 <=> \A j \in 1 .. n : a[j] = b[j]
         /\ MemCmp(a, b, n) < 0 <=> \E j \in 1 .. n : a[j] < b[j] /\ \A i \in 1 .. j - 1 : a[i] = b[i]
<1> DEFINE differ == {j \in 1 .. n : a[j] # b[j]}
           first  == Min(differ)
<1>1. \A j \in 1 .. n : a[j] \in Nat /\ b[j] \in Nat
  OBVIOUS
<1>2. CASE differ = {}
  <2>1. MemCmp(a, b, n) = 0
    BY <1>2 DEF MemCmp
  <2>2. \A j \in 1 .. n : a[j] = b[j]
    BY <1>2
  <2> QED BY <1>1, <2>1, <2>2
<1>3. CASE differ # {}
  <2>1. first \in differ /\ \A j \in differ : first <= j
    <3> differ \in SUBSET Nat
      OBVIOUS
    <3> HIDE DEF differ
    <3> QED BY <1>3, LeastOf
  <2>2. MemCmp(a, b, n) = a[first] - b[first]
    BY <1>3 DEF MemCmp
  <2> HIDE DEF first
  <2>3. first \in 1 .. n /\ a[first] # b[first]
    BY <2>1
  <2>4. \A i \in 1 .. first - 1 : a[i] = b[i]
    BY <2>1, <2>3
  <2>5. ASSUME NEW j \in 1 .. n, a[j] < b[j], \A i \in 1 .. j - 1 : a[i] = b[i]
        PROVE  j = first
    <3>1. j \in differ
      BY <1>1, <2>5
    <3>2. ~(first < j)
      BY <2>3, <2>5
    <3> QED BY <2>1, <2>3, <3>1, <3>2
  <2>6. MemCmp(a, b, n) # 0 /\ (MemCmp(a, b, n) < 0 <=> a[first] < b[first])
    BY <1>1, <2>2, <2>3
  <2> QED BY <2>3, <2>4, <2>5, <2>6
<1> QED BY <1>2, <1>3

LEMMA Wraps ==
  ASSUME NEW m \in Nat \ {0}
  PROVE  /\ \A n \in 0 .. m - 1 : n % m = n
         /\ \A n \in -m .. -1 : n % m = n + m
OBVIOUS

LEMMA SizeTIs ==
  /\ \A n \in 0 .. SizeMax : SizeT(n) = n
  /\ \A n \in -SizeMax - 1 .. -1 : SizeT(n) = n + SizeMax + 1
<1> DEFINE m == SizeMax + 1
<1>1. m \in Nat \ {0} /\ m - 1 = SizeMax /\ SizeMax \in Nat
  BY LimitsAssumption
<1>2. \A n : SizeT(n) = n % m
  BY DEF SizeT
<1> HIDE DEF m
<1> QED BY <1>1, <1>2, Wraps

LEMMA AsIntIs == \A n \in -IntMax - 1 .. IntMax : AsInt(n) = n
<1> SUFFICES ASSUME NEW n \in -IntMax - 1 .. IntMax PROVE AsInt(n) = n
  OBVIOUS
<1> DEFINE m == 2 * (IntMax + 1)
<1>1. m \in Nat \ {0} /\ IntMax \in Nat /\ m = 2 * IntMax + 2
  BY LimitsAssumption
<1>2. AsInt(n) = IF n % m > IntMax THEN (n % m) - m ELSE n % m
  BY DEF AsInt
<1> HIDE DEF m
<1>3. CASE n < 0
  <2>1. n % m = n + m
    BY <1>1, <1>3, Wraps
  <2> QED BY <1>1, <1>2, <1>3, <2>1
<1>4. CASE n >= 0
  <2>1. n % m = n
    BY <1>1, <1>4, Wraps
  <2> QED BY <1>1, <1>2, <1>4, <2>1
<1> QED BY <1>1, <1>3, <1>4

LEMMA AsIntTurns ==
  /\ \A n \in IntMax + 1 .. 2 * IntMax + 1 : AsInt(n) < 0
  /\ \A n \in -(2 * IntMax + 1) .. -IntMax - 2 : AsInt(n) > 0
<1> DEFINE m == 2 * (IntMax + 1)
<1>1. m \in Nat \ {0} /\ IntMax \in Nat /\ m = 2 * IntMax + 2
  BY LimitsAssumption
<1>2. \A n : AsInt(n) = IF n % m > IntMax THEN (n % m) - m ELSE n % m
  BY DEF AsInt
<1> HIDE DEF m
<1>3. ASSUME NEW n \in IntMax + 1 .. 2 * IntMax + 1 PROVE AsInt(n) < 0
  <2>1. n % m = n
    BY <1>1, Wraps
  <2> QED BY <1>1, <1>2, <2>1
<1>4. ASSUME NEW n \in -(2 * IntMax + 1) .. -IntMax - 2 PROVE AsInt(n) > 0
  <2>1. n % m = n + m
    BY <1>1, Wraps
  <2> QED BY <1>1, <1>2, <2>1
<1> QED BY <1>3, <1>4

\* Views of the texts of the run: sequences of characters no longer than MaxText.
LEMMA TextsAre ==
  /\ MaxText \in Nat /\ MaxText < SizeMax /\ SizeMax \in Nat /\ IntMax \in Nat
  /\ \A s \in Texts : s \in Seq(Nat) /\ Len(s) \in 0 .. MaxText
<1>1. MaxText \in Nat /\ MaxText < SizeMax /\ SizeMax \in Nat /\ IntMax \in Nat /\ Chars \subseteq Nat
  BY ArgumentsAssumption, LimitsAssumption
<1>2. ASSUME NEW s \in Texts
      PROVE  s \in Seq(Nat) /\ Len(s) \in 0 .. MaxText
  <2>1. PICK n \in 0 .. MaxText : s \in [1 .. n -> Chars]
    BY DEF Texts
  <2>2. n \in Nat /\ n <= MaxText
    BY <1>1
  <2>4. s \in [1 .. n -> Nat]
    <3>1. s = [j \in 1 .. n |-> s[j]] /\ \A j \in 1 .. n : s[j] \in Nat
      BY <1>1, <2>1
    <3> QED BY <3>1
  <2>3. s \in Seq(Nat) /\ Len(s) = n
    BY <2>2, <2>4
  <2> QED BY <2>2, <2>3
<1> QED BY <1>1, <1>2

\* What the run's Precedes orders, Compare does.
LEMMA CompareIs ==
  ASSUME NEW a \in Seq(Nat), NEW b \in Seq(Nat), Len(a) - Len(b) \in -IntMax - 1 .. IntMax
  PROVE  /\ Compare(a, b) < 0 <=> Precedes(a, b)
         /\ Compare(a, b) = 0 <=> a = b
<1>1. Len(a) \in Nat /\ Len(b) \in Nat /\ DOMAIN a = 1 .. Len(a) /\ DOMAIN b = 1 .. Len(b)
  OBVIOUS
<1>2. CASE Len(a) # Len(b)
  <2>1. Compare(a, b) = Len(a) - Len(b)
    BY <1>2, AsIntIs DEF Compare
  <2>2. a # b
    BY <1>2
  <2>3. Compare(a, b) < 0 <=> Len(a) < Len(b)
    BY <1>1, <2>1
  <2>4. Compare(a, b) # 0
    <3>1. \A m, n \in Nat : m # n => m - n # 0
      OBVIOUS
    <3> QED BY <1>1, <1>2, <2>1, <3>1
  <2> QED BY <1>2, <2>2, <2>3, <2>4 DEF Precedes
<1>3. CASE Len(a) = Len(b)
  <2>1. Compare(a, b) = MemCmp(a, b, Len(a))
    BY <1>3 DEF Compare
  <2>2. /\ Compare(a, b) = 0 <=> \A j \in 1 .. Len(a) : a[j] = b[j]
        /\ Compare(a, b) < 0 <=> \E j \in 1 .. Len(a) : a[j] < b[j] /\ \A i \in 1 .. j - 1 : a[i] = b[i]
    <3>1. Len(a) \in Nat /\ Len(a) <= Len(a) /\ Len(a) <= Len(b)
      BY <1>1, <1>3
    <3>2. MemCmp(a, b, Len(a)) = 0 <=> \A j \in 1 .. Len(a) : a[j] = b[j]
      BY <3>1, MemCmpIs
    <3>3. MemCmp(a, b, Len(a)) < 0 <=> \E j \in 1 .. Len(a) : a[j] < b[j] /\ \A i \in 1 .. j - 1 : a[i] = b[i]
      BY <3>1, MemCmpIs
    <3> QED BY <2>1, <3>2, <3>3
  <2>3. a = b <=> \A j \in 1 .. Len(a) : a[j] = b[j]
    BY <1>3, SeqEqual
  <2>4. ~(Len(a) < Len(b))
    BY <1>1, <1>3
  <2> QED BY <1>1, <1>3, <2>2, <2>3, <2>4 DEF Precedes
<1> QED BY <1>2, <1>3

\* Of two texts whose lengths are further apart than an int holds, the longer
\* one is taken for the lesser.
LEMMA CompareTurns ==
  ASSUME NEW a \in Seq(Nat), NEW b \in Seq(Nat)
  PROVE  /\ Len(a) - Len(b) \in IntMax + 1 .. 2 * IntMax + 1 => Compare(a, b) < 0
         /\ Len(a) - Len(b) \in -(2 * IntMax + 1) .. -IntMax - 2 => Compare(a, b) > 0
<1>1. Len(a) \in Nat /\ Len(b) \in Nat /\ IntMax \in Nat
  BY LimitsAssumption
<1>2. Len(a) = Len(b) => Len(a) - Len(b) = 0
  BY <1>1
<1>3. Len(a) # Len(b) => Compare(a, b) = AsInt(Len(a) - Len(b))
  BY DEF Compare
<1> QED BY <1>1, <1>2, <1>3, AsIntTurns

LEMMA ViewEqualIs ==
  ASSUME NEW a \in Seq(Nat), NEW b \in Seq(Nat), Len(a) = Len(b)
  PROVE  ViewEqual(a, b) <=> a = b
<1>1. Len(a) \in Nat /\ Len(a) <= Len(a) /\ Len(a) <= Len(b)
  OBVIOUS
<1>2. MemCmp(a, b, Len(a)) = 0 <=> \A j \in 1 .. Len(a) : a[j] = b[j]
  BY <1>1, MemCmpIs
<1>3. a = b <=> \A j \in 1 .. Len(a) : a[j] = b[j]
  BY SeqEqual
<1> QED BY <1>2, <1>3 DEF ViewEqual

LEMMA AtIs ==
  ASSUME NEW s \in Seq(Nat), NEW needle \in Seq(Nat), NEW from \in Nat, Len(s) <= SizeMax
  PROVE  /\ At(s, needle, from) = "yes" <=> IsAt(s, needle, from)
         /\ At(s, needle, from) = "assert" => from + Len(needle) > Len(s)
         /\ At(s, needle, from) = "outside" => from + Len(needle) > SizeMax
<1> DEFINE sub == SubSeq(s, from + 1, from + Len(needle))
           end == from + Len(needle)
<1>0. Len(s) \in Nat /\ Len(needle) \in Nat /\ SizeMax \in Nat /\ end \in Nat
  BY LimitsAssumption
<1>1. CASE end <= Len(s)
  <2>1. SizeT(end) = end
    BY <1>0, <1>1, SizeTIs
  <2>2. sub \in Seq(Nat) /\ Len(sub) = Len(needle)
    BY <1>0, <1>1
  <2>3. ViewEqual(sub, needle) <=> sub = needle
    BY <2>2, ViewEqualIs
  <2>4. At(s, needle, from) = IF ViewEqual(sub, needle) THEN "yes" ELSE "no"
    BY <1>0, <1>1, <2>1 DEF At
  <2> QED BY <1>0, <1>1, <2>3, <2>4 DEF IsAt
<1>2. CASE end > Len(s)
  <2>1. At(s, needle, from) = IF SizeT(end) > Len(s) THEN "assert" ELSE "outside"
    BY <1>0, <1>2 DEF At
  <2>2. end <= SizeMax => SizeT(end) = end
    BY <1>0, SizeTIs
  <2> QED BY <1>0, <1>2, <2>1, <2>2 DEF IsAt
<1> QED BY <1>0, <1>1, <1>2

LEMMA StartsWithIs ==
  ASSUME NEW s \in Seq(Nat), NEW needle \in Seq(Nat), NEW start \in 0 .. SizeMax,
         Len(s) <= SizeMax, Len(needle) <= SizeMax
  PROVE  LET is == StartsWith(s, needle, start)
         IN  /\ is = "yes" <=> IsAt(s, needle, start)
             /\ is = "assert" => start > Len(s)
             /\ is = "outside" => start + Len(needle) > SizeMax
<1>0. Len(s) \in Nat /\ Len(needle) \in Nat /\ SizeMax \in Nat /\ start \in Nat
  BY LimitsAssumption
<1>1. /\ At(s, needle, start) = "yes" <=> IsAt(s, needle, start)
      /\ At(s, needle, start) = "assert" => start + Len(needle) > Len(s)
      /\ At(s, needle, start) = "outside" => start + Len(needle) > SizeMax
  BY <1>0, AtIs
<1>2. CASE start <= Len(s)
  <2>1. SizeT(Len(s) - start) = Len(s) - start
    BY <1>0, <1>2, SizeTIs
  <2>2. StartsWith(s, needle, start) = IF start + Len(needle) > Len(s) THEN "no" ELSE At(s, needle, start)
    BY <1>0, <2>1 DEF StartsWith
  <2> QED BY <1>0, <1>1, <2>2 DEF IsAt
<1>3. CASE start > Len(s)
  <2>1. StartsWith(s, needle, start) \in {"no", At(s, needle, start)}
    BY DEF StartsWith
  <2>2. ~IsAt(s, needle, start)
    BY <1>0, <1>3 DEF IsAt
  <2> QED BY <1>0, <1>1, <1>3, <2>1, <2>2
<1> QED BY <1>0, <1>2, <1>3

LEMMA EndsWithIs ==
  ASSUME NEW s \in Seq(Nat), NEW needle \in Seq(Nat), NEW end \in -SizeMax .. SizeMax,
         Len(s) <= SizeMax, Len(needle) <= SizeMax
  PROVE  LET is   == EndsWith(s, needle, end)
             stop == IF end <= 0 THEN Len(s) + end ELSE end
         IN  /\ is = "yes" <=> stop <= Len(s) /\ IsAt(s, needle, stop - Len(needle))
             /\ is = "assert" => stop \notin 0 .. Len(s)
             /\ is # "outside"
<1> DEFINE is   == EndsWith(s, needle, end)
           stop == IF end <= 0 THEN Len(s) + end ELSE end
           last == SizeT(stop)
           from == last - Len(needle)
<1>0. /\ Len(s) \in Nat /\ Len(needle) \in Nat /\ SizeMax \in Nat /\ end \in Int /\ stop \in Int
      /\ -SizeMax <= stop /\ stop <= SizeMax
      /\ is = IF Len(needle) > last THEN "no" ELSE At(s, needle, from)
  <2>1. Len(s) \in Nat /\ Len(needle) \in Nat /\ SizeMax \in Nat /\ end \in Int
    BY LimitsAssumption
  <2> QED BY <2>1 DEF EndsWith
<1>1. /\ stop >= 0 => last = stop
      /\ stop < 0 => last = stop + SizeMax + 1 /\ last > Len(s)
  <2>1. stop < 0 => stop = Len(s) + end
    BY <1>0
  <2>2. stop >= 0 => last = stop
    BY <1>0, SizeTIs
  <2>3. stop < 0 => last = stop + SizeMax + 1
    BY <1>0, SizeTIs
  <2> QED BY <1>0, <2>1, <2>2, <2>3
<1>2. last \in 0 .. SizeMax
  BY <1>0, <1>1
<1> HIDE DEF is, stop, last
<1>3. CASE Len(needle) > last
  <2>1. stop < 0 \/ stop - Len(needle) < 0
    BY <1>0, <1>1, <1>3
  <2>2. ~IsAt(s, needle, stop - Len(needle))
    BY <1>0, <2>1 DEF IsAt
  <2> QED BY <1>0, <1>3, <2>2 DEF is, stop
<1>4. CASE Len(needle) <= last
  <2>1. from \in Nat /\ from + Len(needle) = last /\ is = At(s, needle, from)
    BY <1>0, <1>2, <1>4
  <2>2. /\ is = "yes" <=> IsAt(s, needle, from)
        /\ is = "assert" => last > Len(s)
        /\ is # "outside"
    BY <1>0, <1>2, <2>1, AtIs
  <2>3. CASE stop >= 0
    <3>1. from = stop - Len(needle) /\ last = stop
      BY <1>1, <2>3
    <3>2. IsAt(s, needle, from) => stop <= Len(s)
      BY <1>0, <2>1, <3>1 DEF IsAt
    <3> QED BY <1>0, <2>2, <3>1, <3>2 DEF is, stop
  <2>4. CASE stop < 0
    <3>1. ~IsAt(s, needle, from)
      BY <1>0, <1>1, <2>1, <2>4 DEF IsAt
    <3>2. ~IsAt(s, needle, stop - Len(needle))
      BY <1>0, <2>4 DEF IsAt
    <3> QED BY <1>0, <2>2, <2>4, <3>1, <3>2 DEF is, stop
  <2> QED BY <1>0, <2>3, <2>4
<1> QED BY <1>0, <1>2, <1>3, <1>4

\* The arguments stay the ones the run starts with.
Arguments == arg \in Nat /\ (texts = <<>> \/ texts \in Texts \X Texts)

LEMMA ArgumentsStay == Spec => []Arguments
<1>1. Init => Arguments
  <2>1. Words \subseteq Nat
    BY DEF Words
  <2>2. \A k \in 0 .. Beyond \div Stride : Stride * k \in Nat
    BY ArgumentsAssumption
  <2>3. Words \cup {Stride * k : k \in 0 .. Beyond \div Stride} \subseteq Nat
    BY <2>1, <2>2
  <2>4. 0 \in Nat
    OBVIOUS
  <2> QED BY <2>3, <2>4, Zenon DEF Init, Arguments
<1>2. Arguments /\ [Next]_<<arg, texts>> => Arguments'
  BY DEF Arguments, Next, Texts
<1> QED BY <1>1, <1>2, PTL DEF Spec

\* fp_string_view_compare orders all texts, of any characters, whose lengths
\* differ by no more than an int holds, and puts the longer first just beyond.
THEOREM ComparisonsOrder == Spec => []CompareOrders
<1>1. Arguments => CompareOrders
  <2> SUFFICES ASSUME texts \in Texts \X Texts PROVE CompareOrders
    BY DEF Arguments, CompareOrders
  <2>1. texts[1] \in Seq(Nat) /\ texts[2] \in Seq(Nat)
    BY TextsAre
  <2> QED BY <2>1, CompareIs, CompareTurns DEF CompareOrders
<1> QED BY <1>1, ArgumentsStay, PTL

\* fp_string_view_starts_with and fp_string_view_ends_with are right of all
\* texts, and read outside of one only where a sum of two sizes wraps.
THEOREM AffixesAreFound == Spec => []AffixesAreRight
<1>1. Arguments => AffixesAreRight
  <2> SUFFICES ASSUME texts \in Texts \X Texts PROVE AffixesAreRight
    BY DEF Arguments, AffixesAreRight
  <2> DEFINE s == texts[1]
             n == texts[2]
  <2>1. /\ s \in Seq(Nat) /\ n \in Seq(Nat)
        /\ Len(s) <= SizeMax /\ Len(n) <= SizeMax /\ SizeMax \in Nat
        /\ MaxText \in Nat /\ MaxText < SizeMax
    <3>1. s \in Texts /\ n \in Texts
      OBVIOUS
    <3> HIDE DEF s, n
    <3> QED BY <3>1, TextsAre
  <2>2. Starts \subseteq 0 .. SizeMax
    <3>1. \A k \in 1 .. MaxText : SizeT(-k) \in 0 .. SizeMax
      BY <2>1, SizeTIs
    <3> QED BY <2>1, <3>1 DEF Starts
  <2>3. Ends \subseteq -SizeMax .. SizeMax
    BY <2>1 DEF Ends
  <2> HIDE DEF s, n
  <2>4. \A start \in Starts :
          LET is == StartsWith(s, n, start)
          IN  /\ is = "yes" <=> IsAt(s, n, start)
              /\ is = "assert" => start > Len(s)
              /\ is = "outside" => start + Len(n) > SizeMax
    BY <2>1, <2>2, StartsWithIs
  <2>5. \A end \in Ends :
          LET is == EndsWith(s, n, end)
              stop == IF end <= 0 THEN Len(s) + end ELSE end
          IN  /\ is = "yes" <=> stop <= Len(s) /\ IsAt(s, n, stop - Len(n))
              /\ is = "assert" => stop \notin 0 .. Len(s)
              /\ is # "outside"
    BY <2>1, <2>3, EndsWithIs
  <2> QED BY <2>4, <2>5 DEF AffixesAreRight, s, n
<1> QED BY <1>1, ArgumentsStay, PTL

-----------------------------------------------------------------------------
(* UTF-8. *)

Byte == 0 .. 255

\* Which bytes a sequence starts with, and how long it is.
LEMMA FollowIs ==
  ASSUME NEW byte \in Byte
  PROVE  Follow(byte) = IF byte < 128 THEN 0
                        ELSE IF byte < 192 THEN GivesUp
                        ELSE IF byte < 224 THEN 1
                        ELSE IF byte < 240 THEN 2
                        ELSE IF byte < 248 THEN 3
                        ELSE GivesUp
<1>1. /\ byte \div 32 = 6 <=> byte >= 192 /\ byte < 224
      /\ byte \div 16 = 14 <=> byte >= 224 /\ byte < 240
      /\ byte \div 8 = 30 <=> byte >= 240 /\ byte < 248
  BY DEF Byte
<1>2. CASE byte < 128
  BY <1>1, <1>2 DEF Follow, Byte
<1>3. CASE byte >= 192 /\ byte < 224
  BY <1>1, <1>3 DEF Follow, Byte
<1>4. CASE byte >= 224 /\ byte < 240
  BY <1>1, <1>4 DEF Follow, Byte
<1>5. CASE byte >= 240 /\ byte < 248
  BY <1>1, <1>5 DEF Follow, Byte
<1>6. CASE (byte >= 128 /\ byte < 192) \/ byte >= 248
  BY <1>1, <1>6 DEF Follow, Byte
<1> QED BY <1>2, <1>3, <1>4, <1>5, <1>6 DEF Byte

\* The encodings of one to four bytes.
LEMMA EncodeIs ==
  ASSUME NEW c \in Nat
  PROVE  /\ c <= 127 => Encode(c) = <<c>>
         /\ 127 < c /\ c <= 2047 => Encode(c) = <<192 + c \div 64, Six(c)>>
         /\ 2047 < c /\ c <= 65535 => Encode(c) = <<224 + c \div 64^2, Six(c \div 64), Six(c)>>
         /\ 65535 < c /\ c <= MaxCodepoint =>
              Encode(c) = <<240 + c \div 64^3, Six(c \div 64^2), Six(c \div 64), Six(c)>>
BY DEF Encode, MaxCodepoint

LEMMA CodepointIs ==
  ASSUME NEW c \in Codepoints
  PROVE  /\ c \in Nat
         /\ \/ c <= 127
            \/ 127 < c /\ c <= 2047
            \/ 2047 < c /\ c <= 65535
            \/ 65535 < c /\ c <= MaxCodepoint
<1>1. MaxCodepoint \in Int
  BY DEF MaxCodepoint
<1>2. c \in Nat /\ c <= MaxCodepoint
  BY <1>1 DEF Codepoints
<1> QED BY <1>1, <1>2

\* A code point in groups of six bits.
LEMMA SixBits ==
  ASSUME NEW c \in Codepoints
  PROVE  LET d == c \div 64
             f == c \div 64^2
             g == c \div 64^3
         IN  /\ d \in Nat /\ f \in Nat /\ g \in Nat
             /\ c = d * 64 + (c % 64) /\ d = f * 64 + (d % 64) /\ f = g * 64 + (f % 64)
             /\ c <= 2047 => d \in 0 .. 31
             /\ c <= 65535 => f \in 0 .. 15
             /\ g \in 0 .. 7
<1> DEFINE d == c \div 64
           f == d \div 64
           g == f \div 64
<1>1. c \in Nat
  BY CodepointIs
<1>2. \A m \in Nat : m \div 64 \in Nat /\ m = (m \div 64) * 64 + (m % 64) /\ m % 64 \in 0 .. 63
  OBVIOUS
<1>3. /\ d \in Nat /\ f \in Nat /\ g \in Nat
      /\ c = d * 64 + (c % 64) /\ d = f * 64 + (d % 64) /\ f = g * 64 + (f % 64)
      /\ c % 64 \in 0 .. 63 /\ d % 64 \in 0 .. 63 /\ f % 64 \in 0 .. 63
  BY <1>1, <1>2
<1>4. c \div 64^2 = f /\ c \div 64^3 = g
  <2>1. 64^2 = 4096 /\ 64^3 = 262144
    BY SMT
  <2>2. \A m \in Nat : m \div 4096 = (m \div 64) \div 64
    BY SMT
  <2>3. \A m \in Nat : m \div 262144 = (m \div 4096) \div 64
    BY SMT
  <2> QED BY <1>1, <2>1, <2>2, <2>3, SMT
<1> DEFINE k == c % 64
           l == d % 64
           m == f % 64
<1>5. /\ k \in 0 .. 63 /\ l \in 0 .. 63 /\ m \in 0 .. 63
      /\ c = d * 64 + k /\ d = f * 64 + l /\ f = g * 64 + m
      /\ d \in Nat /\ f \in Nat /\ g \in Nat
  BY <1>3
<1> HIDE DEF d, f, g, k, l, m
<1>6. (c <= 2047 => d \in 0 .. 31) /\ (c <= 65535 => f \in 0 .. 15)
  BY <1>1, <1>5, SMT
<1>7. g \in 0 .. 7
  <2>1. c <= 2097151
    <3>1. MaxCodepoint \in Int /\ MaxCodepoint <= 2097151
      BY DEF MaxCodepoint
    <3> QED BY <1>1, <3>1 DEF Codepoints
  <2> QED BY <1>1, <1>5, <2>1, SMT
<1> QED BY <1>3, <1>4, <1>6, <1>7 DEF d, f, g

LEMMA SixIs == \A bits \in Nat : Six(bits) \in 128 .. 191 /\ Six(bits) % 64 = bits % 64
BY DEF Six

\* Only the first byte of an encoding is one a sequence starts with.
LEMMA EncodingIs ==
  ASSUME NEW c \in Codepoints
  PROVE  LET b == Encode(c)
         IN  /\ b \in Seq(Byte) /\ Len(b) \in 1 .. 4
             /\ Follow(b[1]) = Len(b) - 1
             /\ \A j \in 2 .. Len(b) : Follow(b[j]) = GivesUp
<1> DEFINE b == Encode(c)
<1> c \in Nat
  BY CodepointIs
<1>1. CASE c <= 127
  <2>1. b = <<c>> /\ c \in Byte
    BY <1>1, EncodeIs DEF Byte
  <2>2. Follow(c) = 0
    BY <1>1, <2>1, FollowIs
  <2> QED BY <2>1, <2>2
<1>2. CASE 127 < c /\ c <= 2047
  <2> DEFINE h == 192 + c \div 64
  <2>1. b = <<h, Six(c)>>
    BY <1>2, EncodeIs
  <2>2. h \in 192 .. 223 /\ Six(c) \in 128 .. 191
    BY <1>2, SixBits, SixIs
  <2> HIDE DEF h, b
  <2>3. h \in Byte /\ Six(c) \in Byte /\ Follow(h) = 1 /\ Follow(Six(c)) = GivesUp
    BY <2>2, FollowIs DEF Byte
  <2>4. Len(b) = 2 /\ b[1] = h /\ b[2] = Six(c) /\ b \in Seq(Byte)
    BY <2>1, <2>3
  <2> QED BY <2>3, <2>4 DEF b
<1>3. CASE 2047 < c /\ c <= 65535
  <2> DEFINE h == 224 + c \div 64^2
             d == c \div 64
  <2>1. b = <<h, Six(d), Six(c)>>
    BY <1>3, EncodeIs
  <2>2. h \in 224 .. 239 /\ Six(d) \in 128 .. 191 /\ Six(c) \in 128 .. 191
    <3>1. d \in Nat /\ c \in Nat /\ c \div 64^2 \in 0 .. 15
      BY <1>3, SixBits
    <3> QED BY <3>1, SixIs
  <2> HIDE DEF h, d, b
  <2>3. /\ h \in Byte /\ Six(d) \in Byte /\ Six(c) \in Byte
        /\ Follow(h) = 2 /\ Follow(Six(d)) = GivesUp /\ Follow(Six(c)) = GivesUp
    BY <2>2, FollowIs DEF Byte
  <2>4. Len(b) = 3 /\ b[1] = h /\ b[2] = Six(d) /\ b[3] = Six(c) /\ b \in Seq(Byte)
    BY <2>1, <2>3
  <2>5. \A j \in 2 .. 3 : j = 2 \/ j = 3
    OBVIOUS
  <2> QED BY <2>3, <2>4, <2>5 DEF b
<1>4. CASE 65535 < c /\ c <= MaxCodepoint
  <2> DEFINE h == 240 + c \div 64^3
             f == c \div 64^2
             d == c \div 64
  <2>1. b = <<h, Six(f), Six(d), Six(c)>>
    BY <1>4, EncodeIs
  <2>2. h \in 240 .. 247 /\ Six(f) \in 128 .. 191 /\ Six(d) \in 128 .. 191 /\ Six(c) \in 128 .. 191
    <3>1. f \in Nat /\ d \in Nat /\ c \in Nat /\ c \div 64^3 \in 0 .. 7
      BY SixBits
    <3> QED BY <3>1, SixIs
  <2> HIDE DEF h, f, d, b
  <2>3. /\ h \in Byte /\ Six(f) \in Byte /\ Six(d) \in Byte /\ Six(c) \in Byte
        /\ Follow(h) = 3 /\ Follow(Six(f)) = GivesUp /\ Follow(Six(d)) = GivesUp
        /\ Follow(Six(c)) = GivesUp
    BY <2>2, FollowIs DEF Byte
  <2>4. /\ Len(b) = 4 /\ b[1] = h /\ b[2] = Six(f) /\ b[3] = Six(d) /\ b[4] = Six(c)
        /\ b \in Seq(Byte)
    BY <2>1, <2>3
  <2>5. \A j \in 2 .. 4 : j = 2 \/ j = 3 \/ j = 4
    OBVIOUS
  <2> QED BY <2>3, <2>4, <2>5 DEF b
<1> HIDE DEF b
<1> QED BY <1>1, <1>2, <1>3, <1>4, CodepointIs, SMT DEF b

\* What is encoded at i is decoded there.
LEMMA CodeAtIs ==
  ASSUME NEW c \in Codepoints, NEW s, NEW i \in Nat,
         \A j \in 1 .. Len(Encode(c)) : s[i + (j - 1)] = Encode(c)[j]
  PROVE  CodeAt(s, i) = c
<1> DEFINE b == Encode(c)
<1> c \in Nat
  BY CodepointIs
<1>0. s[i] = b[1] /\ Follow(s[i]) = Len(b) - 1
  <2>1. Len(b) \in 1 .. 4 /\ Follow(b[1]) = Len(b) - 1
    BY EncodingIs
  <2>2. 1 \in 1 .. Len(b) /\ i + (1 - 1) = i
    BY <2>1
  <2> QED BY <2>1, <2>2
<1>1. CASE c <= 127
  <2>1. b = <<c>>
    BY <1>1, EncodeIs
  <2> QED BY <1>0, <2>1 DEF CodeAt
<1> DEFINE d == c \div 64
           f == c \div 64^2
           g == c \div 64^3
<1>2. /\ d \in Nat /\ f \in Nat /\ g \in Nat
      /\ c = d * 64 + (c % 64) /\ d = f * 64 + (d % 64) /\ f = g * 64 + (f % 64)
      /\ c % 64 \in Nat /\ d % 64 \in Nat /\ f % 64 \in Nat
  BY SixBits
<1>3. Six(c) % 64 = c % 64 /\ Six(d) % 64 = d % 64 /\ Six(f) % 64 = f % 64
  <2>1. d \in Nat /\ f \in Nat /\ c \in Nat
    BY <1>2
  <2> HIDE DEF d, f
  <2> QED BY <2>1, SixIs, Zenon
<1>4. CASE 127 < c /\ c <= 2047
  <2>1. b = <<192 + d, Six(c)>>
    BY <1>4, EncodeIs
  <2> HIDE DEF b, d, f, g
  <2>2. Len(b) = 2 /\ b[1] = 192 + d /\ b[2] = Six(c) /\ 2 \in 1 .. 2 /\ i + (2 - 1) = i + 1
    BY <2>1
  <2>3. s[i] = 192 + d /\ s[i + 1] % 64 = c % 64
    <3>1. s[i + 1] = b[2]
      BY <2>2 DEF b
    <3> QED BY <1>0, <1>3, <2>2, <3>1
  <2>4. CodeAt(s, i) = (s[i] % 32) * 64 + (s[i + 1] % 64)
    BY <1>0, <2>2 DEF CodeAt
  <2>5. s[i] % 32 = d
    <3>1. d \in 0 .. 31
      BY <1>4, SixBits DEF d
    <3>2. \A n \in 0 .. 31 : (192 + n) % 32 = n
      OBVIOUS
    <3> QED BY <2>3, <3>1, <3>2
  <2> QED BY <1>2, <2>3, <2>4, <2>5
<1>5. CASE 2047 < c /\ c <= 65535
  <2>1. b = <<224 + f, Six(d), Six(c)>>
    BY <1>5, EncodeIs
  <2> HIDE DEF b, d, f, g
  <2>2. /\ Len(b) = 3 /\ b[1] = 224 + f /\ b[2] = Six(d) /\ b[3] = Six(c)
        /\ 2 \in 1 .. 3 /\ 3 \in 1 .. 3 /\ i + (2 - 1) = i + 1 /\ i + (3 - 1) = i + 2
    BY <2>1
  <2>3. s[i] = 224 + f /\ s[i + 1] % 64 = d % 64 /\ s[i + 2] % 64 = c % 64
    <3>1. s[i + 1] = b[2] /\ s[i + 2] = b[3]
      BY <2>2 DEF b
    <3> QED BY <1>0, <1>3, <2>2, <3>1
  <2>4. CodeAt(s, i) = (s[i] % 16) * 64^2 + (s[i + 1] % 64) * 64 + (s[i + 2] % 64)
    BY <1>0, <2>2 DEF CodeAt
  <2>5. s[i] % 16 = f
    <3>1. f \in 0 .. 15
      BY <1>5, SixBits DEF f
    <3>2. \A n \in 0 .. 15 : (224 + n) % 16 = n
      OBVIOUS
    <3> QED BY <2>3, <3>1, <3>2
  <2>6. CodeAt(s, i) = f * 4096 + (d % 64) * 64 + (c % 64)
    <3>1. 64^2 = 4096
      OBVIOUS
    <3> QED BY <2>3, <2>4, <2>5, <3>1
  <2>7. CodeAt(s, i) = (f * 64 + (d % 64)) * 64 + (c % 64)
    <3>1. \A x, y, z \in Nat : x * 4096 + y * 64 + z = (x * 64 + y) * 64 + z
      BY SMT
    <3>2. f \in Nat /\ d % 64 \in Nat /\ c % 64 \in Nat
      BY <1>2, Zenon
    <3> QED BY <2>6, <3>1, <3>2
  <2> QED BY <1>2, <2>7, Zenon
<1>6. CASE 65535 < c /\ c <= MaxCodepoint
  <2>1. b = <<240 + g, Six(f), Six(d), Six(c)>>
    BY <1>6, EncodeIs
  <2> HIDE DEF b, d, f, g
  <2>2. /\ Len(b) = 4 /\ b[1] = 240 + g /\ b[2] = Six(f) /\ b[3] = Six(d) /\ b[4] = Six(c)
        /\ 2 \in 1 .. 4 /\ 3 \in 1 .. 4 /\ 4 \in 1 .. 4
        /\ i + (2 - 1) = i + 1 /\ i + (3 - 1) = i + 2 /\ i + (4 - 1) = i + 3
    BY <2>1
  <2>3. /\ s[i] = 240 + g /\ s[i + 1] % 64 = f % 64
        /\ s[i + 2] % 64 = d % 64 /\ s[i + 3] % 64 = c % 64
    <3>1. s[i + 1] = b[2] /\ s[i + 2] = b[3] /\ s[i + 3] = b[4]
      BY <2>2 DEF b
    <3> QED BY <1>0, <1>3, <2>2, <3>1
  <2>4. CodeAt(s, i) = (s[i] % 8) * 64^3 + (s[i + 1] % 64) * 64^2 + (s[i + 2] % 64) * 64 + (s[i + 3] % 64)
    BY <1>0, <2>2 DEF CodeAt
  <2>5. s[i] % 8 = g
    <3>1. g \in 0 .. 7
      BY SixBits DEF g
    <3>2. \A n \in 0 .. 7 : (240 + n) % 8 = n
      OBVIOUS
    <3> QED BY <2>3, <3>1, <3>2
  <2>6. CodeAt(s, i) = g * 262144 + (f % 64) * 4096 + (d % 64) * 64 + (c % 64)
    <3>1. 64^2 = 4096 /\ 64^3 = 262144
      BY SMT
    <3> QED BY <2>3, <2>4, <2>5, <3>1, SMT
  <2>7. CodeAt(s, i) = ((g * 64 + (f % 64)) * 64 + (d % 64)) * 64 + (c % 64)
    <3>1. \A w, x, y, z \in Nat : w * 262144 + x * 4096 + y * 64 + z = ((w * 64 + x) * 64 + y) * 64 + z
      BY SMT
    <3>2. g \in Nat /\ f % 64 \in Nat /\ d % 64 \in Nat /\ c % 64 \in Nat
      BY <1>2, Zenon
    <3> QED BY <2>6, <3>1, <3>2
  <2> QED BY <1>2, <2>7, Zenon
<1> HIDE DEF b, d, f, g
<1> QED BY <1>1, <1>4, <1>5, <1>6, CodepointIs, SMT

-----------------------------------------------------------------------------
(* The bytes of a text. *)

\* The loop of fp_codepoints_view_to_string: the bytes after each code point.
Lays(bytes, codepoints) ==
  /\ codepoints \in Seq(Codepoints)
  /\ bytes \in [0 .. Len(codepoints) -> Seq(Byte)]
  /\ bytes[0] = <<>>
  /\ \A n \in Nat : n < Len(codepoints) => bytes[n + 1] = bytes[n] \o Encode(codepoints[n + 1])

LEMMA Joined ==
  ASSUME NEW S, NEW s \in Seq(S), NEW t \in Seq(S)
  PROVE  /\ s \o t \in Seq(S) /\ Len(s \o t) = Len(s) + Len(t)
         /\ \A i \in 1 .. Len(s) : (s \o t)[i] = s[i]
         /\ \A i \in 1 .. Len(t) : (s \o t)[Len(s) + i] = t[i]
OBVIOUS

LEMMA EncodeAllLays ==
  ASSUME NEW codepoints \in Seq(Codepoints)
  PROVE  \E bytes : Lays(bytes, codepoints) /\ EncodeAll(codepoints) = bytes[Len(codepoints)]
<1> DEFINE m == Len(codepoints)
           step == [n \in Nat |-> [b \in Seq(Byte) |->
                      IF n < m THEN b \o Encode(codepoints[n + 1]) ELSE b]]
           IsBytes(f) == f = [n \in 0 .. m |->
                               IF n = 0 THEN <<>> ELSE f[n - 1] \o Encode(codepoints[n])]
           bytes == CHOOSE f : IsBytes(f)
<1>1. m \in Nat
  OBVIOUS
<1>2. IsRecursion(Seq(Byte), <<>>, step)
  <2>1. ASSUME NEW n \in Nat, NEW b \in Seq(Byte)
        PROVE  (IF n < m THEN b \o Encode(codepoints[n + 1]) ELSE b) \in Seq(Byte)
    <3>1. CASE n < m
      <4>1. codepoints[n + 1] \in Codepoints
        BY <1>1, <3>1
      <4>2. Encode(codepoints[n + 1]) \in Seq(Byte)
        BY <4>1, EncodingIs
      <4> QED BY <3>1, <4>2
    <3> QED BY <3>1
  <2>2. <<>> \in Seq(Byte)
    OBVIOUS
  <2> HIDE DEF m
  <2> QED BY <2>1, <2>2 DEF IsRecursion
<1>3. PICK f : SolvesUpTo(f, Seq(Byte), <<>>, step, m)
  BY <1>1, <1>2, RecursiveUpTo
<1>4. IsBytes(f)
  <2>0. f \in [0 .. m -> Seq(Byte)] /\ f[0] = <<>> /\ \A n \in Nat : n < m => f[n + 1] = step[n][f[n]]
    BY <1>3 DEF SolvesUpTo
  <2>1. ASSUME NEW n \in 0 .. m
        PROVE  f[n] = IF n = 0 THEN <<>> ELSE f[n - 1] \o Encode(codepoints[n])
    <3>1. CASE n = 0
      BY <2>0, <3>1
    <3>2. CASE n # 0
      <4>1. n - 1 \in Nat /\ n - 1 < m /\ n - 1 \in 0 .. m /\ (n - 1) + 1 = n
        BY <1>1, <3>2
      <4>2. f[n - 1] \in Seq(Byte)
        BY <2>0, <4>1
      <4>3. step[n - 1][f[n - 1]] = f[n - 1] \o Encode(codepoints[n])
        BY <4>1, <4>2
      <4> HIDE DEF step
      <4>4. f[(n - 1) + 1] = step[n - 1][f[n - 1]]
        BY <2>0, <4>1
      <4> QED BY <3>2, <4>1, <4>3, <4>4
    <3> QED BY <3>1, <3>2
  <2> HIDE DEF step, m
  <2>2. f = [n \in 0 .. m |-> f[n]]
    BY <2>0
  <2> QED BY <2>1, <2>2
<1>5. IsBytes(bytes)
  BY <1>4
<1>6. EncodeAll(codepoints) = bytes[m]
  BY DEF EncodeAll
<1> HIDE DEF bytes, step
<1>7. ASSUME NEW n \in 0 .. m
      PROVE  bytes[n] = IF n = 0 THEN <<>> ELSE bytes[n - 1] \o Encode(codepoints[n])
  BY <1>5
<1>8. bytes[0] = <<>> /\ \A n \in Nat : n < m => bytes[n + 1] = bytes[n] \o Encode(codepoints[n + 1])
  <2>1. bytes[0] = <<>>
    BY <1>1, <1>7
  <2>2. ASSUME NEW n \in Nat, n < m
        PROVE  bytes[n + 1] = bytes[n] \o Encode(codepoints[n + 1])
    <3>1. n + 1 \in 0 .. m /\ n + 1 # 0 /\ (n + 1) - 1 = n
      BY <1>1, <2>2
    <3> QED BY <1>7, <3>1
  <2> QED BY <2>1, <2>2
<1>9. bytes \in [0 .. m -> Seq(Byte)]
  <2> DEFINE S == {n \in Nat : n <= m => bytes[n] \in Seq(Byte)}
  <2>1. 0 \in S
    <3> <<>> \in Seq(Byte)
      OBVIOUS
    <3> QED BY <1>8
  <2>2. ASSUME NEW n \in Nat, n \in S
        PROVE  n + 1 \in S
    <3> SUFFICES ASSUME n < m PROVE bytes[n + 1] \in Seq(Byte)
      BY <1>1
    <3>1. codepoints[n + 1] \in Codepoints
      BY <1>1
    <3>2. Encode(codepoints[n + 1]) \in Seq(Byte) /\ bytes[n] \in Seq(Byte)
      BY <1>1, <2>2, <3>1, EncodingIs
    <3>3. bytes[n + 1] = bytes[n] \o Encode(codepoints[n + 1])
      BY <1>8
    <3> QED BY <3>2, <3>3, Joined
  <2> HIDE DEF S
  <2>3. \A n \in Nat : n \in S
    BY <2>1, <2>2, SetInduction
  <2>4. \A n \in 0 .. m : bytes[n] \in Seq(Byte)
    BY <2>3 DEF S
  <2>5. bytes = [n \in 0 .. m |-> bytes[n]]
    BY <1>5
  <2> HIDE DEF m
  <2> QED BY <2>4, <2>5
<1> QED BY <1>6, <1>8, <1>9 DEF Lays

\* Where each code point is in the text.
LEMMA LaidOut ==
  ASSUME NEW codepoints, NEW bytes, Lays(bytes, codepoints),
         NEW n \in Nat, n < Len(codepoints)
  PROVE  /\ codepoints[n + 1] \in Codepoints
         /\ bytes[n] \in Seq(Byte) /\ bytes[n + 1] \in Seq(Byte)
         /\ bytes[n + 1] = bytes[n] \o Encode(codepoints[n + 1])
         /\ Len(bytes[n + 1]) = Len(bytes[n]) + Len(Encode(codepoints[n + 1]))
         /\ Len(Encode(codepoints[n + 1])) \in 1 .. 4
<1> codepoints \in Seq(Codepoints)
  BY DEF Lays
<1>1. codepoints[n + 1] \in Codepoints
  OBVIOUS
<1>2. Encode(codepoints[n + 1]) \in Seq(Byte) /\ Len(Encode(codepoints[n + 1])) \in 1 .. 4
  BY <1>1, EncodingIs
<1>3. n \in 0 .. Len(codepoints) /\ n + 1 \in 0 .. Len(codepoints)
  OBVIOUS
<1>4. bytes[n] \in Seq(Byte) /\ bytes[n + 1] \in Seq(Byte)
  BY <1>3 DEF Lays
<1>5. bytes[n + 1] = bytes[n] \o Encode(codepoints[n + 1])
  BY DEF Lays
<1> QED BY <1>1, <1>2, <1>4, <1>5

LEMMA TextsGrow ==
  ASSUME NEW codepoints, NEW bytes, Lays(bytes, codepoints),
         NEW n \in Nat, n <= Len(codepoints)
  PROVE  \A l \in Nat : n <= l /\ l <= Len(codepoints) =>
           /\ Len(bytes[n]) + (l - n) <= Len(bytes[l])
           /\ \A i \in 1 .. Len(bytes[n]) : bytes[l][i] = bytes[n][i]
<1> codepoints \in Seq(Codepoints)
  BY DEF Lays
<1> DEFINE Holds(l) == /\ Len(bytes[n]) + (l - n) <= Len(bytes[l])
                       /\ \A i \in 1 .. Len(bytes[n]) : bytes[l][i] = bytes[n][i]
           S == {d \in Nat : n + d <= Len(codepoints) => Holds(n + d)}
<1>1. bytes[n] \in Seq(Byte)
  <2>1. n \in 0 .. Len(codepoints)
    OBVIOUS
  <2> QED BY <2>1 DEF Lays
<1>2. 0 \in S
  BY <1>1
<1>3. ASSUME NEW d \in Nat, d \in S
      PROVE  d + 1 \in S
  <2> SUFFICES ASSUME n + (d + 1) <= Len(codepoints) PROVE Holds(n + (d + 1))
    OBVIOUS
  <2> DEFINE l == n + d
  <2>1. l \in Nat /\ l < Len(codepoints) /\ n + (d + 1) = l + 1 /\ l - n \in Nat /\ (l + 1) - n = (l - n) + 1
    OBVIOUS
  <2>2. Holds(l)
    BY <1>3, <2>1
  <2> HIDE DEF l
  <2>3. /\ bytes[l] \in Seq(Byte) /\ Len(Encode(codepoints[l + 1])) \in 1 .. 4
        /\ bytes[l + 1] = bytes[l] \o Encode(codepoints[l + 1])
        /\ Len(bytes[l + 1]) = Len(bytes[l]) + Len(Encode(codepoints[l + 1]))
        /\ Encode(codepoints[l + 1]) \in Seq(Byte)
    BY <2>1, LaidOut, EncodingIs
  <2>4. \A i \in 1 .. Len(bytes[l]) : bytes[l + 1][i] = bytes[l][i]
    <3> DEFINE s == bytes[l]
               t == Encode(codepoints[l + 1])
    <3>1. s \in Seq(Byte) /\ t \in Seq(Byte) /\ bytes[l + 1] = s \o t
      BY <2>3
    <3> HIDE DEF s, t
    <3>2. \A i \in 1 .. Len(s) : (s \o t)[i] = s[i]
      BY <3>1, Joined
    <3> QED BY <3>1, <3>2 DEF s
  <2>5. Len(bytes[n]) \in Nat /\ Len(bytes[l]) \in Nat
    BY <1>1, <2>3
  <2>6. Len(bytes[n]) + ((l + 1) - n) <= Len(bytes[l + 1])
    <3>1. \A a, b \in Nat, e \in 1 .. 4 : a + (l - n) <= b => a + ((l + 1) - n) <= b + e
      BY <2>1
    <3> QED BY <2>2, <2>3, <2>5, <3>1
  <2>7. ASSUME NEW i \in 1 .. Len(bytes[n])
        PROVE  bytes[l + 1][i] = bytes[n][i]
    <3>1. i \in 1 .. Len(bytes[l])
      BY <2>1, <2>2, <2>5
    <3> QED BY <2>2, <2>4, <3>1
  <2> QED BY <2>1, <2>6, <2>7
<1> HIDE DEF S
<1>4. \A d \in Nat : d \in S
  BY <1>2, <1>3, SetInduction
<1>5. ASSUME NEW l \in Nat, n <= l, l <= Len(codepoints)
      PROVE  Holds(l)
  <2>1. l - n \in Nat /\ n + (l - n) = l
    BY <1>5
  <2>2. l - n \in S
    BY <1>4, <2>1
  <2> QED BY <1>5, <2>1, <2>2 DEF S
<1> QED BY <1>5

-----------------------------------------------------------------------------
(* The loop of the decoder. *)

Decoding == [at : Nat \ {0}, out : Seq(Int)]

Decodes(r, s, length) ==
  /\ r[0] = [at |-> 1, out |-> <<>>]
  /\ \A n \in Nat : n < length => r[n + 1] = Decoded(s, length, r[n])

LEMMA FollowType == \A byte \in Nat : Follow(byte) \in {0, 1, 2, 3, GivesUp}
BY DEF Follow

LEMMA CodeAtType ==
  ASSUME NEW s \in Seq(Nat), NEW i \in 1 .. Len(s), Follow(s[i]) # GivesUp,
         i + Follow(s[i]) <= Len(s)
  PROVE  CodeAt(s, i) \in Nat
<1>1. s[i] \in Nat /\ i \in Nat /\ Len(s) \in Nat
  OBVIOUS
<1>2. Follow(s[i]) \in {0, 1, 2, 3}
  BY <1>1, FollowType
<1>3. \A j \in Nat : j <= Follow(s[i]) => s[i + j] % 64 \in Nat
  <2> SUFFICES ASSUME NEW j \in Nat, j <= Follow(s[i]) PROVE s[i + j] % 64 \in Nat
    OBVIOUS
  <2>1. i + j \in 1 .. Len(s)
    BY <1>1, <1>2
  <2>2. s[i + j] \in Nat
    BY <2>1
  <2> QED BY <2>2
<1>4. CASE Follow(s[i]) = 0
  BY <1>1, <1>4 DEF CodeAt
<1>5. CASE Follow(s[i]) = 1
  <2>1. s[i + 1] % 64 \in Nat /\ (s[i] % 32) \in Nat
    BY <1>1, <1>3, <1>5
  <2>2. CodeAt(s, i) = (s[i] % 32) * 64 + (s[i + 1] % 64)
    BY <1>5 DEF CodeAt
  <2>3. \A a, b \in Nat : a * 64 + b \in Nat
    OBVIOUS
  <2> QED BY <2>1, <2>2, <2>3
<1>6. CASE Follow(s[i]) = 2
  <2>1. s[i + 1] % 64 \in Nat /\ s[i + 2] % 64 \in Nat /\ (s[i] % 16) \in Nat
    BY <1>1, <1>3, <1>6
  <2>2. CodeAt(s, i) = (s[i] % 16) * 64^2 + (s[i + 1] % 64) * 64 + (s[i + 2] % 64)
    BY <1>6 DEF CodeAt
  <2> DEFINE h == s[i] % 16
             a == s[i + 1] % 64
             b == s[i + 2] % 64
  <2>3. CodeAt(s, i) = h * 64^2 + a * 64 + b /\ h \in Nat /\ a \in Nat /\ b \in Nat
    BY <2>1, <2>2
  <2> HIDE DEF h, a, b
  <2>4. 64^2 = 4096
    OBVIOUS
  <2>5. CodeAt(s, i) = h * 4096 + a * 64 + b
    BY <2>3, <2>4
  <2> QED BY <2>3, <2>5
<1>7. CASE Follow(s[i]) = 3
  <2>1. /\ s[i + 1] % 64 \in Nat /\ s[i + 2] % 64 \in Nat /\ s[i + 3] % 64 \in Nat
        /\ (s[i] % 8) \in Nat
    BY <1>1, <1>3, <1>7
  <2>2. CodeAt(s, i) = (s[i] % 8) * 64^3 + (s[i + 1] % 64) * 64^2 + (s[i + 2] % 64) * 64 + (s[i + 3] % 64)
    BY <1>7 DEF CodeAt
  <2> DEFINE h == s[i] % 8
             a == s[i + 1] % 64
             b == s[i + 2] % 64
             e == s[i + 3] % 64
  <2>3. /\ CodeAt(s, i) = h * 64^3 + a * 64^2 + b * 64 + e
        /\ h \in Nat /\ a \in Nat /\ b \in Nat /\ e \in Nat
    BY <2>1, <2>2
  <2> HIDE DEF h, a, b, e
  <2>4. 64^2 = 4096 /\ 64^3 = 262144
    OBVIOUS
  <2>5. CodeAt(s, i) = h * 262144 + a * 4096 + b * 64 + e
    BY <2>3, <2>4
  <2> QED BY <2>3, <2>5
<1> QED BY <1>2, <1>4, <1>5, <1>6, <1>7

LEMMA DecodedType ==
  ASSUME NEW s \in Seq(Nat), NEW length \in Nat, length <= Len(s), NEW d \in Decoding
  PROVE  Decoded(s, length, d) \in Decoding
<1>1. d.at \in Nat \ {0} /\ d.out \in Seq(Int) /\ Len(s) \in Nat
  BY DEF Decoding
<1>2. ASSUME NEW at \in Nat \ {0}, NEW as \in Int
      PROVE  [at |-> at, out |-> Append(d.out, as)] \in Decoding
  <2>1. Append(d.out, as) \in Seq(Int)
    BY <1>1
  <2> QED BY <2>1 DEF Decoding
<1>3. CASE d.at > length
  BY <1>3 DEF Decoded
<1>4. CASE d.at <= length
  <2>1. d.at \in 1 .. Len(s) /\ ~(d.at > length) /\ s[d.at] \in Nat
    BY <1>1, <1>4
  <2>2. GivesUp \in Int /\ Outside \in Int /\ length + 1 \in Nat \ {0}
    BY DEF GivesUp, Outside
  <2>3. CASE Follow(s[d.at]) = GivesUp
    BY <1>2, <2>1, <2>2, <2>3 DEF Decoded
  <2>4. CASE Follow(s[d.at]) # GivesUp /\ d.at + Follow(s[d.at]) > Len(s)
    BY <1>2, <2>1, <2>2, <2>4 DEF Decoded
  <2>5. CASE Follow(s[d.at]) # GivesUp /\ ~(d.at + Follow(s[d.at]) > Len(s))
    <3>1. Follow(s[d.at]) \in 0 .. 3
      BY <2>1, <2>5, FollowType
    <3>2. CodeAt(s, d.at) \in Int
      <4> DEFINE i == d.at
      <4>1. i \in 1 .. Len(s) /\ Follow(s[i]) # GivesUp /\ i + Follow(s[i]) <= Len(s)
        BY <1>1, <2>1, <2>5, <3>1
      <4> HIDE DEF i
      <4>2. CodeAt(s, i) \in Nat
        BY <4>1, CodeAtType
      <4> QED BY <4>2 DEF i
    <3>3. (d.at + Follow(s[d.at])) + 1 \in Nat \ {0}
      BY <1>1, <3>1
    <3>4. Decoded(s, length, d) = [at |-> (d.at + Follow(s[d.at])) + 1, out |-> Append(d.out, CodeAt(s, d.at))]
      BY <2>1, <2>5 DEF Decoded
    <3> QED BY <1>2, <3>2, <3>3, <3>4
  <2> QED BY <2>3, <2>4, <2>5
<1> QED BY <1>1, <1>3, <1>4

LEMMA DecodingRuns ==
  ASSUME NEW s \in Seq(Nat), NEW length \in Nat, length <= Len(s)
  PROVE  \E r : Decodes(r, s, length) /\ ToCodepoints(s, length) = r[length].out
<1> DEFINE base == [at |-> 1, out |-> <<>>]
           step == [n \in Nat |-> [d \in Decoding |-> Decoded(s, length, d)]]
           Is(f) == f = [n \in 0 .. length |-> IF n = 0 THEN base ELSE Decoded(s, length, f[n - 1])]
           r == CHOOSE f : Is(f)
<1>1. IsRecursion(Decoding, base, step)
  <2>1. base \in Decoding
    BY DEF Decoding
  <2>2. \A d \in Decoding : Decoded(s, length, d) \in Decoding
    BY DecodedType
  <2> HIDE DEF base
  <2> QED BY <2>1, <2>2 DEF IsRecursion
<1>2. PICK f : SolvesUpTo(f, Decoding, base, step, length)
  <2> HIDE DEF base, step
  <2> QED BY <1>1, RecursiveUpTo
<1>3. /\ f \in [0 .. length -> Decoding] /\ f[0] = base
      /\ \A n \in Nat : n < length => f[n + 1] = step[n][f[n]]
  BY <1>2 DEF SolvesUpTo
<1> HIDE DEF base
<1>4. ASSUME NEW n \in 0 .. length
      PROVE  f[n] = IF n = 0 THEN base ELSE Decoded(s, length, f[n - 1])
  <2>1. CASE n = 0
    BY <1>3, <2>1
  <2>2. CASE n # 0
    <3>1. n - 1 \in Nat /\ n - 1 < length /\ n - 1 \in 0 .. length /\ (n - 1) + 1 = n
      BY <2>2
    <3>2. f[n - 1] \in Decoding
      BY <1>3, <3>1
    <3>3. step[n - 1][f[n - 1]] = Decoded(s, length, f[n - 1])
      BY <3>1, <3>2
    <3>4. f[(n - 1) + 1] = step[n - 1][f[n - 1]]
      BY <1>3, <3>1
    <3> QED BY <2>2, <3>1, <3>3, <3>4
  <2> QED BY <2>1, <2>2
<1> HIDE DEF step
<1>5. Is(f)
  <2>1. f = [n \in 0 .. length |-> f[n]]
    BY <1>3
  <2> QED BY <1>4, <2>1
<1>6. Is(r)
  BY <1>5
<1>7. ToCodepoints(s, length) = r[length].out
  BY DEF ToCodepoints, base
<1> HIDE DEF r
<1>8. ASSUME NEW n \in 0 .. length
      PROVE  r[n] = IF n = 0 THEN base ELSE Decoded(s, length, r[n - 1])
  BY <1>6
<1>9. Decodes(r, s, length)
  <2>1. r[0] = base
    BY <1>8
  <2>2. ASSUME NEW n \in Nat, n < length
        PROVE  r[n + 1] = Decoded(s, length, r[n])
    <3>1. n + 1 \in 0 .. length /\ n + 1 # 0 /\ (n + 1) - 1 = n
      BY <2>2
    <3> QED BY <1>8, <3>1
  <2> QED BY <2>1, <2>2 DEF Decodes, base
<1> QED BY <1>7, <1>9

\* Behind the view, the loop has ended.
LEMMA DecodingEnds ==
  ASSUME NEW s, NEW length \in Nat, NEW r, Decodes(r, s, length),
         NEW n \in Nat, n <= length, r[n].at > length
  PROVE  r[length] = r[n]
<1> DEFINE S == {d \in Nat : n + d <= length => r[n + d] = r[n]}
<1>1. 0 \in S
  OBVIOUS
<1>2. ASSUME NEW d \in Nat, d \in S
      PROVE  d + 1 \in S
  <2> SUFFICES ASSUME n + (d + 1) <= length PROVE r[n + (d + 1)] = r[n]
    OBVIOUS
  <2>1. n + d \in Nat /\ n + d < length /\ n + (d + 1) = (n + d) + 1
    OBVIOUS
  <2>2. r[n + d] = r[n]
    BY <1>2, <2>1
  <2>3. r[(n + d) + 1] = Decoded(s, length, r[n + d])
    BY <2>1 DEF Decodes
  <2>4. Decoded(s, length, r[n]) = r[n]
    BY DEF Decoded
  <2> QED BY <2>1, <2>2, <2>3, <2>4
<1> HIDE DEF S
<1>3. \A d \in Nat : d \in S
  BY <1>1, <1>2, SetInduction
<1>4. length - n \in Nat /\ n + (length - n) = length
  OBVIOUS
<1>5. length - n \in S
  BY <1>3, <1>4
<1> QED BY <1>4, <1>5 DEF S

LEMMA TextsAreLong ==
  ASSUME NEW codepoints, NEW bytes, Lays(bytes, codepoints),
         NEW n \in Nat, n <= Len(codepoints)
  PROVE  n <= Len(bytes[n])
<1> codepoints \in Seq(Codepoints)
  BY DEF Lays
<1>1. bytes[0] = <<>> /\ 0 \in Nat /\ 0 <= Len(codepoints) /\ 0 <= n
  BY DEF Lays
<1>2. Len(bytes[0]) + (n - 0) <= Len(bytes[n])
  BY <1>1, TextsGrow
<1>3. Len(bytes[0]) = 0
  BY <1>1
<1> QED BY <1>2, <1>3

\* Memory s starts with the bytes t.
StartsWithBytes(s, t) == Len(t) <= Len(s) /\ \A i \in 1 .. Len(t) : s[i] = t[i]

\* A round decodes the code point behind the first k.
LEMMA ReadsNext ==
  ASSUME NEW codepoints, NEW bytes, Lays(bytes, codepoints),
         NEW k \in Nat, k < Len(codepoints), NEW s \in Seq(Nat), NEW length \in Nat,
         StartsWithBytes(s, bytes[k + 1]), Len(bytes[k]) < length
  PROVE  Decoded(s, length, [at |-> Len(bytes[k]) + 1, out |-> SubSeq(codepoints, 1, k)])
           = [at |-> Len(bytes[k + 1]) + 1, out |-> SubSeq(codepoints, 1, k + 1)]
<1>0. codepoints \in Seq(Codepoints)
  BY DEF Lays
<1> DEFINE c == codepoints[k + 1]
           b == Encode(c)
           t == bytes[k]
           at == Len(t) + 1
<1>1. /\ c \in Codepoints /\ t \in Seq(Byte) /\ bytes[k + 1] = t \o b
      /\ Len(bytes[k + 1]) = Len(t) + Len(b) /\ Len(b) \in 1 .. 4
  BY LaidOut
<1>2. b \in Seq(Byte) /\ Follow(b[1]) = Len(b) - 1
  BY <1>1, EncodingIs
<1>2a. Len(b) \in 1 .. 4
  BY <1>1
<1>3. Append(SubSeq(codepoints, 1, k), c) = SubSeq(codepoints, 1, k + 1)
  BY <1>0
<1>4. /\ Len(t) + Len(b) <= Len(s)
      /\ \A i \in 1 .. Len(t) + Len(b) : s[i] = (t \o b)[i]
  <2> HIDE DEF b, t
  <2> QED BY <1>1 DEF StartsWithBytes
<1> HIDE DEF c
<1> HIDE DEF b, t
<1>5. at \in Nat /\ Len(t) \in Nat /\ Len(b) \in Nat /\ Len(s) \in Nat /\ at <= length
  <2>1. Len(t) \in Nat /\ Len(b) \in Nat /\ Len(s) \in Nat
    BY <1>1, <1>2
  <2> QED BY <2>1 DEF t
<1>6. ASSUME NEW j \in 1 .. Len(b)
      PROVE  s[at + (j - 1)] = b[j]
  <2>1. at + (j - 1) = Len(t) + j /\ Len(t) + j \in 1 .. Len(t) + Len(b)
    BY <1>5
  <2>2. (t \o b)[Len(t) + j] = b[j]
    BY <1>1, <1>2, Joined
  <2> QED BY <1>4, <2>1, <2>2
<1>7. s[at] = b[1]
  <2>1. 1 \in 1 .. Len(b)
    <3>1. \A m \in 1 .. 4 : 1 \in 1 .. m
      OBVIOUS
    <3> QED BY <1>2a, <3>1, Zenon
  <2>2. s[at + (1 - 1)] = b[1]
    BY <1>6, <2>1
  <2>3. at + (1 - 1) = at
    BY <1>5
  <2> QED BY <2>2, <2>3
<1> HIDE DEF at
<1>8. CodeAt(s, at) = c
  BY <1>1, <1>5, <1>6, CodeAtIs DEF b
<1>9. Follow(s[at]) = Len(b) - 1 /\ Len(b) - 1 # GivesUp
  <2>1. \A m \in 1 .. 4 : m - 1 # GivesUp
    BY DEF GivesUp
  <2> QED BY <1>2, <1>2a, <1>7, <2>1
<1>10. at + Follow(s[at]) = Len(t) + Len(b)
  BY <1>5, <1>9 DEF at
<1>11. ~(at > length) /\ ~(Len(t) + Len(b) > Len(s))
  BY <1>4, <1>5
<1>12. \A out : Decoded(s, length, [at |-> at, out |-> out]) = [at |-> (Len(t) + Len(b)) + 1, out |-> Append(out, c)]
  BY <1>8, <1>9, <1>10, <1>11 DEF Decoded
<1> QED BY <1>1, <1>3, <1>12 DEF at, t

\* The first n code points of a text start in a view of length bytes.
Begun(bytes, n, length) == \A k \in Nat : k < n => Len(bytes[k]) < length

\* Memory that starts with the first n code points is decoded to them, if they
\* start in the view.
LEMMA ReadsCodepoints ==
  ASSUME NEW codepoints, NEW bytes, Lays(bytes, codepoints),
         NEW n \in Nat, n <= Len(codepoints), NEW s \in Seq(Nat), NEW length \in Nat,
         StartsWithBytes(s, bytes[n]), Begun(bytes, n, length),
         NEW r, Decodes(r, s, length)
  PROVE  n <= length /\ r[n] = [at |-> Len(bytes[n]) + 1, out |-> SubSeq(codepoints, 1, n)]
<1>0. codepoints \in Seq(Codepoints) /\ Len(codepoints) \in Nat
  BY DEF Lays
<1> DEFINE Read(k) == k <= length /\ r[k] = [at |-> Len(bytes[k]) + 1, out |-> SubSeq(codepoints, 1, k)]
           S == {k \in Nat : k <= n => Read(k)}
<1>1. 0 \in S
  <2>1. bytes[0] = <<>> /\ SubSeq(codepoints, 1, 0) = <<>>
    BY DEF Lays
  <2>2. Len(bytes[0]) + 1 = 1
    BY <2>1
  <2> QED BY <2>1, <2>2 DEF Decodes
<1>2. ASSUME NEW k \in Nat, k \in S
      PROVE  k + 1 \in S
  <2> SUFFICES ASSUME k < n PROVE Read(k + 1)
    OBVIOUS
  <2>1. Read(k)
    BY <1>2
  <2>2. k < Len(codepoints) /\ k <= Len(codepoints) /\ k + 1 \in Nat /\ k + 1 <= n /\ k + 1 <= Len(codepoints)
    BY <1>0
  <2>3. Len(bytes[k]) < length
    BY DEF Begun
  <2>4. StartsWithBytes(s, bytes[k + 1])
    <3>1. /\ Len(bytes[k + 1]) + (n - (k + 1)) <= Len(bytes[n])
          /\ \A i \in 1 .. Len(bytes[k + 1]) : bytes[n][i] = bytes[k + 1][i]
      <4> DEFINE m == k + 1
      <4>1. m \in Nat /\ m <= Len(codepoints) /\ m <= n
        BY <2>2
      <4> HIDE DEF m
      <4>2. \A l \in Nat : m <= l /\ l <= Len(codepoints) =>
              /\ Len(bytes[m]) + (l - m) <= Len(bytes[l])
              /\ \A i \in 1 .. Len(bytes[m]) : bytes[l][i] = bytes[m][i]
        BY <4>1, TextsGrow
      <4> QED BY <4>1, <4>2 DEF m
    <3>2. bytes[k + 1] \in Seq(Byte) /\ bytes[n] \in Seq(Byte)
      <4>1. k + 1 \in 0 .. Len(codepoints) /\ n \in 0 .. Len(codepoints)
        BY <1>0, <2>2
      <4> QED BY <4>1 DEF Lays
    <3>3. Len(bytes[k + 1]) \in Nat /\ Len(bytes[n]) \in Nat /\ Len(s) \in Nat
      BY <3>2
    <3>4. Len(bytes[k + 1]) <= Len(bytes[n])
      BY <2>2, <3>1, <3>3
    <3>5. \A i \in 1 .. Len(bytes[k + 1]) : i \in 1 .. Len(bytes[n])
      BY <3>3, <3>4
    <3>6. /\ Len(bytes[n]) <= Len(s)
          /\ \A i \in 1 .. Len(bytes[n]) : s[i] = bytes[n][i]
      BY DEF StartsWithBytes
    <3>7. Len(bytes[k + 1]) <= Len(s)
      BY <3>3, <3>4, <3>6
    <3>8. ASSUME NEW i \in 1 .. Len(bytes[k + 1])
          PROVE  s[i] = bytes[k + 1][i]
      BY <3>1, <3>5, <3>6
    <3> QED BY <3>7, <3>8 DEF StartsWithBytes
  <2>5. k < length
    <3>1. k <= Len(bytes[k])
      BY <2>2, TextsAreLong
    <3>2. bytes[k] \in Seq(Byte)
      <4>1. k \in 0 .. Len(codepoints)
        BY <1>0, <2>2
      <4> QED BY <4>1 DEF Lays
    <3>3. Len(bytes[k]) \in Nat
      BY <3>2
    <3> QED BY <2>3, <3>1, <3>3
  <2>6. r[k + 1] = Decoded(s, length, r[k])
    BY <2>5 DEF Decodes
  <2>7. Decoded(s, length, [at |-> Len(bytes[k]) + 1, out |-> SubSeq(codepoints, 1, k)])
           = [at |-> Len(bytes[k + 1]) + 1, out |-> SubSeq(codepoints, 1, k + 1)]
    <3> HIDE DEF S, Read
    <3> QED BY <2>2, <2>3, <2>4, ReadsNext
  <2> QED BY <2>1, <2>5, <2>6, <2>7
<1>3. \A k \in Nat : k \in S
  <2> HIDE DEF S
  <2> QED BY <1>1, <1>2, SetInduction
<1>4. n \in S
  <2> HIDE DEF S
  <2> QED BY <1>3
<1> QED BY <1>4

\* A view that ends in or behind the n-th code point of a text is decoded to
\* the first n, whatever is behind it in memory.
LEMMA ViewsDecode ==
  ASSUME NEW codepoints, NEW bytes, Lays(bytes, codepoints),
         NEW n \in Nat, n <= Len(codepoints), NEW s \in Seq(Nat), NEW length \in Nat,
         StartsWithBytes(s, bytes[n]), Begun(bytes, n, length), length <= Len(bytes[n])
  PROVE  ToCodepoints(s, length) = SubSeq(codepoints, 1, n)
<1>0. codepoints \in Seq(Codepoints) /\ Len(codepoints) \in Nat
  BY DEF Lays
<1>1. Len(bytes[n]) \in Nat /\ Len(s) \in Nat /\ Len(bytes[n]) <= Len(s)
  <2>1. n \in 0 .. Len(codepoints)
    BY <1>0
  <2>2. bytes[n] \in Seq(Byte)
    BY <2>1 DEF Lays
  <2> QED BY <2>2 DEF StartsWithBytes
<1>2. length <= Len(s)
  BY <1>1
<1>3. PICK r : Decodes(r, s, length) /\ ToCodepoints(s, length) = r[length].out
  BY <1>2, DecodingRuns
<1>4. n <= length /\ r[n] = [at |-> Len(bytes[n]) + 1, out |-> SubSeq(codepoints, 1, n)]
  <2>1. Decodes(r, s, length)
    BY <1>3
  <2> QED BY <2>1, ReadsCodepoints
<1>5. r[n].at > length
  BY <1>1, <1>4
<1>6. r[length] = r[n]
  <2>1. Decodes(r, s, length) /\ n <= length
    BY <1>3, <1>4
  <2> QED BY <1>5, <2>1, DecodingEnds
<1> QED BY <1>3, <1>4, <1>6

\* fp_string_view_to_codepoints gives back the code points that
\* fp_codepoints_view_to_string encoded, for every text.
THEOREM TextsDecodeBack ==
  \A codepoints \in Seq(Codepoints) :
    ToCodepoints(EncodeAll(codepoints), Len(EncodeAll(codepoints))) = codepoints
<1> SUFFICES ASSUME NEW codepoints \in Seq(Codepoints)
             PROVE  ToCodepoints(EncodeAll(codepoints), Len(EncodeAll(codepoints))) = codepoints
  OBVIOUS
<1> DEFINE n == Len(codepoints)
           s == EncodeAll(codepoints)
<1>1. PICK bytes : Lays(bytes, codepoints) /\ s = bytes[n]
  BY EncodeAllLays
<1>2. n \in Nat /\ n <= Len(codepoints) /\ SubSeq(codepoints, 1, n) = codepoints
  OBVIOUS
<1>3. s \in Seq(Byte)
  <2>1. n \in 0 .. Len(codepoints)
    BY <1>2
  <2> QED BY <1>1, <2>1 DEF Lays
<1> HIDE DEF s
<1>4. s \in Seq(Nat) /\ Len(s) \in Nat
  <2>1. \A b \in Byte : b \in Nat
    BY DEF Byte
  <2>2. \A i \in 1 .. Len(s) : s[i] \in Byte
    BY <1>3
  <2>3. \A i \in 1 .. Len(s) : s[i] \in Nat
    BY <2>1, <2>2
  <2>4. s \in [1 .. Len(s) -> Nat] /\ Len(s) \in Nat
    BY <1>3, <2>3
  <2> QED BY <2>4
<1>5. Begun(bytes, n, Len(s))
  <2> SUFFICES ASSUME NEW k \in Nat, k < n
               PROVE  Len(bytes[k]) < Len(s)
    BY DEF Begun
  <2>1. k <= n /\ k <= Len(codepoints) /\ n - k >= 1 /\ k \in 0 .. Len(codepoints)
    BY <1>2
  <2>2. Len(bytes[k]) + (n - k) <= Len(bytes[n])
    BY <1>1, <1>2, <2>1, TextsGrow
  <2>3. bytes[k] \in Seq(Byte)
    BY <1>1, <2>1 DEF Lays
  <2>4. Len(bytes[k]) \in Nat
    BY <2>3
  <2> QED BY <1>1, <1>2, <1>4, <2>1, <2>2, <2>4
<1>6. StartsWithBytes(s, bytes[n]) /\ Len(s) <= Len(bytes[n])
  BY <1>1, <1>4 DEF StartsWithBytes
<1> HIDE DEF n
<1>7. ToCodepoints(s, Len(s)) = SubSeq(codepoints, 1, n)
  <2>1. n \in Nat /\ n <= Len(codepoints)
    BY <1>2
  <2> QED BY <1>1, <1>4, <1>5, <1>6, <2>1, ViewsDecode
<1> QED BY <1>2, <1>7 DEF s, n

-----------------------------------------------------------------------------
(* What the run decodes: views into the text of two code points, and the text *)
(* of one with a part of another.                                            *)

LEMMA BytesAreNat ==
  ASSUME NEW s \in Seq(Byte)
  PROVE  s \in Seq(Nat) /\ Len(s) \in Nat
<1>1. \A b \in Byte : b \in Nat
  BY DEF Byte
<1>2. \A i \in 1 .. Len(s) : s[i] \in Byte
  OBVIOUS
<1>3. \A i \in 1 .. Len(s) : s[i] \in Nat
  BY <1>1, <1>2
<1>4. s \in [1 .. Len(s) -> Nat] /\ Len(s) \in Nat
  BY <1>3
<1> QED BY <1>4

LEMMA OneLaid ==
  ASSUME NEW e \in Codepoints
  PROVE  \E bytes : Lays(bytes, <<e>>) /\ bytes[0] = <<>> /\ bytes[1] = Encode(e)
<1> DEFINE text == <<e>>
<1>1. text \in Seq(Codepoints) /\ Len(text) = 1 /\ text[1] = e
  OBVIOUS
<1> HIDE DEF text
<1>2. PICK bytes : Lays(bytes, text)
  BY <1>1, EncodeAllLays
<1>3. bytes[0] = <<>> /\ bytes[1] = bytes[0] \o Encode(e)
  <2>1. \A n \in Nat : n < Len(text) => bytes[n + 1] = bytes[n] \o Encode(text[n + 1])
    BY <1>2 DEF Lays
  <2> DEFINE z == 0
  <2>2. z \in Nat /\ z < Len(text) /\ z + 1 = 1
    BY <1>1
  <2> HIDE DEF z
  <2>3. bytes[z + 1] = bytes[z] \o Encode(text[z + 1])
    BY <2>1, <2>2
  <2> QED BY <1>1, <1>2, <2>2, <2>3 DEF Lays, z
<1>4. Encode(e) \in Seq(Byte)
  BY EncodingIs
<1>5. bytes[1] = Encode(e)
  BY <1>3, <1>4
<1> QED BY <1>2, <1>3, <1>5 DEF text

LEMMA TwoLaid ==
  ASSUME NEW c \in Codepoints, NEW e \in Codepoints
  PROVE  \E bytes : /\ Lays(bytes, <<c, e>>) /\ bytes[0] = <<>> /\ bytes[1] = Encode(c)
                    /\ bytes[2] = Encode(c) \o Encode(e) /\ EncodeAll(<<c, e>>) = bytes[2]
<1> DEFINE text == <<c, e>>
<1>1. text \in Seq(Codepoints) /\ Len(text) = 2 /\ text[1] = c /\ text[2] = e
  OBVIOUS
<1> HIDE DEF text
<1>2. PICK bytes : Lays(bytes, text) /\ EncodeAll(text) = bytes[Len(text)]
  BY <1>1, EncodeAllLays
<1>3. /\ bytes[0] = <<>> /\ bytes[1] = bytes[0] \o Encode(c)
      /\ bytes[2] = bytes[1] \o Encode(e)
  <2>1. \A n \in Nat : n < Len(text) => bytes[n + 1] = bytes[n] \o Encode(text[n + 1])
    BY <1>2 DEF Lays
  <2> DEFINE z == 0
             o == 1
  <2>2. z \in Nat /\ z < Len(text) /\ z + 1 = o /\ o \in Nat /\ o < Len(text) /\ o + 1 = 2
    BY <1>1
  <2> HIDE DEF z, o
  <2>3. bytes[z + 1] = bytes[z] \o Encode(text[z + 1]) /\ bytes[o + 1] = bytes[o] \o Encode(text[o + 1])
    BY <2>1, <2>2
  <2> QED BY <1>1, <1>2, <2>2, <2>3 DEF Lays, z, o
<1>4. Encode(c) \in Seq(Byte)
  BY EncodingIs
<1>5. bytes[1] = Encode(c)
  BY <1>3, <1>4
<1> QED BY <1>1, <1>2, <1>3, <1>5 DEF text

LEMMA DecodesNothing ==
  ASSUME NEW s \in Seq(Nat)
  PROVE  ToCodepoints(s, 0) = <<>>
<1>1. 0 \in Nat /\ 0 <= Len(s)
  OBVIOUS
<1>2. PICK r : Decodes(r, s, 0) /\ ToCodepoints(s, 0) = r[0].out
  BY <1>1, DecodingRuns
<1> QED BY <1>2 DEF Decodes

LEMMA StartsInside ==
  ASSUME NEW s \in Seq(Nat), NEW length \in Nat \ {0}, length <= Len(s), Follow(s[1]) = GivesUp
  PROVE  ToCodepoints(s, length) = <<GivesUp>>
<1>1. PICK r : Decodes(r, s, length) /\ ToCodepoints(s, length) = r[length].out
  BY DecodingRuns
<1>2. r[0] = [at |-> 1, out |-> <<>>] /\ r[0 + 1] = Decoded(s, length, r[0])
  BY <1>1 DEF Decodes
<1>3. Decoded(s, length, r[0]) = [at |-> length + 1, out |-> <<GivesUp>>]
  <2>1. ~(1 > length) /\ Append(<<>>, GivesUp) = <<GivesUp>>
    OBVIOUS
  <2> QED BY <1>2, <2>1 DEF Decoded
<1>4. 1 \in Nat /\ 1 <= length /\ r[1].at > length
  BY <1>2, <1>3
<1>5. r[length] = r[1]
  <2>1. Decodes(r, s, length) /\ length \in Nat
    BY <1>1
  <2> QED BY <1>4, <2>1, DecodingEnds
<1> QED BY <1>1, <1>2, <1>3, <1>5

LEMMA PartsOf ==
  ASSUME NEW s \in Seq(Nat), NEW t \in Seq(Nat), NEW first \in 0 .. Len(s) + Len(t)
  PROVE  LET u == SubSeq(s \o t, first + 1, Len(s \o t))
         IN  /\ u \in Seq(Nat) /\ Len(u) = Len(s) + Len(t) - first
             /\ \A i \in 1 .. Len(u) :
                  u[i] = IF first + i <= Len(s) THEN s[first + i] ELSE t[first + i - Len(s)]
<1> DEFINE w == s \o t
<1>1. w \in Seq(Nat) /\ Len(w) = Len(s) + Len(t)
  BY Joined
<1>2. \A i \in 1 .. Len(w) : w[i] = IF i <= Len(s) THEN s[i] ELSE t[i - Len(s)]
  OBVIOUS
<1>3. Len(s) \in Nat /\ Len(t) \in Nat
  OBVIOUS
<1> HIDE DEF w
<1>4. first \in Nat /\ first <= Len(w) /\ Len(w) \in Nat
  BY <1>1, <1>3
<1>5. /\ SubSeq(w, first + 1, Len(w)) \in Seq(Nat)
      /\ Len(SubSeq(w, first + 1, Len(w))) = Len(w) - first
      /\ \A i \in 1 .. Len(w) - first : SubSeq(w, first + 1, Len(w))[i] = w[first + i]
  <2> DEFINE m == first + 1
             n == Len(w)
  <2>1. m \in Int /\ n \in Int /\ \A i \in m .. n : w[i] \in Nat
    BY <1>1, <1>4
  <2>2. n - m + 1 = n - first /\ (m <= n \/ n - first = 0) /\ \A i \in 1 .. n - first : m + i - 1 = first + i
    BY <1>4
  <2> HIDE DEF m, n
  <2>3. /\ SubSeq(w, m, n) \in Seq(Nat)
        /\ Len(SubSeq(w, m, n)) = IF m <= n THEN n - m + 1 ELSE 0
        /\ \A i \in 1 .. n - m + 1 : SubSeq(w, m, n)[i] = w[m + i - 1]
    BY <2>1, SubSeqProperties
  <2>4. Len(SubSeq(w, m, n)) = n - first
    BY <2>1, <2>2, <2>3
  <2>5. \A i \in 1 .. n - first : SubSeq(w, m, n)[i] = w[first + i]
    BY <2>2, <2>3
  <2> QED BY <2>3, <2>4, <2>5 DEF m, n
<1>6. ASSUME NEW i \in 1 .. Len(w) - first
      PROVE  w[first + i] = IF first + i <= Len(s) THEN s[first + i] ELSE t[first + i - Len(s)]
  <2>1. first + i \in 1 .. Len(w)
    BY <1>4
  <2> QED BY <1>2, <2>1
<1> DEFINE u == SubSeq(w, first + 1, Len(w))
<1>7. /\ u \in Seq(Nat) /\ Len(u) = Len(s) + Len(t) - first
      /\ \A i \in 1 .. Len(u) :
           u[i] = IF first + i <= Len(s) THEN s[first + i] ELSE t[first + i - Len(s)]
  <2>1. /\ u \in Seq(Nat) /\ Len(u) = Len(w) - first
        /\ \A i \in 1 .. Len(w) - first : u[i] = w[first + i]
    BY <1>5
  <2> HIDE DEF u
  <2>2. Len(w) - first = Len(s) + Len(t) - first
    BY <1>1
  <2>3. \A i \in 1 .. Len(u) : i \in 1 .. Len(w) - first
    BY <2>1
  <2> QED BY <1>6, <2>1, <2>2, <2>3
<1> QED BY <1>7 DEF w

LEMMA FirstOf ==
  ASSUME NEW c \in Codepoints, NEW e \in Codepoints
  PROVE  /\ <<c, e>> \in Seq(Codepoints) /\ Len(<<c, e>>) = 2
         /\ <<e>> \in Seq(Codepoints) /\ Len(<<e>>) = 1
         /\ SubSeq(<<c, e>>, 1, 1) = <<c>> /\ SubSeq(<<c, e>>, 1, 2) = <<c, e>>
         /\ SubSeq(<<e>>, 1, 1) = <<e>>
<1>1. /\ <<c, e>> \in Seq(Codepoints) /\ Len(<<c, e>>) = 2
      /\ <<e>> \in Seq(Codepoints) /\ Len(<<e>>) = 1
  OBVIOUS
<1>2. ASSUME NEW s \in Seq(Codepoints), NEW t \in Seq(Codepoints),
             Len(t) \in 1 .. Len(s), \A i \in 1 .. Len(t) : s[i] = t[i]
      PROVE  SubSeq(s, 1, Len(t)) = t
  <2> DEFINE n == Len(t)
             u == SubSeq(s, 1, n)
  <2>1. n \in Nat /\ 1 <= n /\ Len(s) \in Nat /\ n <= Len(s)
    BY <1>2
  <2>2. u \in Seq(Codepoints) /\ Len(u) = n /\ \A i \in 1 .. n : u[i] = s[i]
    <3> HIDE DEF n
    <3> QED BY <2>1
  <2> HIDE DEF u
  <2> QED BY <1>2, <2>1, <2>2, SeqEqual
<1>3. SubSeq(<<c, e>>, 1, Len(<<c>>)) = <<c>>
  <2>1. <<c>> \in Seq(Codepoints) /\ Len(<<c>>) \in 1 .. Len(<<c, e>>) /\ \A i \in 1 .. Len(<<c>>) : <<c, e>>[i] = <<c>>[i]
    OBVIOUS
  <2> QED BY <1>1, <1>2, <2>1
<1>4. SubSeq(<<c, e>>, 1, Len(<<c, e>>)) = <<c, e>>
  <2>1. Len(<<c, e>>) \in 1 .. Len(<<c, e>>)
    OBVIOUS
  <2> QED BY <1>1, <1>2, <2>1
<1>5. SubSeq(<<e>>, 1, Len(<<e>>)) = <<e>>
  <2>1. Len(<<e>>) \in 1 .. Len(<<e>>)
    OBVIOUS
  <2> QED BY <1>1, <1>2, <2>1
<1>6. Len(<<c>>) = 1
  OBVIOUS
<1> QED BY <1>1, <1>3, <1>4, <1>5, <1>6

LEMMA ViewsOfTwo ==
  ASSUME NEW c \in Codepoints, NEW e \in Codepoints,
         NEW first \in 0 .. Len(Encode(c)) + Len(Encode(e)),
         NEW length \in 0 .. Len(Encode(c)) + Len(Encode(e)) - first
  PROVE  ViewDecodes(c, e, first, length)
<1> DEFINE s == Encode(c)
           t == Encode(e)
           text == EncodeAll(<<c, e>>)
           u == SubSeq(text, first + 1, Len(text))
<1>1. PICK bytes : /\ Lays(bytes, <<c, e>>) /\ bytes[0] = <<>> /\ bytes[1] = s
                   /\ bytes[2] = s \o t /\ text = bytes[2]
  BY TwoLaid
<1>2. PICK after : Lays(after, <<e>>) /\ after[0] = <<>> /\ after[1] = t
  BY OneLaid
<1>3. /\ s \in Seq(Byte) /\ t \in Seq(Byte)
      /\ Len(s) \in 1 .. 4 /\ Len(t) \in 1 .. 4
      /\ \A j \in 2 .. Len(s) : Follow(s[j]) = GivesUp
      /\ \A j \in 2 .. Len(t) : Follow(t[j]) = GivesUp
  BY EncodingIs
<1>4. s \in Seq(Nat) /\ t \in Seq(Nat)
  BY <1>3, BytesAreNat
<1>5. first \in 0 .. Len(s) + Len(t) /\ length \in 0 .. Len(s) + Len(t) - first
  OBVIOUS
<1>6. ViewDecodes(c, e, first, length) <=>
        ToCodepoints(u, length) =
          IF length = 0 THEN <<>>
          ELSE IF first = 0 THEN IF length <= Len(s) THEN <<c>> ELSE <<c, e>>
          ELSE IF first = Len(s) THEN <<e>>
          ELSE <<GivesUp>>
  BY DEF ViewDecodes
<1>7. u = SubSeq(s \o t, first + 1, Len(s \o t))
  BY <1>1
<1> HIDE DEF s, t, text, u
<1>8. /\ u \in Seq(Nat) /\ Len(u) = Len(s) + Len(t) - first
      /\ \A i \in 1 .. Len(u) :
           u[i] = IF first + i <= Len(s) THEN s[first + i] ELSE t[first + i - Len(s)]
  BY <1>4, <1>5, <1>7, PartsOf
<1>9. CASE length = 0
  BY <1>6, <1>8, <1>9, DecodesNothing
<1>10. CASE length # 0 /\ first = 0
  <2> DEFINE both == <<c, e>>
  <2>1. /\ both \in Seq(Codepoints) /\ Len(both) = 2
        /\ SubSeq(both, 1, 1) = <<c>> /\ SubSeq(both, 1, 2) = <<c, e>>
    BY FirstOf
  <2>2. Lays(bytes, both)
    BY <1>1
  <2> HIDE DEF both
  <2>3. Len(u) = Len(s) + Len(t) /\ \A i \in 1 .. Len(u) : u[i] = IF i <= Len(s) THEN s[i] ELSE t[i - Len(s)]
    BY <1>3, <1>8, <1>10
  <2>4. length \in 1 .. Len(s) + Len(t) /\ length \in Nat
    BY <1>3, <1>5, <1>10
  <2>5. CASE length <= Len(s)
    <3>1. StartsWithBytes(u, bytes[1])
      <4>1. Len(s) <= Len(u) /\ \A i \in 1 .. Len(s) : i \in 1 .. Len(u) /\ i <= Len(s)
        BY <1>3, <2>3
      <4> QED BY <1>1, <2>3, <4>1 DEF StartsWithBytes
    <3>2. Begun(bytes, 1, length)
      <4>1. \A k \in Nat : k < 1 => k = 0
        OBVIOUS
      <4>2. Len(bytes[0]) < length
        BY <1>1, <2>4
      <4> QED BY <4>1, <4>2 DEF Begun
    <3>3. 1 \in Nat /\ 1 <= Len(both) /\ length <= Len(bytes[1])
      BY <1>1, <2>1, <2>5
    <3>4. ToCodepoints(u, length) = SubSeq(both, 1, 1)
      BY <1>8, <2>2, <2>4, <3>1, <3>2, <3>3, ViewsDecode
    <3> QED BY <1>6, <1>10, <2>1, <2>5, <3>4
  <2>6. CASE ~(length <= Len(s))
    <3>1. StartsWithBytes(u, bytes[2])
      <4>1. u = s \o t
        <5>1. s \o t = SubSeq(s \o t, 1, Len(s \o t))
          BY <1>4
        <5> QED BY <1>7, <1>10, <5>1
      <4>2. Len(u) \in Nat
        BY <1>8
      <4> QED BY <1>1, <4>1, <4>2 DEF StartsWithBytes
    <3>2. Begun(bytes, 2, length)
      <4>1. \A k \in Nat : k < 2 => k = 0 \/ k = 1
        OBVIOUS
      <4>2. Len(bytes[0]) < length
        BY <1>1, <2>4
      <4>3. Len(bytes[1]) < length
        <5>1. Len(s) < length
          BY <1>3, <2>4, <2>6
        <5> QED BY <1>1, <5>1
      <4> QED BY <4>1, <4>2, <4>3 DEF Begun
    <3>3. 2 \in Nat /\ 2 <= Len(both)
      BY <2>1
    <3>4. length <= Len(bytes[2])
      <4>1. Len(s \o t) = Len(s) + Len(t)
        BY <1>4, Joined
      <4> QED BY <1>1, <2>4, <4>1
    <3>5. ToCodepoints(u, length) = SubSeq(both, 1, 2)
      BY <1>8, <2>2, <2>4, <3>1, <3>2, <3>3, <3>4, ViewsDecode
    <3> QED BY <1>6, <1>10, <2>1, <2>6, <3>5
  <2> QED BY <2>5, <2>6
<1>11. CASE length # 0 /\ first = Len(s)
  <2> DEFINE one == <<e>>
  <2>1. one \in Seq(Codepoints) /\ Len(one) = 1 /\ SubSeq(one, 1, 1) = <<e>>
    BY FirstOf
  <2>2. Lays(after, one)
    BY <1>2
  <2> HIDE DEF one
  <2>3. length \in Nat /\ length > 0 /\ length <= Len(t) /\ Len(t) \in Nat /\ Len(s) \in Nat /\ first # 0
    BY <1>3, <1>5, <1>11
  <2>4. Len(u) = Len(t)
    BY <1>8, <1>11, <2>3
  <2>5. ASSUME NEW i \in 1 .. Len(t)
        PROVE  u[i] = t[i]
    <3>1. i \in 1 .. Len(u) /\ ~(first + i <= Len(s)) /\ first + i - Len(s) = i
      BY <1>11, <2>3, <2>4
    <3> QED BY <1>8, <3>1
  <2>6. StartsWithBytes(u, after[1])
    <3>1. Len(t) <= Len(u)
      BY <2>3, <2>4
    <3> QED BY <1>2, <2>5, <3>1 DEF StartsWithBytes
  <2>7. Begun(after, 1, length)
    <3>1. \A k \in Nat : k < 1 => k = 0
      OBVIOUS
    <3>2. Len(after[0]) < length
      BY <1>2, <2>3
    <3> QED BY <3>1, <3>2 DEF Begun
  <2>8. 1 \in Nat /\ 1 <= Len(one) /\ length <= Len(after[1])
    BY <1>2, <2>1, <2>3
  <2>9. ToCodepoints(u, length) = SubSeq(one, 1, 1)
    BY <1>8, <2>2, <2>3, <2>6, <2>7, <2>8, ViewsDecode
  <2> QED BY <1>6, <1>11, <2>1, <2>3, <2>9
<1>12. CASE length # 0 /\ first # 0 /\ first # Len(s)
  <2>1. length \in Nat \ {0} /\ length <= Len(u) /\ 1 \in 1 .. Len(u)
    BY <1>3, <1>5, <1>8, <1>12
  <2>2. Follow(u[1]) = GivesUp
    <3>1. CASE first + 1 <= Len(s)
      <4>1. first + 1 \in 2 .. Len(s) /\ u[1] = s[first + 1]
        BY <1>3, <1>5, <1>8, <1>12, <2>1, <3>1
      <4> QED BY <1>3, <4>1
    <3>2. CASE ~(first + 1 <= Len(s))
      <4>1. first + 1 - Len(s) \in 2 .. Len(t) /\ u[1] = t[first + 1 - Len(s)]
        BY <1>3, <1>5, <1>8, <1>12, <2>1, <3>2
      <4> QED BY <1>3, <4>1
    <3> QED BY <3>1, <3>2
  <2>3. ToCodepoints(u, length) = <<GivesUp>>
    BY <1>8, <2>1, <2>2, StartsInside
  <2> QED BY <1>6, <1>12, <2>3
<1> QED BY <1>9, <1>10, <1>11, <1>12

LEMMA AppendToOne ==
  ASSUME NEW x \in Int, NEW y \in Int
  PROVE  Append(<<x>>, y) = <<x, y>>
<1> DEFINE before == <<x>>
           u == Append(before, y)
           v == <<x, y>>
<1>1. before \in Seq(Int) /\ Len(before) = 1 /\ before[1] = x
  OBVIOUS
<1>2. v \in Seq(Int) /\ Len(v) = 2 /\ v[1] = x /\ v[2] = y
  OBVIOUS
<1> HIDE DEF before
<1>0. before \in Seq(Int)
  BY <1>1
<1>3. u \in Seq(Int) /\ Len(u) = Len(before) + 1
  BY <1>0
<1>4. \A i \in 1 .. Len(before) : u[i] = before[i]
  BY <1>0
<1>5. u[Len(before) + 1] = y
  BY <1>0
<1> HIDE DEF u, v
<1>6. 1 \in 1 .. Len(before) /\ Len(before) + 1 = 2
  BY <1>1
<1>7. Len(u) = 2 /\ u[1] = x /\ u[2] = y
  BY <1>1, <1>3, <1>4, <1>5, <1>6
<1>8. \A i \in 1 .. 2 : i = 1 \/ i = 2
  OBVIOUS
<1>9. \A i \in 1 .. Len(u) : u[i] = v[i]
  BY <1>2, <1>7, <1>8
<1>10. u = v
  BY <1>2, <1>3, <1>7, <1>9, SeqEqual
<1> QED BY <1>10 DEF u, v, before

LEMMA CutsOf ==
  ASSUME NEW c \in Codepoints, NEW e \in Codepoints, NEW cut \in 1 .. Len(Encode(c)) - 1
  PROVE  CutReadsOutside(c, e, cut)
<1> DEFINE b == Encode(c)
           t == Encode(e)
           part == SubSeq(b, 1, cut)
           s == t \o part
           mem == Append(s, 0)
           length == Len(s)
           one == <<e>>
<1>1. PICK bytes : Lays(bytes, one) /\ bytes[0] = <<>> /\ bytes[1] = t
  BY OneLaid
<1>2. /\ b \in Seq(Byte) /\ Len(b) \in 1 .. 4 /\ Follow(b[1]) = Len(b) - 1
      /\ t \in Seq(Byte) /\ Len(t) \in 1 .. 4
  BY EncodingIs
<1>3. b \in Seq(Nat) /\ t \in Seq(Nat)
  BY <1>2, BytesAreNat
<1>4. one \in Seq(Codepoints) /\ Len(one) = 1 /\ SubSeq(one, 1, 1) = <<e>>
  BY FirstOf
<1>5. CutReadsOutside(c, e, cut) <=>
        LET r == ToCodepoints(mem, length)
        IN  r[1] = e /\ (r[2] = Outside <=> Len(b) - cut >= 2)
  BY DEF CutReadsOutside
<1>6. cut \in Nat /\ 1 <= cut /\ cut < Len(b) /\ Len(b) \in Nat /\ Len(t) \in Nat /\ Len(t) >= 1
  <2>1. cut \in 1 .. Len(b) - 1
    OBVIOUS
  <2> HIDE DEF b, t
  <2>2. Len(b) \in 1 .. 4 /\ Len(t) \in 1 .. 4
    BY <1>2
  <2> QED BY <2>1, <2>2
<1> HIDE DEF b, t, one
<1>7. part \in Seq(Nat) /\ Len(part) = cut /\ part[1] = b[1]
  BY <1>3, <1>6
<1> HIDE DEF part
<1>8. /\ s \in Seq(Nat) /\ Len(s) = Len(t) + cut
      /\ \A i \in 1 .. Len(t) : s[i] = t[i]
      /\ s[Len(t) + 1] = b[1]
  <2>1. /\ s \in Seq(Nat) /\ Len(s) = Len(t) + Len(part)
        /\ \A i \in 1 .. Len(t) : s[i] = t[i]
        /\ \A i \in 1 .. Len(part) : s[Len(t) + i] = part[i]
    <3>1. t \in Seq(Nat) /\ part \in Seq(Nat)
      BY <1>3, <1>7
    <3> QED BY <3>1, Joined
  <2>2. 1 \in 1 .. Len(part)
    BY <1>6, <1>7
  <2> QED BY <1>7, <2>1, <2>2
<1> HIDE DEF s
<1>9. /\ mem \in Seq(Nat) /\ Len(mem) = length + 1 /\ length \in Nat
      /\ \A i \in 1 .. length : mem[i] = s[i]
  BY <1>8
<1> HIDE DEF mem, length
<1>10. length = Len(t) + cut /\ length > Len(t) /\ length >= 2 /\ length <= Len(mem)
  <2>1. length = Len(t) + cut /\ Len(mem) = length + 1
    BY <1>8, <1>9 DEF length
  <2> QED BY <1>6, <2>1
<1>11. StartsWithBytes(mem, bytes[1])
  <2>1. Len(t) <= Len(mem)
    BY <1>6, <1>9, <1>10
  <2>2. ASSUME NEW i \in 1 .. Len(t)
        PROVE  mem[i] = t[i]
    <3>1. i \in 1 .. length
      BY <1>6, <1>9, <1>10
    <3> QED BY <1>8, <1>9, <3>1
  <2> QED BY <1>1, <2>1, <2>2 DEF StartsWithBytes
<1>12. Begun(bytes, 1, length)
  <2>1. \A k \in Nat : k < 1 => k = 0
    OBVIOUS
  <2>2. Len(bytes[0]) < length
    BY <1>1, <1>9, <1>10
  <2> QED BY <2>1, <2>2 DEF Begun
<1>13. PICK r : Decodes(r, mem, length) /\ ToCodepoints(mem, length) = r[length].out
  BY <1>9, <1>10, DecodingRuns
<1>14. r[1] = [at |-> Len(t) + 1, out |-> <<e>>]
  <2>1. Decodes(r, mem, length) /\ 1 \in Nat /\ 1 <= Len(one) /\ Lays(bytes, one)
    BY <1>1, <1>4, <1>13
  <2>2. r[1] = [at |-> Len(bytes[1]) + 1, out |-> SubSeq(one, 1, 1)]
    <3>1. Decodes(r, mem, length)
      BY <2>1
    <3>2. Lays(bytes, one)
      BY <2>1
    <3>3. mem \in Seq(Nat) /\ length \in Nat /\ 1 \in Nat /\ 1 <= Len(one)
      BY <1>9, <2>1
    <3> DEFINE o == 1
    <3>4. StartsWithBytes(mem, bytes[o]) /\ Begun(bytes, o, length) /\ o \in Nat /\ o <= Len(one)
      BY <1>11, <1>12, <3>3
    <3> HIDE DEF o
    <3>5. r[o] = [at |-> Len(bytes[o]) + 1, out |-> SubSeq(one, 1, o)]
      BY <3>1, <3>2, <3>3, <3>4, ReadsCodepoints
    <3> QED BY <3>5 DEF o
  <2> QED BY <1>1, <1>4, <2>2
<1>15. r[2] = Decoded(mem, length, r[1])
  <2>1. \A n \in Nat : n < length => r[n + 1] = Decoded(mem, length, r[n])
    BY <1>13 DEF Decodes
  <2> DEFINE o == 1
  <2>2. o \in Nat /\ o < length /\ o + 1 = 2
    BY <1>9, <1>10
  <2> HIDE DEF o
  <2>3. r[o + 1] = Decoded(mem, length, r[o])
    BY <2>1, <2>2
  <2> QED BY <2>2, <2>3 DEF o
<1> DEFINE at == Len(t) + 1
<1>16. at \in 1 .. Len(mem) /\ at <= length /\ mem[at] = b[1] /\ Follow(mem[at]) = Len(b) - 1
  <2>1. at \in 1 .. length /\ at \in 1 .. Len(mem)
    BY <1>6, <1>9, <1>10
  <2>2. mem[at] = b[1]
    BY <1>8, <1>9, <2>1
  <2>3. at <= length
    BY <2>1
  <2> QED BY <1>2, <2>1, <2>2, <2>3
<1>17. at + Follow(mem[at]) = Len(t) + Len(b)
  BY <1>6, <1>16
<1>18. Len(t) + Len(b) > Len(mem) <=> Len(b) - cut >= 2
  <2>1. \A l, m, k \in Nat : l + m > (l + k) + 1 <=> m - k >= 2
    OBVIOUS
  <2>2. Len(mem) = (Len(t) + cut) + 1
    BY <1>9, <1>10
  <2> QED BY <1>6, <2>1, <2>2
<1>19. Follow(mem[at]) # GivesUp /\ ~(at > length)
  <2>1. Len(b) - 1 \in Nat
    BY <1>6
  <2>2. \A m \in Nat : m # GivesUp
    BY DEF GivesUp
  <2>3. ~(at > length)
    BY <1>6, <1>9, <1>10
  <2> QED BY <1>16, <2>1, <2>2, <2>3
<1> HIDE DEF at
<1>20. \E as \in Int : \E next \in Nat :
         /\ Decoded(mem, length, [at |-> at, out |-> <<e>>]) = [at |-> next, out |-> <<e, as>>]
         /\ next > length
         /\ as = Outside <=> Len(b) - cut >= 2
  <2>1. \A as \in Int : Append(<<e>>, as) = <<e, as>>
    <3>1. e \in Int
      BY CodepointIs
    <3> QED BY <3>1, AppendToOne
  <2>2. CASE Len(b) - cut >= 2
    <3>1. at + Follow(mem[at]) > Len(mem)
      BY <1>17, <1>18, <2>2
    <3>2. Outside \in Int
      BY DEF Outside
    <3>3. length + 1 \in Nat /\ length + 1 > length
      BY <1>9
    <3>4. Decoded(mem, length, [at |-> at, out |-> <<e>>]) = [at |-> length + 1, out |-> <<e, Outside>>]
      BY <1>19, <2>1, <3>1, <3>2 DEF Decoded
    <3> QED BY <2>2, <3>2, <3>3, <3>4
  <2>3. CASE ~(Len(b) - cut >= 2)
    <3>1. ~(at + Follow(mem[at]) > Len(mem))
      BY <1>17, <1>18, <2>3
    <3>2. CodeAt(mem, at) \in Nat
      <4>1. at + Follow(mem[at]) <= Len(mem)
        BY <1>6, <1>9, <1>17, <3>1
      <4> QED BY <1>9, <1>16, <1>19, <4>1, CodeAtType
    <3>3. Decoded(mem, length, [at |-> at, out |-> <<e>>])
            = [at |-> (Len(t) + Len(b)) + 1, out |-> <<e, CodeAt(mem, at)>>]
      BY <1>17, <1>19, <2>1, <3>1, <3>2 DEF Decoded
    <3>4. (Len(t) + Len(b)) + 1 \in Nat /\ (Len(t) + Len(b)) + 1 > length
      BY <1>6, <1>10
    <3>5. \A m \in Nat : m \in Int /\ m # Outside
      BY DEF Outside
    <3> QED BY <2>3, <3>2, <3>3, <3>4, <3>5
  <2> QED BY <2>2, <2>3
<1>21. PICK as \in Int, next \in Nat :
         /\ Decoded(mem, length, [at |-> at, out |-> <<e>>]) = [at |-> next, out |-> <<e, as>>]
         /\ next > length
         /\ as = Outside <=> Len(b) - cut >= 2
  BY <1>20
<1>22. r[2] = [at |-> next, out |-> <<e, as>>]
  BY <1>14, <1>15, <1>21 DEF at
<1>23. r[length] = r[2]
  <2>1. Decodes(r, mem, length)
    BY <1>13
  <2>2. 2 \in Nat /\ 2 <= length /\ length \in Nat
    BY <1>9, <1>10
  <2>3. r[2].at > length
    BY <1>21, <1>22
  <2> QED BY <2>1, <2>2, <2>3, DecodingEnds
<1>24. ToCodepoints(mem, length) = <<e, as>>
  <2>1. r[2].out = <<e, as>>
    <3>1. \A x, y : [at |-> x, out |-> y].out = y
      OBVIOUS
    <3> QED BY <1>22, <3>1
  <2> QED BY <1>13, <1>23, <2>1
<1>25. <<e, as>>[1] = e /\ <<e, as>>[2] = as
  OBVIOUS
<1> QED BY <1>5, <1>21, <1>24, <1>25

\* fp_encode_utf8 and fp_string_view_to_codepoints for every code point: in
\* whole, in views that start or end anywhere, and cut; and nothing is written
\* for a number that is not a code point.
THEOREM TextsAreDecoded == Spec => []TextsDecode
<1>1. Arguments => TextsDecode
  <2> SUFFICES ASSUME arg \in Nat PROVE TextsDecode
    BY DEF Arguments
  <2>1. MaxCodepoint \in Nat /\ MaxCodepoint >= 65536
    BY DEF MaxCodepoint
  <2>2. \A c \in Nat : c <= MaxCodepoint => c \in Codepoints
    BY <2>1 DEF Codepoints
  <2>3. CASE arg > MaxCodepoint
    <3>1. ~(arg <= 127) /\ ~(arg <= 2047) /\ ~(arg <= 65535) /\ ~(arg <= MaxCodepoint)
      BY <2>1, <2>3
    <3> QED BY <2>3, <3>1 DEF TextsDecode, Encode
  <2>4. CASE ~(arg > MaxCodepoint)
    <3>1. arg \in Codepoints
      BY <2>1, <2>2, <2>4
    <3>2. \A e \in Edges : e \in Codepoints
      BY <2>1, <2>2 DEF Edges
    <3>3. ASSUME NEW e \in Edges, NEW first \in 0 .. Len(Encode(arg)) + Len(Encode(e)),
                 NEW length \in 0 .. Len(Encode(arg)) + Len(Encode(e)) - first
          PROVE  ViewDecodes(arg, e, first, length)
      BY <3>1, <3>2, ViewsOfTwo
    <3>4. ASSUME NEW e \in Edges, NEW cut \in 1 .. Len(Encode(arg)) - 1
          PROVE  CutReadsOutside(arg, e, cut)
      BY <3>1, <3>2, CutsOf
    <3> QED BY <2>4, <3>3, <3>4 DEF TextsDecode
  <2> QED BY <2>3, <2>4
<1> QED BY <1>1, ArgumentsStay, PTL

-----------------------------------------------------------------------------
(* Powers of two. *)

LEMMA PowerIs ==
  /\ Power[0] = 1
  /\ \A k \in Nat : Power[k] \in Nat \ {0} /\ Power[k + 1] = 2 * Power[k]
<1> DEFINE step == [n \in Nat |-> [p \in Nat |-> 2 * p]]
           Is(f) == f = [k \in Nat |-> IF k = 0 THEN 1 ELSE 2 * f[k - 1]]
<1>1. IsRecursion(Nat, 1, step)
  BY DEF IsRecursion
<1>2. PICK f : Solves(f, Nat, 1, step)
  <2> HIDE DEF step
  <2> QED BY <1>1, RecursionExists
<1>3. f \in [Nat -> Nat] /\ f[0] = 1 /\ \A k \in Nat : f[k + 1] = 2 * f[k]
  BY <1>2 DEF Solves
<1>4. Is(f)
  <2>1. ASSUME NEW k \in Nat
        PROVE  f[k] = IF k = 0 THEN 1 ELSE 2 * f[k - 1]
    <3>1. CASE k = 0
      BY <1>3, <3>1
    <3>2. CASE k # 0
      <4>1. k - 1 \in Nat /\ (k - 1) + 1 = k
        BY <3>2
      <4>2. f[(k - 1) + 1] = 2 * f[k - 1]
        BY <1>3, <4>1
      <4> QED BY <3>2, <4>1, <4>2
    <3> QED BY <3>1, <3>2
  <2>2. f = [k \in Nat |-> f[k]]
    BY <1>3
  <2> QED BY <2>1, <2>2
<1>5. Is(Power)
  <2>1. Is(CHOOSE g : Is(g))
    BY <1>4
  <2> QED BY <2>1, Zenon DEF Power
<1>6. Power[0] = 1 /\ \A k \in Nat : Power[k + 1] = 2 * Power[k]
  <2>1. \A k \in Nat : Power[k] = IF k = 0 THEN 1 ELSE 2 * Power[k - 1]
    BY <1>5
  <2>2. ASSUME NEW k \in Nat
        PROVE  Power[k + 1] = 2 * Power[k]
    <3>1. k + 1 \in Nat /\ k + 1 # 0 /\ (k + 1) - 1 = k
      OBVIOUS
    <3> QED BY <2>1, <3>1
  <2> QED BY <2>1, <2>2
<1> DEFINE S == {k \in Nat : Power[k] \in Nat \ {0}}
<1>7. 0 \in S
  BY <1>6
<1>8. ASSUME NEW k \in Nat, k \in S
      PROVE  k + 1 \in S
  BY <1>6, <1>8
<1> HIDE DEF S
<1>9. \A k \in Nat : k \in S
  BY <1>7, <1>8, SetInduction
<1> QED BY <1>6, <1>9 DEF S

LEMMA PowersGrow ==
  ASSUME NEW a \in Nat, NEW b \in Nat
  PROVE  /\ a <= b => Power[a] <= Power[b]
         /\ a < b => 2 * Power[a] <= Power[b]
<1> DEFINE Grown(c) == \A k \in Nat : c <= k => Power[c] <= Power[k]
<1>1. ASSUME NEW c \in Nat
      PROVE  Grown(c)
  <2> DEFINE S == {k \in Nat : c <= k => Power[c] <= Power[k]}
  <2>1. 0 \in S
    BY PowerIs
  <2>2. ASSUME NEW k \in Nat, k \in S
        PROVE  k + 1 \in S
    <3>1. /\ Power[c] \in Nat /\ Power[k] \in Nat /\ Power[k + 1] = 2 * Power[k]
          /\ Power[k + 1] \in Nat
      BY PowerIs
    <3>2. CASE c = k + 1
      BY <3>1, <3>2
    <3>3. CASE c # k + 1 /\ c <= k + 1
      <4>1. Power[c] <= Power[k]
        BY <2>2, <3>3
      <4> QED BY <3>1, <4>1
    <3> QED BY <3>2, <3>3
  <2> HIDE DEF S
  <2>3. \A k \in Nat : k \in S
    BY <2>1, <2>2, SetInduction
  <2> QED BY <2>3 DEF S
<1>2. ASSUME a < b
      PROVE  2 * Power[a] <= Power[b]
  <2>1. a + 1 \in Nat /\ a + 1 <= b
    BY <1>2
  <2>2. Power[a + 1] <= Power[b]
    BY <1>1, <2>1
  <2> QED BY <2>2, PowerIs
<1> QED BY <1>1, <1>2

LEMMA SmallPowers == Power[6] = 64
<1>1. \A k, l \in Nat : l = k + 1 => Power[l] = 2 * Power[k]
  BY PowerIs
<1>2. Power[1] = 2
  BY <1>1, PowerIs
<1>3. Power[2] = 4
  BY <1>1, <1>2
<1>4. Power[3] = 8
  BY <1>1, <1>3
<1>5. Power[4] = 16
  BY <1>1, <1>4
<1>6. Power[5] = 32
  BY <1>1, <1>5
<1> QED BY <1>1, <1>6

\* A number has a highest bit.
LEMMA HighestBit ==
  ASSUME NEW x \in Nat \ {0}, NEW w \in Nat, x < Power[w]
  PROVE  \E h \in 0 .. w - 1 : Power[h] <= x /\ x < Power[h + 1]
<1> DEFINE S == {k \in Nat : x < Power[k]}
<1>1. S \in SUBSET Nat /\ w \in S
  OBVIOUS
<1>2. PICK m \in S : \A k \in S : m <= k
  <2>1. S # {}
    BY <1>1
  <2> HIDE DEF S
  <2> QED BY <1>1, <2>1, LeastNumber
<1>3. m \in Nat /\ m # 0 /\ m <= w
  BY <1>1, <1>2, PowerIs
<1>4. m - 1 \in 0 .. w - 1 /\ (m - 1) + 1 = m /\ m - 1 \in Nat
  BY <1>3
<1>5. m - 1 \notin S
  BY <1>2, <1>3, <1>4
<1>6. Power[m - 1] <= x /\ x < Power[(m - 1) + 1]
  <2>1. Power[m - 1] \in Nat
    BY <1>4, PowerIs
  <2>2. ~(x < Power[m - 1])
    BY <1>4, <1>5
  <2> QED BY <1>2, <1>4, <2>1, <2>2
<1> QED BY <1>4, <1>6

LEMMA BitsAre ==
  ASSUME NEW x \in Nat, NEW h \in 0 .. Width - 1, Power[h] <= x, x < Power[h + 1]
  PROVE  Bits(x) \subseteq 0 .. h /\ h \in Bits(x)
<1>0. h \in Nat /\ Power[h] \in Nat \ {0} /\ Power[h + 1] = 2 * Power[h]
  BY WidthAssumption, PowerIs
<1>1. (x \div Power[h]) % 2 = 1
  <2>1. \A p \in Nat \ {0} : p <= x /\ x < 2 * p => (x \div p) % 2 = 1
    OBVIOUS
  <2> QED BY <1>0, <2>1
<1>2. ASSUME NEW k \in 0 .. Width - 1, k > h
      PROVE  (x \div Power[k]) % 2 # 1
  <2>1. k \in Nat /\ 2 * Power[h] <= Power[k] /\ Power[k] \in Nat \ {0}
    BY <1>0, <1>2, WidthAssumption, PowersGrow, PowerIs
  <2>2. \A p \in Nat \ {0} : x < p => x \div p = 0
    OBVIOUS
  <2>3. x < Power[k]
    BY <1>0, <2>1
  <2>4. x \div Power[k] = 0
    BY <2>1, <2>2, <2>3
  <2> QED BY <2>4
<1>3. ASSUME NEW k \in Bits(x)
      PROVE  k \in 0 .. h
  <2>1. k \in 0 .. Width - 1 /\ (x \div Power[k]) % 2 = 1
    BY DEF Bits
  <2>2. ~(k > h)
    BY <1>2, <2>1
  <2> QED BY <1>0, <2>1, <2>2, WidthAssumption
<1> QED BY <1>1, <1>3 DEF Bits

LEMMA NoBits == Bits(0) = {}
<1>1. \A k \in 0 .. Width - 1 : (0 \div Power[k]) % 2 # 1
  <2>1. \A p \in Nat \ {0} : (0 \div p) % 2 # 1
    OBVIOUS
  <2> QED BY <2>1, WidthAssumption, PowerIs
<1> QED BY <1>1 DEF Bits

\* The highest of the bits is h, and the highest r of the numbers up to h are
\* among them.
Reaches(bits, h, r) ==
  bits \subseteq 0 .. h /\ \A k \in 0 .. h : k > h - r => k \in bits

LEMMA SmearReaches ==
  ASSUME NEW bits, NEW h \in Nat, NEW r \in Nat \ {0}, Reaches(bits, h, r)
  PROVE  Reaches(Smear(bits, r), h, 2 * r)
<1>1. bits \subseteq 0 .. h /\ \A k \in 0 .. h : k > h - r => k \in bits
  BY DEF Reaches
<1>2. ASSUME NEW k \in Smear(bits, r)
      PROVE  k \in 0 .. h
  <2>1. CASE k \in bits
    BY <1>1, <2>1
  <2>2. CASE k \notin bits
    <3>1. PICK l \in bits : l >= r /\ k = l - r
      BY <2>2 DEF Smear
    <3> QED BY <1>1, <3>1
  <2> QED BY <2>1, <2>2
<1>3. ASSUME NEW k \in 0 .. h, k > h - 2 * r
      PROVE  k \in Smear(bits, r)
  <2>1. CASE k > h - r
    BY <1>1, <2>1 DEF Smear
  <2>2. CASE ~(k > h - r)
    <3> DEFINE l == k + r
    <3>1. l \in 0 .. h /\ l > h - r /\ l >= r /\ l - r = k
      BY <1>3, <2>2
    <3> HIDE DEF l
    <3>2. l \in bits
      BY <1>1, <3>1
    <3> QED BY <3>1, <3>2 DEF Smear
  <2> QED BY <2>1, <2>2
<1> QED BY <1>2, <1>3 DEF Reaches

LEMMA SmearingRuns ==
  ASSUME NEW bits \in SUBSET Nat
  PROVE  \E after : /\ after[0] = bits /\ Smeared(bits) = after[6]
                    /\ \A i \in Nat : i < 6 => after[i + 1] = Smear(after[i], Power[i])
<1> DEFINE step == [i \in Nat |-> [b \in SUBSET Nat |-> Smear(b, Power[i])]]
           Is(f) == f = [i \in 0 .. 6 |-> IF i = 0 THEN bits ELSE Smear(f[i - 1], Power[i - 1])]
           after == CHOOSE f : Is(f)
<1>1. IsRecursion(SUBSET Nat, bits, step)
  <2>1. ASSUME NEW i \in Nat, NEW b \in SUBSET Nat
        PROVE  Smear(b, Power[i]) \in SUBSET Nat
    <3>1. Power[i] \in Nat
      BY PowerIs
    <3>2. \A l \in b : l >= Power[i] => l - Power[i] \in Nat
      BY <3>1
    <3> QED BY <3>2 DEF Smear
  <2> QED BY <2>1 DEF IsRecursion
<1>2. PICK f : SolvesUpTo(f, SUBSET Nat, bits, step, 6)
  <2> HIDE DEF step
  <2>1. 6 \in Nat
    OBVIOUS
  <2> QED BY <1>1, <2>1, RecursiveUpTo
<1>3. /\ f \in [0 .. 6 -> SUBSET Nat] /\ f[0] = bits
      /\ \A i \in Nat : i < 6 => f[i + 1] = step[i][f[i]]
  BY <1>2 DEF SolvesUpTo
<1>4. ASSUME NEW i \in 0 .. 6
      PROVE  f[i] = IF i = 0 THEN bits ELSE Smear(f[i - 1], Power[i - 1])
  <2>1. CASE i = 0
    BY <1>3, <2>1
  <2>2. CASE i # 0
    <3>1. i - 1 \in Nat /\ i - 1 < 6 /\ i - 1 \in 0 .. 6 /\ (i - 1) + 1 = i
      BY <2>2
    <3>2. f[i - 1] \in SUBSET Nat
      BY <1>3, <3>1
    <3>3. step[i - 1][f[i - 1]] = Smear(f[i - 1], Power[i - 1])
      BY <3>1, <3>2
    <3> HIDE DEF step
    <3>4. f[(i - 1) + 1] = step[i - 1][f[i - 1]]
      BY <1>3, <3>1
    <3> QED BY <2>2, <3>1, <3>3, <3>4
  <2> QED BY <2>1, <2>2
<1> HIDE DEF step
<1>5. Is(after)
  <2>1. f = [i \in 0 .. 6 |-> f[i]]
    BY <1>3
  <2>2. Is(f)
    BY <1>4, <2>1
  <2> QED BY <2>2
<1>6. Smeared(bits) = after[6]
  BY Zenon DEF Smeared
<1> HIDE DEF after
<1>7. \A i \in 0 .. 6 : after[i] = IF i = 0 THEN bits ELSE Smear(after[i - 1], Power[i - 1])
  BY <1>5
<1>8. ASSUME NEW i \in Nat, i < 6
      PROVE  after[i + 1] = Smear(after[i], Power[i])
  <2>1. i + 1 \in 0 .. 6 /\ i + 1 # 0 /\ (i + 1) - 1 = i
    BY <1>8
  <2> QED BY <1>7, <2>1
<1>9. after[0] = bits
  <2>1. 0 \in 0 .. 6
    OBVIOUS
  <2> QED BY <1>7, <2>1
<1> QED BY <1>6, <1>8, <1>9

LEMMA SmearedIs ==
  ASSUME NEW bits, NEW h \in 0 .. Width - 1, bits \subseteq 0 .. h, h \in bits
  PROVE  Smeared(bits) = 0 .. h
<1>0. h \in Nat /\ h < 64
  BY WidthAssumption
<1>1. PICK after : /\ after[0] = bits /\ Smeared(bits) = after[6]
                   /\ \A i \in Nat : i < 6 => after[i + 1] = Smear(after[i], Power[i])
  <2>1. bits \in SUBSET Nat
    OBVIOUS
  <2> QED BY <2>1, SmearingRuns
<1> DEFINE S == {i \in Nat : i <= 6 => Reaches(after[i], h, Power[i])}
<1>2. 0 \in S
  <2>1. \A k \in 0 .. h : k > h - 1 => k = h
    BY <1>0
  <2> QED BY <1>1, <2>1, PowerIs DEF Reaches
<1>3. ASSUME NEW i \in Nat, i \in S
      PROVE  i + 1 \in S
  <2> SUFFICES ASSUME i < 6 PROVE Reaches(after[i + 1], h, Power[i + 1])
    OBVIOUS
  <2>1. Reaches(after[i], h, Power[i])
    BY <1>3
  <2>2. Power[i] \in Nat \ {0} /\ Power[i + 1] = 2 * Power[i]
    BY PowerIs
  <2>3. Reaches(Smear(after[i], Power[i]), h, 2 * Power[i])
    BY <1>0, <2>1, <2>2, SmearReaches
  <2> QED BY <1>1, <2>2, <2>3
<1> HIDE DEF S
<1>4. \A i \in Nat : i \in S
  BY <1>2, <1>3, SetInduction
<1>5. Reaches(after[6], h, Power[6])
  BY <1>4 DEF S
<1>6. \A k \in 0 .. h : k > h - 64
  BY <1>0
<1>7. after[6] \subseteq 0 .. h /\ \A k \in 0 .. h : k > h - 64 => k \in after[6]
  BY <1>5, SmallPowers DEF Reaches
<1>8. after[6] = 0 .. h
  <2>1. \A k \in 0 .. h : k \in after[6]
    BY <1>6, <1>7
  <2> QED BY <1>7, <2>1
<1> QED BY <1>1, <1>8

LEMMA NothingSmeared == Smeared({}) = {}
<1>1. PICK after : /\ after[0] = {} /\ Smeared({}) = after[6]
                   /\ \A i \in Nat : i < 6 => after[i + 1] = Smear(after[i], Power[i])
  <2>1. {} \in SUBSET Nat
    OBVIOUS
  <2> QED BY <2>1, SmearingRuns
<1> DEFINE S == {i \in Nat : i <= 6 => after[i] = {}}
<1>2. 0 \in S
  BY <1>1
<1>3. ASSUME NEW i \in Nat, i \in S
      PROVE  i + 1 \in S
  <2> SUFFICES ASSUME i < 6 PROVE after[i + 1] = {}
    OBVIOUS
  <2>1. after[i + 1] = Smear({}, Power[i])
    BY <1>1, <1>3
  <2> QED BY <2>1 DEF Smear
<1> HIDE DEF S
<1>4. \A i \in Nat : i \in S
  BY <1>2, <1>3, SetInduction
<1> QED BY <1>1, <1>4 DEF S

LEMMA WordRuns ==
  ASSUME NEW bits
  PROVE  \E sum : /\ sum[0] = 0 /\ Word(bits) = sum[Width]
                  /\ \A k \in Nat : k < Width =>
                       sum[k + 1] = sum[k] + (IF k \in bits THEN Power[k] ELSE 0)
<1> DEFINE add(k) == IF k \in bits THEN Power[k] ELSE 0
           step == [k \in Nat |-> [v \in Nat |-> v + add(k)]]
           Is(f) == f = [k \in 0 .. Width |-> IF k = 0 THEN 0
                           ELSE f[k - 1] + (IF k - 1 \in bits THEN Power[k - 1] ELSE 0)]
           sum == CHOOSE f : Is(f)
<1>0. Width \in Nat
  BY WidthAssumption
<1>1. IsRecursion(Nat, 0, step)
  <2>1. \A k \in Nat, v \in Nat : v + add(k) \in Nat
    BY PowerIs
  <2> HIDE DEF add
  <2> QED BY <2>1 DEF IsRecursion
<1>2. PICK f : SolvesUpTo(f, Nat, 0, step, Width)
  <2> HIDE DEF step
  <2> QED BY <1>0, <1>1, RecursiveUpTo
<1>3. /\ f \in [0 .. Width -> Nat] /\ f[0] = 0
      /\ \A k \in Nat : k < Width => f[k + 1] = step[k][f[k]]
  BY <1>2 DEF SolvesUpTo
<1>4. ASSUME NEW k \in 0 .. Width
      PROVE  f[k] = IF k = 0 THEN 0 ELSE f[k - 1] + add(k - 1)
  <2> HIDE DEF add
  <2>1. CASE k = 0
    BY <1>3, <2>1
  <2>2. CASE k # 0
    <3>1. k - 1 \in Nat /\ k - 1 < Width /\ k - 1 \in 0 .. Width /\ (k - 1) + 1 = k
      BY <1>0, <2>2
    <3>2. f[k - 1] \in Nat
      BY <1>3, <3>1
    <3>3. step[k - 1][f[k - 1]] = f[k - 1] + add(k - 1)
      BY <3>1, <3>2
    <3> HIDE DEF step
    <3>4. f[(k - 1) + 1] = step[k - 1][f[k - 1]]
      BY <1>3, <3>1
    <3> QED BY <2>2, <3>1, <3>3, <3>4
  <2> QED BY <2>1, <2>2
<1> HIDE DEF step
<1>5. Is(sum)
  <2>1. f = [k \in 0 .. Width |-> f[k]]
    BY <1>3
  <2>2. Is(f)
    BY <1>4, <2>1
  <2> QED BY <2>2
<1>6. Word(bits) = sum[Width]
  BY Zenon DEF Word
<1> HIDE DEF sum
<1>7. \A k \in 0 .. Width : sum[k] = IF k = 0 THEN 0 ELSE sum[k - 1] + add(k - 1)
  BY <1>5
<1>8. ASSUME NEW k \in Nat, k < Width
      PROVE  sum[k + 1] = sum[k] + add(k)
  <2> HIDE DEF add
  <2>1. k + 1 \in 0 .. Width /\ k + 1 # 0 /\ (k + 1) - 1 = k
    BY <1>0, <1>8
  <2> QED BY <1>7, <2>1
<1>9. sum[0] = 0
  <2>1. 0 \in 0 .. Width
    BY <1>0
  <2> QED BY <1>7, <2>1
<1> QED BY <1>6, <1>8, <1>9

LEMMA WordIs ==
  ASSUME NEW h \in 0 .. Width - 1
  PROVE  Word(0 .. h) = Power[h + 1] - 1
<1>0. Width \in Nat /\ h \in Nat /\ h + 1 <= Width
  BY WidthAssumption
<1>1. PICK sum : /\ sum[0] = 0 /\ Word(0 .. h) = sum[Width]
                 /\ \A k \in Nat : k < Width =>
                      sum[k + 1] = sum[k] + (IF k \in 0 .. h THEN Power[k] ELSE 0)
  BY WordRuns
<1> DEFINE S == {k \in Nat : k <= Width => sum[k] = IF k <= h THEN Power[k] - 1 ELSE Power[h + 1] - 1}
<1>2. 0 \in S
  <2>1. 0 <= h /\ Power[0] - 1 = 0 /\ sum[0] = 0
    BY <1>0, <1>1, PowerIs
  <2> QED BY <2>1
<1>3. ASSUME NEW k \in Nat, k \in S
      PROVE  k + 1 \in S
  <2> SUFFICES ASSUME k < Width
               PROVE  sum[k + 1] = IF k + 1 <= h THEN Power[k + 1] - 1 ELSE Power[h + 1] - 1
    BY <1>0
  <2>1. /\ sum[k] = IF k <= h THEN Power[k] - 1 ELSE Power[h + 1] - 1
        /\ sum[k + 1] = sum[k] + (IF k \in 0 .. h THEN Power[k] ELSE 0)
    BY <1>0, <1>1, <1>3
  <2>2. Power[k] \in Nat /\ Power[k + 1] = 2 * Power[k] /\ Power[h + 1] \in Nat
    BY <1>0, PowerIs
  <2>3. CASE k <= h
    <3>1. sum[k + 1] = Power[k + 1] - 1
      <4>1. k \in 0 .. h
        BY <1>0, <2>3
      <4> QED BY <2>1, <2>2, <2>3, <4>1
    <3>2. k + 1 <= h \/ k = h
      BY <1>0, <2>3
    <3> QED BY <3>1, <3>2
  <2>4. CASE ~(k <= h)
    <3>1. k \notin 0 .. h /\ ~(k + 1 <= h)
      BY <1>0, <2>4
    <3> QED BY <2>1, <2>2, <2>4, <3>1
  <2> QED BY <2>3, <2>4
<1> HIDE DEF S
<1>4. \A k \in Nat : k \in S
  BY <1>2, <1>3, SetInduction
<1> QED BY <1>0, <1>1, <1>4 DEF S

LEMMA NoWord == Word({}) = 0
<1>0. Width \in Nat
  BY WidthAssumption
<1>1. PICK sum : /\ sum[0] = 0 /\ Word({}) = sum[Width]
                 /\ \A k \in Nat : k < Width =>
                      sum[k + 1] = sum[k] + (IF k \in {} THEN Power[k] ELSE 0)
  BY WordRuns
<1> DEFINE S == {k \in Nat : k <= Width => sum[k] = 0}
<1>2. 0 \in S
  BY <1>1
<1>3. ASSUME NEW k \in Nat, k \in S
      PROVE  k + 1 \in S
  BY <1>0, <1>1, <1>3
<1> HIDE DEF S
<1>4. \A k \in Nat : k \in S
  BY <1>2, <1>3, SetInduction
<1> QED BY <1>0, <1>1, <1>4 DEF S

\* What is left of a word whose highest bit is h.
LEMMA UpperIs ==
  ASSUME NEW x \in Nat, NEW h \in 0 .. Width - 1, Power[h] <= x, x < Power[h + 1]
  PROVE  Word(Smeared(Bits(x))) + 1 = Power[h + 1]
<1>1. Bits(x) \subseteq 0 .. h /\ h \in Bits(x)
  BY BitsAre
<1>2. Smeared(Bits(x)) = 0 .. h
  BY <1>1, SmearedIs
<1>3. Word(0 .. h) = Power[h + 1] - 1 /\ Power[h + 1] \in Nat
  BY WidthAssumption, WordIs, PowerIs
<1> QED BY <1>2, <1>3

LEMMA UpperIsLeast ==
  ASSUME NEW v \in Words
  PROVE  UpperPowerOfTwo(v) = LeastPower(v)
<1> DEFINE M == Power[Width]
           x == (v - 1) % M
           fit == {k \in 0 .. Width - 1 : Power[k] >= v}
<1>0. Width \in Nat /\ Width >= 1 /\ M \in Nat /\ M >= 2
  <2>1. Width \in Nat /\ 0 < Width /\ 0 \in Nat
    BY WidthAssumption
  <2>2. 2 * Power[0] <= Power[Width] /\ Power[Width] \in Nat
    BY <2>1, PowersGrow, PowerIs
  <2> QED BY <2>1, <2>2, PowerIs
<1>1. v \in Nat /\ v < M
  BY <1>0 DEF Words
<1>2. UpperPowerOfTwo(v) = (Word(Smeared(Bits(x))) + 1) % M
  BY DEF UpperPowerOfTwo
<1>3. LeastPower(v) = IF v = 0 \/ fit = {} THEN 0 ELSE Power[Min(fit)]
  BY DEF LeastPower
<1> HIDE DEF x
<1>4. \A k \in 0 .. Width - 1 : k \in Nat /\ k + 1 \in Nat /\ Power[k] \in Nat /\ Power[k + 1] \in Nat
  BY <1>0, PowerIs
<1>5. \A k \in 0 .. Width - 1 : k + 1 # Width => 2 * Power[k + 1] <= M /\ k + 1 \in 0 .. Width - 1
  <2> SUFFICES ASSUME NEW k \in 0 .. Width - 1, k + 1 # Width
               PROVE  2 * Power[k + 1] <= M /\ k + 1 \in 0 .. Width - 1
    OBVIOUS
  <2>1. k + 1 \in Nat /\ k + 1 < Width /\ k + 1 \in 0 .. Width - 1
    BY <1>0
  <2> QED BY <1>0, <2>1, PowersGrow
<1>6. CASE v = 0
  <2>1. x = M - 1
    <3>1. \A m \in Nat : m >= 2 => (0 - 1) % m = m - 1
      OBVIOUS
    <3> QED BY <1>0, <1>6, <3>1 DEF x
  <2>2. x \in Nat \ {0} /\ x < M
    BY <1>0, <2>1
  <2> HIDE DEF M
  <2>3. PICK h \in 0 .. Width - 1 : Power[h] <= x /\ x < Power[h + 1]
    BY <1>0, <2>2, HighestBit DEF M
  <2>4. h + 1 = Width
    BY <1>0, <1>4, <1>5, <2>1, <2>3
  <2>5. Word(Smeared(Bits(x))) + 1 = M
    BY <2>2, <2>3, <2>4, UpperIs DEF M
  <2>6. M % M = 0
    BY <1>0
  <2> QED BY <1>2, <1>3, <1>6, <2>5, <2>6
<1>7. CASE v = 1
  <2>1. x = 0
    <3>1. \A m \in Nat : m >= 2 => (1 - 1) % m = 0
      OBVIOUS
    <3> QED BY <1>0, <1>7, <3>1 DEF x
  <2>2. Word(Smeared(Bits(x))) = 0
    BY <2>1, NoBits, NothingSmeared, NoWord
  <2>3. (0 + 1) % M = 1
    <3>1. \A m \in Nat : m >= 2 => (0 + 1) % m = 1
      OBVIOUS
    <3> HIDE DEF M
    <3> QED BY <1>0, <3>1
  <2>4. 0 \in fit
    BY <1>0, <1>7, PowerIs
  <2>5. Min(fit) = 0
    <3>1. fit \in SUBSET Nat /\ fit # {}
      BY <1>0, <2>4
    <3> HIDE DEF fit
    <3>2. Min(fit) \in Nat /\ Min(fit) <= 0
      BY <2>4, <3>1, LeastOf
    <3> QED BY <3>2
  <2> HIDE DEF fit
  <2> QED BY <1>2, <1>3, <1>7, <2>2, <2>3, <2>4, <2>5, PowerIs
<1>8. CASE v # 0 /\ v # 1
  <2>1. x = v - 1
    <3>1. \A m \in Nat, n \in Nat : n < m => n % m = n
      OBVIOUS
    <3>2. v - 1 \in Nat /\ v - 1 < M
      BY <1>0, <1>1, <1>8
    <3> HIDE DEF M
    <3> QED BY <1>0, <3>1, <3>2 DEF x
  <2>2. x \in Nat \ {0} /\ x < M
    BY <1>0, <1>1, <1>8, <2>1
  <2>3. PICK h \in 0 .. Width - 1 : Power[h] <= x /\ x < Power[h + 1]
    BY <1>0, <2>2, HighestBit
  <2>4. /\ h \in Nat /\ Power[h] \in Nat /\ Power[h + 1] \in Nat
        /\ Power[h] < v /\ v <= Power[h + 1]
    BY <1>1, <1>4, <1>8, <2>1, <2>3
  <2>5. Word(Smeared(Bits(x))) + 1 = Power[h + 1]
    BY <2>2, <2>3, UpperIs
  <2>6. ASSUME NEW k \in fit
        PROVE  k > h
    <3>1. k \in 0 .. Width - 1 /\ Power[k] >= v /\ k \in Nat /\ Power[k] \in Nat
      BY <1>4
    <3>2. k <= h => Power[k] <= Power[h]
      BY <2>4, <3>1, PowersGrow
    <3> QED BY <1>1, <2>4, <3>1, <3>2
  <2>7. CASE h + 1 = Width
    <3>1. fit = {}
      <4>1. \A k \in fit : k \in 0 .. Width - 1
        OBVIOUS
      <4> HIDE DEF fit
      <4> QED BY <1>0, <2>4, <2>6, <2>7, <4>1
    <3>2. Power[h + 1] % M = 0
      <4>1. \A m \in Nat : m >= 2 => m % m = 0
        OBVIOUS
      <4> QED BY <1>0, <2>7, <4>1
    <3> HIDE DEF fit
    <3> QED BY <1>2, <1>3, <2>5, <3>1, <3>2
  <2>8. CASE h + 1 # Width
    <3>1. 2 * Power[h + 1] <= M /\ h + 1 \in 0 .. Width - 1
      BY <1>5, <2>8
    <3>2. Power[h + 1] % M = Power[h + 1]
      <4>1. \A m \in Nat, n \in Nat : n < m => n % m = n
        OBVIOUS
      <4>2. Power[h + 1] < M
        BY <1>0, <2>4, <3>1, <1>1, <1>8
      <4> HIDE DEF M
      <4> QED BY <1>0, <2>4, <4>1, <4>2
    <3>3. h + 1 \in fit
      BY <2>4, <3>1
    <3>4. fit \in SUBSET Nat /\ fit # {}
      BY <1>0, <3>3
    <3> HIDE DEF fit
    <3>5. Min(fit) \in Nat /\ Min(fit) <= h + 1 /\ Min(fit) > h
      BY <2>6, <3>3, <3>4, LeastOf
    <3>6. Min(fit) = h + 1
      BY <2>4, <3>5
    <3> QED BY <1>2, <1>3, <1>8, <2>5, <3>2, <3>4, <3>6
  <2> QED BY <2>7, <2>8
<1> QED BY <1>6, <1>7, <1>8

\* fp_upper_power_of_two computes the least power of two from a number on, for
\* every word of a width of up to 64 bits: five shifts smear 32 bits, six 64.
THEOREM PowersAreComputed == Spec => []PowersAreLeast
<1>1. PowersAreLeast
  BY UpperIsLeast DEF PowersAreLeast
<1> QED BY <1>1, PTL

\* What the theorems about arrays and strings assume of the capacities
\* (PowerAssumption, of NextPower) is true of fp_upper_power_of_two, for every
\* length up to half of what a word can count: the power is no less than asked.
THEOREM PowersSuffice ==
  ASSUME NEW size \in 1 .. Power[Width - 1]
  PROVE  \A v \in 1 .. size : UpperPowerOfTwo(v) \in Nat /\ UpperPowerOfTwo(v) >= v
<1> SUFFICES ASSUME NEW v \in 1 .. size
             PROVE  UpperPowerOfTwo(v) \in Nat /\ UpperPowerOfTwo(v) >= v
  OBVIOUS
<1> DEFINE w == Width - 1
           fit == {k \in 0 .. w : Power[k] >= v}
<1>1. w \in Nat /\ w + 1 = Width
  BY WidthAssumption
<1>2. Power[w] \in Nat \ {0} /\ Power[Width] = 2 * Power[w]
  BY <1>1, PowerIs
<1>3. v \in Nat \ {0} /\ v <= Power[w]
  BY <1>2
<1>4. v \in Words
  BY <1>2, <1>3 DEF Words
<1>5. fit \subseteq Nat /\ w \in fit
  BY <1>1, <1>3
<1>6. PICK least \in fit : \A k \in fit : least <= k
  BY <1>5, LeastNumber
<1> HIDE DEF fit
<1>7. Min(fit) \in fit
  BY <1>5, <1>6 DEF Min
<1>8. UpperPowerOfTwo(v) = Power[Min(fit)]
  BY <1>3, <1>4, <1>5, UpperIsLeast DEF LeastPower, fit
<1>9. Power[Min(fit)] \in Nat /\ Power[Min(fit)] >= v
  BY <1>1, <1>7, PowerIs DEF fit
<1> QED BY <1>8, <1>9
=============================================================================
