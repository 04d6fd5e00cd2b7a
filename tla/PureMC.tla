-------------------------------- MODULE PureMC --------------------------------
(***************************************************************************)
(* The pure functions of the library, called with every argument of a set: *)
(* a number, or two views.                                                 *)
(***************************************************************************)
EXTENDS PowerOfTwo, Utf8, TextViews

CONSTANTS
  Stride, Beyond,   \* every Stride-th number up to Beyond is an argument
  Chars,            \* characters of the views
  MaxText           \* length of the views

ASSUME ArgumentsAssumption ==
  /\ Stride \in Nat \ {0} /\ Beyond \in Nat
  /\ Chars \subseteq Nat /\ MaxText \in Nat /\ MaxText < SizeMax

VARIABLES arg, texts

Texts == UNION {[1 .. n -> Chars] : n \in 0 .. MaxText}

Init ==
  \/ arg \in Words \cup {Stride * k : k \in 0 .. Beyond \div Stride} /\ texts = <<>>
  \/ arg = 0 /\ texts \in Texts \X Texts
Next == UNCHANGED <<arg, texts>>
Spec == Init /\ [][Next]_<<arg, texts>>

\* The capacity a growing array takes is the least power of two from the
\* number of elements on, and 0 only for 0 and for a number no power of two of
\* the word reaches (fp_upper_power_of_two).
PowersAreLeast == arg \in Words => UpperPowerOfTwo(arg) = LeastPower(arg)

Edges == {0, 127, 128, 2047, 2048, 65535, 65536, MaxCodepoint}

\* A view of length bytes from byte first on, into the text of code points c and e.
ViewDecodes(c, e, first, length) ==
  LET text == EncodeAll(<<c, e>>)
      second == Len(Encode(c))
  IN  ToCodepoints(SubSeq(text, first + 1, Len(text)), length) =
        IF length = 0 THEN <<>>
        ELSE IF first = 0 THEN IF length <= second THEN <<c>> ELSE <<c, e>>
        ELSE IF first = second THEN <<e>>
        ELSE <<GivesUp>>

\* The text of e and the first cut bytes of c, with the zero of a string behind it.
CutReadsOutside(c, e, cut) ==
  LET s == Encode(e) \o SubSeq(Encode(c), 1, cut)
      missing == Len(Encode(c)) - cut
      r == ToCodepoints(Append(s, 0), Len(s))
  IN  r[1] = e /\ (r[2] = Outside <=> missing >= 2)

\* What fp_encode_utf8 writes, fp_string_view_to_codepoints reads back, in whole
\* and in part.  A view into a text, starting and ending anywhere (callers cut
\* texts by bytes), decodes to the code points that start in it, or to null if
\* it starts inside of one, and nothing outside of the text is read.  Of a string
\* cut inside of a code point, the decoder reads past the terminating zero
\* exactly when two or more bytes are missing.
TextsDecode ==
  IF arg > MaxCodepoint THEN Encode(arg) = <<>>
  ELSE LET bytes == Len(Encode(arg))
       IN  \A e \in Edges :
             /\ \A first \in 0 .. bytes + Len(Encode(e)) :
                  \A length \in 0 .. bytes + Len(Encode(e)) - first : ViewDecodes(arg, e, first, length)
             /\ \A cut \in 1 .. bytes - 1 : CutReadsOutside(arg, e, cut)

\* fp_string_view_compare orders texts by length, then as words, and finds
\* only equal ones equal, as long as their lengths differ by what an int holds;
\* beyond that, up to the next turn of the int, it puts the longer text first.
Precedes(a, b) ==
  \/ Len(a) < Len(b)
  \/ Len(a) = Len(b) /\ \E j \in DOMAIN a : a[j] < b[j] /\ \A i \in 1 .. j - 1 : a[i] = b[i]
CompareOrders ==
  texts # <<>> =>
    LET a == texts[1]
        b == texts[2]
        apart == Len(a) - Len(b)
    IN  /\ apart \in -IntMax - 1 .. IntMax =>
             /\ Compare(a, b) < 0 <=> Precedes(a, b)
             /\ Compare(a, b) = 0 <=> a = b
        /\ apart \in IntMax + 1 .. 2 * IntMax + 1 => Compare(a, b) < 0
        /\ apart \in -(2 * IntMax + 1) .. -IntMax - 2 => Compare(a, b) > 0

\* starts_with and ends_with say whether the needle is there, though
\* fp_view_equal takes views of different lengths for equal; they are stopped
\* by an assertion where it cannot be, and read outside the text only when
\* start and the length of the needle exceed a size_t together.
IsAt(s, needle, from) ==
  /\ from >= 0 /\ from + Len(needle) <= Len(s)
  /\ SubSeq(s, from + 1, from + Len(needle)) = needle
Ends   == -MaxText - 1 .. MaxText + 1
Starts == 0 .. MaxText + 1 \cup {SizeT(-k) : k \in 1 .. MaxText}
AffixesAreRight ==
  texts # <<>> =>
    LET s == texts[1]
        n == texts[2]
    IN  /\ \A start \in Starts :
             LET is == StartsWith(s, n, start)
             IN  /\ is = "yes" <=> IsAt(s, n, start)
                 /\ is = "assert" => start > Len(s)
                 /\ is = "outside" => start + Len(n) > SizeMax
        /\ \A end \in Ends :
             LET is == EndsWith(s, n, end)
                 stop == IF end <= 0 THEN Len(s) + end ELSE end
             IN  /\ is = "yes" <=> stop <= Len(s) /\ IsAt(s, n, stop - Len(n))
                 /\ is = "assert" => stop \notin 0 .. Len(s)
                 /\ is # "outside"
=============================================================================
