--------------------------------- MODULE Utf8 ---------------------------------
(***************************************************************************)
(* The UTF-8 codec of include/fp/string.h, on sequences of bytes.  Its     *)
(* shifts and masks are divisions and remainders by powers of two.         *)
(***************************************************************************)
EXTENDS Integers, Sequences

MaxCodepoint == 1114111   \* the greatest code point
Codepoints == 0 .. MaxCodepoint

\* The byte of the lowest six bits.
Six(bits) == 128 + (bits % 64)

\* fp_encode_utf8; 0 bytes are written for what is not a code point.
Encode(c) ==
  IF c <= 127 THEN <<c>>
  ELSE IF c <= 2047 THEN <<192 + c \div 64, Six(c)>>
  ELSE IF c <= 65535 THEN <<224 + c \div 64^2, Six(c \div 64), Six(c)>>
  ELSE IF c <= MaxCodepoint THEN <<240 + c \div 64^3, Six(c \div 64^2), Six(c \div 64), Six(c)>>
  ELSE <<>>

\* The bytes of a sequence of code points, each behind the other.
EncodeAll(codepoints) ==
  LET bytes[n \in 0 .. Len(codepoints)] ==
        IF n = 0 THEN <<>> ELSE bytes[n - 1] \o Encode(codepoints[n])
  IN  bytes[Len(codepoints)]

\* What fp_string_view_to_codepoints comes to instead of a code point: it
\* returns null, or it reads past the bytes given.
GivesUp == -1
Outside == -2

\* Mutant of Follow: a byte from the middle of a sequence is taken for a whole one.
FollowUnchecked(byte) ==
  CASE byte < 192        -> 0
    [] byte \div 32 = 6  -> 1
    [] byte \div 16 = 14 -> 2
    [] OTHER             -> 3

\* How many bytes the decoder takes after a first byte: it gives up at one
\* that no sequence starts with.
Follow(byte) ==
  CASE byte < 128        -> 0
    [] byte \div 32 = 6  -> 1
    [] byte \div 16 = 14 -> 2
    [] byte \div 8 = 30  -> 3
    [] OTHER             -> GivesUp

\* The code point that starts at byte i, whatever bytes follow the first.
CodeAt(s, i) ==
  LET six(j) == s[i + j] % 64
  IN  CASE Follow(s[i]) = 0 -> s[i]
        [] Follow(s[i]) = 1 -> (s[i] % 32) * 64 + six(1)
        [] Follow(s[i]) = 2 -> (s[i] % 16) * 64^2 + six(1) * 64 + six(2)
        [] Follow(s[i]) = 3 -> (s[i] % 8) * 64^3 + six(1) * 64^2 + six(2) * 64 + six(3)

\* A round of the loop of fp_string_view_to_codepoints, for a view of length
\* bytes at the start of the bytes s in memory: `at` is the next byte, out what
\* was decoded.  Only the first byte of a sequence is tested to be in the view,
\* the others are read wherever they are.
Decoded(s, length, d) ==
  LET ends(as) == [at |-> length + 1, out |-> Append(d.out, as)]
      last     == d.at + Follow(s[d.at])
  IN  IF d.at > length THEN d
      ELSE IF Follow(s[d.at]) = GivesUp THEN ends(GivesUp)
      ELSE IF last > Len(s) THEN ends(Outside)
      ELSE [at |-> last + 1, out |-> Append(d.out, CodeAt(s, d.at))]

\* The function: each round takes a byte or more.
ToCodepoints(s, length) ==
  LET after[n \in 0 .. length] ==
        IF n = 0 THEN [at |-> 1, out |-> <<>>] ELSE Decoded(s, length, after[n - 1])
  IN  after[length].out
=============================================================================
