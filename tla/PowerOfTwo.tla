----------------------------- MODULE PowerOfTwo -----------------------------
(***************************************************************************)
(* fp_upper_power_of_two of include/fp/dynarray.h, on words of Width bits  *)
(* (the code's are uint64_t), and what it computes, said without bits.     *)
(* Where bits are combined, a word is the set of those that are one.       *)
(***************************************************************************)
EXTENDS Integers, FiniteSetsExt

CONSTANT Width

\* The code shifts by at most 32.
ASSUME WidthAssumption == Width \in 1 .. 64

Power[k \in Nat] == IF k = 0 THEN 1 ELSE 2 * Power[k - 1]

Words == 0 .. Power[Width] - 1

Bits(v) == {k \in 0 .. Width - 1 : (v \div Power[k]) % 2 = 1}
Word(bits) ==
  LET sum[k \in 0 .. Width] ==
        IF k = 0 THEN 0 ELSE sum[k - 1] + (IF k - 1 \in bits THEN Power[k - 1] ELSE 0)
  IN  sum[Width]

\* v |= v >> shift
Smear(bits, shift) == bits \cup {k - shift : k \in {l \in bits : l >= shift}}

\* The shifts by 1, 2, 4, ..., 32, which copy the highest bit to all lower ones.
Smeared(bits) ==
  LET after[i \in 0 .. 6] == IF i = 0 THEN bits ELSE Smear(after[i - 1], Power[i - 1])
  IN  after[6]

\* Mutant of UpperPowerOfTwo: v is not decremented first.
UpperPowerOfTwoOfNext(v) == (Word(Smeared(Bits(v))) + 1) % Power[Width]

UpperPowerOfTwo(v) == (Word(Smeared(Bits((v - 1) % Power[Width]))) + 1) % Power[Width]

\* The least power of two that is v or more; 0, where the 64 bit word of the
\* source overflows, for 0 and for what no power of two below 2^Width reaches.
LeastPower(v) ==
  LET fit == {k \in 0 .. Width - 1 : Power[k] >= v}
  IN  IF v = 0 \/ fit = {} THEN 0 ELSE Power[Min(fit)]
=============================================================================
