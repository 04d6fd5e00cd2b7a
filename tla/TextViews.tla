------------------------------- MODULE TextViews -------------------------------
(***************************************************************************)
(* How include/fp/string.h compares views of characters, on the word sizes *)
(* it computes with: a length is a size_t, the result of a comparison an   *)
(* int.  Views are sequences of numbers; positions count from 0.           *)
(***************************************************************************)
EXTENDS Integers, Sequences, FiniteSetsExt

CONSTANTS SizeMax, IntMax   \* the largest size_t and int

ASSUME LimitsAssumption == SizeMax \in Nat /\ IntMax \in Nat

SizeT(n) == n % (SizeMax + 1)
AsInt(n) ==
  LET m == n % (2 * (IntMax + 1)) IN IF m > IntMax THEN m - 2 * (IntMax + 1) ELSE m

\* memcmp of the first n characters
MemCmp(a, b, n) ==
  LET differ == {j \in 1 .. n : a[j] # b[j]}
  IN  IF differ = {} THEN 0 ELSE a[Min(differ)] - b[Min(differ)]

\* Mutant of Compare: the lengths are not compared.
CompareShorter(a, b) == MemCmp(a, b, IF Len(a) < Len(b) THEN Len(a) ELSE Len(b))

\* fp_string_view_compare
Compare(a, b) == IF Len(a) # Len(b) THEN AsInt(Len(a) - Len(b)) ELSE MemCmp(a, b, Len(a))

\* fp_view_equal: fp_view_compare gives 0 for views of different lengths
ViewEqual(a, b) == Len(a) # Len(b) \/ MemCmp(a, b, Len(a)) = 0

\* The comparison of needle with the subview of s from `from` on; an assertion
\* compares the end of the subview with the length of s.
At(s, needle, from) ==
  IF SizeT(from + Len(needle)) > Len(s) THEN "assert"
  ELSE IF from + Len(needle) > Len(s) THEN "outside"
  ELSE IF ViewEqual(SubSeq(s, from + 1, from + Len(needle)), needle) THEN "yes" ELSE "no"

\* Mutant of StartsWith: the length is not checked.
StartsWithAny(s, needle, start) == At(s, needle, start)

\* fp_string_view_starts_with
StartsWith(s, needle, start) ==
  IF Len(needle) > SizeT(Len(s) - start) THEN "no" ELSE At(s, needle, start)

\* fp_string_view_ends_with: an end of 0 or less counts from the end
EndsWith(s, needle, end) ==
  LET stop == SizeT(IF end <= 0 THEN Len(s) + end ELSE end)
  IN  IF Len(needle) > stop THEN "no" ELSE At(s, needle, stop - Len(needle))
=============================================================================
