------------------------------- MODULE Induction -------------------------------
(***************************************************************************)
(* Induction on the natural numbers, and functions defined by recursion on *)
(* them, in first-order form: of the set of numbers that have a property,  *)
(* and of a step that is itself a function.                                *)
(***************************************************************************)
EXTENDS Integers, WellFoundedInduction, TLAPS

\* A set with 0 and the successor of each of its members has every number.
LEMMA SetInduction ==
  ASSUME NEW S, 0 \in S, \A k \in Nat : k \in S => k + 1 \in S
  PROVE  \A k \in Nat : k \in S
<1> SUFFICES ASSUME Nat \ S # {} PROVE FALSE
  OBVIOUS
<1> DEFINE R == OpToRel(<, Nat)
<1>1. IsWellFoundedOn(R, Nat)
  BY NatLessThanWellFounded
<1>2. \A k, m \in Nat : k < m => <<k, m>> \in R
  BY DEF OpToRel
<1> HIDE DEF R
<1>3. PICK m \in Nat \ S : \A k \in Nat \ S : <<k, m>> \notin R
  BY <1>1, WFMin
<1>4. m # 0 /\ m - 1 \in Nat
  OBVIOUS
<1>5. <<m - 1, m>> \in R
  <2>1. m - 1 < m
    BY <1>4
  <2> QED BY <1>2, <1>4, <2>1
<1>6. m - 1 \in S
  BY <1>3, <1>4, <1>5
<1>7. (m - 1) + 1 = m
  OBVIOUS
<1> QED BY <1>4, <1>6, <1>7

-----------------------------------------------------------------------------
(* Functions by recursion. *)

\* f follows the steps from base, as far as m.
Follows(f, base, step, m) == f[0] = base /\ \A k \in Nat : k < m => f[k + 1] = step[k][f[k]]

LEMMA FollowsExists ==
  ASSUME NEW D, NEW base \in D, NEW step \in [Nat -> [D -> D]]
  PROVE  \A m \in Nat : \E f \in [Nat -> D] : Follows(f, base, step, m)
<1> DEFINE S == {m \in Nat : \E f \in [Nat -> D] : Follows(f, base, step, m)}
<1>1. 0 \in S
  <2> DEFINE f == [k \in Nat |-> base]
  <2>1. f \in [Nat -> D] /\ Follows(f, base, step, 0)
    BY DEF Follows
  <2> QED BY <2>1
<1>2. ASSUME NEW m \in Nat, m \in S
      PROVE  m + 1 \in S
  <2>1. PICK f \in [Nat -> D] : Follows(f, base, step, m)
    BY <1>2
  <2> DEFINE g == [f EXCEPT ![m + 1] = step[m][f[m]]]
  <2>2. step[m][f[m]] \in D
    OBVIOUS
  <2>3. g \in [Nat -> D] /\ g[m + 1] = step[m][f[m]] /\ \A k \in Nat : k < m + 1 => g[k] = f[k]
    BY <2>2
  <2> HIDE DEF g
  <2>4. Follows(g, base, step, m + 1)
    <3>1. g[0] = base
      BY <2>1, <2>3 DEF Follows
    <3>2. ASSUME NEW k \in Nat, k < m + 1
          PROVE  g[k + 1] = step[k][g[k]]
      <4>1. CASE k = m
        BY <2>3, <4>1
      <4>2. CASE k < m
        BY <2>1, <2>3, <4>2 DEF Follows
      <4> QED BY <3>2, <4>1, <4>2
    <3> QED BY <3>1, <3>2 DEF Follows
  <2> QED BY <2>3, <2>4
<1> HIDE DEF S
<1>3. \A m \in Nat : m \in S
  BY <1>1, <1>2, SetInduction
<1> QED BY <1>3 DEF S

\* Two that follow the same steps are the same as far as both do.
LEMMA FollowsAgree ==
  ASSUME NEW base, NEW step, NEW m \in Nat, NEW l \in Nat, m <= l, NEW f, NEW g,
         Follows(f, base, step, m), Follows(g, base, step, l)
  PROVE  \A k \in 0 .. m : f[k] = g[k]
<1> DEFINE S == {k \in Nat : k <= m => f[k] = g[k]}
<1>1. 0 \in S
  BY DEF Follows
<1>2. ASSUME NEW k \in Nat, k \in S
      PROVE  k + 1 \in S
  <2> SUFFICES ASSUME k + 1 <= m PROVE f[k + 1] = g[k + 1]
    OBVIOUS
  <2>1. f[k] = g[k]
    BY <1>2
  <2> QED BY <2>1 DEF Follows
<1> HIDE DEF S
<1>3. \A k \in Nat : k \in S
  BY <1>1, <1>2, SetInduction
<1> QED BY <1>3 DEF S

\* There is a function that a recursion on the numbers defines.
IsRecursion(D, base, step) == base \in D /\ step \in [Nat -> [D -> D]]
Solves(f, D, base, step) ==
  f \in [Nat -> D] /\ f[0] = base /\ \A k \in Nat : f[k + 1] = step[k][f[k]]

LEMMA RecursionExists ==
  ASSUME NEW D, NEW base, NEW step, IsRecursion(D, base, step)
  PROVE  \E f : Solves(f, D, base, step)
<1> DEFINE part(m) == CHOOSE f \in [Nat -> D] : Follows(f, base, step, m)
           f == [m \in Nat |-> part(m)[m]]
<1>0. base \in D /\ step \in [Nat -> [D -> D]]
  BY DEF IsRecursion
<1>1. \A m \in Nat : part(m) \in [Nat -> D] /\ Follows(part(m), base, step, m)
  BY <1>0, FollowsExists
<1> HIDE DEF part
<1>2. f \in [Nat -> D]
  BY <1>1
<1>3. f[0] = base
  BY <1>1 DEF Follows
<1>4. ASSUME NEW k \in Nat
      PROVE  f[k + 1] = step[k][f[k]]
  <2>1. /\ Follows(part(k), base, step, k) /\ Follows(part(k + 1), base, step, k + 1)
        /\ k <= k + 1 /\ k + 1 \in Nat
    BY <1>1
  <2>2. part(k)[k] = part(k + 1)[k]
    BY <2>1, FollowsAgree
  <2>3. part(k + 1)[k + 1] = step[k][part(k + 1)[k]]
    BY <2>1 DEF Follows
  <2> QED BY <2>2, <2>3
<1> QED BY <1>2, <1>3, <1>4 DEF Solves

\* And one as far as m.
SolvesUpTo(f, D, base, step, m) ==
  f \in [0 .. m -> D] /\ f[0] = base /\ \A k \in Nat : k < m => f[k + 1] = step[k][f[k]]

LEMMA RecursiveUpTo ==
  ASSUME NEW D, NEW base, NEW step, IsRecursion(D, base, step), NEW m \in Nat
  PROVE  \E f : SolvesUpTo(f, D, base, step, m)
<1>1. PICK g : Solves(g, D, base, step)
  BY RecursionExists
<1> DEFINE f == [k \in 0 .. m |-> g[k]]
<1>2. g \in [Nat -> D] /\ g[0] = base /\ \A k \in Nat : g[k + 1] = step[k][g[k]]
  BY <1>1 DEF Solves
<1>3. f \in [0 .. m -> D] /\ f[0] = g[0]
  BY <1>2
<1>4. ASSUME NEW k \in Nat, k < m
      PROVE  f[k + 1] = g[k + 1] /\ f[k] = g[k]
  BY <1>4
<1> HIDE DEF f
<1>5. SolvesUpTo(f, D, base, step, m)
  BY <1>2, <1>3, <1>4 DEF SolvesUpTo
<1> QED BY <1>5

-----------------------------------------------------------------------------
\* A set of numbers has a least member.
LEMMA LeastNumber ==
  ASSUME NEW S \in SUBSET Nat, S # {}
  PROVE  \E x \in S : \A y \in S : x <= y
<1> SUFFICES ASSUME \A x \in S : \E y \in S : ~(x <= y)
             PROVE  FALSE
  OBVIOUS
<1> DEFINE T == {k \in Nat : \A y \in S : k <= y}
<1>1. 0 \in T
  OBVIOUS
<1>2. ASSUME NEW k \in Nat, k \in T
      PROVE  k + 1 \in T
  <2>1. k \notin S
    BY <1>2
  <2>2. \A y \in S : k + 1 <= y
    BY <1>2, <2>1
  <2> QED BY <2>2
<1> HIDE DEF T
<1>3. \A k \in Nat : k \in T
  BY <1>1, <1>2, SetInduction
<1>4. PICK x \in S : TRUE
  OBVIOUS
<1>5. x + 1 \in T /\ x \in Nat
  BY <1>3
<1> QED BY <1>5 DEF T
=============================================================================
