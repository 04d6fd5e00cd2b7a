--------------------------- MODULE Pointers_proofs ---------------------------
(***************************************************************************)
(* Pointers: types, single ownership and views that stay inside, for any   *)
(* number of objects, plain pointers, views and blocks of any size.        *)
(*                                                                         *)
(* The three invariants are inductive together: that nothing is freed that *)
(* another object owns rests on single ownership, and that a view stays    *)
(* inside on a pointer to a block leading to a live one.                   *)
(***************************************************************************)
EXTENDS Pointers, TLAPS

Elems == Values \cup {None}

HeapOK == DOMAIN heap = Addresses /\ \A a \in Addresses : IsBlock(heap[a])
RawOK  == raw \in [Variables -> Addresses \cup {Dead, Null, Stale}] /\ \A p \in Plain : raw[p] # Dead
ViewOK == views \in [Views -> [at : Addresses \cup {Stale}, first : Nat, length : Nat]]

Inv == TypeOK /\ OwnersAreExact /\ ViewsAreInside

-----------------------------------------------------------------------------
(* Blocks. *)

\* A block has the count it was made with, and an element at each index.
LEMMA BlockIsBlock ==
  ASSUME NEW n \in Nat, NEW d, NEW onHeap \in BOOLEAN, \A j \in 0 .. n - 1 : d[j] \in Elems
  PROVE  /\ IsBlock(Block(n, d, onHeap))
         /\ Block(n, d, onHeap).count = n /\ Block(n, d, onHeap).onHeap = onHeap
  BY DEF IsBlock, Block, Elems

LEMMA UnusedIsBlock == IsBlock(Unused) /\ Unused.count = 0 /\ Unused.onHeap
<1>1. \A j \in 0 .. 0 - 1 : (<<>>)[j] \in Elems
  OBVIOUS
<1> QED BY <1>1, BlockIsBlock DEF Unused

\* The blocks that malloc, alloca, realloc and clone make.
LEMMA MadeIsBlock ==
  ASSUME NEW n \in Nat
  PROVE  /\ IsBlock(Block(n, Nones(n), TRUE)) /\ Block(n, Nones(n), TRUE).count = n
         /\ Block(n, Nones(n), TRUE).onHeap
         /\ IsBlock(Block(n, Cleared(n, Nones(n)), FALSE)) /\ Block(n, Cleared(n, Nones(n)), FALSE).count = n
<1>1. \A j \in 0 .. n - 1 : Nones(n)[j] \in Elems
  BY DEF Nones, Elems
<1>2. \A j \in 0 .. n - 1 : Cleared(n, Nones(n))[j] \in Elems
  BY <1>1, NoneAssumption DEF Cleared, Elems
<1> QED BY <1>1, <1>2, BlockIsBlock

LEMMA ReallocatedIsBlock ==
  ASSUME NEW b, IsBlock(b), NEW n \in Nat
  PROVE  IsBlock(Reallocated(b, n)) /\ Reallocated(b, n).count = n /\ Reallocated(b, n).onHeap
<1> DEFINE d == [j \in 0 .. n - 1 |-> IF j < b.count THEN b.data[j] ELSE None]
<1>1. \A j \in 0 .. n - 1 : d[j] \in Elems
  BY DEF IsBlock, Elems
<1> HIDE DEF d
<1> DEFINE e == Cleared(n, d)
<1>2. \A j \in 0 .. n - 1 : e[j] \in Elems
  BY <1>1, NoneAssumption DEF Cleared, Elems
<1>3. Reallocated(b, n) = Block(n, e, TRUE)
  BY DEF Reallocated, d
<1> HIDE DEF e
<1>4. /\ IsBlock(Block(n, e, TRUE)) /\ Block(n, e, TRUE).count = n
      /\ Block(n, e, TRUE).onHeap
  BY <1>2, BlockIsBlock
<1> QED BY <1>3, <1>4

LEMMA CopiedIsBlock ==
  ASSUME NEW b, IsBlock(b)
  PROVE  IsBlock(Copied(b)) /\ Copied(b).count = b.count /\ Copied(b).onHeap
<1>1. \A j \in 0 .. b.count - 1 : b.data[j] \in Elems
  BY DEF IsBlock, Elems
<1> QED BY <1>1, BlockIsBlock DEF Copied, IsBlock

\* Changing the elements of a block changes neither its size nor where it is.
LEMMA DataIsKept ==
  ASSUME NEW b, IsBlock(b), NEW d, d \in [0 .. b.count - 1 -> Elems]
  PROVE  /\ IsBlock([b EXCEPT !.data = d])
         /\ [b EXCEPT !.data = d].count = b.count /\ [b EXCEPT !.data = d].onHeap = b.onHeap
<1>1. [b EXCEPT !.data = d] = [count |-> b.count, data |-> d, onHeap |-> b.onHeap]
  BY DEF IsBlock
<1> HIDE DEF Elems
<1>2. b.count \in Nat /\ b.onHeap \in BOOLEAN
  BY DEF IsBlock
<1> QED BY <1>1, <1>2 DEF IsBlock, Elems

-----------------------------------------------------------------------------
(* What a step of the heap may do, as the variables see it: blocks keep    *)
(* their count and place, appear where there was none, or are gone.        *)

Same(a) == heap'[a].count = heap[a].count /\ heap'[a].onHeap = heap[a].onHeap

\* Putting a block at an address.
LEMMA PutIsHeap ==
  ASSUME HeapOK, NEW a \in Addresses, NEW b, IsBlock(b), heap' = [heap EXCEPT ![a] = b]
  PROVE  HeapOK' /\ heap'[a] = b /\ \A c \in Addresses \ {a} : heap'[c] = heap[c]
  BY DEF HeapOK

LEMMA WithoutIsHeap ==
  ASSUME HeapOK, NEW p, heap' = Without(p)
  PROVE  /\ HeapOK'
         /\ \A c \in Addresses : IF c = p THEN heap'[c].count = 0 ELSE heap'[c] = heap[c]
<1>1. CASE p \in Addresses
  <2>1. heap' = [heap EXCEPT ![p] = Unused]
    BY <1>1 DEF Without
  <2> QED BY <1>1, <2>1, UnusedIsBlock, PutIsHeap
<1>2. CASE p \notin Addresses
  BY <1>2 DEF Without, HeapOK
<1> QED BY <1>1, <1>2

\* The writing calls keep every count and place.
LEMMA HoldsIsHeap ==
  ASSUME HeapOK, NEW a, NEW d, a \in Addresses => d \in [0 .. heap[a].count - 1 -> Elems], Holds(a, d)
  PROVE  HeapOK' /\ \A c \in Addresses : Same(c)
<1>0. heap' = [heap EXCEPT ![a].data = d]
  BY DEF Holds
<1>1. CASE a \in Addresses
  <2> DEFINE b == [heap[a] EXCEPT !.data = d]
  <2>1. IsBlock(heap[a])
    BY <1>1 DEF HeapOK
  <2>2. IsBlock(b) /\ b.count = heap[a].count /\ b.onHeap = heap[a].onHeap
    BY <1>1, <2>1, DataIsKept
  <2>3. heap' = [heap EXCEPT ![a] = b]
    BY <1>0
  <2> HIDE DEF b
  <2> QED BY <1>1, <2>2, <2>3, PutIsHeap DEF Same
<1>2. CASE a \notin Addresses
  <2>1. DOMAIN heap' = Addresses /\ \A c \in Addresses : heap'[c] = heap[c]
    BY <1>0, <1>2 DEF HeapOK
  <2> QED BY <2>1 DEF HeapOK, Same
<1> QED BY <1>1, <1>2

\* A step that keeps every count and place, and the variables, keeps it all.
LEMMA SameKeeps ==
  ASSUME Inv, HeapOK', \A c \in Addresses : Same(c), UNCHANGED <<raw, views, fault>>
  PROVE  Inv'
<1>1. TypeOK'
  BY DEF Inv, TypeOK, HeapOK
<1>2. \A a : Live(a)' <=> Live(a)
  BY DEF Live, Same
<1>3. OwnersAreExact'
  BY <1>2 DEF Inv, OwnersAreExact, Owned, Same, Live
<1>4. ViewsAreInside'
  BY <1>2 DEF Inv, ViewsAreInside, Same, Live
<1> QED BY <1>1, <1>3, <1>4 DEF Inv

LEMMA TypeParts == TypeOK <=> /\ HeapOK /\ RawOK /\ ViewOK
                              /\ fault \in {"none", "double free", "use after free", "null write"}
  BY DEF TypeOK, HeapOK, RawOK, ViewOK

-----------------------------------------------------------------------------
(* What a step of the variables may do when the block at p, if there is    *)
(* one, is freed: forget p, keep another pointer to every other block, and *)
(* make no second owner.                                                   *)

Repoints(p) ==
  /\ RawOK'
  /\ \A k \in Variables : raw'[k] \in Addresses => raw'[k] # p /\ \E h \in Variables : raw[h] = raw'[k]
  /\ \A h \in Variables : raw[h] \in Addresses /\ raw[h] # p /\ heap[raw[h]].onHeap
       => \E k \in Variables : raw'[k] = raw[h]
  /\ \A x, y \in Owners : raw'[x] \in Addresses /\ raw'[x] = raw'[y] => x = y
  /\ \A x \in Owners : raw'[x] \in Addresses => heap[raw'[x]].onHeap

LEMMA FreeKeeps ==
  ASSUME Inv, NEW p, heap' = Without(p), views' = Unseen(p), fault' = fault, Repoints(p)
  PROVE  Inv'
<1>0. HeapOK /\ RawOK /\ ViewOK
  BY TypeParts DEF Inv
<1>1. HeapOK' /\ \A c \in Addresses : IF c = p THEN heap'[c].count = 0 ELSE heap'[c] = heap[c]
  BY <1>0, WithoutIsHeap
<1>2. \A c : c \in Addresses /\ heap'[c].count > 0 <=> Live(c) /\ c # p
  BY <1>1 DEF Live
<1>3. RawOK'
  BY DEF Repoints
<1>4. ViewOK'
  BY <1>0 DEF ViewOK, Unseen, NoView
<1>5. TypeOK'
  <2>1. fault' \in {"none", "double free", "use after free", "null write"}
    BY DEF Inv, TypeOK
  <2> QED BY <1>1, <1>3, <1>4, <2>1 DEF TypeOK, HeapOK, RawOK, ViewOK
<1>6. OwnersAreExact'
  <2>1. \A x, y \in Owners : Owned(raw[x])' /\ raw'[x] = raw'[y] => x = y
    BY DEF Repoints, Owned
  <2>2. \A a \in Addresses : heap'[a].count > 0 /\ heap'[a].onHeap => \E h \in Variables : raw'[h] = a
    BY <1>1, <1>2 DEF Inv, OwnersAreExact, Repoints
  <2>3. \A h \in Variables : raw'[h] \in Addresses => Live(raw[h])'
    BY <1>2 DEF Inv, OwnersAreExact, Repoints, Live
  <2>4. \A x \in Owners : raw'[x] \in Addresses => heap'[raw'[x]].onHeap
    <3>1. \A x \in Owners : x \in Variables
      BY DEF Variables
    <3> QED BY <3>1, <1>1 DEF Repoints
  <2> QED BY <2>1, <2>2, <2>3, <2>4 DEF OwnersAreExact, Live
<1>7. ViewsAreInside'
  <2> SUFFICES ASSUME NEW v \in Views, views'[v] # NoView
               PROVE  /\ views'[v].at \in Addresses /\ heap'[views'[v].at].count > 0
                      /\ views'[v].first + views'[v].length <= heap'[views'[v].at].count
    BY DEF ViewsAreInside, NoView, Live
  <2>1. views'[v] = views[v] /\ ~(p \in Addresses /\ views[v].at = p)
    BY DEF Unseen
  <2>2. Live(views[v].at) /\ views[v].first + views[v].length <= heap[views[v].at].count
    BY <2>1 DEF Inv, ViewsAreInside
  <2>3. views[v].at \in Addresses /\ views[v].at # p /\ heap[views[v].at].count > 0
    BY <2>1, <2>2 DEF Live
  <2> QED BY <1>1, <2>1, <2>2, <2>3
<1> QED BY <1>5, <1>6, <1>7 DEF Inv

\* Nothing is freed: the variables alone change.
LEMMA RepointKeeps ==
  ASSUME Inv, UNCHANGED <<heap, views, fault>>, Repoints(Null)
  PROVE  Inv'
<1>1. heap' = Without(Null)
  BY AddressAssumption DEF Without
<1>2. views' = Unseen(Null)
  BY AddressAssumption DEF Unseen, Inv, TypeOK
<1> QED BY <1>1, <1>2, FreeKeeps

\* A new block, whose only pointer is k: what k pointed to is not lost.
LEMMA AddKeeps ==
  ASSUME Inv, NEW k \in Variables, NEW a \in Addresses, ~Live(a), NEW b, IsBlock(b), b.count > 0,
         k \in Owners => b.onHeap,
         Live(raw[k]) /\ heap[raw[k]].onHeap => \E h \in Variables \ {k} : raw[h] = raw[k],
         heap' = [heap EXCEPT ![a] = b], raw' = [raw EXCEPT ![k] = a], UNCHANGED <<views, fault>>
  PROVE  Inv'
<1>0. HeapOK /\ RawOK /\ ViewOK
  BY TypeParts DEF Inv
<1>1. HeapOK' /\ heap'[a] = b /\ \A c \in Addresses \ {a} : heap'[c] = heap[c]
  BY <1>0, PutIsHeap
<1>2. \A c : c \in Addresses /\ heap'[c].count > 0 <=> Live(c) \/ c = a
  BY <1>1 DEF Live
<1>3. RawOK' /\ raw'[k] = a /\ \A h \in Variables \ {k} : raw'[h] = raw[h]
  BY <1>0, AddressAssumption DEF RawOK
<1>4. \A h \in Variables : raw[h] # a
  BY DEF Inv, OwnersAreExact
<1>5. TypeOK'
  <2>1. ViewOK' /\ fault' \in {"none", "double free", "use after free", "null write"}
    BY <1>0 DEF Inv, TypeOK, ViewOK
  <2> QED BY <1>1, <1>3, <2>1 DEF TypeOK, HeapOK, RawOK, ViewOK
<1>6. OwnersAreExact'
  <2>0. Owners \subseteq Variables
    BY DEF Variables
  <2>1. \A x, y \in Owners : Owned(raw[x])' /\ raw'[x] = raw'[y] => x = y
    BY <2>0, <1>3, <1>4 DEF Inv, OwnersAreExact, Owned
  <2>2. \A c \in Addresses : heap'[c].count > 0 /\ heap'[c].onHeap => \E h \in Variables : raw'[h] = c
    BY <1>1, <1>2, <1>3 DEF Inv, OwnersAreExact
  <2>3. \A h \in Variables : raw'[h] \in Addresses => Live(raw[h])'
    BY <1>2, <1>3 DEF Inv, OwnersAreExact, Live
  <2>4. \A x \in Owners : raw'[x] \in Addresses => heap'[raw'[x]].onHeap
    BY <2>0, <1>1, <1>3, <1>4 DEF Inv, OwnersAreExact
  <2> QED BY <2>1, <2>2, <2>3, <2>4 DEF OwnersAreExact, Live
<1>7. ViewsAreInside'
  BY <1>1, <1>2 DEF Inv, ViewsAreInside, Live
<1> QED BY <1>5, <1>6, <1>7 DEF Inv

\* A misuse is noted, and nothing else changes.
LEMMA MisuseKeeps ==
  ASSUME Inv, NEW f \in {"double free", "use after free", "null write"}, Misuse(f)
  PROVE  Inv'
  BY DEF Misuse, Inv, TypeOK, IsBlock, OwnersAreExact, ViewsAreInside, Owned, Live

-----------------------------------------------------------------------------
(* The calls. *)

LEMMA Kinds == Owners \subseteq Variables /\ Plain \subseteq Variables /\ Owners \cap Plain = {}
               /\ \A h \in Variables : h \notin Owners => h \in Plain
  BY OwnersAssumption DEF Variables

\* What Repoints needs to know of the state before.
LEMMA Before ==
  ASSUME Inv
  PROVE  /\ RawOK /\ raw \in [Variables -> Addresses \cup {Dead, Null, Stale}]
         /\ \A q \in Plain : raw[q] # Dead
         /\ \A x, y \in Owners : raw[x] \in Addresses /\ raw[x] = raw[y] => x = y
         /\ \A x \in Owners : raw[x] \in Addresses => heap[raw[x]].onHeap
         /\ \A h \in Variables : raw[h] \in Addresses => Live(raw[h])
  BY Kinds DEF Inv, TypeOK, RawOK, OwnersAreExact, Owned

\* free(): the block at raw[h] goes, and raw[h] becomes what the call leaves.
LEMMA FreesKeeps ==
  ASSUME Inv, NEW h \in Variables, NEW left \in {Dead, Null, Stale}, left = Dead => h \in Owners,
         Frees(raw[h], [Gone(raw[h]) EXCEPT ![h] = left], Without(raw[h]))
  PROVE  Inv'
<1>1. CASE raw[h] = Stale
  BY <1>1, MisuseKeeps DEF Frees
<1>2. CASE raw[h] # Stale
  <2>1. /\ heap' = Without(raw[h]) /\ views' = Unseen(raw[h]) /\ fault' = fault
        /\ raw' = [Gone(raw[h]) EXCEPT ![h] = left]
    BY <1>2 DEF Frees
  <2>2. /\ raw' \in [Variables -> Addresses \cup {Dead, Null, Stale}]
        /\ raw'[h] = left
        /\ \A k \in Variables \ {h} :
             raw'[k] = IF raw[h] \in Addresses /\ raw[k] = raw[h] THEN Stale ELSE raw[k]
    BY <2>1, Before DEF Gone
  <2>3. RawOK'
    BY <2>2, Before, Kinds, NamesAssumption DEF RawOK
  <2>4. Repoints(raw[h])
    BY <2>2, <2>3, Before, Kinds, AddressAssumption DEF Repoints
  <2> QED BY <2>1, <2>4, FreeKeeps
<1> QED BY <1>1, <1>2

LEMMA FreeStep ==
  ASSUME Inv, NEW h \in Variables, Free(h)
  PROVE  Inv'
<1>1. CASE raw[h] \in Addresses
  <2>1. Gone(raw[h]) = [Gone(raw[h]) EXCEPT ![h] = Stale]
    BY <1>1 DEF Gone
  <2> QED BY <2>1, FreesKeeps, NamesAssumption DEF Free
<1>2. CASE raw[h] \notin Addresses
  <2>1. raw[h] \in {Dead, Null, Stale} /\ raw[h] # Dead
    BY <1>2, Before DEF Free, Given, Usable
  <2>2. Gone(raw[h]) = [Gone(raw[h]) EXCEPT ![h] = raw[h]]
    BY <1>2 DEF Gone
  <2> QED BY <2>1, <2>2, FreesKeeps DEF Free
<1> QED BY <1>1, <1>2

LEMMA FreeAndNullStep ==
  ASSUME Inv, NEW h \in Variables, FreeAndNull(h)
  PROVE  Inv'
  BY FreesKeeps, NamesAssumption DEF FreeAndNull

LEMMA DestroyStep ==
  ASSUME Inv, NEW x \in Owners, Destroy(x)
  PROVE  Inv'
  BY FreesKeeps, Kinds DEF Destroy

LEMMA DefaultStep ==
  ASSUME Inv, NEW x \in Owners, Default(x)
  PROVE  Inv'
<1>1. /\ raw' \in [Variables -> Addresses \cup {Dead, Null, Stale}] /\ raw'[x] = Null
      /\ \A k \in Variables \ {x} : raw'[k] = raw[k]
  BY Before, Kinds DEF Default
<1>2. RawOK'
  BY <1>1, Before, Kinds DEF RawOK
<1>3. raw[x] = Dead
  BY DEF Default
<1>4. Repoints(Null)
  BY <1>1, <1>2, <1>3, Before, Kinds, AddressAssumption DEF Repoints
<1> QED BY <1>4, RepointKeeps DEF Default

LEMMA MoveConstructStep ==
  ASSUME Inv, NEW x \in Owners, NEW h \in Variables, MoveConstruct(x, h)
  PROVE  Inv'
<1>1. CASE raw[h] = Stale
  BY <1>1, MisuseKeeps DEF MoveConstruct
<1>2. CASE raw[h] # Stale
  <2>1. /\ raw[x] = Dead /\ Given(h) /\ raw[h] # Dead /\ x # h
        /\ raw' = [raw EXCEPT ![x] = raw[h], ![h] = Null] /\ UNCHANGED <<heap, views, fault>>
    BY <1>2 DEF MoveConstruct, Given, Usable
  <2>2. /\ raw' \in [Variables -> Addresses \cup {Dead, Null, Stale}]
        /\ raw'[x] = raw[h] /\ raw'[h] = Null
        /\ \A k \in Variables \ {x, h} : raw'[k] = raw[k]
    BY <2>1, Before, Kinds
  <2>3. RawOK'
    BY <2>2, Before, Kinds, NamesAssumption DEF RawOK
  <2>4. raw[h] \in Addresses => heap[raw[h]].onHeap
                              /\ \A y \in Owners \ {h} : raw[y] # raw[h]
    BY <2>1, Before, Kinds DEF Given, Owned
  <2>5. Repoints(Null)
    BY <2>1, <2>2, <2>3, <2>4, Before, Kinds, AddressAssumption DEF Repoints
  <2> QED BY <2>1, <2>5, RepointKeeps
<1> QED BY <1>1, <1>2

LEMMA MoveAssignStep ==
  ASSUME Inv, NEW x \in Owners, NEW h \in Variables, MoveAssign(x, h)
  PROVE  Inv'
<1>1. CASE raw[x] = Stale
  BY <1>1, MisuseKeeps DEF MoveAssign, Frees
<1>2. CASE raw[x] # Stale /\ x = h
  <2>1. Free(x)
    BY <1>2 DEF MoveAssign, Free
  <2> QED BY <2>1, FreeStep, Kinds
<1>3. CASE raw[x] # Stale /\ x # h
  <2>1. /\ heap' = Without(raw[x]) /\ views' = Unseen(raw[x]) /\ fault' = fault
        /\ raw' = [Gone(raw[x]) EXCEPT ![x] = raw[h], ![h] = Null]
        /\ Given(h) /\ raw[x] # Dead /\ raw[h] # Dead
    BY <1>3 DEF MoveAssign, Frees, Given, Usable
  <2>2. /\ raw' \in [Variables -> Addresses \cup {Dead, Null, Stale}]
        /\ raw'[x] = raw[h] /\ raw'[h] = Null
        /\ \A k \in Variables \ {x, h} :
             raw'[k] = IF raw[x] \in Addresses /\ raw[k] = raw[x] THEN Stale ELSE raw[k]
    BY <1>3, <2>1, Before, Kinds DEF Gone
  <2>3. RawOK'
    BY <2>2, Before, Kinds, NamesAssumption DEF RawOK
  <2>4. raw[h] \in Addresses => heap[raw[h]].onHeap
                              /\ \A y \in Owners \ {h} : raw[y] # raw[h]
    BY <2>1, Before, Kinds DEF Given, Owned
  <2>5. Repoints(raw[x])
    BY <1>3, <2>1, <2>2, <2>3, <2>4, Before, Kinds, AddressAssumption DEF Repoints
  <2> QED BY <2>1, <2>5, FreeKeeps
<1> QED BY <1>1, <1>2, <1>3

LEMMA ReleaseStep ==
  ASSUME Inv, NEW x \in Owners, NEW p \in Plain, Release(x, p)
  PROVE  Inv'
<1>1. /\ raw' \in [Variables -> Addresses \cup {Dead, Null, Stale}] /\ x # p
      /\ raw'[p] = raw[x] /\ raw'[x] = Null /\ raw[x] \in Addresses
      /\ \A k \in Variables \ {x, p} : raw'[k] = raw[k]
  BY Before, Kinds DEF Release
<1>2. RawOK'
  BY <1>1, Before, Kinds, NamesAssumption, AddressAssumption DEF RawOK
<1>3. raw[p] \in Addresses /\ heap[raw[p]].onHeap =>
        \E k \in Variables \ {p} : raw[k] = raw[p]
  BY <1>1, Before, Kinds DEF Release, Assignable
<1>4. Repoints(Null)
  BY <1>1, <1>2, <1>3, Before, Kinds, AddressAssumption DEF Repoints
<1> QED BY <1>4, RepointKeeps DEF Release

LEMMA BorrowStep ==
  ASSUME Inv, NEW p \in Plain, NEW h \in Variables, Borrow(p, h)
  PROVE  Inv'
<1>1. /\ raw' \in [Variables -> Addresses \cup {Dead, Null, Stale}]
      /\ raw'[p] = raw[h] /\ raw[h] \in Addresses
      /\ \A k \in Variables \ {p} : raw'[k] = raw[k]
  BY Before, Kinds DEF Borrow
<1>2. RawOK'
  BY <1>1, Before, Kinds, NamesAssumption, AddressAssumption DEF RawOK
<1>3. raw[p] \in Addresses /\ heap[raw[p]].onHeap =>
        \E k \in Variables \ {p} : raw[k] = raw[p]
  BY <1>1, Before, Kinds DEF Borrow, Assignable
<1>4. Repoints(Null)
  BY <1>1, <1>2, <1>3, Before, Kinds, AddressAssumption DEF Repoints
<1> QED BY <1>4, RepointKeeps DEF Borrow

-----------------------------------------------------------------------------
(* The calls that make a block. *)

LEMMA AllocatesStep ==
  ASSUME Inv, NEW p \in Plain, NEW b, IsBlock(b), b.count > 0, Allocates(p, b)
  PROVE  Inv'
<1>1. PICK a \in Addresses : ~Live(a) /\ heap' = [heap EXCEPT ![a] = b] /\ raw' = [raw EXCEPT ![p] = a]
  BY DEF Allocates
<1>2. /\ UNCHANGED <<views, fault>> /\ p \in Variables /\ p \notin Owners
      /\ Live(raw[p]) /\ heap[raw[p]].onHeap => \E h \in Variables \ {p} : raw[h] = raw[p]
  BY Kinds DEF Allocates, Assignable
<1> QED BY <1>1, <1>2, AddKeeps

LEMMA MallocStep ==
  ASSUME Inv, NEW p \in Plain, NEW n \in Nat, Malloc(p, n)
  PROVE  Inv'
<1>1. CASE n = 0
  BY <1>1, MisuseKeeps DEF Malloc
<1>2. CASE n # 0
  <2> DEFINE b == Block(n, Nones(n), TRUE)
  <2>1. IsBlock(b) /\ b.count = n
    BY MadeIsBlock
  <2>2. Allocates(p, b)
    BY <1>2 DEF Malloc
  <2> HIDE DEF b
  <2>3. IsBlock(b) /\ b.count > 0
    BY <1>2, <2>1
  <2> QED BY <2>3, <2>2, AllocatesStep
<1> QED BY <1>1, <1>2

LEMMA AllocaStep ==
  ASSUME Inv, NEW p \in Plain, NEW n \in Nat, Alloca(p, n)
  PROVE  Inv'
<1> DEFINE b == Block(n, Cleared(n, Nones(n)), FALSE)
<1>1. IsBlock(b) /\ b.count > 0
  BY MadeIsBlock DEF Alloca
<1>2. Allocates(p, b)
  BY DEF Alloca
<1> HIDE DEF b
<1> QED BY <1>1, <1>2, AllocatesStep

\* A clone, kept in a variable that is not the last to a block.
LEMMA ClonesStep ==
  ASSUME Inv, NEW k \in Variables, NEW h \in Variables, Clones(k, h),
         Live(raw[k]) /\ heap[raw[k]].onHeap => \E l \in Variables \ {k} : raw[l] = raw[k]
  PROVE  Inv'
<1>1. CASE raw[h] = Stale
  BY <1>1, MisuseKeeps DEF Clones
<1>2. CASE raw[h] # Stale
  <2> DEFINE b == Copied(heap[raw[h]])
  <2>1. PICK a \in Addresses : ~Live(a) /\ heap' = [heap EXCEPT ![a] = b] /\ raw' = [raw EXCEPT ![k] = a]
    BY <1>2 DEF Clones
  <2>2. raw[h] \in Addresses /\ UNCHANGED <<views, fault>>
    BY <1>2 DEF Clones
  <2>3. IsBlock(heap[raw[h]]) /\ heap[raw[h]].count > 0
    BY <2>2, Before DEF Inv, TypeOK, Live
  <2>4. IsBlock(b) /\ b.count > 0 /\ b.onHeap
    BY <2>3, CopiedIsBlock
  <2> HIDE DEF b
  <2> QED BY <2>1, <2>2, <2>4, AddKeeps
<1> QED BY <1>1, <1>2

LEMMA CloneStep ==
  ASSUME Inv, NEW p \in Plain, NEW h \in Variables, Clone(p, h)
  PROVE  Inv'
  BY ClonesStep, Kinds DEF Clone, Assignable

LEMMA CopyConstructStep ==
  ASSUME Inv, NEW x \in Owners, NEW h \in Variables, CopyConstruct(x, h)
  PROVE  Inv'
<1>1. ~Live(raw[x])
  BY AddressAssumption DEF CopyConstruct, Live
<1> QED BY <1>1, ClonesStep, Kinds DEF CopyConstruct

\* Reallocating a null pointer allocates; otherwise the block is another one,
\* wherever it lies: every other pointer and view of it is gone.
LEMMA ReallocStep ==
  ASSUME Inv, NEW h \in Variables, NEW n \in Nat, Realloc(h, n)
  PROVE  Inv'
<1>1. CASE raw[h] = Stale \/ n = 0
  BY <1>1, MisuseKeeps DEF Realloc
<1>2. CASE raw[h] # Stale /\ n # 0
  <2>1. PICK a \in Addresses :
          /\ IF raw[h] = Null THEN ~Live(a) ELSE a = raw[h]
          /\ heap' = [heap EXCEPT ![a] = Reallocated(heap[a], n)]
          /\ raw' = [Gone(raw[h]) EXCEPT ![h] = a] /\ views' = Unseen(raw[h]) /\ fault' = fault
    BY <1>2 DEF Realloc
  <2> DEFINE b == Reallocated(heap[a], n)
  <2>2. IsBlock(heap[a])
    BY DEF Inv, TypeOK
  <2>3. IsBlock(b) /\ b.count = n /\ b.onHeap
    BY <2>2, ReallocatedIsBlock
  <2>4. IsBlock(b) /\ b.count > 0 /\ b.count = n /\ b.onHeap
    BY <1>2, <2>3
  <2> HIDE DEF b
  <2>5. heap' = [heap EXCEPT ![a] = b]
    BY <2>1 DEF b
  <2>6. CASE raw[h] = Null
    <3>1. Gone(raw[h]) = raw /\ Unseen(raw[h]) = views
      BY <2>6, AddressAssumption, Before DEF Gone, Unseen, Inv, TypeOK
    <3>2. ~Live(raw[h])
      BY <2>6, AddressAssumption DEF Live
    <3> QED BY <2>1, <2>4, <2>5, <2>6, <3>1, <3>2, AddKeeps
  <2>7. CASE raw[h] # Null
    <3>0. a = raw[h] /\ Given(h)
      BY <2>1, <2>7 DEF Realloc
    <3>1. HeapOK' /\ heap'[a] = b /\ \A c \in Addresses \ {a} : heap'[c] = heap[c]
      BY <2>4, <2>5, PutIsHeap, TypeParts DEF Inv
    <3>2. /\ raw' \in [Variables -> Addresses \cup {Dead, Null, Stale}] /\ raw'[h] = a
          /\ \A k \in Variables \ {h} : raw'[k] = IF raw[k] = a THEN Stale ELSE raw[k]
      BY <2>1, <3>0, Before DEF Gone
    <3>3. TypeOK'
      <4>1. RawOK'
        BY <3>2, Before, Kinds, NamesAssumption, AddressAssumption DEF RawOK
      <4>2. ViewOK' /\ fault' \in {"none", "double free", "use after free", "null write"}
        BY <2>1 DEF Inv, TypeOK, ViewOK, Unseen, NoView
      <4> QED BY <3>1, <4>1, <4>2 DEF TypeOK, HeapOK, RawOK, ViewOK
    <3>4. OwnersAreExact'
      <4>1. \A x, y \in Owners : Owned(raw[x])' /\ raw'[x] = raw'[y] => x = y
        BY <3>2, Before, Kinds, AddressAssumption DEF Owned
      <4>2. \A c \in Addresses : heap'[c].count > 0 /\ heap'[c].onHeap => \E k \in Variables : raw'[k] = c
        <5> SUFFICES ASSUME NEW c \in Addresses, heap'[c].count > 0, heap'[c].onHeap
                     PROVE  \E k \in Variables : raw'[k] = c
          OBVIOUS
        <5>1. CASE c = a
          BY <3>2, <5>1
        <5>2. CASE c # a
          <6>1. PICK k \in Variables : raw[k] = c
            BY <3>1, <5>2 DEF Inv, OwnersAreExact, Live
          <6> QED BY <3>0, <3>2, <5>2, <6>1
        <5> QED BY <5>1, <5>2
      <4>3. \A k \in Variables : raw'[k] \in Addresses => heap'[raw'[k]].count > 0
        BY <2>4, <3>1, <3>2, Before, AddressAssumption DEF Live
      <4>4. \A x \in Owners : raw'[x] \in Addresses => heap'[raw'[x]].onHeap
        BY <2>4, <3>1, <3>2, Before, Kinds, AddressAssumption
      <4> QED BY <4>1, <4>2, <4>3, <4>4 DEF OwnersAreExact, Live
    <3>5. ViewsAreInside'
      <4> SUFFICES ASSUME NEW v \in Views, views'[v] # NoView
                   PROVE  /\ views'[v].at \in Addresses /\ heap'[views'[v].at].count > 0
                          /\ views'[v].first + views'[v].length <= heap'[views'[v].at].count
        BY DEF ViewsAreInside, NoView, Live
      <4>1. views'[v] = views[v] /\ views[v].at # a
        BY <2>1, <3>0 DEF Unseen
      <4> QED BY <3>1, <4>1 DEF Inv, ViewsAreInside, Live
    <3> QED BY <3>3, <3>4, <3>5 DEF Inv
  <2> QED BY <2>6, <2>7
<1> QED BY <1>1, <1>2

\* The function returns: its blocks of the stack go, which no object owns.
LEMMA ReturnStep ==
  ASSUME Inv, Return
  PROVE  Inv'
<1> DEFINE dead == {a \in Addresses : Live(a) /\ ~heap[a].onHeap}
<1>1. /\ heap' = [a \in Addresses |-> IF a \in dead THEN Unused ELSE heap[a]]
      /\ raw' = [h \in Variables |-> IF raw[h] \in dead THEN Stale ELSE raw[h]]
      /\ views' = [v \in Views |-> IF views[v].at \in dead THEN NoView ELSE views[v]]
      /\ fault' = fault
  BY DEF Return
<1>2. dead \subseteq Addresses /\ \A a \in dead : ~heap[a].onHeap
  OBVIOUS
<1>3. \A a \in Addresses \ dead : Live(a) => heap[a].onHeap
  OBVIOUS
<1> HIDE DEF dead
<1>4. HeapOK'
  BY <1>1, UnusedIsBlock DEF Inv, TypeOK, HeapOK
<1>5. RawOK'
  BY <1>1, Before, Kinds, NamesAssumption DEF RawOK
<1>6. TypeOK'
  BY <1>1, <1>4, <1>5 DEF Inv, TypeOK, HeapOK, RawOK, NoView
<1>7. OwnersAreExact'
  <2>1. \A x, y \in Owners : Owned(raw[x])' /\ raw'[x] = raw'[y] => x = y
    BY <1>1, Before, Kinds, AddressAssumption DEF Owned
  <2>2. \A a \in Addresses : heap'[a].count > 0 /\ heap'[a].onHeap => \E h \in Variables : raw'[h] = a
    <3> SUFFICES ASSUME NEW a \in Addresses, heap'[a].count > 0, heap'[a].onHeap
                 PROVE  \E h \in Variables : raw'[h] = a
      OBVIOUS
    <3>1. a \notin dead /\ heap'[a] = heap[a]
      BY <1>1, UnusedIsBlock
    <3>2. PICK h \in Variables : raw[h] = a
      BY <3>1 DEF Inv, OwnersAreExact, Live
    <3> QED BY <1>1, <3>1, <3>2
  <2>3. \A h \in Variables : raw'[h] \in Addresses => heap'[raw'[h]].count > 0
    BY <1>1, Before, AddressAssumption DEF Live
  <2>4. \A x \in Owners : raw'[x] \in Addresses => heap'[raw'[x]].onHeap
    BY <1>1, Before, Kinds, AddressAssumption
  <2> QED BY <2>1, <2>2, <2>3, <2>4 DEF OwnersAreExact, Live
<1>8. ViewsAreInside'
  <2> SUFFICES ASSUME NEW v \in Views, views'[v] # NoView
               PROVE  /\ views'[v].at \in Addresses /\ heap'[views'[v].at].count > 0
                      /\ views'[v].first + views'[v].length <= heap'[views'[v].at].count
    BY DEF ViewsAreInside, NoView, Live
  <2>1. views'[v] = views[v] /\ views[v].at \notin dead
    BY <1>1
  <2> QED BY <1>1, <2>1 DEF Inv, ViewsAreInside, Live
<1> QED BY <1>6, <1>7, <1>8 DEF Inv

-----------------------------------------------------------------------------
(* The calls that write elements, and those that make views. *)

\* What is written into a block keeps its elements elements.
LEMMA HoldsStep ==
  ASSUME Inv, NEW a, NEW d, a \in Addresses => d \in [0 .. heap[a].count - 1 -> Elems], Holds(a, d)
  PROVE  Inv'
<1>1. HeapOK
  BY TypeParts DEF Inv
<1>2. HeapOK' /\ \A c \in Addresses : Same(c)
  BY <1>1, HoldsIsHeap
<1> QED BY <1>2, SameKeeps DEF Holds

LEMMA DataOf ==
  ASSUME Inv, NEW a \in Addresses
  PROVE  heap[a].data \in [0 .. heap[a].count - 1 -> Elems]
  BY DEF Inv, TypeOK, IsBlock, Elems

LEMMA WriteStep ==
  ASSUME Inv, NEW h \in Variables, NEW i \in Counts, NEW e \in Values, Write(h, i, e)
  PROVE  Inv'
<1>1. CASE raw[h] = Stale
  BY <1>1, MisuseKeeps DEF Write
<1>2. CASE raw[h] # Stale
  <2> DEFINE d == [heap[raw[h]].data EXCEPT ![i] = e]
  <2>1. raw[h] \in Addresses /\ Holds(raw[h], d)
    BY <1>2 DEF Write, Live
  <2>2. d \in [0 .. heap[raw[h]].count - 1 -> Elems]
    BY <2>1, DataOf DEF Elems
  <2> HIDE DEF d
  <2> QED BY <2>1, <2>2, HoldsStep
<1> QED BY <1>1, <1>2

LEMMA FillStep ==
  ASSUME Inv, NEW h \in Variables, NEW e \in Values, Fill(h, e)
  PROVE  Inv'
<1>1. CASE raw[h] = Stale
  BY <1>1, MisuseKeeps DEF Fill
<1>2. CASE raw[h] # Stale
  <2> DEFINE d == [j \in DOMAIN heap[raw[h]].data |-> e]
  <2>1. raw[h] \in Addresses /\ Holds(raw[h], d)
    BY <1>2 DEF Fill, Live
  <2>2. d \in [0 .. heap[raw[h]].count - 1 -> Elems]
    BY <2>1, DataOf DEF Elems
  <2> HIDE DEF d
  <2> QED BY <2>1, <2>2, HoldsStep
<1> QED BY <1>1, <1>2

LEMMA WriteViewStep ==
  ASSUME Inv, NEW v \in Views, NEW i \in Counts, NEW e \in Values, WriteView(v, i, e)
  PROVE  Inv'
<1> DEFINE a == views[v].at
           d == [heap[a].data EXCEPT ![views[v].first + i] = e]
<1>1. Holds(a, d)
  BY DEF WriteView
<1>2. a \in Addresses => d \in [0 .. heap[a].count - 1 -> Elems]
  BY DataOf DEF Elems
<1> HIDE DEF a, d
<1> QED BY <1>1, <1>2, HoldsStep

LEMMA SwapStep ==
  ASSUME Inv, NEW h \in Variables, NEW k \in Variables, Swap(h, k)
  PROVE  Inv'
<1> DEFINE a == heap[raw[h]]
           b == heap[raw[k]]
<1>1. CASE Stale \in {raw[h], raw[k]}
  BY <1>1, MisuseKeeps DEF Swap
<1>2. CASE ~(Stale \in {raw[h], raw[k]}) /\ (raw[h] = raw[k] \/ a.count # b.count)
  <2>1. UNCHANGED vars
    BY <1>2 DEF Swap, vars
  <2>2. HeapOK' /\ \A c \in Addresses : Same(c)
    BY <2>1, TypeParts DEF vars, Inv, HeapOK, Same
  <2> QED BY <2>1, <2>2, SameKeeps DEF vars
<1>3. CASE ~(Stale \in {raw[h], raw[k]}) /\ raw[h] # raw[k] /\ a.count = b.count
  <2>1. Live(raw[h]) /\ Live(raw[k]) /\ UNCHANGED <<raw, views, fault>>
    BY <1>3 DEF Swap
  <2>2. PICK d \in Swaps(a.data, b.data, a.count), e \in Swaps(b.data, a.data, a.count) :
          heap' = [heap EXCEPT ![raw[h]].data = d, ![raw[k]].data = e]
    BY <1>3 DEF Swap
  <2>3. /\ a.data \in [0 .. a.count - 1 -> Elems] /\ b.data \in [0 .. b.count - 1 -> Elems]
        /\ raw[h] \in Addresses /\ raw[k] \in Addresses
    BY <2>1, DataOf DEF Live
  <2>4. d \in [0 .. a.count - 1 -> Elems] /\ e \in [0 .. b.count - 1 -> Elems]
    <3>1. d \in [DOMAIN a.data -> Elems] /\ e \in [DOMAIN b.data -> Elems]
      BY DEF Swaps, Elems
    <3> QED BY <2>3, <3>1
  <2> DEFINE newA == [a EXCEPT !.data = d]
             newB == [b EXCEPT !.data = e]
  <2>5. /\ IsBlock(newA) /\ newA.count = a.count /\ newA.onHeap = a.onHeap
        /\ IsBlock(newB) /\ newB.count = b.count /\ newB.onHeap = b.onHeap
    <3>1. IsBlock(a) /\ IsBlock(b)
      BY <2>3 DEF Inv, TypeOK
    <3> QED BY <2>4, <3>1, DataIsKept
  <2>6. DOMAIN heap = Addresses /\ \A c \in Addresses : IsBlock(heap[c])
    BY DEF Inv, TypeOK
  <2>7. /\ DOMAIN heap' = Addresses /\ heap'[raw[h]] = newA /\ heap'[raw[k]] = newB
        /\ \A c \in Addresses \ {raw[h], raw[k]} : heap'[c] = heap[c]
    BY <1>3, <2>2, <2>3, <2>6
  <2> HIDE DEF newA, newB
  <2>8. HeapOK' /\ \A c \in Addresses : Same(c)
    BY <2>5, <2>6, <2>7 DEF HeapOK, Same
  <2> QED BY <2>1, <2>8, SameKeeps
<1> QED BY <1>1, <1>2, <1>3

\* A view made inside of a live block, or of another view.
LEMMA LooksStep ==
  ASSUME Inv, NEW v \in Views, NEW a, NEW first \in Nat, NEW length \in Nat,
         Live(a), first + length <= heap[a].count, Looks(v, a, first, length)
  PROVE  Inv'
<1>0. a \in Addresses
  BY DEF Live
<1>1. TypeOK'
  BY <1>0 DEF Inv, TypeOK, Looks, IsBlock
<1>2. OwnersAreExact'
  BY DEF Inv, OwnersAreExact, Looks, Owned, Live
<1>3. \A w \in Views : views'[w] = IF w = v THEN [at |-> a, first |-> first, length |-> length] ELSE views[w]
  BY DEF Looks, Inv, TypeOK
<1>4. ViewsAreInside'
  BY <1>0, <1>3 DEF Inv, ViewsAreInside, Looks, Live, NoView
<1> QED BY <1>1, <1>2, <1>4 DEF Inv

LEMMA ViewStep ==
  ASSUME Inv, NEW v \in Views, NEW h \in Variables, NEW start \in Nat, NEW length \in Nat,
         View(v, h, start, length)
  PROVE  Inv'
  BY LooksStep DEF View

LEMMA SubviewStep ==
  ASSUME Inv, NEW v \in Views, NEW w \in Views, NEW start \in Nat, NEW length \in Nat,
         Subview(v, w, start, length)
  PROVE  Inv'
<1> DEFINE a == views[w].at
           first == views[w].first + start
<1>1. Live(a) /\ views[w].first + views[w].length <= heap[a].count
  BY DEF Subview, Inv, ViewsAreInside
<1>2. views[w].first \in Nat /\ views[w].length \in Nat /\ heap[a].count \in Nat
  BY <1>1 DEF Inv, TypeOK, IsBlock, Live
<1>3. first \in Nat /\ first + length <= heap[a].count
  BY <1>1, <1>2 DEF Subview
<1>4. Looks(v, a, first, length)
  BY DEF Subview
<1> HIDE DEF a, first
<1> QED BY <1>1, <1>3, <1>4, LooksStep

-----------------------------------------------------------------------------
LEMMA InvInit == Init => Inv
<1> SUFFICES ASSUME Init PROVE Inv
  OBVIOUS
<1>1. \A a : ~Live(a)
  BY UnusedIsBlock DEF Init, Live
<1>2. TypeOK
  BY UnusedIsBlock, Kinds, NamesAssumption DEF Init, TypeOK, NoView, Variables
<1>3. \A h \in Variables : raw[h] \notin Addresses
  BY AddressAssumption DEF Init
<1>4. OwnersAreExact
  BY <1>1, <1>3, Kinds DEF OwnersAreExact, Owned
<1>5. ViewsAreInside
  BY DEF Init, ViewsAreInside
<1> QED BY <1>2, <1>4, <1>5 DEF Inv

\* One step for each call.
LEMMA InvStep == Inv /\ [Next]_vars => Inv'
<1> SUFFICES ASSUME Inv, [Next]_vars PROVE Inv'
  OBVIOUS
<1>0. Counts \subseteq Nat
  BY SizeAssumption DEF Counts
<1>1. ASSUME NEW x \in Owners,
             \/ Default(x) \/ Destroy(x) \/ \E p \in Plain : Release(x, p)
             \/ \E h \in Variables : CopyConstruct(x, h) \/ MoveConstruct(x, h) \/ MoveAssign(x, h)
      PROVE  Inv'
  BY <1>1, DefaultStep, DestroyStep, ReleaseStep, CopyConstructStep, MoveConstructStep, MoveAssignStep
<1>2. ASSUME NEW p \in Plain,
             \/ \E n \in Counts : Malloc(p, n) \/ Alloca(p, n)
             \/ \E h \in Variables : Clone(p, h) \/ Borrow(p, h)
      PROVE  Inv'
  BY <1>0, <1>2, MallocStep, AllocaStep, CloneStep, BorrowStep
<1>3. ASSUME NEW h \in Variables,
             \/ Free(h) \/ FreeAndNull(h) \/ \E n \in Counts : Realloc(h, n)
             \/ \E e \in Values : Fill(h, e) \/ \E i \in Counts : Write(h, i, e)
             \/ \E k \in Variables : Swap(h, k)
      PROVE  Inv'
  BY <1>0, <1>3, FreeStep, FreeAndNullStep, ReallocStep, FillStep, WriteStep, SwapStep
<1>4. ASSUME NEW v \in Views,
             \/ \E i \in Counts, e \in Values : WriteView(v, i, e)
             \/ \E start, length \in Counts :
                  \/ \E h \in Variables : View(v, h, start, length)
                  \/ \E w \in Views : Subview(v, w, start, length)
      PROVE  Inv'
  BY <1>0, <1>4, WriteViewStep, ViewStep, SubviewStep
<1>5. CASE UNCHANGED vars
  <2>1. HeapOK' /\ \A c \in Addresses : Same(c)
    BY <1>5, TypeParts DEF vars, Inv, HeapOK, Same
  <2> QED BY <1>5, <2>1, SameKeeps DEF vars
<1> QED BY <1>1, <1>2, <1>3, <1>4, <1>5, ReturnStep DEF Next

-----------------------------------------------------------------------------
(* Who misuses memory, and how an object comes to hold a pointer that was  *)
(* freed: what MisuseIsNarrow says of a step.                              *)

MayStale(x) == Free(x) \/ \E y \in Owners : MoveAssign(x, y) /\ (x = y \/ raw[y] = Stale)

Narrow ==
  /\ fault' # fault => fault' = "null write" \/ \E x \in Owners : raw[x] = Stale
  /\ \A x \in Owners : raw[x] # Stale /\ raw'[x] = Stale => MayStale(x)

\* No plain pointer that is stale is used.
LEMMA StaleIsOwned ==
  ASSUME NEW h \in Variables, Usable(h), raw[h] = Stale
  PROVE  \E x \in Owners : raw[x] = Stale
  BY Kinds DEF Usable

LEMMA MisuseIsOfStale ==
  ASSUME NEW f, Misuse(f), f = "null write" \/ \E x \in Owners : raw[x] = Stale
  PROVE  Narrow
  BY DEF Misuse, Narrow

\* The calls that free make stale who owned the block: nobody but the variable
\* they are made on, for a plain pointer gives away only what nobody owns.
LEMMA GoneOfOthers ==
  ASSUME Inv, NEW h \in Variables, h \in Plain => ~Owned(raw[h]), NEW x \in Owners \ {h}
  PROVE  Gone(raw[h])[x] = raw[x]
  BY Before, Kinds DEF Gone, Owned

LEMMA FreesNarrow ==
  ASSUME Inv, NEW h \in Variables, NEW left, left = Stale => MayStale(h) \/ h \in Plain,
         h \in Plain => Given(h), raw[h] # Dead,
         Frees(raw[h], [Gone(raw[h]) EXCEPT ![h] = left], Without(raw[h]))
  PROVE  Narrow
<1>1. CASE raw[h] = Stale
  <2>1. Misuse("double free")
    BY <1>1 DEF Frees
  <2>2. \E x \in Owners : raw[x] = Stale
    BY <1>1, StaleIsOwned DEF Given, Usable
  <2> QED BY <2>1, <2>2, MisuseIsOfStale
<1>2. CASE raw[h] # Stale
  <2>1. fault' = fault /\ raw' = [Gone(raw[h]) EXCEPT ![h] = left]
    BY <1>2 DEF Frees
  <2>2. \A x \in Owners \ {h} : raw'[x] = raw[x]
    BY <2>1, GoneOfOthers, Kinds DEF Given, Gone
  <2>3. raw'[h] = left
    BY <2>1 DEF Gone
  <2> QED BY <2>1, <2>2, <2>3, Kinds DEF Narrow
<1> QED BY <1>1, <1>2

LEMMA FreeNarrow ==
  ASSUME Inv, NEW h \in Variables, Free(h)
  PROVE  Narrow
<1>1. PICK left : Gone(raw[h]) = [Gone(raw[h]) EXCEPT ![h] = left]
  BY DEF Gone
<1>2. h \in Owners => MayStale(h)
  BY DEF MayStale
<1>3. Given(h) /\ raw[h] # Dead
  BY DEF Free, Given, Usable
<1> QED BY <1>1, <1>2, <1>3, Kinds, FreesNarrow DEF Free

LEMMA FreeAndNullNarrow ==
  ASSUME Inv, NEW h \in Variables, FreeAndNull(h)
  PROVE  Narrow
<1>1. Given(h) /\ raw[h] # Dead
  BY DEF FreeAndNull, Given, Usable
<1> QED BY <1>1, FreesNarrow, NamesAssumption DEF FreeAndNull

LEMMA DestroyNarrow ==
  ASSUME Inv, NEW x \in Owners, Destroy(x)
  PROVE  Narrow
  BY FreesNarrow, Kinds, NamesAssumption DEF Destroy

LEMMA MoveAssignNarrow ==
  ASSUME Inv, NEW x \in Owners, NEW h \in Variables, MoveAssign(x, h)
  PROVE  Narrow
<1>1. CASE raw[x] = Stale
  BY <1>1, MisuseIsOfStale DEF MoveAssign, Frees
<1>2. CASE raw[x] # Stale /\ x = h
  <2>1. Free(x)
    BY <1>2 DEF MoveAssign, Free
  <2> QED BY <2>1, FreeNarrow, Kinds
<1>3. CASE raw[x] # Stale /\ x # h
  <2>1. /\ raw' = [Gone(raw[x]) EXCEPT ![x] = raw[h], ![h] = Null]
        /\ fault' = fault /\ Given(h)
    BY <1>3 DEF MoveAssign, Frees
  <2>2. \A y \in Owners \ {x, h} : raw'[y] = raw[y]
    BY <2>1, GoneOfOthers, Kinds DEF Gone
  <2>3. raw'[h] = Null /\ raw'[x] = raw[h]
    BY <1>3, <2>1, Kinds DEF Gone
  <2>4. raw[h] = Stale => h \in Owners
    BY <2>1, Kinds DEF Given, Usable
  <2>5. raw[h] = Stale => MayStale(x)
    BY <2>4 DEF MayStale
  <2> QED BY <2>1, <2>2, <2>3, <2>5, NamesAssumption DEF Narrow
<1> QED BY <1>1, <1>2, <1>3

LEMMA ReallocNarrow ==
  ASSUME Inv, NEW h \in Variables, NEW n \in Nat, Realloc(h, n)
  PROVE  Narrow
<1>1. CASE raw[h] = Stale \/ n = 0
  BY <1>1, MisuseIsOfStale, StaleIsOwned DEF Realloc, Given
<1>2. CASE raw[h] # Stale /\ n # 0
  <2>1. PICK a \in Addresses : raw' = [Gone(raw[h]) EXCEPT ![h] = a] /\ fault' = fault /\ Given(h)
    BY <1>2 DEF Realloc
  <2>2. \A x \in Owners \ {h} : raw'[x] = raw[x]
    BY <2>1, GoneOfOthers, Kinds DEF Given, Gone
  <2>3. raw'[h] # Stale
    BY <2>1, AddressAssumption DEF Gone
  <2> QED BY <2>1, <2>2, <2>3 DEF Narrow
<1> QED BY <1>1, <1>2

LEMMA ClonesNarrow ==
  ASSUME Inv, NEW k \in Variables, NEW h \in Variables, Usable(h), Clones(k, h)
  PROVE  Narrow
<1>1. CASE raw[h] = Stale
  BY <1>1, MisuseIsOfStale, StaleIsOwned DEF Clones
<1>2. CASE raw[h] # Stale
  <2>1. PICK a \in Addresses : raw' = [raw EXCEPT ![k] = a] /\ fault' = fault
    BY <1>2 DEF Clones
  <2> QED BY <2>1, Before, Kinds, AddressAssumption DEF Narrow
<1> QED BY <1>1, <1>2

LEMMA MovesNarrow ==
  ASSUME Inv, NEW x \in Owners,
         \/ Default(x) \/ \E p \in Plain : Release(x, p)
         \/ \E h \in Variables : CopyConstruct(x, h) \/ MoveConstruct(x, h)
  PROVE  Narrow
<1>1. CASE Default(x)
  BY <1>1, Before, Kinds, NamesAssumption DEF Default, Narrow
<1>2. ASSUME NEW p \in Plain, Release(x, p) PROVE Narrow
  BY <1>2, Before, Kinds, NamesAssumption DEF Release, Narrow
<1>3. ASSUME NEW h \in Variables, CopyConstruct(x, h) PROVE Narrow
  BY <1>3, ClonesNarrow, Kinds DEF CopyConstruct
<1>4. ASSUME NEW h \in Variables, MoveConstruct(x, h) PROVE Narrow
  <2>1. CASE raw[h] = Stale
    BY <1>4, <2>1, MisuseIsOfStale, StaleIsOwned DEF MoveConstruct, Given
  <2>2. CASE raw[h] # Stale
    BY <1>4, <2>2, Before, Kinds, NamesAssumption DEF MoveConstruct, Narrow
  <2> QED BY <2>1, <2>2
<1> QED BY <1>1, <1>2, <1>3, <1>4

LEMMA PlainNarrow ==
  ASSUME Inv, NEW p \in Plain,
         \/ \E n \in Counts : Malloc(p, n) \/ Alloca(p, n)
         \/ \E h \in Variables : Clone(p, h) \/ Borrow(p, h)
  PROVE  Narrow
<1>1. ASSUME NEW b, Allocates(p, b) PROVE Narrow
  BY <1>1, Before, Kinds DEF Allocates, Narrow
<1>2. ASSUME NEW n \in Counts, Malloc(p, n) \/ Alloca(p, n) PROVE Narrow
  BY <1>1, <1>2, MisuseIsOfStale DEF Malloc, Alloca
<1>3. ASSUME NEW h \in Variables, Clone(p, h) PROVE Narrow
  BY <1>3, ClonesNarrow, Kinds DEF Clone
<1>4. ASSUME NEW h \in Variables, Borrow(p, h) PROVE Narrow
  BY <1>4, Before, Kinds DEF Borrow, Narrow
<1> QED BY <1>2, <1>3, <1>4

LEMMA WritesNarrow ==
  ASSUME Inv, NEW h \in Variables,
         \/ \E e \in Values : Fill(h, e) \/ \E i \in Counts : Write(h, i, e)
         \/ \E k \in Variables : Swap(h, k)
  PROVE  Narrow
<1>1. ASSUME NEW e \in Values, Fill(h, e) PROVE Narrow
  BY <1>1, MisuseIsOfStale, StaleIsOwned DEF Fill, Holds, Narrow
<1>2. ASSUME NEW e \in Values, NEW i \in Counts, Write(h, i, e) PROVE Narrow
  BY <1>2, MisuseIsOfStale, StaleIsOwned DEF Write, Holds, Narrow
<1>3. ASSUME NEW k \in Variables, Swap(h, k) PROVE Narrow
  BY <1>3, MisuseIsOfStale, StaleIsOwned DEF Swap, Narrow
<1> QED BY <1>1, <1>2, <1>3

LEMMA NarrowStep == Inv /\ Next => Narrow
<1> SUFFICES ASSUME Inv, Next PROVE Narrow
  OBVIOUS
<1>0. Counts \subseteq Nat
  BY SizeAssumption DEF Counts
<1>1. ASSUME NEW v \in Views,
             \/ \E i \in Counts, e \in Values : WriteView(v, i, e)
             \/ \E start, length \in Counts :
                  \/ \E h \in Variables : View(v, h, start, length)
                  \/ \E w \in Views : Subview(v, w, start, length)
      PROVE  Narrow
  BY <1>1 DEF WriteView, Holds, View, Subview, Looks, Narrow
<1>2. CASE Return
  <2>1. \A x \in Owners : raw[x] # Stale => raw'[x] # Stale
    BY <1>2, Before, Kinds DEF Return
  <2> QED BY <1>2, <2>1 DEF Return, Narrow
<1> QED
  BY <1>0, <1>1, <1>2, FreeNarrow, FreeAndNullNarrow, DestroyNarrow, MoveAssignNarrow,
     ReallocNarrow, MovesNarrow, PlainNarrow, WritesNarrow, Kinds DEF Next

-----------------------------------------------------------------------------
\* The size in the header of every block is that of its elements, through
\* every call of pointer.h and of raii::pointer.
THEOREM TypeCorrect == Spec => []TypeOK
<1>1. Inv => TypeOK
  BY DEF Inv
<1> QED BY <1>1, InvInit, InvStep, PTL DEF Spec

\* A block on the heap has at most one object that frees it, always some
\* variable that points to it, and no pointer to it that is not stale once it
\* went: for any number of objects and pointers.
THEOREM OneOwner == Spec => []OwnersAreExact
<1>1. Inv => OwnersAreExact
  BY DEF Inv
<1> QED BY <1>1, InvInit, InvStep, PTL DEF Spec

\* A view, a view of a view and so on never reach outside of their block.
THEOREM ViewsStayInside == Spec => []ViewsAreInside
<1>1. Inv => ViewsAreInside
  BY DEF Inv
<1> QED BY <1>1, InvInit, InvStep, PTL DEF Spec

\* Memory is misused only to allocate no elements or through an object that is
\* stale, and an object becomes so only by free() on it or by a move into
\* itself or from one that is.
THEOREM MisuseNeedsStale == Spec => MisuseIsNarrow
<1>1. Inv /\ [Next]_vars =>
        [/\ fault' # fault => fault' = "null write" \/ \E x \in Owners : raw[x] = Stale
         /\ \A x \in Owners : raw[x] # Stale /\ raw'[x] = Stale =>
              Free(x) \/ \E y \in Owners : MoveAssign(x, y) /\ (x = y \/ raw[y] = Stale)]_vars
  BY NarrowStep DEF Narrow, MayStale
<1> QED BY <1>1, InvInit, InvStep, PTL DEF Spec, MisuseIsNarrow

-----------------------------------------------------------------------------
(* What a call does to the elements that the objects hold: Objects. *)

LEMMA AssignByElements ==
  ASSUME NEW x \in Owners, NEW s, Elements(x)' = s, \A y \in Owners \ {x} : Elements(y)' = Elements(y)
  PROVE  O!Assign(x, s)
<1> DEFINE held == [y \in Owners |-> Elements(y)]
<1>1. held' = [held EXCEPT ![x] = s]
  OBVIOUS
<1> QED BY <1>1 DEF O!Assign

LEMMA MoveByElements ==
  ASSUME NEW x \in Owners, NEW h \in Owners \ {x}, Elements(x)' = Elements(h), Elements(h)' = <<>>,
         \A y \in Owners \ {x, h} : Elements(y)' = Elements(y)
  PROVE  O!Move(x, h)
<1> DEFINE held == [y \in Owners |-> Elements(y)]
<1>1. held' = [held EXCEPT ![x] = held[h], ![h] = <<>>]
  OBVIOUS
<1> QED BY <1>1 DEF O!Move

LEMMA BecomeByElements ==
  ASSUME NEW X, NEW s, \A y \in Owners : Elements(y)' = IF y \in X THEN s ELSE Elements(y)
  PROVE  O!Become(X, s)
  BY DEF O!Become

LEMMA WithinByElements ==
  ASSUME NEW X, \A y \in Owners \ X : Elements(y)' = Elements(y)
  PROVE  O!Within(X)
  BY DEF O!Within

\* An object that keeps its pointer, and whose block is not touched, has its
\* elements; and one that points to no block has none.
LEMMA ElementsStay ==
  ASSUME NEW y, raw'[y] = raw[y], raw[y] \in Addresses => heap'[raw[y]] = heap[raw[y]]
  PROVE  Elements(y)' = Elements(y)
  BY DEF Elements, Contents, Live

\* Who takes a pointer to an untouched block holds what the other held.
LEMMA ElementsMove ==
  ASSUME NEW y, NEW h, raw'[y] = raw[h], raw[h] \in Addresses => heap'[raw[h]] = heap[raw[h]]
  PROVE  Elements(y)' = Elements(h)
  BY DEF Elements, Contents, Live

LEMMA NoElements ==
  ASSUME NEW y, raw'[y] \in {Dead, Null, Stale}
  PROVE  Elements(y)' = <<>>
  BY AddressAssumption DEF Elements, Live

LEMMA NotMisused ==
  ASSUME NEW f \in {"double free", "use after free", "null write"}, Misuse(f), fault' = "none"
  PROVE  FALSE
  BY DEF Misuse

\* What points to a live block holds its elements.
LEMMA ElementsOf ==
  ASSUME Inv, NEW h \in Variables, raw[h] \in Addresses
  PROVE  /\ Elements(h) = Contents(raw[h]) /\ heap[raw[h]].count \in Nat
         /\ Len(Elements(h)) = heap[raw[h]].count
         /\ \A j \in 1 .. heap[raw[h]].count : Elements(h)[j] = heap[raw[h]].data[j - 1]
<1>1. Live(raw[h])
  BY Before
<1>2. Elements(h) = Contents(raw[h]) /\ heap[raw[h]].count \in Nat
  BY <1>1 DEF Elements, Inv, TypeOK, IsBlock
<1> QED BY <1>2 DEF Contents

\* The block at p goes: objects that do not point to it keep what they hold.
LEMMA FreedElements ==
  ASSUME Inv, NEW p, NEW newRaw, Frees(p, newRaw, Without(p)), fault' = "none"
  PROVE  /\ raw' = newRaw
         /\ \A y \in Variables : raw'[y] = raw[y] /\ (raw[y] \in Addresses => raw[y] # p)
              => Elements(y)' = Elements(y)
         /\ \A c \in Addresses : c # p => heap'[c] = heap[c]
<1>1. raw' = newRaw /\ heap' = Without(p)
  BY NotMisused DEF Frees
<1>2. \A c \in Addresses : c # p => heap'[c] = heap[c]
  BY <1>1, WithoutIsHeap, TypeParts DEF Inv
<1> QED BY <1>1, <1>2, ElementsStay

LEMMA FreesElements ==
  ASSUME Inv, NEW h \in Variables, NEW left \in {Dead, Null, Stale}, fault' = "none",
         Frees(raw[h], [Gone(raw[h]) EXCEPT ![h] = left], Without(raw[h]))
  PROVE  /\ Elements(h)' = <<>>
         /\ \A y \in Variables \ {h} :
              (raw[h] \in Addresses => raw[y] # raw[h]) => Elements(y)' = Elements(y)
<1>1. /\ raw' = [Gone(raw[h]) EXCEPT ![h] = left]
      /\ \A y \in Variables : raw'[y] = raw[y] /\ (raw[y] \in Addresses => raw[y] # raw[h])
           => Elements(y)' = Elements(y)
  BY FreedElements
<1>2. /\ raw'[h] = left
      /\ \A y \in Variables \ {h} :
           raw'[y] = IF raw[h] \in Addresses /\ raw[y] = raw[h] THEN Stale ELSE raw[y]
  BY <1>1, Before DEF Gone
<1>3. Elements(h)' = <<>>
  BY <1>2, NoElements
<1> QED BY <1>1, <1>2, <1>3

LEMMA DestroyCall ==
  ASSUME Inv, NEW x \in Owners, Destroy(x), fault' = "none"
  PROVE  O!Assign(x, <<>>)
<1>1. /\ Elements(x)' = <<>>
      /\ \A y \in Variables \ {x} :
           (raw[x] \in Addresses => raw[y] # raw[x]) => Elements(y)' = Elements(y)
  BY FreesElements, Kinds DEF Destroy
<1>2. \A y \in Owners \ {x} : y \in Variables \ {x} /\ (raw[x] \in Addresses => raw[y] # raw[x])
  BY Before, Kinds
<1> QED BY <1>1, <1>2, AssignByElements

\* Freed through any pointer: the object that points there holds nothing.
LEMMA FreeCalls ==
  ASSUME Inv, NEW h \in Variables, Free(h) \/ FreeAndNull(h), fault' = "none"
  PROVE  O!Become(Pointed(raw[h]), <<>>)
<1>1. PICK left \in {Dead, Null, Stale} :
        Frees(raw[h], [Gone(raw[h]) EXCEPT ![h] = left], Without(raw[h]))
  <2>1. CASE FreeAndNull(h)
    BY <2>1 DEF FreeAndNull
  <2>2. CASE Free(h) /\ raw[h] \in Addresses
    <3>1. Gone(raw[h]) = [Gone(raw[h]) EXCEPT ![h] = Stale]
      BY <2>2 DEF Gone
    <3> QED BY <2>2, <3>1 DEF Free
  <2>3. CASE Free(h) /\ raw[h] \notin Addresses
    <3>1. Gone(raw[h]) = [Gone(raw[h]) EXCEPT ![h] = raw[h]] /\ raw[h] \in {Dead, Null, Stale}
      BY <2>3, Before DEF Gone
    <3> QED BY <2>3, <3>1 DEF Free
  <2> QED BY <2>1, <2>2, <2>3
<1>2. \A y \in Variables \ {h} : (raw[h] \in Addresses => raw[y] # raw[h]) => Elements(y)' = Elements(y)
  BY <1>1, FreesElements
<1>3. \A y \in Owners \ Pointed(raw[h]) : y \in Variables \ {h} /\ raw[y] # raw[h]
  BY Kinds DEF Pointed
<1>4. \A y \in Owners \ Pointed(raw[h]) : Elements(y)' = Elements(y)
  BY <1>2, <1>3
<1>5. ASSUME NEW y \in Pointed(raw[h]) PROVE Elements(y)' = <<>>
  <2>0. y \in Variables /\ raw[y] = raw[h]
    BY Kinds DEF Pointed
  <2>1. raw' = [Gone(raw[h]) EXCEPT ![h] = left]
    BY <1>1, FreedElements
  <2>2. raw'[y] \in {Dead, Null, Stale}
    BY <2>0, <2>1, Before DEF Gone
  <2> QED BY <2>2, NoElements
<1> QED BY <1>4, <1>5, BecomeByElements

-----------------------------------------------------------------------------
(* Copies and moves. *)

\* A variable of its own block: nobody else points there.
LEMMA NewElements ==
  ASSUME Inv, NEW k \in Variables, NEW a \in Addresses, ~Live(a), NEW b,
         heap' = [heap EXCEPT ![a] = b], raw' = [raw EXCEPT ![k] = a]
  PROVE  /\ raw'[k] = a /\ heap'[a] = b
         /\ \A y \in Variables \ {k} : Elements(y)' = Elements(y)
<1>1. /\ DOMAIN heap = Addresses /\ raw \in [Variables -> Addresses \cup {Dead, Null, Stale}]
      /\ \A h \in Variables : raw[h] # a
  BY Before DEF Inv, TypeOK
<1> QED BY <1>1, ElementsStay

LEMMA ClonedElements ==
  ASSUME Inv, NEW x \in Variables, NEW h \in Variables, Clones(x, h), fault' = "none"
  PROVE  /\ Elements(x)' = Elements(h)
         /\ \A y \in Variables \ {x} : Elements(y)' = Elements(y)
<1>0. Clones(x, h) /\ x \in Variables
  OBVIOUS
<1>1. raw[h] \in Addresses
  BY <1>0, NotMisused DEF Clones
<1>2. PICK a \in Addresses :
        ~Live(a) /\ heap' = [heap EXCEPT ![a] = Copied(heap[raw[h]])] /\ raw' = [raw EXCEPT ![x] = a]
  BY <1>0, NotMisused DEF Clones
<1>3. /\ raw'[x] = a /\ heap'[a] = Copied(heap[raw[h]])
      /\ \A y \in Variables \ {x} : Elements(y)' = Elements(y)
  BY <1>0, <1>2, NewElements
<1>4. Live(raw[h]) /\ IsBlock(heap[raw[h]])
  BY <1>1, Before DEF Inv, TypeOK
<1>5. /\ Copied(heap[raw[h]]).count = heap[raw[h]].count
      /\ \A j \in 0 .. heap[raw[h]].count - 1 : Copied(heap[raw[h]]).data[j] = heap[raw[h]].data[j]
  BY <1>4 DEF Copied, Block, IsBlock
<1>6. Elements(x)' = Elements(h)
  <2>1. heap'[a].count = heap[raw[h]].count /\ heap[raw[h]].count \in Nat
    BY <1>3, <1>4, <1>5 DEF IsBlock
  <2>2. \A j \in 1 .. heap[raw[h]].count : heap'[a].data[j - 1] = heap[raw[h]].data[j - 1]
    BY <1>3, <1>5, <2>1
  <2> QED BY <1>1, <1>3, <1>4, <2>1, <2>2 DEF Elements, Contents, Live
<1> QED BY <1>3, <1>6

LEMMA CopyConstructCall ==
  ASSUME Inv, NEW x \in Owners, NEW h \in Variables, CopyConstruct(x, h), fault' = "none"
  PROVE  O!Assign(x, Elements(h))
  BY ClonedElements, AssignByElements, Kinds DEF CopyConstruct

LEMMA CloneCall ==
  ASSUME Inv, NEW p \in Plain, NEW h \in Variables, Clone(p, h), fault' = "none"
  PROVE  O!Within({}) /\ Elements(p)' = Elements(h)
<1>1. /\ Elements(p)' = Elements(h)
      /\ \A y \in Variables \ {p} : Elements(y)' = Elements(y)
  BY ClonedElements, Kinds DEF Clone
<1>2. \A y \in Owners : Elements(y)' = Elements(y)
  BY <1>1, Kinds
<1> QED BY <1>1, <1>2, WithinByElements

LEMMA AllocateCalls ==
  ASSUME Inv, NEW p \in Plain, NEW n \in Counts, Malloc(p, n) \/ Alloca(p, n), fault' = "none"
  PROVE  O!Within({})
<1>1. PICK b : Allocates(p, b)
  BY NotMisused DEF Malloc, Alloca
<1>2. PICK a \in Addresses : ~Live(a) /\ heap' = [heap EXCEPT ![a] = b] /\ raw' = [raw EXCEPT ![p] = a]
  BY <1>1 DEF Allocates
<1>3. \A y \in Owners : Elements(y)' = Elements(y)
  BY <1>2, NewElements, Kinds
<1> QED BY <1>3, WithinByElements

\* The calls that only repoint variables that no object is, or make views.
LEMMA IdleCalls ==
  ASSUME Inv, heap' = heap, \A y \in Owners : raw'[y] = raw[y]
  PROVE  O!Within({})
<1>1. \A y \in Owners : Elements(y)' = Elements(y)
  BY ElementsStay
<1> QED BY <1>1, WithinByElements

LEMMA DefaultCall ==
  ASSUME Inv, NEW x \in Owners, Default(x)
  PROVE  O!Within({})
<1>1. heap' = heap /\ raw[x] = Dead /\ raw'[x] = Null /\ \A y \in Owners \ {x} : raw'[y] = raw[y]
  BY Before, Kinds DEF Default
<1>2. Elements(x)' = <<>> /\ Elements(x) = <<>>
  BY <1>1, NoElements, AddressAssumption DEF Elements, Live
<1>3. \A y \in Owners \ {x} : Elements(y)' = Elements(y)
  BY <1>1, ElementsStay
<1>4. \A y \in Owners : Elements(y)' = Elements(y)
  BY <1>2, <1>3
<1> QED BY <1>4, WithinByElements

LEMMA BorrowCall ==
  ASSUME Inv, NEW p \in Plain, NEW h \in Variables, Borrow(p, h)
  PROVE  O!Within({})
  BY IdleCalls, Before, Kinds DEF Borrow

LEMMA ViewCalls ==
  ASSUME Inv, NEW v \in Views, NEW start, NEW length,
         \/ \E h \in Variables : View(v, h, start, length)
         \/ \E w \in Views : Subview(v, w, start, length)
  PROVE  O!Within({})
  BY IdleCalls DEF View, Subview, Looks

\* Objects own nothing of the stack.
LEMMA ReturnCall ==
  ASSUME Inv, Return
  PROVE  O!Within({})
<1> DEFINE dead == {a \in Addresses : Live(a) /\ ~heap[a].onHeap}
<1>1. /\ heap' = [a \in Addresses |-> IF a \in dead THEN Unused ELSE heap[a]]
      /\ raw' = [h \in Variables |-> IF raw[h] \in dead THEN Stale ELSE raw[h]]
  BY DEF Return
<1>2. \A x \in Owners : x \in Variables /\ raw[x] \notin dead
  BY Kinds DEF Inv, OwnersAreExact
<1> HIDE DEF dead
<1>3. \A x \in Owners : raw'[x] = raw[x] /\ (raw[x] \in Addresses => heap'[raw[x]] = heap[raw[x]])
  BY <1>1, <1>2
<1>4. \A y \in Owners : Elements(y)' = Elements(y)
  BY <1>3, ElementsStay
<1> QED BY <1>4, WithinByElements

LEMMA MovedElements ==
  ASSUME NEW x \in Owners, NEW h \in Variables \ {x}, Elements(x)' = Elements(h),
         h \in Owners => Elements(h)' = <<>>, \A y \in Owners \ {x, h} : Elements(y)' = Elements(y)
  PROVE  IF h \in Owners THEN O!Move(x, h) ELSE O!Assign(x, Elements(h))
<1>1. CASE h \in Owners
  BY <1>1, MoveByElements
<1>2. CASE h \notin Owners
  BY <1>2, AssignByElements
<1> QED BY <1>1, <1>2

LEMMA MoveConstructCall ==
  ASSUME Inv, NEW x \in Owners, NEW h \in Variables, MoveConstruct(x, h), fault' = "none", x # h
  PROVE  IF h \in Owners THEN O!Move(x, h) ELSE O!Assign(x, Elements(h))
<1>1. raw' = [raw EXCEPT ![x] = raw[h], ![h] = Null] /\ heap' = heap
  BY NotMisused DEF MoveConstruct
<1>2. raw'[x] = raw[h] /\ raw'[h] = Null /\ \A y \in Owners \ {x, h} : raw'[y] = raw[y]
  BY <1>1, Before, Kinds
<1>3. Elements(x)' = Elements(h)
  BY <1>1, <1>2, ElementsMove
<1>4. Elements(h)' = <<>>
  BY <1>2, NoElements
<1>5. \A y \in Owners \ {x, h} : Elements(y)' = Elements(y)
  BY <1>1, <1>2, ElementsStay
<1> QED BY <1>3, <1>4, <1>5, MovedElements

LEMMA MoveAssignCall ==
  ASSUME Inv, NEW x \in Owners, NEW h \in Variables, MoveAssign(x, h), fault' = "none", x # h
  PROVE  IF h \in Owners THEN O!Move(x, h) ELSE O!Assign(x, Elements(h))
<1>1. /\ Frees(raw[x], [Gone(raw[x]) EXCEPT ![x] = raw[h], ![h] = Null], Without(raw[x]))
      /\ Given(h)
  BY DEF MoveAssign
<1>2. /\ raw' = [Gone(raw[x]) EXCEPT ![x] = raw[h], ![h] = Null]
      /\ \A y \in Variables : raw'[y] = raw[y] /\ (raw[y] \in Addresses => raw[y] # raw[x])
           => Elements(y)' = Elements(y)
      /\ \A c \in Addresses : c # raw[x] => heap'[c] = heap[c]
  BY <1>1, FreedElements
<1>3. /\ raw'[x] = raw[h] /\ raw'[h] = Null
      /\ \A y \in Owners \ {x, h} :
           raw'[y] = IF raw[x] \in Addresses /\ raw[y] = raw[x] THEN Stale ELSE raw[y]
  BY <1>2, Before, Kinds DEF Gone
<1>4. raw[h] \in Addresses => raw[h] # raw[x]
  BY <1>1, Before, Kinds DEF Given, Owned
<1>5. Elements(x)' = Elements(h)
  BY <1>2, <1>3, <1>4, ElementsMove
<1>6. Elements(h)' = <<>>
  BY <1>3, NoElements
<1>7. \A y \in Owners \ {x, h} : raw'[y] = raw[y] /\ (raw[y] \in Addresses => raw[y] # raw[x])
  BY <1>3, Before
<1>8. \A y \in Owners \ {x, h} : Elements(y)' = Elements(y)
  BY <1>2, <1>7, Kinds
<1> QED BY <1>5, <1>6, <1>8, MovedElements

LEMMA ReleaseCall ==
  ASSUME Inv, NEW x \in Owners, NEW p \in Plain, Release(x, p)
  PROVE  O!Assign(x, <<>>)
<1>1. heap' = heap /\ raw'[x] = Null /\ \A y \in Owners \ {x} : raw'[y] = raw[y]
  BY Before, Kinds DEF Release
<1>2. \A y \in Owners \ {x} : Elements(y)' = Elements(y)
  BY <1>1, ElementsStay
<1> QED BY <1>1, <1>2, NoElements, AssignByElements

\* Moved into itself, an object holds nothing.
LEMMA MoveToSelf ==
  ASSUME Inv, NEW x \in Owners, MoveAssign(x, x), fault' = "none"
  PROVE  O!Assign(x, <<>>)
<1>1. raw[x] # Dead /\ Frees(raw[x], Gone(raw[x]), Without(raw[x]))
  BY DEF MoveAssign
<1>2. /\ raw' = Gone(raw[x])
      /\ \A y \in Variables : raw'[y] = raw[y] /\ (raw[y] \in Addresses => raw[y] # raw[x])
           => Elements(y)' = Elements(y)
  BY <1>1, FreedElements
<1>3. raw'[x] \in {Dead, Null, Stale}
  BY <1>2, Before, Kinds DEF Gone
<1>4. \A y \in Owners \ {x} : raw'[y] = raw[y] /\ (raw[y] \in Addresses => raw[y] # raw[x])
  BY <1>2, Before, Kinds DEF Gone
<1>5. \A y \in Owners \ {x} : Elements(y)' = Elements(y)
  BY <1>2, <1>4, Kinds
<1> QED BY <1>3, <1>5, NoElements, AssignByElements

-----------------------------------------------------------------------------
(* realloc and the calls that write elements. *)

\* What is at an address once its block is reallocated, as a sequence.
LEMMA ReallocatedElements ==
  ASSUME NEW b, IsBlock(b), NEW n \in Nat, NEW s, Len(s) = b.count,
         \A j \in 1 .. b.count : s[j] = b.data[j - 1]
  PROVE  [j \in 1 .. n |-> Reallocated(b, n).data[j - 1]] = Cleaned(s, n)
<1>1. b.count \in Nat
  BY DEF IsBlock
<1>2. ASSUME NEW j \in 1 .. n
      PROVE  Reallocated(b, n).data[j - 1] =
               IF (j - 1) * TypeSize < HeaderData THEN Zero ELSE IF j <= Len(s) THEN s[j] ELSE None
  <2> DEFINE i == j - 1
             d == [k \in 0 .. n - 1 |-> IF k < b.count THEN b.data[k] ELSE None]
  <2>1. i \in 0 .. n - 1
    OBVIOUS
  <2>2. d[i] = IF j <= Len(s) THEN s[j] ELSE None
    BY <1>1
  <2>3. Reallocated(b, n).data = [k \in 0 .. n - 1 |-> Cleared(n, d)[k]]
    BY DEF Reallocated, Block
  <2> HIDE DEF d, i
  <2>4. Reallocated(b, n).data[i] = IF i * TypeSize < HeaderData THEN Zero ELSE d[i]
    BY <2>1, <2>3 DEF Cleared
  <2> QED BY <2>2, <2>4 DEF i
<1> QED BY <1>2 DEF Cleaned

LEMMA ReallocCall ==
  ASSUME Inv, NEW h \in Variables, NEW n \in Counts, Realloc(h, n), fault' = "none"
  PROVE  IF h \in Owners THEN O!Assign(h, Cleaned(Elements(h), n)) ELSE O!Within({})
<1>1. raw[h] # Stale /\ n # 0 /\ n \in Nat /\ Given(h)
  <2>1. n \in Nat
    BY SizeAssumption DEF Counts
  <2>2. Given(h) /\ raw[h] # Stale
    BY NotMisused DEF Realloc
  <2>3. n # 0
    BY <2>2, NotMisused DEF Realloc
  <2> QED BY <2>1, <2>2, <2>3
<1>2. PICK a \in Addresses :
        /\ IF raw[h] = Null THEN ~Live(a) ELSE a = raw[h]
        /\ heap' = [heap EXCEPT ![a] = Reallocated(heap[a], n)]
        /\ raw' = [Gone(raw[h]) EXCEPT ![h] = a]
  BY <1>1 DEF Realloc
<1>3. IsBlock(heap[a]) /\ DOMAIN heap = Addresses
  BY DEF Inv, TypeOK
<1>4. Reallocated(heap[a], n).count = n
  BY <1>1, <1>3, ReallocatedIsBlock
<1>5. /\ raw'[h] = a /\ heap'[a] = Reallocated(heap[a], n) /\ \A c \in Addresses \ {a} : heap'[c] = heap[c]
      /\ \A y \in Variables \ {h} :
           raw'[y] = IF raw[h] \in Addresses /\ raw[y] = raw[h] THEN Stale ELSE raw[y]
  BY <1>2, <1>3, Before DEF Gone
<1>6. Len(Elements(h)) = heap[a].count
        /\ \A j \in 1 .. heap[a].count : Elements(h)[j] = heap[a].data[j - 1]
  <2>1. CASE raw[h] = Null
    <3>1. heap[a].count = 0
      BY <1>2, <1>3, <2>1 DEF Live, IsBlock
    <3>2. Elements(h) = <<>>
      BY <2>1, AddressAssumption DEF Elements, Live
    <3> QED BY <3>1, <3>2
  <2>2. CASE raw[h] # Null
    BY <1>2, <2>2, ElementsOf
  <2> QED BY <2>1, <2>2
<1>7. Elements(h)' = Cleaned(Elements(h), n)
  <2>1. Elements(h)' = [j \in 1 .. n |-> heap'[a].data[j - 1]]
    BY <1>1, <1>4, <1>5 DEF Elements, Contents, Live
  <2> QED BY <1>1, <1>3, <1>5, <1>6, <2>1, ReallocatedElements
<1>8. \A y \in Owners \ {h} : raw[y] # a /\ (raw[h] \in Addresses => raw[y] # raw[h])
  BY <1>1, <1>2, Before, Kinds DEF Given, Owned
<1>9. \A y \in Owners \ {h} : Elements(y)' = Elements(y)
  BY <1>5, <1>8, ElementsStay, Kinds
<1>10. CASE h \in Owners
  BY <1>7, <1>9, <1>10, AssignByElements
<1>11. CASE h \notin Owners
  BY <1>9, <1>11, WithinByElements
<1> QED BY <1>10, <1>11

\* The object that points to a block, if one does, has the elements written there.
LEMMA HoldsElements ==
  ASSUME Inv, NEW a \in Addresses, Live(a), NEW d, Holds(a, d), NEW s,
         s = [j \in 1 .. heap[a].count |-> d[j - 1]]
  PROVE  O!Become(Pointed(a), s)
<1>1. /\ raw' = raw /\ heap'[a] = [heap[a] EXCEPT !.data = d]
      /\ \A c \in Addresses \ {a} : heap'[c] = heap[c]
  BY DEF Holds, Inv, TypeOK
<1>2. heap'[a].count = heap[a].count /\ heap'[a].data = d
  BY <1>1 DEF Inv, TypeOK, IsBlock
<1>3. \A y \in Pointed(a) : Elements(y)' = s
  BY <1>1, <1>2 DEF Elements, Contents, Live, Pointed
<1>4. \A y \in Owners \ Pointed(a) : raw[y] # a
  BY DEF Pointed
<1>5. \A y \in Owners \ Pointed(a) : Elements(y)' = Elements(y)
  BY <1>1, <1>4, ElementsStay
<1> QED BY <1>3, <1>5, BecomeByElements

\* Of a live block: one element written, and all.
LEMMA WriteBecomes ==
  ASSUME Inv, NEW a \in Addresses, Live(a), NEW e, NEW i \in Nat, Holds(a, [heap[a].data EXCEPT ![i] = e])
  PROVE  O!Become(Pointed(a), [Contents(a) EXCEPT ![i + 1] = e])
<1> DEFINE n == heap[a].count
           g == heap[a].data
           d == [g EXCEPT ![i] = e]
           s == [Contents(a) EXCEPT ![i + 1] = e]
<1>1. n \in Nat /\ DOMAIN g = 0 .. n - 1
  BY DEF Inv, TypeOK, IsBlock
<1>2. Contents(a) = [j \in 1 .. n |-> g[j - 1]]
  BY DEF Contents
<1>3. Holds(a, d)
  OBVIOUS
<1> HIDE DEF n, g
<1>4. \A j \in 1 .. n : j - 1 \in DOMAIN g /\ (j = i + 1 <=> j - 1 = i)
  BY <1>1
<1>5. s = [j \in 1 .. n |-> d[j - 1]]
  BY <1>2, <1>4
<1> HIDE DEF d, s
<1>6. O!Become(Pointed(a), s)
  BY <1>3, <1>5, HoldsElements DEF n
<1> QED BY <1>6 DEF s

LEMMA FillBecomes ==
  ASSUME Inv, NEW a \in Addresses, Live(a), NEW e, Holds(a, [k \in DOMAIN heap[a].data |-> e])
  PROVE  O!Become(Pointed(a), [j \in DOMAIN Contents(a) |-> e])
<1> DEFINE n == heap[a].count
           g == heap[a].data
           d == [k \in DOMAIN g |-> e]
           s == [j \in DOMAIN Contents(a) |-> e]
<1>1. n \in Nat /\ DOMAIN g = 0 .. n - 1
  BY DEF Inv, TypeOK, IsBlock
<1>2. Contents(a) = [j \in 1 .. n |-> g[j - 1]]
  BY DEF Contents
<1>3. Holds(a, d)
  OBVIOUS
<1> HIDE DEF n, g
<1>4. \A j \in 1 .. n : j - 1 \in DOMAIN g
  BY <1>1
<1>5. s = [j \in 1 .. n |-> d[j - 1]]
  BY <1>2, <1>4
<1> HIDE DEF d, s
<1>6. O!Become(Pointed(a), s)
  BY <1>3, <1>5, HoldsElements DEF n
<1> QED BY <1>6 DEF s

LEMMA WriteCall ==
  ASSUME Inv, NEW h \in Variables, NEW i \in Counts, NEW e \in Values, fault' = "none", Write(h, i, e)
  PROVE  O!Become(Pointed(raw[h]), [Elements(h) EXCEPT ![i + 1] = e])
<1>1. Live(raw[h]) /\ raw[h] \in Addresses /\ i \in Nat
        /\ Holds(raw[h], [heap[raw[h]].data EXCEPT ![i] = e])
  <2>1. i \in Nat
    BY SizeAssumption DEF Counts
  <2>2. raw[h] # Stale
    BY NotMisused DEF Write
  <2> QED BY <2>1, <2>2 DEF Write, Live
<1>2. Elements(h) = Contents(raw[h])
  BY <1>1 DEF Elements
<1> QED BY <1>1, <1>2, WriteBecomes

LEMMA FillCall ==
  ASSUME Inv, NEW h \in Variables, NEW e \in Values, fault' = "none", Fill(h, e)
  PROVE  O!Become(Pointed(raw[h]), [j \in DOMAIN Elements(h) |-> e])
<1>1. Live(raw[h]) /\ raw[h] \in Addresses
        /\ Holds(raw[h], [j \in DOMAIN heap[raw[h]].data |-> e])
  BY NotMisused DEF Fill, Live
<1>2. Elements(h) = Contents(raw[h])
  BY <1>1 DEF Elements
<1> QED BY <1>1, <1>2, FillBecomes

LEMMA WriteViewCall ==
  ASSUME Inv, NEW v \in Views, NEW i \in Counts, NEW e \in Values, WriteView(v, i, e)
  PROVE  O!Become(Pointed(views[v].at), [Contents(views[v].at) EXCEPT ![views[v].first + i + 1] = e])
<1> DEFINE a == views[v].at
           k == views[v].first + i
<1>1. i \in Nat /\ i < views[v].length /\ Holds(a, [heap[a].data EXCEPT ![k] = e])
  BY SizeAssumption DEF WriteView, Counts
<1>2. views[v] # NoView
  BY <1>1 DEF NoView
<1>3. Live(a) /\ a \in Addresses /\ k \in Nat
  <2>1. Live(a)
    BY <1>2 DEF Inv, ViewsAreInside
  <2>2. views[v].first \in Nat
    BY DEF Inv, TypeOK
  <2> QED BY <1>1, <2>1, <2>2 DEF Live
<1>4. k + 1 = views[v].first + i + 1
  BY <1>1 DEF Inv, TypeOK
<1> HIDE DEF a, k
<1>5. O!Become(Pointed(a), [Contents(a) EXCEPT ![k + 1] = e])
  BY <1>1, <1>3, WriteBecomes
<1> QED BY <1>4, <1>5 DEF a, k

\* The block a, and with it what points there, exchanges bytes with b.
LEMMA SwappedElements ==
  ASSUME Inv, NEW a \in Addresses, NEW b \in Addresses, heap[a].count = heap[b].count,
         NEW d \in Swaps(heap[a].data, heap[b].data, heap[a].count),
         heap'[a] = [heap[a] EXCEPT !.data = d], NEW s, s = [j \in 1 .. heap'[a].count |-> heap'[a].data[j - 1]]
  PROVE  Exchanges(Contents(a), Contents(b), s)
<1> DEFINE n == heap[a].count
           f == heap[a].data
           g == heap[b].data
<1>1. n \in Nat /\ DOMAIN f = 0 .. n - 1 /\ DOMAIN g = 0 .. n - 1
  BY DEF Inv, TypeOK, IsBlock
<1>2. heap'[a].count = n /\ heap'[a].data = d
  BY DEF Inv, TypeOK, IsBlock
<1>3. /\ Contents(a) = [j \in 1 .. n |-> f[j - 1]] /\ Contents(b) = [j \in 1 .. n |-> g[j - 1]]
      /\ s = [j \in 1 .. n |-> d[j - 1]]
  BY <1>2 DEF Contents
<1>4. \A j \in DOMAIN f : d[j] \in IF (j + 1) * TypeSize <= n THEN {g[j]}
                                   ELSE IF j * TypeSize < n THEN {f[j], g[j], None} ELSE {f[j]}
  BY DEF Swaps
<1> HIDE DEF n, f, g
<1>5. ASSUME NEW j \in 1 .. n
      PROVE  IF j * TypeSize <= n THEN d[j - 1] = g[j - 1]
             ELSE (j - 1) * TypeSize < n \/ d[j - 1] = f[j - 1]
  <2> DEFINE i == j - 1
  <2>1. i \in DOMAIN f /\ i + 1 = j
    BY <1>1
  <2> HIDE DEF i
  <2>2. d[i] \in IF j * TypeSize <= n THEN {g[i]}
                 ELSE IF i * TypeSize < n THEN {f[i], g[i], None} ELSE {f[i]}
    BY <1>4, <2>1
  <2>3. IF j * TypeSize <= n THEN d[i] = g[i] ELSE i * TypeSize < n \/ d[i] = f[i]
    BY <2>2
  <2> QED BY <2>3 DEF i
<1>6. Len(Contents(a)) = n /\ Len(Contents(b)) = n /\ Len(s) = n /\ DOMAIN Contents(a) = 1 .. n
  <2>1. DOMAIN Contents(a) = 1 .. n /\ DOMAIN Contents(b) = 1 .. n /\ DOMAIN s = 1 .. n
    BY <1>3
  <2>2. ASSUME NEW r, DOMAIN r = 1 .. n, r = [k \in DOMAIN r |-> r[k]] PROVE Len(r) = n
    BY <1>1, <2>2
  <2>3. /\ Contents(a) = [k \in DOMAIN Contents(a) |-> Contents(a)[k]]
        /\ Contents(b) = [k \in DOMAIN Contents(b) |-> Contents(b)[k]]
        /\ s = [k \in DOMAIN s |-> s[k]]
    BY <1>3
  <2> QED BY <2>1, <2>2, <2>3
<1> QED BY <1>3, <1>5, <1>6 DEF Exchanges

\* Exchanged with itself, or with a block of another size, a block stays.
LEMMA KeptElements ==
  ASSUME NEW s, NEW t, Len(s) # Len(t) \/ s = t
  PROVE  Exchanges(s, t, s)
  BY DEF Exchanges

LEMMA SwapCall ==
  ASSUME Inv, NEW h \in Variables, NEW k \in Variables, Swap(h, k), fault' = "none"
  PROVE  /\ O!Within(Pointed(raw[h]) \cup Pointed(raw[k]))
         /\ \A x \in Pointed(raw[h]) : Exchanges(Elements(h), Elements(k), Elements(x)')
         /\ \A x \in Pointed(raw[k]) : Exchanges(Elements(k), Elements(h), Elements(x)')
<1> DEFINE a == raw[h]
           b == raw[k]
<1>1. /\ raw' = raw /\ Live(a) /\ Live(b) /\ a \in Addresses /\ b \in Addresses
      /\ \/ heap' = heap /\ (a = b \/ heap[a].count # heap[b].count)
         \/ /\ a # b /\ heap[a].count = heap[b].count
            /\ \E d \in Swaps(heap[a].data, heap[b].data, heap[a].count),
                  e \in Swaps(heap[b].data, heap[a].data, heap[a].count) :
                 heap' = [heap EXCEPT ![a].data = d, ![b].data = e]
  BY NotMisused DEF Swap, Live
<1>2. DOMAIN heap = Addresses /\ IsBlock(heap[a]) /\ IsBlock(heap[b])
  BY <1>1 DEF Inv, TypeOK
<1>3. Elements(h) = Contents(a) /\ Elements(k) = Contents(b)
  BY <1>1 DEF Elements
<1>4. /\ \A x \in Pointed(a) : raw[x] = a
      /\ \A x \in Pointed(b) : raw[x] = b
      /\ \A y \in Owners \ (Pointed(a) \cup Pointed(b)) : raw[y] \notin {a, b}
  BY DEF Pointed
<1> HIDE DEF a, b
<1>5. CASE heap' = heap /\ (a = b \/ heap[a].count # heap[b].count)
  <2>1. \A y : raw'[y] = raw[y] => Elements(y)' = Elements(y)
    BY <1>5, ElementsStay
  <2>2. \A y \in Owners : Elements(y)' = Elements(y)
    BY <1>1, <2>1
  <2>3. Len(Contents(a)) = heap[a].count /\ Len(Contents(b)) = heap[b].count
    BY <1>2 DEF Contents, IsBlock
  <2>4. Exchanges(Contents(a), Contents(b), Contents(a)) /\ Exchanges(Contents(b), Contents(a), Contents(b))
    BY <1>5, <2>3, KeptElements
  <2>5. /\ \A x \in Pointed(a) : Elements(x)' = Contents(a)
        /\ \A x \in Pointed(b) : Elements(x)' = Contents(b)
    BY <1>1, <1>4, <1>5 DEF Elements, Contents, Live
  <2>6. O!Within(Pointed(a) \cup Pointed(b))
    BY <2>2, WithinByElements
  <2> QED BY <1>3, <2>4, <2>5, <2>6 DEF a, b
<1>6. CASE a # b /\ heap[a].count = heap[b].count
  <2>1. PICK d \in Swaps(heap[a].data, heap[b].data, heap[a].count),
             e \in Swaps(heap[b].data, heap[a].data, heap[b].count) :
          heap' = [heap EXCEPT ![a].data = d, ![b].data = e]
    BY <1>1, <1>6
  <2>2. /\ heap'[a] = [heap[a] EXCEPT !.data = d] /\ heap'[b] = [heap[b] EXCEPT !.data = e]
        /\ \A c \in Addresses \ {a, b} : heap'[c] = heap[c]
    BY <1>1, <1>2, <1>6, <2>1
  <2> DEFINE s == [j \in 1 .. heap'[a].count |-> heap'[a].data[j - 1]]
             u == [j \in 1 .. heap'[b].count |-> heap'[b].data[j - 1]]
  <2>4. heap'[a].count = heap[a].count /\ heap'[b].count = heap[b].count
    BY <1>2, <2>2 DEF IsBlock
  <2>5. /\ \A x \in Pointed(a) : Elements(x)' = s
        /\ \A x \in Pointed(b) : Elements(x)' = u
    BY <1>1, <1>4, <2>4 DEF Elements, Contents, Live
  <2>8. /\ s = [j \in 1 .. heap'[a].count |-> heap'[a].data[j - 1]]
        /\ u = [j \in 1 .. heap'[b].count |-> heap'[b].data[j - 1]]
    OBVIOUS
  <2> HIDE DEF s, u
  <2>3. Exchanges(Contents(a), Contents(b), s) /\ Exchanges(Contents(b), Contents(a), u)
    <3>1. Exchanges(Contents(a), Contents(b), s)
      BY <1>1, <1>6, <2>2, <2>8, SwappedElements
    <3>2. Exchanges(Contents(b), Contents(a), u)
      BY <1>1, <1>6, <2>2, <2>8, SwappedElements
    <3> QED BY <3>1, <3>2
  <2>6. \A y \in Owners \ (Pointed(a) \cup Pointed(b)) : Elements(y)' = Elements(y)
    BY <1>1, <1>4, <2>2, ElementsStay
  <2>7. O!Within(Pointed(a) \cup Pointed(b))
    BY <2>6, WithinByElements
  <2> QED BY <1>3, <2>3, <2>5, <2>7 DEF a, b
<1> QED BY <1>1, <1>5, <1>6

\* Each call does what Objects says of it, with blocks of any size, of elements
\* of any size, shared by any number of plain pointers and views: the object it
\* is made on has the elements it gives, what is written or freed elsewhere is so
\* for the object that owns it, and every other object keeps what it holds.
THEOREM CallsKeepToTheirObjects == Spec => CallsMatch
<1> DEFINE OfObjects ==
             \A x \in Owners :
               /\ Default(x) => O!Within({})
               /\ Destroy(x) \/ (\E p \in Plain : Release(x, p)) => O!Assign(x, <<>>)
               /\ \A h \in Variables :
                    /\ CopyConstruct(x, h) => O!Assign(x, Elements(h))
                    /\ MoveConstruct(x, h) \/ MoveAssign(x, h) =>
                         IF h \notin Owners THEN O!Assign(x, Elements(h))
                         ELSE IF x = h THEN O!Assign(x, <<>>) ELSE O!Move(x, h)
           OfPlain ==
             \A p \in Plain :
               /\ \A n \in Counts : Malloc(p, n) \/ Alloca(p, n) => O!Within({})
               /\ \A h \in Variables :
                    /\ Borrow(p, h) => O!Within({})
                    /\ Clone(p, h) => O!Within({}) /\ Elements(p)' = Elements(h)
           OfPointers ==
             \A h \in Variables :
               /\ Free(h) \/ FreeAndNull(h) => O!Become(Pointed(raw[h]), <<>>)
               /\ \A n \in Counts : Realloc(h, n) =>
                    IF h \in Owners THEN O!Assign(h, Cleaned(Elements(h), n)) ELSE O!Within({})
               /\ \A e \in Values :
                    /\ Fill(h, e) => O!Become(Pointed(raw[h]), [j \in DOMAIN Elements(h) |-> e])
                    /\ \A i \in Counts :
                         Write(h, i, e) => O!Become(Pointed(raw[h]), [Elements(h) EXCEPT ![i + 1] = e])
               /\ \A k \in Variables : Swap(h, k) =>
                    /\ O!Within(Pointed(raw[h]) \cup Pointed(raw[k]))
                    /\ \A x \in Pointed(raw[h]) : Exchanges(Elements(h), Elements(k), Elements(x)')
                    /\ \A x \in Pointed(raw[k]) : Exchanges(Elements(k), Elements(h), Elements(x)')
           OfViews ==
             \A v \in Views :
               /\ \A i \in Counts, e \in Values : WriteView(v, i, e) =>
                    O!Become(Pointed(views[v].at),
                             [Contents(views[v].at) EXCEPT ![views[v].first + i + 1] = e])
               /\ \A start, length \in Counts :
                    /\ \A h \in Variables : View(v, h, start, length) => O!Within({})
                    /\ \A w \in Views : Subview(v, w, start, length) => O!Within({})
           OfReturn ==
             Return => O!Within({})
<1>1. Inv /\ fault' = "none" => OfObjects
  <2> SUFFICES ASSUME Inv, fault' = "none", NEW x \in Owners
               PROVE  OfObjects!(x)
    OBVIOUS
  <2>1. Default(x) => O!Within({})
    BY DefaultCall
  <2>2. Destroy(x) \/ (\E p \in Plain : Release(x, p)) => O!Assign(x, <<>>)
    BY DestroyCall, ReleaseCall
  <2>3. ASSUME NEW h \in Variables
        PROVE  /\ CopyConstruct(x, h) => O!Assign(x, Elements(h))
               /\ MoveConstruct(x, h) \/ MoveAssign(x, h) =>
                    IF h \notin Owners THEN O!Assign(x, Elements(h))
                    ELSE IF x = h THEN O!Assign(x, <<>>) ELSE O!Move(x, h)
    <3>1. CopyConstruct(x, h) => O!Assign(x, Elements(h))
      BY CopyConstructCall
    <3>2. MoveConstruct(x, h) => x # h
      BY DEF MoveConstruct, Given, Usable
    <3>3. MoveConstruct(x, h) \/ MoveAssign(x, h) =>
            IF h \notin Owners THEN O!Assign(x, Elements(h))
            ELSE IF x = h THEN O!Assign(x, <<>>) ELSE O!Move(x, h)
      BY <3>2, MoveConstructCall, MoveAssignCall, MoveToSelf
    <3> QED BY <3>1, <3>3
  <2> QED BY <2>1, <2>2, <2>3
<1>2. Inv /\ fault' = "none" => OfPlain
  BY AllocateCalls, BorrowCall, CloneCall
<1>3. Inv /\ fault' = "none" => OfPointers
  <2> SUFFICES ASSUME Inv, fault' = "none", NEW h \in Variables
               PROVE  OfPointers!(h)
    OBVIOUS
  <2>1. Free(h) \/ FreeAndNull(h) => O!Become(Pointed(raw[h]), <<>>)
    BY FreeCalls
  <2>2. \A n \in Counts : Realloc(h, n) =>
          IF h \in Owners THEN O!Assign(h, Cleaned(Elements(h), n)) ELSE O!Within({})
    BY ReallocCall
  <2>3. \A e \in Values :
          /\ Fill(h, e) => O!Become(Pointed(raw[h]), [j \in DOMAIN Elements(h) |-> e])
          /\ \A i \in Counts :
               Write(h, i, e) => O!Become(Pointed(raw[h]), [Elements(h) EXCEPT ![i + 1] = e])
    BY FillCall, WriteCall
  <2>4. \A k \in Variables : Swap(h, k) =>
          /\ O!Within(Pointed(raw[h]) \cup Pointed(raw[k]))
          /\ \A x \in Pointed(raw[h]) : Exchanges(Elements(h), Elements(k), Elements(x)')
          /\ \A x \in Pointed(raw[k]) : Exchanges(Elements(k), Elements(h), Elements(x)')
    BY SwapCall
  <2> QED BY <2>1, <2>2, <2>3, <2>4
<1>4. Inv /\ fault' = "none" => OfViews
  BY WriteViewCall, ViewCalls
<1>5. Inv => OfReturn
  BY ReturnCall
<1>6. Inv /\ [Next]_vars =>
        [fault' = "none" => OfObjects /\ OfPlain /\ OfPointers /\ OfViews /\ OfReturn]_vars
  BY <1>1, <1>2, <1>3, <1>4, <1>5
<1> QED BY <1>6, InvInit, InvStep, PTL DEF Spec, CallsMatch
=============================================================================
