------------------------------- MODULE Pointers -------------------------------
(***************************************************************************)
(* The fat pointers of include/fp/pointer.h, in the C++ build, and who     *)
(* owns what they point to: include/fp/pointer.hpp.                        *)
(*                                                                         *)
(* Objects are the variables of class fp::raii::pointer, which free what   *)
(* they point to; plain pointers are those of class fp::pointer (and of    *)
(* C), which do not; views look at a range of a block.  A call is one      *)
(* step.  A pointer is Stale when its block was freed, or moved by realloc *)
(* (whether or not the block came to lie at another address).              *)
(*                                                                         *)
(* What the source asserts is a guard.  So is what it leaves to callers:   *)
(* they do not use a plain pointer or a view that is stale, do not free,   *)
(* reallocate or give away through a plain pointer what an object owns,    *)
(* and do not overwrite the last pointer to a block.                       *)
(***************************************************************************)
EXTENDS Integers, Sequences

CONSTANTS
  Owners, Plain, Views,   \* the variables: objects, plain pointers, views
  Addresses,              \* of blocks
  Values, Zero, None,     \* elements; that of zero bytes; an uninitialised one
  Dead, Null, Stale,      \* no object (yet, or any more); pointers to no block
  TypeSize,               \* sizeof(T)
  HeaderData,             \* the bytes of data[] in the C++ header
  MaxCount                \* bound: elements of a block

ASSUME OwnersAssumption == Owners \cap Plain = {}
ASSUME AddressAssumption == {Dead, Null, Stale} \cap Addresses = {}
ASSUME NoneAssumption == Zero \in Values /\ None \notin Values
ASSUME NamesAssumption == Null # Stale /\ Dead # Null /\ Dead # Stale
ASSUME SizeAssumption ==   \* types of 1, 2, 4 and 8 bytes: the header holds whole elements
  TypeSize \in Nat \ {0} /\ HeaderData \in Nat /\ HeaderData % TypeSize = 0 /\ MaxCount \in Nat

VARIABLES
  heap,    \* what is at each address: a block, or one of no elements
  raw,     \* what each variable points to
  views,   \* the address, first element and length of each view
  fault    \* memory misused by a call: nothing follows

vars == <<heap, raw, views, fault>>

-----------------------------------------------------------------------------
Variables == Owners \cup Plain

Block(n, d, onHeap) == [count |-> n, data |-> [j \in 0 .. n - 1 |-> d[j]], onHeap |-> onHeap]
Unused  == Block(0, <<>>, TRUE)
Live(a) == a \in Addresses /\ heap[a].count > 0
NoView  == [at |-> Stale, first |-> 0, length |-> 0]

\* What a pointer has for others to copy.
Contents(p) == [j \in 1 .. heap[p].count |-> heap[p].data[j - 1]]

\* The header that fp_realloc and fp_alloca assign holds HeaderData bytes of
\* the block too (in C it holds none): these become zero.
Cleared(n, d) == [j \in 0 .. n - 1 |-> IF j * TypeSize < HeaderData THEN Zero ELSE d[j]]

\* A block of n elements, of which the first are those of b.
Reallocated(b, n) ==
  Block(n, Cleared(n, [j \in 0 .. n - 1 |-> IF j < b.count THEN b.data[j] ELSE None]), TRUE)

\* memswap of the first n bytes of two blocks, where an element of which some
\* bytes are swapped becomes either, or another (None).
Swaps(d, e, n) ==
  {f \in [DOMAIN d -> Values \cup {None}] :
     \A j \in DOMAIN d : f[j] \in IF (j + 1) * TypeSize <= n THEN {e[j]}
                                  ELSE IF j * TypeSize < n THEN {d[j], e[j], None} ELSE {d[j]}}

-----------------------------------------------------------------------------
Init ==
  /\ heap  = [a \in Addresses |-> Unused]
  /\ raw   = [h \in Variables |-> IF h \in Owners THEN Dead ELSE Null]
  /\ views = [v \in Views |-> NoView]
  /\ fault = "none"

Ready     == fault = "none"
Owned(p)  == p \in Addresses /\ \E x \in Owners : raw[x] = p
Usable(h) == raw[h] # Dead /\ (h \in Plain => raw[h] # Stale)

\* A plain pointer may be assigned when it is not the last to a block, and a
\* variable may give away or free what it points to when it owns it, or
\* nothing does.
Assignable(p) == Live(raw[p]) /\ heap[raw[p]].onHeap =>
                   \E h \in Variables \ {p} : raw[h] = raw[p]
Given(h)      == Usable(h) /\ (h \in Plain =>
                   ~Owned(raw[h]) /\ (Live(raw[h]) => heap[raw[h]].onHeap))

\* The block at p is gone: who still points to it is stale.
Gone(p)  == [h \in Variables |-> IF p \in Addresses /\ raw[h] = p THEN Stale ELSE raw[h]]
Unseen(p) == [v \in Views |-> IF p \in Addresses /\ views[v].at = p THEN NoView ELSE views[v]]
Without(p) == IF p \in Addresses THEN [heap EXCEPT ![p] = Unused] ELSE heap

Misuse(f) == fault' = f /\ UNCHANGED <<heap, raw, views>>

\* fp_free: freeing a null pointer does nothing.
Frees(p, newRaw, newHeap) ==
  IF p = Stale THEN Misuse("double free")
  ELSE heap' = newHeap /\ raw' = newRaw /\ views' = Unseen(p) /\ fault' = fault

\* Mutant of Destroy: the memory is left.
DestroyOnly(x) == Ready /\ raw[x] # Dead /\ Frees(raw[x], [raw EXCEPT ![x] = Dead], heap)

Free(h)        == Ready /\ Given(h) /\ Frees(raw[h], Gone(raw[h]), Without(raw[h]))
FreeAndNull(h) == Ready /\ Given(h) /\ Frees(raw[h], [Gone(raw[h]) EXCEPT ![h] = Null], Without(raw[h]))
Destroy(x)     == Ready /\ raw[x] # Dead /\ Frees(raw[x], [Gone(raw[x]) EXCEPT ![x] = Dead], Without(raw[x]))

\* fp_malloc and fp_alloca; of no elements, fp_malloc writes the header of a
\* null pointer, and is_fp does not recognise what fp_alloca gives.
Allocates(p, b) ==
  /\ Ready /\ Assignable(p)
  /\ \E a \in Addresses :
       ~Live(a) /\ heap' = [heap EXCEPT ![a] = b] /\ raw' = [raw EXCEPT ![p] = a]
  /\ UNCHANGED <<views, fault>>
Nones(n) == [j \in 0 .. n - 1 |-> None]
Malloc(p, n) ==
  IF n = 0 THEN Ready /\ Assignable(p) /\ Misuse("null write")
  ELSE Allocates(p, Block(n, Nones(n), TRUE))
Alloca(p, n) == n > 0 /\ Allocates(p, Block(n, Cleared(n, Nones(n)), FALSE))

\* The function that called fp_alloca returns.
Return ==
  LET dead == {a \in Addresses : Live(a) /\ ~heap[a].onHeap}
  IN  /\ Ready /\ dead # {} /\ fault' = fault
      /\ heap'  = [a \in Addresses |-> IF a \in dead THEN Unused ELSE heap[a]]
      /\ raw'   = [h \in Variables |-> IF raw[h] \in dead THEN Stale ELSE raw[h]]
      /\ views' = [v \in Views |-> IF views[v].at \in dead THEN NoView ELSE views[v]]

\* Mutant of Realloc: the size of the block stays what it was.
ReallocUnsized(h, n) ==
  LET p == raw[h]
  IN  /\ Ready /\ Given(h) /\ p \in Addresses /\ n > 0
      /\ heap' = [heap EXCEPT ![p].data = Reallocated(heap[p], n).data]
      /\ raw' = [Gone(p) EXCEPT ![h] = p] /\ views' = Unseen(p) /\ fault' = fault

\* Mutant of Realloc: the new address is not kept.
ReallocLost(h, n) ==
  LET p == raw[h]
  IN  /\ Ready /\ Given(h) /\ p \in Addresses /\ n > 0
      /\ heap' = [heap EXCEPT ![p] = Reallocated(heap[p], n)]
      /\ raw' = Gone(p) /\ views' = Unseen(p) /\ fault' = fault

\* fp_realloc: to no elements it frees, and writes the header of a null pointer
Realloc(h, n) ==
  LET p == raw[h]
  IN  /\ Ready /\ Given(h)
      /\ IF p = Stale THEN Misuse("use after free")
         ELSE IF n = 0 THEN Misuse("null write")
         ELSE \E a \in Addresses :
                /\ IF p = Null THEN ~Live(a) ELSE a = p
                /\ heap' = [heap EXCEPT ![a] = Reallocated(heap[a], n)]
                /\ raw' = [Gone(p) EXCEPT ![h] = a] /\ views' = Unseen(p) /\ fault' = fault

\* Mutant of Copied: as many bytes are copied as there are elements.
CopiedBytes(b) ==
  Block(b.count, [j \in 0 .. b.count - 1 |-> IF j * TypeSize < b.count THEN b.data[j] ELSE None], TRUE)

Copied(b) == Block(b.count, b.data, TRUE)

\* fp_clone of h, which is not null, kept in x
Clones(x, h) ==
  IF raw[h] = Stale THEN Misuse("use after free")
  ELSE /\ raw[h] \in Addresses
       /\ \E a \in Addresses :
            /\ ~Live(a) /\ heap' = [heap EXCEPT ![a] = Copied(heap[raw[h]])]
            /\ raw' = [raw EXCEPT ![x] = a]
       /\ UNCHANGED <<views, fault>>

\* clone(), and the constructors and assignments of the objects: that of a copy
\* cannot be used, for it does not compile
Clone(p, h)         == Ready /\ Assignable(p) /\ Usable(h) /\ Clones(p, h)
Default(x)          == Ready /\ raw[x] = Dead /\ raw' = [raw EXCEPT ![x] = Null]
                         /\ UNCHANGED <<heap, views, fault>>
CopyConstruct(x, h) == Ready /\ raw[x] = Dead /\ Usable(h) /\ Clones(x, h)

\* The constructor of fp::pointer reads the header, to assert that it is one.
\* (That from a C pointer, which stays, is this and then Borrow.)
MoveConstruct(x, h) ==
  /\ Ready /\ raw[x] = Dead /\ Given(h)
  /\ IF raw[h] = Stale THEN Misuse("use after free")
     ELSE raw' = [raw EXCEPT ![x] = raw[h], ![h] = Null] /\ UNCHANGED <<heap, views, fault>>

\* Mutant of MoveAssign: the other object keeps its pointer.
MoveAssignShared(x, h) ==
  /\ Ready /\ raw[x] # Dead /\ Given(h)
  /\ Frees(raw[x], [Gone(raw[x]) EXCEPT ![x] = raw[h]], Without(raw[x]))

\* Assigned to itself, an object keeps the pointer to what it just freed.
MoveAssign(x, h) ==
  /\ Ready /\ raw[x] # Dead /\ Given(h)
  /\ Frees(raw[x], IF x = h THEN Gone(raw[x]) ELSE [Gone(raw[x]) EXCEPT ![x] = raw[h], ![h] = Null],
           Without(raw[x]))

\* release() into a plain pointer, and a plain pointer copied from any pointer
Release(x, p) ==
  /\ Ready /\ raw[x] \in Addresses /\ (Assignable(p) \/ raw[p] = raw[x])
  /\ raw' = [raw EXCEPT ![p] = raw[x], ![x] = Null] /\ UNCHANGED <<heap, views, fault>>
Borrow(p, h) ==
  /\ Ready /\ Assignable(p) /\ raw[h] \in Addresses
  /\ raw' = [raw EXCEPT ![p] = raw[h]] /\ UNCHANGED <<heap, views, fault>>

\* Elements are written through any pointer, and through views.
Holds(a, d) == heap' = [heap EXCEPT ![a].data = d] /\ UNCHANGED <<raw, views, fault>>
Write(h, i, e) ==
  /\ Ready /\ Usable(h)
  /\ IF raw[h] = Stale THEN Misuse("use after free")
     ELSE Live(raw[h]) /\ i < heap[raw[h]].count /\ Holds(raw[h], [heap[raw[h]].data EXCEPT ![i] = e])

\* fill(), which does nothing to a null pointer
Fill(h, e) ==
  /\ Ready /\ Usable(h)
  /\ IF raw[h] = Stale THEN Misuse("use after free")
     ELSE Live(raw[h]) /\ Holds(raw[h], [j \in DOMAIN heap[raw[h]].data |-> e])

\* fp_swap: of blocks of as many elements, it swaps as many bytes
Swap(h, k) ==
  LET a == heap[raw[h]]
      b == heap[raw[k]]
  IN  /\ Ready /\ Usable(h) /\ Usable(k)
      /\ IF Stale \in {raw[h], raw[k]} THEN Misuse("use after free")
         ELSE /\ Live(raw[h]) /\ Live(raw[k]) /\ UNCHANGED <<raw, views, fault>>
              /\ IF raw[h] = raw[k] \/ a.count # b.count THEN UNCHANGED heap
                 ELSE \E d \in Swaps(a.data, b.data, a.count), e \in Swaps(b.data, a.data, a.count) :
                        heap' = [heap EXCEPT ![raw[h]].data = d, ![raw[k]].data = e]

\* fp_view_make, fp_view_subview and what is written through a view
Looks(v, at, first, length) ==
  views' = [views EXCEPT ![v] = [at |-> at, first |-> first, length |-> length]]
    /\ UNCHANGED <<heap, raw, fault>>
View(v, h, start, length) ==
  /\ Ready /\ Usable(h) /\ Live(raw[h]) /\ start + length <= heap[raw[h]].count
  /\ Looks(v, raw[h], start, length)

\* Mutant of Subview: the range is compared with its own length.
SubviewShort(v, w, start, length) ==
  /\ Ready /\ views[w] # NoView /\ length <= views[w].length
  /\ Looks(v, views[w].at, views[w].first + start, length)

Subview(v, w, start, length) ==
  /\ Ready /\ views[w] # NoView /\ start + length <= views[w].length
  /\ Looks(v, views[w].at, views[w].first + start, length)
WriteView(v, i, e) ==
  /\ Ready /\ i < views[v].length
  /\ Holds(views[v].at, [heap[views[v].at].data EXCEPT ![views[v].first + i] = e])

-----------------------------------------------------------------------------
Counts == 0 .. MaxCount

Next ==
  \/ \E x \in Owners :
       \/ Default(x) \/ Destroy(x) \/ \E p \in Plain : Release(x, p)
       \/ \E h \in Variables : CopyConstruct(x, h) \/ MoveConstruct(x, h) \/ MoveAssign(x, h)
  \/ \E p \in Plain :
       \/ \E n \in Counts : Malloc(p, n) \/ Alloca(p, n)
       \/ \E h \in Variables : Clone(p, h) \/ Borrow(p, h)
  \/ \E h \in Variables :
       \/ Free(h) \/ FreeAndNull(h) \/ \E n \in Counts : Realloc(h, n)
       \/ \E e \in Values : Fill(h, e) \/ \E i \in Counts : Write(h, i, e)
       \/ \E k \in Variables : Swap(h, k)
  \/ \E v \in Views :
       \/ \E i \in Counts, e \in Values : WriteView(v, i, e)
       \/ \E start, length \in Counts :
            \/ \E h \in Variables : View(v, h, start, length)
            \/ \E w \in Views : Subview(v, w, start, length)
  \/ Return

Spec == Init /\ [][Next]_vars

-----------------------------------------------------------------------------
(* What must be true of it. *)

IsBlock(b) ==
  /\ b = [count |-> b.count, data |-> b.data, onHeap |-> b.onHeap]
  /\ b.count \in Nat /\ b.onHeap \in BOOLEAN
  /\ b.data \in [0 .. b.count - 1 -> Values \cup {None}]

\* The type invariant: the size in the header of a block is that of its
\* elements, which are defined values or nobody wrote.
TypeOK ==
  /\ DOMAIN heap = Addresses /\ \A a \in Addresses : IsBlock(heap[a])
  /\ raw \in [Variables -> Addresses \cup {Dead, Null, Stale}]
  /\ \A p \in Plain : raw[p] # Dead
  /\ views \in [Views -> [at : Addresses \cup {Stale}, first : Nat, length : Nat]]
  /\ fault \in {"none", "double free", "use after free", "null write"}

\* A block on the heap has at most one object that owns it, and none is
\* leaked; no pointer that is not stale, and no view, outlives its block; and a
\* view stays within it. Objects own no memory of the stack.
OwnersAreExact ==
  /\ \A x, y \in Owners : Owned(raw[x]) /\ raw[x] = raw[y] => x = y
  /\ \A a \in Addresses : Live(a) /\ heap[a].onHeap => \E h \in Variables : raw[h] = a
  /\ \A h \in Variables : raw[h] \in Addresses => Live(raw[h])
  /\ \A x \in Owners : raw[x] \in Addresses => heap[raw[x]].onHeap
ViewsAreInside ==
  \A v \in Views : views[v] # NoView =>
    Live(views[v].at) /\ views[v].first + views[v].length <= heap[views[v].at].count

\* Only to allocate no elements, and to use an object that is stale, misuse
\* memory; and an object becomes stale only when free() is called on it or it
\* is moved into itself or from one that is.
MisuseIsNarrow ==
  [][/\ fault' # fault => fault' = "null write" \/ \E x \in Owners : raw[x] = Stale
     /\ \A x \in Owners : raw[x] # Stale /\ raw'[x] = Stale =>
          Free(x) \/ \E y \in Owners : MoveAssign(x, y) /\ (x = y \/ raw[y] = Stale)]_vars

Elements(h) == IF Live(raw[h]) THEN Contents(raw[h]) ELSE <<>>
O == INSTANCE Objects WITH
       Nothing <- <<>>, held <- [x \in Owners |-> Elements(x)]

Pointed(p) == {x \in Owners : raw[x] = p}
Cleaned(s, n) == [j \in 1 .. n |->
  IF (j - 1) * TypeSize < HeaderData THEN Zero ELSE IF j <= Len(s) THEN s[j] ELSE None]

\* Of the elements s, with those of t: where they are as many, as many bytes are
\* exchanged, and an element that those bytes divide is anything.
Exchanges(s, t, new) ==
  /\ Len(new) = Len(s)
  /\ \A j \in DOMAIN s :
       IF Len(s) = Len(t) /\ j * TypeSize <= Len(s) THEN new[j] = t[j]
       ELSE (Len(s) = Len(t) /\ (j - 1) * TypeSize < Len(s)) \/ new[j] = s[j]

\* What each call does to what the objects hold: a copy has the elements of its
\* source, a moved object those its source had, realloc keeps them but for the
\* first, which it clears, a swap exchanges as many bytes as there are elements,
\* what is written or freed through a pointer or a view is so for the object
\* that owns it, and every other object keeps what it holds.
CallsMatch ==
  [][fault' = "none" =>
       /\ \A x \in Owners :
            /\ Default(x) => O!Within({})
            /\ Destroy(x) \/ (\E p \in Plain : Release(x, p)) => O!Assign(x, <<>>)
            /\ \A h \in Variables :
                 /\ CopyConstruct(x, h) => O!Assign(x, Elements(h))
                 /\ MoveConstruct(x, h) \/ MoveAssign(x, h) =>
                      IF h \notin Owners THEN O!Assign(x, Elements(h))
                      ELSE IF x = h THEN O!Assign(x, <<>>) ELSE O!Move(x, h)
       /\ \A p \in Plain :
            /\ \A n \in Counts : Malloc(p, n) \/ Alloca(p, n) => O!Within({})
            /\ \A h \in Variables :
                 /\ Borrow(p, h) => O!Within({})
                 /\ Clone(p, h) => O!Within({}) /\ Elements(p)' = Elements(h)
       /\ \A h \in Variables :
            /\ Free(h) \/ FreeAndNull(h) => O!Become(Pointed(raw[h]), <<>>)
            /\ \A n \in Counts : Realloc(h, n) =>
                 IF h \in Owners THEN O!Assign(h, Cleaned(Elements(h), n)) ELSE O!Within({})
            /\ \A e \in Values :
                 /\ Fill(h, e) => O!Become(Pointed(raw[h]), [j \in DOMAIN Elements(h) |-> e])
                 /\ \A i \in Counts :
                      Write(h, i, e) => O!Become(Pointed(raw[h]), [Elements(h) EXCEPT ![i + 1] = e])
            /\ \A k \in Variables : Swap(h, k) =>
                 /\ O!Within(Pointed(raw[h]) \cup Pointed(raw[k]))
                 /\ \A x \in Pointed(raw[h]) : Exchanges(Elements(h), Elements(k), Elements(x)')
                 /\ \A x \in Pointed(raw[k]) : Exchanges(Elements(k), Elements(h), Elements(x)')
       /\ \A v \in Views :
            /\ \A i \in Counts, e \in Values : WriteView(v, i, e) =>
                 O!Become(Pointed(views[v].at),
                          [Contents(views[v].at) EXCEPT ![views[v].first + i + 1] = e])
            /\ \A start, length \in Counts :
                 /\ \A h \in Variables : View(v, h, start, length) => O!Within({})
                 /\ \A w \in Views : Subview(v, w, start, length) => O!Within({})
       /\ Return => O!Within({})]_vars

-----------------------------------------------------------------------------
(* What the repository says of it and the code does not do. *)

\* realloc copies the data, as the note on FP_ALLOCATION_FUNCTION expects.
ReallocKeeps ==
  [][\A h \in Variables, n \in Counts :
       Realloc(h, n) /\ Live(raw[h]) /\ fault' = "none" =>
         \A j \in DOMAIN heap[raw[h]].data :
           j < n /\ heap[raw[h]].data[j] # None => heap'[raw'[h]].data[j] = heap[raw[h]].data[j]]_vars
=============================================================================
