----------------------------- MODULE OwnedStrings -----------------------------
(***************************************************************************)
(* Who owns the characters of strings in C++: fp::raii::string of          *)
(* include/fp/string.hpp, a raii::dynarray of char (dynarray.hpp).         *)
(*                                                                         *)
(* Objects are its variables, which free the block they point to; plain    *)
(* pointers are those of fp::string and of C, which do not.  A block is    *)
(* the text it holds: whether it has spare capacity is left open, so that  *)
(* a call that may reallocate moves the string or leaves it.  A call is    *)
(* one step, the temporary objects of its conversions included.  A pointer *)
(* is Stale when its block was freed.                                      *)
(*                                                                         *)
(* Callers are trusted as they are in Pointers: they do not use a plain    *)
(* pointer that is stale, do not give away or free through one what an     *)
(* object owns, and do not overwrite the last pointer to a block.  No call *)
(* makes a block without capacity but by copying an empty text, and is_fp, *)
(* which the constructor from a pointer asserts, refuses that one.         *)
(***************************************************************************)
EXTENDS Integers, Sequences

CONSTANTS
  Owners, Plain,       \* the variables: objects and plain pointers
  Addresses,           \* of blocks
  Chars,
  Dead, Null, Stale,   \* no object (yet, or any more); pointers to no block
  NoBlock,             \* what is at an address that is not allocated
  MaxLen               \* bound: characters of a string

ASSUME OwnersAssumption == Owners \cap Plain = {}
ASSUME AddressAssumption == {Dead, Null, Stale} \cap Addresses = {}
ASSUME NamesAssumption == Null # Stale /\ Dead # Null /\ Dead # Stale
ASSUME BlockAssumption == MaxLen \in Nat /\ NoBlock \notin Seq(Chars)

VARIABLES
  heap,    \* the text at each address, or NoBlock
  raw,     \* what each variable points to
  fault    \* memory misused by a call, or "abort": nothing follows

vars == <<heap, raw, fault>>

-----------------------------------------------------------------------------
Variables == Owners \cup Plain
Texts     == UNION {[1 .. k -> Chars] : k \in 0 .. MaxLen}

Init ==
  /\ heap = [a \in Addresses |-> NoBlock]
  /\ raw = [h \in Variables |-> IF h \in Owners THEN Dead ELSE Null]
  /\ fault = "none"

Ready     == fault = "none"
Fresh     == {a \in Addresses : heap[a] = NoBlock}
Text(h)   == IF raw[h] \in Addresses THEN heap[raw[h]] ELSE <<>>
Owned(p)  == p \in Addresses /\ \E x \in Owners : raw[x] = p
Object(x) == x \in Owners /\ raw[x] # Dead
Usable(h) == raw[h] # Dead /\ (h \in Plain => raw[h] # Stale)

\* May h be overwritten; may what h points to be given away or freed?
Assignable(h) == raw[h] \in Addresses => \E k \in Variables \ {h} : raw[k] = raw[h]
Given(h)      == Usable(h) /\ (h \in Plain => ~Owned(raw[h]))

\* The heap without the block at p, and the variables when it is gone.
Without(p) == IF p \in Addresses THEN [heap EXCEPT ![p] = NoBlock] ELSE heap
Gone(p)    == [h \in Variables |-> IF p \in Addresses /\ raw[h] = p THEN Stale ELSE raw[h]]

Misuse(f) == fault' = f /\ UNCHANGED <<heap, raw>>

\* fp_string_free of p, which leaves newRaw; of a null pointer it does nothing.
Frees(p, newRaw) ==
  IF p = Stale THEN Misuse("double free")
  ELSE heap' = Without(p) /\ raw' = newRaw /\ fault' = fault

\* Mutant of Takes: the characters are not copied.
TakesBlank(h, s) ==
  \E a \in Fresh : heap' = [heap EXCEPT ![a] = <<>>] /\ raw' = [raw EXCEPT ![h] = a] /\ fault' = fault

\* h gets a block of its own that holds s, and leaves the one it has.
Takes(h, s) ==
  \E a \in Fresh : heap' = [heap EXCEPT ![a] = s] /\ raw' = [raw EXCEPT ![h] = a] /\ fault' = fault

\* The block of x is freed once there is a new one that holds s.
Renews(x, s) ==
  \E a \in Fresh :
    /\ heap' = [Without(raw[x]) EXCEPT ![a] = s]
    /\ raw' = [Gone(raw[x]) EXCEPT ![x] = a]
    /\ fault' = fault

\* fp_string_make_dynamic makes no block for an empty text, nor does concatenate.
Makes(h, s) ==
  IF s = <<>> THEN raw' = [raw EXCEPT ![h] = Null] /\ UNCHANGED <<heap, fault>> ELSE Takes(h, s)

-----------------------------------------------------------------------------
(* Plain pointers: fp_string_make_dynamic, fp_string_free (and _and_null) and *)
(* copies of a pointer, of which data() of an object is one.                  *)
MakeDynamic(p, s) == Ready /\ Assignable(p) /\ Makes(p, s)
FreePlain(p)      == Ready /\ Given(p) /\ Frees(raw[p], Gone(raw[p]))
Borrow(p, h) ==
  /\ Ready /\ Assignable(p) /\ raw[h] \in Addresses
  /\ raw' = [raw EXCEPT ![p] = raw[h]] /\ UNCHANGED <<heap, fault>>

-----------------------------------------------------------------------------
(* Making objects and destroying them. *)
Unborn(x) == Ready /\ raw[x] = Dead

\* raii::string() and raii::string(const char* ) of a literal
FromLiteral(x, s) == Unborn(x) /\ Makes(x, s)

\* raii::string(const char* ) of a dynamic array keeps the pointer itself.
Adopt(x, p) ==
  /\ Unborn(x) /\ Given(p) /\ raw[p] \in Addresses
  /\ raw' = [raw EXCEPT ![x] = raw[p]] /\ UNCHANGED <<heap, fault>>

\* Mutant of CopyConstruct: the copy shares the block of its source.
CopyConstructShared(x, h) ==
  Unborn(x) /\ Usable(h) /\ raw' = [raw EXCEPT ![x] = raw[h]] /\ UNCHANGED <<heap, fault>>

\* The clone of a string of no characters is a block of size and capacity 0,
\* which is_fp does not recognise: the constructor's assertion aborts.
CopyConstruct(x, h) ==
  /\ Unborn(x) /\ Usable(h)
  /\ IF raw[h] = Stale THEN Misuse("use after free")
     ELSE IF Text(h) = <<>> THEN Misuse("abort") ELSE Takes(x, Text(h))

\* Mutant of MoveConstruct: the source is left as if there were no variable.
MoveConstructLast(x, h) ==
  /\ Unborn(x) /\ Given(h) /\ raw[h] # Stale
  /\ raw' = [raw EXCEPT ![x] = raw[h], ![h] = Dead] /\ UNCHANGED <<heap, fault>>

\* The constructor of fp::pointer reads the header, to assert that it is one.
MoveConstruct(x, h) ==
  /\ Unborn(x) /\ Given(h)
  /\ IF raw[h] = Stale THEN Misuse("use after free")
     ELSE raw' = [raw EXCEPT ![x] = raw[h], ![h] = Null] /\ UNCHANGED <<heap, fault>>

Destroy(x) == Ready /\ Object(x) /\ Frees(raw[x], [Gone(raw[x]) EXCEPT ![x] = Dead])

\* free() leaves the pointer, free_and_null() does not, release() gives it away.
Free(x)        == Ready /\ Object(x) /\ Frees(raw[x], Gone(raw[x]))
FreeAndNull(x) == Ready /\ Object(x) /\ Frees(raw[x], [Gone(raw[x]) EXCEPT ![x] = Null])
Release(x, p) ==
  /\ Ready /\ raw[x] \in Addresses /\ (Assignable(p) \/ raw[p] = raw[x])
  /\ raw' = [raw EXCEPT ![p] = raw[x], ![x] = Null] /\ UNCHANGED <<heap, fault>>

-----------------------------------------------------------------------------
(* Assignment. *)

\* operator=(const string&): the pointer it keeps is that of a clone, which is
\* destroyed when the statement ends; assigned to itself it clones what it freed,
\* and a clone of no characters aborts as it does in CopyConstruct.
CopyAssign(x, y) ==
  /\ Ready /\ Object(x) /\ Object(y)
  /\ IF raw[x] = Stale THEN Misuse("double free")
     ELSE IF raw[y] = Stale \/ (x = y /\ raw[x] # Null) THEN Misuse("use after free")
     ELSE IF Text(y) = <<>> THEN Misuse("abort")
     ELSE Frees(raw[x], [Gone(raw[x]) EXCEPT ![x] = Stale])

\* operator=(string&&): moved into itself it keeps the pointer it freed.
MoveAssign(x, h) ==
  /\ Ready /\ Object(x) /\ Given(h)
  /\ Frees(raw[x], IF x = h THEN Gone(raw[x]) ELSE [Gone(raw[x]) EXCEPT ![x] = raw[h], ![h] = Null])

\* Assigned a text through a temporary object that is made first: of a literal,
\* or the result of a call that returns a new string (make_dynamic, replicate,
\* replace, format: any text).
AssignText(x, s) ==
  /\ Ready /\ Object(x)
  /\ IF raw[x] = Stale THEN Misuse("double free")
     ELSE IF s = <<>> THEN Frees(raw[x], [Gone(raw[x]) EXCEPT ![x] = Null]) ELSE Renews(x, s)

\* Assigned a dynamic array, it shares the pointer as Adopt does.
AssignPointer(x, p) ==
  /\ Ready /\ Object(x) /\ Given(p) /\ raw[p] \in Addresses
  /\ Frees(raw[x], [Gone(raw[x]) EXCEPT ![x] = raw[p]])

\* x = y + z
AssignSum(x, y, z) ==
  /\ Ready /\ Object(x) /\ Object(y) /\ Object(z)
  /\ IF Stale \in {raw[y], raw[z]} THEN Misuse("use after free")
     ELSE Len(Text(y) \o Text(z)) <= MaxLen /\ AssignText(x, Text(y) \o Text(z))

\* raii::string::make_dynamic(views) assigns to elements of an array that nobody
\* constructed: what their memory holds is freed first, if it is not zero.
PushBack(x) ==
  /\ Unborn(x)
  /\ \/ Misuse("wild free")
     \/ raw' = [raw EXCEPT ![x] = Stale] /\ UNCHANGED <<heap, fault>>

-----------------------------------------------------------------------------
(* Calls that make the string longer or shorter. *)

\* concatenate_inplace with s, which is in the block at p or in none of them:
\* fpda_resize moves the string to a new block and frees its own first.
ConcatenateFrom(x, s, p) ==
  /\ Len(Text(x) \o s) <= MaxLen
  /\ IF raw[x] = Stale THEN Misuse("use after free")
     ELSE IF Text(x) \o s = <<>> THEN UNCHANGED vars
     ELSE IF p = raw[x] /\ p # Null THEN Misuse("use after free")
     ELSE Renews(x, Text(x) \o s)

\* With an object, or with a view of any string; with a literal
Concatenate(x, h) ==
  /\ Ready /\ Object(x) /\ Usable(h)
  /\ IF raw[h] = Stale THEN Misuse("use after free") ELSE ConcatenateFrom(x, Text(h), raw[h])
ConcatenateLiteral(x, s) == Ready /\ Object(x) /\ ConcatenateFrom(x, s, Null)

\* Where the parameter is a string object and the argument a pointer (+=, ==),
\* the temporary adopts what it points to, and frees it.
Temporary(h) == Usable(h) /\ raw[h] \in Addresses
ConcatenatePointer(x, h) ==
  /\ Ready /\ Object(x) /\ Temporary(h) /\ Len(Text(x) \o Text(h)) <= MaxLen
  /\ IF raw[x] = Stale \/ (raw[x] = raw[h] /\ Text(x) # <<>>) THEN Misuse("use after free")
     ELSE IF Text(x) \o Text(h) = <<>> THEN Frees(raw[h], Gone(raw[h]))
     ELSE \E a \in Fresh :
            /\ heap' = [b \in Addresses |-> IF b = a THEN Text(x) \o Text(h)
                                            ELSE IF b \in {raw[x], raw[h]} THEN NoBlock ELSE heap[b]]
            /\ raw' = [k \in Variables |-> IF k = x THEN a
                          ELSE IF raw[k] \in {raw[x], raw[h]} \cap Addresses THEN Stale ELSE raw[k]]
            /\ fault' = fault
EqualPointer(x, h) ==
  /\ Ready /\ Object(x) /\ Temporary(h)
  /\ IF raw[x] = Stale THEN Misuse("use after free") ELSE Frees(raw[h], Gone(raw[h]))

\* Mutant of Enlarges: the pointer to the new block is not kept.
EnlargesLost(x, s) ==
  \E a \in Fresh : heap' = [Without(raw[x]) EXCEPT ![a] = s] /\ raw' = Gone(raw[x]) /\ fault' = fault

\* __fpda_maybe_grow: within the capacity the block stays.
Stays(x, s)    == heap' = [heap EXCEPT ![raw[x]] = s] /\ UNCHANGED <<raw, fault>>
Enlarges(x, s) == Stays(x, s) \/ Renews(x, s)

\* append(c) asserts that there is a string, and takes c by value; grow(n, c)
\* takes a reference, which into a block that moved is one to what was freed.
AppendChar(x, c) ==
  /\ Ready /\ Object(x) /\ raw[x] # Null
  /\ IF raw[x] = Stale THEN Misuse("use after free")
     ELSE Len(Text(x)) < MaxLen /\ Enlarges(x, Append(Text(x), c))
GrowWithOwn(x) ==
  /\ Ready /\ Object(x) /\ raw[x] # Null
  /\ IF raw[x] = Stale THEN Misuse("use after free")
     ELSE /\ Len(Text(x)) \in 1 .. MaxLen - 1
          /\ \/ Misuse("use after free")
             \/ Stays(x, Append(Text(x), Head(Text(x))))

\* clear()
Clear(x) ==
  /\ Ready /\ Object(x)
  /\ IF raw[x] = Stale THEN Misuse("use after free")
     ELSE IF raw[x] = Null THEN UNCHANGED vars ELSE Stays(x, <<>>)

-----------------------------------------------------------------------------
Next ==
  \/ \E x \in Owners :
       \/ Destroy(x) \/ Free(x) \/ FreeAndNull(x) \/ GrowWithOwn(x) \/ Clear(x)
       \/ PushBack(x)
       \/ \E c \in Chars : AppendChar(x, c)
       \/ \E s \in Texts :
            FromLiteral(x, s) \/ AssignText(x, s) \/ ConcatenateLiteral(x, s)
       \/ \E p \in Plain : Adopt(x, p) \/ AssignPointer(x, p) \/ Release(x, p)
       \/ \E y \in Owners : CopyAssign(x, y) \/ \E z \in Owners : AssignSum(x, y, z)
       \/ \E h \in Variables :
            \/ CopyConstruct(x, h) \/ MoveConstruct(x, h) \/ MoveAssign(x, h)
            \/ Concatenate(x, h) \/ ConcatenatePointer(x, h) \/ EqualPointer(x, h)
  \/ \E p \in Plain :
       \/ FreePlain(p) \/ \E s \in Texts : MakeDynamic(p, s)
       \/ \E h \in Variables : Borrow(p, h)

Spec == Init /\ [][Next]_vars

-----------------------------------------------------------------------------
(* What must be true of it. *)

Faults == {"none", "double free", "use after free", "wild free", "abort"}

\* The type invariant: a block holds a text, which may be empty.
TypeOK ==
  /\ heap \in [Addresses -> Texts \cup {NoBlock}]
  /\ raw \in [Variables -> Addresses \cup {Dead, Null, Stale}]
  /\ \A p \in Plain : raw[p] # Dead
  /\ fault \in Faults

\* A block has at most one object that owns it, whatever temporary objects were
\* made and destroyed in between; none is leaked; and what a pointer points to,
\* if it is not stale, is there.
OwnersAreExact ==
  /\ \A x, y \in Owners : Owned(raw[x]) /\ raw[x] = raw[y] => x = y
  /\ \A a \in Addresses : heap[a] # NoBlock => \E h \in Variables : raw[h] = a
  /\ \A h \in Variables : raw[h] \in Addresses => heap[raw[h]] # NoBlock

\* An object comes to hold a pointer that was freed only by free(), by copy
\* assignment, by moving into itself or from one that does, when a temporary
\* object adopts what it points to, and as an element nobody constructed ...
Staling(x) ==
  \/ Free(x) \/ PushBack(x)
  \/ \E y \in Owners :
       \/ CopyAssign(x, y) \/ EqualPointer(y, x) \/ ConcatenatePointer(y, x)
       \/ MoveAssign(x, y) /\ (x = y \/ raw[y] = Stale)
\* ... memory is misused only by using such an object, by adding to a string its
\* own characters or itself, by assigning it to itself, and by the last; and the
\* program aborts exactly when a string of no characters is copied.
Misusing(x) ==
  \/ raw[x] = Stale \/ GrowWithOwn(x) \/ PushBack(x) \/ CopyAssign(x, x)
  \/ \E h \in Variables :
       raw[h] = raw[x] /\ (Concatenate(x, h) \/ ConcatenatePointer(x, h))
CopiesNothing(x) ==
  \/ \E h \in Variables : CopyConstruct(x, h) /\ raw[h] # Stale /\ Text(h) = <<>>
  \/ \E y \in Owners :
       CopyAssign(x, y) /\ Stale \notin {raw[x], raw[y]} /\ Text(y) = <<>>
         /\ (x = y => raw[x] = Null)
MisuseIsNarrow ==
  [][/\ fault' \notin {fault, "abort"} => \E x \in Owners : Misusing(x)
     /\ fault' = "abort" <=> fault = "none" /\ \E x \in Owners : CopiesNothing(x)
     /\ \A x \in Owners : raw[x] # Stale /\ raw'[x] = Stale => Staling(x)]_vars

O == INSTANCE Objects WITH
       Nothing <- <<>>, held <- [x \in Owners |-> Text(x)]

Pointed(h) == {x \in Owners : raw[h] \in Addresses /\ raw[x] = raw[h]}

\* What an object holds is its own: a copy has the text of its source, a moved
\* object the one its source had, one that adopts a pointer what is there, a sum
\* both; and no call changes the text of an object it is not made on but two:
\* += and == with a pointer make a temporary, which takes the text from the
\* object that owns what the pointer points to.  (An object assigned a copy, or
\* itself by move, is left with nothing: see MisuseIsNarrow.)
CallsMatch ==
  [][fault' = "none" =>
       /\ \A x \in Owners :
            /\ Destroy(x) \/ Free(x) \/ FreeAndNull(x) \/ Clear(x)
                 \/ (\E p \in Plain : Release(x, p)) => O!Assign(x, <<>>)
            /\ PushBack(x) => O!Within({})
            /\ GrowWithOwn(x) => O!Assign(x, Append(Text(x), Head(Text(x))))
            /\ \A c \in Chars : AppendChar(x, c) => O!Assign(x, Append(Text(x), c))
            /\ \A s \in Texts :
                 /\ FromLiteral(x, s) \/ AssignText(x, s) => O!Assign(x, s)
                 /\ ConcatenateLiteral(x, s) => O!Assign(x, Text(x) \o s)
            /\ \A p \in Plain : Adopt(x, p) \/ AssignPointer(x, p) => O!Assign(x, Text(p))
            /\ \A y, z \in Owners :
                 /\ AssignSum(x, y, z) => O!Assign(x, Text(y) \o Text(z))
                 /\ CopyAssign(x, y) => O!Assign(x, <<>>)
            /\ \A h \in Variables :
                 /\ CopyConstruct(x, h) => O!Assign(x, Text(h))
                 /\ MoveConstruct(x, h) \/ MoveAssign(x, h) =>
                      IF h \notin Owners THEN O!Assign(x, Text(h))
                      ELSE IF x = h THEN O!Assign(x, <<>>) ELSE O!Move(x, h)
                 /\ Concatenate(x, h) => O!Assign(x, Text(x) \o Text(h))
                 /\ ConcatenatePointer(x, h) =>
                      /\ O!Within({x} \cup Pointed(h)) /\ Text(x)' = Text(x) \o Text(h)
                      /\ \A y \in Pointed(h) \ {x} : Text(y)' = <<>>
                 /\ EqualPointer(x, h) => O!Become(Pointed(h), <<>>)
       /\ \A p \in Plain :
            /\ \A s \in Texts : MakeDynamic(p, s) => O!Within({})
            /\ \A h \in Variables : Borrow(p, h) => O!Within({})
            /\ FreePlain(p) => O!Within({})]_vars
=============================================================================
