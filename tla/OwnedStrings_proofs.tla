------------------------- MODULE OwnedStrings_proofs -------------------------
(***************************************************************************)
(* OwnedStrings: types, single ownership and who misuses memory, for any   *)
(* number of strings of any length.                                        *)
(*                                                                         *)
(* The calls do three things to the blocks: free one and repoint the       *)
(* variables, make one for a variable (and free others), or change the     *)
(* text of one.  A lemma for each says that it keeps the invariant, and a  *)
(* step for each call which of the three it is.                            *)
(***************************************************************************)
EXTENDS OwnedStrings, TLAPS

Pointees == Addresses \cup {Dead, Null, Stale}

HeapOK == heap \in [Addresses -> Texts \cup {NoBlock}]
RawOK  == raw \in [Variables -> Pointees] /\ \A p \in Plain : raw[p] # Dead

Inv == TypeOK /\ OwnersAreExact

-----------------------------------------------------------------------------
(* Texts. *)

LEMMA TextsAreSequences == Texts = {s \in Seq(Chars) : Len(s) <= MaxLen}
<1>1. ASSUME NEW s \in Texts PROVE s \in Seq(Chars) /\ Len(s) <= MaxLen
  <2>1. PICK k \in 0 .. MaxLen : s \in [1 .. k -> Chars]
    BY DEF Texts
  <2> QED BY <2>1, BlockAssumption
<1>2. ASSUME NEW s \in Seq(Chars), Len(s) <= MaxLen PROVE s \in Texts
  <2>1. Len(s) \in 0 .. MaxLen /\ s \in [1 .. Len(s) -> Chars]
    BY <1>2, BlockAssumption
  <2> QED BY <2>1 DEF Texts
<1> QED BY <1>1, <1>2

LEMMA EmptyIsText == <<>> \in Texts /\ NoBlock \notin Texts
  BY TextsAreSequences, BlockAssumption

LEMMA SumIsText ==
  ASSUME NEW s \in Texts, NEW t \in Texts, Len(s \o t) <= MaxLen
  PROVE  s \o t \in Texts
  BY TextsAreSequences

LEMMA AppendIsText ==
  ASSUME NEW s \in Texts, NEW c \in Chars, Len(s) < MaxLen
  PROVE  Append(s, c) \in Texts
  BY TextsAreSequences, BlockAssumption

LEMMA GrownIsText ==
  ASSUME NEW s \in Texts, Len(s) \in 1 .. MaxLen - 1
  PROVE  Append(s, Head(s)) \in Texts
<1>1. s \in Seq(Chars) /\ s # <<>>
  BY TextsAreSequences
<1>2. Head(s) \in Chars
  BY <1>1
<1> QED BY <1>2, AppendIsText, BlockAssumption

-----------------------------------------------------------------------------
(* What the lemmas need of the state before. *)

LEMMA Kinds == Owners \subseteq Variables /\ Plain \subseteq Variables /\ Owners \cap Plain = {}
               /\ \A h \in Variables : h \notin Owners => h \in Plain
  BY OwnersAssumption DEF Variables

LEMMA Before ==
  ASSUME Inv
  PROVE  /\ HeapOK /\ RawOK /\ raw \in [Variables -> Pointees]
         /\ \A q \in Plain : raw[q] # Dead
         /\ \A x, y \in Owners : raw[x] \in Addresses /\ raw[x] = raw[y] => x = y
         /\ \A a \in Addresses : heap[a] # NoBlock => \E h \in Variables : raw[h] = a
         /\ \A h \in Variables : raw[h] \in Addresses => heap[raw[h]] \in Texts
  BY Kinds DEF Inv, TypeOK, HeapOK, RawOK, OwnersAreExact, Owned, Pointees

LEMMA TextIsText ==
  ASSUME Inv, NEW h \in Variables
  PROVE  Text(h) \in Texts
  BY Before, EmptyIsText DEF Text

\* And what they give of the state after.
LEMMA After ==
  ASSUME HeapOK', RawOK', fault' \in Faults,
         \A x, y \in Owners : raw'[x] \in Addresses /\ raw'[x] = raw'[y] => x = y,
         \A a \in Addresses : heap'[a] # NoBlock => \E h \in Variables : raw'[h] = a,
         \A h \in Variables : raw'[h] \in Addresses => heap'[raw'[h]] # NoBlock
  PROVE  Inv'
<1>1. TypeOK'
  BY DEF TypeOK, HeapOK, RawOK, Pointees
<1>2. OwnersAreExact'
  BY DEF OwnersAreExact, Owned
<1> QED BY <1>1, <1>2 DEF Inv

LEMMA MisuseKeeps ==
  ASSUME Inv, NEW f \in {"double free", "use after free", "wild free", "abort"}, Misuse(f)
  PROVE  Inv'
  BY DEF Misuse, Inv, TypeOK, OwnersAreExact, Owned, Faults

-----------------------------------------------------------------------------
(* Freeing the block at p, if there is one: the variables forget p, keep a *)
(* pointer to every other block and make no second owner.                  *)

Repoints(p) ==
  /\ RawOK'
  /\ \A k \in Variables : raw'[k] \in Addresses => raw'[k] # p /\ \E h \in Variables : raw[h] = raw'[k]
  /\ \A h \in Variables : raw[h] \in Addresses /\ raw[h] # p => \E k \in Variables : raw'[k] = raw[h]
  /\ \A x, y \in Owners : raw'[x] \in Addresses /\ raw'[x] = raw'[y] => x = y

LEMMA FreeKeeps ==
  ASSUME Inv, NEW p, heap' = Without(p), fault' = fault, Repoints(p)
  PROVE  Inv'
<1>1. HeapOK' /\ \A c \in Addresses : heap'[c] = IF c = p THEN NoBlock ELSE heap[c]
  BY Before DEF Without, HeapOK
<1>2. fault' \in Faults
  BY DEF Inv, TypeOK
<1>3. \A a \in Addresses : heap'[a] # NoBlock => \E h \in Variables : raw'[h] = a
  BY <1>1, Before DEF Repoints
<1>4. \A h \in Variables : raw'[h] \in Addresses => heap'[raw'[h]] # NoBlock
  BY <1>1, Before, EmptyIsText DEF Repoints
<1> QED BY <1>1, <1>2, <1>3, <1>4, After DEF Repoints

LEMMA RepointKeeps ==
  ASSUME Inv, UNCHANGED <<heap, fault>>, Repoints(Null)
  PROVE  Inv'
<1>1. heap' = Without(Null)
  BY AddressAssumption DEF Without
<1> QED BY <1>1, FreeKeeps

(* A new block for k, that of others in F freed. *)
LEMMA RenewKeeps ==
  ASSUME Inv, NEW k \in Variables, NEW a \in Fresh, NEW s \in Texts, NEW F,
         raw[k] \in Addresses => raw[k] \in F \/ \E h \in Variables \ {k} : raw[h] = raw[k],
         \A b \in Addresses : heap'[b] = IF b = a THEN s ELSE IF b \in F THEN NoBlock ELSE heap[b],
         \A h \in Variables :
           raw'[h] = IF h = k THEN a ELSE IF raw[h] \in F \cap Addresses THEN Stale ELSE raw[h],
         heap' \in [Addresses -> Texts \cup {NoBlock}], raw' \in [Variables -> Pointees], fault' = fault
  PROVE  Inv'
<1>1. a \in Addresses /\ heap[a] = NoBlock /\ \A h \in Variables : raw[h] # a
  BY Before, EmptyIsText DEF Fresh
<1>2. HeapOK' /\ fault' \in Faults
  BY DEF HeapOK, Inv, TypeOK
<1>3. RawOK'
  BY <1>1, Before, Kinds, AddressAssumption, NamesAssumption DEF RawOK
<1>4. \A x, y \in Owners : raw'[x] \in Addresses /\ raw'[x] = raw'[y] => x = y
  BY <1>1, Before, Kinds, AddressAssumption
<1>5. \A c \in Addresses : heap'[c] # NoBlock => \E h \in Variables : raw'[h] = c
  <2> SUFFICES ASSUME NEW c \in Addresses, heap'[c] # NoBlock
               PROVE  \E h \in Variables : raw'[h] = c
    OBVIOUS
  <2>1. CASE c = a
    BY <2>1
  <2>2. CASE c # a
    <3>1. c \notin F /\ heap[c] # NoBlock
      BY <2>2
    <3>2. PICK h \in Variables \ {k} : raw[h] = c
      BY <3>1, Before
    <3> QED BY <3>1, <3>2
  <2> QED BY <2>1, <2>2
<1>6. \A h \in Variables : raw'[h] \in Addresses => heap'[raw'[h]] # NoBlock
  BY <1>1, Before, EmptyIsText, AddressAssumption
<1> QED BY <1>2, <1>3, <1>4, <1>5, <1>6, After

\* Nothing but the text of a block changes.
LEMMA StaysKeeps ==
  ASSUME Inv, NEW x \in Owners, raw[x] \in Addresses, NEW s \in Texts, Stays(x, s)
  PROVE  Inv'
<1>1. HeapOK' /\ \A c \in Addresses : heap'[c] = IF c = raw[x] THEN s ELSE heap[c]
  BY Before DEF Stays, HeapOK
<1>2. RawOK' /\ fault' \in Faults /\ raw' = raw
  BY Before DEF Stays, RawOK, Inv, TypeOK
<1>3. \A y, z \in Owners : raw'[y] \in Addresses /\ raw'[y] = raw'[z] => y = z
  BY <1>2, Before
<1>4. \A a \in Addresses : heap'[a] # NoBlock => \E h \in Variables : raw'[h] = a
  BY <1>1, <1>2, Before, Kinds
<1>5. \A h \in Variables : raw'[h] \in Addresses => heap'[raw'[h]] # NoBlock
  BY <1>1, <1>2, Before, EmptyIsText
<1> QED BY <1>1, <1>2, <1>3, <1>4, <1>5, After

-----------------------------------------------------------------------------
(* The helpers of the calls. *)

LEMMA FreesKeeps ==
  ASSUME Inv, NEW h \in Variables, NEW left \in {Dead, Null, Stale}, left = Dead => h \in Owners,
         Frees(raw[h], [Gone(raw[h]) EXCEPT ![h] = left])
  PROVE  Inv'
<1>1. CASE raw[h] = Stale
  BY <1>1, MisuseKeeps DEF Frees
<1>2. CASE raw[h] # Stale
  <2>1. heap' = Without(raw[h]) /\ fault' = fault /\ raw' = [Gone(raw[h]) EXCEPT ![h] = left]
    BY <1>2 DEF Frees
  <2>2. /\ raw' \in [Variables -> Pointees] /\ raw'[h] = left
        /\ \A k \in Variables \ {h} :
             raw'[k] = IF raw[h] \in Addresses /\ raw[k] = raw[h] THEN Stale ELSE raw[k]
    BY <2>1, Before DEF Gone, Pointees
  <2>3. RawOK'
    BY <2>2, Before, Kinds, NamesAssumption DEF RawOK
  <2>4. Repoints(raw[h])
    BY <2>2, <2>3, Before, Kinds, AddressAssumption DEF Repoints
  <2> QED BY <2>1, <2>4, FreeKeeps
<1> QED BY <1>1, <1>2

\* A pointer that is only forgotten by the block that goes becomes stale itself.
LEMMA GoneIsStale ==
  ASSUME Inv, NEW h \in Variables, raw[h] # Dead
  PROVE  \E left \in {Null, Stale} : Gone(raw[h]) = [Gone(raw[h]) EXCEPT ![h] = left]
<1>1. CASE raw[h] \in Addresses
  <2>1. Gone(raw[h]) = [Gone(raw[h]) EXCEPT ![h] = Stale]
    BY <1>1 DEF Gone
  <2> QED BY <2>1
<1>2. CASE raw[h] \notin Addresses
  <2>1. raw[h] \in {Null, Stale}
    BY <1>2, Before DEF Pointees
  <2>2. Gone(raw[h]) = [Gone(raw[h]) EXCEPT ![h] = raw[h]]
    BY <1>2 DEF Gone
  <2> QED BY <2>1, <2>2
<1> QED BY <1>1, <1>2

LEMMA FreesGoneKeeps ==
  ASSUME Inv, NEW h \in Variables, raw[h] # Dead, Frees(raw[h], Gone(raw[h]))
  PROVE  Inv'
<1>1. PICK left \in {Null, Stale} : Gone(raw[h]) = [Gone(raw[h]) EXCEPT ![h] = left]
  BY GoneIsStale
<1> QED BY <1>1, FreesKeeps, NamesAssumption

LEMMA TakesKeeps ==
  ASSUME Inv, NEW k \in Variables, NEW s \in Texts, Assignable(k), Takes(k, s)
  PROVE  Inv'
<1>1. PICK a \in Fresh : heap' = [heap EXCEPT ![a] = s] /\ raw' = [raw EXCEPT ![k] = a] /\ fault' = fault
  BY DEF Takes
<1>2. a \in Addresses
  BY DEF Fresh
<1>3. /\ \A b \in Addresses : heap'[b] = IF b = a THEN s ELSE IF b \in {} THEN NoBlock ELSE heap[b]
      /\ heap' \in [Addresses -> Texts \cup {NoBlock}]
  BY <1>1, <1>2, Before DEF HeapOK
<1>4. /\ \A h \in Variables :
           raw'[h] = IF h = k THEN a ELSE IF raw[h] \in {} \cap Addresses THEN Stale ELSE raw[h]
      /\ raw' \in [Variables -> Pointees]
  BY <1>1, <1>2, Before DEF Pointees
<1> QED BY <1>1, <1>3, <1>4, RenewKeeps DEF Assignable

LEMMA RenewsKeeps ==
  ASSUME Inv, NEW x \in Owners, NEW s \in Texts, Renews(x, s)
  PROVE  Inv'
<1>0. x \in Variables
  BY Kinds
<1>1. PICK a \in Fresh : /\ heap' = [Without(raw[x]) EXCEPT ![a] = s]
                         /\ raw' = [Gone(raw[x]) EXCEPT ![x] = a] /\ fault' = fault
  BY DEF Renews
<1> DEFINE F == {raw[x]}
<1>2. a \in Addresses /\ raw[x] \in F
  BY DEF Fresh
<1>3. /\ \A b \in Addresses : heap'[b] = IF b = a THEN s ELSE IF b \in F THEN NoBlock ELSE heap[b]
      /\ heap' \in [Addresses -> Texts \cup {NoBlock}]
  BY <1>1, <1>2, Before DEF HeapOK, Without
<1>4. /\ \A h \in Variables :
           raw'[h] = IF h = x THEN a ELSE IF raw[h] \in F \cap Addresses THEN Stale ELSE raw[h]
      /\ raw' \in [Variables -> Pointees]
  BY <1>0, <1>1, <1>2, Before DEF Gone, Pointees
<1> HIDE DEF F
<1> QED BY <1>0, <1>1, <1>2, <1>3, <1>4, RenewKeeps

LEMMA MakesKeeps ==
  ASSUME Inv, NEW k \in Variables, NEW s \in Texts, Assignable(k), Makes(k, s)
  PROVE  Inv'
<1>1. CASE s = <<>>
  <2>1. raw' = [raw EXCEPT ![k] = Null] /\ UNCHANGED <<heap, fault>>
    BY <1>1 DEF Makes
  <2>2. raw' \in [Variables -> Pointees] /\ raw'[k] = Null /\ \A h \in Variables \ {k} : raw'[h] = raw[h]
    BY <2>1, Before DEF Pointees
  <2>3. RawOK'
    BY <2>2, Before, Kinds, NamesAssumption DEF RawOK
  <2>4. Repoints(Null)
    BY <2>2, <2>3, Before, Kinds, AddressAssumption DEF Repoints, Assignable
  <2> QED BY <2>1, <2>4, RepointKeeps
<1>2. CASE s # <<>>
  BY <1>2, TakesKeeps DEF Makes
<1> QED BY <1>1, <1>2

\* What x = s, of a text, does to x
LEMMA AssignTextKeeps ==
  ASSUME Inv, NEW x \in Owners, NEW s \in Texts, AssignText(x, s)
  PROVE  Inv'
<1>1. CASE raw[x] = Stale
  BY <1>1, MisuseKeeps DEF AssignText
<1>2. CASE raw[x] # Stale /\ s = <<>>
  BY <1>2, FreesKeeps, Kinds, NamesAssumption DEF AssignText
<1>3. CASE raw[x] # Stale /\ s # <<>>
  BY <1>3, RenewsKeeps DEF AssignText
<1> QED BY <1>1, <1>2, <1>3

LEMMA ConcatenateFromKeeps ==
  ASSUME Inv, NEW x \in Owners, NEW s \in Texts, NEW p, ConcatenateFrom(x, s, p)
  PROVE  Inv'
<1>1. CASE UNCHANGED vars
  BY <1>1 DEF vars, Inv, TypeOK, OwnersAreExact, Owned
<1>2. CASE Misuse("use after free")
  BY <1>2, MisuseKeeps
<1>3. CASE Renews(x, Text(x) \o s)
  <2>1. Text(x) \o s \in Texts
    BY TextIsText, SumIsText, Kinds DEF ConcatenateFrom
  <2> QED BY <1>3, <2>1, RenewsKeeps
<1> QED BY <1>1, <1>2, <1>3 DEF ConcatenateFrom

-----------------------------------------------------------------------------
(* The calls. *)

LEMMA DeadIsAssignable ==
  ASSUME NEW x \in Owners, Unborn(x)
  PROVE  Assignable(x)
  BY AddressAssumption DEF Unborn, Assignable

LEMMA MakeDynamicStep ==
  ASSUME Inv, NEW p \in Plain, NEW s \in Texts, MakeDynamic(p, s)
  PROVE  Inv'
  BY MakesKeeps, Kinds DEF MakeDynamic

LEMMA FreePlainStep ==
  ASSUME Inv, NEW p \in Plain, FreePlain(p)
  PROVE  Inv'
  BY FreesGoneKeeps, Kinds, Before DEF FreePlain

LEMMA FromLiteralStep ==
  ASSUME Inv, NEW x \in Owners, NEW s \in Texts, FromLiteral(x, s)
  PROVE  Inv'
  BY MakesKeeps, DeadIsAssignable, Kinds DEF FromLiteral

LEMMA CopyConstructStep ==
  ASSUME Inv, NEW x \in Owners, NEW h \in Variables, CopyConstruct(x, h)
  PROVE  Inv'
<1>1. CASE raw[h] = Stale
  BY <1>1, MisuseKeeps DEF CopyConstruct
<1>2. CASE raw[h] # Stale /\ Text(h) = <<>>
  BY <1>2, MisuseKeeps DEF CopyConstruct
<1>3. CASE raw[h] # Stale /\ Text(h) # <<>>
  BY <1>3, TakesKeeps, TextIsText, DeadIsAssignable, Kinds DEF CopyConstruct
<1> QED BY <1>1, <1>2, <1>3

LEMMA DestroyStep ==
  ASSUME Inv, NEW x \in Owners, Destroy(x)
  PROVE  Inv'
  BY FreesKeeps, Kinds DEF Destroy

LEMMA FreeStep ==
  ASSUME Inv, NEW x \in Owners, Free(x)
  PROVE  Inv'
  BY FreesGoneKeeps, Kinds DEF Free, Object

LEMMA FreeAndNullStep ==
  ASSUME Inv, NEW x \in Owners, FreeAndNull(x)
  PROVE  Inv'
  BY FreesKeeps, Kinds, NamesAssumption DEF FreeAndNull

LEMMA CopyAssignStep ==
  ASSUME Inv, NEW x \in Owners, NEW y \in Owners, CopyAssign(x, y)
  PROVE  Inv'
<1>1. CASE Misuse("double free") \/ Misuse("use after free") \/ Misuse("abort")
  BY <1>1, MisuseKeeps
<1>2. CASE Frees(raw[x], [Gone(raw[x]) EXCEPT ![x] = Stale])
  BY <1>2, FreesKeeps, Kinds, NamesAssumption
<1> QED BY <1>1, <1>2 DEF CopyAssign

LEMMA AssignSumStep ==
  ASSUME Inv, NEW x \in Owners, NEW y \in Owners, NEW z \in Owners, AssignSum(x, y, z)
  PROVE  Inv'
<1>1. CASE Stale \in {raw[y], raw[z]}
  BY <1>1, MisuseKeeps DEF AssignSum
<1>2. CASE Stale \notin {raw[y], raw[z]}
  <2>1. Text(y) \o Text(z) \in Texts /\ AssignText(x, Text(y) \o Text(z))
    BY <1>2, TextIsText, SumIsText, Kinds DEF AssignSum
  <2> QED BY <2>1, AssignTextKeeps
<1> QED BY <1>1, <1>2

LEMMA PushBackStep ==
  ASSUME Inv, NEW x \in Owners, PushBack(x)
  PROVE  Inv'
<1>1. CASE Misuse("wild free")
  BY <1>1, MisuseKeeps
<1>2. CASE raw' = [raw EXCEPT ![x] = Stale] /\ UNCHANGED <<heap, fault>>
  <2>1. raw' \in [Variables -> Pointees] /\ raw'[x] = Stale /\ \A h \in Variables \ {x} : raw'[h] = raw[h]
    BY <1>2, Before, Kinds DEF Pointees
  <2>2. RawOK' /\ raw[x] = Dead
    BY <2>1, Before, Kinds DEF RawOK, PushBack, Unborn
  <2>3. Repoints(Null)
    BY <2>1, <2>2, Before, Kinds, AddressAssumption DEF Repoints
  <2> QED BY <1>2, <2>3, RepointKeeps
<1> QED BY <1>1, <1>2 DEF PushBack

\* What a variable may give away, no object owns but itself.
LEMMA GivenIsFree ==
  ASSUME Inv, NEW h \in Variables, Given(h), raw[h] \in Addresses
  PROVE  \A y \in Owners \ {h} : raw[y] # raw[h]
  BY Before, Kinds DEF Given, Owned

LEMMA AdoptStep ==
  ASSUME Inv, NEW x \in Owners, NEW p \in Plain, Adopt(x, p)
  PROVE  Inv'
<1>1. /\ raw' \in [Variables -> Pointees] /\ raw'[x] = raw[p] /\ raw[p] \in Addresses /\ raw[x] = Dead
      /\ \A h \in Variables \ {x} : raw'[h] = raw[h]
  BY Before, Kinds DEF Adopt, Unborn, Pointees
<1>2. \A y \in Owners : raw[y] # raw[p]
  BY <1>1, GivenIsFree, Kinds DEF Adopt
<1>3. RawOK'
  BY <1>1, Before, Kinds DEF RawOK
<1>4. Repoints(Null)
  BY <1>1, <1>2, <1>3, Before, Kinds, AddressAssumption DEF Repoints
<1> QED BY <1>4, RepointKeeps DEF Adopt

LEMMA MoveConstructStep ==
  ASSUME Inv, NEW x \in Owners, NEW h \in Variables, MoveConstruct(x, h)
  PROVE  Inv'
<1>1. CASE raw[h] = Stale
  BY <1>1, MisuseKeeps DEF MoveConstruct
<1>2. CASE raw[h] # Stale
  <2>1. /\ raw[x] = Dead /\ Given(h) /\ raw[h] # Dead /\ x # h
        /\ raw' = [raw EXCEPT ![x] = raw[h], ![h] = Null] /\ UNCHANGED <<heap, fault>>
    BY <1>2 DEF MoveConstruct, Given, Usable, Unborn
  <2>2. /\ raw' \in [Variables -> Pointees] /\ raw'[x] = raw[h] /\ raw'[h] = Null
        /\ \A k \in Variables \ {x, h} : raw'[k] = raw[k]
    BY <2>1, Before, Kinds DEF Pointees
  <2>3. RawOK'
    BY <2>2, Before, Kinds, NamesAssumption DEF RawOK
  <2>4. raw[h] \in Addresses => \A y \in Owners \ {h} : raw[y] # raw[h]
    BY <2>1, GivenIsFree
  <2>5. Repoints(Null)
    BY <2>1, <2>2, <2>3, <2>4, Before, Kinds, AddressAssumption DEF Repoints
  <2> QED BY <2>1, <2>5, RepointKeeps
<1> QED BY <1>1, <1>2

LEMMA ReleaseStep ==
  ASSUME Inv, NEW x \in Owners, NEW p \in Plain, Release(x, p)
  PROVE  Inv'
<1>1. /\ raw' \in [Variables -> Pointees] /\ x # p
      /\ raw'[p] = raw[x] /\ raw'[x] = Null /\ raw[x] \in Addresses
      /\ \A k \in Variables \ {x, p} : raw'[k] = raw[k]
  BY Before, Kinds DEF Release, Pointees
<1>2. RawOK'
  BY <1>1, Before, Kinds, NamesAssumption, AddressAssumption DEF RawOK
<1>3. raw[p] \in Addresses => \E k \in Variables \ {p} : raw[k] = raw[p]
  BY <1>1, Before, Kinds DEF Release, Assignable
<1>4. Repoints(Null)
  BY <1>1, <1>2, <1>3, Before, Kinds, AddressAssumption DEF Repoints
<1> QED BY <1>4, RepointKeeps DEF Release

LEMMA BorrowStep ==
  ASSUME Inv, NEW p \in Plain, NEW h \in Variables, Borrow(p, h)
  PROVE  Inv'
<1>1. /\ raw' \in [Variables -> Pointees] /\ raw'[p] = raw[h] /\ raw[h] \in Addresses
      /\ \A k \in Variables \ {p} : raw'[k] = raw[k]
  BY Before, Kinds DEF Borrow, Pointees
<1>2. RawOK'
  BY <1>1, Before, Kinds, AddressAssumption DEF RawOK
<1>3. raw[p] \in Addresses => \E k \in Variables \ {p} : raw[k] = raw[p]
  BY Before, Kinds DEF Borrow, Assignable
<1>4. Repoints(Null)
  BY <1>1, <1>2, <1>3, Before, Kinds, AddressAssumption DEF Repoints
<1> QED BY <1>4, RepointKeeps DEF Borrow

LEMMA MoveAssignStep ==
  ASSUME Inv, NEW x \in Owners, NEW h \in Variables, MoveAssign(x, h)
  PROVE  Inv'
<1>1. CASE raw[x] = Stale
  BY <1>1, MisuseKeeps DEF MoveAssign, Frees
<1>2. CASE raw[x] # Stale /\ x = h
  BY <1>2, FreesGoneKeeps DEF MoveAssign, Object
<1>3. CASE raw[x] # Stale /\ x # h
  <2>1. /\ heap' = Without(raw[x]) /\ fault' = fault
        /\ raw' = [Gone(raw[x]) EXCEPT ![x] = raw[h], ![h] = Null]
        /\ Given(h) /\ raw[x] # Dead /\ raw[h] # Dead
    BY <1>3 DEF MoveAssign, Frees, Given, Usable, Object
  <2>2. /\ raw' \in [Variables -> Pointees] /\ raw'[x] = raw[h] /\ raw'[h] = Null
        /\ \A k \in Variables \ {x, h} :
             raw'[k] = IF raw[x] \in Addresses /\ raw[k] = raw[x] THEN Stale ELSE raw[k]
    BY <1>3, <2>1, Before, Kinds DEF Gone, Pointees
  <2>3. RawOK'
    BY <2>2, Before, Kinds, NamesAssumption DEF RawOK
  <2>4. raw[h] \in Addresses => \A y \in Owners \ {h} : raw[y] # raw[h]
    BY <2>1, GivenIsFree
  <2>5. Repoints(raw[x])
    BY <1>3, <2>1, <2>2, <2>3, <2>4, Before, Kinds, AddressAssumption DEF Repoints
  <2> QED BY <2>1, <2>5, FreeKeeps
<1> QED BY <1>1, <1>2, <1>3

LEMMA AssignPointerStep ==
  ASSUME Inv, NEW x \in Owners, NEW p \in Plain, AssignPointer(x, p)
  PROVE  Inv'
<1>1. CASE raw[x] = Stale
  BY <1>1, MisuseKeeps DEF AssignPointer, Frees
<1>2. CASE raw[x] # Stale
  <2>1. /\ heap' = Without(raw[x]) /\ fault' = fault /\ raw[p] \in Addresses
        /\ raw' = [Gone(raw[x]) EXCEPT ![x] = raw[p]] /\ Given(p)
    BY <1>2 DEF AssignPointer, Frees
  <2>2. /\ raw' \in [Variables -> Pointees] /\ raw'[x] = raw[p]
        /\ \A k \in Variables \ {x} :
             raw'[k] = IF raw[x] \in Addresses /\ raw[k] = raw[x] THEN Stale ELSE raw[k]
    BY <2>1, Before, Kinds DEF Gone, Pointees
  <2>3. RawOK'
    BY <2>2, Before, Kinds, NamesAssumption DEF RawOK
  <2>4. \A y \in Owners : raw[y] # raw[p]
    BY <2>1, GivenIsFree, Kinds
  <2>5. Repoints(raw[x])
    BY <2>1, <2>2, <2>3, <2>4, Before, Kinds, AddressAssumption DEF Repoints
  <2> QED BY <2>1, <2>5, FreeKeeps
<1> QED BY <1>1, <1>2

LEMMA ConcatenateStep ==
  ASSUME Inv, NEW x \in Owners, NEW h \in Variables, Concatenate(x, h)
  PROVE  Inv'
<1>1. CASE raw[h] = Stale
  BY <1>1, MisuseKeeps DEF Concatenate
<1>2. CASE raw[h] # Stale
  BY <1>2, ConcatenateFromKeeps, TextIsText DEF Concatenate
<1> QED BY <1>1, <1>2

LEMMA ConcatenateLiteralStep ==
  ASSUME Inv, NEW x \in Owners, NEW s \in Texts, ConcatenateLiteral(x, s)
  PROVE  Inv'
  BY ConcatenateFromKeeps DEF ConcatenateLiteral

LEMMA ConcatenatePointerStep ==
  ASSUME Inv, NEW x \in Owners, NEW h \in Variables, ConcatenatePointer(x, h)
  PROVE  Inv'
<1>0. raw[h] \in Addresses /\ raw[h] # Dead /\ x \in Variables
  BY Kinds DEF ConcatenatePointer, Temporary, Usable
<1> DEFINE s == Text(x) \o Text(h)
           F == {raw[x], raw[h]}
<1>1. CASE Misuse("use after free")
  BY <1>1, MisuseKeeps
<1>2. CASE Frees(raw[h], Gone(raw[h]))
  BY <1>0, <1>2, FreesGoneKeeps
<1>3. ASSUME NEW a \in Fresh,
             heap' = [b \in Addresses |-> IF b = a THEN s ELSE IF b \in F THEN NoBlock ELSE heap[b]],
             raw' = [k \in Variables |-> IF k = x THEN a
                       ELSE IF raw[k] \in F \cap Addresses THEN Stale ELSE raw[k]],
             fault' = fault
      PROVE  Inv'
  <2>1. s \in Texts
    BY TextIsText, SumIsText, Kinds DEF ConcatenatePointer
  <2>2. a \in Addresses /\ raw[x] \in F
    BY DEF Fresh
  <2> HIDE DEF s, F
  <2>3. /\ heap' \in [Addresses -> Texts \cup {NoBlock}]
        /\ \A b \in Addresses : heap'[b] = IF b = a THEN s ELSE IF b \in F THEN NoBlock ELSE heap[b]
    BY <1>3, <2>1, Before DEF HeapOK
  <2>4. /\ raw' \in [Variables -> Pointees]
        /\ \A k \in Variables :
             raw'[k] = IF k = x THEN a ELSE IF raw[k] \in F \cap Addresses THEN Stale ELSE raw[k]
    BY <1>3, <2>2, Before DEF Pointees
  <2> QED BY <1>0, <1>3, <2>1, <2>2, <2>3, <2>4, RenewKeeps
<1> QED BY <1>1, <1>2, <1>3 DEF ConcatenatePointer

LEMMA EqualPointerStep ==
  ASSUME Inv, NEW x \in Owners, NEW h \in Variables, EqualPointer(x, h)
  PROVE  Inv'
<1>1. CASE raw[x] = Stale
  BY <1>1, MisuseKeeps DEF EqualPointer
<1>2. CASE raw[x] # Stale
  BY <1>2, FreesGoneKeeps DEF EqualPointer, Temporary, Usable
<1> QED BY <1>1, <1>2

\* An object that is neither null nor stale points to a block.
LEMMA ObjectPoints ==
  ASSUME Inv, NEW x \in Owners, Object(x), raw[x] # Null, raw[x] # Stale
  PROVE  raw[x] \in Addresses /\ Text(x) \in Texts
  BY Before, TextIsText, Kinds DEF Object, Pointees

LEMMA AppendCharStep ==
  ASSUME Inv, NEW x \in Owners, NEW c \in Chars, AppendChar(x, c)
  PROVE  Inv'
<1>1. CASE raw[x] = Stale
  BY <1>1, MisuseKeeps DEF AppendChar
<1>2. CASE raw[x] # Stale
  <2>1. raw[x] \in Addresses /\ Append(Text(x), c) \in Texts
    BY <1>2, ObjectPoints, AppendIsText DEF AppendChar
  <2>2. Stays(x, Append(Text(x), c)) \/ Renews(x, Append(Text(x), c))
    BY <1>2 DEF AppendChar, Enlarges
  <2> QED BY <2>1, <2>2, StaysKeeps, RenewsKeeps
<1> QED BY <1>1, <1>2

LEMMA GrowWithOwnStep ==
  ASSUME Inv, NEW x \in Owners, GrowWithOwn(x)
  PROVE  Inv'
<1>1. CASE Misuse("use after free")
  BY <1>1, MisuseKeeps
<1>2. CASE ~Misuse("use after free")
  <2>1. raw[x] # Stale /\ Stays(x, Append(Text(x), Head(Text(x))))
    BY <1>2 DEF GrowWithOwn
  <2>2. raw[x] \in Addresses /\ Append(Text(x), Head(Text(x))) \in Texts
    BY <2>1, ObjectPoints, GrownIsText DEF GrowWithOwn
  <2> QED BY <2>1, <2>2, StaysKeeps
<1> QED BY <1>1, <1>2

LEMMA ClearStep ==
  ASSUME Inv, NEW x \in Owners, Clear(x)
  PROVE  Inv'
<1>1. CASE raw[x] = Stale
  BY <1>1, MisuseKeeps DEF Clear
<1>2. CASE raw[x] = Null
  BY <1>2, NamesAssumption DEF Clear, vars, Inv, TypeOK, OwnersAreExact, Owned
<1>3. CASE raw[x] # Stale /\ raw[x] # Null
  BY <1>3, ObjectPoints, EmptyIsText, StaysKeeps DEF Clear
<1> QED BY <1>1, <1>2, <1>3

-----------------------------------------------------------------------------
LEMMA InvInit == Init => Inv
<1> SUFFICES ASSUME Init PROVE Inv
  OBVIOUS
<1>1. TypeOK
  BY Kinds, NamesAssumption DEF Init, TypeOK, Variables, Faults
<1>2. \A h \in Variables : raw[h] \notin Addresses
  BY AddressAssumption DEF Init
<1>3. \A a \in Addresses : heap[a] = NoBlock
  BY DEF Init
<1>4. OwnersAreExact
  BY <1>2, <1>3, Kinds DEF OwnersAreExact, Owned
<1> QED BY <1>1, <1>4 DEF Inv

\* One step for each call.
LEMMA InvStep == Inv /\ [Next]_vars => Inv'
<1> SUFFICES ASSUME Inv, [Next]_vars PROVE Inv'
  OBVIOUS
<1>1. ASSUME NEW x \in Owners,
             \/ Destroy(x) \/ Free(x) \/ FreeAndNull(x) \/ GrowWithOwn(x) \/ Clear(x)
             \/ PushBack(x)
             \/ \E c \in Chars : AppendChar(x, c)
      PROVE  Inv'
  BY <1>1, DestroyStep, FreeStep, FreeAndNullStep, GrowWithOwnStep, ClearStep, PushBackStep, AppendCharStep
<1>2. ASSUME NEW x \in Owners, NEW s \in Texts,
             FromLiteral(x, s) \/ AssignText(x, s) \/ ConcatenateLiteral(x, s)
      PROVE  Inv'
  BY <1>2, FromLiteralStep, AssignTextKeeps, ConcatenateLiteralStep
<1>3. ASSUME NEW x \in Owners, NEW p \in Plain, Adopt(x, p) \/ AssignPointer(x, p) \/ Release(x, p)
      PROVE  Inv'
  BY <1>3, AdoptStep, AssignPointerStep, ReleaseStep
<1>4. ASSUME NEW x \in Owners, NEW y \in Owners,
             CopyAssign(x, y) \/ \E z \in Owners : AssignSum(x, y, z)
      PROVE  Inv'
  BY <1>4, CopyAssignStep, AssignSumStep
<1>5. ASSUME NEW x \in Owners, NEW h \in Variables,
             \/ CopyConstruct(x, h) \/ MoveConstruct(x, h) \/ MoveAssign(x, h)
             \/ Concatenate(x, h) \/ ConcatenatePointer(x, h) \/ EqualPointer(x, h)
      PROVE  Inv'
  BY <1>5, CopyConstructStep, MoveConstructStep, MoveAssignStep, ConcatenateStep,
     ConcatenatePointerStep, EqualPointerStep
<1>6. ASSUME NEW p \in Plain,
             \/ FreePlain(p) \/ \E s \in Texts : MakeDynamic(p, s)
             \/ \E h \in Variables : Borrow(p, h)
      PROVE  Inv'
  BY <1>6, FreePlainStep, MakeDynamicStep, BorrowStep
<1>7. CASE UNCHANGED vars
  BY <1>7 DEF vars, Inv, TypeOK, OwnersAreExact, Owned
<1> QED BY <1>1, <1>2, <1>3, <1>4, <1>5, <1>6, <1>7 DEF Next

-----------------------------------------------------------------------------
(* Who misuses memory, and how an object comes to hold a pointer that was  *)
(* freed: what MisuseIsNarrow says of a step.                              *)

Blamed == fault' # fault => fault' # "abort" /\ \E x \in Owners : Misusing(x)
Staled == \A x \in Owners : raw[x] # Stale /\ raw'[x] = Stale => Staling(x)

\* A copy of no characters
Aborting == fault = "none" /\ fault' = "abort" /\ \E x \in Owners : CopiesNothing(x)

LEMMA MisuseIsBlamed ==
  ASSUME NEW f \in {"double free", "use after free", "wild free"}, Misuse(f),
         \E x \in Owners : Misusing(x)
  PROVE  Blamed /\ Staled
  BY DEF Misuse, Blamed, Staled

LEMMA StaleIsBlamed ==
  ASSUME NEW h \in Variables, Usable(h), raw[h] = Stale
  PROVE  \E x \in Owners : Misusing(x)
  BY Kinds DEF Usable, Misusing

\* The objects other than those that point to the block that goes keep what
\* they have.
LEMMA GoneOfOthers ==
  ASSUME Inv, NEW h \in Variables, NEW x \in Owners, raw[x] # raw[h]
  PROVE  Gone(raw[h])[x] = raw[x]
  BY Kinds DEF Gone

\* The calls on an object that free its block and leave it something else.
LEMMA FreesNarrow ==
  ASSUME Inv, NEW x \in Owners, NEW left, left = Stale => Staling(x),
         Frees(raw[x], [Gone(raw[x]) EXCEPT ![x] = left])
  PROVE  Blamed /\ Staled
<1>1. CASE raw[x] = Stale
  BY <1>1, MisuseIsBlamed DEF Frees, Misusing
<1>2. CASE raw[x] # Stale
  <2>1. fault' = fault /\ raw' = [Gone(raw[x]) EXCEPT ![x] = left]
    BY <1>2 DEF Frees
  <2>2. \A y \in Owners \ {x} : raw'[y] = raw[y]
    BY <2>1, Before, Kinds DEF Gone
  <2>3. raw'[x] = left
    BY <2>1, Kinds DEF Gone
  <2> QED BY <2>1, <2>2, <2>3 DEF Blamed, Staled
<1> QED BY <1>1, <1>2

LEMMA RenewsNarrow ==
  ASSUME Inv, NEW x \in Owners, NEW s, Renews(x, s)
  PROVE  Blamed /\ Staled
<1>1. PICK a \in Fresh : raw' = [Gone(raw[x]) EXCEPT ![x] = a] /\ fault' = fault
  BY DEF Renews
<1>2. \A y \in Owners \ {x} : raw'[y] = raw[y]
  BY <1>1, Before, Kinds DEF Gone
<1>3. raw'[x] = a /\ a # Stale
  BY <1>1, Kinds, AddressAssumption DEF Gone, Fresh
<1> QED BY <1>1, <1>2, <1>3 DEF Blamed, Staled

\* A call that changes what two variables hold, and leaves the first no stale
\* pointer that it did not have.
LEMMA MovesNarrow ==
  ASSUME Inv, fault' = fault, NEW k \in Variables, NEW h \in Variables,
         \A l \in Owners \ {k, h} : raw'[l] = raw[l],
         \A l \in {k, h} \cap Owners : raw'[l] # Stale
  PROVE  Blamed /\ Staled
  BY DEF Blamed, Staled

LEMMA MakesNarrow ==
  ASSUME Inv, NEW k \in Variables, NEW s, Makes(k, s) \/ Takes(k, s)
  PROVE  Blamed /\ Staled
<1>1. PICK p \in Addresses \cup {Null} : raw' = [raw EXCEPT ![k] = p] /\ fault' = fault
  BY DEF Makes, Takes, Fresh
<1> QED BY <1>1, Before, Kinds, AddressAssumption, NamesAssumption, MovesNarrow

LEMMA AssignTextNarrow ==
  ASSUME Inv, NEW x \in Owners, NEW s, AssignText(x, s)
  PROVE  Blamed /\ Staled
<1>1. CASE raw[x] = Stale
  BY <1>1, MisuseIsBlamed DEF AssignText, Misusing
<1>2. CASE raw[x] # Stale /\ s = <<>>
  BY <1>2, FreesNarrow, NamesAssumption DEF AssignText
<1>3. CASE raw[x] # Stale /\ s # <<>>
  BY <1>3, RenewsNarrow DEF AssignText
<1> QED BY <1>1, <1>2, <1>3

LEMMA ConcatenateFromNarrow ==
  ASSUME Inv, NEW x \in Owners, NEW s, NEW p, ConcatenateFrom(x, s, p),
         p = raw[x] /\ p # Null => \E y \in Owners : Misusing(y)
  PROVE  Blamed /\ Staled
<1>1. CASE raw[x] = Stale
  BY <1>1, MisuseIsBlamed DEF ConcatenateFrom, Misusing
<1>2. CASE UNCHANGED vars
  BY <1>2 DEF vars, Blamed, Staled
<1>3. CASE p = raw[x] /\ p # Null /\ Misuse("use after free")
  BY <1>3, MisuseIsBlamed
<1>4. CASE Renews(x, Text(x) \o s)
  BY <1>4, RenewsNarrow
<1> QED BY <1>1, <1>2, <1>3, <1>4 DEF ConcatenateFrom

LEMMA StaysNarrow ==
  ASSUME NEW x \in Owners, NEW s, Stays(x, s)
  PROVE  Blamed /\ Staled
  BY DEF Stays, Blamed, Staled

\* The calls on one object alone.
LEMMA ObjectNarrow ==
  ASSUME Inv, NEW x \in Owners,
         \/ Destroy(x) \/ Free(x) \/ FreeAndNull(x) \/ GrowWithOwn(x) \/ Clear(x)
         \/ PushBack(x)
         \/ \E c \in Chars : AppendChar(x, c)
  PROVE  Blamed /\ Staled
<1>1. CASE Destroy(x)
  BY <1>1, FreesNarrow, NamesAssumption DEF Destroy
<1>2. CASE Free(x)
  <2>1. PICK left \in {Null, Stale} : Gone(raw[x]) = [Gone(raw[x]) EXCEPT ![x] = left]
    BY <1>2, GoneIsStale, Kinds DEF Free, Object
  <2>2. Staling(x)
    BY <1>2 DEF Staling
  <2> QED BY <1>2, <2>1, <2>2, FreesNarrow DEF Free
<1>3. CASE FreeAndNull(x)
  BY <1>3, FreesNarrow, NamesAssumption DEF FreeAndNull
<1>4. CASE GrowWithOwn(x)
  <2>1. Misusing(x)
    BY <1>4 DEF Misusing
  <2>2. Misuse("use after free") \/ Stays(x, Append(Text(x), Head(Text(x))))
    BY <1>4 DEF GrowWithOwn
  <2> QED BY <2>1, <2>2, MisuseIsBlamed, StaysNarrow
<1>5. CASE Clear(x)
  <2>1. CASE raw[x] = Stale
    BY <1>5, <2>1, MisuseIsBlamed DEF Clear, Misusing
  <2>2. CASE raw[x] # Stale
    BY <1>5, <2>2, StaysNarrow DEF Clear, vars, Blamed, Staled
  <2> QED BY <2>1, <2>2
<1>6. CASE PushBack(x)
  <2>1. Misusing(x) /\ Staling(x)
    BY <1>6 DEF Misusing, Staling
  <2>2. CASE Misuse("wild free")
    BY <2>1, <2>2, MisuseIsBlamed
  <2>3. CASE raw' = [raw EXCEPT ![x] = Stale] /\ UNCHANGED <<heap, fault>>
    BY <2>1, <2>3, Before, Kinds DEF Blamed, Staled
  <2> QED BY <1>6, <2>2, <2>3 DEF PushBack
<1>7. ASSUME NEW c \in Chars, AppendChar(x, c) PROVE Blamed /\ Staled
  <2>1. CASE raw[x] = Stale
    BY <1>7, <2>1, MisuseIsBlamed DEF AppendChar, Misusing
  <2>2. CASE raw[x] # Stale
    BY <1>7, <2>2, StaysNarrow, RenewsNarrow DEF AppendChar, Enlarges
  <2> QED BY <2>1, <2>2
<1> QED BY <1>1, <1>2, <1>3, <1>4, <1>5, <1>6, <1>7

LEMMA CopyAssignNarrow ==
  ASSUME Inv, NEW x \in Owners, NEW y \in Owners, CopyAssign(x, y)
  PROVE  (Blamed \/ Aborting) /\ Staled
<1>1. x = y => Misusing(x)
  BY DEF Misusing
<1>2. raw[y] = Stale => Misusing(y)
  BY DEF Misusing
<1>3. CASE raw[x] = Stale
  BY <1>3, MisuseIsBlamed DEF CopyAssign, Misusing
<1>4. CASE raw[x] # Stale /\ (raw[y] = Stale \/ (x = y /\ raw[x] # Null))
  BY <1>1, <1>2, <1>4, MisuseIsBlamed DEF CopyAssign
<1>5. CASE raw[x] # Stale /\ ~(raw[y] = Stale \/ (x = y /\ raw[x] # Null)) /\ Text(y) = <<>>
  <2>1. CopiesNothing(x)
    BY <1>5 DEF CopiesNothing
  <2>2. Ready /\ Misuse("abort")
    BY <1>5 DEF CopyAssign
  <2> QED BY <2>1, <2>2 DEF Ready, Misuse, Aborting, Staled
<1>6. CASE raw[x] # Stale /\ ~(raw[y] = Stale \/ (x = y /\ raw[x] # Null)) /\ Text(y) # <<>>
  <2>1. Staling(x)
    BY DEF Staling
  <2> QED BY <1>6, <2>1, FreesNarrow DEF CopyAssign
<1> QED BY <1>3, <1>4, <1>5, <1>6

LEMMA CopyConstructNarrow ==
  ASSUME Inv, NEW x \in Owners, NEW h \in Variables, CopyConstruct(x, h)
  PROVE  (Blamed \/ Aborting) /\ Staled
<1>1. CASE raw[h] = Stale
  BY <1>1, MisuseIsBlamed, StaleIsBlamed DEF CopyConstruct
<1>2. CASE raw[h] # Stale /\ Text(h) = <<>>
  <2>1. CopiesNothing(x)
    BY <1>2 DEF CopiesNothing
  <2>2. Ready /\ Misuse("abort")
    BY <1>2 DEF CopyConstruct, Unborn
  <2> QED BY <2>1, <2>2 DEF Ready, Misuse, Aborting, Staled
<1>3. CASE raw[h] # Stale /\ Text(h) # <<>>
  BY <1>3, MakesNarrow, Kinds DEF CopyConstruct
<1> QED BY <1>1, <1>2, <1>3

LEMMA AssignSumNarrow ==
  ASSUME Inv, NEW x \in Owners, NEW y \in Owners, NEW z \in Owners, AssignSum(x, y, z)
  PROVE  Blamed /\ Staled
<1>1. CASE Stale \in {raw[y], raw[z]}
  BY <1>1, MisuseIsBlamed DEF AssignSum, Misusing
<1>2. CASE Stale \notin {raw[y], raw[z]}
  BY <1>2, AssignTextNarrow DEF AssignSum
<1> QED BY <1>1, <1>2

\* The calls on an object and a plain pointer.
LEMMA PointerNarrow ==
  ASSUME Inv, NEW x \in Owners, NEW p \in Plain, Adopt(x, p) \/ AssignPointer(x, p) \/ Release(x, p)
  PROVE  Blamed /\ Staled
<1>1. CASE Adopt(x, p)
  BY <1>1, Before, Kinds, AddressAssumption, MovesNarrow DEF Adopt
<1>2. CASE AssignPointer(x, p)
  BY <1>2, FreesNarrow, AddressAssumption DEF AssignPointer
<1>3. CASE Release(x, p)
  BY <1>3, Before, Kinds, NamesAssumption, MovesNarrow DEF Release
<1> QED BY <1>1, <1>2, <1>3

LEMMA MoveConstructNarrow ==
  ASSUME Inv, NEW x \in Owners, NEW h \in Variables, MoveConstruct(x, h)
  PROVE  Blamed /\ Staled
<1>1. CASE raw[h] = Stale
  BY <1>1, MisuseIsBlamed, StaleIsBlamed DEF MoveConstruct, Given
<1>2. CASE raw[h] # Stale
  <2>1. fault' = fault /\ raw' = [raw EXCEPT ![x] = raw[h], ![h] = Null]
    BY <1>2 DEF MoveConstruct
  <2> QED BY <1>2, <2>1, Before, Kinds, NamesAssumption, MovesNarrow
<1> QED BY <1>1, <1>2

LEMMA MoveAssignNarrow ==
  ASSUME Inv, NEW x \in Owners, NEW h \in Variables, MoveAssign(x, h)
  PROVE  Blamed /\ Staled
<1>1. CASE raw[x] = Stale
  BY <1>1, MisuseIsBlamed DEF MoveAssign, Frees, Misusing
<1>2. CASE raw[x] # Stale /\ x = h
  <2>1. PICK left \in {Null, Stale} : Gone(raw[x]) = [Gone(raw[x]) EXCEPT ![x] = left]
    BY GoneIsStale, Kinds DEF MoveAssign, Object
  <2>2. Staling(x)
    BY <1>2 DEF Staling
  <2> QED BY <1>2, <2>1, <2>2, FreesNarrow DEF MoveAssign
<1>3. CASE raw[x] # Stale /\ x # h
  <2>1. /\ raw' = [Gone(raw[x]) EXCEPT ![x] = raw[h], ![h] = Null]
        /\ fault' = fault /\ Given(h)
    BY <1>3 DEF MoveAssign, Frees
  <2>2. \A y \in Owners \ {x, h} : raw'[y] = raw[y]
    BY <2>1, Before, Kinds DEF Gone
  <2>3. raw'[h] = Null /\ raw'[x] = raw[h]
    BY <1>3, <2>1, Kinds DEF Gone
  <2>4. raw[h] = Stale => h \in Owners
    BY <2>1, Kinds DEF Given, Usable
  <2>5. raw[h] = Stale => Staling(x)
    BY <2>4 DEF Staling
  <2> QED BY <2>1, <2>2, <2>3, <2>5, NamesAssumption DEF Blamed, Staled
<1> QED BY <1>1, <1>2, <1>3

LEMMA ConcatenateNarrow ==
  ASSUME Inv, NEW x \in Owners, NEW h \in Variables, Concatenate(x, h)
  PROVE  Blamed /\ Staled
<1>1. CASE raw[h] = Stale
  BY <1>1, MisuseIsBlamed, StaleIsBlamed DEF Concatenate
<1>2. CASE raw[h] # Stale
  <2>1. raw[h] = raw[x] => Misusing(x)
    BY DEF Misusing
  <2> QED BY <1>2, <2>1, ConcatenateFromNarrow DEF Concatenate
<1> QED BY <1>1, <1>2

\* ConcatenatePointer, of a pointer p to the text s.
Adds(x, p, s) ==
  /\ Len(Text(x) \o s) <= MaxLen
  /\ IF raw[x] = Stale \/ (raw[x] = p /\ Text(x) # <<>>) THEN Misuse("use after free")
     ELSE IF Text(x) \o s = <<>> THEN Frees(p, Gone(p))
     ELSE \E a \in Fresh :
            /\ heap' = [b \in Addresses |-> IF b = a THEN Text(x) \o s
                                            ELSE IF b \in {raw[x], p} THEN NoBlock ELSE heap[b]]
            /\ raw' = [k \in Variables |-> IF k = x THEN a
                          ELSE IF raw[k] \in {raw[x], p} \cap Addresses THEN Stale ELSE raw[k]]
            /\ fault' = fault

\* The temporary object takes the block of whoever owned it: the call is the
\* same with that object in the place of the pointer.
LEMMA OwnerInPlace ==
  ASSUME NEW x \in Owners, NEW h \in Variables, NEW y \in Owners, raw[y] = raw[h]
  PROVE  /\ ConcatenatePointer(x, h) => ConcatenatePointer(x, y)
         /\ EqualPointer(x, h) => EqualPointer(x, y)
<1>1. Temporary(h) => Temporary(y)
  BY Kinds, AddressAssumption DEF Temporary, Usable
<1>2. Text(y) = Text(h)
  BY DEF Text
<1>3. \A k \in Variables :
        ConcatenatePointer(x, k) <=> Ready /\ Object(x) /\ Temporary(k) /\ Adds(x, raw[k], Text(k))
  BY DEF ConcatenatePointer, Adds
<1>4. ConcatenatePointer(x, h) => ConcatenatePointer(x, y)
  BY <1>1, <1>2, <1>3, Kinds
<1>5. EqualPointer(x, h) => EqualPointer(x, y)
  BY <1>1 DEF EqualPointer
<1> QED BY <1>4, <1>5

LEMMA ConcatenatePointerNarrow ==
  ASSUME Inv, NEW x \in Owners, NEW h \in Variables, ConcatenatePointer(x, h)
  PROVE  Blamed /\ Staled
<1>0. raw[h] \in Addresses /\ raw[h] # Stale
  BY AddressAssumption DEF ConcatenatePointer, Temporary
<1>1. CASE raw[x] = Stale \/ (raw[x] = raw[h] /\ Text(x) # <<>>)
  <2>1. Misuse("use after free")
    BY <1>1 DEF ConcatenatePointer
  <2>2. Misusing(x)
    BY <1>1 DEF Misusing
  <2> QED BY <2>1, <2>2, MisuseIsBlamed
<1>2. CASE ~(raw[x] = Stale \/ (raw[x] = raw[h] /\ Text(x) # <<>>))
  <2>1. /\ fault' = fault
        /\ \A y \in Owners : raw'[y] = raw[y] \/ raw[y] = raw[h] \/ raw'[y] # Stale
    <3>1. CASE Text(x) \o Text(h) = <<>>
      <4>1. fault' = fault /\ raw' = Gone(raw[h])
        BY <1>0, <1>2, <3>1 DEF ConcatenatePointer, Frees
      <4> QED BY <4>1, GoneOfOthers
    <3>2. CASE Text(x) \o Text(h) # <<>>
      <4>1. PICK a \in Fresh :
              /\ fault' = fault
              /\ raw' = [k \in Variables |-> IF k = x THEN a
                          ELSE IF raw[k] \in {raw[x], raw[h]} \cap Addresses THEN Stale ELSE raw[k]]
        BY <1>2, <3>2 DEF ConcatenatePointer
      <4>2. a # Stale
        BY AddressAssumption DEF Fresh
      <4> QED BY <4>1, <4>2, Before, Kinds
    <3> QED BY <3>1, <3>2
  <2>2. ASSUME NEW y \in Owners, raw[y] # Stale, raw'[y] = Stale PROVE Staling(y)
    <3>1. raw[y] = raw[h]
      BY <2>1, <2>2
    <3>2. ConcatenatePointer(x, y)
      BY <3>1, OwnerInPlace
    <3> QED BY <3>2 DEF Staling
  <2> QED BY <2>1, <2>2 DEF Blamed, Staled
<1> QED BY <1>1, <1>2

LEMMA EqualPointerNarrow ==
  ASSUME Inv, NEW x \in Owners, NEW h \in Variables, EqualPointer(x, h)
  PROVE  Blamed /\ Staled
<1>0. raw[h] \in Addresses /\ raw[h] # Stale
  BY AddressAssumption DEF EqualPointer, Temporary
<1>1. CASE raw[x] = Stale
  BY <1>1, MisuseIsBlamed DEF EqualPointer, Misusing
<1>2. CASE raw[x] # Stale
  <2>1. fault' = fault /\ raw' = Gone(raw[h])
    BY <1>0, <1>2 DEF EqualPointer, Frees
  <2>2. ASSUME NEW y \in Owners, raw[y] # Stale, raw'[y] = Stale PROVE Staling(y)
    <3>1. raw[y] = raw[h]
      BY <2>1, <2>2, GoneOfOthers
    <3>2. EqualPointer(x, y)
      BY <3>1, OwnerInPlace
    <3> QED BY <3>2 DEF Staling
  <2> QED BY <2>1, <2>2 DEF Blamed, Staled
<1> QED BY <1>1, <1>2

\* The calls on plain pointers, which take nothing from an object.
LEMMA PlainNarrow ==
  ASSUME Inv, NEW p \in Plain,
         \/ FreePlain(p) \/ \E s \in Texts : MakeDynamic(p, s)
         \/ \E h \in Variables : Borrow(p, h)
  PROVE  Blamed /\ Staled
<1>1. CASE FreePlain(p)
  <2>1. raw[p] # Stale /\ \A y \in Owners : raw[p] \in Addresses => raw[y] # raw[p]
    BY <1>1, GivenIsFree, Kinds DEF FreePlain, Given, Usable
  <2>2. fault' = fault /\ raw' = Gone(raw[p])
    BY <1>1, <2>1 DEF FreePlain, Frees
  <2>3. \A y \in Owners : raw'[y] = raw[y]
    BY <2>1, <2>2, Kinds DEF Gone
  <2> QED BY <2>2, <2>3 DEF Blamed, Staled
<1>2. ASSUME NEW s \in Texts, MakeDynamic(p, s) PROVE Blamed /\ Staled
  BY <1>2, MakesNarrow, Kinds DEF MakeDynamic
<1>3. ASSUME NEW h \in Variables, Borrow(p, h) PROVE Blamed /\ Staled
  BY <1>3, Before, Kinds, MovesNarrow DEF Borrow
<1> QED BY <1>1, <1>2, <1>3

LEMMA NarrowStep == Inv /\ Next => (Blamed \/ Aborting) /\ Staled
<1> SUFFICES ASSUME Inv, Next PROVE (Blamed \/ Aborting) /\ Staled
  OBVIOUS
<1>1. ASSUME NEW x \in Owners, NEW s \in Texts,
             FromLiteral(x, s) \/ AssignText(x, s) \/ ConcatenateLiteral(x, s)
      PROVE  Blamed /\ Staled
  BY <1>1, MakesNarrow, AssignTextNarrow, ConcatenateFromNarrow, Kinds DEF FromLiteral, ConcatenateLiteral
<1> QED
  BY <1>1, ObjectNarrow, CopyConstructNarrow, CopyAssignNarrow, AssignSumNarrow, PointerNarrow,
     MoveConstructNarrow, MoveAssignNarrow, ConcatenateNarrow, ConcatenatePointerNarrow,
     EqualPointerNarrow, PlainNarrow
  DEF Next

LEMMA NextIsReady == Next => Ready
  BY DEF Next, Destroy, Free, FreeAndNull, GrowWithOwn, Clear, PushBack, AppendChar, FromLiteral,
     AssignText, ConcatenateLiteral, Adopt, AssignPointer, Release, CopyAssign, AssignSum,
     CopyConstruct, MoveConstruct, MoveAssign, Concatenate, ConcatenatePointer, EqualPointer,
     FreePlain, MakeDynamic, Borrow, Unborn

LEMMA CopiesNothingAborts ==
  ASSUME NEW x \in Owners, CopiesNothing(x)
  PROVE  fault' = "abort"
<1>1. ASSUME NEW h \in Variables, CopyConstruct(x, h), raw[h] # Stale, Text(h) = <<>>
      PROVE  fault' = "abort"
  BY <1>1 DEF CopyConstruct, Misuse
<1>2. ASSUME NEW y \in Owners, CopyAssign(x, y), Stale \notin {raw[x], raw[y]}, Text(y) = <<>>,
             x = y => raw[x] = Null
      PROVE  fault' = "abort"
  BY <1>2 DEF CopyAssign, Misuse
<1> QED BY <1>1, <1>2 DEF CopiesNothing

LEMMA AbortStep == Inv /\ Next => (fault' = "abort" <=> fault = "none" /\ \E x \in Owners : CopiesNothing(x))
<1> SUFFICES ASSUME Inv, Next
             PROVE  fault' = "abort" <=> fault = "none" /\ \E x \in Owners : CopiesNothing(x)
  OBVIOUS
<1>1. fault = "none"
  BY NextIsReady DEF Ready
<1>2. ASSUME fault' = "abort" PROVE \E x \in Owners : CopiesNothing(x)
  BY <1>1, <1>2, NarrowStep DEF Blamed, Aborting
<1> QED BY <1>1, <1>2, CopiesNothingAborts

-----------------------------------------------------------------------------
\* The types of the strings in C++, through every call of raii::string.
THEOREM TypeCorrect == Spec => []TypeOK
<1>1. Inv => TypeOK
  BY DEF Inv
<1> QED BY <1>1, InvInit, InvStep, PTL DEF Spec

\* Whatever temporary objects the conversions make, the characters of a string
\* have at most one object that frees them and always some variable that points
\* to them: for any number of strings of any length.
THEOREM OneOwner == Spec => []OwnersAreExact
<1>1. Inv => OwnersAreExact
  BY DEF Inv
<1> QED BY <1>1, InvInit, InvStep, PTL DEF Spec

\* Only the calls that MisuseIsNarrow names leave an object with a pointer that
\* was freed, or misuse memory, and the program aborts when a string of no
\* characters is copied (the assertion of the constructor from a pointer) and
\* at no other call.
THEOREM MisuseIsNamed == Spec => MisuseIsNarrow
<1>1. Inv /\ [Next]_vars =>
        [/\ fault' \notin {fault, "abort"} => \E x \in Owners : Misusing(x)
         /\ fault' = "abort" <=> fault = "none" /\ \E x \in Owners : CopiesNothing(x)
         /\ \A x \in Owners : raw[x] # Stale /\ raw'[x] = Stale => Staling(x)]_vars
  BY NarrowStep, AbortStep DEF Blamed, Aborting, Staled
<1> QED BY <1>1, InvInit, InvStep, PTL DEF Spec, MisuseIsNarrow

-----------------------------------------------------------------------------
(* What a call does to the texts that the objects hold: Objects. *)

LEMMA AssignByTexts ==
  ASSUME NEW x \in Owners, NEW s, Text(x)' = s, \A y \in Owners \ {x} : Text(y)' = Text(y)
  PROVE  O!Assign(x, s)
<1> DEFINE held == [y \in Owners |-> Text(y)]
<1>1. held' = [held EXCEPT ![x] = s]
  OBVIOUS
<1> QED BY <1>1 DEF O!Assign

LEMMA MoveByTexts ==
  ASSUME NEW x \in Owners, NEW h \in Owners \ {x}, Text(x)' = Text(h), Text(h)' = <<>>,
         \A y \in Owners \ {x, h} : Text(y)' = Text(y)
  PROVE  O!Move(x, h)
<1> DEFINE held == [y \in Owners |-> Text(y)]
<1>1. held' = [held EXCEPT ![x] = held[h], ![h] = <<>>]
  OBVIOUS
<1> QED BY <1>1 DEF O!Move

LEMMA BecomeByTexts ==
  ASSUME NEW X, \A y \in Owners : Text(y)' = IF y \in X THEN <<>> ELSE Text(y)
  PROVE  O!Become(X, <<>>)
  BY DEF O!Become

LEMMA WithinByTexts ==
  ASSUME NEW X, \A y \in Owners \ X : Text(y)' = Text(y)
  PROVE  O!Within(X)
  BY DEF O!Within

\* A variable that keeps its pointer, and whose block is not touched, has its text.
LEMMA TextStays ==
  ASSUME NEW y, raw'[y] = raw[y], raw[y] \in Addresses => heap'[raw[y]] = heap[raw[y]]
  PROVE  Text(y)' = Text(y)
  BY DEF Text

LEMMA NoText ==
  ASSUME NEW y, raw'[y] \in {Dead, Null, Stale}
  PROVE  Text(y)' = <<>>
  BY AddressAssumption DEF Text

LEMMA NotMisused ==
  ASSUME NEW f \in {"double free", "use after free", "wild free", "abort"}, Misuse(f), fault' = "none"
  PROVE  FALSE
  BY DEF Misuse

\* The text at p goes: objects that do not point to it keep theirs.
LEMMA FreedTexts ==
  ASSUME Inv, NEW p, NEW newRaw, Frees(p, newRaw), fault' = "none"
  PROVE  /\ raw' = newRaw /\ heap' = Without(p)
         /\ \A y \in Variables : raw'[y] = raw[y] /\ (raw[y] \in Addresses => raw[y] # p)
              => Text(y)' = Text(y)
         /\ \A y \in Variables : raw'[y] \in Addresses /\ raw'[y] # p => heap'[raw'[y]] = heap[raw'[y]]
<1>1. raw' = newRaw /\ heap' = Without(p)
  BY NotMisused DEF Frees
<1>2. \A c \in Addresses : c # p => heap'[c] = heap[c]
  BY <1>1, Before DEF Without, HeapOK
<1> QED BY <1>1, <1>2, TextStays

LEMMA FreesTexts ==
  ASSUME Inv, NEW h \in Variables, NEW left \in {Dead, Null, Stale}, fault' = "none",
         Frees(raw[h], [Gone(raw[h]) EXCEPT ![h] = left])
  PROVE  /\ Text(h)' = <<>>
         /\ \A y \in Variables \ {h} : (raw[h] \in Addresses => raw[y] # raw[h]) => Text(y)' = Text(y)
<1>1. raw' = [Gone(raw[h]) EXCEPT ![h] = left]
  BY FreedTexts
<1>2. /\ raw'[h] = left
      /\ \A y \in Variables \ {h} :
           raw'[y] = IF raw[h] \in Addresses /\ raw[y] = raw[h] THEN Stale ELSE raw[y]
  BY <1>1, Before DEF Gone
<1>3. Text(h)' = <<>>
  BY <1>2, NoText
<1> QED BY <1>2, <1>3, FreedTexts

\* Of an object: none but that object is changed.
LEMMA FreesAssigns ==
  ASSUME Inv, NEW x \in Owners, NEW left \in {Dead, Null, Stale}, fault' = "none",
         Frees(raw[x], [Gone(raw[x]) EXCEPT ![x] = left])
  PROVE  O!Assign(x, <<>>)
<1>1. \A y \in Owners \ {x} : raw[x] \in Addresses => raw[y] # raw[x]
  BY Before
<1> QED BY <1>1, FreesTexts, AssignByTexts, Kinds

LEMMA FreesGoneTexts ==
  ASSUME Inv, NEW h \in Variables, raw[h] # Dead, fault' = "none", Frees(raw[h], Gone(raw[h]))
  PROVE  /\ Text(h)' = <<>>
         /\ \A y \in Variables \ {h} : (raw[h] \in Addresses => raw[y] # raw[h]) => Text(y)' = Text(y)
<1>1. PICK left \in {Null, Stale} : Gone(raw[h]) = [Gone(raw[h]) EXCEPT ![h] = left]
  BY GoneIsStale
<1> QED BY <1>1, FreesTexts

\* A new block a with s for k, those of F freed.
TakesBlock(k, a, s, F) ==
  /\ \A b \in Addresses : heap'[b] = IF b = a THEN s ELSE IF b \in F THEN NoBlock ELSE heap[b]
  /\ \A h \in Variables :
       raw'[h] = IF h = k THEN a ELSE IF raw[h] \in F \cap Addresses THEN Stale ELSE raw[h]

LEMMA NewTexts ==
  ASSUME Inv, NEW k \in Variables, NEW a, a \in Fresh, NEW s, NEW F, TakesBlock(k, a, s, F)
  PROVE  /\ Text(k)' = s
         /\ \A y \in Variables \ {k} : (raw[y] \in Addresses => raw[y] \notin F) => Text(y)' = Text(y)
<1>0. /\ \A b \in Addresses : heap'[b] = IF b = a THEN s ELSE IF b \in F THEN NoBlock ELSE heap[b]
      /\ \A h \in Variables :
           raw'[h] = IF h = k THEN a ELSE IF raw[h] \in F \cap Addresses THEN Stale ELSE raw[h]
  BY DEF TakesBlock
<1>1. a \in Addresses /\ \A h \in Variables : raw[h] # a
  BY Before, EmptyIsText DEF Fresh
<1>2. Text(k)' = s
  BY <1>0, <1>1 DEF Text
<1>3. ASSUME NEW y \in Variables \ {k}, raw[y] \in Addresses => raw[y] \notin F
      PROVE  Text(y)' = Text(y)
  BY <1>0, <1>1, <1>3, TextStays
<1> QED BY <1>2, <1>3

LEMMA TakesTexts ==
  ASSUME Inv, NEW k \in Variables, NEW s, Takes(k, s)
  PROVE  Text(k)' = s /\ \A y \in Variables \ {k} : Text(y)' = Text(y)
<1>1. PICK a \in Fresh : heap' = [heap EXCEPT ![a] = s] /\ raw' = [raw EXCEPT ![k] = a]
  BY DEF Takes
<1>2. a \in Addresses
  BY DEF Fresh
<1>3. TakesBlock(k, a, s, {})
  BY <1>1, <1>2, Before DEF HeapOK, TakesBlock
<1>4. /\ Text(k)' = s
      /\ \A y \in Variables \ {k} : (raw[y] \in Addresses => raw[y] \notin {}) => Text(y)' = Text(y)
  BY <1>1, <1>3, NewTexts
<1> QED BY <1>4

LEMMA RenewsAssigns ==
  ASSUME Inv, NEW x \in Owners, NEW s, Renews(x, s)
  PROVE  O!Assign(x, s)
<1>0. x \in Variables
  BY Kinds
<1>1. PICK a \in Fresh : heap' = [Without(raw[x]) EXCEPT ![a] = s] /\ raw' = [Gone(raw[x]) EXCEPT ![x] = a]
  BY DEF Renews
<1>2. a \in Addresses
  BY DEF Fresh
<1>3. \A b \in Addresses : heap'[b] = IF b = a THEN s ELSE IF b \in {raw[x]} THEN NoBlock ELSE heap[b]
  BY <1>1, <1>2, Before DEF HeapOK, Without
<1>4. \A h \in Variables :
        raw'[h] = IF h = x THEN a ELSE IF raw[h] \in {raw[x]} \cap Addresses THEN Stale ELSE raw[h]
  BY <1>0, <1>1, <1>2, Before DEF Gone
<1>5. TakesBlock(x, a, s, {raw[x]})
  BY <1>3, <1>4 DEF TakesBlock
<1>6. \A y \in Owners \ {x} : y \in Variables \ {x} /\ (raw[y] \in Addresses => raw[y] \notin {raw[x]})
  BY <1>0, Before, Kinds
<1>7. /\ Text(x)' = s
      /\ \A y \in Variables \ {x} : (raw[y] \in Addresses => raw[y] \notin {raw[x]}) => Text(y)' = Text(y)
  BY <1>0, <1>1, <1>5, NewTexts
<1>8. Text(x)' = s /\ \A y \in Owners \ {x} : Text(y)' = Text(y)
  BY <1>6, <1>7
<1> QED BY <1>8, AssignByTexts

LEMMA MakesTexts ==
  ASSUME Inv, NEW k \in Variables, NEW s, Makes(k, s)
  PROVE  Text(k)' = s /\ \A y \in Variables \ {k} : Text(y)' = Text(y)
<1>1. CASE s = <<>>
  <2>1. raw' = [raw EXCEPT ![k] = Null] /\ heap' = heap
    BY <1>1 DEF Makes
  <2>2. raw'[k] = Null /\ \A y \in Variables \ {k} : raw'[y] = raw[y]
    BY <2>1, Before
  <2> QED BY <1>1, <2>1, <2>2, NoText, TextStays
<1>2. CASE s # <<>>
  BY <1>2, TakesTexts DEF Makes
<1> QED BY <1>1, <1>2

LEMMA StaysAssigns ==
  ASSUME Inv, NEW x \in Owners, raw[x] \in Addresses, NEW s, Stays(x, s)
  PROVE  O!Assign(x, s)
<1>1. raw' = raw /\ \A c \in Addresses : heap'[c] = IF c = raw[x] THEN s ELSE heap[c]
  BY Before DEF Stays, HeapOK
<1>2. Text(x)' = s
  BY <1>1 DEF Text
<1>3. \A y \in Owners \ {x} : Text(y)' = Text(y)
  BY <1>1, Before, TextStays
<1> QED BY <1>2, <1>3, AssignByTexts

LEMMA AssignTextAssigns ==
  ASSUME Inv, NEW x \in Owners, NEW s, AssignText(x, s), fault' = "none"
  PROVE  O!Assign(x, s)
<1>1. raw[x] # Stale
  BY NotMisused DEF AssignText
<1>2. CASE s = <<>>
  BY <1>1, <1>2, FreesAssigns DEF AssignText
<1>3. CASE s # <<>>
  BY <1>1, <1>3, RenewsAssigns DEF AssignText
<1> QED BY <1>2, <1>3

LEMMA NothingAdded ==
  ASSUME NEW s \in Texts, NEW t \in Texts, s \o t = <<>>
  PROVE  s = <<>>
<1>1. s \in Seq(Chars) /\ t \in Seq(Chars)
  BY TextsAreSequences
<1>2. Len(s \o t) = Len(s) + Len(t) /\ Len(s \o t) = 0
  BY <1>1
<1> QED BY <1>1, <1>2

LEMMA ConcatenateFromAssigns ==
  ASSUME Inv, NEW x \in Owners, NEW s \in Texts, NEW p, ConcatenateFrom(x, s, p), fault' = "none"
  PROVE  O!Assign(x, Text(x) \o s)
<1>1. CASE Text(x) \o s = <<>> /\ UNCHANGED vars
  <2>1. Text(x) = Text(x) \o s
    BY <1>1, NothingAdded, TextIsText, Kinds
  <2>2. \A y \in Owners : Text(y)' = Text(y)
    BY <1>1 DEF vars, Text
  <2>3. Text(x)' = Text(x) \o s
    BY <2>1, <2>2
  <2> QED BY <2>2, <2>3, AssignByTexts
<1>2. CASE Renews(x, Text(x) \o s)
  BY <1>2, RenewsAssigns
<1> QED BY <1>1, <1>2, NotMisused DEF ConcatenateFrom

-----------------------------------------------------------------------------
(* The calls. *)

LEMMA ObjectCalls ==
  ASSUME Inv, NEW x \in Owners, fault' = "none",
         Destroy(x) \/ Free(x) \/ FreeAndNull(x) \/ Clear(x) \/ \E p \in Plain : Release(x, p)
  PROVE  O!Assign(x, <<>>)
<1>1. CASE Destroy(x) \/ FreeAndNull(x)
  BY <1>1, FreesAssigns DEF Destroy, FreeAndNull
<1>2. CASE Free(x)
  <2>1. PICK left \in {Null, Stale} : Gone(raw[x]) = [Gone(raw[x]) EXCEPT ![x] = left]
    BY <1>2, GoneIsStale, Kinds DEF Free, Object
  <2>2. Frees(raw[x], [Gone(raw[x]) EXCEPT ![x] = left])
    BY <1>2, <2>1 DEF Free
  <2> QED BY <2>2, FreesAssigns
<1>3. CASE Clear(x)
  <2>1. raw[x] # Stale /\ Object(x)
    BY <1>3, NotMisused DEF Clear
  <2>2. CASE raw[x] = Null
    <3>1. UNCHANGED vars
      BY <1>3, <2>1, <2>2 DEF Clear
    <3>2. \A y \in Owners : Text(y)' = Text(y)
      BY <3>1 DEF vars, Text
    <3>3. Text(x)' = <<>>
      BY <2>2, <3>1, NoText DEF vars
    <3> QED BY <3>2, <3>3, AssignByTexts
  <2>3. CASE raw[x] # Null
    BY <1>3, <2>1, <2>3, ObjectPoints, StaysAssigns DEF Clear
  <2> QED BY <2>2, <2>3
<1>4. ASSUME NEW p \in Plain, Release(x, p)
      PROVE  O!Assign(x, <<>>)
  <2>1. raw' = [raw EXCEPT ![p] = raw[x], ![x] = Null] /\ heap' = heap
    BY <1>4 DEF Release
  <2>2. raw'[x] = Null /\ \A y \in Owners \ {x} : raw'[y] = raw[y]
    BY <2>1, Before, Kinds
  <2>3. Text(x)' = <<>>
    BY <2>2, NoText
  <2>4. \A y \in Owners \ {x} : Text(y)' = Text(y)
    BY <2>1, <2>2, TextStays
  <2> QED BY <2>3, <2>4, AssignByTexts
<1> QED BY <1>1, <1>2, <1>3, <1>4

LEMMA TextCalls ==
  ASSUME Inv, NEW x \in Owners, NEW s \in Texts, fault' = "none"
  PROVE  /\ FromLiteral(x, s) \/ AssignText(x, s) => O!Assign(x, s)
         /\ ConcatenateLiteral(x, s) => O!Assign(x, Text(x) \o s)
<1>1. ASSUME FromLiteral(x, s) PROVE O!Assign(x, s)
  BY <1>1, MakesTexts, AssignByTexts, Kinds DEF FromLiteral
<1>2. ASSUME ConcatenateLiteral(x, s) PROVE O!Assign(x, Text(x) \o s)
  BY <1>2, ConcatenateFromAssigns DEF ConcatenateLiteral
<1> QED BY <1>1, <1>2, AssignTextAssigns

LEMMA AppendCharCall ==
  ASSUME Inv, NEW x \in Owners, NEW c \in Chars, AppendChar(x, c), fault' = "none"
  PROVE  O!Assign(x, Append(Text(x), c))
<1>1. raw[x] # Stale /\ Object(x) /\ raw[x] # Null
  BY NotMisused DEF AppendChar
<1>2. Enlarges(x, Append(Text(x), c))
  BY <1>1 DEF AppendChar
<1> QED BY <1>1, <1>2, ObjectPoints, StaysAssigns, RenewsAssigns DEF Enlarges

LEMMA SumCalls ==
  ASSUME Inv, NEW x \in Owners, NEW y \in Owners, NEW z \in Owners, fault' = "none"
  PROVE  /\ AssignSum(x, y, z) => O!Assign(x, Text(y) \o Text(z))
         /\ CopyAssign(x, y) => O!Assign(x, <<>>)
<1>1. ASSUME AssignSum(x, y, z) PROVE O!Assign(x, Text(y) \o Text(z))
  BY <1>1, NotMisused, AssignTextAssigns DEF AssignSum
<1>2. ASSUME CopyAssign(x, y) PROVE O!Assign(x, <<>>)
  <2>1. Frees(raw[x], [Gone(raw[x]) EXCEPT ![x] = Stale])
    BY <1>2, NotMisused DEF CopyAssign
  <2> QED BY <2>1, FreesAssigns
<1> QED BY <1>1, <1>2

LEMMA GrowWithOwnCall ==
  ASSUME Inv, NEW x \in Owners, GrowWithOwn(x), fault' = "none"
  PROVE  O!Assign(x, Append(Text(x), Head(Text(x))))
<1>1. raw[x] # Stale /\ Object(x) /\ raw[x] # Null
  BY NotMisused DEF GrowWithOwn
<1>2. Stays(x, Append(Text(x), Head(Text(x))))
  BY <1>1, NotMisused DEF GrowWithOwn
<1> QED BY <1>1, <1>2, ObjectPoints, StaysAssigns

LEMMA PushBackCall ==
  ASSUME Inv, NEW x \in Owners, PushBack(x), fault' = "none"
  PROVE  O!Within({})
<1>1. raw[x] = Dead /\ raw' = [raw EXCEPT ![x] = Stale] /\ heap' = heap
  BY NotMisused DEF PushBack, Unborn
<1>2. raw'[x] = Stale /\ \A y \in Owners \ {x} : raw'[y] = raw[y]
  BY <1>1, Before, Kinds
<1>3. Text(x)' = <<>> /\ Text(x) = <<>>
  BY <1>1, <1>2, NoText, AddressAssumption DEF Text
<1>4. \A y \in Owners \ {x} : Text(y)' = Text(y)
  BY <1>1, <1>2, TextStays
<1>5. \A y \in Owners : Text(y)' = Text(y)
  BY <1>3, <1>4
<1> QED BY <1>5, WithinByTexts

\* An object that keeps the pointer itself.
LEMMA PointerCalls ==
  ASSUME Inv, NEW x \in Owners, NEW p \in Plain, fault' = "none", Adopt(x, p) \/ AssignPointer(x, p)
  PROVE  O!Assign(x, Text(p))
<1>1. CASE Adopt(x, p)
  <2>1. raw' = [raw EXCEPT ![x] = raw[p]] /\ heap' = heap
    BY <1>1 DEF Adopt
  <2>2. raw'[x] = raw[p] /\ \A y \in Owners \ {x} : raw'[y] = raw[y]
    BY <2>1, Before, Kinds
  <2>3. Text(x)' = Text(p)
    BY <2>1, <2>2 DEF Text
  <2>4. \A y \in Owners \ {x} : Text(y)' = Text(y)
    BY <2>1, <2>2, TextStays
  <2> QED BY <2>3, <2>4, AssignByTexts
<1>2. CASE AssignPointer(x, p)
  <2>1. /\ Frees(raw[x], [Gone(raw[x]) EXCEPT ![x] = raw[p]])
        /\ Given(p) /\ raw[p] \in Addresses
    BY <1>2 DEF AssignPointer
  <2>2. /\ raw' = [Gone(raw[x]) EXCEPT ![x] = raw[p]]
        /\ \A y \in Variables : raw'[y] = raw[y] /\ (raw[y] \in Addresses => raw[y] # raw[x])
             => Text(y)' = Text(y)
        /\ \A y \in Variables : raw'[y] \in Addresses /\ raw'[y] # raw[x] => heap'[raw'[y]] = heap[raw'[y]]
    BY <2>1, FreedTexts
  <2>3. /\ raw'[x] = raw[p]
        /\ \A y \in Owners \ {x} :
             raw'[y] = IF raw[x] \in Addresses /\ raw[y] = raw[x] THEN Stale ELSE raw[y]
    BY <2>2, Before, Kinds DEF Gone
  <2>4. raw[p] # raw[x]
    BY <2>1, GivenIsFree, Kinds
  <2>5. Text(x)' = Text(p)
    BY <2>1, <2>2, <2>3, <2>4, Kinds DEF Text
  <2>6. \A y \in Owners \ {x} : raw'[y] = raw[y] /\ (raw[y] \in Addresses => raw[y] # raw[x])
    BY <2>3, Before
  <2>7. \A y \in Owners \ {x} : Text(y)' = Text(y)
    BY <2>2, <2>6, Kinds
  <2> QED BY <2>5, <2>7, AssignByTexts
<1> QED BY <1>1, <1>2

LEMMA CopyConstructCall ==
  ASSUME Inv, NEW x \in Owners, NEW h \in Variables, CopyConstruct(x, h), fault' = "none"
  PROVE  O!Assign(x, Text(h))
  BY NotMisused, TakesTexts, AssignByTexts, Kinds DEF CopyConstruct

\* What h pointed to is what x points to, and h to nothing.
LEMMA MovedTexts ==
  ASSUME NEW x \in Owners, NEW h \in Variables \ {x}, Text(x)' = Text(h),
         h \in Owners => Text(h)' = <<>>, \A y \in Owners \ {x, h} : Text(y)' = Text(y)
  PROVE  IF h \in Owners THEN O!Move(x, h) ELSE O!Assign(x, Text(h))
<1>1. CASE h \in Owners
  BY <1>1, MoveByTexts
<1>2. CASE h \notin Owners
  BY <1>2, AssignByTexts
<1> QED BY <1>1, <1>2

LEMMA MoveConstructCall ==
  ASSUME Inv, NEW x \in Owners, NEW h \in Variables, MoveConstruct(x, h), fault' = "none", x # h
  PROVE  IF h \in Owners THEN O!Move(x, h) ELSE O!Assign(x, Text(h))
<1>1. raw' = [raw EXCEPT ![x] = raw[h], ![h] = Null] /\ heap' = heap
  BY NotMisused DEF MoveConstruct
<1>2. raw'[x] = raw[h] /\ raw'[h] = Null /\ \A y \in Owners \ {x, h} : raw'[y] = raw[y]
  BY <1>1, Before, Kinds
<1>3. Text(x)' = Text(h)
  BY <1>1, <1>2 DEF Text
<1>4. Text(h)' = <<>>
  BY <1>2, NoText
<1>5. \A y \in Owners \ {x, h} : Text(y)' = Text(y)
  BY <1>1, <1>2, TextStays
<1> QED BY <1>3, <1>4, <1>5, MovedTexts

LEMMA MoveAssignCall ==
  ASSUME Inv, NEW x \in Owners, NEW h \in Variables, MoveAssign(x, h), fault' = "none", x # h
  PROVE  IF h \in Owners THEN O!Move(x, h) ELSE O!Assign(x, Text(h))
<1>1. Frees(raw[x], [Gone(raw[x]) EXCEPT ![x] = raw[h], ![h] = Null]) /\ Given(h)
  BY DEF MoveAssign
<1>2. /\ raw' = [Gone(raw[x]) EXCEPT ![x] = raw[h], ![h] = Null]
      /\ \A y \in Variables : raw'[y] = raw[y] /\ (raw[y] \in Addresses => raw[y] # raw[x])
           => Text(y)' = Text(y)
      /\ \A y \in Variables : raw'[y] \in Addresses /\ raw'[y] # raw[x] => heap'[raw'[y]] = heap[raw'[y]]
  BY <1>1, FreedTexts
<1>3. /\ raw'[x] = raw[h] /\ raw'[h] = Null
      /\ \A y \in Owners \ {x, h} :
           raw'[y] = IF raw[x] \in Addresses /\ raw[y] = raw[x] THEN Stale ELSE raw[y]
  BY <1>2, Before, Kinds DEF Gone
<1>4. raw[h] \in Addresses => raw[h] # raw[x]
  BY <1>1, GivenIsFree
<1>5. raw'[x] \in Addresses => heap'[raw'[x]] = heap[raw'[x]]
  BY <1>2, <1>3, <1>4, Kinds
<1>6. Text(x)' = Text(h)
  BY <1>3, <1>5 DEF Text
<1>7. Text(h)' = <<>>
  BY <1>3, NoText
<1>8. \A y \in Owners \ {x, h} : raw'[y] = raw[y] /\ (raw[y] \in Addresses => raw[y] # raw[x])
  BY <1>3, Before
<1>9. \A y \in Owners \ {x, h} : Text(y)' = Text(y)
  BY <1>2, <1>8, Kinds
<1> QED BY <1>6, <1>7, <1>9, MovedTexts

LEMMA MoveToSelf ==
  ASSUME Inv, NEW x \in Owners, MoveAssign(x, x), fault' = "none"
  PROVE  O!Assign(x, <<>>)
<1>1. Object(x) /\ Frees(raw[x], Gone(raw[x]))
  BY DEF MoveAssign
<1>2. PICK left \in {Null, Stale} : Gone(raw[x]) = [Gone(raw[x]) EXCEPT ![x] = left]
  BY <1>1, GoneIsStale, Kinds DEF Object
<1>3. Frees(raw[x], [Gone(raw[x]) EXCEPT ![x] = left])
  BY <1>1, <1>2
<1> QED BY <1>3, FreesAssigns

LEMMA ConcatenateCall ==
  ASSUME Inv, NEW x \in Owners, NEW h \in Variables, Concatenate(x, h), fault' = "none"
  PROVE  O!Assign(x, Text(x) \o Text(h))
  BY NotMisused, ConcatenateFromAssigns, TextIsText DEF Concatenate

\* The temporary that adopts what h points to frees it.
LEMMA AdoptedTexts ==
  ASSUME Inv, NEW h \in Variables, Temporary(h), Frees(raw[h], Gone(raw[h])), fault' = "none"
  PROVE  \A y \in Owners : Text(y)' = IF y \in Pointed(h) THEN <<>> ELSE Text(y)
<1>1. raw[h] \in Addresses /\ raw[h] # Dead
  BY DEF Temporary, Usable
<1>2. \A y \in Owners \ Pointed(h) : raw[y] # raw[h] /\ y \in Variables \ {h}
  BY <1>1, Kinds DEF Pointed
<1>3. \A y \in Owners \ Pointed(h) : Text(y)' = Text(y)
  BY <1>1, <1>2, FreesGoneTexts
<1>4. ASSUME NEW y \in Pointed(h) PROVE Text(y)' = <<>>
  <2>1. raw'[y] = Stale
    BY <1>1, FreedTexts, Kinds DEF Gone, Pointed
  <2> QED BY <2>1, NoText
<1> QED BY <1>3, <1>4

LEMMA EqualPointerCall ==
  ASSUME Inv, NEW x \in Owners, NEW h \in Variables, EqualPointer(x, h), fault' = "none"
  PROVE  O!Become(Pointed(h), <<>>)
<1>1. Temporary(h) /\ Frees(raw[h], Gone(raw[h]))
  BY NotMisused DEF EqualPointer
<1> QED BY <1>1, AdoptedTexts, BecomeByTexts

LEMMA ConcatenatePointerCall ==
  ASSUME Inv, NEW x \in Owners, NEW h \in Variables, ConcatenatePointer(x, h), fault' = "none"
  PROVE  /\ O!Within({x} \cup Pointed(h)) /\ Text(x)' = Text(x) \o Text(h)
         /\ \A y \in Pointed(h) \ {x} : Text(y)' = <<>>
<1>0. /\ x \in Variables /\ Temporary(h) /\ raw[h] \in Addresses
      /\ raw[x] # Stale /\ ~(raw[x] = raw[h] /\ Text(x) # <<>>)
  BY NotMisused, Kinds DEF ConcatenatePointer, Temporary
<1> DEFINE s == Text(x) \o Text(h)
           F == {raw[x], raw[h]}
<1>1. CASE s = <<>>
  <2>1. Frees(raw[h], Gone(raw[h]))
    BY <1>0, <1>1 DEF ConcatenatePointer
  <2>2. Text(x) = <<>>
    BY <1>1, NothingAdded, TextIsText, Kinds
  <2>3. Text(x)' = <<>>
    BY <1>0, <2>1, <2>2, AdoptedTexts
  <2>4. O!Within({x} \cup Pointed(h))
    BY <1>0, <2>1, AdoptedTexts, WithinByTexts
  <2>5. \A y \in Pointed(h) \ {x} : Text(y)' = <<>>
    BY <1>0, <2>1, AdoptedTexts DEF Pointed
  <2> QED BY <1>1, <2>3, <2>4, <2>5
<1>2. CASE s # <<>>
  <2>1. PICK a \in Fresh :
          /\ heap' = [b \in Addresses |-> IF b = a THEN s ELSE IF b \in F THEN NoBlock ELSE heap[b]]
          /\ raw' = [k \in Variables |-> IF k = x THEN a
                       ELSE IF raw[k] \in F \cap Addresses THEN Stale ELSE raw[k]]
    BY <1>0, <1>2 DEF ConcatenatePointer
  <2>2. \A y \in Owners \ ({x} \cup Pointed(h)) :
          y \in Variables \ {x} /\ (raw[y] \in Addresses => raw[y] \notin F)
    BY <1>0, Before, Kinds DEF Pointed
  <2>9. \A y \in Pointed(h) \ {x} : y \in Variables \ {x} /\ raw[y] \in F \cap Addresses
    BY Kinds DEF Pointed
  <2> HIDE DEF s, F
  <2>3. \A b \in Addresses : heap'[b] = IF b = a THEN s ELSE IF b \in F THEN NoBlock ELSE heap[b]
    BY <2>1
  <2>4. \A k \in Variables :
          raw'[k] = IF k = x THEN a ELSE IF raw[k] \in F \cap Addresses THEN Stale ELSE raw[k]
    BY <2>1
  <2>5. TakesBlock(x, a, s, F)
    BY <2>3, <2>4 DEF TakesBlock
  <2>6. /\ Text(x)' = s
        /\ \A y \in Variables \ {x} : (raw[y] \in Addresses => raw[y] \notin F) => Text(y)' = Text(y)
    BY <1>0, <2>1, <2>5, NewTexts
  <2>7. Text(x)' = s /\ \A y \in Owners \ ({x} \cup Pointed(h)) : Text(y)' = Text(y)
    BY <2>2, <2>6
  <2>8. O!Within({x} \cup Pointed(h))
    BY <2>7, WithinByTexts
  <2>10. \A y \in Pointed(h) \ {x} : Text(y)' = <<>>
    BY <2>4, <2>9, NoText
  <2> QED BY <2>7, <2>8, <2>10 DEF s
<1> QED BY <1>1, <1>2

\* Plain pointers: what objects hold is not theirs to change.
LEMMA PlainCalls ==
  ASSUME Inv, NEW p \in Plain, fault' = "none",
         \/ FreePlain(p) \/ \E s \in Texts : MakeDynamic(p, s)
         \/ \E h \in Variables : Borrow(p, h)
  PROVE  O!Within({})
<1>1. CASE FreePlain(p)
  <2>1. raw[p] # Dead /\ Given(p) /\ Frees(raw[p], Gone(raw[p]))
    BY <1>1 DEF FreePlain, Given, Usable
  <2>2. \A y \in Owners : y \in Variables \ {p} /\ (raw[p] \in Addresses => raw[y] # raw[p])
    BY <2>1, GivenIsFree, Kinds
  <2>3. \A y \in Owners : Text(y)' = Text(y)
    BY <2>1, <2>2, FreesGoneTexts, Kinds
  <2> QED BY <2>3, WithinByTexts
<1>2. ASSUME NEW s \in Texts, MakeDynamic(p, s)
      PROVE  O!Within({})
  <2>1. \A y \in Owners : Text(y)' = Text(y)
    BY <1>2, MakesTexts, Kinds DEF MakeDynamic
  <2> QED BY <2>1, WithinByTexts
<1>3. ASSUME NEW h \in Variables, Borrow(p, h)
      PROVE  O!Within({})
  <2>1. heap' = heap /\ \A y \in Owners : raw'[y] = raw[y]
    BY <1>3, Before, Kinds DEF Borrow
  <2>2. \A y \in Owners : Text(y)' = Text(y)
    BY <2>1, TextStays
  <2> QED BY <2>2, WithinByTexts
<1> QED BY <1>1, <1>2, <1>3

\* Each call does what Objects says of it, for any number of strings of any
\* length: an object has the text the call gives it, and every other object keeps
\* its own, but for the two calls that take a pointer where a string object is
\* expected: the temporary made of it takes the text from the object that owns
\* what it points to, which is left with none.
THEOREM CallsKeepToTheirObjects == Spec => CallsMatch
<1> DEFINE OfObjects == \A x \in Owners :
             /\ Destroy(x) \/ Free(x) \/ FreeAndNull(x) \/ Clear(x)
                  \/ (\E p \in Plain : Release(x, p)) => O!Assign(x, <<>>)
             /\ PushBack(x) => O!Within({})
             /\ GrowWithOwn(x) => O!Assign(x, Append(Text(x), Head(Text(x))))
             /\ \A c \in Chars : AppendChar(x, c) => O!Assign(x, Append(Text(x), c))
             /\ \A s \in Texts :
                  /\ FromLiteral(x, s) \/ AssignText(x, s) => O!Assign(x, s)
                  /\ ConcatenateLiteral(x, s) => O!Assign(x, Text(x) \o s)
             /\ \A p \in Plain : Adopt(x, p) \/ AssignPointer(x, p) => O!Assign(x, Text(p))
             /\ \A y, z \in Owners :
                  /\ AssignSum(x, y, z) => O!Assign(x, Text(y) \o Text(z))
                  /\ CopyAssign(x, y) => O!Assign(x, <<>>)
             /\ \A h \in Variables :
                  /\ CopyConstruct(x, h) => O!Assign(x, Text(h))
                  /\ MoveConstruct(x, h) \/ MoveAssign(x, h) =>
                       IF h \notin Owners THEN O!Assign(x, Text(h))
                       ELSE IF x = h THEN O!Assign(x, <<>>) ELSE O!Move(x, h)
                  /\ Concatenate(x, h) => O!Assign(x, Text(x) \o Text(h))
                  /\ ConcatenatePointer(x, h) =>
                       /\ O!Within({x} \cup Pointed(h)) /\ Text(x)' = Text(x) \o Text(h)
                       /\ \A y \in Pointed(h) \ {x} : Text(y)' = <<>>
                  /\ EqualPointer(x, h) => O!Become(Pointed(h), <<>>)
           OfPlain == \A p \in Plain :
             /\ \A s \in Texts : MakeDynamic(p, s) => O!Within({})
             /\ \A h \in Variables : Borrow(p, h) => O!Within({})
             /\ FreePlain(p) => O!Within({})
<1>1. Inv /\ fault' = "none" => OfObjects
  <2> SUFFICES ASSUME Inv, fault' = "none", NEW x \in Owners
               PROVE  OfObjects!(x)
    OBVIOUS
  <2>1. Destroy(x) \/ Free(x) \/ FreeAndNull(x) \/ Clear(x)
          \/ (\E p \in Plain : Release(x, p)) => O!Assign(x, <<>>)
    BY ObjectCalls
  <2>2. /\ PushBack(x) => O!Within({})
        /\ GrowWithOwn(x) => O!Assign(x, Append(Text(x), Head(Text(x))))
        /\ \A c \in Chars : AppendChar(x, c) => O!Assign(x, Append(Text(x), c))
    BY PushBackCall, GrowWithOwnCall, AppendCharCall
  <2>3. \A s \in Texts : /\ FromLiteral(x, s) \/ AssignText(x, s) => O!Assign(x, s)
                         /\ ConcatenateLiteral(x, s) => O!Assign(x, Text(x) \o s)
    BY TextCalls
  <2>4. \A p \in Plain : Adopt(x, p) \/ AssignPointer(x, p) => O!Assign(x, Text(p))
    BY PointerCalls
  <2>5. \A y, z \in Owners : /\ AssignSum(x, y, z) => O!Assign(x, Text(y) \o Text(z))
                             /\ CopyAssign(x, y) => O!Assign(x, <<>>)
    BY SumCalls
  <2>6. ASSUME NEW h \in Variables
        PROVE  /\ CopyConstruct(x, h) => O!Assign(x, Text(h))
               /\ MoveConstruct(x, h) \/ MoveAssign(x, h) =>
                    IF h \notin Owners THEN O!Assign(x, Text(h))
                    ELSE IF x = h THEN O!Assign(x, <<>>) ELSE O!Move(x, h)
               /\ Concatenate(x, h) => O!Assign(x, Text(x) \o Text(h))
               /\ ConcatenatePointer(x, h) =>
                    /\ O!Within({x} \cup Pointed(h)) /\ Text(x)' = Text(x) \o Text(h)
                    /\ \A y \in Pointed(h) \ {x} : Text(y)' = <<>>
               /\ EqualPointer(x, h) => O!Become(Pointed(h), <<>>)
    <3>1. CopyConstruct(x, h) => O!Assign(x, Text(h))
      BY CopyConstructCall
    <3>2. MoveConstruct(x, h) => x # h
      BY DEF MoveConstruct, Unborn, Given, Usable
    <3>3. MoveConstruct(x, h) \/ MoveAssign(x, h) =>
            IF h \notin Owners THEN O!Assign(x, Text(h))
            ELSE IF x = h THEN O!Assign(x, <<>>) ELSE O!Move(x, h)
      BY <3>2, MoveConstructCall, MoveAssignCall, MoveToSelf
    <3>4. Concatenate(x, h) => O!Assign(x, Text(x) \o Text(h))
      BY ConcatenateCall
    <3>5. ConcatenatePointer(x, h) =>
            /\ O!Within({x} \cup Pointed(h)) /\ Text(x)' = Text(x) \o Text(h)
            /\ \A y \in Pointed(h) \ {x} : Text(y)' = <<>>
      BY ConcatenatePointerCall
    <3>6. EqualPointer(x, h) => O!Become(Pointed(h), <<>>)
      BY EqualPointerCall
    <3> QED BY <3>1, <3>3, <3>4, <3>5, <3>6
  <2> QED BY <2>1, <2>2, <2>3, <2>4, <2>5, <2>6
<1>2. Inv /\ fault' = "none" => OfPlain
  BY PlainCalls
<1>3. Inv /\ [Next]_vars => [fault' = "none" => OfObjects /\ OfPlain]_vars
  BY <1>1, <1>2
<1> QED BY <1>3, InvInit, InvStep, PTL DEF Spec, CallsMatch
=============================================================================
