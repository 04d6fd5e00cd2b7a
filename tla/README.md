# libfp: a verification project

TLA+ modules for libfp (joshuadahlunr/libfp), a header-only C library of *fat
pointers*: plain C pointers that carry a size and a kind in a header before the
memory they point to. Dynamic arrays, strings and hash tables are built on
them. Source paths below are relative to `src/`.

## The system

| Component | Source | State | Operations | What makes it correct |
|---|---|---|---|---|
| Fat pointers, views | `include/fp/pointer.h` | header: magic number, size; a view is a pointer and a length | malloc, realloc, free, clone, swap, stack allocation, subview, compare | the header describes the block it precedes; views of different contents are not equal |
| Dynamic arrays | `include/fp/dynarray.h` | header with capacity and size, or null | reserve, grow, push, pop, insert, delete, shrink, resize, swap, clone, clear, free | each call does to the sequence of elements what it says; capacity is backed by memory |
| Strings | `include/fp/string.h` | a dynamic array of characters, and the zero behind it | make, concatenate, append, replicate, replace, split, format, UTF-8 | the text is right and terminated; loops end |
| Hash tables | `include/fp/hash/table.h` | an array of entries whose first entries hide a header pointer; hop infos with an occupied flag; stored hashes | insert, insert or replace, find, double and rehash, convert an array, free | no element is lost or doubled; what is in the table is found; calls end |
| Hash maps | `include/fp/hash/map.h` | the same, with hash, equality, copy, swap and finalizer functions in the header | the same, with setting the functions and with finalization | the same; a value stays with its key, and each copy is finalized once |
| C++ wrappers | `include/fp/*.hpp` | a raw pointer; the `raii` classes own it | copy, move, assign, destroy, forward to C | each block is freed once, and not used after |

The components interact by calls only. Strings and hash tables are dynamic
arrays: `fpda_*` moves their blocks, so a pointer or a view into one is stale
once a call grew it. A hash table is up to three arrays (entries, hop infos,
hashes) that must grow together. The library is sequential and keeps no state
between calls but in the blocks; there are no threads, messages, timeouts or
persistent data. What is hard here is the order in which a loop updates the
structure it reads, recursion between insert, doubling and rehash, sizes that
count bytes in one function and elements in the next, aliasing of an argument
with a block that moves, and calls that are each legal but leave what a later
one does not expect. `PROJECT.json` lists these hazards with their lines and
the properties aimed at each.

## Modules

| Module | Models | Notes |
|---|---|---|
| `HashTable` | `hash/table.h` | a step per call and per iteration of the loops in insert, rehash and convert_array |
| `Multiset` | what a hash table promises | `HashTable` implements it: `IsMultiset` |
| `HashMap` | `hash/map.h` | extends `HashTable`: each action is the table's and what it does to the values and their owners |
| `DynArray` | `dynarray.h` | a step per call, on several arrays |
| `Vector` | what each array call promises | the action on a sequence that each call of `DynArray` is compared with |
| `PowerOfTwo` | `fp_upper_power_of_two` | on the bits of a word: a set of positions where the code combines bits |
| `Strings` | `string.h` | composed with `DynArray` by INSTANCE, elements of one byte; a step per iteration of replace and split |
| `Utf8` | `fp_encode_utf8`, `fp_string_view_to_codepoints` | functions |
| `TextViews` | comparing texts, `starts_with`, `ends_with`, over `fp_view_equal` | functions |
| `Pointers` | `pointer.h` in the C++ build, `raii::pointer` of `pointer.hpp` | a step per call, on objects, plain pointers and views |
| `OwnedStrings` | `raii::string` of `string.hpp`, a `raii::dynarray` (`dynarray.hpp`) | who owns the characters; a step per call, temporary objects included |
| `Objects` | what objects that own memory promise | the actions that the calls of `Pointers` and `OwnedStrings` are compared with |
| `HashTableMC`, `HashMapMC`, `DynArrayMC`, `StringsMC`, `PointersMC`, `OwnedStringsMC`, `PureMC` | | instances for TLC |
| `HashTable_proofs`, `HashMap_proofs`, `DynArray_proofs`, `Strings_proofs`, `Pointers_proofs`, `OwnedStrings_proofs`, `Pure_proofs` | | theorems |
| `Induction` | | induction and recursion on numbers, in the form the provers can use |

**HashTable.** `slot` is the array of entries, at positions `Skip .. Skip + n - 1`
(`Skip` is `fp_hash_elements_to_skip`: the entries the header pointer takes:
8 for a char, 2 for an int, 1 for a type of 8 bytes or more). `occ` is the set
of entries whose occupied flag is set; no function reads another bit of a hop
info, but the flag itself is bit 31 of the word that hop bits are shifted into,
and `Marks` says when such a bit is the flag. `hashes` are the stored hashes,
`Junk` where never written. Insert, doubling and rehash call each other; all
those calls but one are tail calls, so the recursion is a program counter `pc`
and the two retry arguments. Every iteration of the two loops of rehash is an
action (`Spread`/`SpreadNot`, then `Settle`/`Skipped`/`Move`/`RehashAgain`/
`RehashFails`). Where the code hashes or compares memory it never wrote, the
outcome is a choice over every outcome. insert_or_replace writes its key over
whatever find may match, an occupied entry of junk included. `pc = "crashed"` is
the write through insert's null result (table.h:419). An array to convert is what
the loop reads of it, in whole elements. `start` is a history variable for the
bounds.

**HashMap.** map.h repeats the algorithm of table.h, so the module extends
`HashTable` and every action conjoins the table's with the change to the map's own
variables; `ImplementsTable` proves that nothing of the table is lost by it. An
element is a key (what is hashed and compared, the table's `slot`) and a `value`,
of which only the owner matters: a copy function of its own makes a new resource
at each call (`live` is those made and not finalized), `memcpy` keeps what the
caller has (`Borrowed`), and `NoValue` is in entries nobody wrote. `copier` and
`finalizer` are the functions of the header, which callers may set between any two
calls; a doubled table keeps them, a new one has the defaults. Two things are
visible only here: insert_or_replace copies the element twice when it inserts and
over the old one when it finds, and finalizes neither; and free finalizes every
entry whose flag is set, whoever set it.

**DynArray.** A block has `room` (bytes for elements), `cap` and `size` as in
the header, and `data`. Capacity and room are kept apart because the code
counts both in bytes and elements. `fault` becomes a name when a call copies from
null, reads or writes outside its block, reads a freed block or asks for a
negative size, and nothing follows: the source leaves the rest undefined. A
`memcpy` of overlapping ranges gives either of two results. Source assertions
are guards (the one exception is below, in `OwnedStrings`). A block holds some bytes more than asked for (`Slack`: the trailing
zero and the padding of the header), and pop_front is judged with it.

**Strings.** One string, an array of `DynArray`, and `zero`: whether the byte
behind it is a zero the library put there. Arguments are views up to `MaxView`
characters, and for aliasing the string itself (`ConcatenateInplace(b, TRUE)`) or
a part of it (`ReplaceOwn`, whose fault is what growing frees before it is copied, or
a copy onto an overlapping place; where neither happens, `OwnRead` is what is read
after the text behind the range was moved). `InvalidCodepoints` is the null result of a
code point without encoding.
The three loops that do the same with each of several views are one operator
(`Folded`). No string is longer than `Longest`, which the bounds of the arguments
imply; the capacities (`NextPower`) are assumed to be at least what is asked up to
there. In `goal` replace keeps what it has to end with, by the recursive definition
of replacing (`Replacing`); nothing the code does depends on it.

**Pointers.** `heap` maps an address to a block: its number of elements as the
header has it, the elements (`None` where nobody wrote one) and whether
`fp_malloc` or `fp_alloca` made it. `raw` is what each variable points to. Objects
of `raii::pointer` (`Owners`) are `Dead` before construction and after destruction;
plain pointers (`Plain`: `fp::pointer`, or C) own nothing. Every pointer to a block
that was freed, or that realloc was called on through another pointer, becomes
`Stale`, wherever the block is then: so that the allocator's choice of address hides
no error. Callers keep a contract, stated at the head of the module: they do not
use stale plain pointers and views, do not free through a plain pointer what an
object owns, and do not overwrite the last pointer to a block. They do use stale
objects: destructors run by themselves. `fault` is as in `DynArray`.

**OwnedStrings.** `heap` maps an address to a text or `NoBlock`; `raw` is as in
`Pointers`. Whether a block has room to spare is left open (`Enlarges`): growing
moves the string or leaves it, so both outcomes are explored for every length.
A call is one step with the temporary objects of its implicit conversions:
`raii::string(const char*)` copies a literal but keeps the pointer to a dynamic array
(`Adopt`), so that `x += y.data()` and `x == y.data()` free the characters of `y`.
`CopyAssign` keeps the pointer of a clone that dies with the statement, and
`PushBack` assigns to elements nobody constructed. Copying a string of no characters
(null or cleared) aborts: its clone has size and capacity 0, which `is_fp` does not take
for a fat pointer, and the constructor asserts that it is one (pointer.hpp:246). Other
assertions of the source are guards, because they stop callers that break a contract;
this one stops a call that no document forbids, so it is the fault "abort". The contract of the callers is
that of `Pointers`; the last two, and `free()`, are within it.

**TextViews** keeps the word sizes of the comparison (a difference of two `size_t`
returned as an `int`) and the three answers of a subview: inside, stopped by the
assertion, and outside of the text because the sum in the assertion wrapped.

**Multiset** is a bag of keys and the list of keys a call still owes; each is
added once, or refused, and nothing else happens to the bag but clearing, and that a
call which replaces a key may add it at once (`Put`): insert_or_replace over an entry of
junk whose flag a hop bit set. `HashTable` maps to it by the bag of occupied keys.
That `Refuse` is silent is what convert_array does with a null result: the property
does not forbid it, but that anything else is lost. **Vector** has one action
per kind of change to a sequence.

## Runs

| Run | Question | Bounds, and why they are enough |
|---|---|---|
| `hash_small` | int entries: elements kept, found, growth bounded, calls return; implements `Multiset` | 3 keys, neighbourhoods of 3, 1 retry, up to 4 entries, arrays of 2. The neighbourhood is cut so that it wraps, fills up and fails in tables small enough for TLC; keys collide in tables of every size |
| `hash_lost` | divergences of rehash | the constants of the code (neighbourhood 8, 5 retries, bit 31), with and without stored hashes; two keys that collide suffice |
| `map` | one entry skipped, values and their owners, converting into an existing map, stored hashes, and the occupied bit in reach of the hop bits | 2 colliding keys, neighbourhoods of 2 and 2 retries, so that rehash fails and recurses twice; up to 3 elements and 3 copies alive: one that is overwritten, one that is lost and one that stays; equal keys count as further elements |
| `map_junk` | divergence of rehash and finalization | the constants of the code, ints, one key with hash 15, eight elements: neighbourhoods must wrap around for a negative distance |
| `dyn` | every array call against `Vector`, cloning, capacity, misuse of memory | two arrays of ints that are written or not, up to 4 elements each, with the default capacity of the code (16 bytes), so that one past the last may lie past the block and its slack: sizes on both sides of each power of two and of the default capacity. At most one of the two has a capacity of more than one (`OneIsSmall`): arrays meet only in `clone_to`, whose cases differ in which of the two is the larger and by how much. Arrays are symmetric |
| `pure` | power of two, UTF-8, comparing texts | all words of 12 bits (every shift that matters is met); every 257th code point and each boundary of the encoding, alone and next to each other, every view into two of them and every cut; all pairs of texts of two letters up to 5, an `int` of 3 bits so that differences of length overflow it, and starts and ends on both sides of each text and of zero |
| `pointers` | one owner, views inside, calls change what they are made on | two objects, a plain pointer, a view, two addresses, blocks of up to 2. A call involves at most two blocks and two pointers, and the second plain role is played by the other object; elements are the zero that realloc leaves, or uninitialised. Addresses and objects are symmetric: no definition tells one from another |
| `pointers_realloc` | divergence of realloc | ints (4 bytes), the 8 bytes of the C++ header, blocks of up to 3 |
| `owned` | one owner of each text, what misuses memory, calls change what they are made on | two objects, two plain pointers, four addresses (one for each variable: `OwnersAreExact` says that no more blocks exist), texts of two characters up to 2. Addresses, objects and characters are symmetric |
| `strings` | every string call | views of up to 3 characters of two kinds, and parts of the string of up to 3 to replace by, texts of up to 3 before a call and what the calls make of them; pieces up to 3. Two characters are enough for a needle to overlap itself, to be part of its replacement and to stand at either end |
| `strings_split`, `strings_replace` | divergences of split and replace_range | the same, smaller |

The passing runs check, beside a type invariant per module:

* `IsMultiset`, `ElementsArePut`, `EntriesAreElements`: rehash and insertion
  neither lose, double nor invent elements (for types of 4, or 8, bytes and more);
* `InsertIsFound`: an insertion is found at once and hides no key found before;
* `RehashSettles`: rehash ends with each element in its neighbourhood, and find
  misses one only in the entries it never probes (the disagreement that
  `hash_lost` shows);
* `GrowthIsBounded`, `Returns`: how far retries grow the table, that an insertion gives
  up, or crashes on its null result, only after all of its retries doubled it, and that
  the recursion ends;
* `HeldOnce`, `CopiesAreLost`: each copy a map made is in one entry until it is
  finalized; the only copies lost are one for every insert_or_replace, and those of
  a free that does not finalize;
* `PairsStay`, `ReplaceIsSeen`: no value is dropped or moved to another key by
  growth and rehash, and after insert_or_replace find returns the value it put, unless
  the call grew a map that held the key already (see the divergences);
* `CapacityIsBacked`, `FaultsAreNarrow`: memory is there for the capacity, and
  is misused only in the cases named;
* `AddsMatch`, `RemovesMatch`, `MovesMatch`: each call is the action of `Vector`
  its name says, that reserving more than its capacity empties an array, and which
  cases are excepted (overlapping swaps; pop_front at one);
* `PowersAreLeast`; `TextsDecode`: code points are read back; any view into a text decodes
  to those that start in it, or to null; of a string cut inside of a code point the
  decoder reads past the terminating zero when two bytes or more are missing;
* `Terminates`, `MisuseIsNarrow` of `Strings`: which calls leave a string unterminated or
  misuse memory, and that no other does;
* `OwnersAreExact`, `ViewsAreInside`: a block has one owning object, is not leaked,
  outlived by a pointer that is not stale, or seen through a view past its end;
* `MisuseIsNarrow` of `Pointers`: memory is misused only when no elements are
  allocated, or through an object on which `free()` was called or which was
  moved into itself (or from such a one);
* `MisuseIsNarrow` of `OwnedStrings`: an object comes to hold a freed pointer only
  by the six calls named, memory is misused only through such an object, by adding to a
  string its own characters or itself, or by assigning it to itself, and the program
  aborts exactly when a string of no characters is copied;
* `CallsMatch` of `Pointers` and of `OwnedStrings`: what every call does to what every
  object holds, in the actions of `Objects`. There are no calls it does not speak of.
  Swapping exchanges as many bytes as there are elements, `+=` and `==` with a plain
  pointer take the text of the object that owns what it points to;
* `CompareOrders`, `AffixesAreRight`: comparing texts is an order while lengths differ by
  no more than an `int` holds, and puts the longer first just beyond; starts_with and
  ends_with answer rightly;
* `ReplacesAll`, `ReplaceReturns`: what replacing all occurrences gives, and
  that it ends; `PiecesTile`: where split cuts.

Deadlock is not checked where calls have bounds in their guards or a fault ends
the behaviour: the caller may stop calling. In `pure` it is checked.

**Fairness** is weak fairness of the steps of a call that was made (`Steps`):
the library is sequential and a running call is never suspended for another, so
its next step is taken. No fairness of the caller is assumed.

## Divergences found

Each has a run that shows it, and was seen in the compiled library as well.

* Rehash accepts places that find never probes: an element is in the table and
  not found (`hash_lost`, table.h:331). The property covers a second cause, which
  the same run meets when the first is repaired: rehash moves an element but not
  its stored hash (table.h:349).
* A negative distance in rehash sets the occupied flag of an entry nobody inserted,
  and the map finalizes it (`map_junk`, map.h:465).
* `fp_string_split` does not return once a delimiter is present
  (`strings_split`, string.h:342).
* In C++ `fp_realloc` clears the first 8 bytes of the block (`pointers_realloc`,
  pointer.h:253).
* Replacing by a longer text moves the wrong number of bytes (`strings_replace`,
  string.h:367).

What `MisuseIsNarrow` of `OwnedStrings` names was seen in the compiled library
under a memory checker too: copy assignment of `raii::string` (string.hpp:323),
`make_dynamic` of views (string.hpp:330), `+=` and `==` with a `data()` pointer
(string.hpp:318), and growing a string by a character of its own (dynarray.hpp:20)
free twice, or use what was freed. No document of the repository speaks of them,
so they are stated as the exceptions of a property and not as runs.

Copying an empty `raii::string`, which aborts (pointer.hpp:246), is named there as well.

Three more are excepted by name in the properties and have no run of their own.
insert_or_replace of a key that find has lost inserts it again; when the insertion
rehashes, the old element can come back into find's reach, in front of the new one,
and find returns the old value (map.h:549; seen in the compiled library, excepted
in `ReplaceIsSeen`).
With `char` entries (8 skipped) the distribution step of rehash swaps onto occupied
or skipped entries and loses elements (table.h:317). `fpda_swap_delete_range` of a
range that overlaps the last elements keeps deleted elements and drops others
(dynarray.h:262).

## Proofs

TLAPS checks the following for every value of the constants that satisfies the
named assumptions of the modules (a hash value per key, a positive `Skip` and
neighbourhood; a positive element size, and a capacity function that gives at
least what is asked, which `PowersSuffice` proves of the code's).

* `HashTable_proofs!TypeCorrect`. `TypeOK` is inductive: it says of each `pc` in
  what range the loop index and the arrays are.
* `ElementsStay`, `ImplementsMultiset` of the same module, for `Skip <= 2`. The
  inductive invariant is `TypeOK /\ ElementsArePut`: `TypeOK` alone does not say
  that the mirror position of an entry about to be swapped is free, which is
  why nothing is overwritten. `ElementsArePut` says it by saying what the first
  loop has visited: the entries still to come are in the old half, or were
  themselves mirrored. Each step then leaves the bag alone, or adds the key
  inserted, and so maps to a step of `Multiset` or to a stutter. `Skip = 8` is
  excluded because it is false there (see the divergences).
* `InsertedIsFound`: insert and find compute the same first
  probe. `SizeCountsElements` (`Skip = 1`): distances stay below the neighbourhood's
  size, so no hop bit is the flag; it needs `MinimumSize`, that a table is never
  smaller than a neighbourhood. `RehashIsSettled`: `Settled` says it of the entries
  that the second loop has passed.
* `GrowthStaysBounded`: `GrowthIsBounded` is of the end of a call and says nothing of the
  way there. The invariant (`GrowthInv`) gives every point of a call the number of
  doublings that may still follow (`Remaining`: from the two retry counters, as rehash is
  entered with insert's counter as its own), and says that the table is no larger than
  those used up allow. `Doublings` is a recursive function on numbers, so that the lemmas
  about it are proved by induction over a set of numbers (`Induction!SetInduction`).
* `DynArray_proofs!TypeCorrect`, `BlocksAreBacked`: `TypeOK /\ CapacityIsBacked` is
  inductive, one lemma per helper (`MaybeGrow`, `Inserted`, `Shrunk`, ...) and one
  step per call; `MisuseIsNarrow` follows from it, call by call.
* `EveryCallEnds`: what is left of a running call is five numbers, of which every step
  lowers one and keeps those in front of it: the insertions the call owes, insert's
  retries, rehash's, the loops of this rehash and the rounds of this loop. That none is
  below zero rests on `RetriesInv`: insert enters a rehash only with a retry left. With
  the fairness above this is what `Returns` needs; that a running call has a next step
  is left to TLC.
* `DynArray_proofs!AddingCalls`, `RemovingCalls`, `MovingCalls`: each call is the
  action of `Vector` its name says. They rest on the invariant above, without which a
  call might copy elements that are not in the block. Each kind of block a call makes
  (grown, filled, inserted into, with a gap closed) has a lemma that gives its size and
  its elements index by index; lemmas then turn these into actions on sequences.
* `HashMap_proofs!ImplementsTable`: each step of the map is a step of the table or a
  stutter, so that the theorems about the table hold of the map. `MapTypeCorrect`,
  `CopiesAreHeldOnce`: the map's types and `HeldOnce` are inductive together, one lemma
  for each way a step writes values (one entry, a swap, a doubled table).
  `FinalizerGetsElements` for `Skip = 1`, where the flag is out of reach of the hop
  bits. `ValuesStayWithKeys` and `OnlyReplaceLeaks`, for `Skip <= 2`: every step but
  insert_or_replace and free keeps each occupied entry, here or elsewhere (`Kept`),
  which rests on the invariant of `ElementsStay`. `ReplaceIsFound`, for `Skip = 1`: at the
  step that writes the value, find's probes see no other element of the key first. Where
  the call inserted it did so because find saw none, which still holds while the table
  is the one that was searched (`ReplaceInserts`). `EveryMapCallEnds`: the measure of
  `EveryCallEnds` is lowered by every step of a call of the map as well.
* `Pointers_proofs!TypeCorrect`, `OneOwner`, `ViewsStayInside`: the three invariants are
  inductive together, since a view is made from a pointer that is not stale, and that a
  free leaves no other owner behind rests on single ownership. `MisuseNeedsStale`
  follows, call by call. `CallsKeepToTheirObjects`: the text or elements of an object are
  those of the one block it points to (`Objects` reads them through the heap), so a call
  keeps what other objects hold because it writes, frees or moves a block that single
  ownership makes theirs alone.
* `OwnedStrings_proofs!TypeCorrect`, `OneOwner`, `MisuseIsNamed`: `TypeOK /\
  OwnersAreExact` is inductive; a lemma for each of the three things a call does to
  blocks (free and repoint, make one, change its text), and a step for each call.
  `CallsKeepToTheirObjects` composes what the temporary objects of a call do to its
  operands.
* `Strings_proofs`: the inductive invariant is `IInv`, and every step is shown to keep it
  and to have the two action properties (`StepIsRight`), one lemma for each call and each
  step of a loop. `TypeOK` is not inductive: that a replacement fits needs
  `ReplaceIsBounded` (each iteration uses up at least one character of what is left, and
  puts in at most `MaxView`), that found indexes stay in the text needs `SplitIsOn`
  (where the search has looked), and a copy of a string has characters only if it has
  (`IsClean`: until memory is misused no character is uninitialised). `TypeCorrect`,
  `CallsTerminate` and `StringMisuseIsNarrow` follow. `SplitTiles` needs `PiecesFollow`,
  which joins the last piece to the index of the loop. The blocks are those of
  `DynArray`, whose lemmas are instantiated.
* `Strings_proofs!ReplaceIsRight`: `GoalIsAhead` says that what was done so far, and what
  the definition makes of the rest, is `goal`. An iteration keeps it because the
  definition copies everything in front of the first occurrence (`ReplacingFirst`) and the
  splice puts the replacement exactly there (`SplicedText`, when no memory was misused);
  when nothing is found the definition copies all (`ReplacingNothing`). `Replacing` is
  recursive in the length of a text, and that a function with its equation exists
  (`ReplacingExists`) is proved first.

* `Strings_proofs!EveryReplaceEnds`: a round of replace leaves fewer characters to search,
  as it takes up at least one and goes on behind what it put in, by the same arithmetic
  that keeps `ReplaceIsBounded`.
* `Pure_proofs!PowersAreComputed`, for words of up to 64 bits: if the highest bit of
  `v - 1` is `h`, the shifts by 1, 2, ..., 32 have set the 1, 3, ..., 63 bits below it
  (an invariant of `Smeared`), and the word of the bits `0 .. h` is `2^(h + 1) - 1`; no
  lower power reaches `v`. Zero wraps to the word of all bits, and out of it again.
  `PowersSuffice` draws from it what arrays and strings assume of capacities.
* `TextsAreDecoded`, `TextsDecodeBack`: `CodeAt` is the inverse of `Encode` in each of the
  four ranges of code points, and the first byte tells the range. A view into a text is
  then followed from code point to code point: where it starts between two, each round
  of the decoder (`Decoded`) takes one; where it starts inside of one, its first byte is
  one that no code point starts with. `TextsDecodeBack` is the same for texts of any
  number of code points, by induction over the rounds.
* `ComparisonsOrder`: `Compare` is negative where the lengths, or the first letters that
  differ, say so, and the difference of lengths keeps its sign in an `int` that holds it.
  `AffixesAreFound`: the subtraction of `start` wraps exactly where `start` is out of
  range, and equal lengths make `fp_view_equal` an equality.

`Induction` states induction for a set of numbers, and the existence of a function
defined by a step that is itself a function, so that neither has an operator as
parameter: this is what lets properties of loops and recursive functions on numbers,
and of texts by their length, be proved here.

Only model-checked: liveness (`Returns`, `ReplaceReturns`), which rests on ENABLED: what is
proved of it is that calls have an end to run to (`EveryCallEnds`, `EveryReplaceEnds`),
and the model checker adds that no call stops on the way. Everything else that a passing
run checks is a theorem, for the constants its hypotheses name: those about the elements
of hash tables need types of 4 or 8 bytes and more, and `hash_lost` and `map_junk` show why.

## Not modelled

In the C++ wrappers: `raii::dynarray` of elements that have destructors (its blocks
are moved by `memcpy`; `OwnedStrings` has characters), and the methods that only
forward to C. In the hash map: a hash or equality function exchanged while the map
holds elements, after which nothing is promised, and swap functions that do other
than exchange. In strings and views: reading printf formats (the result of formatting
is an argument), UTF-8 that is malformed otherwise than by a cut, `fp_view_swap` (it swaps as `fp_swap` does) and
equality of views of wider elements. Pushing an element of the array itself:
`fpda_push_back` takes its value as the text of an expression, in the C macros.
Allocation failure, and leaks but in `Pointers`, `OwnedStrings` and `HashMap`;
alignment and the bytes of headers; sizes beyond a machine word, but in `PowerOfTwo`;
the queries that change nothing. Of `__fp_hash_convert_array`, the starting offset and
arrays whose type size is not considered (table.h:424-433): its loop counts the whole
size from the offset on, past the end of the array. Views used after their block was
freed or moved: the contract of `Pointers` excludes them. `fp_hash_rehash` and `fp_hash_rehash_and_find` do not
call what they are named for (they expand to calls with the wrong arguments), so
there is no rehash without doubling. As C, `pointer.h` does not compile at this
commit (line 455); the behaviour modelled is that of the C++ build.

## Plan

Done, in this order:

1. `HashTable` with `Multiset`; proofs of type, multiset and lookup.
2. `DynArray` with `Vector` and `PowerOfTwo`; proofs of type, capacity and misuse.
3. `Strings` over `DynArray`; `Utf8` and `TextViews`.
4. `Pointers` with `Objects`.
5. Divergences as runs of their own.
6. `HashMap` over `HashTable`; proofs of type, ownership and leaks.
7. `OwnedStrings` with `Objects`.
8. Proofs of `Pointers` and `OwnedStrings` (types, ownership, views, misuse) and of what
   each array call does to its sequence.

9. Proofs of `CallsMatch` of `Pointers` and `OwnedStrings`, of the growth of hash tables, of
   what replacing in a map and in a string gives, and of the types, pieces, terminators
   and misuses of `Strings`.

10. Proofs of the pure functions (powers of two, UTF-8, comparing texts), and that the
    calls of hash tables and maps, and replacing in a string, do not run for ever.

Left: models of arrays whose elements have destructors, and of UTF-8 that is malformed
otherwise than by a cut.
