------------------------------- MODULE Strings -------------------------------
(***************************************************************************)
(* The strings of include/fp/string.h: dynamic arrays of characters that   *)
(* are also meant to be null terminated.                                   *)
(*                                                                         *)
(* One string variable of a caller, null or a block of DynArray.  Views and*)
(* literals passed to a call are sequences of characters; an empty one may *)
(* have a null pointer.  A call is one step, but for replace and split,    *)
(* whose loops take a step per iteration.  None is a character nobody      *)
(* wrote.  What the source asserts is a guard; behaviour it leaves         *)
(* undefined shows in `fault`, and nothing follows it.                     *)
(***************************************************************************)
EXTENDS Integers, Sequences, SequencesExt

CONSTANTS
  Chars, None,       \* characters; an uninitialised one
  DefaultBytes,      \* FPDA_DEFAULT_SIZE_BYTES
  NextPower,   \* fp_upper_power_of_two, as a function
  MaxView,           \* bound: length of the views that are passed
  MaxNeedle,         \* bound: length of those that are searched
  MaxArgs,           \* bound: arguments of the variadic calls, and copies
  MaxLen,            \* bound: no call but replace makes or finds a longer string
  MaxPieces          \* bound: pieces of a split that are remembered

ASSUME CharsAssumption == None \notin Chars
ASSUME BoundsAssumption == {MaxView, MaxNeedle, MaxArgs, MaxLen, MaxPieces, DefaultBytes} \subseteq Nat

\* No string is longer: replace makes at most MaxView characters of each of the
\* MaxLen it may be given, and a call may work on more than it then returns.
Longest == MaxLen + (MaxLen + MaxArgs + 1) * MaxView

ASSUME PowerAssumption ==
  \A v \in 1 .. Longest : NextPower[v] \in Nat /\ NextPower[v] >= v

VARIABLES
  str,      \* the string
  zero,     \* is the byte behind its last character known to be 0?
  fault,    \* the memory a call misused
  pc,       \* "idle" between calls, "replace" and "seek", "cut" in the loops
  find,     \* replace: what is searched,
  with,     \*   what it is replaced with,
  start,    \*   where the search goes on,
  goal,     \*   and, of the history, what it has to end with
  delims,   \* split: the delimiters,
  last,     \*   where the next piece starts,
  found,    \*   where the next delimiter is,
  pieces    \*   and the pieces <<first, length>> so far

replacing == <<find, with, start, goal>>
splitting == <<delims, last, found, pieces>>
vars      == <<str, zero, fault, pc, replacing, splitting>>

A == INSTANCE DynArray WITH
       Arrays <- {"str"}, Values <- Chars, TypeSize <- 1, MaxSize <- Longest,
       blocks <- [x \in {"str"} |-> str]

-----------------------------------------------------------------------------
Text == [j \in 1 .. str.size |-> str.data[j - 1]]

\* The characters of s are copied to index `at` of b.
Written(b, at, s) ==
  A!Block(b.room, b.cap, b.size,
          [j \in 0 .. b.size - 1 |-> IF j \in at .. at + Len(s) - 1 THEN s[j - at + 1] ELSE b.data[j]])

\* fpda_resize
Resized(b, size) ==
  IF size > b.cap THEN A!GrownTo(b, size) ELSE A!Shrunk(size, A!Memory(b, size))

\* Mutant of Pushed: a full block is not grown.
PushedFull(b, c) ==
  A!Block(b.room, b.cap, b.size + 1, [j \in 0 .. b.size |-> IF j = b.size THEN c ELSE b.data[j]])

\* fpda_push_back
Pushed(b, c) == A!Filled(A!Grown(b, 1), b.size, c)

\* s is copied behind b, which fpda_resize or fpda_grow makes longer.
Resumed(b, s)  == IF b.size + Len(s) = 0 THEN b
                  ELSE Written(Resized(b, b.size + Len(s)), b.size, s)
Extended(b, s) == Written(A!Grown(b, Len(s)), b.size, s)

\* Op(b, s[1]), then the same with s[2], and so on, m times.
Folded(Op(_, _), b, s, m) ==
  LET result[k \in 0 .. m] == IF k = 0 THEN b ELSE Op(result[k - 1], s[k]) IN result[m]

\* __fpda_malloc writes a 0 behind the capacity, and nothing else does.
EndsInZero(b) == b.size > 0 /\ b.size = b.cap

\* fp_string_view_find: where needle is in text, from `from` on.
Hits(text, needle, from) ==
  {p \in from .. Len(text) - Len(needle) : SubSeq(text, p + 1, p + Len(needle)) = needle}

-----------------------------------------------------------------------------
Init ==
  /\ str = A!Null /\ zero = FALSE /\ fault = "none" /\ pc = "idle"
  /\ find = <<>> /\ with = <<>> /\ start = 0 /\ goal = <<>>
  /\ delims = {} /\ last = 0 /\ found = -1 /\ pieces = <<>>

Ready == pc = "idle" /\ fault = "none"

\* A memcpy of a view that is empty may be one from a null pointer.
NullCopies(empty) == IF empty THEN {"none", "null copy"} ELSE {"none"}

\* A call that makes the string b, with a 0 behind it or not: the pieces of an
\* earlier split are views of what it was.
Searching == <<replacing, delims, last, found>>
Becomes(b, terminated) == str' = b /\ zero' = terminated /\ pieces' = <<>> /\ UNCHANGED <<pc, Searching>>

\* One that makes a new string, which the caller keeps where it has none yet.
Makes(b, terminated)   ==
  Ready /\ A!IsNull(str) /\ b.size <= MaxLen /\ Becomes(b, terminated)

\* fp_string_view_make_dynamic: clone and promote_literal too
MakeDynamic(view) ==
  LET b == Resumed(A!Null, view)
  IN  Makes(b, EndsInZero(b)) /\ fault' = fault

\* fp_string_view_concatenate
Concatenate(a, b) ==
  LET ab == Resumed(A!Null, a \o b)
  IN  Makes(ab, EndsInZero(ab)) /\ fault' \in NullCopies(a \o b # <<>> /\ <<>> \in {a, b})

\* fp_string_view_concatenate_n(count, ...): its loop leaves out the last
ConcatenateN(args) ==
  LET n == Len(args) - 1
      b == Folded(Extended, A!Null, args, n)
  IN  Makes(b, EndsInZero(b)) /\ fault' \in NullCopies(\E k \in 1 .. n : args[k] = <<>>)

\* fp_string_vformat of what formats to text; vsnprintf terminates it
VFormat(text) == Makes(Written(Resized(A!Null, Len(text)), 0, text), TRUE)
                   /\ fault' \in NullCopies(text = <<>>)

\* fp_codepoints_view_to_string of code points whose encodings make up text
CodepointsToString(text, points) ==
  LET b == A!MaybeGrow(A!Null, points, FALSE, TRUE)
  IN  Makes(Folded(Pushed, b, text, Len(text)), text # <<>>) /\ fault' = fault

\* of code points one of which has no encoding: what was made of those before
\* it is freed, and the result is null
InvalidCodepoints == Makes(A!Null, FALSE) /\ fault' = fault

\* __fp_string_view_concatenate_inplace, where b is a view of the string
\* itself (own) or not: fpda_resize moves the string to another block.
ConcatenateInplace(b, own) ==
  LET new == Resumed(str, b)
  IN  /\ Ready /\ Len(Text \o b) <= MaxLen
      /\ IF Text \o b = <<>> THEN UNCHANGED vars
         ELSE /\ Becomes(new, EndsInZero(new))
              /\ fault' \in IF own THEN {"use after free"} ELSE NullCopies(b = <<>>)

\* Mutant of AppendChar: the terminator is left where it was.
AppendCharUnterminated(c) ==
  /\ Ready /\ ~A!IsNull(str) /\ str.size < MaxLen
  /\ Becomes(Pushed(str, c), EndsInZero(Pushed(str, c))) /\ fault' = fault

\* fp_string_append_impl
AppendChar(c) ==
  /\ Ready /\ ~A!IsNull(str) /\ str.size < MaxLen
  /\ Becomes(Pushed(str, c), TRUE) /\ fault' = fault

\* fp_string_replicate_inplace: 0 times sets the string to null, unfreed
Replicate(times) ==
  LET copies == [k \in 1 .. times - 1 |-> Text]
      b      == IF times = 0 THEN A!Null ELSE Folded(Resumed, str, copies, times - 1)
  IN  /\ Ready /\ times * str.size <= MaxLen
      /\ times > 0 => ~A!IsNull(str)
      /\ Becomes(b, IF b = str THEN zero ELSE EndsInZero(b)) /\ fault' = fault

\* fp_string_free_and_null
Free == Ready /\ Becomes(A!Null, FALSE) /\ fault' = fault

-----------------------------------------------------------------------------
(* fp_string_replace_range_inplace of len characters from `from` on by s.   *)

\* s is not longer: what is left of the range is deleted.
Tightened(s, from, len) ==
  LET over == len - Len(s)
  IN  A!Block(str.room, str.cap, str.size - over,
              [j \in 0 .. str.size - over - 1 |->
                IF j < from THEN str.data[j]
                ELSE IF j < from + Len(s) THEN s[j - from + 1] ELSE str.data[j + over]])

\* Mutant of MovedBytes: the length of s is left out twice.
MovedBytesLess(s, from, len) == str.size - from - Len(s)

\* s is longer: the string grows, and what follows the range is moved behind
\* it.  The call moves size - from - more characters of it, and not the
\* size - from - len there are.
MovedBytes(s, from, len) == str.size - from - (Len(s) - len)
Widened(s, from, len) ==
  LET more   == Len(s) - len
      b      == A!Grown(str, more)
      old(j) == IF j < str.size THEN str.data[j] ELSE None
      moved  == from + len + more .. from + len + more + MovedBytes(s, from, len) - 1
  IN  A!Block(b.room, b.cap, b.size,
              [j \in 0 .. str.size + more - 1 |->
                IF j \in from .. from + Len(s) - 1 THEN s[j - from + 1]
                ELSE IF j \in moved THEN old(j - more) ELSE old(j)])

\* What the call misuses: a negative number of bytes is a very large one, the
\* bytes may go past the block, and too few leave characters unwritten.
WidenFault(s, from, len) ==
  LET b == Widened(s, from, len)
  IN  IF MovedBytes(s, from, len) < 0
           \/ from + Len(s) + MovedBytes(s, from, len) > b.room + A!Slack THEN "overflow"
      ELSE IF None \in Range(b.data) /\ None \notin Range(str.data) THEN "unwritten" ELSE "none"

Replaced(s, from, len) == IF Len(s) > len THEN Widened(s, from, len) ELSE Tightened(s, from, len)
ReplaceFaults(s, from, len) ==
  IF Len(s) > len THEN {WidenFault(s, from, len)} ELSE NullCopies(s = <<>>)

Substitutes(s, from, len) ==
  /\ ~A!IsNull(str) /\ from + len <= str.size
  /\ \E b \in {Replaced(s, from, len)} : str' = b
  /\ zero' = TRUE /\ pieces' = <<>>
  /\ fault' \in ReplaceFaults(s, from, len)

ReplaceRange(s, from, len) ==
  /\ Ready /\ str.size + Len(s) - len <= MaxLen
  /\ Substitutes(s, from, len) /\ UNCHANGED <<pc, Searching>>

\* The replacement is a view of the string itself, n characters from `at` on.
\* When the string grows before they are copied, they may be freed with its old
\* block, or what follows the range may have been moved over them; and a memcpy
\* between overlapping ranges is undefined.
OwnFault(at, n, from, len) ==
  IF n > len /\ str.size + n - len > str.cap THEN "use after free"
  ELSE IF at < from + n /\ from < at + n THEN "overlap" ELSE "none"
OwnRead(at, n, from, len) ==
  LET bytes    == MovedBytes(SubSeq(Text, at + 1, at + n), from, len)
      moved(j) == n > len /\ j \in from + n .. from + n + bytes - 1
      read(j)  == str.data[IF moved(j) THEN j - (n - len) ELSE j]
  IN  [k \in 1 .. n |-> read(at + k - 1)]
ReplaceOwn(at, n, from, len) ==
  /\ Ready /\ ~A!IsNull(str) /\ str.size + n - len <= MaxLen
  /\ at + n <= str.size /\ from + len <= str.size
  /\ \/ /\ OwnFault(at, n, from, len) # "none"
        /\ Becomes(str, zero) /\ fault' = OwnFault(at, n, from, len)
     \/ /\ OwnFault(at, n, from, len) = "none"
        /\ ReplaceRange(OwnRead(at, n, from, len), from, len)

\* Mutant of Find: the search stops before the last place.
FindShort(text, needle, from) ==
  LET hits == Hits(text, needle, from) \ {Len(text) - Len(needle)}
  IN  IF hits = {} THEN -1 ELSE Min(hits)

Find(text, needle, from) ==
  LET hits == Hits(text, needle, from) IN IF hits = {} THEN -1 ELSE Min(hits)

\* fp_string_replace_first_inplace
ReplaceFirst(f, s, from) ==
  LET p == Find(Text, f, from)
  IN  /\ from <= str.size
      /\ IF p = -1 THEN Ready /\ UNCHANGED vars ELSE ReplaceRange(s, p, Len(f))

\* What replacing every f by s makes of a text, f not being empty.
Replacing(f, s) ==
  LET r[t \in Seq(Chars)] ==
        IF Len(t) < Len(f) THEN t
        ELSE IF IsPrefix(f, t) THEN s \o r[SubSeq(t, Len(f) + 1, Len(t))]
        ELSE <<Head(t)>> \o r[Tail(t)]
  IN  r
Rest(from) == SubSeq(Text, from + 1, str.size)
Done(from) == SubSeq(Text, 1, from)

\* fp_string_replace_inplace: the call, and an iteration of its loop, which
\* for an empty f goes on for ever (here until the string is MaxLen long)
Replace(f, s, from) ==
  /\ Ready /\ from <= str.size /\ str.size <= MaxLen
  /\ pc' = "replace" /\ find' = f /\ with' = s /\ start' = from
  /\ goal' = IF f = <<>> THEN <<>> ELSE Done(from) \o Replacing(f, s)[Rest(from)]
  /\ UNCHANGED <<str, zero, fault, splitting>>

ReplaceNext ==
  /\ pc = "replace" /\ fault = "none"
  /\ find = <<>> => str.size < MaxLen
  /\ \E p \in 0 .. str.size :
       /\ p = Find(Text, find, start)
       /\ Substitutes(with, p, Len(find))
       /\ start' = p + Len(with)
  /\ UNCHANGED <<pc, find, with, goal, delims, last, found>>

\* Mutant of ReplaceDone: only the end of the string ends the loop.
ReplaceDoneAtEnd ==
  /\ pc = "replace" /\ fault = "none" /\ start = str.size /\ Find(Text, find, start) = -1
  /\ pc' = "idle" /\ find' = <<>> /\ with' = <<>> /\ start' = 0 /\ goal' = <<>>
  /\ UNCHANGED <<str, zero, fault, splitting>>

ReplaceDone ==
  /\ pc = "replace" /\ fault = "none" /\ Find(Text, find, start) = -1
  /\ pc' = "idle" /\ find' = <<>> /\ with' = <<>> /\ start' = 0 /\ goal' = <<>>
  /\ UNCHANGED <<str, zero, fault, splitting>>

-----------------------------------------------------------------------------
(* fp_string_view_split of the string: the call, the search for the next    *)
(* delimiter of an iteration, and the rest of the iteration.                *)

Split(ds) ==
  /\ Ready
  /\ pc' = "seek" /\ delims' = ds /\ last' = 0 /\ found' = -1 /\ pieces' = <<>>
  /\ UNCHANGED <<str, zero, fault, replacing>>

\* Mutant of Seek: the last delimiter is taken instead of the first.
SeekFarthest ==
  LET hits == UNION {Hits(Text, <<d>>, last) : d \in delims}
  IN  /\ pc = "seek"
      /\ found' = IF hits = {} THEN -1 ELSE Max(hits)
      /\ pc' = "cut"
      /\ UNCHANGED <<str, zero, fault, replacing, delims, last, pieces>>

Seek ==
  LET hits == {Find(Text, <<d>>, last) : d \in delims} \ {-1}
  IN  /\ pc = "seek"
      /\ found' = IF hits = {} THEN -1 ELSE Min(hits)
      /\ pc' = "cut"
      /\ UNCHANGED <<str, zero, fault, replacing, delims, last, pieces>>

Remembered(piece) == IF Len(pieces) < MaxPieces THEN pieces \o <<piece>> ELSE pieces
Cut ==
  /\ pc = "cut" /\ found # -1
  /\ pieces' = Remembered(<<last, found - last>>)
  /\ last' = found /\ pc' = "seek"
  /\ UNCHANGED <<str, zero, fault, replacing, delims, found>>
CutLast ==
  /\ pc = "cut" /\ found = -1
  /\ pieces' = Remembered(<<last, str.size - last>>)
  /\ pc' = "idle" /\ delims' = {} /\ last' = 0
  /\ UNCHANGED <<str, zero, fault, replacing, found>>

-----------------------------------------------------------------------------
Views   == UNION {[1 .. l -> Chars] : l \in 0 .. MaxView}
Args    == UNION {[1 .. k -> Views] : k \in 1 .. MaxArgs}
Needles == {view \in Views : Len(view) <= MaxNeedle}
Indexes == 0 .. MaxLen

Calls ==
  \/ \E view \in Views : MakeDynamic(view) \/ VFormat(view) \/ ConcatenateInplace(view, FALSE)
  \/ \E a, b \in Views : Concatenate(a, b)
  \/ \E args \in Args : ConcatenateN(args)
  \/ \E text \in Views, points \in 0 .. MaxView :   \* of 1 to 4 bytes each
       points <= Len(text) /\ Len(text) <= 4 * points /\ CodepointsToString(text, points)
  \/ \E c \in Chars : AppendChar(c)
  \/ \E times \in 0 .. MaxArgs : Replicate(times)
  \/ \E s \in Views, from, len \in Indexes : ReplaceRange(s, from, len)
  \/ \E n \in 1 .. MaxView, at, from, len \in Indexes : ReplaceOwn(at, n, from, len)
  \/ \E f \in Needles, s \in Views, from \in Indexes : ReplaceFirst(f, s, from) \/ Replace(f, s, from)
  \/ \E ds \in SUBSET Chars : Split(ds)
  \/ ConcatenateInplace(Text, TRUE)
  \/ InvalidCodepoints \/ Free

Steps == ReplaceNext \/ ReplaceDone \/ Seek \/ Cut \/ CutLast

Next == Calls \/ Steps

Spec == Init /\ [][Next]_vars

\* A call that was made runs: nothing else is scheduled against it.
FairSpec == Spec /\ WF_vars(Steps)

-----------------------------------------------------------------------------
(* What must be true of it. *)

\* The type invariant: the string is a block whose elements fit its capacity
\* and whose capacity fits the block, and the loops' indexes stay in the text.
TypeOK ==
  /\ A!IsBlock(str) /\ A!Backed(str)
  /\ zero \in BOOLEAN
  /\ fault \in {"none", "null copy", "use after free", "overflow", "unwritten", "overlap"}
  /\ pc \in {"idle", "replace", "seek", "cut"}
  /\ find \in Needles /\ with \in Views /\ goal \in Seq(Chars)
  /\ delims \subseteq Chars
  /\ pc = "replace" => start \in 0 .. str.size
  /\ pc \in {"seek", "cut"} => last \in 0 .. str.size /\ found \in -1 .. str.size

\* Every call that changes a string leaves a 0 behind it: the exact sizing of
\* fpda_resize, and the explicit writes of the others.  Only concatenate_n and
\* a string made of no code points may leave none, with capacity to spare.
Terminates ==
  [][str' # str /\ ~A!IsNull(str') /\ ~zero' =>
       /\ str'.size < str'.cap
       /\ \/ CodepointsToString(<<>>, 0)
          \/ \E args \in Args : ConcatenateN(args)]_vars

\* When replace ends, and no memory was misused, the string is what replacing
\* every occurrence makes of it: each iteration takes the first one, what was
\* put in is not searched again, and the loop does not end too early.
ReplacesAll ==
  [][pc = "replace" /\ pc' = "idle" /\ find # <<>> => Text = goal]_vars

\* Memory is misused only by appending a string to itself, by copies of an
\* empty view, by a replacement longer than what it replaces, unless it is
\* exactly twice as long, and by one taken from the string itself, when it
\* overlaps the place it is copied to or is longer than what it replaces.
MisuseIsNarrow ==
  [][fault' # fault =>
       \/ fault' = "use after free" /\ ConcatenateInplace(Text, TRUE)
       \/ fault' = "null copy"
       \/ /\ fault' \in {"overflow", "unwritten"}
          /\ \E s \in Views, len \in Indexes :
               /\ \/ ReplaceNext /\ s = with /\ len = Len(find)
                  \/ \E from \in Indexes : ReplaceRange(s, from, len)
               /\ Len(s) > len /\ Len(s) # 2 * len
       \/ \E n \in 1 .. MaxView, at, from, len \in Indexes :
            /\ ReplaceOwn(at, n, from, len)
            /\ \/ fault' = "use after free" /\ n > len
               \/ fault' = "overlap" /\ at \in from - n + 1 .. from + n - 1]_vars

\* Replacing ends, unless what is searched is empty or memory is misused.
ReplaceReturns ==
  pc = "replace" /\ find # <<>> ~> pc = "idle" \/ fault # "none"

\* The pieces of a split follow each other from the start of the string, to
\* its end when the call returns, and none contains a delimiter but at its own
\* start.
End(piece) == piece[1] + piece[2]
PiecesTile ==
  /\ \A k \in DOMAIN pieces :
       /\ pieces[k][1] = IF k = 1 THEN 0 ELSE End(pieces[k - 1])
       /\ \A j \in pieces[k][1] + 2 .. End(pieces[k]) : Text[j] \notin delims
  /\ pc = "idle" /\ 0 < Len(pieces) /\ Len(pieces) < MaxPieces =>
       End(pieces[Len(pieces)]) = str.size

-----------------------------------------------------------------------------
(* What the repository says of it and the code does not do. *)

\* "Once there are no more delimiters to be found push the final string": the
\* search of split comes to a point where there are no more.
SplitReturns == pc \in {"seek", "cut"} ~> pc = "idle"

\* A replacement puts in its characters and keeps the others, as the test that
\* replaces "Bob" by "World!" expects.
ReplaceKeepsTheRest ==
  [][\A s \in Views, from, len \in Indexes :
       ReplaceRange(s, from, len) /\ Len(s) > 0 /\ len > 0 =>
         [j \in 1 .. str'.size |-> str'.data[j - 1]] =
           Done(from) \o s \o Rest(from + len)]_vars
=============================================================================
