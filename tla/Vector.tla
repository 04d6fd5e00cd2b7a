-------------------------------- MODULE Vector --------------------------------
(***************************************************************************)
(* What a dynamic array promises: it is a sequence, and each call does to  *)
(* it what its name says.  Positions count from 0, as in the source.       *)
(***************************************************************************)
EXTENDS Naturals, Sequences

VARIABLE seqs   \* the sequence each array variable holds

Fill(v, k) == [j \in 1 .. k |-> v]

Becomes(x, s) == seqs' = [seqs EXCEPT ![x] = s]

Keep == seqs' = seqs

Extend(x, s) == Becomes(x, seqs[x] \o s)

InsertAt(x, pos, s) ==
  Becomes(x, SubSeq(seqs[x], 1, pos) \o s \o SubSeq(seqs[x], pos + 1, Len(seqs[x])))

Remove(x, pos, count) ==
  Becomes(x, SubSeq(seqs[x], 1, pos) \o SubSeq(seqs[x], pos + count + 1, Len(seqs[x])))

\* Cut to at most size elements; lengthened to at least size elements with v.
CutTo(x, size)        == IF size < Len(seqs[x]) THEN Remove(x, size, Len(seqs[x]) - size) ELSE Keep
LengthenTo(x, size, v) == IF size > Len(seqs[x]) THEN Extend(x, Fill(v, size - Len(seqs[x]))) ELSE Keep

\* Two ranges of count elements change places.
Exchange(x, p, q, count) ==
  Becomes(x, [j \in 1 .. Len(seqs[x]) |->
    IF j \in p + 1 .. p + count THEN seqs[x][j - p + q]
    ELSE IF j \in q + 1 .. q + count THEN seqs[x][j - q + p] ELSE seqs[x][j]])

\* The last count elements take the place of those removed at pos.
SwapRemove(x, pos, count) ==
  LET left == Len(seqs[x]) - count
  IN  Becomes(x, [j \in 1 .. left |->
        IF j \in pos + 1 .. pos + count THEN seqs[x][left + j - pos] ELSE seqs[x][j]])

Assign(x, y) == Becomes(x, seqs[y])
=============================================================================
