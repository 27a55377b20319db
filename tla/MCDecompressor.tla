--------------------------- MODULE MCDecompressor ---------------------------
(***************************************************************************)
(* LZ4Decompressor for TLC.  Literal bytes differ by position, by record   *)
(* and by block, so that a byte from a wrong place or from an earlier      *)
(* block is seen.                                                          *)
(***************************************************************************)
EXTENDS LZ4DecompressorInvariant

Lits(k, n) == [i \in 1..n |-> (26 * k + i) % 256]
Rec(k, n, off, m) == [lits |-> Lits(k, n), offset |-> off, mlen |-> m]

(* No literals, one, a nibble and one extension byte; overlapping and      *)
(* distant matches; blocks that end in a match (as the testbench's) and in *)
(* literals.                                                               *)
ShortBlocks ==
  { << Rec(1, 5, 5, 15) >>,
    << Rec(3, 1, 1, 4), Rec(4, 0, 5, 4), Rec(4, 2, 0, 0) >>,
    << Rec(5, 15, 0, 0) >>,
    << Rec(6, 3, 2, 19), Rec(7, 1, 0, 0) >> }

(* Lengths that need a continuation byte of 255; the first block fills the *)
(* window of 300 bytes.                                                    *)
LongBlocks ==
  { << Rec(8, 270, 260, 30) >>,
    << Rec(9, 2, 2, 274), Rec(2, 5, 0, 0) >> }

AllBlocks == ShortBlocks \cup LongBlocks
=============================================================================
