------------------------------- MODULE MCMemory -------------------------------
(***************************************************************************)
(* HyperRAMController for TLC: stored lines that compress to no chunk, to  *)
(* three and to four, and one whose differences overflow.                  *)
(***************************************************************************)
EXTENDS HyperRAMInvariant

B2D1Line == [i \in 1 .. 64 |-> IF i % 2 = 1 THEN (i * 2) % 120 ELSE 3]
RawLine  == [i \in 1 .. 64 |-> (i * i * 37) % 251]
EdgeLine == FlattenSeq([i \in 1 .. 8 |->        \* 2^63 - 1 and -2^63 in turn
  [k \in 1 .. 8 |-> IF k = 8 THEN 127 + (i % 2) ELSE 255 * (1 - (i % 2))]])

Write(address, bytes) ==
  [op |-> "Write", address |-> address, size |-> Len(bytes), src |-> bytes]
Read(address, size) == [op |-> "Read", address |-> address, size |-> size, src |-> <<>>]

(* For each pattern, lines whose last word is at the limits of its deltas, *)
(* and one beyond, from bases at the limits of the word.                   *)
Top(n, last)  == [k \in 1 .. n |-> IF k = n THEN last ELSE 255]
Low(n, last)  == [k \in 1 .. n |-> IF k = n THEN last ELSE 0]
One(n)        == [k \in 1 .. n |-> IF k = 1 THEN 1 ELSE 0]
Bases(w)      == {Low(w, 0), Top(w, 255), Top(w, 127), Low(w, 128), Low(w, 7)}
Deltas(n, w)  ==
  LET max == SignExtend(Top(n, 127), w)
      min == SignExtend(Low(n, 128), w)
  IN  {max, min, Plus(max, One(w)), Minus(min, One(w))}
LineWith(b, d) ==
  FlattenSeq(Eager([i \in 1 .. CACHE_LINE_SIZE \div Len(b) |->
    IF i * Len(b) = CACHE_LINE_SIZE THEN Plus(b, d) ELSE b]))
LimitLines ==
  UNION { {LineWith(b, d) : b \in Bases(Shapes[i].base),
                            d \in Deltas(Shapes[i].delta, Shapes[i].base)}
          : i \in DOMAIN Shapes }

Calls ==
  { Write(0, RawLine), Write(0, ZeroLine), Write(64, B2D1Line), Write(64, EdgeLine),
    Write(60, [i \in 1 .. 70 |-> 100 + i]), Read(60, 70), Read(128, 3) }
=============================================================================
