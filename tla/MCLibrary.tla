------------------------------ MODULE MCLibrary ------------------------------
(***************************************************************************)
(* LZ4Library for TLC: sources of the lengths at which the code branches,  *)
(* every output size below the bound for the short ones, and a hash with   *)
(* few slots, so that positions collide and are overwritten.               *)
(***************************************************************************)
EXTENDS LZ4LibraryInvariant

Hash(four) == (four[1] + 3 * four[2] + 5 * four[3] + 7 * four[4]) % 8
HashSlots  == 0 .. 7

Same(n)        == [i \in 1 .. n |-> 65]
Distinct(n)    == [i \in 1 .. n |-> (i * 89) % 251]
Periodic(p, n) == [i \in 1 .. n |-> 65 + ((i - 1) % p)]
(* n fresh bytes, a copy of k of them, fresh bytes again.                  *)
Repeat(n, k, m) == Distinct(n) \o SubSeq(Distinct(n), n - k + 1, n)
                     \o [i \in 1 .. m |-> (i * 31 + 7) % 241]

Short == { <<>>, Same(1), Distinct(12), Same(13), Same(14), Periodic(2, 18),
           Same(24), Periodic(3, 26), Repeat(10, 6, 9), Repeat(16, 5, 14),
           Repeat(3, 3, 12) \o Repeat(4, 4, 13) }
Long  == { Same(300), Periodic(5, 330), Periodic(17, 90), Distinct(100),
           Repeat(30, 30, 40), Distinct(24) \o Periodic(7, 60) \o Distinct(30) }
Fresh300 == Distinct(251) \o Same(49)

(* Two copies of a long phrase, searched in steps so wide that the match   *)
(* is found far behind its start.                                          *)
WideSteps == [i \in 1 .. 2720 |->
                LET k == IF i > 1000 THEN 101 + ((i - 101) % 900) ELSE i
                IN  ((k * k) \div 3 + 11 * k) % 256]

Call(fn, src, cap, acc) == [fn |-> fn, src |-> src, cap |-> cap, acc |-> acc]

LongCaps(src) == {8, 20, 24, 30, 60, 99, Len(src) + 1,
                  LZ4_compressBound(Len(src)) - 1, LZ4_compressBound(Len(src))}

OneCall ==
  UNION { { <<Call(fn, src, cap, 1)>> :
              fn \in {"fast", "destSize"}, cap \in 0 .. Len(src) + 16 } : src \in Short }
  \cup UNION { { <<Call(fn, src, cap, acc)>> : fn \in {"fast", "destSize"},
                   cap \in LongCaps(src), acc \in {1, 5} } : src \in Long }
  \cup { <<Call("fast", Fresh300, 400, 0)>>,
         <<Call("destSize", WideSteps, 1016, 900)>> }

(* The table of the first call is kept, or is full, or the second source   *)
(* is long.                                                                *)
TwoCalls ==
  { <<Call(fn, first, 60, 1), Call("fastReset", second, cap, 1)>> :
      fn \in {"fast", "fastReset", "destSize"}, first \in {Same(24), Repeat(16, 5, 14)},
      second \in {Same(24), Repeat(16, 5, 14), Repeat(30, 30, 40)}, cap \in {20, 120} }
  \cup { <<Call("fast", Same(n), 4000, 1), Call("fastReset", Repeat(16, 5, 14), 60, 1)>> :
           n \in 2760 .. 2770 }

AllScripts == OneCall \cup TwoCalls

(* Matches at every distance the copy routines tell apart, of lengths on   *)
(* both sides of their strides, far from and near to the end.              *)
Block(lits, offset, mlen, last) ==
  Encode(<< [lits |-> Distinct(lits), offset |-> offset, mlen |-> mlen],
            [lits |-> [i \in 1 .. last |-> 200 + (i % 50)], offset |-> 0, mlen |-> 0] >>)
BlockSet ==
  { Block(19, offset, mlen, last) :
      offset \in 1 .. 19, mlen \in {4, 9, 16, 18, 19, 40}, last \in {5, 12, 90} }

WithoutLast(b) == SubSeq(b, 1, Len(b) - 1)
BlockDamaged(b) ==
  {WithoutLast(b), Append(b, 1), SubSeq(b, 1, Len(b) \div 2)}
    \cup { [b EXCEPT ![i] = v] : i \in {1, 22, Len(b) - 5} \cap DOMAIN b,
                                 v \in {0, 79, 255} }
BlockRooms(n) == {0, 1, n \div 2, n - 1, n, n + 1, n + 70} \cap Nat
Junk == <<17, 1, 0, 255, 255, 3>>
=============================================================================
