------------------------------ MODULE LZ4Stream ------------------------------
(***************************************************************************)
(* The LZ4 block format, as the reference for the decompressor core: what  *)
(* an encoder emits and what it stands for.  A block is a sequence of      *)
(* records: literal bytes, then a match of mlen bytes at distance offset;  *)
(* mlen = 0 says that there is no match, as in the last record of a block. *)
(***************************************************************************)
EXTENDS Integers, Sequences, SequencesExt

Below(n) == 0 .. n - 1
Byte     == Below(256)

(* A match has at least four bytes: the format has no shorter length.      *)
MatchLengths == {n \in Nat : n = 0 \/ n >= 4}
LZ4Sequence  == [lits : Seq(Byte), offset : Below(65536), mlen : MatchLengths]

(* The bytes that follow a token for a length n whose nibble is 15.        *)
Extension(n) ==
  IF n < 15 THEN <<>>
  ELSE [i \in 1..((n - 15) \div 255) |-> 255] \o << (n - 15) % 255 >>

Nibble(n) == IF n < 15 THEN n ELSE 15

EncodeSequence(s) ==
  IF s.mlen = 0
  THEN << 16 * Nibble(Len(s.lits)) >> \o Extension(Len(s.lits)) \o s.lits
  ELSE << 16 * Nibble(Len(s.lits)) + Nibble(s.mlen - 4) >>
         \o Extension(Len(s.lits)) \o s.lits
         \o << s.offset % 256, s.offset \div 256 >> \o Extension(s.mlen - 4)

(* The bytes of the first k records of a block.                            *)
EncodedTo(block, k) ==
  LET bytes[i \in 0..Len(block)] ==
        IF i = 0 THEN <<>> ELSE bytes[i - 1] \o EncodeSequence(block[i])
  IN  bytes[k]

Encode(block) == EncodedTo(block, Len(block))

(* A match may overlap the bytes it produces: they then repeat the last    *)
(* offset bytes of the output.                                             *)
DecodeSequence(out, s) ==
  LET base == out \o s.lits
      n    == Len(base)
  IN  base \o [i \in 1..s.mlen |-> base[n - s.offset + 1 + ((i - 1) % s.offset)]]

(* The bytes that the first k records stand for, and how many they are.    *)
DecodedTo(block, k) ==
  LET out[i \in 0..Len(block)] ==
        IF i = 0 THEN <<>> ELSE DecodeSequence(out[i - 1], block[i])
  IN  out[k]

Decode(block) == DecodedTo(block, Len(block))

DecodedLen(block, k) ==
  LET len[i \in 0..Len(block)] ==
        IF i = 0 THEN 0 ELSE len[i - 1] + Len(block[i].lits) + block[i].mlen
  IN  len[k]

(* Every match starts inside the output so far.                            *)
OffsetsInside(block) ==
  \A i \in DOMAIN block : block[i].mlen > 0 =>
    block[i].offset \in 1..(DecodedLen(block, i - 1) + Len(block[i].lits))

(* The block fits.  The records before the last one have a match of at     *)
(* least four bytes; the last one is not empty.                            *)
WellFormed(block, size) ==
  /\ block # <<>>
  /\ \A i \in DOMAIN block :
       IF block[i].mlen = 0 THEN i = Len(block) /\ block[i].lits # <<>>
       ELSE block[i].mlen >= 4
  /\ OffsetsInside(block)
  /\ DecodedLen(block, Len(block)) <= size

-----------------------------------------------------------------------------
(* The way back: the records of a byte string.  Cut stands for one whose   *)
(* bytes are not all there; the low nibble of the last token says nothing. *)
Cut == [lits |-> <<>>, offset |-> 0, mlen |-> 1]

(* How many bytes of 255 there are from byte i on.                         *)
Run255(s, i) ==
  IF i > Len(s) THEN 0
  ELSE Min({Len(s) + 1} \cup {j \in i..Len(s) : s[j] # 255}) - i

(* A length that starts with a nibble and goes on at byte i.               *)
Field(s, i, nibble) ==
  IF nibble < 15 THEN [n |-> nibble, next |-> i]
  ELSE LET k == Run255(s, i)
       IN  [n |-> 15 + 255 * k + (IF i + k <= Len(s) THEN s[i + k] ELSE 0),
            next |-> i + k + 1]

Records(s) ==
  LET from[i \in 1..Len(s) + 1] ==
        IF i > Len(s) THEN <<Cut>>
        ELSE LET lit == Field(s, i + 1, s[i] \div 16)
                 at  == lit.next + lit.n
                 m   == Field(s, at + 2, s[i] % 16)
                 Rec(offset, mlen) == [lits |-> SubSeq(s, lit.next, at - 1),
                                       offset |-> offset, mlen |-> mlen]
             IN  IF at = Len(s) + 1 THEN <<Rec(0, 0)>>
                 ELSE IF at > Len(s) \/ m.next > Len(s) THEN <<Cut>>
                 ELSE <<Rec(s[at] + 256 * s[at + 1], m.n + 4)>> \o from[m.next]
  IN  from[1]
IsBlock(s) == \A i \in DOMAIN Records(s) : Records(s)[i] # Cut

(* The restrictions on the end of a block: five literals, and no match     *)
(* that starts in the last twelve bytes.                                   *)
EndRules(block) ==
  LET k == Len(block) IN
  k > 1 => /\ Len(block[k].lits) >= 5
           /\ DecodedLen(block, k - 1) - block[k - 1].mlen
                <= DecodedLen(block, k) - 12
=============================================================================
