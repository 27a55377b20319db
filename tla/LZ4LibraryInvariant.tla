---------------------------- MODULE LZ4LibraryInvariant ----------------------------
(***************************************************************************)
(* What holds of the encoder and of the decoder of lz4.c at every label:   *)
(* the inductive invariants behind the bounds that lz4.h promises.         *)
(***************************************************************************)
EXTENDS LZ4Library

(* The encoder.  Bytes out against bytes in: a sequence takes at most 256  *)
(* bytes for 255, which LZ4_compressBound pays for; a token and its        *)
(* literals are up to 495 / 255 of a byte ahead of it until the match has  *)
(* been counted.                                                           *)
Ahead(e, i, k) ==
  IF call.outputDirective = "notLimited" THEN 255 * Len(e.dst) <= 256 * i + k ELSE TRUE
(* With less room, what the checks against olimit have left of it.         *)
Spare(e, k) ==
  call.outputDirective # "notLimited" => Len(e.dst) + k <= olimit

Directives == {"notLimited", "limitedOutput", "fillOutput"}

CtxOK(c) ==
  /\ c \in [hashTable : [Slots -> Nat], currentOffset : Nat, clearedTable : BOOLEAN]
  /\ c.clearedTable => c.currentOffset = 0
  /\ \A h \in Slots : c.hashTable[h] <= c.currentOffset

CallOK ==
  /\ call \in [src : Seq(Byte), dstCapacity : Nat, outputDirective : Directives,
               dictSmall : BOOLEAN, startIndex : Nat, acceleration : Nat,
               destSize : BOOLEAN]
  /\ call.dictSmall <=> call.startIndex # 0
  /\ call.outputDirective = "notLimited" /\ iend > 0 =>
       olimit >= LZ4_compressBound(iend)
  /\ call.startIndex + iend <= IndexLimit + MFLIMIT - 1

EncFields ==
  {"pc", "ip", "anchor", "match", "token", "dst", "forwardH", "forwardIp", "step",
   "searchMatchNb", "filledIp", "result", "consumed", "wrote", "fetched"}

(* The bounds, whatever the label.                                         *)
EncKept(e) ==
  /\ e = [x \in EncFields |-> e[x]]
  /\ e.dst \in Seq(Byte)
  /\ e.wrote \in Nat /\ e.wrote <= olimit
  /\ e.fetched \in Nat /\ e.fetched <= iend

(* Every entry made in this call lies before i, in the slot of its hash.   *)
EntriesBefore(c, i) ==
  \A h \in Slots :
    /\ Candidate(c, h) < i
    /\ Candidate(c, h) > 0 => LZ4_hashPosition(Candidate(c, h)) = h

Running(c, e) ==
  /\ iend > 0 /\ call.acceleration >= 1
  /\ c.currentOffset = call.startIndex + iend
  /\ e.anchor \in Nat /\ e.anchor <= iend
  /\ FillOutput => Len(e.dst) < olimit

Searching(c, e) ==
  /\ Ahead(e, e.anchor, 0)
  /\ e.forwardIp \in Nat /\ e.anchor < e.forwardIp /\ e.forwardIp <= mflimitPlusOne
  /\ e.step \in Nat /\ e.step >= 1 /\ e.searchMatchNb \in Nat /\ e.searchMatchNb >= 64
  /\ e.forwardH = LZ4_hashPosition(e.forwardIp)
  /\ EntriesBefore(c, e.forwardIp)

Matching(e) ==
  /\ e.ip \in Nat /\ e.anchor <= e.ip /\ e.ip <= iend - MFLIMIT
  /\ e.match \in Nat /\ e.match < e.ip
  /\ e.filledIp \in Nat

AtLiterals(c, e) ==
  /\ Ahead(e, e.anchor, 0) /\ Matching(e)
  /\ Four(e.match) = Four(e.ip)
  /\ e.filledIp = e.ip /\ EntriesBefore(c, e.ip + 1)

(* The table holds nothing past the match's start, or what the search left *)
(* there before the match was extended backwards: the match reaches it.    *)
Reaches(c, e) ==
  \/ EntriesBefore(c, e.ip + 1)
  \/ /\ e.filledIp > e.ip /\ e.filledIp <= iend - MFLIMIT
     /\ EntriesBefore(c, e.filledIp + 1)
     /\ \A j \in e.ip .. e.filledIp + 3 : At(j) = At(e.match + (j - e.ip))

(* The token has its high nibble.                                          *)
AtMatch(c, e) ==
  /\ Ahead(e, e.ip, 495) /\ Spare(e, 5) /\ Matching(e) /\ Reaches(c, e)
  /\ e.token \in Nat /\ e.token < Len(e.dst)
  /\ \E high \in 0 .. 15 : e.dst[e.token + 1] = 16 * high

AtNext(c, e) ==
  /\ Ahead(e, e.ip, 0) /\ Spare(e, 6)
  /\ e.ip = e.anchor /\ e.ip >= 2 /\ e.ip <= matchlimit
  /\ e.filledIp \in Nat /\ EntriesBefore(c, e.ip)

AtReturn(e) ==
  e.result > 0 /\ e.consumed < iend => e.result >= olimit - 1

EncoderAt(c, e) ==
  /\ CtxOK(c) /\ EncKept(e)
  /\ e.pc \in {"returned", "search", "literals", "_next_match", "next", "last_literals"}
  /\ e.pc # "returned" => Running(c, e)
  /\ e.pc = "returned" => AtReturn(e)
  /\ e.pc = "search" => Searching(c, e)
  /\ e.pc = "literals" => AtLiterals(c, e)
  /\ e.pc = "_next_match" => AtMatch(c, e)
  /\ e.pc = "next" => AtNext(c, e)
  /\ e.pc = "last_literals" => Ahead(e, e.anchor, 0)

EncoderInv == CallOK /\ EncoderAt(ctx, enc)

-----------------------------------------------------------------------------
(* The decoder: the shape of its locals, and the bounds to be kept.        *)
Locals == {"pc", "ip", "op", "result", "mem", "wrote", "fetched", "lowest"}
Shape(d) == d = [x \in Locals |-> d[x]]

Numbers(d) ==
  /\ d.ip \in Nat /\ d.op \in Nat
  /\ d.wrote \in Int /\ d.fetched \in Int /\ d.lowest \in Int

Within(d) ==
  /\ Shape(d) /\ Numbers(d)
  /\ d.wrote <= oend /\ d.fetched <= inputEnd /\ d.lowest >= 0

JobOK ==
  job.src \in Seq(Byte) /\ job.outputSize \in Nat /\ job.partialDecoding \in BOOLEAN

(* Where a turn of a loop starts and ends: there is a token to read, and   *)
(* the fast loop has room for its widest copy.                             *)
Ready(d) ==
  /\ Within(d) /\ d.pc \in {"returned", "safe", "fast"}
  /\ d.pc = "safe" => d.op <= oend /\ d.ip < inputEnd
  /\ d.pc = "fast" => d.op <= oend - FASTLOOP_SAFE_DISTANCE /\ d.ip < inputEnd

DecoderInv == JobOK /\ Ready(dec)

(* Both, and the block that goes from one to the other.                    *)
LibraryInv ==
  /\ script \in Seq(Requests) /\ given \in Seq(Byte)
  /\ EncoderInv /\ DecoderInv
=============================================================================
