------------------------------ MODULE LZ4Library ------------------------------
(***************************************************************************)
(* A caller of the block compressor and the block decoder of lz4.c: one or *)
(* two compressions with the same state, then one decompression, of what   *)
(* the last one returned or of a block from elsewhere, given whole, with   *)
(* bytes missing, changed or added, and with too little or ample room.     *)
(*                                                                         *)
(* The properties say what lz4.h promises of the two, against the block    *)
(* format as LZ4Stream defines it, and of a full output (OutputFilled),    *)
(* where the code keeps less than lz4.h says, what the code keeps.         *)
(***************************************************************************)
EXTENDS LZ4Encoder, LZ4Decoder

CONSTANTS
  Scripts,      \* sequences of calls of the compressor
  Blocks,       \* blocks that another encoder made
  Damaged(_),   \* byte strings to hand over in the place of a block
  Rooms(_),     \* output sizes to try for a block of that decompressed size
  Trailing      \* bytes that may follow a block decoded in part

(* The encoder that is modelled takes sources below 64 KB (LZ4_64Klimit).  *)
(* Only LZ4_compress_destSize_extState takes the acceleration as it is;    *)
(* LZ4_compress_destSize gives it 1.                                       *)
Requests ==
  {r \in [fn : {"fast", "fastReset", "destSize"}, src : Seq(Byte), cap : Nat, acc : Int] :
     /\ Len(r.src) <= IndexLimit + MFLIMIT - 1
     /\ r.fn = "destSize" => r.acc >= 1}

ASSUME LibraryAssumption ==
  /\ Scripts \subseteq Seq(Requests)
  /\ Blocks \subseteq Seq(Byte) /\ Trailing \in Seq(Byte)

VARIABLES
  script,   \* the calls of the compressor still to come
  given     \* the block to decode

vars == <<encoderVars, decoderVars, script, given>>

Init ==
  /\ EncoderInit /\ DecoderInit
  /\ \/ script \in Scripts /\ given = <<>>
     \/ script = <<>> /\ given \in Blocks

Request(fn) ==
  /\ script # <<>> /\ script[1].fn = fn
  /\ script' = Tail(script)
  /\ UNCHANGED <<decoderVars, given>>

CompressFast ==
  /\ Request("fast")
  /\ LZ4_compress_fast_extState(script[1].src, script[1].cap, script[1].acc)
CompressFastReset ==
  /\ Request("fastReset")
  /\ LZ4_compress_fast_extState_fastReset(script[1].src, script[1].cap, script[1].acc)
CompressDestSize ==
  /\ Request("destSize")
  /\ LZ4_compress_destSize_extState(script[1].src, script[1].cap, script[1].acc)

Compressing == EncoderStep /\ UNCHANGED <<decoderVars, script, given>>

(* The compressor's state is dropped, the block goes to the decoder.       *)
HandOver ==
  /\ enc.pc = "returned" /\ enc.result > 0 /\ script = <<>>
  /\ given' = enc.dst
  /\ ctx' = ClearedState /\ call' = NoCall /\ enc' = NoLocals
  /\ UNCHANGED <<decoderVars, script>>

Content(bytes) == Decode(Records(bytes))

(* The bytes and the sizes that the decoder is tried with.                 *)
BytesLike(bytes) == Damaged(bytes) \cap Seq(Byte)
SizesFor(bytes)  == Rooms(Len(Content(bytes))) \cap Nat

Decompress ==
  /\ given # <<>> /\ job = NoJob
  /\ \E size \in SizesFor(given) :
       \/ LZ4_decompress_safe(given, size)
       \/ /\ size = Len(Content(given))
          /\ \E src \in BytesLike(given) : LZ4_decompress_safe(src, size)
  /\ UNCHANGED <<encoderVars, script, given>>

DecompressPartial ==
  /\ given # <<>> /\ job = NoJob
  /\ \E size \in SizesFor(given) :
       \/ LZ4_decompress_safe_partial(given, size, size)
       \/ /\ size <= Len(Content(given))
          /\ LZ4_decompress_safe_partial(given \o Trailing, size, size + 1)
       \/ /\ size = Len(Content(given))
          /\ \E kept \in SizesFor(given) :
               /\ kept < Len(given)
               /\ LZ4_decompress_safe_partial(SubSeq(given, 1, kept), size, size)
  /\ UNCHANGED <<encoderVars, script, given>>

Decompressing == DecoderStep /\ UNCHANGED <<encoderVars, script, given>>

Next ==
  \/ CompressFast \/ CompressFastReset \/ CompressDestSize \/ Compressing
  \/ HandOver \/ Decompress \/ DecompressPartial \/ Decompressing

Spec == Init /\ [][Next]_vars

-----------------------------------------------------------------------------
Compressed == enc.pc = "returned" /\ enc.result > 0
Decoded    == dec.pc = "returned" /\ job # NoJob
Output     == [i \in 1 .. dec.result |-> dec.mem[i - 1]]

(* lz4.h: never writes outside dst, nor reads outside source.  Copies of 8 *)
(* bytes and lengths stored four bytes at a time go past what is asked     *)
(* for; the checks against olimit and mflimit have to leave room for it.   *)
EncoderInBounds == enc.wrote <= call.dstCapacity /\ enc.fetched <= iend

(* Every position in the table is behind the current one, so that a later  *)
(* search finds no match ahead of it: also after a match was cut short to  *)
(* fit the output, and after calls that reused the table.                  *)
TableBehind ==
  \A h \in Slots :
    /\ enc.pc = "search" => Candidate(ctx, h) < enc.forwardIp
    /\ enc.pc = "next" => Candidate(ctx, h) < enc.ip

(* What was compressed stands for the source, or for the first bytes of it *)
(* when the output was to be filled, whatever the table held before.       *)
RoundTrip ==
  Compressed =>
    /\ IsBlock(enc.dst) /\ OffsetsInside(Records(enc.dst))
    /\ Content(enc.dst) = SubSeq(call.src, 1, enc.consumed)
    /\ ~FillOutput => enc.consumed = iend

(* The end of a block obeys the format's restrictions, which the decoder's *)
(* copies rely on.                                                         *)
EndObeyed == Compressed => EndRules(Records(enc.dst))

(* LZ4_compress_destSize leaves some of the source out only when at most   *)
(* one byte of the output is left: lastRun is what fits behind the token   *)
(* and its length bytes, and 15 bytes left hold a run of 14 literals only, *)
(* since one of 15 would need a length byte more.  That is less than lz4.h *)
(* says, which has it fill the output completely.                          *)
OutputFilled ==
  Compressed /\ enc.consumed < iend => enc.result >= call.dstCapacity - 1

(* Whatever the input, the decoder stays inside its two buffers.           *)
DecoderInBounds ==
  dec.wrote <= oend /\ dec.fetched <= inputEnd /\ dec.lowest >= 0

(* What is decoded in full without an error is a block, and the output is  *)
(* what it stands for (a zero offset stands for nothing).                  *)
DecodedIsContent ==
  Decoded /\ ~job.partialDecoding /\ dec.result >= 0 =>
    LET records == Records(job.src) IN
    /\ IsBlock(job.src)
    /\ (\A i \in DOMAIN records : records[i].mlen > 0 => records[i].offset > 0) =>
         OffsetsInside(records) /\ Output = Decode(records)

(* A block that obeys the rules is decoded in full when there is room for  *)
(* it, and is an error when there is not.                                  *)
Conforming(bytes) ==
  IsBlock(bytes) /\ OffsetsInside(Records(bytes)) /\ EndRules(Records(bytes))
BlockDecodes ==
  Decoded /\ ~job.partialDecoding /\ Conforming(job.src) =>
    LET n == Len(Content(job.src)) IN
    IF n <= oend THEN dec.result = n ELSE dec.result < 0

(* A partial decode returns the bytes asked for, or all there are, also    *)
(* when other bytes follow the block; when bytes of the block are missing  *)
(* it returns bytes of its content or an error.                            *)
PartialIsPrefix ==
  Decoded /\ job.partialDecoding /\ Conforming(given) =>
    IF Len(job.src) >= Len(given)
    THEN Output = SubSeq(Content(given), 1, Min({oend, Len(Content(given))}))
    ELSE IsPrefix(Output, Content(given))
=============================================================================
