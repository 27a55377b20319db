----------------------- MODULE LZ4DecompressorInvariant -----------------------
(***************************************************************************)
(* What is true of the decompressor core at every clock edge, between the  *)
(* peers of the testbench: where in which record of the block it is, and   *)
(* what it has made of the bytes before that place.                        *)
(***************************************************************************)
EXTENDS LZ4Decompressor

Fits == WellFormed(block, MAX_BLOCK_SIZE)
Out  == Decode(block)

(* Record k of the block: what it is made of; where its token, its         *)
(* literals, its offset and the next record are in the stream; where its   *)
(* literals and its match are in the output.  A place is the number of     *)
(* bytes before it.                                                        *)
Literals(k) == Len(block[k].lits)
Offset(k)   == block[k].offset
Match(k)    == block[k].mlen

TokenAt(k)  == Len(EncodedTo(block, k - 1))
LitsAt(k)   == TokenAt(k) + 1 + Len(Extension(Literals(k)))
OffsetAt(k) == LitsAt(k) + Literals(k)
EndAt(k)    == OffsetAt(k) + 2 + Len(Extension(Match(k) - 4))
OutAt(k)    == DecodedLen(block, k - 1)
CopyAt(k)   == OutAt(k) + Literals(k)

(* A length n of at least 15 of which i bytes of 255 were read.            *)
Partly(length, n, i) ==
  n >= 15 /\ length = 15 + 255 * i /\ i \in 0 .. (n - 15) \div 255

InToken(k) ==
  core.state = "TOKEN" => sent = TokenAt(k) /\ core.write_ptr = OutAt(k)
InExtLit(k) ==
  core.state = "EXT_LIT" =>
    /\ Partly(core.lit_len, Literals(k), sent - TokenAt(k) - 1)
    /\ core.write_ptr = OutAt(k)
InLiteral(k) ==
  core.state = "LITERAL" =>
    /\ core.lit_len \in 1 .. Literals(k)
    /\ core.write_ptr + core.lit_len = CopyAt(k)
    /\ sent + core.lit_len = OffsetAt(k)
InOffset(k) ==
  core.state \in {"OFFSET_L", "OFFSET_H"} =>
    /\ Match(k) > 0 /\ core.write_ptr = CopyAt(k)
    /\ IF core.state = "OFFSET_L" THEN sent = OffsetAt(k)
       ELSE sent = OffsetAt(k) + 1 /\ core.offset_low = Offset(k) % 256
InExtMatch(k) ==
  core.state = "EXT_MATCH" =>
    /\ Match(k) > 0 /\ core.write_ptr = CopyAt(k)
    /\ Partly(core.match_len - 4, Match(k) - 4, sent - OffsetAt(k) - 2)
    /\ core.match_offset = Offset(k)
InMatchCopy(k) ==
  core.state = "MATCH_COPY" =>
    /\ core.match_len \in 1 .. Match(k)
    /\ core.write_ptr + core.match_len = CopyAt(k) + Match(k)
    /\ core.match_offset = Offset(k)
    /\ sent = EndAt(k)
TokenKept(k) ==
  Match(k) > 0 /\ core.state # "TOKEN" =>
    core.saved_match_token = Nibble(Match(k) - 4)

InRecord(k) ==
  /\ InToken(k) /\ InExtLit(k) /\ InLiteral(k) /\ InOffset(k)
  /\ InExtMatch(k) /\ InMatchCopy(k) /\ TokenKept(k)

(* The core takes a byte of the stream at every edge in these states, and  *)
(* shows none in the Silent ones.                                          *)
Reading == States \ {"IDLE", "MATCH_COPY", "DONE"}
Silent  == {"EXT_LIT", "OFFSET_H", "EXT_MATCH"}

Control ==
  /\ ~core.done
  /\ offered <=> sent < Len(stream)
  /\ core.last_byte_seen <=> sent = Len(stream)
  /\ core.s_axis_tready <=> core.state \in Reading
  /\ core.state \in Silent => ~core.m_axis_tvalid
  /\ IF core.state = "DONE"
     THEN sent = Len(stream) /\ core.write_ptr = Len(Out)
     ELSE \E k \in DOMAIN block : InRecord(k)

(* The byte in the output register is the last one in the window.          *)
Delivery ==
  /\ core.decompressed_bytes = core.write_ptr
  /\ core.write_ptr <= Len(Out)
  /\ \A i \in 1 .. core.write_ptr : history_ram[i - 1] = Out[i]
  /\ Len(taken) = core.write_ptr - (IF core.m_axis_tvalid THEN 1 ELSE 0)
  /\ \A i \in 1 .. Len(taken) : taken[i] = Out[i]
  /\ core.m_axis_tvalid => core.m_axis_tdata = Out[core.write_ptr]
  /\ core.m_axis_tlast <=> core.write_ptr = MAX_BLOCK_SIZE

Finished ==
  /\ ~core.busy /\ ~core.m_axis_tvalid /\ ~offered
  /\ sent = Len(stream) /\ taken = Out
  /\ core.decompressed_bytes = Len(Out)

(* The producer sends the bytes of the block and offers one only while     *)
(* there is one.                                                           *)
Sending ==
  /\ block \in BlockSet \cup {<<>>} /\ stream = Encode(block)
  /\ offered => sent < Len(stream)

(* At every clock edge the decompressor is at a place of the block it was  *)
(* given: the registers of ST_TOKEN .. ST_MATCH_COPY agree with the record *)
(* they are in and with the number of bytes accepted, it reads exactly in  *)
(* the states that read, and the window and the consumer have the output   *)
(* up to write_ptr; in ST_IDLE the last block is finished.                 *)
CoreInv ==
  /\ Sending
  /\ Fits => IF core.state = "IDLE" THEN Finished ELSE Control /\ Delivery
=============================================================================
