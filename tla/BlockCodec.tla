------------------------------ MODULE BlockCodec ------------------------------
(***************************************************************************)
(* A caller of LZ4Compressor: it compresses a block into a CompressedBlock *)
(* and later decompresses that, as WriteBlock and ReadBlock do between     *)
(* them and as TestLZ4Compressor does directly.                            *)
(***************************************************************************)
EXTENDS LZ4Compressor

VARIABLES
  pc,     \* "filled", "compressed" or "restored"
  src,    \* src_4kb
  comp,   \* the CompressedBlock
  dest    \* dest_4kb; Corrupt also stands for a Decompress that fails

vars == <<pc, src, comp, dest>>

(* CompressedBlock's default member values.                                *)
EmptyBlock == [is_zero_block |-> FALSE, is_compressed |-> FALSE,
               compressed_size |-> FLASH_PAGE_SIZE, slot |-> 4, data |-> Blank]

Init == pc = "filled" /\ src \in Data /\ comp = EmptyBlock /\ dest = Corrupt

CompressStep ==
  /\ pc = "filled" /\ pc' = "compressed"
  /\ comp' = Compress(src)
  /\ UNCHANGED <<src, dest>>

DecompressStep ==
  /\ pc = "compressed" /\ pc' = "restored"
  /\ dest' = Decompress(comp)
  /\ UNCHANGED <<src, comp>>

Next == CompressStep \/ DecompressStep

Spec == Init /\ [][Next]_vars

-----------------------------------------------------------------------------
(* Whatever length LZ4_compress_default returns, what Compress produced    *)
(* decompresses to the block it was produced from.                         *)
RoundTrip == pc = "restored" => dest = src

(* The slot Compress chooses is the smallest number of 1 KB units that     *)
(* holds the payload.                                                      *)
SlotTight ==
  pc # "filled" => /\ comp.compressed_size <= 1024 * comp.slot
                   /\ comp.compressed_size > 1024 * (comp.slot - 1)
=============================================================================
