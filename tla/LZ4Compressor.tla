---------------------------- MODULE LZ4Compressor ----------------------------
(***************************************************************************)
(* The 4 KB block compressor of src/src/lz4_compressor.cpp.  The library   *)
(* it calls, LZ4, is external: LZ4Size[d] is the value that                *)
(* LZ4_compress_default returns for block d (at most 0 when the stream     *)
(* does not fit the 4096-byte output buffer).                              *)
(***************************************************************************)
EXTENDS Integers, Payload

CONSTANT LZ4Size

FLASH_PAGE_SIZE == 4096

ASSUME SizeAssumption ==
  /\ LZ4Size \in [Data -> Int]
  /\ \A d \in Data : LZ4Size[d] <= FLASH_PAGE_SIZE

-----------------------------------------------------------------------------
(* Faulty variants of the definitions below, for the mutation runs: slots  *)
(* one byte too small, and no look at whether LZ4 succeeded.               *)
QuantizeSlotOffByOne(bytes, is_zero) ==
  IF is_zero \/ bytes = 0 THEN 0
  ELSE CHOOSE k \in 1 .. 5 : bytes \in 1024 * (k - 1) .. 1024 * k - 1
StoredRawUnlessShort(d) == LZ4Size[d] >= 3072

(* SlotAllocation, by its enumerator's value (number of 1 KB units).       *)
QuantizeSlot(bytes, is_zero) ==
  CASE is_zero \/ bytes = 0 -> 0
    [] ~is_zero /\ bytes \in 1 .. 1024 -> 1
    [] ~is_zero /\ bytes \in 1025 .. 2048 -> 2
    [] ~is_zero /\ bytes \in 2049 .. 3072 -> 3
    [] OTHER -> 4

(* comp_size <= 0 || comp_size >= 3072: the block is kept as it is.        *)
StoredRaw(d) == LZ4Size[d] <= 0 \/ LZ4Size[d] >= 3072

Compress(d) ==
  IF d = Zero
    THEN [is_zero_block |-> TRUE, is_compressed |-> TRUE,
          compressed_size |-> 0, slot |-> 0, data |-> Blank]
  ELSE IF StoredRaw(d)
    THEN [is_zero_block |-> FALSE, is_compressed |-> FALSE,
          compressed_size |-> FLASH_PAGE_SIZE, slot |-> 4, data |-> Raw(d)]
  ELSE   [is_zero_block |-> FALSE, is_compressed |-> TRUE,
          compressed_size |-> LZ4Size[d],
          slot |-> QuantizeSlot(LZ4Size[d], FALSE), data |-> LZ4(d)]

(* The stream decodes to a whole 4096-byte block only when it is an LZ4    *)
(* stream and is handed over with the length it was produced at; how, is   *)
(* the matter of LZ4Library.                                               *)
LZ4_decompress_safe(bytes, size) ==
  IF bytes.enc = "lz4" /\ size > 0 /\ size = LZ4Size[bytes.of]
  THEN bytes.of ELSE Corrupt

(* What a reader gets who takes a byte string for a host block.            *)
AsHostBlock(bytes) ==
  CASE bytes.enc = "raw" -> bytes.of
    [] bytes.enc = "blank" -> Zero
    [] OTHER -> Corrupt

Decompress(comp) ==
  CASE comp.is_zero_block -> Zero
    [] ~comp.is_zero_block /\ ~comp.is_compressed -> AsHostBlock(comp.data)
    [] ~comp.is_zero_block /\ comp.is_compressed ->
         LZ4_decompress_safe(comp.data, comp.compressed_size)
=============================================================================
