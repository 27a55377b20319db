------------------------------- MODULE Payload -------------------------------
(***************************************************************************)
(* What the firmware's byte buffers hold.                                  *)
(*                                                                         *)
(* A host block (4096 bytes) is an abstract member of Data.  Of its bytes  *)
(* only what the code branches on is kept: whether they are all zero (the  *)
(* block Zero) and, in LZ4Compressor, the length of their LZ4 stream.      *)
(*                                                                         *)
(* A byte string that the firmware moves around is a record saying how it  *)
(* was produced: the host block itself ("raw"), the LZ4 stream of a host   *)
(* block ("lz4"), an all-zero buffer ("blank") or erased NAND ("ff").      *)
(***************************************************************************)
CONSTANTS
  Data,     \* the host blocks that may be written
  Zero,     \* the all-zero block
  Corrupt   \* stands for every byte string that is no host block, and for a
            \* read that returns false

ASSUME DataAssumption == Zero \in Data /\ Corrupt \notin Data

Bytes == [enc : {"raw", "lz4", "blank", "ff"}, of : Data]

Raw(d) == [enc |-> "raw", of |-> d]
LZ4(d) == [enc |-> "lz4", of |-> d]
Blank  == [enc |-> "blank", of |-> Zero]
FF     == [enc |-> "ff", of |-> Zero]

(* A page image is the byte string in each 2 KB half.  A byte string that  *)
(* fills the page appears in both: neither half decodes on its own.        *)
Slots          == {0, 1}
PageImage      == [Slots -> Bytes]
Packed(b0, b1) == [i \in Slots |-> IF i = 0 THEN b0 ELSE b1]
Whole(bytes)   == Packed(bytes, bytes)
=============================================================================
