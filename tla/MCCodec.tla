------------------------------- MODULE MCCodec -------------------------------
(***************************************************************************)
(* BlockCodec for TLC, over every value LZ4_compress_default can return: a *)
(* block other than Zero is named by the length of its LZ4 stream.         *)
(***************************************************************************)
EXTENDS BlockCodec

MCZero    == 4097
MCData    == -1 .. MCZero
MCLZ4Size == [d \in MCData |-> IF d = MCZero THEN 30 ELSE d]
=============================================================================
