-------------------------------- MODULE MCFTL --------------------------------
(***************************************************************************)
(* FTLController for TLC.  The host blocks are one per path of WriteBlock: *)
(* the zero block, two blocks that compress into half a page, one that     *)
(* does not compress, and one whose LZ4 stream is between half a page and  *)
(* the raw threshold.                                                      *)
(***************************************************************************)
EXTENDS FTLClaims, FTLInvariant

CONSTANTS zero, h1, h2, raw, mid

MCLZ4Size ==
  [d \in Data |-> CASE d = zero -> 30
                    [] d = h1   -> 900
                    [] d = h2   -> 2048
                    [] d = mid  -> 2500
                    [] d = raw  -> 0]
=============================================================================
