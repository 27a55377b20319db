------------------------------ MODULE FTLClaims ------------------------------
(***************************************************************************)
(* What the repository's documents, comments and tests say of the FTL,     *)
(* stated as they say it.  FTLController's own properties carry the        *)
(* exceptions that the code needs; each claim here drops one of them.      *)
(***************************************************************************)
EXTENDS FTLController

(* docs/ARCHITECTURE.md: "compressed_size > 2048 (incompressible - store   *)
(* raw)"; README: "stored raw, no corruption".  Every block that no other  *)
(* LBA's write disturbed reads back, the mid-size ones included.           *)
EverySizeReadsBack ==
  FirstLap => \A l \in LBAs \ collateral : ReadBlock(ftl, l) = host[l]

(* TestFTL_GC: "Data integrity must be preserved across GC migrations".    *)
(* Writes to one LBA and the collections they cause never cost another     *)
(* LBA its data.                                                           *)
NeighboursSurvive ==
  FirstLap => \A l \in LBAs : ~MidSize(host[l]) => ReadBlock(ftl, l) = host[l]

(* reserve_block_idx_: "Dedicated block held for GC page migration".  The  *)
(* reserve can take a migration: all its pages are erased.                 *)
ReserveHeldFree ==
  \A p \in Pages : ~ftl.flash.is_programmed[ftl.reserve_block_idx][p]
=============================================================================
