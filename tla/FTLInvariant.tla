----------------------------- MODULE FTLInvariant -----------------------------
(***************************************************************************)
(* Why the FTL keeps its data in the first lap: the inductive invariant    *)
(* that relates mapping table, owner lists, valid bits and page contents.  *)
(*                                                                         *)
(* The parts are stated of a controller s, a set X of LBAs exempt from     *)
(* them and the blocks h the host wrote, because the steps inside one call *)
(* of WriteBlock pass through states in which the LBA being written, the   *)
(* staged one and the ones the write hits are all exempt.                  *)
(***************************************************************************)
EXTENDS FTLController

(* What every state of the controller satisfies, first lap or not: the     *)
(* parts of TypeOK and BookkeepingExact that speak of ftl alone.           *)
Sound(s) ==
  /\ s \in Controller
  /\ s.active_block_idx # s.reserve_block_idx
  /\ CountsExact(s.flash)

(* The reserve has taken each block in turn, so the blocks from it on are  *)
(* still as the constructor left them.                                     *)
Untouched(s) ==
  s.rotations < total_blocks - 1 =>
    /\ s.reserve_block_idx = s.rotations + 1
    /\ s.active_block_idx <= s.rotations
    /\ \A b \in Blocks, p \in Pages : b > s.rotations => ~s.flash.is_programmed[b][p]

(* The pages ahead of the write position can be programmed, and a page     *)
(* that can be programmed has no owners left over.                         *)
RoomAhead(s) ==
  /\ \A p \in Pages : p >= s.active_page_idx =>
                        ~s.flash.is_programmed[s.active_block_idx][p]
  /\ \A b \in Blocks, p \in Pages : ~s.flash.is_programmed[b][p] =>
                                      s.block_page_owners[b][p] = {}

MappedTo(s, m, b, p) ==
  /\ s.lba_table[m].state \in OnFlash
  /\ s.lba_table[m].block_idx = b
  /\ s.lba_table[m].page_idx = p

(* The owners of a valid page are the LBAs mapped to it.                   *)
Owned(s, X) ==
  \A b \in Blocks, p \in Pages :
    s.flash.page_valid[b][p] =>
      s.block_page_owners[b][p] = {m \in LBAs \ X : MappedTo(s, m, b, p)}

(* What the page image at an entry's page must hold for block d.           *)
Holds(image, e, d) ==
  IF e.state = "COMPRESSED_HALF_PAGE"
  THEN /\ image[e.sub_slot] = LZ4(d)
       /\ e.compressed_size = LZ4Size[d] /\ LZ4Size[d] > 0
  ELSE /\ ~Compress(d).is_zero_block /\ ~FitsHalf(Compress(d))
       /\ image = Whole(Compress(d).data)

(* An LBA on flash is mapped to a valid page that holds its block; an LBA  *)
(* that is not has nothing but zeros.                                      *)
Stored(s, X, h) ==
  \A m \in LBAs \ X :
    LET e == s.lba_table[m]
    IN  IF e.state \in OnFlash
        THEN /\ s.flash.page_valid[e.block_idx][e.page_idx]
             /\ Holds(s.flash.data[e.block_idx][e.page_idx], e, h[m])
        ELSE h[m] = Zero

Good(s, X, h) == Untouched(s) /\ RoomAhead(s) /\ Owned(s, X) /\ Stored(s, X, h)

StagedLBA(s) == {m \in LBAs : s.staged_half.has_value /\ s.staged_half.lba = m}

(* The staging buffer holds the last block written to its LBA.             *)
StagedRight(s, C, h) ==
  \A m \in StagedLBA(s) :
    /\ m \notin C
    /\ s.staged_half.data = LZ4(h[m])
    /\ s.staged_half.comp_size = LZ4Size[h[m]]
    /\ LZ4Size[h[m]] > 0

(* In the first lap the four structures agree for every LBA that is        *)
(* neither staged nor collateral, and the next page is free.               *)
FirstLapInv ==
  FirstLap => /\ Good(ftl, collateral \cup StagedLBA(ftl), host)
              /\ StagedRight(ftl, collateral, host)

(* The whole invariant: the first-lap part and what it rests on.           *)
Inv ==
  /\ Sound(ftl)
  /\ host \in [LBAs -> Data] /\ collateral \in SUBSET LBAs
  /\ FirstLapInv

(* A valid page has an owner, in the first lap and after it.               *)
Inhabited(s) ==
  \A b \in Blocks, p \in Pages :
    s.flash.page_valid[b][p] => s.block_page_owners[b][p] # {}
=============================================================================
