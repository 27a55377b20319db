---------------------------- MODULE FTLController ----------------------------
(***************************************************************************)
(* The flash translation layer of src/src/ftl_controller.cpp: mapping      *)
(* table, half-page staging and packing, and greedy garbage collection     *)
(* over the NAND array of FlashModel.                                      *)
(*                                                                         *)
(* The controller's private members are the fields of the record ftl; each *)
(* private helper is an operator from such a record to the record it       *)
(* leaves behind, so that a public call, which runs under ftl_mutex_ and   *)
(* may collect garbage twice, is one step.  WriteBlock's four return paths *)
(* are four actions.  Calls from several threads are not in this module:   *)
(* FlushStagedWrites takes no lock and is atomic here only because one     *)
(* caller is assumed.                                                      *)
(***************************************************************************)
EXTENDS LZ4Compressor, FlashModel, FiniteSetsExt

CONSTANT num_lbas                 \* lba_table_.size()

ASSUME LbaAssumption == num_lbas \in Nat \ {0}

LBAs  == 0 .. num_lbas - 1

HALF_PAGE == 2048

-----------------------------------------------------------------------------
VARIABLES
  ftl,         \* the controller
  (* History variables: no code reads them.                                *)
  host,        \* host[l]: the block last written to l, Zero before that
  collateral   \* the LBAs whose live page a write to another LBA made stale

vars == <<ftl, host, collateral>>

MappingState == {"UNMAPPED", "SPARSE_ZERO", "COMPRESSED_HALF_PAGE", "RAW_FULL_PAGE"}
OnFlash      == {"COMPRESSED_HALF_PAGE", "RAW_FULL_PAGE"}

MappingEntry ==
  [state : MappingState, block_idx : Blocks, page_idx : Pages,
   sub_slot : Slots, compressed_size : 0 .. FLASH_PAGE_SIZE]

(* std::optional<StagedHalfPage>; lba, comp_size and data of an empty one  *)
(* are never read.                                                         *)
StagedHalfPage ==
  [has_value : BOOLEAN, lba : LBAs, comp_size : 0 .. HALF_PAGE, data : Bytes]
NothingStaged == [has_value |-> FALSE, lba |-> 0, comp_size |-> 0, data |-> Blank]

(* The sub_slot of a PageOwner is never read, and re-pointing an owner     *)
(* twice is the same as once: the owners of a page are a set of LBAs.      *)
(* rotations is a history field: how often the reserve pointer has moved,  *)
(* counted up to total_blocks.                                             *)
Controller ==
  [flash : FlashArray, lba_table : [LBAs -> MappingEntry],
   active_block_idx : Blocks, active_page_idx : 0 .. pages_per_block,
   reserve_block_idx : Blocks, staged_half : StagedHalfPage,
   block_page_owners : [Blocks -> [Pages -> SUBSET LBAs]],
   rotations : 0 .. total_blocks]

Init ==
  /\ ftl = [flash |-> NewFlash,
            lba_table |-> [l \in LBAs |->
              [state |-> "UNMAPPED", block_idx |-> 0, page_idx |-> 0,
               sub_slot |-> 0, compressed_size |-> 0]],
            active_block_idx |-> 0, active_page_idx |-> 0,
            reserve_block_idx |-> 1, staged_half |-> NothingStaged,
            block_page_owners |-> [b \in Blocks |-> [p \in Pages |-> {}]],
            rotations |-> 0]
  /\ host = [l \in LBAs |-> Zero]
  /\ collateral = {}

-----------------------------------------------------------------------------
(***************************************************************************)
(* RunGarbageCollectionIfNeeded.                                           *)
(***************************************************************************)
(* Faulty variant, for the mutation runs: no wrap-around.                  *)
Next1NoWrap(b) == b + 1

Next1(b) == (b + 1) % total_blocks

Rotated(s) == IF s.rotations < total_blocks THEN s.rotations + 1 ELSE s.rotations

(* Phase 1: the lowest-numbered of the blocks with most invalid pages.     *)
Candidates(s) == Blocks \ {s.reserve_block_idx}
Victim(s) ==
  LET inv == s.flash.invalid_page_count
  IN  Min({b \in Candidates(s) : \A c \in Candidates(s) : inv[c] <= inv[b]})
NoneInvalid(s) == \A b \in Candidates(s) : s.flash.invalid_page_count[b] = 0

(* Nothing to reclaim: the reserve becomes active, the next block reserve. *)
AdvanceToReserve(s) ==
  [flash             |-> s.flash,
   lba_table         |-> s.lba_table,
   active_block_idx  |-> s.reserve_block_idx,
   active_page_idx   |-> 0,
   reserve_block_idx |-> Next1(s.reserve_block_idx),
   staged_half       |-> s.staged_half,
   block_page_owners |-> s.block_page_owners,
   rotations         |-> Rotated(s)]

(* Phase 2: valid page p of the victim goes to the reserve page whose      *)
(* index is the number of valid pages before p.                            *)
Moved(f, v)   == {p \in Pages : f.page_valid[v][p]}
Dest(f, v, p) == Cardinality({q \in Moved(f, v) : q < p})
Landed(f, v)  == {Dest(f, v, p) : p \in Moved(f, v)}
Source(f, v, w) == CHOOSE p \in Moved(f, v) : Dest(f, v, p) = w

(* ProgramPage(reserve, w, ...) for each w reached; one that is programmed *)
(* already refuses, and the caller does not look at the result.            *)
MigratePages(f, v, r) ==
  LET fresh == {w \in Landed(f, v) : ~f.is_programmed[r][w]}
  IN  [is_programmed |-> [f.is_programmed EXCEPT
         ![r] = [w \in Pages |-> w \in fresh \/ f.is_programmed[r][w]]],
       page_valid |-> [f.page_valid EXCEPT
         ![r] = [w \in Pages |-> w \in fresh \/ f.page_valid[r][w]]],
       data |-> [f.data EXCEPT
         ![r] = [w \in Pages |-> IF w \in fresh
                                 THEN ReadPage(f, v, Source(f, v, w))
                                 ELSE f.data[r][w]]],
       invalid_page_count |-> f.invalid_page_count]

MovedTo(e, b, p) ==
  [state |-> e.state, block_idx |-> b, page_idx |-> p,
   sub_slot |-> e.sub_slot, compressed_size |-> e.compressed_size]

(* Faulty variants, for the mutation runs: the mapping or the owner lists  *)
(* are not carried along.                                                  *)
RepointNothing(s, v, l) == s.lba_table[l]
MigrateNoOwners(s, v) == [s.block_page_owners EXCEPT ![v] = [p \in Pages |-> {}]]

(* Every owner of a moved page is pointed at the new one; the last page    *)
(* moved wins.                                                             *)
Repoint(s, v, l) ==
  LET from == {p \in Moved(s.flash, v) : l \in s.block_page_owners[v][p]}
  IN  IF from = {} THEN s.lba_table[l]
      ELSE MovedTo(s.lba_table[l], s.reserve_block_idx, Dest(s.flash, v, Max(from)))

MigrateOwners(s, v) ==
  LET landed == Landed(s.flash, v)
  IN  [b \in Blocks |-> [p \in Pages |->
         IF b = v THEN {}
         ELSE IF b = s.reserve_block_idx /\ p \in landed
           THEN s.block_page_owners[v][Source(s.flash, v, p)]
         ELSE s.block_page_owners[b][p]]]

(* Phase 3: the victim is erased and becomes the active block.             *)
NextReserveUnchecked(r, v) == Next1(r)   \* faulty variant: may be the victim

NextReserve(r, v) == IF Next1(r) = v THEN Next1(Next1(r)) ELSE Next1(r)

Collect(s, v) ==
  [flash             |-> EraseBlock(MigratePages(s.flash, v, s.reserve_block_idx), v),
   lba_table         |-> [l \in LBAs |-> Repoint(s, v, l)],
   active_block_idx  |-> v,
   active_page_idx   |-> 0,
   reserve_block_idx |-> NextReserve(s.reserve_block_idx, v),
   staged_half       |-> s.staged_half,
   block_page_owners |-> MigrateOwners(s, v),
   rotations         |-> Rotated(s)]

RunGarbageCollectionIfNeeded(s) ==
  IF s.active_page_idx < pages_per_block THEN s
  ELSE IF NoneInvalid(s) THEN AdvanceToReserve(s)
  ELSE Collect(s, Victim(s))

-----------------------------------------------------------------------------
(***************************************************************************)
(* Placing a page: make room, program the active page, map every LBA in    *)
(* the domain of placed to it, record the owners, advance.  The result of  *)
(* ProgramPage is ignored here as well.                                    *)
(***************************************************************************)
Placement == [state : OnFlash, sub_slot : Slots, compressed_size : 0 .. FLASH_PAGE_SIZE]

PlacePage(s0, image, placed) ==
  LET s == RunGarbageCollectionIfNeeded(s0)
      b == s.active_block_idx
      p == s.active_page_idx
  IN  [flash             |-> ProgramPage(s.flash, b, p, image),
       lba_table         |-> [l \in LBAs |-> IF l \in DOMAIN placed
                                             THEN MovedTo(placed[l], b, p)
                                             ELSE s.lba_table[l]],
       active_block_idx  |-> b,
       active_page_idx   |-> p + 1,
       reserve_block_idx |-> s.reserve_block_idx,
       staged_half       |-> s.staged_half,
       block_page_owners |-> [s.block_page_owners EXCEPT
                                ![b][p] = @ \cup DOMAIN placed],
       rotations         |-> s.rotations]

Half(slot, size) ==
  [state |-> "COMPRESSED_HALF_PAGE", sub_slot |-> slot, compressed_size |-> size]
Full(size) ==
  [state |-> "RAW_FULL_PAGE", sub_slot |-> 0, compressed_size |-> size]

FlushStagedWrites(s) ==
  LET h == s.staged_half
  IN  IF ~h.has_value THEN s
      ELSE [PlacePage(s, Packed(h.data, Blank),
                      [l \in {h.lba} |-> Half(0, h.comp_size)])
            EXCEPT !.staged_half = NothingStaged]

-----------------------------------------------------------------------------
(***************************************************************************)
(* WriteBlock.                                                             *)
(***************************************************************************)
(* Faulty variant, for the mutation runs: the staged version survives.     *)
SupersededKeepingStaged(s, l) ==
  [s EXCEPT !.flash = IF s.lba_table[l].state \in OnFlash
                      THEN InvalidatePage(@, s.lba_table[l].block_idx,
                                             s.lba_table[l].page_idx)
                      ELSE @]

(* Faulty variant, for the mutation runs: a page shared by two LBAs is     *)
(* left to the other one.                                                  *)
SupersededKeepingHalves(s, l) ==
  [s EXCEPT !.flash = IF s.lba_table[l].state = "RAW_FULL_PAGE"
                      THEN InvalidatePage(@, s.lba_table[l].block_idx,
                                             s.lba_table[l].page_idx)
                      ELSE @,
            !.staged_half = IF @.has_value /\ @.lba = l THEN NothingStaged ELSE @]

(* Common prefix: the page the old entry points to is invalidated, and a   *)
(* staged older version of the same LBA is dropped.                        *)
Superseded(s, l) ==
  LET e == s.lba_table[l]
      h == s.staged_half
  IN  [flash             |-> IF e.state \in OnFlash
                             THEN InvalidatePage(s.flash, e.block_idx, e.page_idx)
                             ELSE s.flash,
       lba_table         |-> s.lba_table,
       active_block_idx  |-> s.active_block_idx,
       active_page_idx   |-> s.active_page_idx,
       reserve_block_idx |-> s.reserve_block_idx,
       staged_half       |-> IF h.has_value /\ h.lba = l THEN NothingStaged ELSE h,
       block_page_owners |-> s.block_page_owners,
       rotations         |-> s.rotations]

(* The LBA's current block is on flash at (b, p).                          *)
LiveAt(s, l, b, p) ==
  /\ s.lba_table[l].state \in OnFlash
  /\ s.lba_table[l].block_idx = b /\ s.lba_table[l].page_idx = p
  /\ ~(s.staged_half.has_value /\ s.staged_half.lba = l)

(* History: what the host wrote, and whose live page went stale with it.   *)
Recorded(l, d) ==
  LET e == ftl.lba_table[l]
      hit == {m \in LBAs \ {l} : /\ e.state \in OnFlash
                                 /\ LiveAt(ftl, m, e.block_idx, e.page_idx)}
  IN  /\ host' = [host EXCEPT ![l] = d]
      /\ collateral' = (collateral \cup hit) \ {l}

Sparse(e) ==
  [state |-> "SPARSE_ZERO", block_idx |-> e.block_idx, page_idx |-> e.page_idx,
   sub_slot |-> e.sub_slot, compressed_size |-> 0]

WriteZero(l, d) ==
  /\ Compress(d).is_zero_block
  /\ ftl' = [Superseded(ftl, l) EXCEPT
               !.lba_table = [ftl.lba_table EXCEPT ![l] = Sparse(@)]]
  /\ Recorded(l, d)

FitsHalf(c) == ~c.is_zero_block /\ c.compressed_size <= HALF_PAGE

WriteStaged(l, d) ==
  LET c == Compress(d)
      s == Superseded(ftl, l)
  IN  /\ FitsHalf(c) /\ ~s.staged_half.has_value
      /\ ftl' = [s EXCEPT !.staged_half =
                   [has_value |-> TRUE, lba |-> l,
                    comp_size |-> c.compressed_size, data |-> c.data]]
      /\ Recorded(l, d)

WritePaired(l, d) ==
  LET c == Compress(d)
      s == Superseded(ftl, l)
      h == s.staged_half
  IN  /\ FitsHalf(c) /\ h.has_value
      /\ ftl' = [PlacePage(s, Packed(h.data, c.data),
                           [m \in {h.lba, l} |->
                              IF m = l THEN Half(1, c.compressed_size)
                                       ELSE Half(0, h.comp_size)])
                 EXCEPT !.staged_half = NothingStaged]
      /\ Recorded(l, d)

WriteFull(l, d) ==
  LET c == Compress(d)
  IN  /\ ~c.is_zero_block /\ ~FitsHalf(c)
      /\ ftl' = PlacePage(FlushStagedWrites(Superseded(ftl, l)), Whole(c.data),
                          [m \in {l} |-> Full(c.compressed_size)])
      /\ Recorded(l, d)

WriteBlock(l, d) ==
  WriteZero(l, d) \/ WriteStaged(l, d) \/ WritePaired(l, d) \/ WriteFull(l, d)

Flush ==
  /\ ftl.staged_half.has_value
  /\ ftl' = FlushStagedWrites(ftl)
  /\ UNCHANGED <<host, collateral>>

(* What ReadBlock hands to the host; it changes nothing but a counter.     *)
ReadBlock(s, l) ==
  LET h == s.staged_half
      e == s.lba_table[l]
      page == ReadPage(s.flash, e.block_idx, e.page_idx)
  IN  IF h.has_value /\ h.lba = l
        THEN LZ4_decompress_safe(h.data, h.comp_size)
      ELSE CASE e.state \in {"UNMAPPED", "SPARSE_ZERO"} -> Zero
             [] e.state = "RAW_FULL_PAGE" ->
                  IF page = Whole(page[0]) THEN AsHostBlock(page[0]) ELSE Corrupt
             [] e.state = "COMPRESSED_HALF_PAGE" ->
                  LZ4_decompress_safe(page[e.sub_slot], e.compressed_size)

Next == (\E l \in LBAs, d \in Data : WriteBlock(l, d)) \/ Flush

Spec == Init /\ [][Next]_vars
-----------------------------------------------------------------------------
(***************************************************************************)
(* Properties.                                                             *)
(***************************************************************************)
(* Every field has the type its C++ member has and every index is within   *)
(* the vector it indexes.                                                  *)
TypeOK ==
  /\ ftl \in Controller
  /\ host \in [LBAs -> Data]
  /\ collateral \in SUBSET LBAs

(* The block being written is never the block held back for migration, and *)
(* invalid_page_count, which chooses victims, counts the stale pages.      *)
BookkeepingExact ==
  /\ ftl.active_block_idx # ftl.reserve_block_idx
  /\ CountsExact(ftl.flash)

(* Until the reserve pointer comes round to blocks already used.           *)
FirstLap == ftl.rotations < total_blocks

(* LZ4 output of 2049 to 3071 bytes.                                       *)
MidSize(d) == d # Zero /\ ~StoredRaw(d) /\ LZ4Size[d] > HALF_PAGE

(* In the first lap an LBA reads back the block last written to it, across *)
(* staging, packing, flushing and garbage collection, unless the block is  *)
(* mid-size or another LBA's write made its page stale.                    *)
FirstLapIntegrity ==
  FirstLap => \A l \in LBAs \ collateral :
                ~MidSize(host[l]) => ReadBlock(ftl, l) = host[l]

(* In the first lap block_page_owners is the inverse of lba_table: the     *)
(* owners of a valid page are the LBAs whose current block it holds.       *)
OwnersMatchMapping ==
  FirstLap => \A b \in Blocks, p \in Pages :
                ftl.flash.page_valid[b][p] =>
                  ftl.block_page_owners[b][p] =
                    {l \in LBAs \ collateral : LiveAt(ftl, l, b, p)}

(* In the first lap no page stays valid without an LBA that is read from   *)
(* it: whatever a write, a pair or a collection leaves behind is counted   *)
(* as invalid, so that it is reclaimed and never migrated again.           *)
NoGarbageKept ==
  FirstLap => \A b \in Blocks, p \in Pages :
                ftl.flash.page_valid[b][p] =>
                  \E l \in LBAs \ collateral : LiveAt(ftl, l, b, p)
=============================================================================
