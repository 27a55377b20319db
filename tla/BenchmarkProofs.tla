--------------------------- MODULE BenchmarkProofs ---------------------------
(***************************************************************************)
(* Theorems about Benchmark, for every geometry, every set of workloads    *)
(* and every set of host blocks: the split flush is atomic, the reported   *)
(* counters balance, what is reported is on flash, and a read beside the   *)
(* flush is right.                                                         *)
(***************************************************************************)
EXTENDS BenchmarkInvariant, FTLProofs, FunctionTheorems

(* The instance of FTLController in which the flush is one step: what      *)
(* Committed is substituted for does not occur in an operator without      *)
(* variables, so each of the controller's operators is the same in it,     *)
(* from those with nothing below them up to FlushStagedWrites.             *)
LEMMA AtomicBasics ==
  /\ Atomic!LBAs = LBAs /\ Atomic!Blocks = Blocks /\ Atomic!Pages = Pages
  /\ Atomic!HALF_PAGE = HALF_PAGE /\ Atomic!FLASH_PAGE_SIZE = FLASH_PAGE_SIZE
  /\ Atomic!OnFlash = OnFlash /\ Atomic!Slots = Slots
  /\ Atomic!NothingStaged = NothingStaged /\ Atomic!Blank = Blank /\ Atomic!FF = FF
  /\ \A S : Atomic!Cardinality(S) = Cardinality(S)
  /\ \A S : Atomic!Max(S) = Max(S) /\ Atomic!Min(S) = Min(S)
BY DEF Atomic!LBAs, LBAs, Atomic!Blocks, Blocks, Atomic!Pages, Pages,
  Atomic!HALF_PAGE, HALF_PAGE, Atomic!FLASH_PAGE_SIZE, FLASH_PAGE_SIZE,
  Atomic!OnFlash, OnFlash, Atomic!Slots, Slots,
  Atomic!NothingStaged, NothingStaged, Atomic!Blank, Blank, Atomic!FF, FF,
  Atomic!Cardinality, Cardinality, Atomic!Max, Max, Atomic!Min, Min

(* Two half pages.                                                         *)
LEMMA AtomicPacked == \A b0, b1 : Atomic!Packed(b0, b1) = Packed(b0, b1)
BY AtomicBasics DEF Atomic!Packed, Packed

(* A whole page.                                                           *)
LEMMA AtomicWhole == \A b : Atomic!Whole(b) = Whole(b)
BY AtomicBasics, AtomicPacked DEF Atomic!Whole, Whole

(* An erased page.                                                         *)
LEMMA AtomicErasedImage == Atomic!ErasedImage = ErasedImage
BY AtomicBasics, AtomicPacked, AtomicWhole DEF Atomic!ErasedImage, ErasedImage

(* A block kept as it is.                                                  *)
LEMMA AtomicRaw == \A d : Atomic!Raw(d) = Raw(d)
BY AtomicBasics DEF Atomic!Raw, Raw

(* A compressed block.                                                     *)
LEMMA AtomicLZ4 == \A d : Atomic!LZ4(d) = LZ4(d)
BY AtomicBasics DEF Atomic!LZ4, LZ4

(* The slot a stream takes.                                                *)
LEMMA AtomicQuantizeSlot == \A b, z : Atomic!QuantizeSlot(b, z) = QuantizeSlot(b, z)
BY AtomicBasics DEF Atomic!QuantizeSlot, QuantizeSlot

(* Which blocks are kept as they are.                                      *)
LEMMA AtomicStoredRaw == \A d : Atomic!StoredRaw(d) = StoredRaw(d)
BY AtomicBasics DEF Atomic!StoredRaw, StoredRaw

(* The block compressor.                                                   *)
LEMMA AtomicCompress == \A d : Atomic!Compress(d) = Compress(d)
BY AtomicBasics, AtomicStoredRaw, AtomicQuantizeSlot, AtomicRaw, AtomicLZ4
  DEF Atomic!Compress, Compress

(* Which results go to the staging buffer.                                 *)
LEMMA AtomicFitsHalf == \A c : Atomic!FitsHalf(c) = FitsHalf(c)
BY AtomicBasics DEF Atomic!FitsHalf, FitsHalf

(* An entry for half a page.                                               *)
LEMMA AtomicHalf == \A i, n : Atomic!Half(i, n) = Half(i, n)
BY AtomicBasics DEF Atomic!Half, Half

(* An entry for a full page.                                               *)
LEMMA AtomicFull == \A n : Atomic!Full(n) = Full(n)
BY AtomicBasics DEF Atomic!Full, Full

(* FlashModel::InvalidatePage.                                             *)
LEMMA AtomicInvalidatePage == \A f, b, p : Atomic!InvalidatePage(f, b, p) = InvalidatePage(f, b, p)
BY AtomicBasics DEF Atomic!InvalidatePage, InvalidatePage

(* FlashModel::ProgramPage.                                                *)
LEMMA AtomicProgramPage == \A f, b, p, i : Atomic!ProgramPage(f, b, p, i) = ProgramPage(f, b, p, i)
BY AtomicBasics DEF Atomic!ProgramPage, ProgramPage

(* FlashModel::EraseBlock.                                                 *)
LEMMA AtomicEraseBlock == \A f, b : Atomic!EraseBlock(f, b) = EraseBlock(f, b)
BY AtomicBasics, AtomicErasedImage DEF Atomic!EraseBlock, EraseBlock

(* FlashModel::ReadPage.                                                   *)
LEMMA AtomicReadPage == \A f, b, p : Atomic!ReadPage(f, b, p) = ReadPage(f, b, p)
BY AtomicBasics, AtomicErasedImage DEF Atomic!ReadPage, ReadPage

(* The next block.                                                         *)
LEMMA AtomicNext1 == \A b : Atomic!Next1(b) = Next1(b)
BY AtomicBasics DEF Atomic!Next1, Next1

(* The lap count.                                                          *)
LEMMA AtomicRotated == \A s : Atomic!Rotated(s) = Rotated(s)
BY AtomicBasics DEF Atomic!Rotated, Rotated

(* The blocks the collector may choose.                                    *)
LEMMA AtomicCandidates == \A s : Atomic!Candidates(s) = Candidates(s)
BY AtomicBasics DEF Atomic!Candidates, Candidates

(* The block it chooses.                                                   *)
LEMMA AtomicVictim == \A s : Atomic!Victim(s) = Victim(s)
BY AtomicBasics, AtomicCandidates DEF Atomic!Victim, Victim

(* Whether there is nothing to reclaim.                                    *)
LEMMA AtomicNoneInvalid == \A s : Atomic!NoneInvalid(s) = NoneInvalid(s)
BY AtomicBasics, AtomicCandidates DEF Atomic!NoneInvalid, NoneInvalid

(* The collection that only advances.                                      *)
LEMMA AtomicAdvanceToReserve == \A s : Atomic!AdvanceToReserve(s) = AdvanceToReserve(s)
BY AtomicBasics, AtomicNext1, AtomicRotated DEF Atomic!AdvanceToReserve,
  AdvanceToReserve

(* The pages a collection moves.                                           *)
LEMMA AtomicMoved == \A f, v : Atomic!Moved(f, v) = Moved(f, v)
BY AtomicBasics DEF Atomic!Moved, Moved

(* Where it moves them.                                                    *)
LEMMA AtomicDest == \A f, v, p : Atomic!Dest(f, v, p) = Dest(f, v, p)
BY AtomicBasics, AtomicMoved DEF Atomic!Dest, Dest

(* The pages it moves to.                                                  *)
LEMMA AtomicLanded == \A f, v : Atomic!Landed(f, v) = Landed(f, v)
BY AtomicBasics, AtomicMoved, AtomicDest DEF Atomic!Landed, Landed

(* Where a page came from.                                                 *)
LEMMA AtomicSource == \A f, v, w : Atomic!Source(f, v, w) = Source(f, v, w)
BY AtomicBasics, AtomicMoved, AtomicDest DEF Atomic!Source, Source

(* The array after the move.                                               *)
LEMMA AtomicMigratePages == \A f, v, r : Atomic!MigratePages(f, v, r) = MigratePages(f, v, r)
BY AtomicBasics, AtomicLanded, AtomicSource, AtomicReadPage
  DEF Atomic!MigratePages, MigratePages

(* An entry that follows its page.                                         *)
LEMMA AtomicMovedTo == \A e, b, p : Atomic!MovedTo(e, b, p) = MovedTo(e, b, p)
BY AtomicBasics DEF Atomic!MovedTo, MovedTo

(* The mapping after the move.                                             *)
LEMMA AtomicRepoint == \A s, v, l : Atomic!Repoint(s, v, l) = Repoint(s, v, l)
BY AtomicBasics, AtomicMoved, AtomicDest, AtomicMovedTo DEF Atomic!Repoint, Repoint

(* The owner lists after the move.                                         *)
LEMMA AtomicMigrateOwners == \A s, v : Atomic!MigrateOwners(s, v) = MigrateOwners(s, v)
BY AtomicBasics, AtomicLanded, AtomicSource DEF Atomic!MigrateOwners, MigrateOwners

(* The block held back next.                                               *)
LEMMA AtomicNextReserve == \A r, v : Atomic!NextReserve(r, v) = NextReserve(r, v)
BY AtomicBasics, AtomicNext1 DEF Atomic!NextReserve, NextReserve

(* A collection.                                                           *)
LEMMA AtomicCollect == \A s, v : Atomic!Collect(s, v) = Collect(s, v)
BY AtomicBasics, AtomicEraseBlock, AtomicMigratePages, AtomicRepoint,
  AtomicNextReserve, AtomicMigrateOwners, AtomicRotated DEF Atomic!Collect, Collect

(* The test that may lead to one.                                          *)
LEMMA AtomicRunGarbageCollectionIfNeeded ==
  \A s : Atomic!RunGarbageCollectionIfNeeded(s) = RunGarbageCollectionIfNeeded(s)
BY AtomicBasics, AtomicNoneInvalid, AtomicAdvanceToReserve, AtomicCollect,
  AtomicVictim DEF Atomic!RunGarbageCollectionIfNeeded, RunGarbageCollectionIfNeeded

(* Placing a page.                                                         *)
LEMMA AtomicPlacePage == \A s, i, q : Atomic!PlacePage(s, i, q) = PlacePage(s, i, q)
<1> TAKE s0, i, q
<1> DEFINE s == RunGarbageCollectionIfNeeded(s0)
<1>1. Atomic!RunGarbageCollectionIfNeeded(s0) = s
  BY AtomicRunGarbageCollectionIfNeeded
<1> HIDE DEF s
<1>2. [l \in LBAs |-> IF l \in DOMAIN q THEN Atomic!MovedTo(q[l], s.active_block_idx, s.active_page_idx)
                                        ELSE s.lba_table[l]]
        = [l \in LBAs |-> IF l \in DOMAIN q THEN MovedTo(q[l], s.active_block_idx, s.active_page_idx)
                                        ELSE s.lba_table[l]]
  BY AtomicMovedTo
<1> QED
  BY <1>1, <1>2, AtomicBasics, AtomicProgramPage DEF Atomic!PlacePage, PlacePage, s

(* The flush.                                                              *)
LEMMA AtomicFlushStagedWrites == \A s : Atomic!FlushStagedWrites(s) = FlushStagedWrites(s)
BY AtomicBasics, AtomicPlacePage, AtomicPacked, AtomicHalf
  DEF Atomic!FlushStagedWrites, FlushStagedWrites

(* The prefix of a write.                                                  *)
LEMMA AtomicSuperseded == \A s, l : Atomic!Superseded(s, l) = Superseded(s, l)
BY AtomicBasics, AtomicInvalidatePage DEF Atomic!Superseded, Superseded

(* Whether a page is an LBA's.                                             *)
LEMMA AtomicLiveAt == \A s, l, b, p : Atomic!LiveAt(s, l, b, p) = LiveAt(s, l, b, p)
BY AtomicBasics DEF Atomic!LiveAt, LiveAt

(* The entry of a zero block.                                              *)
LEMMA AtomicSparse == \A e : Atomic!Sparse(e) = Sparse(e)
BY AtomicBasics DEF Atomic!Sparse, Sparse

-----------------------------------------------------------------------------
(* A call of WriteBlock between flushes is a step of FTLController.        *)
LEMMA AtomicWrite ==
  ASSUME Committed = ftl, Committed' = ftl', NEW l \in LBAs, NEW d \in Data, WriteBlock(l, d)
  PROVE  Atomic!Next
<1>1. Recorded(l, d) => Atomic!Recorded(l, d)
  BY AtomicBasics, AtomicLiveAt DEF Atomic!Recorded, Recorded
<1>2. CASE WriteZero(l, d)
  BY <1>1, <1>2, AtomicCompress, AtomicSuperseded, AtomicSparse
     DEF WriteZero, Atomic!WriteZero, Atomic!WriteBlock, Atomic!Next, Atomic!LBAs,
     LBAs
<1>3. CASE WriteStaged(l, d)
  BY <1>1, <1>3, AtomicCompress, AtomicSuperseded, AtomicFitsHalf
     DEF WriteStaged, Atomic!WriteStaged, Atomic!WriteBlock, Atomic!Next,
     Atomic!LBAs, LBAs
<1>4. CASE WritePaired(l, d)
  <2> DEFINE c == Compress(d)
             s == Superseded(ftl, l)
             h == s.staged_half
             q == [m \in {h.lba, l} |-> IF m = l THEN Half(1, c.compressed_size)
                                                 ELSE Half(0, h.comp_size)]
             qq == [m \in {h.lba, l} |-> IF m = l THEN Atomic!Half(1, c.compressed_size)
                                                  ELSE Atomic!Half(0, h.comp_size)]
  <2>1. qq = q
    BY AtomicHalf
  <2>2. /\ FitsHalf(c) /\ h.has_value
        /\ ftl' = [PlacePage(s, Packed(h.data, c.data), q) EXCEPT !.staged_half = NothingStaged]
        /\ Atomic!Recorded(l, d)
    BY <1>1, <1>4 DEF WritePaired
  <2>3. Atomic!Compress(d) = c /\ Atomic!Superseded(Committed, l) = s
    BY AtomicCompress, AtomicSuperseded
  <2> HIDE DEF c, s
  <2>4. Atomic!WritePaired(l, d)
    BY <2>1, <2>2, <2>3, AtomicBasics, AtomicPlacePage, AtomicPacked, AtomicFitsHalf
       DEF Atomic!WritePaired
  <2> QED
    BY <2>4 DEF Atomic!WriteBlock, Atomic!Next, Atomic!LBAs, LBAs
<1>5. CASE WriteFull(l, d)
  <2> DEFINE c == Compress(d)
             s == FlushStagedWrites(Superseded(ftl, l))
             q == [m \in {l} |-> Full(c.compressed_size)]
  <2>1. [m \in {l} |-> Atomic!Full(c.compressed_size)] = q
    BY AtomicFull
  <2>2. /\ ~c.is_zero_block /\ ~FitsHalf(c)
        /\ ftl' = PlacePage(s, Whole(c.data), q)
        /\ Atomic!Recorded(l, d)
    BY <1>1, <1>5 DEF WriteFull
  <2>3. Atomic!Compress(d) = c /\ Atomic!FlushStagedWrites(Atomic!Superseded(Committed, l)) = s
    BY AtomicCompress, AtomicSuperseded, AtomicFlushStagedWrites
  <2> HIDE DEF c, s
  <2>4. Atomic!WriteFull(l, d)
    BY <2>1, <2>2, <2>3, AtomicPlacePage, AtomicWhole, AtomicFitsHalf
       DEF Atomic!WriteFull
  <2> QED
    BY <2>4 DEF Atomic!WriteBlock, Atomic!Next, Atomic!LBAs, LBAs
<1> QED
  BY <1>2, <1>3, <1>4, <1>5 DEF WriteBlock

(* So is the flush as a whole.                                             *)
LEMMA AtomicFlush ==
  ASSUME Committed.staged_half.has_value, Committed' = FlushStagedWrites(Committed),
         UNCHANGED <<host, collateral>>
  PROVE  Atomic!Next
BY AtomicFlushStagedWrites DEF Atomic!Flush, Atomic!Next

(* So are the initial states, initial.                                     *)
LEMMA AtomicInit == ASSUME Init, Committed = ftl PROVE Atomic!Init
<1>1. Atomic!NewFlash = NewFlash
  BY AtomicBasics, AtomicWhole DEF Atomic!NewFlash, NewFlash, Atomic!ZeroImage,
    ZeroImage
<1> QED
  BY <1>1, AtomicBasics DEF Init, Atomic!Init

-----------------------------------------------------------------------------
(* Collecting garbage does not touch the staging buffer.                   *)
LEMMA CollectionKeepsStaged ==
  ASSUME NEW s
  PROVE  RunGarbageCollectionIfNeeded(s).staged_half = s.staged_half
BY DEF RunGarbageCollectionIfNeeded, AdvanceToReserve, Collect

(* What the three steps after garbage collection make of the controller,   *)
(* field by field.                                                         *)
LEMMA StageRecords ==
  ASSUME NEW s, Sound(s), s.staged_half.has_value
  PROVE  LET g == RunGarbageCollectionIfNeeded(s)
             b == g.active_block_idx
             p == g.active_page_idx
             h == s.staged_half
             flash == ProgramPage(g.flash, b, p, Packed(h.data, Blank))
             table == [g.lba_table EXCEPT ![h.lba] = MovedTo(Half(0, h.comp_size), b, p)]
         IN  /\ Programmed(g) =
                  [flash |-> flash, lba_table |-> g.lba_table, active_block_idx |-> b,
                   active_page_idx |-> p, reserve_block_idx |-> g.reserve_block_idx,
                   staged_half |-> h, block_page_owners |-> g.block_page_owners,
                   rotations |-> g.rotations]
             /\ Mapped(Programmed(g)) =
                  [flash |-> flash, lba_table |-> table, active_block_idx |-> b,
                   active_page_idx |-> p, reserve_block_idx |-> g.reserve_block_idx,
                   staged_half |-> h, block_page_owners |-> g.block_page_owners,
                   rotations |-> g.rotations]
             /\ WithOwner(Mapped(Programmed(g))) =
                  [flash |-> flash, lba_table |-> table, active_block_idx |-> b,
                   active_page_idx |-> p + 1, reserve_block_idx |-> g.reserve_block_idx,
                   staged_half |-> h,
                   block_page_owners |-> [g.block_page_owners EXCEPT ![b][p] = @ \cup {h.lba}],
                   rotations |-> g.rotations]
<1> DEFINE g == RunGarbageCollectionIfNeeded(s)
           b == g.active_block_idx
           p == g.active_page_idx
           h == s.staged_half
           image == Packed(h.data, Blank)
           flash == ProgramPage(g.flash, b, p, image)
           to == MovedTo(Half(0, h.comp_size), b, p)
           table == [g.lba_table EXCEPT ![h.lba] = to]
           mine == {h.lba}
           owners == [g.block_page_owners EXCEPT ![b][p] = @ \cup mine]
           t1 == Programmed(g)
           t2 == Mapped(t1)
           t3 == WithOwner(t2)
<1>1. g \in Controller /\ g.staged_half = h
  BY CollectionSound, CollectionKeepsStaged DEF Sound
<1>2. g = [flash |-> g.flash, lba_table |-> g.lba_table, active_block_idx |-> b,
           active_page_idx |-> p, reserve_block_idx |-> g.reserve_block_idx,
           staged_half |-> h, block_page_owners |-> g.block_page_owners,
           rotations |-> g.rotations]
  <2> HIDE DEF g
  <2> QED
    BY <1>1 DEF Controller
<1>3. t1 = [g EXCEPT !.flash = flash]
  BY <1>1 DEF Programmed
<1>4. \A t : t.staged_half = h /\ t.active_block_idx = b /\ t.active_page_idx = p =>
        /\ t.lba_table = g.lba_table => Mapped(t) = [t EXCEPT !.lba_table = table]
        /\ t.block_page_owners = g.block_page_owners =>
             WithOwner(t) = [t EXCEPT !.block_page_owners = owners, !.active_page_idx = p + 1]
  BY DEF Mapped, WithOwner
<1> HIDE DEF g, b, p, h, flash, to, mine, table, owners, t1, t2, t3
<1>5. t1 =
        [flash |-> flash, lba_table |-> g.lba_table, active_block_idx |-> b,
         active_page_idx |-> p, reserve_block_idx |-> g.reserve_block_idx,
         staged_half |-> h, block_page_owners |-> g.block_page_owners,
         rotations |-> g.rotations]
  BY <1>2, <1>3
<1>6. t2 =
        [flash |-> flash, lba_table |-> table, active_block_idx |-> b,
         active_page_idx |-> p, reserve_block_idx |-> g.reserve_block_idx,
         staged_half |-> h, block_page_owners |-> g.block_page_owners,
         rotations |-> g.rotations]
  <2>1. t2 = [t1 EXCEPT !.lba_table = table]
    BY <1>4, <1>5 DEF t2
  <2> QED
    BY <1>5, <2>1
<1>7. t3 =
        [flash |-> flash, lba_table |-> table, active_block_idx |-> b,
         active_page_idx |-> p + 1, reserve_block_idx |-> g.reserve_block_idx,
         staged_half |-> h, block_page_owners |-> owners,
         rotations |-> g.rotations]
  <2>1. t3 = [t2 EXCEPT !.block_page_owners = owners, !.active_page_idx = p + 1]
    BY <1>4, <1>6 DEF t3
  <2> QED
    BY <1>6, <2>1
<1> QED
  BY <1>5, <1>6, <1>7 DEF g, b, p, h, flash, to, mine, table, owners, t1, t2, t3

(* The steps of the flush, one after the other, are FlushStagedWrites.     *)
LEMMA StagesAreFlush ==
  ASSUME NEW s, Sound(s), s.staged_half.has_value
  PROVE  [Stage("reset", s) EXCEPT !.staged_half = NothingStaged] = FlushStagedWrites(s)
<1> DEFINE g == RunGarbageCollectionIfNeeded(s)
           b == g.active_block_idx
           p == g.active_page_idx
           h == s.staged_half
           flash == ProgramPage(g.flash, b, p, Packed(h.data, Blank))
           to == MovedTo(Half(0, h.comp_size), b, p)
           placed == [l \in {h.lba} |-> Half(0, h.comp_size)]
           table == [g.lba_table EXCEPT ![h.lba] = to]
           owners == [g.block_page_owners EXCEPT ![b][p] = @ \cup {h.lba}]
<1>1. g \in Controller /\ g.staged_half = h
  BY CollectionSound, CollectionKeepsStaged DEF Sound
<1>2. Stage("reset", s) =
        [flash |-> flash, lba_table |-> table, active_block_idx |-> b,
         active_page_idx |-> p + 1, reserve_block_idx |-> g.reserve_block_idx,
         staged_half |-> h, block_page_owners |-> owners,
         rotations |-> g.rotations]
  BY StageRecords DEF Stage
<1>3. DOMAIN placed = {h.lba} /\ placed[h.lba] = Half(0, h.comp_size)
  OBVIOUS
<1>4. table = [l \in LBAs |-> IF l \in DOMAIN placed THEN MovedTo(placed[l], b, p)
                                                     ELSE g.lba_table[l]]
  <2>1. g.lba_table \in [LBAs -> MappingEntry]
    BY <1>1 DEF Controller
  <2> HIDE DEF g, h, placed
  <2> QED
    BY <1>3, <2>1
<1>5. PlacePage(s, Packed(h.data, Blank), placed) =
        [flash |-> flash, lba_table |-> table, active_block_idx |-> b,
         active_page_idx |-> p + 1, reserve_block_idx |-> g.reserve_block_idx,
         staged_half |-> h, block_page_owners |-> owners,
         rotations |-> g.rotations]
  BY <1>1, <1>3, <1>4 DEF PlacePage
<1> QED
  BY <1>2, <1>5 DEF FlushStagedWrites

-----------------------------------------------------------------------------
(* A program leaves every valid page as it is.                             *)
LEMMA ProgramKeeps ==
  ASSUME NEW f \in FlashArray, CountsExact(f), NEW b \in Blocks, NEW p \in Pages, NEW image,
         NEW c \in Blocks, NEW q \in Pages, f.page_valid[c][q]
  PROVE  /\ ProgramPage(f, b, p, image).page_valid[c][q]
         /\ ProgramPage(f, b, p, image).data[c][q] = f.data[c][q]
<1>1. f.is_programmed[c][q]
  BY DEF CountsExact
<1> QED
  BY <1>1 DEF ProgramPage, FlashArray

(* Where the runner is during a flush.                                     *)
FlushPCs == {"collect", "program", "map", "own", "reset"}

(* The stages of the flush of s after garbage collection, as one record.   *)
LEMMA StageIs ==
  ASSUME NEW s, Sound(s), s.staged_half.has_value, NEW pc \in FlushPCs, pc # "collect"
  PROVE  LET g == RunGarbageCollectionIfNeeded(s)
             b == g.active_block_idx
             p == g.active_page_idx
             h == s.staged_half
             flash == ProgramPage(g.flash, b, p, Packed(h.data, Blank))
             table == [g.lba_table EXCEPT ![h.lba] = MovedTo(Half(0, h.comp_size), b, p)]
             owners == [g.block_page_owners EXCEPT ![b][p] = @ \cup {h.lba}]
         IN  Stage(pc, s) =
               [flash             |-> IF pc = "program" THEN g.flash ELSE flash,
                lba_table         |-> IF pc \in {"own", "reset"} THEN table ELSE g.lba_table,
                active_block_idx  |-> b,
                active_page_idx   |-> IF pc = "reset" THEN p + 1 ELSE p,
                reserve_block_idx |-> g.reserve_block_idx,
                staged_half       |-> h,
                block_page_owners |-> IF pc = "reset" THEN owners ELSE g.block_page_owners,
                rotations         |-> g.rotations]
<1> DEFINE g == RunGarbageCollectionIfNeeded(s)
           b == g.active_block_idx
           p == g.active_page_idx
           h == s.staged_half
           flash == ProgramPage(g.flash, b, p, Packed(h.data, Blank))
           table == [g.lba_table EXCEPT ![h.lba] = MovedTo(Half(0, h.comp_size), b, p)]
           owners == [g.block_page_owners EXCEPT ![b][p] = @ \cup {h.lba}]
           t == Stage(pc, s)
<1>1. CASE pc = "program"
  <2>1. t = g /\ g \in Controller /\ g.staged_half = h
    BY <1>1, CollectionSound, CollectionKeepsStaged DEF Stage, Sound
  <2>2. t = [flash |-> g.flash, lba_table |-> g.lba_table, active_block_idx |-> b,
             active_page_idx |-> p, reserve_block_idx |-> g.reserve_block_idx,
             staged_half |-> h, block_page_owners |-> g.block_page_owners,
             rotations |-> g.rotations]
    <3> HIDE DEF g, t, h
    <3> QED
      BY <2>1 DEF Controller
  <2> HIDE DEF t, g, h, flash, table, owners
  <2> QED
    BY <1>1, <2>2 DEF t, g, h, flash, table, owners
<1>2. CASE pc = "map"
  <2>1. t = [flash |-> flash, lba_table |-> g.lba_table, active_block_idx |-> b,
             active_page_idx |-> p, reserve_block_idx |-> g.reserve_block_idx,
             staged_half |-> h, block_page_owners |-> g.block_page_owners,
             rotations |-> g.rotations]
    BY <1>2, StageRecords DEF Stage
  <2> HIDE DEF t, g, h, flash, table, owners
  <2> QED
    BY <1>2, <2>1 DEF t, g, h, flash, table, owners
<1>3. CASE pc = "own"
  <2>1. t = [flash |-> flash, lba_table |-> table, active_block_idx |-> b,
             active_page_idx |-> p, reserve_block_idx |-> g.reserve_block_idx,
             staged_half |-> h, block_page_owners |-> g.block_page_owners,
             rotations |-> g.rotations]
    BY <1>3, StageRecords DEF Stage
  <2> HIDE DEF t, g, h, flash, table, owners
  <2> QED
    BY <1>3, <2>1 DEF t, g, h, flash, table, owners
<1>4. CASE pc = "reset"
  <2>1. t = [flash |-> flash, lba_table |-> table, active_block_idx |-> b,
             active_page_idx |-> p + 1, reserve_block_idx |-> g.reserve_block_idx,
             staged_half |-> h, block_page_owners |-> owners,
             rotations |-> g.rotations]
    BY <1>4, StageRecords DEF Stage
  <2> HIDE DEF t, g, h, flash, table, owners
  <2> QED
    BY <1>4, <2>1 DEF t, g, h, flash, table, owners
<1> QED
  BY <1>1, <1>2, <1>3, <1>4 DEF FlushPCs

(* At each stage of the flush the controller is well-formed.               *)
LEMMA StageSound ==
  ASSUME NEW s, Sound(s), s.staged_half.has_value, NEW pc \in FlushPCs
  PROVE  Sound(Stage(pc, s)) /\ Stage(pc, s).staged_half = s.staged_half
<1> DEFINE g == RunGarbageCollectionIfNeeded(s)
           b == g.active_block_idx
           p == g.active_page_idx
           h == s.staged_half
           image == Packed(h.data, Blank)
           flash == ProgramPage(g.flash, b, p, image)
           to == MovedTo(Half(0, h.comp_size), b, p)
           table == [g.lba_table EXCEPT ![h.lba] = to]
           owners == [g.block_page_owners EXCEPT ![b][p] = @ \cup {h.lba}]
<1>1. Sound(g) /\ g.staged_half = h /\ p \in Pages
  BY CollectionSound, CollectionKeepsStaged
<1>2. /\ b \in Blocks /\ h.lba \in LBAs /\ h.comp_size \in 0 .. HALF_PAGE /\ h.data \in Bytes
      /\ g.flash \in FlashArray /\ CountsExact(g.flash)
      /\ g.lba_table \in [LBAs -> MappingEntry] /\ g.reserve_block_idx \in Blocks
      /\ g.block_page_owners \in [Blocks -> [Pages -> SUBSET LBAs]]
      /\ g.rotations \in 0 .. total_blocks /\ b # g.reserve_block_idx
      /\ h \in StagedHalfPage
  BY <1>1 DEF Sound, Controller, StagedHalfPage
<1>3. flash \in FlashArray /\ CountsExact(flash)
  <2>1. image \in PageImage
    BY <1>2, ImagesTyped, PackedTyped
  <2> HIDE DEF image, g
  <2> QED
    BY <1>1, <1>2, <2>1, ProgramPageOK
<1>4. to \in MappingEntry
  <2> HIDE DEF b, p, h
  <2>1. Half(0, h.comp_size) \in Placement
    BY <1>2, PlacementTyped DEF Slots
  <2> QED
    BY <1>1, <1>2, <2>1 DEF MovedTo, Placement, MappingEntry, MappingState, OnFlash
<1>5. /\ table \in [LBAs -> MappingEntry]
      /\ owners \in [Blocks -> [Pages -> SUBSET LBAs]]
      /\ p \in 0 .. pages_per_block /\ p + 1 \in 0 .. pages_per_block
  <2> HIDE DEF to, g, h
  <2> QED
    BY <1>1, <1>2, <1>4, GeometryAssumption DEF Pages
<1>6. CASE pc = "collect"
  BY <1>6 DEF Stage
<1>7. CASE pc # "collect"
  <2> DEFINE fl == IF pc = "program" THEN g.flash ELSE flash
             ta == IF pc \in {"own", "reset"} THEN table ELSE g.lba_table
             pg == IF pc = "reset" THEN p + 1 ELSE p
             ow == IF pc = "reset" THEN owners ELSE g.block_page_owners
  <2>1. Stage(pc, s) =
          [flash |-> fl, lba_table |-> ta, active_block_idx |-> b,
           active_page_idx |-> pg, reserve_block_idx |-> g.reserve_block_idx,
           staged_half |-> h, block_page_owners |-> ow, rotations |-> g.rotations]
    BY <1>7, StageIs
  <2>2. /\ fl \in FlashArray /\ CountsExact(fl) /\ ta \in [LBAs -> MappingEntry]
        /\ pg \in 0 .. pages_per_block /\ ow \in [Blocks -> [Pages -> SUBSET LBAs]]
    <3> HIDE DEF flash, g, table, owners
    <3> QED
      BY <1>2, <1>3, <1>5
  <2> HIDE DEF fl, ta, pg, ow, g
  <2> QED
    BY <1>2, <2>1, <2>2 DEF Sound, Controller
<1> QED
  BY <1>6, <1>7

(* At each stage what is not staged is still found through the mapping,    *)
(* and the staging buffer still holds what is.                             *)
LEMMA StageServes ==
  ASSUME NEW s, Sound(s), s.staged_half.has_value, Consistent(s),
         NEW pc \in FlushPCs, Stage(pc, s).rotations < total_blocks
  PROVE  /\ Stored(Stage(pc, s), collateral \cup StagedLBA(s), host)
         /\ StagedRight(Stage(pc, s), collateral, host)
<1> DEFINE g == RunGarbageCollectionIfNeeded(s)
           t == Stage(pc, s)
           X == collateral \cup StagedLBA(s)
           b == g.active_block_idx
           p == g.active_page_idx
           h == s.staged_half
           image == Packed(h.data, Blank)
<1>1. Sound(g) /\ g.staged_half = h /\ p \in Pages
  BY CollectionSound, CollectionKeepsStaged
<1>2. t.staged_half = h
  BY StageSound
<1>3. CASE pc = "collect"
  <2>1. t = s
    BY <1>3 DEF Stage
  <2> QED
    BY <2>1 DEF Consistent, Good
<1>4. CASE pc # "collect"
  <2>1. /\ t.rotations = g.rotations
        /\ t.flash = g.flash \/ t.flash = ProgramPage(g.flash, b, p, image)
        /\ \A m \in LBAs \ StagedLBA(s) : t.lba_table[m] = g.lba_table[m]
    <3> DEFINE fl == IF pc = "program" THEN g.flash ELSE ProgramPage(g.flash, b, p, image)
               to == MovedTo(Half(0, h.comp_size), b, p)
               ta == IF pc \in {"own", "reset"} THEN [g.lba_table EXCEPT ![h.lba] = to]
                     ELSE g.lba_table
    <3>1. t.rotations = g.rotations /\ t.flash = fl /\ t.lba_table = ta
      <4> DEFINE pg == IF pc = "reset" THEN p + 1 ELSE p
                 ow == IF pc = "reset"
                         THEN [g.block_page_owners EXCEPT ![b][p] = @ \cup {h.lba}]
                         ELSE g.block_page_owners
      <4>1. t = [flash |-> fl, lba_table |-> ta, active_block_idx |-> b,
                 active_page_idx |-> pg, reserve_block_idx |-> g.reserve_block_idx,
                 staged_half |-> h, block_page_owners |-> ow, rotations |-> g.rotations]
        BY <1>4, StageIs
      <4> HIDE DEF fl, ta, t, g, pg, ow
      <4> QED
        BY <4>1
    <3>2. \A m \in LBAs \ StagedLBA(s) : m # h.lba
      BY DEF StagedLBA
    <3>3. g.lba_table \in [LBAs -> MappingEntry]
      BY <1>1 DEF Sound, Controller
    <3> HIDE DEF t, g, h, image, to
    <3> QED
      BY <3>1, <3>2, <3>3
  <2>2. s.rotations < total_blocks /\ Good(g, X, host) /\ StagedRight(s, collateral, host)
    <3>1. g.rotations < total_blocks
      BY <2>1
    <3>2. s.rotations < total_blocks /\ \A Z, k : Good(s, Z, k) => Good(g, Z, k)
      BY <3>1, CollectionGood
    <3> HIDE DEF g
    <3> QED
      BY <3>2 DEF Consistent
  <2>3. StagedRight(t, collateral, host)
    <3> HIDE DEF t
    <3> QED
      BY <1>2, <2>2 DEF StagedRight, StagedLBA
  <2>4. ASSUME NEW m \in LBAs \ X
        PROVE  LET e == t.lba_table[m]
               IN  IF e.state \in OnFlash
                   THEN /\ t.flash.page_valid[e.block_idx][e.page_idx]
                        /\ Holds(t.flash.data[e.block_idx][e.page_idx], e, host[m])
                   ELSE host[m] = Zero
    <3> DEFINE e == g.lba_table[m]
    <3>1. t.lba_table[m] = e
      BY <2>1
    <3>2. /\ e \in MappingEntry /\ e.block_idx \in Blocks /\ e.page_idx \in Pages
          /\ g.flash \in FlashArray /\ CountsExact(g.flash) /\ b \in Blocks
      BY <1>1 DEF Sound, Controller, MappingEntry
    <3>3. IF e.state \in OnFlash
          THEN /\ g.flash.page_valid[e.block_idx][e.page_idx]
               /\ Holds(g.flash.data[e.block_idx][e.page_idx], e, host[m])
          ELSE host[m] = Zero
      BY <2>2 DEF Good, Stored
    <3>4. ASSUME e.state \in OnFlash
          PROVE  /\ t.flash.page_valid[e.block_idx][e.page_idx]
                 /\ t.flash.data[e.block_idx][e.page_idx] = g.flash.data[e.block_idx][e.page_idx]
      <4>1. g.flash.page_valid[e.block_idx][e.page_idx]
        BY <3>3, <3>4
      <4> HIDE DEF g, t, e, image
      <4> QED
        BY <1>1, <2>1, <3>2, <4>1, ProgramKeeps
    <3> HIDE DEF g, t, e
    <3> QED
      BY <3>1, <3>3, <3>4
  <2> QED
    BY <2>3, <2>4 DEF Stored
<1> QED
  BY <1>3, <1>4

-----------------------------------------------------------------------------
(* As many reserve pages are reached as valid pages are moved.             *)
LEMMA LandedCount ==
  ASSUME NEW f \in FlashArray, NEW v \in Blocks
  PROVE  /\ Cardinality(Landed(f, v)) = Cardinality(Moved(f, v))
         /\ Cardinality(Moved(f, v)) \in Nat
<1> DEFINE S == Moved(f, v)
           T == Landed(f, v)
           F == [p \in S |-> Dest(f, v, p)]
<1>1. IsFiniteSet(S) /\ Cardinality(S) \in Nat
  <2>1. S \in SUBSET Pages
    BY DEF Moved
  <2> QED
    BY <2>1, PageSetsFinite
<1>2. /\ \A p \in S : Dest(f, v, p) \in T /\ Source(f, v, Dest(f, v, p)) = p
      /\ \A w \in T : Source(f, v, w) \in S /\ Dest(f, v, Source(f, v, w)) = w
  BY SourceOfDest
<1> HIDE DEF S, T
<1>3. F \in [S -> T]
  BY <1>2
<1>4. \A a, b \in S : F[a] = F[b] => a = b
  BY <1>2
<1>5. \A w \in T : \E p \in S : F[p] = w
  BY <1>2
<1>6. F \in Bijection(S, T)
  <2> HIDE DEF F
  <2> QED
    BY <1>3, <1>4, <1>5, Fun_IsBij
<1>7. ExistsBijection(S, T)
  BY <1>6 DEF ExistsBijection
<1> QED
  BY <1>1, <1>7, FS_Bijection DEF S, T

-----------------------------------------------------------------------------
(* j counts what k counts and more: the erase counters move together.      *)
Counted(k, j) ==
  /\ j \in Counters
  /\ k.total_blocks_erased = k.gc_count => j.total_blocks_erased = j.gc_count

(* Collecting garbage counts; in the first lap the pages it programs are   *)
(* the pages it migrates.                                                  *)
LEMMA CollectionCounted ==
  ASSUME NEW k \in Counters, NEW s, Sound(s)
  PROVE  /\ Counted(k, CountCollection(k, s))
         /\ \A X, h : Good(s, X, h) /\ RunGarbageCollectionIfNeeded(s).rotations < total_blocks
              => Balance(CountCollection(k, s)) = Balance(k)
<1>1. CASE s.active_page_idx < pages_per_block \/ NoneInvalid(s)
  BY <1>1 DEF CountCollection, Counted
<1>2. CASE ~(s.active_page_idx < pages_per_block \/ NoneInvalid(s))
  <2> DEFINE v == Victim(s)
             f == s.flash
             r == s.reserve_block_idx
             fresh == {w \in Landed(f, v) : ~f.is_programmed[r][w]}
             m == Cardinality(Moved(f, v))
             n == Cardinality(fresh)
             j == CountCollection(k, s)
  <2>1. f \in FlashArray /\ r \in Blocks /\ v \in Blocks /\ s.rotations \in 0 .. total_blocks
    BY <1>2, VictimOK DEF Sound, Controller
  <2>2. m \in Nat /\ Cardinality(Landed(f, v)) = m
    <3> HIDE DEF f, v
    <3> QED
      BY <2>1, LandedCount
  <2>3. n \in Nat
    <3>1. fresh \in SUBSET Pages
      <4>1. Landed(f, v) \subseteq Pages
        <5> HIDE DEF f, v
        <5> QED
          BY <2>1, SourceOfDest
      <4> QED
        BY <4>1
    <3> HIDE DEF fresh
    <3> QED
      BY <3>1, PageSetsFinite
  <2>4. j = [k EXCEPT !.gc_count = @ + 1,
                      !.gc_migrated_pages = @ + m,
                      !.total_pages_programmed = @ + n,
                      !.total_blocks_erased = @ + 1]
    BY <1>2 DEF CountCollection
  <2>5. Counted(k, j) /\ Balance(j) = Balance(k) + n - m
    <3> HIDE DEF m, n, j
    <3>1. Counted(k, j)
      <4>1. /\ k.gc_count + 1 \in Nat /\ k.gc_migrated_pages + m \in Nat
            /\ k.total_pages_programmed + n \in Nat /\ k.total_blocks_erased + 1 \in Nat
        BY <2>2, <2>3 DEF Counters
      <4>2. j \in Counters
        BY <2>4, <4>1 DEF Counters
      <4>3. j.total_blocks_erased = k.total_blocks_erased + 1 /\ j.gc_count = k.gc_count + 1
        BY <2>4 DEF Counters
      <4> QED
        BY <4>2, <4>3 DEF Counted
    <3>2. /\ j.total_pages_programmed = k.total_pages_programmed + n
          /\ j.zero_blocks = k.zero_blocks /\ j.half_page_packs = k.half_page_packs
          /\ j.gc_migrated_pages = k.gc_migrated_pages + m /\ j.host_writes = k.host_writes
      BY <2>4 DEF Counters
    <3>3. /\ k.total_pages_programmed \in Nat /\ k.zero_blocks \in Nat
          /\ k.half_page_packs \in Nat /\ k.gc_migrated_pages \in Nat /\ k.host_writes \in Nat
      BY DEF Counters
    <3> QED
      BY <2>2, <2>3, <3>1, <3>2, <3>3 DEF Balance
  <2>6. ASSUME NEW X, NEW h, Good(s, X, h),
               RunGarbageCollectionIfNeeded(s).rotations < total_blocks
        PROVE  n = m
    <3>1. RunGarbageCollectionIfNeeded(s).rotations = Rotated(s)
      BY <1>2 DEF RunGarbageCollectionIfNeeded, AdvanceToReserve, Collect
    <3>2. s.rotations < total_blocks - 1 /\ total_blocks \in Nat
      BY <2>1, <2>6, <3>1, GeometryAssumption DEF Rotated
    <3>3. r = s.rotations + 1 /\ \A b \in Blocks, p \in Pages : b > s.rotations => ~f.is_programmed[b][p]
      BY <2>6, <3>2 DEF Good, Untouched
    <3>4. \A w \in Landed(f, v) : w \in Pages
      <4> HIDE DEF f, v
      <4> QED
        BY <2>1, SourceOfDest
    <3>5. r > s.rotations
      BY <2>1, <3>3
    <3>6. fresh = Landed(f, v)
      <4> HIDE DEF f, v, r
      <4> QED
        BY <2>1, <3>3, <3>4, <3>5
    <3> QED
      BY <2>2, <3>6
  <2>7. Balance(k) \in Int
    BY DEF Balance, Counters
  <2> HIDE DEF m, n, j, fresh
  <2>8. \A X, h : Good(s, X, h) /\ RunGarbageCollectionIfNeeded(s).rotations < total_blocks
          => Balance(j) = Balance(k)
    BY <2>2, <2>5, <2>6, <2>7
  <2> QED
    BY <2>5, <2>8 DEF j
<1> QED
  BY <1>1, <1>2

(* Programming the active page counts; with room ahead it counts one.      *)
LEMMA ProgramCounted ==
  ASSUME NEW k \in Counters, NEW s
  PROVE  /\ Counted(k, CountProgram(k, s))
         /\ RoomAhead(s) /\ s.active_page_idx \in Pages
              => Balance(CountProgram(k, s)) = Balance(k) + 1
<1>1. CASE s.flash.is_programmed[s.active_block_idx][s.active_page_idx]
  <2>1. ~(RoomAhead(s) /\ s.active_page_idx \in Pages)
    BY <1>1 DEF RoomAhead, Pages
  <2> QED
    BY <1>1, <2>1 DEF CountProgram, Counted
<1>2. CASE ~s.flash.is_programmed[s.active_block_idx][s.active_page_idx]
  <2> DEFINE j == CountProgram(k, s)
  <2>1. j = [k EXCEPT !.total_pages_programmed = @ + 1]
    BY <1>2 DEF CountProgram
  <2> HIDE DEF j
  <2>2. Counted(k, j) /\ Balance(j) = Balance(k) + 1
    BY <2>1 DEF Counted, Counters, Balance
  <2> QED
    BY <2>2 DEF j
<1> QED
  BY <1>1, <1>2

(* Placing a page counts; in the first lap it counts one page that no      *)
(* migration accounts for.                                                 *)
LEMMA PlacementCounted ==
  ASSUME NEW k \in Counters, NEW s, Sound(s)
  PROVE  /\ Counted(k, CountPlacement(k, s))
         /\ \A X, h : Good(s, X, h) /\ RunGarbageCollectionIfNeeded(s).rotations < total_blocks
              => Balance(CountPlacement(k, s)) = Balance(k) + 1
<1> DEFINE g == RunGarbageCollectionIfNeeded(s)
           j == CountCollection(k, s)
           i == CountProgram(j, g)
<1>1. /\ Counted(k, j)
      /\ \A X, h : Good(s, X, h) /\ g.rotations < total_blocks => Balance(j) = Balance(k)
  BY CollectionCounted
<1>2. j \in Counters
  BY <1>1 DEF Counted
<1>3. /\ Counted(j, i)
      /\ RoomAhead(g) /\ g.active_page_idx \in Pages => Balance(i) = Balance(j) + 1
  <2> HIDE DEF j, g
  <2> QED
    BY <1>2, ProgramCounted
<1>4. g.active_page_idx \in Pages
  BY CollectionSound
<1>5. Counted(k, i)
  BY <1>1, <1>3 DEF Counted
<1>6. ASSUME NEW X, NEW h, Good(s, X, h), g.rotations < total_blocks
      PROVE  Balance(i) = Balance(k) + 1
  <2>1. RoomAhead(g)
    BY <1>6, CollectionGood DEF Good
  <2> HIDE DEF i, j, g
  <2> QED
    BY <1>1, <1>3, <1>4, <1>6, <2>1
<1> QED
  BY <1>5, <1>6 DEF CountPlacement

-----------------------------------------------------------------------------
(* A reader whose entry still leads to the block delivers it.              *)
LEMMA FoundDelivers ==
  ASSUME Sound(ftl), host \in [LBAs -> Data], reader \in ReaderState,
         Found(reader), ~MidSize(host[reader.lba])
  PROVE  Delivered(reader) = host[reader.lba]
<1> DEFINE l == reader.lba
           d == host[l]
           e == reader.entry
           k == reader.staged
           t == [ftl EXCEPT !.lba_table[l] = e, !.staged_half = k]
<1>1. l \in LBAs /\ d \in Data /\ CountsExact(ftl.flash)
  BY DEF ReaderState, Sound
<1>2. t.flash = ftl.flash /\ t.staged_half = k /\ t.lba_table[l] = e
  <2>1. ftl.lba_table \in [LBAs -> MappingEntry]
    BY DEF Sound, Controller
  <2>2. t.lba_table = [ftl.lba_table EXCEPT ![l] = e] /\ t.flash = ftl.flash /\ t.staged_half = k
    BY DEF Sound, Controller
  <2> HIDE DEF t, e, l, k
  <2> QED
    BY <1>1, <2>1, <2>2
<1>3. Delivered(reader) = ReadBlock(t, l)
  BY DEF Delivered
<1>4. CASE k.has_value
  <2>1. k.lba = l /\ k.data = LZ4(d) /\ k.comp_size = LZ4Size[d] /\ LZ4Size[d] > 0
    BY <1>4 DEF Found
  <2> HIDE DEF t, l, d, k
  <2>2. ReadBlock(t, l) = LZ4_decompress_safe(LZ4(d), LZ4Size[d])
    BY <1>2, <1>4, <2>1 DEF ReadBlock
  <2> QED
    BY <1>1, <1>3, <2>1, <2>2, DecodesStream DEF l, d
<1>5. CASE ~k.has_value
  <2>1. /\ e \in MappingEntry
        /\ IF e.state \in OnFlash
           THEN /\ t.flash.page_valid[e.block_idx][e.page_idx]
                /\ Holds(t.flash.data[e.block_idx][e.page_idx], e, d)
           ELSE d = Zero
    <3>1. /\ e \in MappingEntry
          /\ IF e.state \in OnFlash
             THEN /\ ftl.flash.page_valid[e.block_idx][e.page_idx]
                  /\ Holds(ftl.flash.data[e.block_idx][e.page_idx], e, d)
             ELSE d = Zero
      BY <1>5 DEF Found
    <3> HIDE DEF t, e, d
    <3> QED
      BY <1>2, <3>1
  <2>2. ~MidSize(d)
    OBVIOUS
  <2> HIDE DEF t, l, d, k, e
  <2>3. ReadBlock(t, l) = d
    BY <1>1, <1>2, <1>5, <2>1, <2>2, EntryDecodes
  <2> QED
    BY <1>3, <2>3 DEF d, l
<1> QED
  BY <1>4, <1>5

-----------------------------------------------------------------------------
(* The blocks staged: none or one.                                         *)
Staged(s) == IF s.staged_half.has_value THEN 1 ELSE 0

(* Adding one to a counter the balance adds up.                            *)
LEMMA OneMore ==
  ASSUME NEW k \in Counters
  PROVE  /\ Counted(k, [k EXCEPT !.host_writes = @ + 1])
         /\ Balance([k EXCEPT !.host_writes = @ + 1]) = Balance(k) - 1
         /\ Counted(k, [k EXCEPT !.zero_blocks = @ + 1])
         /\ Balance([k EXCEPT !.zero_blocks = @ + 1]) = Balance(k) + 1
         /\ Counted(k, [k EXCEPT !.half_page_packs = @ + 1])
         /\ Balance([k EXCEPT !.half_page_packs = @ + 1]) = Balance(k) + 1
         /\ Counted(k, [k EXCEPT !.raw_full_pages = @ + 1])
         /\ Balance([k EXCEPT !.raw_full_pages = @ + 1]) = Balance(k)
         /\ Balance(k) \in Int
<1>1. /\ k.host_writes \in Nat /\ k.zero_blocks \in Nat /\ k.half_page_packs \in Nat
      /\ k.raw_full_pages \in Nat /\ k.total_pages_programmed \in Nat
      /\ k.gc_migrated_pages \in Nat
  BY DEF Counters
<1>2. /\ Counted(k, [k EXCEPT !.host_writes = @ + 1])
      /\ Balance([k EXCEPT !.host_writes = @ + 1]) = Balance(k) - 1
  <2> DEFINE j == [k EXCEPT !.host_writes = @ + 1]
  <2>1. /\ j.host_writes = k.host_writes + 1 /\ j.zero_blocks = k.zero_blocks
        /\ j.half_page_packs = k.half_page_packs
        /\ j.total_pages_programmed = k.total_pages_programmed
        /\ j.gc_migrated_pages = k.gc_migrated_pages
    BY DEF Counters
  <2>2. Counted(k, j)
    BY <1>1 DEF Counted, Counters
  <2> HIDE DEF j
  <2> QED
    BY <1>1, <2>1, <2>2 DEF Balance, j
<1>3. /\ Counted(k, [k EXCEPT !.zero_blocks = @ + 1])
      /\ Balance([k EXCEPT !.zero_blocks = @ + 1]) = Balance(k) + 1
  <2> DEFINE j == [k EXCEPT !.zero_blocks = @ + 1]
  <2>1. /\ j.host_writes = k.host_writes /\ j.zero_blocks = k.zero_blocks + 1
        /\ j.half_page_packs = k.half_page_packs
        /\ j.total_pages_programmed = k.total_pages_programmed
        /\ j.gc_migrated_pages = k.gc_migrated_pages
    BY DEF Counters
  <2>2. Counted(k, j)
    BY <1>1 DEF Counted, Counters
  <2> HIDE DEF j
  <2> QED
    BY <1>1, <2>1, <2>2 DEF Balance, j
<1>4. /\ Counted(k, [k EXCEPT !.half_page_packs = @ + 1])
      /\ Balance([k EXCEPT !.half_page_packs = @ + 1]) = Balance(k) + 1
  <2> DEFINE j == [k EXCEPT !.half_page_packs = @ + 1]
  <2>1. /\ j.host_writes = k.host_writes /\ j.zero_blocks = k.zero_blocks
        /\ j.half_page_packs = k.half_page_packs + 1
        /\ j.total_pages_programmed = k.total_pages_programmed
        /\ j.gc_migrated_pages = k.gc_migrated_pages
    BY DEF Counters
  <2>2. Counted(k, j)
    BY <1>1 DEF Counted, Counters
  <2> HIDE DEF j
  <2> QED
    BY <1>1, <2>1, <2>2 DEF Balance, j
<1>5. /\ Counted(k, [k EXCEPT !.raw_full_pages = @ + 1])
      /\ Balance([k EXCEPT !.raw_full_pages = @ + 1]) = Balance(k)
  <2> DEFINE j == [k EXCEPT !.raw_full_pages = @ + 1]
  <2>1. /\ j.host_writes = k.host_writes /\ j.zero_blocks = k.zero_blocks
        /\ j.half_page_packs = k.half_page_packs
        /\ j.total_pages_programmed = k.total_pages_programmed
        /\ j.gc_migrated_pages = k.gc_migrated_pages
    BY DEF Counters
  <2>2. Counted(k, j)
    BY <1>1 DEF Counted, Counters
  <2> HIDE DEF j
  <2> QED
    BY <1>1, <2>1, <2>2 DEF Balance, j
<1>6. Balance(k) \in Int
  BY <1>1 DEF Balance
<1> QED
  BY <1>2, <1>3, <1>4, <1>5, <1>6

(* Counting goes on from what is counted.                                  *)
LEMMA CountedOn ==
  ASSUME NEW k, NEW j, NEW i, Counted(k, j), Counted(j, i)
  PROVE  Counted(k, i) /\ j \in Counters /\ i \in Counters
BY DEF Counted

(* A write that does not displace the staged block keeps the balance: what *)
(* it counts is what it programs, now or when the staged half is flushed.  *)
LEMMA WriteCounted ==
  ASSUME Inv, tel \in Counters, NEW l \in LBAs, NEW d \in Data, WriteBlock(l, d),
         ~(ftl.staged_half.has_value /\ ftl.staged_half.lba = l)
  PROVE  /\ Counted(tel, CountWrite(l, d))
         /\ FirstLap' => Balance(CountWrite(l, d)) + Staged(ftl') = Balance(tel) + Staged(ftl)
<1> DEFINE k == [tel EXCEPT !.host_writes = @ + 1]
           s == Superseded(ftl, l)
           c == Compress(d)
           a == CountPlacement(k, s)
           u == FlushStagedWrites(s)
           flushed == IF s.staged_half.has_value THEN a ELSE k
           b == CountPlacement(flushed, u)
           j == CountWrite(l, d)
           X == collateral' \cup StagedLBA(s) \cup {l}
<1>1. Counted(tel, k) /\ k \in Counters /\ Balance(k) = Balance(tel) - 1 /\ Balance(tel) \in Int
  BY OneMore DEF Counted
<1>2. Sound(s) /\ s.staged_half = ftl.staged_half /\ s.rotations = ftl.rotations
  BY SupersededSound DEF Inv, Superseded
<1>3. Recorded(l, d)
  BY DEF WriteBlock, WriteZero, WriteStaged, WritePaired, WriteFull
<1>4. s.rotations < total_blocks =>
        Good(s, X, host') /\ StagedRight(s, collateral', host')
  BY <1>3, PrefixGood
<1>5. Staged(ftl) \in Int /\ Staged(ftl) = (IF s.staged_half.has_value THEN 1 ELSE 0)
  BY <1>2 DEF Staged
<1>6. CASE WriteZero(l, d)
  <2>1. j = [k EXCEPT !.zero_blocks = @ + 1]
    BY <1>6 DEF WriteZero, CountWrite
  <2>2. Staged(ftl') = Staged(ftl)
    <3>1. ftl'.staged_half = s.staged_half
      BY <1>6 DEF WriteZero, Superseded
    <3> QED
      BY <1>2, <3>1 DEF Staged
  <2> HIDE DEF j, k
  <2>3. Counted(k, j) /\ Balance(j) = Balance(k) + 1
    BY <1>1, <2>1, OneMore
  <2> QED
    BY <1>1, <1>5, <2>2, <2>3, CountedOn DEF j
<1>7. CASE WriteStaged(l, d)
  <2>1. ~c.is_zero_block /\ FitsHalf(c) /\ ~s.staged_half.has_value
    BY <1>7 DEF WriteStaged, FitsHalf
  <2>2. j = k
    BY <2>1 DEF CountWrite
  <2>3. Staged(ftl') = 1
    <3>1. ftl'.staged_half.has_value
      BY <1>7 DEF WriteStaged, Superseded
    <3> QED
      BY <3>1 DEF Staged
  <2> HIDE DEF j, k, s
  <2> QED
    BY <1>1, <1>5, <2>1, <2>2, <2>3 DEF j
<1>8. CASE WritePaired(l, d)
  <2>1. ~c.is_zero_block /\ FitsHalf(c) /\ s.staged_half.has_value
    BY <1>8 DEF WritePaired, FitsHalf
  <2>2. j = [a EXCEPT !.half_page_packs = @ + 1]
    BY <2>1 DEF CountWrite
  <2>3. Staged(ftl') = 0 /\ ftl'.rotations = RunGarbageCollectionIfNeeded(s).rotations
    <3>1. /\ ~ftl'.staged_half.has_value
          /\ ftl'.rotations = RunGarbageCollectionIfNeeded(s).rotations
      BY <1>8 DEF WritePaired, PlacePage, NothingStaged
    <3> QED
      BY <3>1 DEF Staged
  <2>4. /\ Counted(k, a)
        /\ \A Y, h : Good(s, Y, h) /\ RunGarbageCollectionIfNeeded(s).rotations < total_blocks
              => Balance(a) = Balance(k) + 1
    <3> HIDE DEF k, s
    <3> QED
      BY <1>1, <1>2, PlacementCounted
  <2>5. FirstLap' => Balance(a) = Balance(k) + 1
    <3> HIDE DEF k, s, a, X
    <3>1. FirstLap' => s.rotations < total_blocks /\ RunGarbageCollectionIfNeeded(s).rotations < total_blocks
      BY <1>2, <2>3, CollectionGood DEF FirstLap
    <3> QED
      BY <1>4, <2>4, <3>1
  <2>6. a \in Counters
    BY <2>4 DEF Counted
  <2>7. Counted(a, j) /\ Balance(j) = Balance(a) + 1 /\ Balance(a) \in Int
    <3> HIDE DEF a, j
    <3> QED
      BY <2>2, <2>6, OneMore
  <2>8. Counted(tel, j)
    <3> HIDE DEF a, j, k
    <3> QED
      BY <1>1, <2>4, <2>7, CountedOn
  <2> HIDE DEF a, j, k, s
  <2> QED
    BY <1>1, <1>5, <2>1, <2>3, <2>5, <2>7, <2>8 DEF j
<1>9. CASE WriteFull(l, d)
  <2>1. ~c.is_zero_block /\ ~FitsHalf(c)
    BY <1>9 DEF WriteFull
  <2>2. j = [b EXCEPT !.raw_full_pages = @ + 1]
    BY <2>1 DEF CountWrite
  <2>3. /\ ~u.staged_half.has_value
        /\ s.staged_half.has_value =>
             u.rotations = RunGarbageCollectionIfNeeded(s).rotations
        /\ ~s.staged_half.has_value => u = s
    BY DEF FlushStagedWrites, NothingStaged, PlacePage
  <2>4. Staged(ftl') = 0 /\ ftl'.rotations = RunGarbageCollectionIfNeeded(u).rotations
    <3>1. /\ ftl'.rotations = RunGarbageCollectionIfNeeded(u).rotations
          /\ ftl'.staged_half = RunGarbageCollectionIfNeeded(u).staged_half
      BY <1>9 DEF WriteFull, PlacePage
    <3>2. ~ftl'.staged_half.has_value
      <4> HIDE DEF u
      <4> QED
        BY <2>3, <3>1, CollectionKeepsStaged
    <3> QED
      BY <3>1, <3>2 DEF Staged
  <2>5. Sound(u)
    <3> HIDE DEF s
    <3> QED
      BY <1>2, FlushSound
  <2>6. FirstLap' => /\ u.rotations < total_blocks /\ s.rotations < total_blocks
                     /\ RunGarbageCollectionIfNeeded(u).rotations < total_blocks
                     /\ Good(s, X, host') /\ Good(u, X \ StagedLBA(s), host')
    <3>1. FirstLap' => /\ RunGarbageCollectionIfNeeded(u).rotations < total_blocks
                       /\ u.rotations < total_blocks
      <4> HIDE DEF u
      <4> QED
        BY <2>4, <2>5, CollectionGood DEF FirstLap
    <3>2. u.rotations < total_blocks =>
            s.rotations < total_blocks /\ Good(u, X \ StagedLBA(s), host')
      <4>1. StagedLBA(s) \subseteq X
        OBVIOUS
      <4> HIDE DEF s, X
      <4> QED
        BY <1>2, <1>4, <4>1, FlushGood
    <3> HIDE DEF u, s, X
    <3> QED
      BY <1>4, <3>1, <3>2
  <2>7. /\ Counted(k, flushed)
        /\ FirstLap' => Balance(flushed) = Balance(k) + Staged(ftl)
    <3>1. CASE s.staged_half.has_value
      <4>1. /\ Counted(k, a)
            /\ \A Y, h : Good(s, Y, h) /\ RunGarbageCollectionIfNeeded(s).rotations < total_blocks
                  => Balance(a) = Balance(k) + 1
        <5> HIDE DEF k, s
        <5> QED
          BY <1>1, <1>2, PlacementCounted
      <4>2. flushed = a /\ Staged(ftl) = 1
        BY <1>5, <3>1
      <4> HIDE DEF k, s, a, flushed, u, X
      <4> QED
        BY <2>3, <2>6, <3>1, <4>1, <4>2
    <3>2. CASE ~s.staged_half.has_value
      <4>1. flushed = k /\ Staged(ftl) = 0
        BY <1>5, <3>2
      <4>2. Counted(k, k) /\ Balance(k) \in Int
        BY <1>1 DEF Counted
      <4> HIDE DEF k, flushed
      <4> QED
        BY <4>1, <4>2
    <3> QED
      BY <3>1, <3>2
  <2>8. flushed \in Counters
    BY <2>7 DEF Counted
  <2>9. /\ Counted(flushed, b)
        /\ \A Y, h : Good(u, Y, h) /\ RunGarbageCollectionIfNeeded(u).rotations < total_blocks
              => Balance(b) = Balance(flushed) + 1
    <3> HIDE DEF flushed, u
    <3> QED
      BY <2>5, <2>8, PlacementCounted
  <2>10. FirstLap' => Balance(b) = Balance(flushed) + 1
    <3> HIDE DEF b, flushed, u, X, s
    <3> QED
      BY <2>6, <2>9
  <2>11. b \in Counters
    BY <2>9 DEF Counted
  <2>12. Counted(b, j) /\ Balance(j) = Balance(b) /\ Balance(b) \in Int
    <3> HIDE DEF b, j
    <3> QED
      BY <2>2, <2>11, OneMore
  <2>13. Counted(tel, j) /\ Balance(flushed) \in Int
    <3> HIDE DEF k, b, j, flushed
    <3> QED
      BY <1>1, <2>7, <2>8, <2>9, <2>12, CountedOn, OneMore
  <2> HIDE DEF j, k, b, flushed, s
  <2> QED
    BY <1>1, <1>5, <2>4, <2>7, <2>10, <2>12, <2>13 DEF j
<1> QED
  BY <1>6, <1>7, <1>8, <1>9 DEF WriteBlock

-----------------------------------------------------------------------------
(* The pages before p that are moved are counted one by one.               *)
LEMMA DestStep ==
  ASSUME NEW f \in FlashArray, NEW v \in Blocks
  PROVE  /\ Dest(f, v, 0) = 0
         /\ \A p \in 0 .. pages_per_block : Dest(f, v, p) \in 0 .. pages_per_block
         /\ \A p \in Pages : Dest(f, v, p + 1) = IF p \in Moved(f, v) THEN Dest(f, v, p) + 1
                                                                     ELSE Dest(f, v, p)
<1>1. Moved(f, v) \subseteq Nat /\ Moved(f, v) \subseteq Pages
  BY GeometryAssumption DEF Moved, Pages
<1>2. Dest(f, v, 0) = 0
  <2>1. {q \in Moved(f, v) : q < 0} = {}
    BY <1>1
  <2> QED
    BY <2>1, FS_EmptySet DEF Dest
<1>3. ASSUME NEW p \in 0 .. pages_per_block PROVE Dest(f, v, p) \in 0 .. pages_per_block
  <2>1. {q \in Moved(f, v) : q < p} \in SUBSET Pages
    BY <1>1
  <2> QED
    BY <2>1, PageSetsFinite, GeometryAssumption DEF Dest
<1>4. ASSUME NEW p \in Pages
      PROVE  Dest(f, v, p + 1) = IF p \in Moved(f, v) THEN Dest(f, v, p) + 1 ELSE Dest(f, v, p)
  <2> DEFINE S == {q \in Moved(f, v) : q < p}
             T == {q \in Moved(f, v) : q < p + 1}
  <2>1. p \in Nat
    BY GeometryAssumption DEF Pages
  <2>2. CASE p \in Moved(f, v)
    <3>1. T = S \cup {p} /\ p \notin S
      BY <1>1, <2>1, <2>2
    <3>2. S \in SUBSET Pages
      BY <1>1
    <3>3. Cardinality(S \cup {p}) = Cardinality(S) + 1
      BY <3>1, <3>2, PageSetsFinite, FS_AddElement
    <3> QED
      BY <2>2, <3>1, <3>3 DEF Dest
  <2>3. CASE p \notin Moved(f, v)
    <3>1. T = S
      BY <1>1, <2>1, <2>3
    <3> QED
      BY <2>3, <3>1 DEF Dest
  <2> QED
    BY <2>2, <2>3
<1> QED
  BY <1>2, <1>3, <1>4

(* So the pages of the reserve are reached one by one.                     *)
LEMMA ReachedStep ==
  ASSUME NEW f \in FlashArray, NEW v \in Blocks
  PROVE  /\ Reached(f, v, 0) = {}
         /\ Reached(f, v, pages_per_block) = Landed(f, v)
         /\ \A p \in Pages \ Moved(f, v) : Reached(f, v, p + 1) = Reached(f, v, p)
         /\ \A p \in Moved(f, v) : /\ Dest(f, v, p) \notin Reached(f, v, p)
                                   /\ Reached(f, v, p + 1) = Reached(f, v, p) \cup {Dest(f, v, p)}
                                   /\ Source(f, v, Dest(f, v, p)) = p
                                   /\ Dest(f, v, p) \in Pages
<1> DEFINE L == Landed(f, v)
           M == Moved(f, v)
<1>1. /\ L \subseteq Pages
      /\ \A w \in L : Source(f, v, w) \in M /\ Dest(f, v, Source(f, v, w)) = w
      /\ \A p \in M : Dest(f, v, p) \in L /\ Source(f, v, Dest(f, v, p)) = p
  BY SourceOfDest
<1>2. /\ M \subseteq Pages
      /\ \A x, y \in Pages : x < y + 1 <=> x < y \/ x = y
      /\ \A x \in Pages : ~(x < 0) /\ x < pages_per_block /\ ~(x < x)
  BY GeometryAssumption DEF Moved, Pages
<1> HIDE DEF L, M
<1>3. Reached(f, v, 0) = {} /\ Reached(f, v, pages_per_block) = L
  <2>1. \A w \in L : ~(Source(f, v, w) < 0) /\ Source(f, v, w) < pages_per_block
    BY <1>1, <1>2
  <2> QED
    BY <2>1 DEF Reached, L
<1>4. ASSUME NEW p \in Pages \ M PROVE Reached(f, v, p + 1) = Reached(f, v, p)
  <2>1. \A w \in L : Source(f, v, w) \in Pages /\ Source(f, v, w) # p
    BY <1>1, <1>2
  <2>2. \A w \in L : Source(f, v, w) < p + 1 <=> Source(f, v, w) < p
    BY <1>2, <2>1
  <2> QED
    BY <2>2 DEF Reached, L
<1>5. ASSUME NEW p \in M
      PROVE  /\ Dest(f, v, p) \notin Reached(f, v, p)
             /\ Reached(f, v, p + 1) = Reached(f, v, p) \cup {Dest(f, v, p)}
  <2>1. \A w \in L : /\ Source(f, v, w) \in Pages
                     /\ Source(f, v, w) = p <=> w = Dest(f, v, p)
    BY <1>1, <1>2
  <2>2. \A w \in L : Source(f, v, w) < p + 1 <=> Source(f, v, w) < p \/ w = Dest(f, v, p)
    BY <1>2, <2>1
  <2>3. Dest(f, v, p) \in L /\ ~(Source(f, v, Dest(f, v, p)) < p)
    BY <1>1, <1>2
  <2> QED
    BY <2>2, <2>3 DEF Reached, L
<1> QED
  BY <1>1, <1>3, <1>4, <1>5 DEF L, M

(* What the array holds after the pages before p, page by page.            *)
LEMMA MigratedPages ==
  ASSUME NEW f \in FlashArray, NEW v \in Blocks, NEW r \in Blocks, NEW p,
         NEW b \in Blocks, NEW w \in Pages
  PROVE  LET g == MigratedFlash(f, v, r, p)
         IN  /\ g.is_programmed[b][w] <=> f.is_programmed[b][w] \/ Copied(f, v, r, p, b, w)
             /\ g.page_valid[b][w] <=> f.page_valid[b][w] \/ Copied(f, v, r, p, b, w)
             /\ g.data[b][w] = IF Copied(f, v, r, p, b, w) THEN ReadPage(f, v, Source(f, v, w))
                                                           ELSE f.data[b][w]
             /\ b # r => /\ g.is_programmed[b][w] = f.is_programmed[b][w]
                         /\ g.page_valid[b][w] = f.page_valid[b][w]
                         /\ g.data[b][w] = f.data[b][w]
<1> DEFINE g == MigratedFlash(f, v, r, p)
<1>1. /\ g.is_programmed[b][w] = (f.is_programmed[b][w] \/ Copied(f, v, r, p, b, w))
      /\ g.page_valid[b][w] = (f.page_valid[b][w] \/ Copied(f, v, r, p, b, w))
      /\ g.data[b][w] = IF Copied(f, v, r, p, b, w) THEN ReadPage(f, v, Source(f, v, w))
                                                    ELSE f.data[b][w]
  BY DEF MigratedFlash
<1>2. /\ f.is_programmed[b][w] \in BOOLEAN /\ f.page_valid[b][w] \in BOOLEAN
      /\ b # r => ~Copied(f, v, r, p, b, w)
  BY DEF FlashArray, Copied
<1> HIDE DEF g
<1> QED
  BY <1>1, <1>2 DEF g

(* The array before the first page is copied, and after the last.          *)
LEMMA MigratedEnds ==
  ASSUME NEW f \in FlashArray, NEW v \in Blocks, NEW r \in Blocks
  PROVE  /\ MigratedFlash(f, v, r, 0) = f
         /\ MigratedFlash(f, v, r, pages_per_block) = MigratePages(f, v, r)
<1>1. MigratedFlash(f, v, r, 0) = f
  <2>1. \A b, w : ~Copied(f, v, r, 0, b, w)
    BY ReachedStep DEF Copied
  <2>2. /\ f.is_programmed = [b \in Blocks |-> [w \in Pages |-> f.is_programmed[b][w]]]
        /\ f.page_valid = [b \in Blocks |-> [w \in Pages |-> f.page_valid[b][w]]]
        /\ f.data = [b \in Blocks |-> [w \in Pages |-> f.data[b][w]]]
    BY DEF FlashArray
  <2>3. \A b \in Blocks, w \in Pages : /\ f.is_programmed[b][w] \in BOOLEAN
                                       /\ f.page_valid[b][w] \in BOOLEAN
    BY DEF FlashArray
  <2>4. /\ [b \in Blocks |-> [w \in Pages |->
               f.is_programmed[b][w] \/ Copied(f, v, r, 0, b, w)]] = f.is_programmed
        /\ [b \in Blocks |-> [w \in Pages |->
               f.page_valid[b][w] \/ Copied(f, v, r, 0, b, w)]] = f.page_valid
        /\ [b \in Blocks |-> [w \in Pages |->
               IF Copied(f, v, r, 0, b, w) THEN ReadPage(f, v, Source(f, v, w))
                                           ELSE f.data[b][w]]] = f.data
    BY <2>1, <2>2, <2>3
  <2> QED
    BY <2>4 DEF MigratedFlash, FlashArray
<1>2. MigratedFlash(f, v, r, pages_per_block) = MigratePages(f, v, r)
  <2> DEFINE fresh == {w \in Landed(f, v) : ~f.is_programmed[r][w]}
             n == pages_per_block
  <2>1. \A b, w : Copied(f, v, r, n, b, w) <=> b = r /\ w \in fresh
    BY ReachedStep DEF Copied
  <2>2. [b \in Blocks |-> [w \in Pages |-> f.is_programmed[b][w] \/ Copied(f, v, r, n, b, w)]]
          = [f.is_programmed EXCEPT ![r] = [w \in Pages |-> w \in fresh \/ f.is_programmed[r][w]]]
    <3> HIDE DEF fresh, n
    <3> QED
      BY <2>1 DEF FlashArray
  <2>3. [b \in Blocks |-> [w \in Pages |-> f.page_valid[b][w] \/ Copied(f, v, r, n, b, w)]]
          = [f.page_valid EXCEPT ![r] = [w \in Pages |-> w \in fresh \/ f.page_valid[r][w]]]
    <3> HIDE DEF fresh, n
    <3> QED
      BY <2>1 DEF FlashArray
  <2>4. [b \in Blocks |-> [w \in Pages |->
           IF Copied(f, v, r, n, b, w) THEN ReadPage(f, v, Source(f, v, w)) ELSE f.data[b][w]]]
          = [f.data EXCEPT ![r] = [w \in Pages |->
               IF w \in fresh THEN ReadPage(f, v, Source(f, v, w)) ELSE f.data[r][w]]]
    <3> HIDE DEF fresh, n
    <3> QED
      BY <2>1 DEF FlashArray
  <2> QED
    BY <2>2, <2>3, <2>4 DEF MigratedFlash, MigratePages
<1> QED
  BY <1>1, <1>2

(* Copying page p is the program of the reserve page it goes to, which may *)
(* be refused.                                                             *)
LEMMA MigratedStep ==
  ASSUME NEW f \in FlashArray, NEW v \in Blocks, NEW r \in Blocks, v # r, NEW p \in Pages
  PROVE  LET g == MigratedFlash(f, v, r, p)
         IN  /\ p \notin Moved(f, v) => MigratedFlash(f, v, r, p + 1) = g
             /\ p \in Moved(f, v) =>
                  /\ MigratedFlash(f, v, r, p + 1)
                       = ProgramPage(g, r, Dest(f, v, p), ReadPage(g, v, p))
                  /\ g.is_programmed[r][Dest(f, v, p)] <=> f.is_programmed[r][Dest(f, v, p)]
             /\ g.page_valid[v][p] <=> p \in Moved(f, v)
<1> DEFINE g == MigratedFlash(f, v, r, p)
           h == MigratedFlash(f, v, r, p + 1)
           w == Dest(f, v, p)
<1>1. g.page_valid[v][p] <=> p \in Moved(f, v)
  BY MigratedPages DEF Moved
<1>2. ASSUME p \notin Moved(f, v) PROVE h = g
  <2>1. \A b, q : Copied(f, v, r, p + 1, b, q) <=> Copied(f, v, r, p, b, q)
    BY <1>2, ReachedStep DEF Copied
  <2> QED
    BY <2>1 DEF MigratedFlash
<1>3. ASSUME p \in Moved(f, v)
      PROVE  /\ g.is_programmed[r][w] <=> f.is_programmed[r][w]
             /\ h = ProgramPage(g, r, w, ReadPage(g, v, p))
  <2>1. /\ w \in Pages /\ w \notin Reached(f, v, p) /\ Source(f, v, w) = p
        /\ Reached(f, v, p + 1) = Reached(f, v, p) \cup {w}
    BY <1>3, ReachedStep
  <2> HIDE DEF w
  <2>2. g.is_programmed[r][w] <=> f.is_programmed[r][w]
    BY <2>1, MigratedPages DEF Copied
  <2>3. ReadPage(g, v, p) = ReadPage(f, v, p)
    BY MigratedPages DEF ReadPage
  <2>4. \A b, q : Copied(f, v, r, p + 1, b, q)
                    <=> Copied(f, v, r, p, b, q) \/ (b = r /\ q = w /\ ~f.is_programmed[r][w])
    BY <2>1 DEF Copied
  <2>5. CASE f.is_programmed[r][w]
    <3>1. \A b, q : Copied(f, v, r, p + 1, b, q) <=> Copied(f, v, r, p, b, q)
      BY <2>4, <2>5
    <3>2. h = g
      BY <3>1 DEF MigratedFlash
    <3> HIDE DEF g, h
    <3> QED
      BY <2>2, <2>5, <3>2 DEF ProgramPage
  <2>6. CASE ~f.is_programmed[r][w]
    <3>1. ~Copied(f, v, r, p, r, w)
      BY <2>1 DEF Copied
    <3>2. h.is_programmed = [g.is_programmed EXCEPT ![r][w] = TRUE]
      BY <2>1, <2>4, <2>6 DEF MigratedFlash
    <3>3. h.page_valid = [g.page_valid EXCEPT ![r][w] = TRUE]
      BY <2>1, <2>4, <2>6 DEF MigratedFlash
    <3>4. h.data = [g.data EXCEPT ![r][w] = ReadPage(f, v, p)]
      BY <2>1, <2>4, <2>6 DEF MigratedFlash
    <3>5. /\ h = [is_programmed |-> h.is_programmed, page_valid |-> h.page_valid,
                  data |-> h.data, invalid_page_count |-> f.invalid_page_count]
          /\ g.invalid_page_count = f.invalid_page_count
      BY DEF MigratedFlash
    <3> HIDE DEF g, h
    <3> QED
      BY <2>2, <2>3, <2>6, <3>2, <3>3, <3>4, <3>5 DEF ProgramPage
  <2> QED
    BY <2>2, <2>5, <2>6
<1> QED
  BY <1>1, <1>2, <1>3

(* The mapping before the first page is moved, after the last, and across  *)
(* page p.                                                                 *)
LEMMA EntrySteps ==
  ASSUME NEW s \in Controller, NEW v \in Blocks, NEW l \in LBAs
  PROVE  /\ MigratedEntry(s, v, 0, l) = s.lba_table[l]
         /\ MigratedEntry(s, v, pages_per_block, l) = Repoint(s, v, l)
         /\ \A p \in Pages :
              MigratedEntry(s, v, p + 1, l)
                = IF p \in Moved(s.flash, v) /\ l \in s.block_page_owners[v][p]
                  THEN MovedTo(s.lba_table[l], s.reserve_block_idx, Dest(s.flash, v, p))
                  ELSE MigratedEntry(s, v, p, l)
         /\ \A p : /\ MigratedEntry(s, v, p, l).state = s.lba_table[l].state
                   /\ MigratedEntry(s, v, p, l).sub_slot = s.lba_table[l].sub_slot
                   /\ MigratedEntry(s, v, p, l).compressed_size = s.lba_table[l].compressed_size
<1> DEFINE M == Moved(s.flash, v)
           O(p) == OwnedBefore(s, v, p, l)
<1>1. /\ M \subseteq Pages
      /\ \A x, y \in Pages : x < y + 1 <=> x < y \/ x = y
      /\ \A x \in Pages : ~(x < 0) /\ x < pages_per_block /\ x >= x
      /\ \A x, y \in Pages : x < y => y >= x
  BY GeometryAssumption DEF Moved, Pages
<1>2. \A p : O(p) = {q \in M : q < p /\ l \in s.block_page_owners[v][q]}
  BY DEF OwnedBefore
<1> HIDE DEF M
<1>3. MigratedEntry(s, v, 0, l) = s.lba_table[l]
  <2>1. O(0) = {}
    BY <1>1, <1>2
  <2> QED
    BY <2>1 DEF MigratedEntry
<1>4. MigratedEntry(s, v, pages_per_block, l) = Repoint(s, v, l)
  <2>1. O(pages_per_block) = {p \in M : l \in s.block_page_owners[v][p]}
    BY <1>1, <1>2
  <2> QED
    BY <2>1 DEF MigratedEntry, Repoint, M
<1>5. ASSUME NEW p \in Pages
      PROVE  MigratedEntry(s, v, p + 1, l)
               = IF p \in M /\ l \in s.block_page_owners[v][p]
                 THEN MovedTo(s.lba_table[l], s.reserve_block_idx, Dest(s.flash, v, p))
                 ELSE MigratedEntry(s, v, p, l)
  <2>1. CASE p \in M /\ l \in s.block_page_owners[v][p]
    <3>1. O(p + 1) = O(p) \cup {p}
      BY <1>1, <1>2, <2>1
    <3>2. p \in O(p + 1) /\ \A q \in O(p + 1) : q \in Pages /\ p >= q
      BY <1>1, <1>2, <3>1
    <3>3. \A q \in O(p + 1) : q >= p => q = p
      <4>1. \A q \in Pages : p >= q /\ q >= p => q = p
        BY GeometryAssumption DEF Pages
      <4> QED
        BY <3>2, <4>1
    <3>4. Max(O(p + 1)) = p
      BY <3>2, <3>3 DEF Max
    <3> QED
      BY <2>1, <3>1, <3>4 DEF MigratedEntry
  <2>2. CASE ~(p \in M /\ l \in s.block_page_owners[v][p])
    <3>1. \A q \in M : q < p + 1 /\ l \in s.block_page_owners[v][q]
                         <=> q < p /\ l \in s.block_page_owners[v][q]
      BY <1>1, <2>2
    <3>2. O(p + 1) = O(p)
      BY <1>2, <3>1
    <3> QED
      BY <2>2, <3>2 DEF MigratedEntry
  <2> QED
    BY <2>1, <2>2
<1>6. \A p : /\ MigratedEntry(s, v, p, l).state = s.lba_table[l].state
             /\ MigratedEntry(s, v, p, l).sub_slot = s.lba_table[l].sub_slot
             /\ MigratedEntry(s, v, p, l).compressed_size = s.lba_table[l].compressed_size
  BY DEF MigratedEntry, MovedTo
<1> QED
  BY <1>3, <1>4, <1>5, <1>6 DEF M

(* The owner lists before the first page and after the last,               *)
LEMMA OwnerEnds ==
  ASSUME NEW s \in Controller, NEW v \in Blocks, v # s.reserve_block_idx
  PROVE  /\ MigratedOwners(s, v, 0) = s.block_page_owners
         /\ MigratedOwners(s, v, pages_per_block) = MigrateOwners(s, v)
         /\ [MigrateOwners(s, v) EXCEPT ![v] = [w \in Pages |-> {}]] = MigrateOwners(s, v)
<1> DEFINE r == s.reserve_block_idx
           f == s.flash
           own == s.block_page_owners
           O(p) == MigratedOwners(s, v, p)
<1>1. /\ \A x, y \in Pages : x < y + 1 <=> x < y \/ x = y
      /\ \A x \in Pages : ~(x < 0) /\ x < pages_per_block /\ ~(x < x)
  BY GeometryAssumption DEF Pages
<1>2. f \in FlashArray /\ r \in Blocks /\ own \in [Blocks -> [Pages -> SUBSET LBAs]]
  BY DEF Controller
<1>3. \A p : O(p) = [b \in Blocks |-> [w \in Pages |->
                       IF b = v THEN IF w < p THEN {} ELSE own[v][w]
                       ELSE IF b = r /\ w \in Reached(f, v, p) THEN own[v][Source(f, v, w)]
                       ELSE own[b][w]]]
  BY DEF MigratedOwners
<1>4. v # r
  OBVIOUS
<1> HIDE DEF r, f, own, O
<1>5. O(0) = own
  <2>1. \A b \in Blocks, w \in Pages :
          (IF b = v THEN IF w < 0 THEN {} ELSE own[v][w]
           ELSE IF b = r /\ w \in Reached(f, v, 0) THEN own[v][Source(f, v, w)]
           ELSE own[b][w]) = own[b][w]
    BY <1>1, <1>2, ReachedStep
  <2> QED
    BY <1>2, <1>3, <2>1
<1>6. /\ O(pages_per_block) = MigrateOwners(s, v)
      /\ [MigrateOwners(s, v) EXCEPT ![v] = [w \in Pages |-> {}]] = MigrateOwners(s, v)
  <2>1. MigrateOwners(s, v) =
          [b \in Blocks |-> [w \in Pages |->
             IF b = v THEN {}
             ELSE IF b = r /\ w \in Landed(f, v) THEN own[v][Source(f, v, w)]
             ELSE own[b][w]]]
    BY DEF MigrateOwners, r, f, own
  <2>2. O(pages_per_block) = MigrateOwners(s, v)
    <3>1. \A b \in Blocks, w \in Pages :
            (IF b = v THEN IF w < pages_per_block THEN {} ELSE own[v][w]
             ELSE IF b = r /\ w \in Reached(f, v, pages_per_block)
                  THEN own[v][Source(f, v, w)]
             ELSE own[b][w])
            = IF b = v THEN {}
              ELSE IF b = r /\ w \in Landed(f, v) THEN own[v][Source(f, v, w)]
              ELSE own[b][w]
      BY <1>1, <1>2, ReachedStep
    <3> QED
      BY <1>3, <2>1, <3>1
  <2>3. MigrateOwners(s, v)[v] = [w \in Pages |-> {}]
    BY <2>1
  <2> HIDE DEF O
  <2> QED
    BY <2>1, <2>2, <2>3
<1> QED
  BY <1>5, <1>6 DEF r, f, own, O

(* and across page p.                                                      *)
OwnersMoved(owners, r, w, o, v, p) == [owners EXCEPT ![r][w] = o, ![v][p] = {}]

LEMMA OwnerStep ==
  ASSUME NEW s \in Controller, NEW v \in Blocks, v # s.reserve_block_idx, NEW p \in Pages
  PROVE  /\ MigratedOwners(s, v, p)[v][p] = s.block_page_owners[v][p]
         /\ p \notin Moved(s.flash, v) =>
              MigratedOwners(s, v, p + 1) = [MigratedOwners(s, v, p) EXCEPT ![v][p] = {}]
         /\ p \in Moved(s.flash, v) =>
              MigratedOwners(s, v, p + 1) =
                OwnersMoved(MigratedOwners(s, v, p), s.reserve_block_idx, Dest(s.flash, v, p),
                            s.block_page_owners[v][p], v, p)
<1> DEFINE r == s.reserve_block_idx
           f == s.flash
           own == s.block_page_owners
           O(q) == MigratedOwners(s, v, q)
<1>1. /\ \A x, y \in Pages : x < y + 1 <=> x < y \/ x = y
      /\ \A x \in Pages : ~(x < 0) /\ x < pages_per_block /\ ~(x < x)
  BY GeometryAssumption DEF Pages
<1>2. f \in FlashArray /\ r \in Blocks /\ own \in [Blocks -> [Pages -> SUBSET LBAs]]
  BY DEF Controller
<1>3. \A q : O(q) = [b \in Blocks |-> [w \in Pages |->
                       IF b = v THEN IF w < q THEN {} ELSE own[v][w]
                       ELSE IF b = r /\ w \in Reached(f, v, q) THEN own[v][Source(f, v, w)]
                       ELSE own[b][w]]]
  BY DEF MigratedOwners
<1>4. v # r
  OBVIOUS
<1> HIDE DEF r, f, own, O
<1>5. O(p)[v][p] = own[v][p]
  BY <1>1, <1>3
<1>6. ASSUME p \notin Moved(f, v) PROVE O(p + 1) = [O(p) EXCEPT ![v][p] = {}]
  <2>1. Reached(f, v, p + 1) = Reached(f, v, p)
    BY <1>2, <1>6, ReachedStep
  <2>2. \A b \in Blocks, w \in Pages :
          O(p + 1)[b][w] = IF b = v /\ w = p THEN {} ELSE O(p)[b][w]
    BY <1>1, <1>3, <2>1
  <2>3. /\ O(p + 1) = [b \in Blocks |-> [w \in Pages |-> O(p + 1)[b][w]]]
        /\ O(p) = [b \in Blocks |-> [w \in Pages |-> O(p)[b][w]]]
    BY <1>3
  <2> DEFINE E == [O(p) EXCEPT ![v][p] = {}]
  <2>4. E = [b \in Blocks |-> [w \in Pages |-> IF b = v /\ w = p THEN {} ELSE O(p)[b][w]]]
    BY <1>2, <2>3
  <2> HIDE DEF E
  <2>5. O(p + 1) = E
    BY <2>2, <2>3, <2>4
  <2> QED
    BY <2>5 DEF E
<1>7. ASSUME p \in Moved(f, v)
      PROVE  O(p + 1) = [O(p) EXCEPT ![r][Dest(f, v, p)] = own[v][p], ![v][p] = {}]
  <2> DEFINE d == Dest(f, v, p)
  <2>1. /\ Reached(f, v, p + 1) = Reached(f, v, p) \cup {d}
        /\ Source(f, v, d) = p /\ d \in Pages
    BY <1>2, <1>7, ReachedStep
  <2> HIDE DEF d
  <2>2. \A b \in Blocks, w \in Pages :
          O(p + 1)[b][w] = IF b = v /\ w = p THEN {}
                           ELSE IF b = r /\ w = d THEN own[v][p] ELSE O(p)[b][w]
    BY <1>1, <1>3, <1>4, <2>1
  <2>3. /\ O(p + 1) = [b \in Blocks |-> [w \in Pages |-> O(p + 1)[b][w]]]
        /\ O(p) = [b \in Blocks |-> [w \in Pages |-> O(p)[b][w]]]
    BY <1>3
  <2> DEFINE E == [O(p) EXCEPT ![r][d] = own[v][p], ![v][p] = {}]
  <2>4. E = [b \in Blocks |-> [w \in Pages |-> IF b = v /\ w = p THEN {}
                           ELSE IF b = r /\ w = d THEN own[v][p] ELSE O(p)[b][w]]]
    BY <1>2, <1>4, <2>1, <2>3
  <2> HIDE DEF E
  <2>5. O(p + 1) = E
    BY <2>2, <2>3, <2>4
  <2> QED
    BY <2>5 DEF E, d
<1> QED
  BY <1>5, <1>6, <1>7 DEF r, f, own, O, OwnersMoved

(* An LBA whose block is on a treated page of the victim is mapped to      *)
(* where the page went, every other entry is as it was.                    *)
LEMMA MigratedEntryValue ==
  ASSUME NEW s, Sound(s), NEW X, NEW h, Owned(s, X), Stored(s, X, h),
         NEW v \in Blocks, NEW p, NEW m \in LBAs
  PROVE  LET e == s.lba_table[m]
         IN  IF m \notin X /\ e.state \in OnFlash /\ e.block_idx = v /\ e.page_idx < p
             THEN /\ e.page_idx \in Moved(s.flash, v)
                  /\ MigratedEntry(s, v, p, m) = MovedTo(e, s.reserve_block_idx,
                                                         Dest(s.flash, v, e.page_idx))
             ELSE MigratedEntry(s, v, p, m) = e
<1> DEFINE e == s.lba_table[m]
           M == OwnedBefore(s, v, p, m)
<1>1. e \in MappingEntry /\ e.page_idx \in Pages /\ e.page_idx \in Nat
  BY GeometryAssumption DEF Sound, Controller, MappingEntry, Pages
<1>2. M = {q \in Pages : /\ s.flash.page_valid[v][q] /\ m \notin X /\ MappedTo(s, m, v, q)
                         /\ q < p}
  BY DEF Owned, Moved, OwnedBefore
<1>3. CASE m \notin X /\ e.state \in OnFlash /\ e.block_idx = v /\ e.page_idx < p
  <2>1. s.flash.page_valid[v][e.page_idx]
    BY <1>3 DEF Stored
  <2>2. M = {e.page_idx} /\ e.page_idx \in Moved(s.flash, v)
    BY <1>1, <1>2, <1>3, <2>1 DEF MappedTo, Moved
  <2>3. Max({e.page_idx}) = e.page_idx
    BY <1>1 DEF Max
  <2>4. MigratedEntry(s, v, p, m)
          = MovedTo(e, s.reserve_block_idx, Dest(s.flash, v, Max(M)))
    BY <2>2 DEF MigratedEntry
  <2> QED
    BY <1>3, <2>2, <2>3, <2>4
<1>4. CASE ~(m \notin X /\ e.state \in OnFlash /\ e.block_idx = v /\ e.page_idx < p)
  <2>1. M = {}
    BY <1>2, <1>4 DEF MappedTo
  <2>2. MigratedEntry(s, v, p, m) = e
    BY <2>1 DEF MigratedEntry
  <2> QED
    BY <1>4, <2>2
<1> QED
  BY <1>3, <1>4

(* Midway through a migration every LBA is found through its entry, be its *)
(* page copied already and its entry the old one.                          *)
LEMMA MigrationServes ==
  ASSUME NEW s, Sound(s), NEW X, NEW h, Good(s, X, h),
         s.rotations < total_blocks - 1, ~NoneInvalid(s),
         NEW p \in 0 .. pages_per_block, NEW q \in {p, p + 1}, NEW m \in LBAs, m \notin X
  PROVE  LET v == Victim(s)
             g == MigratedFlash(s.flash, v, s.reserve_block_idx, q)
             k == MigratedEntry(s, v, p, m)
         IN  /\ IF k.state \in OnFlash
                THEN /\ g.page_valid[k.block_idx][k.page_idx]
                     /\ Holds(g.data[k.block_idx][k.page_idx], k, h[m])
                ELSE h[m] = Zero
             /\ p \in Moved(s.flash, v) /\ m \in s.block_page_owners[v][p]
                  => k = s.lba_table[m] /\ k.block_idx = v /\ k.page_idx = p
<1> DEFINE v == Victim(s)
           r == s.reserve_block_idx
           f == s.flash
           g == MigratedFlash(f, v, r, q)
           e == s.lba_table[m]
           k == MigratedEntry(s, v, p, m)
<1>1. /\ f \in FlashArray /\ CountsExact(f) /\ r \in Blocks
      /\ e \in MappingEntry /\ e.block_idx \in Blocks /\ e.page_idx \in Pages
      /\ s.rotations \in Nat
  BY GeometryAssumption DEF Sound, Controller, MappingEntry
<1>2. v \in Blocks /\ v # r /\ v <= s.rotations
  BY VictimOK, VictimUsed DEF Good
<1> HIDE DEF v
<1>3. /\ r = s.rotations + 1
      /\ \A b \in Blocks, w \in Pages : b > s.rotations => ~f.is_programmed[b][w]
  BY DEF Good, Untouched
<1>4. \A w \in Pages : ~f.is_programmed[r][w] /\ ~f.page_valid[r][w]
  BY <1>1, <1>3 DEF CountsExact
<1>5. Owned(s, X) /\ Stored(s, X, h)
  BY DEF Good
<1>6. IF e.state \in OnFlash
      THEN f.page_valid[e.block_idx][e.page_idx] /\ Holds(f.data[e.block_idx][e.page_idx], e, h[m])
      ELSE h[m] = Zero
  BY <1>5 DEF Stored
<1>7. p \in Moved(f, v) /\ m \in s.block_page_owners[v][p]
        => k = e /\ k.block_idx = v /\ k.page_idx = p
  <2>1. SUFFICES ASSUME p \in Moved(f, v), m \in s.block_page_owners[v][p]
                 PROVE  k = e /\ k.block_idx = v /\ k.page_idx = p
    OBVIOUS
  <2>2. MappedTo(s, m, v, p)
    BY <1>2, <1>5, <2>1 DEF Owned, Moved
  <2>3. ~(e.page_idx < p)
    BY <2>2 DEF MappedTo
  <2>4. k = e
    BY <1>2, <1>5, <2>3, MigratedEntryValue
  <2> QED
    BY <2>2, <2>4 DEF MappedTo
<1>8. CASE e.state \in OnFlash /\ e.block_idx = v /\ e.page_idx < p
  <2> DEFINE w == Dest(f, v, e.page_idx)
  <2>1. e.page_idx \in Moved(f, v) /\ k = MovedTo(e, r, w)
    BY <1>2, <1>5, <1>8, MigratedEntryValue
  <2>2. /\ k.state = e.state /\ k.block_idx = r /\ k.page_idx = w
        /\ k.sub_slot = e.sub_slot /\ k.compressed_size = e.compressed_size
    BY <2>1 DEF MovedTo
  <2>3. w \in Landed(f, v) /\ w \in Pages /\ Source(f, v, w) = e.page_idx
    BY <1>1, <1>2, <2>1, SourceOfDest
  <2> HIDE DEF w, g, k
  <2>4. e.page_idx < q
    BY <1>1, <1>8, GeometryAssumption DEF Pages
  <2>5. Copied(f, v, r, q, r, w)
    BY <1>4, <2>3, <2>4 DEF Copied, Reached
  <2>6. g.page_valid[r][w] /\ g.data[r][w] = ReadPage(f, v, e.page_idx)
    BY <1>1, <1>2, <2>3, <2>5, MigratedPages DEF g
  <2>7. ReadPage(f, v, e.page_idx) = f.data[v][e.page_idx]
    BY <1>1, <1>2, <1>6, <1>8 DEF CountsExact, ReadPage
  <2>8. Holds(g.data[r][w], k, h[m])
    BY <1>6, <1>8, <2>2, <2>6, <2>7, HoldsFields
  <2> QED
    BY <1>7, <1>8, <2>2, <2>6, <2>8 DEF g, k, v
<1>9. CASE ~(e.state \in OnFlash /\ e.block_idx = v /\ e.page_idx < p)
  <2>1. k = e
    BY <1>2, <1>5, <1>9, MigratedEntryValue
  <2>2. e.state \in OnFlash =>
          /\ g.page_valid[e.block_idx][e.page_idx]
          /\ g.data[e.block_idx][e.page_idx] = f.data[e.block_idx][e.page_idx]
    <3>1. e.state \in OnFlash => e.block_idx # r
      BY <1>1, <1>4, <1>6
    <3>2. e.block_idx # r =>
            /\ g.page_valid[e.block_idx][e.page_idx] = f.page_valid[e.block_idx][e.page_idx]
            /\ g.data[e.block_idx][e.page_idx] = f.data[e.block_idx][e.page_idx]
      <4> HIDE DEF e
      <4> QED
        BY <1>1, <1>2, MigratedPages
    <3> HIDE DEF e, g
    <3> QED
      BY <1>6, <3>1, <3>2
  <2> HIDE DEF g, k
  <2> QED
    BY <1>6, <1>7, <2>1, <2>2 DEF g, k, v
<1> QED
  BY <1>8, <1>9

-----------------------------------------------------------------------------
(* Between flushes the committed controller is the controller.             *)
LEMMA BetweenFlushes ==
  ASSUME BenchInv, ~Flushing
  PROVE  Committed = ftl /\ Inv
BY DEF BenchInv, Committed, Consistent, Inv, FirstLapInv, FirstLap

(* Where the runner is while the collection moves pages.                   *)
MigrationPCs == {"migrate", "block_idx", "page_idx"}

(* While pages are moved: what is committed, and the victim.               *)
LEMMA MigrationFacts ==
  ASSUME BenchInv, Migrating
  PROVE  LET s == runner.before
             v == runner.victim
             p == runner.page
         IN  /\ Committed = s /\ Sound(s) /\ Consistent(s) /\ s.staged_half.has_value
             /\ MigrationStage(s, v, p)
             /\ s \in Controller /\ s.flash \in FlashArray /\ ~NoneInvalid(s)
             /\ v = Victim(s) /\ v \in Blocks /\ s.reserve_block_idx \in Blocks
             /\ v # s.reserve_block_idx /\ p \in 0 .. pages_per_block
             /\ ftl.staged_half = s.staged_half /\ StagedLBA(ftl) = StagedLBA(s)
             /\ ftl.reserve_block_idx = s.reserve_block_idx /\ ftl.rotations = Rotated(s)
             /\ ftl.block_page_owners = MigratedOwners(s, v, p)
             /\ FirstLap => /\ s.rotations < total_blocks - 1
                            /\ Good(s, collateral \cup StagedLBA(s), host)
                            /\ StagedRight(s, collateral, host)
<1> DEFINE s == runner.before
           v == runner.victim
           p == runner.page
<1>1. Flushing /\ Committed = s
  BY DEF Flushing, Committed
<1>2. /\ Sound(s) /\ Consistent(s) /\ s.staged_half.has_value /\ MigrationStage(s, v, p)
  BY <1>1 DEF BenchInv, FlushStage
<1> HIDE DEF s, v, p
<1>3. ~NoneInvalid(s) /\ v = Victim(s) /\ p \in 0 .. pages_per_block
  BY <1>2 DEF MigrationStage, Collects
<1>4. /\ s \in Controller /\ s.flash \in FlashArray /\ s.reserve_block_idx \in Blocks
      /\ v \in Blocks /\ v # s.reserve_block_idx /\ s.rotations \in 0 .. total_blocks
  BY <1>2, <1>3, VictimOK DEF Sound, Controller
<1>5. /\ ftl.staged_half = s.staged_half
      /\ ftl.reserve_block_idx = s.reserve_block_idx /\ ftl.rotations = Rotated(s)
      /\ ftl.block_page_owners = MigratedOwners(s, v, p)
  BY <1>2 DEF MigrationStage, Midway
<1>6. StagedLBA(ftl) = StagedLBA(s)
  BY <1>5 DEF StagedLBA
<1>7. FirstLap => s.rotations < total_blocks - 1 /\ s.rotations < total_blocks
  BY <1>4, <1>5, GeometryAssumption DEF FirstLap, Rotated
<1> QED
  BY <1>1, <1>2, <1>3, <1>4, <1>5, <1>6, <1>7 DEF Consistent, s, v, p

(* The page about to be moved is one of the victim.                        *)
LEMMA MovedPage ==
  ASSUME BenchInv, Migrating, runner.page < pages_per_block
  PROVE  /\ runner.page \in Pages /\ runner.page + 1 \in 0 .. pages_per_block
         /\ PageOwners = runner.before.block_page_owners[runner.victim][runner.page]
<1>1. runner.page \in Pages /\ runner.page + 1 \in 0 .. pages_per_block
  BY MigrationFacts, GeometryAssumption DEF Pages
<1>2. MigratedOwners(runner.before, runner.victim, runner.page)[runner.victim][runner.page]
        = runner.before.block_page_owners[runner.victim][runner.page]
  <2> DEFINE s == runner.before
             v == runner.victim
  <2>1. s \in Controller /\ v \in Blocks /\ v # s.reserve_block_idx
    BY MigrationFacts
  <2> HIDE DEF s, v
  <2> DEFINE p == runner.page
  <2>2. p \in Pages
    BY <1>1
  <2> HIDE DEF p
  <2>3. MigratedOwners(s, v, p)[v][p] = s.block_page_owners[v][p]
    BY <2>1, <2>2, OwnerStep
  <2> QED
    BY <2>3 DEF s, v, p
<1> QED
  BY <1>1, <1>2, MigrationFacts DEF PageOwners

(* An entry half re-pointed differs from the one it had in its place only. *)
LEMMA SettledFields ==
  ASSUME BenchInv, NEW m \in LBAs
  PROVE  /\ ftl.lba_table[m] \in MappingEntry /\ Settled(m) \in MappingEntry
         /\ Settled(m).state = ftl.lba_table[m].state
         /\ Settled(m).sub_slot = ftl.lba_table[m].sub_slot
         /\ Settled(m).compressed_size = ftl.lba_table[m].compressed_size
         /\ runner.pc # "page_idx" => Settled(m) = ftl.lba_table[m]
<1>1. ftl.lba_table[m] \in MappingEntry
  BY DEF BenchInv, Sound, Controller
<1>2. runner.pc = "page_idx" => runner.victim \in Blocks /\ runner.page \in Pages
  <2>1. runner.pc = "page_idx" => runner.page \in Moved(runner.before.flash, runner.victim)
    BY MigrationFacts DEF Migrating, MigrationStage
  <2> QED
    BY <2>1, MigrationFacts DEF Migrating, Moved
<1> QED
  BY <1>1, <1>2 DEF Settled, MovedTo, MappingEntry

(* In the first lap the controller serves what is not collateral, even     *)
(* between the steps of a flush and of the collection in it.               *)
LEMMA ControllerServes ==
  ASSUME BenchInv, FirstLap
  PROVE  /\ StagedRight(ftl, collateral, host)
         /\ \A m \in LBAs \ (collateral \cup StagedLBA(ftl)) :
              LET e == Settled(m)
              IN  IF e.state \in OnFlash
                  THEN /\ ftl.flash.page_valid[e.block_idx][e.page_idx]
                       /\ Holds(ftl.flash.data[e.block_idx][e.page_idx], e, host[m])
                  ELSE host[m] = Zero
<1>1. CASE Flushing /\ ~Migrating
  <2>1. runner.pc \in FlushPCs /\ Committed = runner.before
    BY <1>1 DEF Flushing, FlushPCs, Committed
  <2> DEFINE s == runner.before
             t == Stage(runner.pc, s)
  <2>2. s.staged_half.has_value /\ Sound(s) /\ Consistent(s) /\ ftl = t
    BY <1>1, <2>1 DEF BenchInv, FlushStage
  <2>3. t.staged_half = s.staged_half
    BY <2>1, <2>2, StageSound
  <2>4. t.rotations < total_blocks
    BY <2>2 DEF FirstLap
  <2>5. /\ Stored(t, collateral \cup StagedLBA(s), host)
        /\ StagedRight(t, collateral, host)
    BY <2>1, <2>2, <2>4, StageServes
  <2>6. StagedLBA(t) = StagedLBA(s)
    <3> HIDE DEF t, s
    <3> QED
      BY <2>3 DEF StagedLBA
  <2>7. \A m \in LBAs : Settled(m) = ftl.lba_table[m]
    BY <1>1, SettledFields DEF Migrating
  <2> HIDE DEF t, s
  <2> QED
    BY <2>2, <2>5, <2>6, <2>7 DEF Stored
<1>2. CASE Migrating
  <2> DEFINE s == runner.before
             v == runner.victim
             p == runner.page
             r == s.reserve_block_idx
             q == IF runner.pc = "migrate" THEN p ELSE p + 1
             X == collateral \cup StagedLBA(s)
  <2>1. /\ Sound(s) /\ s \in Controller /\ ~NoneInvalid(s) /\ v = Victim(s) /\ v \in Blocks
        /\ p \in 0 .. pages_per_block /\ v # r
        /\ s.rotations < total_blocks - 1 /\ Good(s, X, host) /\ StagedRight(s, collateral, host)
        /\ ftl.staged_half = s.staged_half /\ StagedLBA(ftl) = StagedLBA(s)
        /\ ftl.block_page_owners = MigratedOwners(s, v, p) /\ MigrationStage(s, v, p)
    BY <1>2, MigrationFacts
  <2>2. StagedRight(ftl, collateral, host)
    <3> HIDE DEF s
    <3> QED
      BY <2>1 DEF StagedRight
  <2>3. ASSUME NEW m \in LBAs, m \notin X
        PROVE  /\ Settled(m) = MigratedEntry(s, v, p, m)
               /\ ftl.flash = MigratedFlash(s.flash, v, r, q)
    <3>1. ftl.flash = MigratedFlash(s.flash, v, r, q)
      BY <2>1 DEF MigrationStage, Midway
    <3>2. CASE runner.pc # "page_idx"
      <4>1. ftl.lba_table[m] = MigratedEntry(s, v, p, m)
        BY <2>1, <3>2 DEF MigrationStage, Midway, MigratedTable
      <4> QED
        BY <3>1, <3>2, <4>1, SettledFields
    <3>3. CASE runner.pc = "page_idx"
      <4> DEFINE k == MigratedEntry(s, v, p, m)
      <4>1. p \in Moved(s.flash, v) /\ p \in Pages
        BY <2>1, <3>3 DEF MigrationStage, Moved
      <4>2. PageOwners = s.block_page_owners[v][p]
        <5>1. runner.page < pages_per_block
          BY <4>1, GeometryAssumption DEF Pages
        <5> QED
          BY <1>2, <5>1, MovedPage
      <4>3. ftl.lba_table[m] = IF m \in PageOwners THEN MovedTo(k, r, k.page_idx) ELSE k
        BY <2>1, <3>3, <4>2 DEF MigrationStage, Midway, BlockSetTable
      <4>4. m \in PageOwners => k = s.lba_table[m] /\ k.block_idx = v /\ k.page_idx = p
        <5>1. p \in {p, p + 1}
          OBVIOUS
        <5> HIDE DEF s, v, p, X, k
        <5> QED
          BY <2>1, <2>3, <4>1, <4>2, <5>1, MigrationServes DEF k
      <4>5. m \in PageOwners => k \in MappingEntry
        BY <2>1, <4>4 DEF Controller
      <4> HIDE DEF k
      <4>6. m \in PageOwners => Settled(m) = k
        <5>1. m \in PageOwners =>
                Settled(m) = [state |-> k.state, block_idx |-> k.block_idx,
                              page_idx |-> k.page_idx, sub_slot |-> k.sub_slot,
                              compressed_size |-> k.compressed_size]
          BY <3>3, <4>3, <4>4 DEF Settled, MovedTo
        <5> QED
          BY <4>5, <5>1 DEF MappingEntry
      <4>7. m \notin PageOwners => Settled(m) = k
        BY <4>3 DEF Settled
      <4> QED
        BY <3>1, <4>6, <4>7 DEF k
    <3> QED
      BY <3>2, <3>3
  <2>4. q \in {p, p + 1}
    OBVIOUS
  <2> HIDE DEF s, v, p, q, X
  <2>5. ASSUME NEW m \in LBAs, m \notin X
        PROVE  LET e == Settled(m)
               IN  IF e.state \in OnFlash
                   THEN /\ ftl.flash.page_valid[e.block_idx][e.page_idx]
                        /\ Holds(ftl.flash.data[e.block_idx][e.page_idx], e, host[m])
                   ELSE host[m] = Zero
    BY <2>1, <2>3, <2>4, <2>5, MigrationServes
  <2> QED
    BY <2>1, <2>2, <2>5 DEF X
<1>3. CASE ~Flushing
  <2>1. Stored(ftl, collateral \cup StagedLBA(ftl), host) /\ StagedRight(ftl, collateral, host)
    BY <1>3, BetweenFlushes DEF Inv, FirstLapInv, Good
  <2>2. \A m \in LBAs : Settled(m) = ftl.lba_table[m]
    BY <1>3, SettledFields DEF Flushing, Migrating
  <2> QED
    BY <2>1, <2>2 DEF Stored
<1> QED
  BY <1>1, <1>2, <1>3

(* A step that takes no valid page away, and no LBA that is not staged     *)
(* from the flash or to another half, leaves the reader right.             *)
LEMMA ReaderKept ==
  ASSUME ReaderRight, reader \in ReaderState, UNCHANGED <<host, collateral, reader>>,
         FirstLap' => FirstLap,
         \A b \in Blocks, p \in Pages :
           ftl.flash.page_valid[b][p] => /\ ftl'.flash.page_valid[b][p]
                                         /\ ftl'.flash.data[b][p] = ftl.flash.data[b][p],
         StagedLBA(ftl') \subseteq StagedLBA(ftl),
         \A m \in LBAs \ StagedLBA(ftl) :
           /\ ftl'.lba_table[m].state = ftl.lba_table[m].state
           /\ ftl'.lba_table[m].sub_slot = ftl.lba_table[m].sub_slot
           /\ ftl'.lba_table[m].compressed_size = ftl.lba_table[m].compressed_size
  PROVE  ReaderRight'
<1>1. reader.lba \in LBAs /\ reader' = reader
  BY DEF ReaderState
<1>2. ASSUME reader.pc = "index" PROVE HalfRead'
  <2>1. HalfRead
    BY <1>2 DEF ReaderRight
  <2>2. reader.lba \notin StagedLBA(ftl) /\ reader.lba \notin StagedLBA(ftl')
    BY <2>1 DEF HalfRead
  <2>3. /\ ~reader.staged.has_value /\ reader.entry \in MappingEntry
        /\ reader.entry.state \in OnFlash
        /\ reader.entry = MovedTo(ftl.lba_table[reader.lba], reader.entry.block_idx,
                                  reader.entry.page_idx)
    BY <2>1 DEF HalfRead
  <2>4. reader.entry = MovedTo(ftl'.lba_table[reader.lba], reader.entry.block_idx,
                               reader.entry.page_idx)
    BY <1>1, <2>2, <2>3 DEF MovedTo
  <2>5. StagedLBA(ftl') = StagedLBA(ftl)'
    BY DEF StagedLBA
  <2> QED
    BY <1>1, <2>2, <2>3, <2>4, <2>5 DEF HalfRead
<1>3. ASSUME reader.pc = "fetch", ~reader.overtaken, FirstLap', reader.lba \notin collateral
      PROVE  Found(reader)'
  <2>1. Found(reader)
    BY <1>3 DEF ReaderRight
  <2>2. reader.entry \in MappingEntry =>
          reader.entry.block_idx \in Blocks /\ reader.entry.page_idx \in Pages
    BY DEF MappingEntry
  <2> QED
    BY <1>1, <2>1, <2>2 DEF Found
<1> QED
  BY <1>1, <1>2, <1>3 DEF ReaderRight

(* A step that commits nothing leaves what is committed consistent.        *)
LEMMA CommittedKept ==
  ASSUME Sound(Committed), Consistent(Committed), Committed' = Committed,
         UNCHANGED <<host, collateral>>
  PROVE  Sound(Committed)' /\ Consistent(Committed)'
BY DEF Consistent

-----------------------------------------------------------------------------
(* The invariant holds before the first workload.                          *)
LEMMA BenchInitInv ==
  ASSUME BenchInit
  PROVE  BenchInv
<1>1. /\ Inv /\ Sound(ftl) /\ host \in [LBAs -> Data] /\ collateral \in SUBSET LBAs
      /\ ~ftl.staged_half.has_value
  <2>1. Inv
    BY InitGood DEF BenchInit
  <2>2. ~ftl.staged_half.has_value
    BY DEF BenchInit, Init, NothingStaged
  <2> QED
    BY <2>1, <2>2 DEF Inv
<1>2. /\ runner = [pc |-> "start", workload |-> 1, generator |-> <<>>, i |-> 0,
                   victim |-> 0, page |-> 0, to |-> 0, before |-> <<>>]
      /\ tel = NoCounts /\ reader = NotReading
  BY DEF BenchInit
<1>3. Committed = ftl /\ ~Flushing /\ ~Migrating
  BY <1>2 DEF Committed, Flushing, Migrating
<1>4. Consistent(Committed)
  BY <1>1, <1>3 DEF Consistent, Inv, FirstLapInv, FirstLap
<1>5. tel \in Counters /\ runner \in RunnerState
  BY <1>2, GeometryAssumption DEF NoCounts, Counters, RunnerState, Blocks
<1>6. reader \in ReaderState
  BY <1>2, NothingStagedTyped, LbaAssumption DEF NotReading, ReaderState, LBAs
<1>7. FlushStage /\ RunnerRight /\ ReaderRight
  BY <1>1, <1>2, <1>3 DEF FlushStage, RunnerRight, ReaderRight, NotReading
<1>8. CountsRight
  BY <1>1, <1>2, <1>3 DEF CountsRight, NoCounts, Balance, Pending
<1> QED
  BY <1>1, <1>3, <1>4, <1>5, <1>6, <1>7, <1>8 DEF BenchInv

(* RunWorkload up to its loop: the counters start again, with nothing      *)
(* staged.                                                                 *)
LEMMA StartPreserves ==
  ASSUME BenchInv, NEW g \in Generators, StartWorkload(g)
  PROVE  BenchInv'
<1>1. /\ runner.pc = "start" /\ reader.pc = "idle" /\ tel' = NoCounts
      /\ runner' = [runner EXCEPT !.pc = "write", !.generator = g, !.i = 0]
      /\ UNCHANGED <<ftl, host, collateral, reader>> /\ runner \in RunnerState
  BY DEF StartWorkload, Unlocked, ResetTelemetry, BenchInv
<1>2. /\ runner'.pc = "write" /\ runner'.generator = g /\ runner'.i = 0
      /\ runner' \in RunnerState
  BY <1>1 DEF RunnerState
<1>3. /\ ~Flushing /\ ~Flushing' /\ ~Migrating' /\ Committed = ftl /\ Committed' = ftl'
  BY <1>1, <1>2 DEF Flushing, Migrating, Committed
<1>4. Sound(Committed)' /\ Consistent(Committed)' /\ Sound(ftl)'
  BY <1>1, <1>3, CommittedKept DEF BenchInv
<1>5. tel' \in Counters
  BY <1>1 DEF NoCounts, Counters
<1>6. ~ftl.staged_half.has_value
  BY <1>1 DEF BenchInv, RunnerRight
<1>7. RunnerRight'
  <2>1. 0 <= Len(g) /\ 1 .. 0 = {}
    BY WorkloadAssumption
  <2> QED
    BY <1>1, <1>2, <1>6, <2>1 DEF RunnerRight
<1>8. CountsRight'
  BY <1>1, <1>3, <1>6 DEF CountsRight, NoCounts, Balance, Pending
<1>9. FlushStage' /\ ReaderRight'
  BY <1>1, <1>3 DEF FlushStage, ReaderRight
<1> QED
  BY <1>1, <1>2, <1>4, <1>5, <1>7, <1>8, <1>9 DEF BenchInv

(* The block staged after a write is the one just written, or was staged   *)
(* before.                                                                 *)
LEMMA WriteStages ==
  ASSUME NEW l, NEW d, WriteBlock(l, d), ftl'.staged_half.has_value
  PROVE  ftl'.staged_half.lba = l \/ ftl'.staged_half = ftl.staged_half
<1>1. CASE WriteZero(l, d)
  <2>1. ftl'.staged_half = Superseded(ftl, l).staged_half
    BY <1>1 DEF WriteZero, Superseded
  <2> QED
    BY <2>1 DEF Superseded, NothingStaged
<1>2. CASE WriteStaged(l, d)
  BY <1>2 DEF WriteStaged, Superseded
<1>3. CASE WritePaired(l, d)
  BY <1>3 DEF WritePaired, PlacePage, NothingStaged
<1>4. CASE WriteFull(l, d)
  <2> DEFINE u == FlushStagedWrites(Superseded(ftl, l))
  <2>1. ftl'.staged_half = RunGarbageCollectionIfNeeded(u).staged_half
    BY <1>4 DEF WriteFull, PlacePage
  <2>2. ~u.staged_half.has_value
    BY DEF FlushStagedWrites, NothingStaged
  <2> HIDE DEF u
  <2> QED
    BY <2>1, <2>2, CollectionKeepsStaged
<1> QED
  BY <1>1, <1>2, <1>3, <1>4 DEF WriteBlock

(* One turn of the loop: a call of WriteBlock, which no reader sees.       *)
LEMMA WritePreserves ==
  ASSUME BenchInv, WriteNext
  PROVE  BenchInv'
<1> DEFINE l == runner.i
           g == runner.generator
           d == g[l + 1]
<1>1. /\ runner.pc = "write" /\ l < Len(g) /\ reader.pc = "idle"
      /\ WriteBlock(l, d) /\ tel' = CountWrite(l, d)
      /\ runner' = [runner EXCEPT !.i = @ + 1] /\ UNCHANGED reader
      /\ runner \in RunnerState /\ tel \in Counters /\ reader \in ReaderState
  BY DEF WriteNext, Unlocked, BenchInv
<1>2. /\ runner'.pc = "write" /\ runner'.generator = g /\ runner'.i = l + 1
      /\ l \in Nat /\ runner' \in RunnerState
  <2>1. l \in Nat /\ l + 1 \in Nat
    BY <1>1 DEF RunnerState
  <2> QED
    BY <1>1, <2>1 DEF RunnerState
<1>3. /\ ~Flushing /\ ~Flushing' /\ ~Migrating /\ ~Migrating'
      /\ Committed = ftl /\ Committed' = ftl'
  BY <1>1, <1>2 DEF Flushing, Migrating, Committed
<1>4. Inv
  BY <1>3, BetweenFlushes
<1>5. /\ g \in Generators
      /\ \A j \in 1 .. l : host[j - 1] = g[j]
      /\ ftl.staged_half.has_value => ftl.staged_half.lba < l
  BY <1>1 DEF BenchInv, RunnerRight
<1>6. l \in LBAs /\ d \in Data
  <2>1. g \in Seq(Data) /\ Len(g) \in 1 .. num_lbas
    BY <1>5, WorkloadAssumption
  <2>2. l + 1 \in 1 .. Len(g) /\ l \in 0 .. num_lbas - 1
    BY <1>1, <1>2, <2>1, LbaAssumption
  <2> HIDE DEF l, g
  <2> QED
    BY <2>1, <2>2 DEF LBAs
<1>7. Inv' /\ (FirstLap' => FirstLap)
  <2>1. [Next]_vars
    BY <1>1, <1>6 DEF Next
  <2> QED
    BY <1>4, <2>1, StepGood, StepLap DEF Inv
<1>8. Sound(Committed)' /\ Consistent(Committed)' /\ Sound(ftl)'
  BY <1>3, <1>7 DEF Inv, FirstLapInv, FirstLap, Consistent
<1>9. RunnerRight'
  <2>1. host' = [host EXCEPT ![l] = d]
    BY <1>1 DEF WriteBlock, WriteZero, WriteStaged, WritePaired, WriteFull, Recorded
  <2>2. \A j \in 1 .. l + 1 : host'[j - 1] = g[j]
    <3>1. host \in [LBAs -> Data]
      BY <1>4 DEF Inv
    <3>2. SUFFICES ASSUME NEW j \in 1 .. l + 1
                   PROVE  host'[j - 1] = g[j]
      OBVIOUS
    <3>3. CASE j = l + 1
      <4>1. j - 1 = l
        BY <1>2, <3>3
      <4> QED
        BY <1>6, <2>1, <3>1, <3>3, <4>1
    <3>4. CASE j # l + 1
      <4>1. j \in 1 .. l /\ j - 1 # l
        BY <1>2, <3>4
      <4> QED
        BY <1>5, <2>1, <3>1, <4>1
    <3> QED
      BY <3>3, <3>4
  <2>3. l + 1 <= Len(g)
    <3>1. Len(g) \in Int
      BY <1>5, WorkloadAssumption
    <3> QED
      BY <1>1, <1>2, <3>1
  <2>4. ftl'.staged_half.has_value => ftl'.staged_half.lba < l + 1
    <3>1. ftl.staged_half.lba \in Int
      BY <1>4 DEF Inv, Sound, Controller, StagedHalfPage, LBAs
    <3> HIDE DEF l, d, g
    <3> QED
      BY <1>1, <1>2, <1>5, <3>1, WriteStages
  <2> QED
    BY <1>2, <1>5, <2>2, <2>3, <2>4 DEF RunnerRight
<1>10. tel' \in Counters /\ CountsRight'
  <2>1. ~(ftl.staged_half.has_value /\ ftl.staged_half.lba = l)
    <3>1. ftl.staged_half.lba \in Int
      BY <1>4 DEF Inv, Sound, Controller, StagedHalfPage, LBAs
    <3> QED
      BY <1>2, <1>5, <3>1
  <2>2. /\ Counted(tel, tel')
        /\ FirstLap' => Balance(tel') + Staged(ftl') = Balance(tel) + Staged(ftl)
    <3> HIDE DEF l, d, g
    <3> QED
      BY <1>1, <1>4, <1>6, <2>1, WriteCounted
  <2>3. Pending = Staged(ftl) /\ Pending' = Staged(ftl')
    BY <1>1, <1>2 DEF Pending, Staged
  <2>4. tel.total_blocks_erased = tel.gc_count /\ (FirstLap => Balance(tel) + Pending = 0)
    BY <1>1, <1>3 DEF BenchInv, CountsRight, Counters
  <2>5. tel'.total_blocks_erased = tel'.gc_count /\ tel' \in Counters
    BY <2>2, <2>4 DEF Counted
  <2>6. tel'.total_blocks_erased + 0 = tel'.gc_count
    BY <2>5 DEF Counters
  <2> QED
    BY <1>3, <1>7, <2>2, <2>3, <2>4, <2>5, <2>6 DEF CountsRight
<1>11. FlushStage' /\ ReaderRight'
  BY <1>1, <1>3 DEF FlushStage, ReaderRight
<1>12. host' \in [LBAs -> Data] /\ collateral' \in SUBSET LBAs /\ reader' \in ReaderState
  BY <1>1, <1>7 DEF Inv
<1> QED
  BY <1>2, <1>8, <1>9, <1>10, <1>11, <1>12 DEF BenchInv

(* The report and the next workload.                                       *)
LEMMA ReportPreserves ==
  ASSUME BenchInv, Report
  PROVE  BenchInv'
<1> DEFINE to == IF runner.workload + 1 > num_workloads THEN "done" ELSE "start"
<1>1. /\ runner.pc = "report" /\ reader.pc = "idle"
      /\ runner' = [runner EXCEPT !.workload = @ + 1, !.pc = to]
      /\ UNCHANGED <<ftl, host, collateral, tel, reader>> /\ runner \in RunnerState
  BY DEF Report, Unlocked, BenchInv
<1>2. runner'.pc = to /\ to \in {"start", "done"}
  BY <1>1 DEF RunnerState
<1>3. runner' \in RunnerState
  <2>1. runner.workload + 1 \in Nat
    BY <1>1 DEF RunnerState
  <2> HIDE DEF to
  <2> QED
    BY <1>1, <1>2, <2>1 DEF RunnerState
<1> HIDE DEF to
<1>4. /\ ~Flushing /\ ~Flushing' /\ ~Migrating /\ ~Migrating'
      /\ Committed = ftl /\ Committed' = ftl'
  BY <1>1, <1>2 DEF Flushing, Migrating, Committed
<1>5. Sound(Committed)' /\ Consistent(Committed)' /\ Sound(ftl)'
  BY <1>1, <1>4, CommittedKept DEF BenchInv
<1>6. ~ftl.staged_half.has_value
  BY <1>1 DEF BenchInv, RunnerRight
<1>7. RunnerRight'
  BY <1>1, <1>2, <1>6 DEF RunnerRight
<1>8. CountsRight'
  BY <1>1, <1>4, <1>6 DEF CountsRight, Balance, Pending, BenchInv, FirstLap
<1>9. FlushStage' /\ ReaderRight'
  BY <1>1, <1>4 DEF FlushStage, ReaderRight
<1> QED
  BY <1>1, <1>3, <1>5, <1>7, <1>8, <1>9 DEF BenchInv

-----------------------------------------------------------------------------
(* A step of the reader that changes no more than a counter leaves all but *)
(* the reader as it was.                                                   *)
LEMMA ReaderMoves ==
  ASSUME BenchInv, UNCHANGED <<ftl, host, collateral, runner>>, tel' \in Counters,
         Balance(tel') = Balance(tel), tel'.gc_count = tel.gc_count,
         tel'.total_blocks_erased = tel.total_blocks_erased,
         reader' \in ReaderState, ReaderRight'
  PROVE  BenchInv'
<1>1. Committed' = Committed /\ Flushing' = Flushing /\ Migrating' = Migrating
  BY DEF Committed, Flushing, Migrating
<1>2. Sound(Committed)' /\ Consistent(Committed)' /\ Sound(ftl)'
  BY <1>1, CommittedKept DEF BenchInv
<1>3. FlushStage' /\ RunnerRight'
  BY <1>1 DEF BenchInv, FlushStage, MigrationStage, RunnerRight
<1>4. CountsRight'
  BY <1>1 DEF BenchInv, CountsRight, Pending, FirstLap
<1> QED
  BY <1>2, <1>3, <1>4 DEF BenchInv

(* The reader finds the LBA staged, or not on flash, or begins to read its *)
(* indices, at whatever stage of the flush.                                *)
LEMMA LookupPreserves ==
  ASSUME BenchInv, NEW l \in LBAs, Lookup(l)
  PROVE  BenchInv'
<1> DEFINE k == IF ftl.staged_half.has_value /\ ftl.staged_half.lba = l
                THEN ftl.staged_half ELSE NothingStaged
           e == ftl.lba_table[l]
           indexed == ~k.has_value /\ e.state \in OnFlash
           unread == IF indexed THEN {"block_idx", "page_idx"} ELSE {}
<1>1. /\ tel' = [tel EXCEPT !.host_reads = @ + 1]
      /\ reader' = [pc |-> IF indexed THEN "index" ELSE "fetch", lba |-> l, entry |-> e,
                    staged |-> k, overtaken |-> FALSE, unread |-> unread]
      /\ UNCHANGED <<ftl, host, collateral, runner>>
      /\ tel \in Counters
  BY DEF Lookup, BenchInv
<1>2. e \in MappingEntry /\ k \in StagedHalfPage
  BY NothingStagedTyped DEF BenchInv, Sound, Controller
<1>3. reader' \in ReaderState
  <2>1. unread \in SUBSET {"block_idx", "page_idx"}
    OBVIOUS
  <2> HIDE DEF k, e, unread
  <2> QED
    BY <1>1, <1>2, <2>1 DEF ReaderState
<1>4. tel' \in Counters /\ Balance(tel') = Balance(tel)
      /\ tel'.total_blocks_erased = tel.total_blocks_erased /\ tel'.gc_count = tel.gc_count
  BY <1>1 DEF Counters, Balance
<1>5. /\ reader'.lba = l /\ reader'.staged = k /\ reader'.entry = e
      /\ reader'.pc = IF indexed THEN "index" ELSE "fetch"
      /\ ftl' = ftl /\ host' = host /\ collateral' = collateral
  BY <1>1
<1>6. ReaderRight'
  <2>1. CASE indexed
    <3>1. l \notin StagedLBA(ftl)
      <4>1. CASE ftl.staged_half.has_value /\ ftl.staged_half.lba = l
        BY <2>1, <4>1
      <4>2. CASE ~(ftl.staged_half.has_value /\ ftl.staged_half.lba = l)
        BY <4>2 DEF StagedLBA
      <4> QED
        BY <4>1, <4>2
    <3>2. e = MovedTo(e, e.block_idx, e.page_idx)
      BY <1>2 DEF MappingEntry, MovedTo
    <3>3. ~k.has_value /\ e.state \in OnFlash /\ reader'.pc = "index"
      BY <1>5, <2>1
    <3>4. /\ reader'.lba = l /\ reader'.staged = k /\ reader'.entry = e
          /\ ftl' = ftl /\ ftl'.lba_table[l] = e
      BY <1>5
    <3> HIDE DEF k, e, indexed
    <3>5. HalfRead'
      BY <1>2, <3>1, <3>2, <3>3, <3>4 DEF HalfRead, StagedLBA
    <3> QED
      BY <3>3, <3>5 DEF ReaderRight
  <2>2. CASE ~indexed
    <3>1. SUFFICES ASSUME FirstLap, l \notin collateral
                   PROVE  Found(reader)'
      BY <1>5, <2>2 DEF ReaderRight, FirstLap
    <3>2. CASE ftl.staged_half.has_value /\ ftl.staged_half.lba = l
      <4>1. StagedRight(ftl, collateral, host)
        BY <3>1, ControllerServes
      <4>2. /\ k.has_value /\ k.lba = l /\ k.data = LZ4(host[l])
            /\ k.comp_size = LZ4Size[host[l]] /\ LZ4Size[host[l]] > 0
        BY <3>2, <4>1 DEF StagedRight, StagedLBA
      <4> HIDE DEF k, e, indexed
      <4> QED
        BY <1>5, <4>2 DEF Found
    <3>3. CASE ~(ftl.staged_half.has_value /\ ftl.staged_half.lba = l)
      <4>1. ~k.has_value /\ e.state \notin OnFlash
        BY <2>2, <3>3 DEF NothingStaged
      <4>2. host[l] = Zero
        <5>1. l \in LBAs \ (collateral \cup StagedLBA(ftl))
          BY <3>1, <3>3 DEF StagedLBA
        <5>2. Settled(l).state \notin OnFlash
          BY <4>1, SettledFields
        <5> QED
          BY <3>1, <5>1, <5>2, ControllerServes
      <4> HIDE DEF k, e, indexed
      <4> QED
        BY <1>2, <1>5, <4>1, <4>2 DEF Found
    <3> QED
      BY <3>2, <3>3
  <2> QED
    BY <2>1, <2>2
<1> QED
  BY <1>1, <1>3, <1>4, <1>6, ReaderMoves

(* It reads an index: with both it has the entry or, for once, what was    *)
(* never one.                                                              *)
LEMMA IndexPreserves ==
  ASSUME BenchInv, ReadBlockIdx \/ ReadPageIdx
  PROVE  BenchInv'
<1> DEFINE l == reader.lba
           t == ftl.lba_table[l]
<1>1. /\ reader.pc = "index" /\ UNCHANGED <<ftl, host, collateral, tel, runner>>
      /\ reader \in ReaderState /\ tel \in Counters /\ l \in LBAs
  BY DEF ReadBlockIdx, ReadPageIdx, ReadIndex, BenchInv, ReaderState
<1>2. /\ ~reader.staged.has_value /\ l \notin StagedLBA(ftl)
      /\ reader.entry \in MappingEntry /\ reader.entry.state \in OnFlash
      /\ reader.entry = MovedTo(t, reader.entry.block_idx, reader.entry.page_idx)
  BY <1>1 DEF BenchInv, ReaderRight, HalfRead
<1>3. t \in MappingEntry
  BY <1>1, SettledFields
<1>4. PICK index \in {"block_idx", "page_idx"}, entry \in MappingEntry :
        /\ ReadIndex(index, entry)
        /\ entry.state \in OnFlash /\ entry = MovedTo(t, entry.block_idx, entry.page_idx)
  <2> HIDE DEF t, l
  <2>1. CASE ReadBlockIdx
    <3> DEFINE e == MovedTo(reader.entry, t.block_idx, reader.entry.page_idx)
    <3>1. /\ e \in MappingEntry /\ e.state \in OnFlash
          /\ e = MovedTo(t, e.block_idx, e.page_idx)
      BY <1>2, <1>3 DEF MovedTo, MappingEntry
    <3>2. ReadIndex("block_idx", e)
      BY <2>1 DEF ReadBlockIdx, t, l
    <3> QED
      BY <3>1, <3>2
  <2>2. CASE ReadPageIdx
    <3> DEFINE e == MovedTo(reader.entry, reader.entry.block_idx, t.page_idx)
    <3>1. /\ e \in MappingEntry /\ e.state \in OnFlash
          /\ e = MovedTo(t, e.block_idx, e.page_idx)
      BY <1>2, <1>3 DEF MovedTo, MappingEntry
    <3>2. ReadIndex("page_idx", e)
      BY <2>2 DEF ReadPageIdx, t, l
    <3> QED
      BY <3>1, <3>2
  <2> QED
    BY <2>1, <2>2
<1> DEFINE last == reader.unread = {index}
<1>5. reader' = [reader EXCEPT !.entry = entry, !.unread = @ \ {index},
                   !.pc = IF last THEN "fetch" ELSE "index",
                   !.overtaken = last /\ entry # Settled(l)]
  BY <1>4 DEF ReadIndex
<1>6. /\ reader'.pc = IF last THEN "fetch" ELSE "index"
      /\ reader'.entry = entry /\ reader'.lba = l /\ reader'.staged = reader.staged
      /\ last /\ ~reader'.overtaken => entry = Settled(l)
      /\ reader' \in ReaderState
  BY <1>1, <1>5 DEF ReaderState
<1>7. ReaderRight'
  <2>1. CASE ~last
    <3>1. HalfRead'
      BY <1>1, <1>2, <1>4, <1>6 DEF HalfRead, StagedLBA
    <3> QED
      BY <1>6, <2>1, <3>1 DEF ReaderRight
  <2>2. CASE last
    <3>1. SUFFICES ASSUME ~reader'.overtaken, FirstLap, l \notin collateral
                   PROVE  Found(reader)'
      BY <1>1, <1>6, <2>2 DEF ReaderRight, FirstLap
    <3>2. entry = Settled(l) /\ l \in LBAs \ (collateral \cup StagedLBA(ftl))
      BY <1>1, <1>2, <1>6, <2>2, <3>1
    <3>3. /\ ftl.flash.page_valid[entry.block_idx][entry.page_idx]
          /\ Holds(ftl.flash.data[entry.block_idx][entry.page_idx], entry, host[l])
      BY <1>4, <3>1, <3>2, ControllerServes
    <3> HIDE DEF l
    <3> QED
      BY <1>1, <1>2, <1>4, <1>6, <3>3 DEF Found
  <2> QED
    BY <2>1, <2>2
<1> QED
  BY <1>1, <1>6, <1>7, ReaderMoves

(* The reader reads the page and is done.                                  *)
LEMMA FetchPreserves ==
  ASSUME BenchInv, FetchPage
  PROVE  BenchInv'
<1>1. /\ reader' = NotReading /\ UNCHANGED <<ftl, host, collateral, tel, runner>>
      /\ tel \in Counters
  BY DEF FetchPage, BenchInv
<1>2. reader' \in ReaderState
  BY <1>1, NothingStagedTyped, LbaAssumption DEF NotReading, ReaderState, LBAs
<1>3. ReaderRight'
  BY <1>1 DEF ReaderRight, NotReading
<1> QED
  BY <1>1, <1>2, <1>3, ReaderMoves

(* A step that changes nothing.                                            *)
LEMMA StutterPreserves ==
  ASSUME BenchInv, UNCHANGED benchVars
  PROVE  BenchInv'
<1>1. UNCHANGED <<ftl, host, collateral, tel, runner, reader>>
  BY DEF benchVars
<1>2. tel \in Counters /\ reader \in ReaderState /\ ReaderRight
  BY DEF BenchInv
<1>3. ReaderRight'
  BY <1>1, <1>2 DEF ReaderRight, HalfRead, Found, FirstLap, StagedLBA
<1> QED
  BY <1>1, <1>2, <1>3, ReaderMoves

-----------------------------------------------------------------------------
(* What the steps of the flush have in common: the runner moves on, and    *)
(* what it has done and what is committed stay.                            *)
LEMMA FlushMoves ==
  ASSUME BenchInv, NEW from \in FlushPCs, NEW to \in FlushPCs, NEW next,
         FlushStep(from, to, next),
         next = Stage(to, runner.before)
  PROVE  /\ runner.before.staged_half.has_value
         /\ Sound(runner.before) /\ Consistent(runner.before)
         /\ ftl = Stage(from, runner.before) /\ Sound(ftl)'
         /\ ftl.staged_half = runner.before.staged_half
         /\ ftl'.staged_half = ftl.staged_half
         /\ runner.pc = from /\ runner'.pc = to /\ ~Migrating /\ ~Migrating'
         /\ runner' \in RunnerState /\ FlushStage' /\ RunnerRight'
         /\ Sound(Committed)' /\ Consistent(Committed)'
         /\ host' \in [LBAs -> Data] /\ collateral' \in SUBSET LBAs
<1> DEFINE s == runner.before
<1>1. /\ runner.pc = from /\ ftl' = next /\ runner' = [runner EXCEPT !.pc = to]
      /\ UNCHANGED <<host, collateral>> /\ runner \in RunnerState
  BY DEF FlushStep, BenchInv
<1>2. /\ runner'.pc = to /\ runner'.before = s /\ runner'.generator = runner.generator
      /\ runner'.i = runner.i /\ runner' \in RunnerState
  BY <1>1 DEF RunnerState, FlushPCs
<1>3. /\ Flushing /\ Flushing' /\ Committed = s /\ Committed' = s
      /\ ~Migrating /\ ~Migrating'
  BY <1>1, <1>2 DEF Flushing, Migrating, FlushPCs, Committed
<1>4. s.staged_half.has_value /\ ftl = Stage(from, s)
  BY <1>1, <1>3 DEF BenchInv, FlushStage
<1>5. Sound(s) /\ Consistent(s)
  BY <1>3 DEF BenchInv
<1>6. /\ ftl.staged_half = s.staged_half /\ ftl'.staged_half = s.staged_half
      /\ Sound(next) /\ ftl' = next
  BY <1>1, <1>4, <1>5, StageSound
<1>7. FlushStage'
  BY <1>1, <1>2, <1>3, <1>4 DEF FlushStage
<1>8. RunnerRight'
  BY <1>1, <1>2 DEF BenchInv, RunnerRight, FlushPCs
<1>9. Sound(Committed)' /\ Consistent(Committed)'
  BY <1>1, <1>3, CommittedKept DEF BenchInv
<1>10. Sound(ftl)'
  BY <1>6
<1> QED
  BY <1>1, <1>2, <1>3, <1>4, <1>5, <1>6, <1>7, <1>8, <1>9, <1>10 DEF BenchInv

(* The test at the head of FlushStagedWrites.                              *)
LEMMA FlushTestPreserves ==
  ASSUME BenchInv, FlushTest
  PROVE  BenchInv'
<1>1. /\ runner.pc = "write" /\ runner.i = Len(runner.generator)
      /\ runner' = IF ftl.staged_half.has_value
                   THEN [runner EXCEPT !.pc = "collect", !.before = ftl]
                   ELSE [runner EXCEPT !.pc = "report"]
      /\ UNCHANGED <<ftl, host, collateral, tel, reader>> /\ runner \in RunnerState
  BY DEF FlushTest, LoopOver, BenchInv
<1>2. ~Flushing /\ ~Migrating /\ Committed = ftl
  BY <1>1 DEF Flushing, Migrating, Committed
<1>3. ftl \in Controller
  BY DEF BenchInv, Sound
<1>4. /\ runner' \in RunnerState
      /\ runner'.generator = runner.generator /\ runner'.i = runner.i
      /\ runner'.pc = IF ftl.staged_half.has_value THEN "collect" ELSE "report"
      /\ ftl.staged_half.has_value => runner'.before = ftl
  <2>1. CASE ftl.staged_half.has_value
    BY <1>1, <1>3, <2>1 DEF RunnerState
  <2>2. CASE ~ftl.staged_half.has_value
    BY <1>1, <2>2 DEF RunnerState
  <2> QED
    BY <2>1, <2>2
<1>5. Committed' = ftl /\ ~Migrating'
  BY <1>1, <1>4 DEF Flushing, Migrating, Committed
<1>6. FlushStage'
  <2>1. Stage("collect", ftl) = ftl
    BY DEF Stage
  <2> QED
    BY <1>1, <1>4, <1>5, <2>1 DEF FlushStage, Flushing
<1>7. RunnerRight'
  BY <1>1, <1>4 DEF BenchInv, RunnerRight
<1>8. Sound(Committed)' /\ Consistent(Committed)' /\ Sound(ftl)'
  BY <1>1, <1>2, <1>5, CommittedKept DEF BenchInv
<1>9. ReaderRight'
  BY <1>1 DEF BenchInv, ReaderRight, HalfRead, Found, FirstLap, StagedLBA
<1>10. CountsRight'
  BY <1>1, <1>2, <1>4, <1>5 DEF BenchInv, CountsRight, Pending, FirstLap
<1> QED
  BY <1>1, <1>4, <1>6, <1>7, <1>8, <1>9, <1>10 DEF BenchInv

(* There is room, or nothing to reclaim: the array and the mapping stay.   *)
LEMMA MakeRoomPreserves ==
  ASSUME BenchInv, FlushMakeRoom
  PROVE  BenchInv'
<1> DEFINE s == runner.before
           g == RunGarbageCollectionIfNeeded(ftl)
<1>1. /\ FlushStep("collect", "program", g) /\ ~Collects(ftl)
      /\ tel' = tel /\ reader' = reader /\ tel \in Counters /\ reader \in ReaderState
  BY DEF FlushMakeRoom, BenchInv
<1>2. ftl = s
  <2>1. Flushing /\ ~Migrating /\ runner.pc = "collect"
    BY <1>1 DEF FlushStep, Flushing, Migrating
  <2> QED
    BY <2>1 DEF BenchInv, FlushStage, Stage
<1>3. g = Stage("program", s)
  BY <1>2 DEF Stage
<1>4. /\ Sound(s) /\ Sound(ftl)'
      /\ ftl'.staged_half = ftl.staged_half
      /\ runner.pc = "collect" /\ runner'.pc = "program" /\ ~Migrating /\ ~Migrating'
      /\ runner' \in RunnerState /\ FlushStage' /\ RunnerRight'
      /\ Sound(Committed)' /\ Consistent(Committed)'
      /\ host' \in [LBAs -> Data] /\ collateral' \in SUBSET LBAs
  <2> HIDE DEF g
  <2> QED
    BY <1>1, <1>3, FlushMoves DEF FlushPCs
<1>5. ftl' = g /\ UNCHANGED <<host, collateral>>
  BY <1>1 DEF FlushStep
<1>6. FirstLap' => FirstLap
  <2> HIDE DEF s
  <2> QED
    BY <1>2, <1>4, <1>5, CollectionGood DEF FirstLap
<1>7. ftl'.flash = ftl.flash /\ ftl'.lba_table = ftl.lba_table
  <2>1. CASE ftl.active_page_idx < pages_per_block
    BY <1>5, <2>1 DEF RunGarbageCollectionIfNeeded
  <2>2. CASE ~(ftl.active_page_idx < pages_per_block)
    <3>1. NoneInvalid(ftl)
      <4>1. ftl.active_page_idx >= pages_per_block
        BY <2>2, GeometryAssumption DEF BenchInv, Sound, Controller
      <4> QED
        BY <1>1, <4>1 DEF Collects
    <3> QED
      BY <1>5, <2>2, <3>1 DEF RunGarbageCollectionIfNeeded, AdvanceToReserve
  <2> QED
    BY <2>1, <2>2
<1>8. StagedLBA(ftl') = StagedLBA(ftl)
  BY <1>4 DEF StagedLBA
<1> HIDE DEF g, s
<1>9. CountsRight'
  <2>1. Pending' = Pending
    BY <1>4 DEF Pending
  <2> QED
    BY <1>1, <1>4, <1>6, <2>1 DEF BenchInv, CountsRight
<1>10. ReaderRight'
  BY <1>1, <1>5, <1>6, <1>7, <1>8, ReaderKept DEF BenchInv
<1> QED
  BY <1>1, <1>4, <1>9, <1>10 DEF BenchInv

-----------------------------------------------------------------------------
(* What the steps of the collection have in common.                        *)
LEMMA MigrationMoves ==
  ASSUME BenchInv, runner.pc \in {"collect"} \cup MigrationPCs,
         runner'.pc \in {"program"} \cup MigrationPCs,
         runner'.before = runner.before, runner'.generator = runner.generator,
         runner'.i = runner.i, UNCHANGED <<host, collateral>>
  PROVE  /\ Committed = runner.before /\ Committed' = runner.before
         /\ RunnerRight' /\ Sound(Committed)' /\ Consistent(Committed)'
         /\ host' \in [LBAs -> Data] /\ collateral' \in SUBSET LBAs
<1>1. Committed = runner.before /\ Committed' = runner.before
  BY DEF Committed, Flushing, Migrating, MigrationPCs
<1>2. RunnerRight'
  BY DEF BenchInv, RunnerRight, MigrationPCs
<1>3. Sound(Committed)' /\ Consistent(Committed)'
  BY <1>1, CommittedKept DEF BenchInv
<1> QED
  BY <1>1, <1>2, <1>3 DEF BenchInv

(* A step of the collection that leaves the array, the staging buffer and  *)
(* the reader alone and, of the mapping, changes indices only.             *)
LEMMA MigrationKeepsReader ==
  ASSUME BenchInv, UNCHANGED <<host, collateral, reader>>,
         FirstLap' => FirstLap, ftl'.flash = ftl.flash, ftl'.staged_half = ftl.staged_half,
         \A m \in LBAs : /\ ftl'.lba_table[m].state = ftl.lba_table[m].state
                         /\ ftl'.lba_table[m].sub_slot = ftl.lba_table[m].sub_slot
                         /\ ftl'.lba_table[m].compressed_size = ftl.lba_table[m].compressed_size
  PROVE  ReaderRight'
<1>1. StagedLBA(ftl') = StagedLBA(ftl)
  BY DEF StagedLBA
<1> QED
  BY <1>1, ReaderKept DEF BenchInv

(* The victim is chosen: nothing is moved yet, but the reserve is in use.  *)
LEMMA ChooseVictimPreserves ==
  ASSUME BenchInv, ChooseVictim
  PROVE  BenchInv'
<1> DEFINE s == runner.before
           v == Victim(s)
           zero == 0
<1>1. /\ runner.pc = "collect" /\ Collects(ftl)
      /\ runner' = [runner EXCEPT !.pc = "migrate", !.victim = Victim(ftl), !.page = zero, !.to = zero]
      /\ ftl' = [ftl EXCEPT !.rotations = Rotated(ftl)]
      /\ tel' = [tel EXCEPT !.gc_count = @ + 1]
      /\ UNCHANGED <<host, collateral, reader>>
      /\ runner \in RunnerState /\ tel \in Counters /\ reader \in ReaderState
  BY DEF ChooseVictim, BenchInv
<1>2. /\ ftl = s /\ Sound(s) /\ s \in Controller /\ ~Migrating
      /\ s.staged_half.has_value
  <2>1. Flushing /\ ~Migrating
    BY <1>1 DEF Flushing, Migrating
  <2> QED
    BY <1>1, <2>1 DEF BenchInv, FlushStage, Stage, Sound
<1>3. Collects(s) /\ v \in Blocks /\ v # s.reserve_block_idx /\ v = Victim(ftl)
  BY <1>1, <1>2, VictimOK DEF Collects
<1>4. zero = 0 /\ zero \in 0 .. pages_per_block
  BY GeometryAssumption
<1> HIDE DEF zero
<1>5. /\ runner'.pc = "migrate" /\ runner'.before = s /\ runner'.victim = v
      /\ runner'.page = zero /\ runner'.to = zero
      /\ runner'.generator = runner.generator /\ runner'.i = runner.i
      /\ runner' \in RunnerState
  BY <1>1, <1>3, <1>4 DEF RunnerState
<1> HIDE DEF v
<1>6. Migrating' /\ Flushing'
  BY <1>5 DEF Migrating, Flushing
<1>7. /\ ftl'.flash = ftl.flash /\ ftl'.staged_half = ftl.staged_half
      /\ ftl'.lba_table = ftl.lba_table /\ ftl'.rotations = Rotated(ftl)
  BY <1>1, <1>2 DEF Controller
<1>8. FlushStage'
  <2> DEFINE r == s.reserve_block_idx
             flash == MigratedFlash(s.flash, v, r, zero)
             table == MigratedTable(s, v, zero)
             owners == MigratedOwners(s, v, zero)
  <2>1. s.flash \in FlashArray /\ r \in Blocks
    BY <1>2 DEF Controller
  <2>2. flash = s.flash
    BY <1>3, <1>4, <2>1, MigratedEnds
  <2>3. owners = s.block_page_owners
    BY <1>2, <1>3, <1>4, OwnerEnds
  <2>4. table = s.lba_table
    <3>1. \A l \in LBAs : MigratedEntry(s, v, zero, l) = s.lba_table[l]
      BY <1>2, <1>3, <1>4, EntrySteps
    <3> QED
      BY <1>2, <3>1 DEF MigratedTable, Controller
  <2>5. Dest(s.flash, v, zero) = zero
    BY <1>3, <1>4, <2>1, DestStep
  <2> HIDE DEF flash, table, owners
  <2>6. ftl' = Midway(s, flash, table, owners)
    BY <1>1, <1>2, <2>2, <2>3, <2>4 DEF Midway, Controller
  <2>7. v = Victim(s)
    BY DEF v
  <2>8. MigrationStage(runner.before, runner.victim, runner.page)'
    <3> HIDE DEF s, r
    <3> QED
      BY <1>3, <1>4, <1>5, <2>5, <2>6, <2>7 DEF MigrationStage, flash, table, owners, r
  <2> QED
    BY <1>2, <1>5, <1>6, <2>8 DEF FlushStage
<1>9. Sound(ftl)'
  <2>1. Rotated(s) \in 0 .. total_blocks
    BY <1>2, RotatedOK
  <2> QED
    BY <1>1, <1>2, <2>1 DEF Sound, Controller
<1>10. FirstLap' => FirstLap
  <2>1. ftl.rotations \in 0 .. total_blocks
    BY <1>2 DEF Controller
  <2> QED
    BY <1>7, <2>1, GeometryAssumption DEF FirstLap, Rotated
<1>11. tel' \in Counters /\ CountsRight'
  <2>1. /\ tel' \in Counters /\ Balance(tel') = Balance(tel)
        /\ tel'.gc_count = tel.gc_count + 1
        /\ tel'.total_blocks_erased = tel.total_blocks_erased
    BY <1>1 DEF Counters, Balance
  <2>2. Pending' = Pending
    BY <1>1, <1>5, <1>7 DEF Pending
  <2>3. tel.total_blocks_erased + 0 = tel.gc_count /\ (FirstLap => Balance(tel) + Pending = 0)
    BY <1>2 DEF BenchInv, CountsRight
  <2>4. tel.total_blocks_erased \in Nat /\ tel.gc_count \in Nat
    BY <1>1 DEF Counters
  <2>5. tel'.total_blocks_erased + 1 = tel'.gc_count
    BY <2>1, <2>3, <2>4
  <2> QED
    BY <1>6, <1>10, <2>1, <2>2, <2>3, <2>5 DEF CountsRight
<1>12. ReaderRight'
  BY <1>1, <1>7, <1>10, MigrationKeepsReader
<1> QED
  BY <1>1, <1>5, <1>8, <1>9, <1>11, <1>12, MigrationMoves DEF BenchInv, MigrationPCs

(* What the steps that treat a page have in common.                        *)
LEMMA PageStep ==
  ASSUME BenchInv, Migrating, runner' \in RunnerState, runner'.pc \in MigrationPCs,
         runner'.before = runner.before, runner'.generator = runner.generator,
         runner'.i = runner.i, MigrationStage(runner.before, runner.victim, runner.page)',
         Sound(ftl)', UNCHANGED <<host, collateral, reader>>,
         \A b \in Blocks, w \in Pages :
           ftl.flash.page_valid[b][w] => /\ ftl'.flash.page_valid[b][w]
                                         /\ ftl'.flash.data[b][w] = ftl.flash.data[b][w],
         \A m \in LBAs : /\ ftl'.lba_table[m].state = ftl.lba_table[m].state
                         /\ ftl'.lba_table[m].sub_slot = ftl.lba_table[m].sub_slot
                         /\ ftl'.lba_table[m].compressed_size = ftl.lba_table[m].compressed_size,
         tel' \in Counters, tel'.gc_count = tel.gc_count,
         tel'.total_blocks_erased = tel.total_blocks_erased,
         FirstLap => Balance(tel') = Balance(tel)
  PROVE  BenchInv'
<1> DEFINE s == runner.before
<1>1. s.staged_half.has_value /\ ftl.staged_half = s.staged_half /\ ftl.rotations = Rotated(s)
  BY MigrationFacts
<1>2. Migrating' /\ Flushing' /\ runner.pc \in MigrationPCs
  BY DEF Migrating, Flushing, MigrationPCs
<1>3. ftl'.staged_half = s.staged_half /\ ftl'.rotations = Rotated(s)
  BY DEF MigrationStage, Midway
<1>4. FlushStage'
  BY <1>1, <1>2 DEF FlushStage
<1>5. FirstLap' = FirstLap /\ StagedLBA(ftl') = StagedLBA(ftl)
  BY <1>1, <1>3 DEF FirstLap, StagedLBA
<1>6. CountsRight'
  <2>1. Pending' = 1 /\ Pending = 1
    BY <1>1, <1>2, <1>3 DEF Pending, MigrationPCs
  <2> QED
    BY <1>2, <1>5, <2>1 DEF BenchInv, CountsRight
<1>7. ReaderRight'
  BY <1>5, ReaderKept DEF BenchInv
<1>8. reader' \in ReaderState
  BY DEF BenchInv
<1> QED
  BY <1>2, <1>4, <1>6, <1>7, <1>8, MigrationMoves DEF BenchInv

(* An invalid page is passed over: it was not going to move.               *)
LEMMA SkipPreserves ==
  ASSUME BenchInv, SkipPage
  PROVE  BenchInv'
<1> DEFINE s == runner.before
           v == runner.victim
           p == runner.page
           r == s.reserve_block_idx
<1>1. /\ runner.pc = "migrate" /\ p < pages_per_block /\ ~ftl.flash.page_valid[v][p]
      /\ ftl' = [ftl EXCEPT !.block_page_owners[v][p] = {}]
      /\ runner' = [runner EXCEPT !.page = @ + 1]
      /\ UNCHANGED <<host, collateral, tel, reader>>
      /\ runner \in RunnerState /\ tel \in Counters
  BY DEF SkipPage, VictimPageValid, BenchInv
<1>2. Migrating /\ p \in Pages /\ p + 1 \in 0 .. pages_per_block
  BY <1>1, MovedPage DEF Migrating
<1>3. /\ s \in Controller /\ s.flash \in FlashArray /\ v \in Blocks /\ r \in Blocks /\ v # r
      /\ v = Victim(s) /\ MigrationStage(s, v, p)
  BY <1>2, MigrationFacts
<1>4. /\ runner'.pc = "migrate" /\ runner'.page = p + 1 /\ runner'.victim = v
      /\ runner'.before = s /\ runner'.to = runner.to
      /\ runner'.generator = runner.generator /\ runner'.i = runner.i
      /\ runner' \in RunnerState
  BY <1>1, <1>2 DEF RunnerState
<1> HIDE DEF s, v, p, r
<1> DEFINE flash == MigratedFlash(s.flash, v, r, p)
           table == MigratedTable(s, v, p)
           owners == MigratedOwners(s, v, p)
           cleared == [owners EXCEPT ![v][p] = {}]
<1>5. ftl = Midway(s, flash, table, owners) /\ runner.to = Dest(s.flash, v, p) /\ Collects(s)
  BY <1>1, <1>3 DEF MigrationStage, r
<1>6. p \notin Moved(s.flash, v)
  <2>1. ftl.flash = flash
    BY <1>5 DEF Midway
  <2>2. ~flash.page_valid[v][p]
    BY <1>1, <2>1
  <2> QED
    BY <1>2, <1>3, <2>2, MigratedStep
<1>7. flash = MigratedFlash(s.flash, v, r, p + 1)
  BY <1>2, <1>3, <1>6, MigratedStep
<1>8. table = MigratedTable(s, v, p + 1)
  <2>1. \A l \in LBAs : MigratedEntry(s, v, p + 1, l) = MigratedEntry(s, v, p, l)
    BY <1>2, <1>3, <1>6, EntrySteps
  <2> QED
    BY <2>1 DEF MigratedTable
<1>9. cleared = MigratedOwners(s, v, p + 1)
  BY <1>2, <1>3, <1>6, OwnerStep DEF r
<1>10. runner.to = Dest(s.flash, v, p + 1)
  BY <1>2, <1>3, <1>5, <1>6, DestStep
<1> HIDE DEF flash, table, cleared
<1>11. ftl' = Midway(s, flash, table, cleared)
  <2> HIDE DEF owners
  <2> QED
    BY <1>1, <1>5 DEF Midway, cleared
<1>12. MigrationStage(runner.before, runner.victim, runner.page)'
  BY <1>2, <1>3, <1>4, <1>5, <1>7, <1>8, <1>9, <1>10, <1>11 DEF MigrationStage, r
<1>13. Sound(ftl)'
  BY <1>1, <1>2, <1>3 DEF BenchInv, Sound, Controller
<1>14. ftl'.flash = ftl.flash /\ ftl'.lba_table = ftl.lba_table
  BY <1>1 DEF BenchInv, Sound, Controller
<1> QED
  BY <1>1, <1>2, <1>4, <1>12, <1>13, <1>14, PageStep DEF MigrationPCs, s, v, p

(* A valid page is copied to the reserve; a page the reader is about to    *)
(* read stays as it is.                                                    *)
LEMMA CopyPreserves ==
  ASSUME BenchInv, CopyPage
  PROVE  BenchInv'
<1> DEFINE s == runner.before
           v == runner.victim
           p == runner.page
           r == s.reserve_block_idx
           w == runner.to
           n == IF ftl.flash.is_programmed[r][w] THEN 0 ELSE 1
<1>1. /\ runner.pc = "migrate" /\ p < pages_per_block /\ Migrating
      /\ runner' = [runner EXCEPT !.pc = "block_idx"]
      /\ UNCHANGED <<host, collateral, reader>>
      /\ runner \in RunnerState /\ tel \in Counters
  BY DEF CopyPage, MigrationStep, BenchInv, Migrating
<1>2. p \in Pages /\ p + 1 \in 0 .. pages_per_block
  BY <1>1, MovedPage
<1>3. /\ s \in Controller /\ s.flash \in FlashArray /\ v \in Blocks /\ r \in Blocks /\ v # r
      /\ v = Victim(s) /\ MigrationStage(s, v, p) /\ p \in 0 .. pages_per_block
      /\ ftl.reserve_block_idx = r
      /\ FirstLap => /\ s.rotations < total_blocks - 1
                     /\ Good(s, collateral \cup StagedLBA(s), host)
  BY <1>1, MigrationFacts
<1>4. /\ ftl.flash.page_valid[v][p]
      /\ ftl' = [ftl EXCEPT !.flash = ProgramPage(@, r, w, ReadPage(@, v, p))]
      /\ tel' = [tel EXCEPT !.gc_migrated_pages = @ + 1, !.total_pages_programmed = @ + n]
  BY <1>3 DEF CopyPage, VictimPageValid
<1>5. /\ runner'.pc = "block_idx" /\ runner'.page = p /\ runner'.victim = v
      /\ runner'.before = s /\ runner'.to = w
      /\ runner'.generator = runner.generator /\ runner'.i = runner.i
      /\ runner' \in RunnerState
  BY <1>1 DEF RunnerState
<1>6. ftl \in Controller /\ CountsExact(ftl.flash) /\ ftl.flash \in FlashArray
  BY DEF BenchInv, Sound, Controller
<1> HIDE DEF s, v, p, r, w
<1> DEFINE flash == MigratedFlash(s.flash, v, r, p)
           table == MigratedTable(s, v, p)
           owners == MigratedOwners(s, v, p)
           copied == MigratedFlash(s.flash, v, r, p + 1)
<1>7. ftl = Midway(s, flash, table, owners) /\ w = Dest(s.flash, v, p) /\ Collects(s)
  BY <1>1, <1>3 DEF MigrationStage, r, w
<1>8. ftl.flash = flash
  BY <1>7 DEF Midway
<1>9. p \in Moved(s.flash, v)
  <2>1. flash.page_valid[v][p]
    BY <1>4, <1>8
  <2> QED
    BY <1>2, <1>3, <2>1, MigratedStep
<1>10. /\ copied = ProgramPage(flash, r, w, ReadPage(flash, v, p))
       /\ flash.is_programmed[r][w] <=> s.flash.is_programmed[r][w]
  BY <1>2, <1>3, <1>7, <1>9, MigratedStep
<1>11. w \in Landed(s.flash, v) /\ w \in Pages
  BY <1>3, <1>7, <1>9, SourceOfDest
<1> HIDE DEF flash, table, owners, copied
<1>12. ftl' = Midway(s, copied, table, owners)
  BY <1>4, <1>7, <1>8, <1>10 DEF Midway
<1>13. MigrationStage(runner.before, runner.victim, runner.page)'
  BY <1>3, <1>5, <1>7, <1>9, <1>12 DEF MigrationStage, r, copied, table, owners
<1>14. ftl'.flash = ProgramPage(ftl.flash, r, w, ReadPage(ftl.flash, v, p))
  BY <1>4, <1>6 DEF Controller
<1>15. Sound(ftl)'
  <2>1. ReadPage(ftl.flash, v, p) \in PageImage
    BY <1>2, <1>3, <1>6, ReadPageTyped
  <2>2. ftl'.flash \in FlashArray /\ CountsExact(ftl'.flash)
    BY <1>3, <1>6, <1>11, <1>14, <2>1, ProgramPageOK
  <2> QED
    BY <1>4, <1>6, <2>2 DEF BenchInv, Sound, Controller
<1>16. \A b \in Blocks, q \in Pages :
         ftl.flash.page_valid[b][q] => /\ ftl'.flash.page_valid[b][q]
                                       /\ ftl'.flash.data[b][q] = ftl.flash.data[b][q]
  BY <1>3, <1>6, <1>11, <1>14, ProgramKeeps
<1>17. ftl'.lba_table = ftl.lba_table
  BY <1>4, <1>6 DEF Controller
<1>18. /\ tel' \in Counters /\ tel'.gc_count = tel.gc_count
       /\ tel'.total_blocks_erased = tel.total_blocks_erased
       /\ n = 1 => Balance(tel') = Balance(tel)
  <2>1. n \in {0, 1}
    OBVIOUS
  <2> HIDE DEF n
  <2>2. /\ tel' = [tel EXCEPT !.gc_migrated_pages = tel.gc_migrated_pages + 1,
                            !.total_pages_programmed = tel.total_pages_programmed + n]
        /\ tel.gc_migrated_pages + 1 \in Nat /\ tel.total_pages_programmed + n \in Nat
    BY <1>1, <1>4, <2>1 DEF Counters
  <2>3. tel' \in Counters
    BY <1>1, <2>2 DEF Counters
  <2>4. /\ tel'.gc_count = tel.gc_count /\ tel'.total_blocks_erased = tel.total_blocks_erased
        /\ tel'.gc_migrated_pages = tel.gc_migrated_pages + 1
        /\ tel'.total_pages_programmed = tel.total_pages_programmed + n
        /\ tel'.zero_blocks = tel.zero_blocks /\ tel'.host_writes = tel.host_writes
        /\ tel'.half_page_packs = tel.half_page_packs
    BY <1>1, <2>2 DEF Counters
  <2>5. /\ tel.gc_migrated_pages \in Nat /\ tel.total_pages_programmed \in Nat
        /\ tel.zero_blocks \in Nat /\ tel.host_writes \in Nat /\ tel.half_page_packs \in Nat
    BY <1>1 DEF Counters
  <2>6. n = 1 => Balance(tel') = Balance(tel)
    BY <2>4, <2>5 DEF Balance
  <2> QED
    BY <2>3, <2>4, <2>6
<1>19. FirstLap => n = 1
  <2>1. ASSUME FirstLap PROVE ~s.flash.is_programmed[r][w]
    <3>1. s.rotations \in Nat /\ r = s.rotations + 1
      BY <1>3, <2>1 DEF Good, Untouched, Controller, r
    <3>2. r > s.rotations
      BY <3>1
    <3> QED
      BY <1>3, <1>11, <2>1, <3>2 DEF Good, Untouched
  <2> QED
    BY <1>8, <1>10, <2>1
<1> QED
  BY <1>1, <1>5, <1>13, <1>15, <1>16, <1>17, <1>18, <1>19, PageStep DEF MigrationPCs, s, v, p

(* The block index of the page's owners.                                   *)
LEMMA RepointBlockPreserves ==
  ASSUME BenchInv, RepointBlock
  PROVE  BenchInv'
<1> DEFINE s == runner.before
           v == runner.victim
           p == runner.page
           r == s.reserve_block_idx
           o == s.block_page_owners[v][p]
<1>1. /\ runner.pc = "block_idx" /\ p < pages_per_block /\ Migrating
      /\ runner' = [runner EXCEPT !.pc = "page_idx"]
      /\ UNCHANGED <<host, collateral, tel, reader>>
      /\ runner \in RunnerState /\ tel \in Counters
  BY DEF RepointBlock, MigrationStep, BenchInv, Migrating
<1>2. p \in Pages /\ PageOwners = o
  BY <1>1, MovedPage
<1>3. /\ s \in Controller /\ v \in Blocks /\ r \in Blocks
      /\ v = Victim(s) /\ MigrationStage(s, v, p) /\ p \in 0 .. pages_per_block
      /\ ftl.reserve_block_idx = r
  BY <1>1, MigrationFacts
<1>4. ftl' = [ftl EXCEPT !.lba_table =
         [l \in LBAs |-> IF l \in o THEN MovedTo(ftl.lba_table[l], r, ftl.lba_table[l].page_idx)
                                    ELSE ftl.lba_table[l]]]
  BY <1>2, <1>3 DEF RepointBlock
<1>5. /\ runner'.pc = "page_idx" /\ runner'.page = p /\ runner'.victim = v
      /\ runner'.before = s /\ runner'.to = runner.to
      /\ runner'.generator = runner.generator /\ runner'.i = runner.i
      /\ runner' \in RunnerState
  BY <1>1 DEF RunnerState
<1>6. ftl \in Controller
  BY DEF BenchInv, Sound
<1> HIDE DEF s, v, p, r, o
<1> DEFINE flash == MigratedFlash(s.flash, v, r, p + 1)
           table == MigratedTable(s, v, p)
           owners == MigratedOwners(s, v, p)
           set == BlockSetTable(s, v, p)
<1>7. /\ ftl = Midway(s, flash, table, owners) /\ runner.to = Dest(s.flash, v, p)
      /\ Collects(s) /\ p \in Moved(s.flash, v)
  BY <1>1, <1>3 DEF MigrationStage, r
<1>8. ftl.lba_table = table
  BY <1>7 DEF Midway
<1>9. ftl'.lba_table = set
  <2>1. ftl'.lba_table =
          [l \in LBAs |-> IF l \in o THEN MovedTo(ftl.lba_table[l], r, ftl.lba_table[l].page_idx)
                                     ELSE ftl.lba_table[l]]
    BY <1>4, <1>6 DEF Controller
  <2>2. \A l \in LBAs : ftl.lba_table[l] = MigratedEntry(s, v, p, l)
    BY <1>8 DEF MigratedTable
  <2> QED
    BY <2>1, <2>2 DEF BlockSetTable, o, r
<1> HIDE DEF flash, table, owners, set
<1>10. ftl' = Midway(s, flash, set, owners)
  <2>1. ftl' = [ftl EXCEPT !.lba_table = set]
    BY <1>4, <1>6, <1>9 DEF Controller
  <2> QED
    BY <1>7, <2>1 DEF Midway
<1>11. MigrationStage(runner.before, runner.victim, runner.page)'
  BY <1>3, <1>5, <1>7, <1>10 DEF MigrationStage, r, flash, set, owners
<1>12. \A m \in LBAs : /\ ftl'.lba_table[m] \in MappingEntry
                       /\ ftl'.lba_table[m].state = ftl.lba_table[m].state
                       /\ ftl'.lba_table[m].sub_slot = ftl.lba_table[m].sub_slot
                       /\ ftl'.lba_table[m].compressed_size = ftl.lba_table[m].compressed_size
  <2> TAKE m \in LBAs
  <2> DEFINE e == ftl.lba_table[m]
  <2>1. e \in MappingEntry
    BY <1>6 DEF Controller
  <2>2. ftl'.lba_table[m] = IF m \in o THEN MovedTo(e, r, e.page_idx) ELSE e
    BY <1>4, <1>6 DEF Controller
  <2> HIDE DEF e
  <2>3. /\ ftl'.lba_table[m] \in MappingEntry /\ ftl'.lba_table[m].state = e.state
        /\ ftl'.lba_table[m].sub_slot = e.sub_slot
        /\ ftl'.lba_table[m].compressed_size = e.compressed_size
    BY <1>3, <2>1, <2>2 DEF MovedTo, MappingEntry
  <2> QED
    BY <2>3 DEF e
<1>13. ftl'.flash = ftl.flash
  BY <1>4, <1>6 DEF Controller
<1>14. Sound(ftl)'
  <2>1. ftl'.lba_table \in [LBAs -> MappingEntry]
    <3>1. ftl'.lba_table = [m \in LBAs |-> ftl'.lba_table[m]]
      BY <1>4, <1>6 DEF Controller
    <3> QED
      BY <1>12, <3>1
  <2>2. ftl' \in Controller /\ ftl'.active_block_idx = ftl.active_block_idx
        /\ ftl'.reserve_block_idx = ftl.reserve_block_idx
    BY <1>4, <1>6, <2>1 DEF Controller
  <2> QED
    BY <1>13, <2>2 DEF BenchInv, Sound
<1> QED
  BY <1>1, <1>5, <1>11, <1>12, <1>13, <1>14, PageStep DEF MigrationPCs, s, v, p

(* The page index, with which the page is treated.                         *)
LEMMA RepointPagePreserves ==
  ASSUME BenchInv, RepointPage
  PROVE  BenchInv'
<1> DEFINE s == runner.before
           v == runner.victim
           p == runner.page
           r == s.reserve_block_idx
           w == runner.to
           o == s.block_page_owners[v][p]
<1>1. /\ runner.pc = "page_idx" /\ p < pages_per_block /\ Migrating
      /\ runner' = [runner EXCEPT !.pc = "migrate", !.page = @ + 1, !.to = @ + 1]
      /\ UNCHANGED <<host, collateral, tel, reader>>
      /\ runner \in RunnerState /\ tel \in Counters
  BY DEF RepointPage, BenchInv, Migrating
<1>2. p \in Pages /\ p + 1 \in 0 .. pages_per_block /\ PageOwners = o
  BY <1>1, MovedPage
<1>3. /\ s \in Controller /\ s.flash \in FlashArray /\ v \in Blocks /\ r \in Blocks /\ v # r
      /\ v = Victim(s) /\ MigrationStage(s, v, p)
      /\ ftl.reserve_block_idx = r
  BY <1>1, MigrationFacts
<1>4. ftl' = [ftl EXCEPT
         !.lba_table = [l \in LBAs |->
            IF l \in o THEN MovedTo(ftl.lba_table[l], ftl.lba_table[l].block_idx, w)
                       ELSE ftl.lba_table[l]],
         !.block_page_owners = [ftl.block_page_owners EXCEPT ![r][w] = o, ![v][p] = {}]]
  BY <1>2, <1>3 DEF RepointPage
<1>5. ftl \in Controller
  BY DEF BenchInv, Sound
<1>6. /\ w = Dest(s.flash, v, p) /\ Collects(s) /\ p \in Moved(s.flash, v)
      /\ ftl = Midway(s, MigratedFlash(s.flash, v, r, p + 1), BlockSetTable(s, v, p),
                      MigratedOwners(s, v, p))
  BY <1>1, <1>3 DEF MigrationStage
<1>7. /\ w \in Pages /\ w + 1 \in 0 .. pages_per_block
      /\ w + 1 = Dest(s.flash, v, p + 1)
  BY <1>2, <1>3, <1>6, DestStep, SourceOfDest
<1>8. /\ runner'.pc = "migrate" /\ runner'.page = p + 1 /\ runner'.victim = v
      /\ runner'.before = s /\ runner'.to = w + 1
      /\ runner'.generator = runner.generator /\ runner'.i = runner.i
      /\ runner' \in RunnerState
  BY <1>1, <1>2, <1>7 DEF RunnerState
<1>9. o \in SUBSET LBAs
  BY <1>2, <1>3 DEF Controller
<1> HIDE DEF s, v, p, r, w, o
<1> DEFINE flash == MigratedFlash(s.flash, v, r, p + 1)
           set == BlockSetTable(s, v, p)
           table == MigratedTable(s, v, p + 1)
           owners == MigratedOwners(s, v, p)
           given == MigratedOwners(s, v, p + 1)
<1>10. ftl.lba_table = set /\ ftl.block_page_owners = owners
  BY <1>6 DEF Midway
<1>11. ftl'.lba_table = table
  <2>1. ftl'.lba_table =
          [l \in LBAs |-> IF l \in o THEN MovedTo(ftl.lba_table[l], ftl.lba_table[l].block_idx, w)
                                     ELSE ftl.lba_table[l]]
    BY <1>4, <1>5 DEF Controller
  <2>2. ASSUME NEW l \in LBAs
        PROVE  (IF l \in o THEN MovedTo(ftl.lba_table[l], ftl.lba_table[l].block_idx, w)
                           ELSE ftl.lba_table[l]) = MigratedEntry(s, v, p + 1, l)
    <3> DEFINE e == MigratedEntry(s, v, p, l)
               f == MigratedEntry(s, v, p + 1, l)
               k == s.lba_table[l]
    <3>1. ftl.lba_table[l] = IF l \in o THEN MovedTo(e, r, e.page_idx) ELSE e
      BY <1>10 DEF BlockSetTable, o, r
    <3>2. f = IF l \in o THEN MovedTo(k, r, w) ELSE e
      BY <1>2, <1>3, <1>6, EntrySteps DEF o, r
    <3>3. e.state = k.state /\ e.sub_slot = k.sub_slot /\ e.compressed_size = k.compressed_size
      BY <1>3, EntrySteps
    <3> HIDE DEF e, f, k
    <3> QED
      BY <3>1, <3>2, <3>3 DEF MovedTo, f
  <2> QED
    BY <2>1, <2>2 DEF MigratedTable
<1>12. ftl'.block_page_owners = given
  <2>1. ftl'.block_page_owners = [owners EXCEPT ![r][w] = o, ![v][p] = {}]
    BY <1>4, <1>5, <1>10 DEF Controller
  <2>2. given = [owners EXCEPT ![r][w] = o, ![v][p] = {}]
    <3>1. given = OwnersMoved(owners, r, w, o, v, p)
      BY <1>2, <1>3, <1>6, OwnerStep DEF o, r
    <3> HIDE DEF given, owners
    <3> QED
      BY <3>1 DEF OwnersMoved
  <2> QED
    BY <2>1, <2>2
<1> HIDE DEF flash, set, table, owners, given
<1>13. ftl' = Midway(s, flash, table, given)
  <2>1. ftl' = [ftl EXCEPT !.lba_table = table, !.block_page_owners = given]
    BY <1>4, <1>5, <1>11, <1>12 DEF Controller
  <2>2. ftl = Midway(s, flash, set, owners)
    BY <1>6 DEF flash, set, owners
  <2> QED
    BY <2>1, <2>2 DEF Midway
<1>14. MigrationStage(runner.before, runner.victim, runner.page)'
  BY <1>2, <1>3, <1>6, <1>7, <1>8, <1>13 DEF MigrationStage, r, flash, table, given
<1>15. \A m \in LBAs : /\ ftl'.lba_table[m] \in MappingEntry
                       /\ ftl'.lba_table[m].state = ftl.lba_table[m].state
                       /\ ftl'.lba_table[m].sub_slot = ftl.lba_table[m].sub_slot
                       /\ ftl'.lba_table[m].compressed_size = ftl.lba_table[m].compressed_size
  <2> TAKE m \in LBAs
  <2> DEFINE e == ftl.lba_table[m]
  <2>1. e \in MappingEntry
    BY <1>5 DEF Controller
  <2>2. ftl'.lba_table[m] = IF m \in o THEN MovedTo(e, e.block_idx, w) ELSE e
    BY <1>4, <1>5 DEF Controller
  <2> HIDE DEF e
  <2>3. /\ ftl'.lba_table[m] \in MappingEntry /\ ftl'.lba_table[m].state = e.state
        /\ ftl'.lba_table[m].sub_slot = e.sub_slot
        /\ ftl'.lba_table[m].compressed_size = e.compressed_size
    BY <1>7, <2>1, <2>2 DEF MovedTo, MappingEntry
  <2> QED
    BY <2>3 DEF e
<1>16. ftl'.flash = ftl.flash
  BY <1>4, <1>5 DEF Controller
<1>17. Sound(ftl)'
  <2>1. ftl'.lba_table \in [LBAs -> MappingEntry]
    <3>1. ftl'.lba_table = [m \in LBAs |-> ftl'.lba_table[m]]
      BY <1>4, <1>5 DEF Controller
    <3> QED
      BY <1>15, <3>1
  <2>2. ftl'.block_page_owners \in [Blocks -> [Pages -> SUBSET LBAs]]
    <3>1. ftl.block_page_owners \in [Blocks -> [Pages -> SUBSET LBAs]]
      BY <1>5 DEF Controller
    <3>2. ftl'.block_page_owners = [ftl.block_page_owners EXCEPT ![r][w] = o, ![v][p] = {}]
      BY <1>4, <1>5 DEF Controller
    <3> QED
      <4> DEFINE a == [ftl.block_page_owners EXCEPT ![r][w] = o]
      <4>1. a \in [Blocks -> [Pages -> SUBSET LBAs]]
        BY <1>3, <1>7, <1>9, <3>1
      <4>2. ftl'.block_page_owners = [a EXCEPT ![v][p] = {}]
        BY <3>2
      <4> HIDE DEF a
      <4> QED
        BY <1>2, <1>3, <4>1, <4>2
  <2>3. ftl' \in Controller /\ ftl'.active_block_idx = ftl.active_block_idx
        /\ ftl'.reserve_block_idx = ftl.reserve_block_idx
    BY <1>4, <1>5, <2>1, <2>2 DEF Controller
  <2> QED
    BY <1>16, <2>3 DEF BenchInv, Sound
<1> QED
  BY <1>1, <1>8, <1>14, <1>15, <1>16, <1>17, PageStep DEF MigrationPCs, s, v, p

(* The erase ends the collection: the controller is what collecting in one *)
(* step would have made it, and a reader whose page was erased is told.    *)
LEMMA EraseVictimPreserves ==
  ASSUME BenchInv, EraseVictim
  PROVE  BenchInv'
<1> DEFINE s == runner.before
           v == runner.victim
           r == s.reserve_block_idx
           zero == 0
<1>1. /\ runner.pc = "migrate" /\ runner.page = pages_per_block /\ Migrating
      /\ runner' = [runner EXCEPT !.pc = "program", !.victim = zero, !.page = zero, !.to = zero]
      /\ ftl' = [ftl EXCEPT !.flash = EraseBlock(ftl.flash, v),
                            !.block_page_owners[v] = [q \in Pages |-> {}],
                            !.active_block_idx = v, !.active_page_idx = 0,
                            !.reserve_block_idx = NextReserve(ftl.reserve_block_idx, v)]
      /\ tel' = [tel EXCEPT !.total_blocks_erased = @ + 1]
      /\ UNCHANGED <<host, collateral>>
      /\ runner \in RunnerState /\ tel \in Counters /\ reader \in ReaderState
  BY DEF EraseVictim, BenchInv, Migrating
<1>2. reader' = IF ReadsFlash(reader) /\ reader.entry.block_idx = v
                THEN [reader EXCEPT !.overtaken = TRUE] ELSE reader
  BY DEF EraseVictim
<1>3. /\ Sound(s) /\ s \in Controller /\ s.flash \in FlashArray /\ v \in Blocks /\ r \in Blocks
      /\ v # r /\ v = Victim(s) /\ MigrationStage(s, v, runner.page)
      /\ ftl.reserve_block_idx = r /\ ftl.staged_half = s.staged_half
      /\ s.staged_half.has_value /\ ~NoneInvalid(s)
  BY <1>1, MigrationFacts
<1>4. zero \in Blocks /\ zero \in 0 .. pages_per_block
  BY GeometryAssumption DEF Blocks
<1> HIDE DEF zero
<1>5. /\ runner'.pc = "program" /\ runner'.before = s
      /\ runner'.generator = runner.generator /\ runner'.i = runner.i
      /\ runner' \in RunnerState
  BY <1>1, <1>4 DEF RunnerState
<1>6. ~Migrating' /\ Flushing'
  BY <1>5 DEF Migrating, Flushing
<1> HIDE DEF s, v, r
<1> DEFINE n == pages_per_block
           flash == MigratedFlash(s.flash, v, r, n)
           table == MigratedTable(s, v, n)
           owners == MigratedOwners(s, v, n)
<1>7. ftl = Midway(s, flash, table, owners) /\ Collects(s)
  BY <1>1, <1>3 DEF MigrationStage, r
<1>8. flash = MigratePages(s.flash, v, r) /\ owners = MigrateOwners(s, v)
  BY <1>3, MigratedEnds, OwnerEnds DEF r
<1>9. table = [l \in LBAs |-> Repoint(s, v, l)]
  <2>1. \A l \in LBAs : MigratedEntry(s, v, n, l) = Repoint(s, v, l)
    BY <1>3, EntrySteps
  <2> QED
    BY <2>1 DEF MigratedTable
<1>10. [owners EXCEPT ![v] = [q \in Pages |-> {}]] = owners
  BY <1>3, <1>8, OwnerEnds DEF r
<1>11. ftl' = Collect(s, v)
  <2> HIDE DEF flash, table, owners
  <2>1. /\ ftl.flash = flash /\ ftl.lba_table = table /\ ftl.block_page_owners = owners
        /\ ftl.rotations = Rotated(s)
    BY <1>7 DEF Midway
  <2>2. ftl' = [flash |-> EraseBlock(flash, v), lba_table |-> table, active_block_idx |-> v,
                active_page_idx |-> 0, reserve_block_idx |-> NextReserve(r, v),
                staged_half |-> s.staged_half,
                block_page_owners |-> [owners EXCEPT ![v] = [q \in Pages |-> {}]],
                rotations |-> Rotated(s)]
    BY <1>1, <1>3, <1>7, <2>1 DEF Midway
  <2> QED
    BY <1>8, <1>9, <1>10, <2>2 DEF Collect, r
<1>12. ftl' = Stage("program", s)
  <2>1. ~(s.active_page_idx < pages_per_block)
    BY <1>3, <1>7, GeometryAssumption DEF Collects, Controller
  <2> QED
    BY <1>3, <1>11, <2>1 DEF Stage, RunGarbageCollectionIfNeeded
<1>13. FlushStage'
  BY <1>3, <1>5, <1>6, <1>12 DEF FlushStage
<1>14. Sound(ftl)'
  <2>1. Sound(Collect(s, v))
    BY <1>3, CollectSound DEF r
  <2> QED
    BY <1>11, <2>1
<1> HIDE DEF flash, table, owners
<1>15. /\ ftl'.flash = EraseBlock(ftl.flash, v) /\ ftl'.lba_table = ftl.lba_table
       /\ ftl'.staged_half = ftl.staged_half /\ ftl'.rotations = ftl.rotations
  BY <1>1, <1>7 DEF Midway
<1>16. tel' \in Counters /\ CountsRight'
  <2>1. /\ tel' \in Counters /\ Balance(tel') = Balance(tel)
        /\ tel'.gc_count = tel.gc_count
        /\ tel'.total_blocks_erased = tel.total_blocks_erased + 1
    BY <1>1 DEF Counters, Balance
  <2>2. Pending' = Pending /\ FirstLap' = FirstLap
    BY <1>1, <1>5, <1>15 DEF Pending, FirstLap
  <2>3. tel.total_blocks_erased + 1 = tel.gc_count /\ (FirstLap => Balance(tel) + Pending = 0)
    BY <1>1 DEF BenchInv, CountsRight
  <2>4. tel'.total_blocks_erased + 0 = tel'.gc_count
    BY <1>1, <2>1, <2>3 DEF Counters
  <2> QED
    BY <1>6, <2>1, <2>2, <2>3, <2>4 DEF CountsRight
<1>17. reader' \in ReaderState /\ ReaderRight'
  <2>1. ReaderRight /\ ftl.flash \in FlashArray
    BY DEF BenchInv, Sound, Controller
  <2>2. StagedLBA(ftl') = StagedLBA(ftl)
    BY <1>15 DEF StagedLBA
  <2>3. CASE ReadsFlash(reader) /\ reader.entry.block_idx = v
    <3>1. reader' \in ReaderState /\ reader'.pc = "fetch" /\ reader'.overtaken
      BY <1>1, <1>2, <2>3 DEF ReaderState, ReadsFlash
    <3> QED
      BY <3>1 DEF ReaderRight
  <2>4. CASE ~(ReadsFlash(reader) /\ reader.entry.block_idx = v)
    <3>1. reader' = reader
      BY <1>2, <2>4
    <3>2. ASSUME reader.pc = "index" PROVE HalfRead'
      <4>1. HalfRead
        BY <2>1, <3>2 DEF ReaderRight
      <4> QED
        BY <1>15, <2>2, <3>1, <4>1 DEF HalfRead, StagedLBA
    <3>3. ASSUME reader.pc = "fetch", ~reader.overtaken, FirstLap', reader.lba \notin collateral
          PROVE  Found(reader)'
      <4>1. Found(reader)
        BY <1>15, <2>1, <3>3 DEF ReaderRight, FirstLap
      <4>2. ASSUME NEW b \in Blocks, NEW w \in Pages, b # v
            PROVE  /\ ftl'.flash.page_valid[b][w] = ftl.flash.page_valid[b][w]
                   /\ ftl'.flash.data[b][w] = ftl.flash.data[b][w]
        BY <1>3, <1>15, <2>1, <4>2 DEF EraseBlock, FlashArray
      <4>3. reader.entry \in MappingEntry =>
              reader.entry.block_idx \in Blocks /\ reader.entry.page_idx \in Pages
        BY DEF MappingEntry
      <4>4. ~reader.staged.has_value /\ reader.entry.state \in OnFlash
              => reader.entry.block_idx # v
        BY <2>4, <3>3 DEF ReadsFlash
      <4> QED
        BY <1>1, <3>1, <4>1, <4>2, <4>3, <4>4 DEF Found
    <3> QED
      BY <1>1, <3>1, <3>2, <3>3 DEF ReaderRight
  <2> QED
    BY <2>3, <2>4
<1> QED
  BY <1>1, <1>5, <1>13, <1>14, <1>16, <1>17, MigrationMoves DEF BenchInv, MigrationPCs, s

(* The program uses a free page, so that no page the reader may be about   *)
(* to read changes.                                                        *)
LEMMA ProgramPreserves ==
  ASSUME BenchInv, FlushProgram
  PROVE  BenchInv'
<1> DEFINE s == runner.before
           b == ftl.active_block_idx
           p == ftl.active_page_idx
           image == Packed(ftl.staged_half.data, Blank)
           next == [ftl EXCEPT !.flash = ProgramPage(@, b, p, image)]
<1>1. /\ FlushStep("program", "map", next)
      /\ tel' = CountProgram(tel, ftl) /\ reader' = reader
      /\ tel \in Counters /\ reader \in ReaderState
  BY DEF FlushProgram, BenchInv
<1>2. ftl = RunGarbageCollectionIfNeeded(s)
  <2>1. Flushing /\ ~Migrating /\ runner.pc = "program"
    BY <1>1 DEF FlushStep, Flushing, Migrating
  <2> QED
    BY <2>1 DEF BenchInv, FlushStage, Stage
<1>3. next = Stage("map", s)
  BY <1>2 DEF Stage, Programmed
<1>4. /\ Sound(s) /\ Consistent(s) /\ Sound(ftl) /\ Sound(ftl)'
      /\ ftl.staged_half = s.staged_half /\ s.staged_half.has_value
      /\ ftl'.staged_half = ftl.staged_half
      /\ runner.pc = "program" /\ runner'.pc = "map" /\ ~Migrating /\ ~Migrating'
      /\ runner' \in RunnerState /\ FlushStage' /\ RunnerRight'
      /\ Sound(Committed)' /\ Consistent(Committed)'
      /\ host' \in [LBAs -> Data] /\ collateral' \in SUBSET LBAs
  <2> HIDE DEF next
  <2> QED
    BY <1>1, <1>3, FlushMoves DEF FlushPCs, BenchInv
<1>5. /\ UNCHANGED <<host, collateral>> /\ ftl'.lba_table = ftl.lba_table
      /\ ftl'.flash = ProgramPage(ftl.flash, b, p, image) /\ ftl'.rotations = ftl.rotations
  BY <1>1, <1>4 DEF FlushStep, Sound, Controller
<1>6. p \in Pages /\ b \in Blocks /\ ftl.flash \in FlashArray /\ CountsExact(ftl.flash)
  BY <1>2, <1>4, CollectionSound DEF Sound, Controller
<1>7. FirstLap' => FirstLap /\ RoomAhead(ftl)
  <2>1. FirstLap => /\ s.rotations < total_blocks
                    /\ \A X, h : Good(s, X, h) => Good(ftl, X, h)
    BY <1>2, <1>4, CollectionGood DEF FirstLap
  <2> QED
    BY <1>4, <1>5, <2>1 DEF FirstLap, Consistent, Good
<1>8. tel' \in Counters /\ CountsRight'
  <2>1. /\ Counted(tel, tel')
        /\ RoomAhead(ftl) => Balance(tel') = Balance(tel) + 1
    BY <1>1, <1>6, ProgramCounted
  <2>2. Pending' = 0 /\ Pending = 1
    BY <1>4 DEF Pending
  <2>3. tel.total_blocks_erased = tel.gc_count /\ (FirstLap => Balance(tel) + Pending = 0)
    BY <1>1, <1>4 DEF BenchInv, CountsRight, Counters
  <2>4. Balance(tel) \in Int
    BY <1>1, OneMore
  <2>5. tel'.total_blocks_erased + 0 = tel'.gc_count
    BY <2>1, <2>3 DEF Counted, Counters
  <2> QED
    BY <1>4, <1>7, <2>1, <2>2, <2>3, <2>4, <2>5 DEF Counted, CountsRight
<1>9. ReaderRight'
  <2>1. ASSUME NEW c \in Blocks, NEW q \in Pages, ftl.flash.page_valid[c][q]
        PROVE  ftl'.flash.page_valid[c][q] /\ ftl'.flash.data[c][q] = ftl.flash.data[c][q]
    <3> HIDE DEF image, b, p
    <3> QED
      BY <1>5, <1>6, <2>1, ProgramKeeps
  <2>2. StagedLBA(ftl') = StagedLBA(ftl)
    BY <1>4 DEF StagedLBA
  <2>3. FirstLap' => FirstLap
    BY <1>5 DEF FirstLap
  <2> HIDE DEF image, b, p, next, s
  <2> QED
    BY <1>1, <1>5, <2>1, <2>2, <2>3, ReaderKept DEF BenchInv
<1> QED
  BY <1>1, <1>4, <1>8, <1>9 DEF BenchInv

-----------------------------------------------------------------------------
(* The mapping entry and the owner list: neither touches the array, the    *)
(* counters or the reader.                                                 *)
LEMMA QuietFlushStep ==
  ASSUME BenchInv, NEW from \in {"map", "own"}, NEW to \in {"own", "reset"}, NEW next,
         FlushStep(from, to, next), next = Stage(to, runner.before),
         next.flash = ftl.flash, next.rotations = ftl.rotations,
         \A m \in LBAs \ StagedLBA(ftl) : next.lba_table[m] = ftl.lba_table[m],
         UNCHANGED <<tel, reader>>
  PROVE  BenchInv'
<1>1. /\ ftl'.staged_half = ftl.staged_half /\ Sound(ftl)'
      /\ runner.pc = from /\ runner'.pc = to /\ ~Migrating /\ ~Migrating'
      /\ runner' \in RunnerState /\ FlushStage' /\ RunnerRight'
      /\ Sound(Committed)' /\ Consistent(Committed)'
      /\ host' \in [LBAs -> Data] /\ collateral' \in SUBSET LBAs
  BY FlushMoves DEF FlushPCs
<1>2. ftl' = next /\ UNCHANGED <<host, collateral>>
  BY DEF FlushStep
<1>3. ReaderRight'
  <2>1. StagedLBA(ftl') = StagedLBA(ftl)
    BY <1>1 DEF StagedLBA
  <2>2. FirstLap' => FirstLap
    BY <1>2 DEF FirstLap
  <2> QED
    BY <1>2, <2>1, <2>2, ReaderKept DEF BenchInv
<1>4. CountsRight'
  BY <1>1, <1>2 DEF BenchInv, CountsRight, Pending, FirstLap
<1> QED
  BY <1>1, <1>3, <1>4 DEF BenchInv

(* The mapping entry of the staged LBA.                                    *)
LEMMA MapPreserves ==
  ASSUME BenchInv, FlushMap
  PROVE  BenchInv'
<1> DEFINE s == runner.before
           next == [ftl EXCEPT !.lba_table[ftl.staged_half.lba] =
                      MovedTo(Half(0, ftl.staged_half.comp_size),
                              ftl.active_block_idx, ftl.active_page_idx)]
<1>1. FlushStep("map", "own", next) /\ UNCHANGED <<tel, reader>>
  BY DEF FlushMap
<1>2. ftl = Stage("map", s)
  <2>1. Flushing /\ ~Migrating /\ runner.pc = "map"
    BY <1>1 DEF FlushStep, Flushing, Migrating
  <2> QED
    BY <2>1 DEF BenchInv, FlushStage
<1>3. next = Stage("own", s)
  BY <1>2 DEF Stage, Mapped
<1>4. /\ next.flash = ftl.flash /\ next.rotations = ftl.rotations
      /\ \A m \in LBAs \ StagedLBA(ftl) : next.lba_table[m] = ftl.lba_table[m]
  <2>1. runner.before.staged_half.has_value /\ ftl.staged_half = runner.before.staged_half
    <3> HIDE DEF next
    <3> QED
      BY <1>1, <1>3, FlushMoves DEF FlushPCs
  <2>2. \A m \in LBAs \ StagedLBA(ftl) : m # ftl.staged_half.lba
    BY <2>1 DEF StagedLBA
  <2> QED
    BY <2>2 DEF BenchInv, Sound, Controller
<1> HIDE DEF next
<1> QED
  BY <1>1, <1>3, <1>4, QuietFlushStep

(* The owner list and the page pointer.                                    *)
LEMMA OwnPreserves ==
  ASSUME BenchInv, FlushOwn
  PROVE  BenchInv'
<1> DEFINE s == runner.before
           next == [ftl EXCEPT !.block_page_owners[ftl.active_block_idx][ftl.active_page_idx] =
                                 @ \cup {ftl.staged_half.lba},
                               !.active_page_idx = @ + 1]
<1>1. FlushStep("own", "reset", next) /\ UNCHANGED <<tel, reader>>
  BY DEF FlushOwn
<1>2. ftl = Stage("own", s)
  <2>1. Flushing /\ ~Migrating /\ runner.pc = "own"
    BY <1>1 DEF FlushStep, Flushing, Migrating
  <2> QED
    BY <2>1 DEF BenchInv, FlushStage
<1>3. next = Stage("reset", s)
  BY <1>2 DEF Stage, WithOwner
<1>4. /\ next.flash = ftl.flash /\ next.rotations = ftl.rotations
      /\ next.lba_table = ftl.lba_table
  BY DEF BenchInv, Sound, Controller
<1> HIDE DEF next
<1> QED
  BY <1>1, <1>3, <1>4, QuietFlushStep

(* The reset commits the flush.                                            *)
LEMMA ResetCommits ==
  ASSUME BenchInv, FlushReset
  PROVE  /\ Committed = runner.before /\ runner.before.staged_half.has_value
         /\ ftl' = FlushStagedWrites(runner.before) /\ Committed' = ftl'
         /\ ftl = Stage("reset", runner.before)
         /\ runner' \in RunnerState /\ runner'.pc = "report"
         /\ runner'.generator = runner.generator /\ runner'.i = runner.i
         /\ UNCHANGED <<host, collateral, tel, reader>>
<1> DEFINE s == runner.before
<1>1. /\ runner.pc = "reset" /\ ftl' = [ftl EXCEPT !.staged_half = NothingStaged]
      /\ runner' = [runner EXCEPT !.pc = "report", !.before = <<>>]
      /\ UNCHANGED <<host, collateral, tel, reader>> /\ runner \in RunnerState
  BY DEF FlushReset, BenchInv
<1>2. Flushing /\ ~Migrating /\ Committed = s
  BY <1>1 DEF Flushing, Migrating, Committed
<1>3. s.staged_half.has_value /\ ftl = Stage("reset", s) /\ Sound(s)
  BY <1>1, <1>2 DEF BenchInv, FlushStage
<1>4. ftl' = FlushStagedWrites(s)
  BY <1>1, <1>3, StagesAreFlush
<1>5. /\ runner' \in RunnerState /\ runner'.pc = "report"
      /\ runner'.generator = runner.generator /\ runner'.i = runner.i
  BY <1>1 DEF RunnerState
<1>6. Committed' = ftl'
  BY <1>5 DEF Flushing, Migrating, Committed
<1> QED
  BY <1>1, <1>2, <1>3, <1>4, <1>5, <1>6

(* After the reset the block is where the mapping says it is.              *)
LEMMA ResetPreserves ==
  ASSUME BenchInv, FlushReset
  PROVE  BenchInv'
<1> DEFINE s == runner.before
           t == FlushStagedWrites(s)
           Y == collateral \cup StagedLBA(s)
<1>1. /\ Committed = s /\ s.staged_half.has_value
      /\ ftl' = t /\ Committed' = t /\ ftl = Stage("reset", s)
      /\ runner' \in RunnerState /\ runner'.pc = "report"
      /\ runner'.generator = runner.generator /\ runner'.i = runner.i
      /\ UNCHANGED <<host, collateral, tel, reader>>
  BY ResetCommits
<1>2. Sound(s) /\ Consistent(s) /\ Sound(t)
  BY <1>1, FlushSound DEF BenchInv
<1>3. t.rotations < total_blocks =>
        /\ s.rotations < total_blocks
        /\ Good(t, Y \ StagedLBA(s), host)
        /\ StagedLBA(t) = {}
  <2>1. /\ StagedLBA(s) \subseteq Y
        /\ s.rotations < total_blocks => Good(s, Y, host) /\ StagedRight(s, collateral, host)
    BY <1>2 DEF Consistent
  <2> HIDE DEF s, Y
  <2> QED
    BY <1>2, <2>1, FlushGood
<1>4. Consistent(t)
  <2>1. SUFFICES ASSUME t.rotations < total_blocks
                 PROVE  /\ Good(t, collateral \cup StagedLBA(t), host)
                        /\ StagedRight(t, collateral, host)
    BY DEF Consistent
  <2>2. StagedRight(s, collateral, host)
    BY <1>2, <1>3, <2>1 DEF Consistent
  <2>3. Y \ StagedLBA(s) = collateral
    BY <2>2 DEF StagedRight
  <2> HIDE DEF t, Y
  <2> QED
    BY <1>3, <2>1, <2>3 DEF StagedRight
<1>5. Sound(Committed)' /\ Consistent(Committed)' /\ Sound(ftl)'
  <2> HIDE DEF t
  <2> QED
    BY <1>1, <1>2, <1>4 DEF Consistent
<1>6. ~t.staged_half.has_value
  BY <1>1 DEF FlushStagedWrites, NothingStaged
<1>7. t.flash = ftl.flash /\ t.rotations = ftl.rotations /\ t.lba_table = ftl.lba_table
  <2>1. t = [ftl EXCEPT !.staged_half = NothingStaged]
    BY <1>1, <1>2, StagesAreFlush
  <2>2. ftl \in Controller
    BY DEF BenchInv, Sound
  <2> HIDE DEF t
  <2> QED
    BY <2>1, <2>2 DEF Controller
<1> HIDE DEF t, s
<1>8. FlushStage' /\ ~Migrating /\ ~Migrating'
  BY <1>1 DEF FlushStage, Flushing, Migrating, FlushReset
<1>9. RunnerRight'
  <2>1. runner.pc = "reset"
    BY DEF FlushReset
  <2> QED
    BY <1>1, <1>6, <2>1 DEF BenchInv, RunnerRight
<1>10. ReaderRight'
  <2>1. StagedLBA(ftl') \subseteq StagedLBA(ftl)
    BY <1>1, <1>6 DEF StagedLBA
  <2>2. FirstLap' => FirstLap
    BY <1>1, <1>7 DEF FirstLap
  <2> QED
    BY <1>1, <1>7, <2>1, <2>2, ReaderKept DEF BenchInv
<1>11. CountsRight'
  <2>1. Pending = 0 /\ Pending' = 0
    BY <1>1, <1>6 DEF Pending, FlushReset
  <2> QED
    BY <1>1, <1>7, <1>8, <2>1 DEF BenchInv, CountsRight, FirstLap
<1> QED
  BY <1>1, <1>5, <1>8, <1>9, <1>10, <1>11 DEF BenchInv

-----------------------------------------------------------------------------
(* Every step of the benchmark and of the reader preserves the invariant.  *)
LEMMA BenchStepInv ==
  ASSUME BenchInv, [BenchNext]_benchVars
  PROVE  BenchInv'
BY StartPreserves, WritePreserves, FlushTestPreserves, MakeRoomPreserves,
   ChooseVictimPreserves, SkipPreserves, CopyPreserves, RepointBlockPreserves,
   RepointPagePreserves, EraseVictimPreserves,
   ProgramPreserves, MapPreserves, OwnPreserves, ResetPreserves, ReportPreserves,
   LookupPreserves, IndexPreserves, FetchPreserves, StutterPreserves
   DEF BenchNext, RunnerStep, ReaderStep

(* The invariant of the benchmark: the stages of the flush, the reader's   *)
(* entry, the runner's progress and the balance of the counters.           *)
THEOREM BenchmarkInvariantHolds == BenchSpec => []BenchInv
BY BenchInitInv, BenchStepInv, PTL DEF BenchSpec

(* The counters the report divides agree: in the first lap every page      *)
(* programmed since the reset is a page migrated, or holds a block written *)
(* since the reset that was not zero, two to a page for each pair, one of  *)
(* them not yet programmed while it is staged.                             *)
THEOREM ReportBalanced == BenchSpec => []ReportBalances
<1>1. ASSUME BenchInv PROVE ReportBalances
  <2>1. SUFFICES ASSUME FirstLap, ~Flushing
                 PROVE  /\ tel.total_pages_programmed + tel.zero_blocks + tel.half_page_packs
                             + (IF ftl.staged_half.has_value THEN 1 ELSE 0)
                           = tel.gc_migrated_pages + tel.host_writes
                        /\ tel.total_blocks_erased = tel.gc_count
    BY DEF ReportBalances
  <2>2. tel.total_blocks_erased + 0 = tel.gc_count /\ Balance(tel) + Pending = 0
    BY <1>1, <2>1 DEF BenchInv, CountsRight, Flushing
  <2>3. PICK k \in {0, 1} : Pending = k /\ k = IF ftl.staged_half.has_value THEN 1 ELSE 0
    BY <2>1 DEF Pending, Flushing
  <2>4. /\ tel.total_pages_programmed \in Nat /\ tel.zero_blocks \in Nat
        /\ tel.half_page_packs \in Nat /\ tel.gc_migrated_pages \in Nat /\ tel.host_writes \in Nat
        /\ tel.total_blocks_erased \in Nat
    BY <1>1 DEF BenchInv, Counters
  <2>5. tel.total_blocks_erased = tel.gc_count
    BY <2>2, <2>4
  <2>6. tel.total_pages_programmed + tel.zero_blocks + tel.half_page_packs + k
          = tel.gc_migrated_pages + tel.host_writes
    <3>1. Balance(tel) + k = 0
      BY <2>2, <2>3
    <3>2. Balance(tel) = tel.total_pages_programmed + tel.zero_blocks + tel.half_page_packs
                           - tel.gc_migrated_pages - tel.host_writes
      BY DEF Balance
    <3>3. k \in Int
      OBVIOUS
    <3> DEFINE a == tel.total_pages_programmed
               b == tel.zero_blocks
               c == tel.half_page_packs
               d == tel.gc_migrated_pages
               e == tel.host_writes
    <3>4. a \in Int /\ b \in Int /\ c \in Int /\ d \in Int /\ e \in Int
      BY <2>4
    <3>5. a + b + c - d - e + k = 0
      BY <3>1, <3>2
    <3> HIDE DEF a, b, c, d, e
    <3>6. a + b + c + k = d + e
      BY ONLY <3>3, <3>4, <3>5
    <3> QED
      BY <3>6 DEF a, b, c, d, e
  <2> QED
    BY <2>3, <2>5, <2>6
<1> QED
  BY <1>1, BenchmarkInvariantHolds, PTL

(* When a workload reports, every block it wrote is on flash, none only in *)
(* the staging buffer; excepted are mid-size blocks and those that a later *)
(* write through a stale mapping entry took with it.                       *)
THEOREM ReportedBlocksOnFlash == BenchSpec => []ReportedIsOnFlash
<1>1. ASSUME BenchInv PROVE ReportedIsOnFlash
  <2> DEFINE g == runner.generator
             t == [ftl EXCEPT !.staged_half = NothingStaged]
  <2>1. SUFFICES ASSUME FirstLap, runner.pc = "report", NEW i \in DOMAIN g,
                        i - 1 \notin collateral, ~MidSize(g[i])
                 PROVE  ReadBlock(t, i - 1) = g[i]
    BY DEF ReportedIsOnFlash
  <2>2. /\ g \in Generators /\ runner.i = Len(g) /\ ~ftl.staged_half.has_value
        /\ \A j \in 1 .. Len(g) : host[j - 1] = g[j]
    BY <1>1, <2>1 DEF BenchInv, RunnerRight
  <2>3. i \in 1 .. Len(g) /\ i - 1 \in LBAs
    <3>1. g \in Seq(Data) /\ Len(g) \in 1 .. num_lbas
      BY <2>2, WorkloadAssumption
    <3>2. i \in 1 .. Len(g)
      BY <2>1, <3>1
    <3> HIDE DEF g
    <3> QED
      BY <3>1, <3>2, LbaAssumption DEF LBAs
  <2>4. ~Flushing
    BY <2>1 DEF Flushing, Migrating
  <2>5. Inv
    BY <1>1, <2>4, BetweenFlushes
  <2>6. host[i - 1] = g[i]
    BY <2>2, <2>3
  <2> DEFINE l == i - 1
             e == ftl.lba_table[l]
  <2>7. t.flash = ftl.flash /\ t.lba_table = ftl.lba_table /\ ~t.staged_half.has_value
    BY <2>5 DEF Inv, Sound, Controller, NothingStaged
  <2>8. e \in MappingEntry /\ CountsExact(ftl.flash) /\ g[i] \in Data
    BY <2>3, <2>5, <2>6 DEF Inv, Sound, Controller
  <2>9. IF e.state \in OnFlash
        THEN /\ ftl.flash.page_valid[e.block_idx][e.page_idx]
             /\ Holds(ftl.flash.data[e.block_idx][e.page_idx], e, g[i])
        ELSE g[i] = Zero
    <3>1. l \notin collateral \cup StagedLBA(ftl)
      BY <2>1, <2>2 DEF StagedLBA
    <3>2. Stored(ftl, collateral \cup StagedLBA(ftl), host)
      BY <2>1, <2>5 DEF Inv, FirstLapInv, Good
    <3> QED
      BY <2>3, <2>6, <3>1, <3>2 DEF Stored
  <2> HIDE DEF t, g
  <2> QED
    BY <2>1, <2>7, <2>8, <2>9, EntryDecodes
<1> QED
  BY <1>1, BenchmarkInvariantHolds, PTL

(* A read that runs beside the flush delivers the block last written, at   *)
(* whatever step of a collection it looks, unless it read one index of the *)
(* entry before and the other after the page moved, or its page was erased *)
(* before it was read, or the block is mid-size or collateral.             *)
THEOREM ReadsBesideFlush == BenchSpec => []ReadsDuringFlush
<1>1. ASSUME BenchInv PROVE ReadsDuringFlush
  <2>1. SUFFICES ASSUME reader.pc = "fetch", ~reader.overtaken, FirstLap,
                        reader.lba \notin collateral, ~MidSize(host[reader.lba])
                 PROVE  Delivered(reader) = host[reader.lba]
    BY DEF ReadsDuringFlush
  <2>2. Found(reader) /\ Sound(ftl) /\ host \in [LBAs -> Data] /\ reader \in ReaderState
    BY <1>1, <2>1 DEF BenchInv, ReaderRight
  <2> QED
    BY <2>1, <2>2, FoundDelivers
<1> QED
  BY <1>1, BenchmarkInvariantHolds, PTL

-----------------------------------------------------------------------------
(* A step of the benchmark is a step of FTLController or leaves what is    *)
(* committed alone.                                                        *)
LEMMA AtomicStep ==
  ASSUME BenchInv, [BenchNext]_benchVars
  PROVE  [Atomic!Next]_(Atomic!vars)
<1> SUFFICES Atomic!Next \/ (Committed' = Committed /\ UNCHANGED <<host, collateral>>)
  BY DEF Atomic!vars
<1>1. CASE \E g \in Generators : StartWorkload(g)
  <2>1. PICK g \in Generators : StartWorkload(g)
    BY <1>1
  <2>2. /\ runner.pc = "start" /\ runner'.pc = "write" /\ UNCHANGED <<ftl, host, collateral>>
    BY <2>1 DEF StartWorkload, BenchInv, RunnerState
  <2> QED
    BY <2>2 DEF Committed, Flushing, Migrating
<1>2. CASE WriteNext
  <2> DEFINE l == runner.i
             d == runner.generator[l + 1]
  <2>1. /\ runner.pc = "write" /\ runner'.pc = "write"
        /\ WriteBlock(l, d) /\ l < Len(runner.generator)
    BY <1>2 DEF WriteNext, BenchInv, RunnerState
  <2>2. Committed = ftl /\ Committed' = ftl'
    BY <2>1 DEF Committed, Flushing, Migrating
  <2>3. l \in LBAs /\ d \in Data
    <3>1. runner.generator \in Generators /\ l \in Nat
      BY <2>1 DEF BenchInv, RunnerRight, RunnerState
    <3>2. runner.generator \in Seq(Data) /\ Len(runner.generator) \in 1 .. num_lbas
      BY <3>1, WorkloadAssumption
    <3>3. l + 1 \in 1 .. Len(runner.generator) /\ l \in 0 .. num_lbas - 1
      BY <2>1, <3>1, <3>2, LbaAssumption
    <3> HIDE DEF l
    <3> QED
      BY <3>2, <3>3 DEF LBAs
  <2> HIDE DEF l, d
  <2> QED
    BY <2>1, <2>2, <2>3, AtomicWrite
<1>3. CASE FlushTest
  <2>1. /\ runner.pc = "write" /\ UNCHANGED <<ftl, host, collateral>>
        /\ runner'.pc = "report" \/ runner'.before = ftl
    BY <1>3 DEF FlushTest, LoopOver, BenchInv, RunnerState
  <2> QED
    BY <2>1 DEF Committed, Flushing, Migrating
<1>4. CASE FlushMakeRoom \/ FlushProgram \/ FlushMap \/ FlushOwn
  <2>1. PICK from \in FlushPCs, to \in FlushPCs :
          /\ runner.pc = from /\ runner' = [runner EXCEPT !.pc = to]
          /\ UNCHANGED <<host, collateral>>
    BY <1>4 DEF FlushMakeRoom, FlushProgram, FlushMap, FlushOwn, FlushStep, FlushPCs
  <2>2. runner'.pc = to /\ runner'.before = runner.before
    BY <2>1 DEF BenchInv, RunnerState
  <2> QED
    BY <2>1, <2>2 DEF Committed, Flushing, FlushPCs
<1>5. CASE FlushReset
  BY <1>5, ResetCommits, AtomicFlush
<1>6. CASE Report
  <2>1. /\ runner.pc = "report" /\ runner'.pc \in {"done", "start"}
        /\ UNCHANGED <<ftl, host, collateral>>
    BY <1>6 DEF Report, BenchInv, RunnerState
  <2> QED
    BY <2>1 DEF Committed, Flushing, Migrating
<1>7. CASE ReaderStep \/ UNCHANGED benchVars
  <2>1. UNCHANGED <<ftl, host, collateral, runner>>
    BY <1>7 DEF ReaderStep, Lookup, ReadBlockIdx, ReadPageIdx, ReadIndex, FetchPage, benchVars
  <2> QED
    BY <2>1 DEF Committed, Flushing, Migrating
<1>8. CASE ChooseVictim \/ SkipPage \/ CopyPage \/ RepointBlock \/ RepointPage \/ EraseVictim
  <2>1. /\ runner.pc \in {"collect"} \cup MigrationPCs
        /\ runner'.pc \in {"program"} \cup MigrationPCs
        /\ runner'.before = runner.before
        /\ UNCHANGED <<host, collateral>>
    BY <1>8 DEF ChooseVictim, SkipPage, CopyPage, RepointBlock, RepointPage, EraseVictim,
      MigrationStep, MigrationPCs, BenchInv, RunnerState
  <2> QED
    BY <2>1 DEF Committed, Flushing, Migrating, MigrationPCs
<1> QED
  BY <1>1, <1>2, <1>3, <1>4, <1>5, <1>6, <1>7, <1>8 DEF BenchNext, RunnerStep

(* The split flush is one step of FTLController: seen from outside, the    *)
(* controller is what it was until the staging buffer is empty.            *)
THEOREM FlushAtomic == BenchSpec => FlushIsAtomic
<1>1. ASSUME BenchInit PROVE Atomic!Init
  <2>1. Init /\ ~Flushing
    BY <1>1 DEF BenchInit, Flushing, Migrating
  <2> QED
    BY <2>1, AtomicInit DEF Committed
<1>2. BenchInv /\ [BenchNext]_benchVars => [Atomic!Next]_(Atomic!vars)
  BY AtomicStep
<1> QED
  BY <1>1, <1>2, BenchmarkInvariantHolds, PTL DEF BenchSpec, FlushIsAtomic,
    Atomic!Spec
=============================================================================
