------------------------------ MODULE FTLProofs ------------------------------
(***************************************************************************)
(* Theorems about FTLController, for every geometry, every number of LBAs  *)
(* and every set of host blocks: its types and its bookkeeping, and then   *)
(* that the FTL keeps its data in the first lap of the reserve.            *)
(* FirstLapInv is inductive, and implies FirstLapIntegrity and             *)
(* OwnersMatchMapping; with the fact that a valid page has an owner, in    *)
(* whatever lap, it implies NoGarbageKept.                                 *)
(***************************************************************************)
EXTENDS FTLInvariant, FlashLemmas

(* The pointer arithmetic of the reserve rotation stays within the array.  *)
LEMMA Next1Value ==
  ASSUME NEW b \in Blocks
  PROVE  Next1(b) = IF b = total_blocks - 1 THEN 0 ELSE b + 1
BY GeometryAssumption DEF Next1, Blocks

(* Both ways of rotating the reserve yield another block of the array.     *)
LEMMA ReserveInRange ==
  ASSUME NEW r \in Blocks, NEW v \in Blocks
  PROVE  /\ Next1(r) \in Blocks /\ Next1(r) # r
         /\ NextReserve(r, v) \in Blocks /\ NextReserve(r, v) # v
BY Next1Value, GeometryAssumption DEF NextReserve, Blocks

-----------------------------------------------------------------------------
(* Migration.  The k-th valid page of the victim, counting from 0, goes to *)
(* page k of the reserve: no further up than it was, and no two to one.    *)
LEMMA DestInRange ==
  ASSUME NEW f \in FlashArray, NEW v \in Blocks, NEW p \in Moved(f, v)
  PROVE  Dest(f, v, p) \in Pages
<1> DEFINE S == {q \in Moved(f, v) : q < p}
<1>1. p \in Pages /\ p \in Nat
  BY GeometryAssumption DEF Moved, Pages
<1>2. S \in SUBSET (0 .. p - 1)
  BY <1>1 DEF Moved, Pages
<1>3. IsFiniteSet(0 .. p - 1) /\ Cardinality(0 .. p - 1) = p
  BY <1>1, FS_Interval
<1>4. Cardinality(S) <= p /\ Cardinality(S) \in Nat
  BY <1>2, <1>3, FS_Subset, FS_CardinalityType
<1> QED
  BY <1>1, <1>4, GeometryAssumption DEF Dest, Pages

(* reserve_write_page only grows, so no two pages go to the same place.    *)
LEMMA DestIncreasing ==
  ASSUME NEW f \in FlashArray, NEW v \in Blocks,
         NEW p \in Moved(f, v), NEW q \in Moved(f, v), p < q
  PROVE  Dest(f, v, p) < Dest(f, v, q)
<1> DEFINE S == {x \in Moved(f, v) : x < p}
           T == {x \in Moved(f, v) : x < q}
<1>1. p \in Nat /\ q \in Nat /\ Moved(f, v) \subseteq Nat
  BY GeometryAssumption DEF Moved, Pages
<1>2. S \cup {p} \in SUBSET T /\ p \notin S
  BY <1>1
<1>3. S \in SUBSET Pages /\ T \in SUBSET Pages
  BY DEF Moved
<1>4. IsFiniteSet(S) /\ Cardinality(S) \in Nat /\ IsFiniteSet(T) /\ Cardinality(T) \in Nat
  BY <1>3, PageSetsFinite
<1>5. Cardinality(S \cup {p}) = Cardinality(S) + 1
  BY <1>2, <1>4, FS_AddElement
<1>6. Cardinality(S \cup {p}) <= Cardinality(T)
  BY <1>2, <1>4, FS_Subset
<1>7. Cardinality(S) < Cardinality(T)
  BY <1>4, <1>5, <1>6
<1> QED
  BY <1>7 DEF Dest

(* Source inverts Dest on the pages that were moved.                       *)
LEMMA SourceOfDest ==
  ASSUME NEW f \in FlashArray, NEW v \in Blocks
  PROVE  /\ Landed(f, v) \subseteq Pages
         /\ \A w \in Landed(f, v) :
              Source(f, v, w) \in Moved(f, v) /\ Dest(f, v, Source(f, v, w)) = w
         /\ \A p \in Moved(f, v) :
              Dest(f, v, p) \in Landed(f, v) /\ Source(f, v, Dest(f, v, p)) = p
<1>1. Landed(f, v) \subseteq Pages
  BY DestInRange DEF Landed
<1>2. ASSUME NEW w \in Landed(f, v)
      PROVE  Source(f, v, w) \in Moved(f, v) /\ Dest(f, v, Source(f, v, w)) = w
  BY DEF Landed, Source
<1>3. ASSUME NEW p \in Moved(f, v)
      PROVE  Dest(f, v, p) \in Landed(f, v) /\ Source(f, v, Dest(f, v, p)) = p
  <2>1. Dest(f, v, p) \in Landed(f, v)
    BY DEF Landed
  <2> DEFINE q == Source(f, v, Dest(f, v, p))
  <2>2. q \in Moved(f, v) /\ Dest(f, v, q) = Dest(f, v, p)
    BY <1>2, <2>1
  <2>3. p \in Nat /\ q \in Nat /\ Dest(f, v, p) \in Nat
    BY <2>2, DestInRange, GeometryAssumption DEF Moved, Pages
  <2>4. ~(p < q) /\ ~(q < p)
    <3> HIDE DEF q
    <3> QED
      BY <2>2, <2>3, DestIncreasing
  <2> QED
    BY <2>1, <2>3, <2>4
<1> QED
  BY <1>1, <1>2, <1>3

(* The migration loop keeps the array typed and its counts exact.          *)
LEMMA MigratePagesOK ==
  ASSUME NEW f \in FlashArray, NEW v \in Blocks, NEW r \in Blocks
  PROVE  /\ MigratePages(f, v, r) \in FlashArray
         /\ CountsExact(f) => CountsExact(MigratePages(f, v, r))
<1> DEFINE g == MigratePages(f, v, r)
<1>1. \A w \in Landed(f, v) : ReadPage(f, v, Source(f, v, w)) \in PageImage
  <2>1. \A w \in Landed(f, v) : Source(f, v, w) \in Pages
    BY SourceOfDest DEF Moved
  <2> QED
    BY <2>1, ReadPageTyped
<1>2. g \in FlashArray
  BY <1>1 DEF MigratePages, FlashArray
<1>3. ASSUME CountsExact(f) PROVE CountsExact(g)
  <2>1. \A c \in Blocks : StalePages(g, c) = StalePages(f, c)
    BY <1>3 DEF MigratePages, FlashArray, StalePages, CountsExact
  <2>2. g.invalid_page_count = f.invalid_page_count
    BY DEF MigratePages
  <2>3. \A c \in Blocks, q \in Pages : g.page_valid[c][q] => g.is_programmed[c][q]
    BY <1>3 DEF MigratePages, FlashArray, CountsExact
  <2> QED
    BY <1>3, <2>1, <2>2, <2>3 DEF CountsExact
<1> QED
  BY <1>2, <1>3

-----------------------------------------------------------------------------
(* The greedy search finds a block other than the reserve, and one with    *)
(* something to reclaim.                                                   *)
LEMMA VictimOK ==
  ASSUME NEW s, Sound(s), ~NoneInvalid(s)
  PROVE  /\ Victim(s) \in Blocks /\ Victim(s) # s.reserve_block_idx
         /\ s.flash.invalid_page_count[Victim(s)] > 0
<1> DEFINE inv == s.flash.invalid_page_count
           C == Candidates(s)
           V == {inv[c] : c \in C}
           B == {b \in C : \A c \in C : inv[c] <= inv[b]}
<1>1. s.flash \in FlashArray /\ s.reserve_block_idx \in Blocks
  BY DEF Sound, Controller
<1>2. \A b \in Blocks : inv[b] \in 0 .. pages_per_block
  <2>1. \A b \in Blocks : StalePages(s.flash, b) \in SUBSET Pages
    BY DEF StalePages
  <2> QED
    BY <2>1, PageSetsFinite, GeometryAssumption DEF Sound, CountsExact
<1>3. C \subseteq Blocks /\ s.reserve_block_idx \notin C
  BY DEF Candidates
<1>4. PICK c \in C : inv[c] # 0
  BY DEF NoneInvalid
<1>5. V \in SUBSET (0 .. pages_per_block) /\ V # {}
  BY <1>2, <1>3, <1>4
<1>6. PICK m \in V : \A y \in V : y <= m
  BY <1>5, GreatestNatural, GeometryAssumption
<1>7. PICK b \in C : inv[b] = m
  BY <1>6
<1>8. B # {} /\ B \in SUBSET Nat
  BY <1>3, <1>6, <1>7, GeometryAssumption DEF Blocks
<1>9. \E x \in B : \A y \in B : x <= y
  BY <1>8, LeastNatural
<1>10. Victim(s) \in B
  <2>1. Victim(s) = CHOOSE x \in B : \A y \in B : x <= y
    BY DEF Victim, Min
  <2> HIDE DEF B
  <2> QED
    BY <1>9, <2>1
<1>11. inv[c] \in Nat /\ inv[Victim(s)] \in Nat /\ inv[c] <= inv[Victim(s)]
  BY <1>2, <1>3, <1>4, <1>10
<1> QED
  BY <1>3, <1>4, <1>10, <1>11

(* The rotation history stays within its bound.                            *)
LEMMA RotatedOK ==
  ASSUME NEW s \in Controller
  PROVE  Rotated(s) \in 0 .. total_blocks
BY GeometryAssumption DEF Rotated, Controller

(* Re-pointing keeps an entry within the mapping table's type.             *)
LEMMA RepointTyped ==
  ASSUME NEW s \in Controller, NEW v \in Blocks, NEW l \in LBAs
  PROVE  Repoint(s, v, l) \in MappingEntry
<1> DEFINE M == {p \in Moved(s.flash, v) : l \in s.block_page_owners[v][p]}
<1>1. s.flash \in FlashArray /\ s.reserve_block_idx \in Blocks
      /\ s.lba_table[l] \in MappingEntry
  BY DEF Controller
<1>2. CASE M = {}
  BY <1>1, <1>2 DEF Repoint
<1>3. CASE M # {}
  <2>1. M \in SUBSET (0 .. pages_per_block)
    BY GeometryAssumption DEF Moved, Pages
  <2>2. \E m \in M : \A y \in M : m >= y
    BY <1>3, <2>1, GreatestNatural, GeometryAssumption
  <2>3. Max(M) \in M
    <3> HIDE DEF M
    <3> QED
      BY <2>2 DEF Max
  <2>4. Dest(s.flash, v, Max(M)) \in Pages
    BY <1>1, <2>3, DestInRange
  <2>5. Repoint(s, v, l)
          = MovedTo(s.lba_table[l], s.reserve_block_idx, Dest(s.flash, v, Max(M)))
    BY <1>3 DEF Repoint
  <2> HIDE DEF M
  <2> QED
    BY <1>1, <2>4, <2>5 DEF MovedTo, MappingEntry
<1> QED
  BY <1>2, <1>3

(* Owner lists move within the inverted index.                             *)
LEMMA MigrateOwnersTyped ==
  ASSUME NEW s \in Controller, NEW v \in Blocks
  PROVE  MigrateOwners(s, v) \in [Blocks -> [Pages -> SUBSET LBAs]]
<1>1. s.flash \in FlashArray /\ s.block_page_owners \in [Blocks -> [Pages -> SUBSET LBAs]]
  BY DEF Controller
<1>2. \A w \in Landed(s.flash, v) : Source(s.flash, v, w) \in Pages
  BY <1>1, SourceOfDest DEF Moved
<1> QED
  BY <1>1, <1>2 DEF MigrateOwners

(* A collection keeps the controller sound.                                *)
LEMMA CollectSound ==
  ASSUME NEW s, Sound(s), NEW v \in Blocks, v # s.reserve_block_idx
  PROVE  Sound(Collect(s, v))
<1> DEFINE r == s.reserve_block_idx
           g == EraseBlock(MigratePages(s.flash, v, r), v)
<1>1. s \in Controller /\ s.flash \in FlashArray /\ r \in Blocks /\ CountsExact(s.flash)
      /\ s.staged_half \in StagedHalfPage
  BY DEF Sound, Controller
<1>2. g \in FlashArray /\ CountsExact(g)
  BY <1>1, MigratePagesOK, EraseBlockOK
<1>3. NextReserve(r, v) \in Blocks /\ NextReserve(r, v) # v
  BY <1>1, ReserveInRange
<1>4. [l \in LBAs |-> Repoint(s, v, l)] \in [LBAs -> MappingEntry]
  BY <1>1, RepointTyped
<1>5. MigrateOwners(s, v) \in [Blocks -> [Pages -> SUBSET LBAs]]
  BY <1>1, MigrateOwnersTyped
<1>6. Rotated(s) \in 0 .. total_blocks
  BY <1>1, RotatedOK
<1>7. 0 \in 0 .. pages_per_block
  BY GeometryAssumption
<1>8. Collect(s, v) \in Controller
  <2> HIDE DEF g
  <2> QED
    BY <1>1, <1>2, <1>3, <1>4, <1>5, <1>6, <1>7 DEF Collect, Controller, g
<1> QED
  BY <1>2, <1>3, <1>8 DEF Sound, Collect

(* So does moving on to the reserve.                                       *)
LEMMA AdvanceSound ==
  ASSUME NEW s, Sound(s)
  PROVE  Sound(AdvanceToReserve(s))
<1>1. s \in Controller /\ s.reserve_block_idx \in Blocks
  BY DEF Sound, Controller
<1>2. Rotated(s) \in 0 .. total_blocks
  BY <1>1, RotatedOK
<1>3. 0 \in 0 .. pages_per_block
  BY GeometryAssumption
<1> QED
  BY <1>1, <1>2, <1>3, ReserveInRange DEF Sound, AdvanceToReserve, Controller

(* Garbage collection, whichever path it takes, leaves room for a page.    *)
LEMMA CollectionSound ==
  ASSUME NEW s, Sound(s)
  PROVE  /\ Sound(RunGarbageCollectionIfNeeded(s))
         /\ RunGarbageCollectionIfNeeded(s).active_page_idx \in Pages
<1>1. CASE s.active_page_idx < pages_per_block
  BY <1>1, GeometryAssumption DEF RunGarbageCollectionIfNeeded, Sound, Controller, Pages
<1>2. CASE ~(s.active_page_idx < pages_per_block) /\ NoneInvalid(s)
  <2>1. RunGarbageCollectionIfNeeded(s) = AdvanceToReserve(s)
    BY <1>2 DEF RunGarbageCollectionIfNeeded
  <2>2. AdvanceToReserve(s).active_page_idx \in Pages
    BY GeometryAssumption DEF AdvanceToReserve, Pages
  <2> QED
    BY <2>1, <2>2, AdvanceSound
<1>3. CASE ~(s.active_page_idx < pages_per_block) /\ ~NoneInvalid(s)
  <2>1. RunGarbageCollectionIfNeeded(s) = Collect(s, Victim(s))
    BY <1>3 DEF RunGarbageCollectionIfNeeded
  <2>2. Victim(s) \in Blocks /\ Victim(s) # s.reserve_block_idx
    BY <1>3, VictimOK
  <2>3. Collect(s, Victim(s)).active_page_idx \in Pages
    BY GeometryAssumption DEF Collect, Pages
  <2> QED
    BY <2>1, <2>2, <2>3, CollectSound
<1> QED
  BY <1>1, <1>2, <1>3

-----------------------------------------------------------------------------
(* What Compress hands to WriteBlock.                                      *)
LEMMA CompressTyped ==
  ASSUME NEW d \in Data
  PROVE  /\ Compress(d).data \in Bytes
         /\ Compress(d).compressed_size \in 0 .. FLASH_PAGE_SIZE
         /\ FitsHalf(Compress(d)) => Compress(d).compressed_size \in 0 .. HALF_PAGE
<1>1. /\ Blank \in Bytes /\ Raw(d) \in Bytes /\ LZ4(d) \in Bytes
      /\ LZ4Size[d] \in Int /\ LZ4Size[d] <= 4096
  BY DataAssumption, SizeAssumption DEF Blank, Raw, LZ4, Bytes, FLASH_PAGE_SIZE
<1>2. CASE d = Zero
  BY <1>1, <1>2 DEF Compress, FLASH_PAGE_SIZE, HALF_PAGE, FitsHalf
<1>3. CASE d # Zero /\ StoredRaw(d)
  BY <1>1, <1>3 DEF Compress, FLASH_PAGE_SIZE, HALF_PAGE, FitsHalf
<1>4. CASE d # Zero /\ ~StoredRaw(d)
  <2>1. Compress(d).data = LZ4(d) /\ Compress(d).compressed_size = LZ4Size[d]
    BY <1>4 DEF Compress
  <2>2. LZ4Size[d] \in Int /\ 0 <= LZ4Size[d] /\ LZ4Size[d] <= 4096
    BY <1>1, <1>4 DEF StoredRaw
  <2>3. \A n \in Int : 0 <= n /\ n <= 4096 =>
          n \in 0 .. FLASH_PAGE_SIZE /\ (n <= HALF_PAGE => n \in 0 .. HALF_PAGE)
    BY DEF FLASH_PAGE_SIZE, HALF_PAGE
  <2> QED
    BY <1>1, <2>1, <2>2, <2>3 DEF FitsHalf
<1> QED
  BY <1>2, <1>3, <1>4

(* page_buf and a full page are page images.                               *)
LEMMA PackedTyped ==
  ASSUME NEW b0 \in Bytes, NEW b1 \in Bytes
  PROVE  Packed(b0, b1) \in PageImage /\ Whole(b0) \in PageImage
BY DEF Packed, Whole, PageImage, Slots

(* An empty std::optional is a staging buffer.                             *)
LEMMA NothingStagedTyped == NothingStaged \in StagedHalfPage
BY LbaAssumption, ImagesTyped DEF NothingStaged, StagedHalfPage, LBAs, HALF_PAGE

(* The mappings WriteBlock and FlushStagedWrites store are well-typed.     *)
LEMMA PlacementTyped ==
  /\ \A slot \in Slots, size \in 0 .. HALF_PAGE : Half(slot, size) \in Placement
  /\ \A size \in 0 .. FLASH_PAGE_SIZE : Full(size) \in Placement
<1>1. \A size \in 0 .. HALF_PAGE : size \in 0 .. FLASH_PAGE_SIZE
  BY DEF HALF_PAGE, FLASH_PAGE_SIZE
<1>2. \A slot \in Slots, size \in 0 .. HALF_PAGE : Half(slot, size) \in Placement
  BY <1>1 DEF Half, Placement, OnFlash
<1>3. \A size \in 0 .. FLASH_PAGE_SIZE : Full(size) \in Placement
  BY DEF Full, Placement, OnFlash, Slots
<1> QED
  BY <1>2, <1>3

(* Placing a page keeps the controller sound, whether the program is       *)
(* accepted or refused.                                                    *)
LEMMA PlacePageSound ==
  ASSUME NEW s, Sound(s), NEW image \in PageImage,
         NEW S \in SUBSET LBAs, NEW placed \in [S -> Placement]
  PROVE  Sound(PlacePage(s, image, placed))
<1> DEFINE t == RunGarbageCollectionIfNeeded(s)
           b == t.active_block_idx
           p == t.active_page_idx
           g == ProgramPage(t.flash, b, p, image)
           table == [l \in LBAs |-> IF l \in DOMAIN placed
                                    THEN MovedTo(placed[l], b, p) ELSE t.lba_table[l]]
           owners == [t.block_page_owners EXCEPT ![b][p] = @ \cup DOMAIN placed]
<1>1. Sound(t) /\ p \in Pages
  BY CollectionSound
<1> HIDE DEF t
<1>2. /\ t.flash \in FlashArray /\ CountsExact(t.flash)
      /\ b \in Blocks /\ t.reserve_block_idx \in Blocks /\ b # t.reserve_block_idx
      /\ t.lba_table \in [LBAs -> MappingEntry]
      /\ t.staged_half \in StagedHalfPage
      /\ t.block_page_owners \in [Blocks -> [Pages -> SUBSET LBAs]]
      /\ t.rotations \in 0 .. total_blocks
  BY <1>1 DEF Sound, Controller
<1>3. g \in FlashArray /\ CountsExact(g)
  BY <1>1, <1>2, ProgramPageOK
<1>4. table \in [LBAs -> MappingEntry]
  <2>1. ASSUME NEW l \in S PROVE MovedTo(placed[l], b, p) \in MappingEntry
    BY <1>1, <1>2 DEF MovedTo, MappingEntry, Placement, OnFlash, MappingState
  <2> QED
    BY <1>2, <2>1
<1>5. owners \in [Blocks -> [Pages -> SUBSET LBAs]]
  BY <1>1, <1>2
<1>6. p + 1 \in 0 .. pages_per_block
  BY <1>1, GeometryAssumption DEF Pages
<1>7. PlacePage(s, image, placed)
        = [flash |-> g, lba_table |-> table, active_block_idx |-> b,
           active_page_idx |-> p + 1, reserve_block_idx |-> t.reserve_block_idx,
           staged_half |-> t.staged_half, block_page_owners |-> owners,
           rotations |-> t.rotations]
  BY DEF PlacePage, t
<1> HIDE DEF b, p, g, table, owners
<1> QED
  BY <1>2, <1>3, <1>4, <1>5, <1>6, <1>7 DEF Sound, Controller, b

(* Emptying the staging buffer keeps the controller sound.                 *)
LEMMA DropStagedSound ==
  ASSUME NEW s, Sound(s)
  PROVE  Sound([s EXCEPT !.staged_half = NothingStaged])
BY NothingStagedTyped DEF Sound, Controller

(* Flushing the staged half keeps the controller sound.                    *)
LEMMA FlushSound ==
  ASSUME NEW s, Sound(s)
  PROVE  Sound(FlushStagedWrites(s))
<1> DEFINE h == s.staged_half
           image == Packed(h.data, Blank)
           placed == [l \in {h.lba} |-> Half(0, h.comp_size)]
<1>1. CASE ~h.has_value
  BY <1>1 DEF FlushStagedWrites
<1>2. CASE h.has_value
  <2>1. h.lba \in LBAs /\ h.comp_size \in 0 .. HALF_PAGE /\ h.data \in Bytes
    BY DEF Sound, Controller, StagedHalfPage
  <2>2. image \in PageImage
    BY <2>1, ImagesTyped, PackedTyped
  <2>3. placed \in [{h.lba} -> Placement] /\ {h.lba} \in SUBSET LBAs
    BY <2>1, PlacementTyped DEF Slots
  <2>4. Sound(PlacePage(s, image, placed))
    BY <2>2, <2>3, PlacePageSound
  <2>5. FlushStagedWrites(s)
          = [PlacePage(s, image, placed) EXCEPT !.staged_half = NothingStaged]
    BY <1>2 DEF FlushStagedWrites
  <2> HIDE DEF image, placed
  <2> QED
    BY <2>4, <2>5, DropStagedSound
<1> QED
  BY <1>1, <1>2

(* WriteBlock's prefix keeps the controller sound.                         *)
LEMMA SupersededSound ==
  ASSUME NEW s, Sound(s), NEW l \in LBAs
  PROVE  Sound(Superseded(s, l))
<1> DEFINE e == s.lba_table[l]
           g == IF e.state \in OnFlash
                THEN InvalidatePage(s.flash, e.block_idx, e.page_idx) ELSE s.flash
           k == IF s.staged_half.has_value /\ s.staged_half.lba = l
                THEN NothingStaged ELSE s.staged_half
<1>1. s \in Controller /\ s.flash \in FlashArray /\ CountsExact(s.flash)
      /\ e.block_idx \in Blocks /\ e.page_idx \in Pages
  BY DEF Sound, Controller, MappingEntry
<1>2. g \in FlashArray /\ CountsExact(g)
  BY <1>1, InvalidatePageOK
<1>3. k \in StagedHalfPage
  BY <1>1, NothingStagedTyped DEF Controller
<1>4. Superseded(s, l)
        = [flash |-> g, lba_table |-> s.lba_table,
           active_block_idx |-> s.active_block_idx, active_page_idx |-> s.active_page_idx,
           reserve_block_idx |-> s.reserve_block_idx, staged_half |-> k,
           block_page_owners |-> s.block_page_owners, rotations |-> s.rotations]
  BY DEF Superseded
<1> HIDE DEF g, k
<1> QED
  BY <1>1, <1>2, <1>3, <1>4 DEF Sound, Controller

-----------------------------------------------------------------------------
(* The four return paths of WriteBlock and the flush keep the controller   *)
(* sound.                                                                  *)
LEMMA WriteZeroSound ==
  ASSUME Sound(ftl), NEW l \in LBAs, NEW d \in Data, WriteZero(l, d)
  PROVE  Sound(ftl')
<1> DEFINE s == Superseded(ftl, l)
           table == [ftl.lba_table EXCEPT ![l] = Sparse(@)]
<1>1. Sound(s)
  BY SupersededSound
<1>2. table \in [LBAs -> MappingEntry]
  BY DEF Sound, Controller, MappingEntry, Sparse, MappingState, FLASH_PAGE_SIZE
<1>3. ftl' = [s EXCEPT !.lba_table = table]
  BY DEF WriteZero
<1> HIDE DEF s, table
<1> QED
  BY <1>1, <1>2, <1>3 DEF Sound, Controller

(* Staging the first half.                                                 *)
LEMMA WriteStagedSound ==
  ASSUME Sound(ftl), NEW l \in LBAs, NEW d \in Data, WriteStaged(l, d)
  PROVE  Sound(ftl')
<1> DEFINE s == Superseded(ftl, l)
           h == [has_value |-> TRUE, lba |-> l,
                 comp_size |-> Compress(d).compressed_size, data |-> Compress(d).data]
<1>1. Sound(s)
  BY SupersededSound
<1>2. h \in StagedHalfPage
  BY CompressTyped DEF WriteStaged, StagedHalfPage
<1>3. ftl' = [s EXCEPT !.staged_half = h]
  BY DEF WriteStaged
<1> HIDE DEF s, h
<1> QED
  BY <1>1, <1>2, <1>3 DEF Sound, Controller

(* Pairing two halves.                                                     *)
LEMMA WritePairedSound ==
  ASSUME Sound(ftl), NEW l \in LBAs, NEW d \in Data, WritePaired(l, d)
  PROVE  Sound(ftl')
<1> DEFINE s == Superseded(ftl, l)
           h == s.staged_half
           c == Compress(d)
           image == Packed(h.data, c.data)
           placed == [m \in {h.lba, l} |-> IF m = l THEN Half(1, c.compressed_size)
                                                    ELSE Half(0, h.comp_size)]
<1>1. Sound(s)
  BY SupersededSound
<1>2. h \in StagedHalfPage
  BY <1>1 DEF Sound, Controller
<1>3. ftl' = [PlacePage(s, image, placed) EXCEPT !.staged_half = NothingStaged]
  BY DEF WritePaired
<1>4. FitsHalf(c)
  BY DEF WritePaired
<1> HIDE DEF s
<1>5. h.lba \in LBAs /\ h.comp_size \in 0 .. HALF_PAGE /\ h.data \in Bytes
  BY <1>2 DEF StagedHalfPage
<1>6. c.data \in Bytes /\ c.compressed_size \in 0 .. HALF_PAGE
  BY <1>4, CompressTyped
<1> HIDE DEF h, c
<1>7. image \in PageImage
  BY <1>5, <1>6, PackedTyped
<1>8. placed \in [{h.lba, l} -> Placement] /\ {h.lba, l} \in SUBSET LBAs
  BY <1>5, <1>6, PlacementTyped DEF Slots
<1> HIDE DEF image, placed
<1>9. Sound(PlacePage(s, image, placed))
  BY <1>1, <1>7, <1>8, PlacePageSound
<1> QED
  BY <1>3, <1>9, DropStagedSound

(* Writing a full page.                                                    *)
LEMMA WriteFullSound ==
  ASSUME Sound(ftl), NEW l \in LBAs, NEW d \in Data, WriteFull(l, d)
  PROVE  Sound(ftl')
<1> DEFINE s == FlushStagedWrites(Superseded(ftl, l))
           c == Compress(d)
           image == Whole(c.data)
           placed == [m \in {l} |-> Full(c.compressed_size)]
<1>1. Sound(s)
  BY SupersededSound, FlushSound
<1>2. c.data \in Bytes /\ c.compressed_size \in 0 .. FLASH_PAGE_SIZE
  BY CompressTyped
<1>3. ftl' = PlacePage(s, image, placed)
  BY DEF WriteFull
<1> HIDE DEF s, c
<1>4. image \in PageImage
  BY <1>2, PackedTyped
<1>5. placed \in [{l} -> Placement] /\ {l} \in SUBSET LBAs
  BY <1>2, PlacementTyped
<1> HIDE DEF image, placed
<1> QED
  BY <1>1, <1>3, <1>4, <1>5, PlacePageSound

(* Every public call keeps the controller sound.                           *)
LEMMA StepSound ==
  ASSUME Sound(ftl), [Next]_vars
  PROVE  Sound(ftl')
<1>1. ASSUME NEW l \in LBAs, NEW d \in Data, WriteBlock(l, d) PROVE Sound(ftl')
  BY <1>1, WriteZeroSound, WriteStagedSound, WritePairedSound, WriteFullSound
     DEF WriteBlock
<1>2. CASE Flush
  BY <1>2, FlushSound DEF Flush
<1>3. CASE UNCHANGED vars
  BY <1>3 DEF vars
<1> QED
  BY <1>1, <1>2, <1>3 DEF Next

(* The constructor leaves a sound controller.                              *)
LEMMA InitSound ==
  ASSUME Init
  PROVE  Sound(ftl)
<1>1. 0 \in Blocks /\ 1 \in Blocks /\ 0 \in Pages /\ 0 \in 0 .. pages_per_block
      /\ 0 \in 0 .. total_blocks
  BY GeometryAssumption DEF Blocks, Pages
<1>2. NewFlash \in FlashArray /\ CountsExact(NewFlash)
  BY NewFlashOK
<1>3. NothingStaged \in StagedHalfPage
  BY NothingStagedTyped
<1>4. [l \in LBAs |-> [state |-> "UNMAPPED", block_idx |-> 0, page_idx |-> 0,
                       sub_slot |-> 0, compressed_size |-> 0]] \in [LBAs -> MappingEntry]
  BY <1>1 DEF MappingEntry, MappingState, Slots, FLASH_PAGE_SIZE
<1> QED
  BY <1>1, <1>2, <1>3, <1>4 DEF Init, Sound, Controller

(* The history variables have their types.                                 *)
LEMMA HistoryTyped ==
  ASSUME host \in [LBAs -> Data], collateral \in SUBSET LBAs, [Next]_vars
  PROVE  host' \in [LBAs -> Data] /\ collateral' \in SUBSET LBAs
<1>1. ASSUME NEW l \in LBAs, NEW d \in Data, WriteBlock(l, d)
      PROVE  host' \in [LBAs -> Data] /\ collateral' \in SUBSET LBAs
  <2>1. Recorded(l, d)
    BY <1>1 DEF WriteBlock, WriteZero, WriteStaged, WritePaired, WriteFull
  <2> QED
    BY <2>1 DEF Recorded
<1>2. CASE Flush \/ UNCHANGED vars
  BY <1>2 DEF Flush, vars
<1> QED
  BY <1>1, <1>2 DEF Next

(* Every index the controller uses stays within the vector it indexes, in  *)
(* every state reachable by any sequence of writes and flushes, beyond the *)
(* first lap too.                                                          *)
THEOREM TypeCorrect == Spec => []TypeOK
<1> DEFINE Typed == Sound(ftl) /\ host \in [LBAs -> Data] /\ collateral \in SUBSET LBAs
<1>1. Init => Typed
  BY InitSound, DataAssumption DEF Init
<1>2. Typed /\ [Next]_vars => Typed'
  BY StepSound, HistoryTyped
<1>3. Typed => TypeOK
  BY DEF Sound, TypeOK
<1> HIDE DEF Typed
<1> QED
  BY <1>1, <1>2, <1>3, PTL DEF Spec

(* The block being written is never the reserve, and invalid_page_count,   *)
(* by which victims are chosen, is exact, in every reachable state.        *)
THEOREM BookkeepingCorrect == Spec => []BookkeepingExact
<1> DEFINE Exact == Sound(ftl)
<1>1. Init => Exact
  BY InitSound
<1>2. Exact /\ [Next]_vars => Exact'
  BY StepSound
<1>3. Exact => BookkeepingExact
  BY DEF Sound, BookkeepingExact
<1> HIDE DEF Exact
<1> QED
  BY <1>1, <1>2, <1>3, PTL DEF Spec

-----------------------------------------------------------------------------
(* Holds looks at three fields of an entry.                                *)
LEMMA HoldsFields ==
  ASSUME NEW image, NEW e, NEW k, NEW d, Holds(image, e, d),
         k.state = e.state, k.sub_slot = e.sub_slot,
         k.compressed_size = e.compressed_size
  PROVE  Holds(image, k, d)
BY DEF Holds

(* Garbage collection.                                                     *)

(* A victim has a stale page, so it is not one of the untouched blocks.    *)
LEMMA VictimUsed ==
  ASSUME NEW s, Sound(s), Untouched(s), s.rotations < total_blocks - 1, ~NoneInvalid(s)
  PROVE  Victim(s) <= s.rotations
<1>1. Victim(s) \in Blocks /\ s.flash.invalid_page_count[Victim(s)] > 0
  BY VictimOK
<1>2. PICK p \in Pages : s.flash.is_programmed[Victim(s)][p]
  <2>1. StalePages(s.flash, Victim(s)) # {}
    BY <1>1, FS_EmptySet DEF Sound, CountsExact
  <2> QED
    BY <2>1 DEF StalePages
<1>3. s.rotations \in Nat /\ Victim(s) \in Nat
  BY <1>1, GeometryAssumption DEF Sound, Controller, Blocks
<1> QED
  BY <1>1, <1>2, <1>3 DEF Untouched

(* A collection into an unused reserve: the victim is left erased, and the *)
(* reserve holds the victim's valid pages, packed, and nothing else.       *)
LEMMA CollectFlash ==
  ASSUME NEW s, Sound(s), NEW v \in Blocks, v # s.reserve_block_idx,
         \A p \in Pages : ~s.flash.is_programmed[s.reserve_block_idx][p],
         NEW b \in Blocks, NEW p \in Pages
  PROVE  LET f == s.flash
             g == Collect(s, v).flash
             r == s.reserve_block_idx
         IN  /\ b = v => ~g.is_programmed[b][p] /\ ~g.page_valid[b][p]
             /\ b = r => /\ g.page_valid[b][p] <=> p \in Landed(f, v)
                         /\ g.is_programmed[b][p] <=> p \in Landed(f, v)
                         /\ p \in Landed(f, v) => g.data[b][p] = f.data[v][Source(f, v, p)]
             /\ b # v /\ b # r => /\ g.is_programmed[b][p] = f.is_programmed[b][p]
                                  /\ g.page_valid[b][p] = f.page_valid[b][p]
                                  /\ g.data[b][p] = f.data[b][p]
<1> DEFINE f == s.flash
           r == s.reserve_block_idx
           k == MigratePages(f, v, r)
           g == EraseBlock(k, v)
<1>1. f \in FlashArray /\ r \in Blocks /\ CountsExact(f) /\ Collect(s, v).flash = g
  BY DEF Sound, Controller, Collect
<1>2. k \in FlashArray
  BY <1>1, MigratePagesOK
<1>3. b = v => ~g.is_programmed[b][p] /\ ~g.page_valid[b][p]
  <2> HIDE DEF k
  <2> QED
    BY <1>2 DEF EraseBlock, FlashArray
<1>4. b # v => /\ g.is_programmed[b][p] = k.is_programmed[b][p]
               /\ g.page_valid[b][p] = k.page_valid[b][p]
               /\ g.data[b][p] = k.data[b][p]
  <2> HIDE DEF k
  <2> QED
    BY <1>2 DEF EraseBlock, FlashArray
<1>5. b # r => /\ k.is_programmed[b][p] = f.is_programmed[b][p]
               /\ k.page_valid[b][p] = f.page_valid[b][p]
               /\ k.data[b][p] = f.data[b][p]
  BY <1>1 DEF MigratePages, FlashArray
<1>6. ~f.is_programmed[r][p] /\ ~f.page_valid[r][p]
  BY <1>1 DEF CountsExact
<1>7. b = r => /\ k.is_programmed[b][p] <=> p \in Landed(f, v)
               /\ k.page_valid[b][p] <=> p \in Landed(f, v)
               /\ p \in Landed(f, v) => k.data[b][p] = ReadPage(f, v, Source(f, v, p))
  BY <1>1, <1>6 DEF MigratePages, FlashArray
<1>8. p \in Landed(f, v) => ReadPage(f, v, Source(f, v, p)) = f.data[v][Source(f, v, p)]
  BY <1>1, SourceOfDest DEF ReadPage, Moved, CountsExact
<1> HIDE DEF g, k
<1> QED
  BY <1>1, <1>3, <1>4, <1>5, <1>7, <1>8

(* Re-pointing follows the page: an LBA whose block is on a page of the    *)
(* victim is sent where that page goes, every other entry stays.           *)
LEMMA RepointValue ==
  ASSUME NEW s, Sound(s), NEW X, NEW h, Owned(s, X), Stored(s, X, h),
         NEW v \in Blocks, NEW m \in LBAs
  PROVE  LET e == s.lba_table[m]
         IN  IF m \notin X /\ e.state \in OnFlash /\ e.block_idx = v
             THEN /\ e.page_idx \in Moved(s.flash, v)
                  /\ Repoint(s, v, m) = MovedTo(e, s.reserve_block_idx,
                                                Dest(s.flash, v, e.page_idx))
             ELSE Repoint(s, v, m) = e
<1> DEFINE e == s.lba_table[m]
           M == {p \in Moved(s.flash, v) : m \in s.block_page_owners[v][p]}
<1>1. e \in MappingEntry /\ e.page_idx \in Pages /\ e.page_idx \in Nat
  BY GeometryAssumption DEF Sound, Controller, MappingEntry, Pages
<1>2. M = {p \in Pages : s.flash.page_valid[v][p] /\ m \notin X /\ MappedTo(s, m, v, p)}
  BY DEF Owned, Moved
<1>3. CASE m \notin X /\ e.state \in OnFlash /\ e.block_idx = v
  <2>1. s.flash.page_valid[v][e.page_idx]
    BY <1>3 DEF Stored
  <2>2. M = {e.page_idx} /\ e.page_idx \in Moved(s.flash, v)
    BY <1>1, <1>2, <1>3, <2>1 DEF MappedTo, Moved
  <2>3. Max({e.page_idx}) = e.page_idx
    BY <1>1 DEF Max
  <2>4. Repoint(s, v, m)
          = MovedTo(e, s.reserve_block_idx, Dest(s.flash, v, Max(M)))
    BY <2>2 DEF Repoint
  <2> QED
    BY <1>3, <2>2, <2>3, <2>4
<1>4. CASE ~(m \notin X /\ e.state \in OnFlash /\ e.block_idx = v)
  <2>1. M = {}
    BY <1>2, <1>4 DEF MappedTo
  <2>2. Repoint(s, v, m) = e
    BY <2>1 DEF Repoint
  <2> QED
    BY <1>4, <2>2
<1> QED
  BY <1>3, <1>4

(* The migration loop keeps mapping, owner lists, valid bits and contents  *)
(* in step.                                                                *)
LEMMA CollectGood ==
  ASSUME NEW s, Sound(s), NEW X, NEW h, Good(s, X, h),
         s.rotations < total_blocks - 1, ~NoneInvalid(s)
  PROVE  Good(Collect(s, Victim(s)), X, h)
<1> DEFINE v == Victim(s)
           r == s.reserve_block_idx
           f == s.flash
           t == Collect(s, v)
<1>1. /\ f \in FlashArray /\ CountsExact(f) /\ r \in Blocks
      /\ s.lba_table \in [LBAs -> MappingEntry]
      /\ s.block_page_owners \in [Blocks -> [Pages -> SUBSET LBAs]]
      /\ s.rotations \in Nat
  BY GeometryAssumption DEF Sound, Controller
<1>2. v \in Blocks /\ v # r /\ v <= s.rotations
  BY VictimOK, VictimUsed DEF Good
<1> HIDE DEF v
<1>3. /\ r = s.rotations + 1
      /\ \A b \in Blocks, p \in Pages : b > s.rotations => ~f.is_programmed[b][p]
  BY DEF Good, Untouched
<1>4. \A p \in Pages : ~f.is_programmed[r][p] /\ ~f.page_valid[r][p]
  BY <1>1, <1>3 DEF CountsExact
<1>5. Owned(s, X) /\ Stored(s, X, h) /\ RoomAhead(s)
  BY DEF Good
<1>6. /\ t.lba_table = [l \in LBAs |-> Repoint(s, v, l)]
      /\ t.block_page_owners = MigrateOwners(s, v)
      /\ t.active_block_idx = v /\ t.active_page_idx = 0
      /\ t.reserve_block_idx = NextReserve(r, v)
      /\ t.rotations = s.rotations + 1
  BY <1>1, GeometryAssumption DEF Collect, Rotated
<1>7. \A b \in Blocks, p \in Pages :
        /\ b = v => ~t.flash.is_programmed[b][p] /\ ~t.flash.page_valid[b][p]
        /\ b = r => /\ t.flash.page_valid[b][p] <=> p \in Landed(f, v)
                    /\ t.flash.is_programmed[b][p] <=> p \in Landed(f, v)
                    /\ p \in Landed(f, v) =>
                         t.flash.data[b][p] = f.data[v][Source(f, v, p)]
        /\ b # v /\ b # r => /\ t.flash.is_programmed[b][p] = f.is_programmed[b][p]
                             /\ t.flash.page_valid[b][p] = f.page_valid[b][p]
                             /\ t.flash.data[b][p] = f.data[b][p]
  BY <1>2, <1>4, CollectFlash
<1>8. \A b \in Blocks, p \in Pages :
        t.block_page_owners[b][p] =
          IF b = v THEN {}
          ELSE IF b = r /\ p \in Landed(f, v) THEN s.block_page_owners[v][Source(f, v, p)]
          ELSE s.block_page_owners[b][p]
  BY <1>6 DEF MigrateOwners
<1>9. \A w \in Landed(f, v) : /\ w \in Pages /\ Source(f, v, w) \in Pages
                              /\ f.page_valid[v][Source(f, v, w)]
                              /\ Dest(f, v, Source(f, v, w)) = w
  BY <1>1, <1>2, SourceOfDest DEF Moved
<1>10. \A p \in Moved(f, v) : Dest(f, v, p) \in Landed(f, v)
                               /\ Source(f, v, Dest(f, v, p)) = p
  BY <1>1, <1>2, SourceOfDest
<1>11. ASSUME NEW m \in LBAs
       PROVE  LET e == s.lba_table[m]
                  k == t.lba_table[m]
              IN  /\ k.state = e.state /\ k.sub_slot = e.sub_slot
                  /\ k.compressed_size = e.compressed_size
                  /\ IF m \notin X /\ e.state \in OnFlash /\ e.block_idx = v
                     THEN /\ e.page_idx \in Moved(f, v)
                          /\ k.block_idx = r /\ k.page_idx = Dest(f, v, e.page_idx)
                     ELSE k.block_idx = e.block_idx /\ k.page_idx = e.page_idx
  <2> DEFINE e == s.lba_table[m]
  <2>1. t.lba_table[m] = Repoint(s, v, m)
    BY <1>6
  <2>2. CASE m \notin X /\ e.state \in OnFlash /\ e.block_idx = v
    <3>1. e.page_idx \in Moved(f, v) /\ t.lba_table[m] = MovedTo(e, r, Dest(f, v, e.page_idx))
      BY <1>2, <1>5, <2>1, <2>2, RepointValue
    <3> QED
      BY <2>2, <3>1 DEF MovedTo
  <2>3. CASE ~(m \notin X /\ e.state \in OnFlash /\ e.block_idx = v)
    <3>1. t.lba_table[m] = e
      BY <1>2, <1>5, <2>1, <2>3, RepointValue
    <3> QED
      BY <2>3, <3>1
  <2> QED
    BY <2>2, <2>3
<1> HIDE DEF t
<1>12. Untouched(t)
  <2>1. SUFFICES ASSUME t.rotations < total_blocks - 1
                 PROVE  /\ t.reserve_block_idx = t.rotations + 1
                        /\ t.active_block_idx <= t.rotations
                        /\ \A b \in Blocks, p \in Pages :
                             b > t.rotations => ~t.flash.is_programmed[b][p]
    BY DEF Untouched
  <2>2. Next1(r) = r + 1 /\ Next1(r) # v
    BY <1>1, <1>2, <1>3, <1>6, <2>1, Next1Value, GeometryAssumption DEF Blocks
  <2>3. t.reserve_block_idx = t.rotations + 1
    BY <1>3, <1>6, <2>2 DEF NextReserve
  <2>4. t.active_block_idx <= t.rotations
    BY <1>1, <1>2, <1>6, GeometryAssumption DEF Blocks
  <2>5. ASSUME NEW b \in Blocks, NEW p \in Pages, b > t.rotations
        PROVE  ~t.flash.is_programmed[b][p]
    <3>1. b # v /\ b # r /\ b > s.rotations
      BY <1>1, <1>2, <1>3, <1>6, <2>5, GeometryAssumption DEF Blocks
    <3> QED
      BY <1>3, <1>7, <3>1
  <2> QED
    BY <2>3, <2>4, <2>5
<1>13. RoomAhead(t)
  BY <1>2, <1>4, <1>5, <1>6, <1>7, <1>8 DEF RoomAhead
<1>14. Owned(t, X)
  <2>1. ASSUME NEW b \in Blocks, NEW p \in Pages
        PROVE  t.block_page_owners[b][p] \subseteq LBAs
    BY <1>1, <1>2, <1>8, <1>9
  <2>2. ASSUME NEW b \in Blocks, NEW p \in Pages, t.flash.page_valid[b][p], NEW m \in LBAs
        PROVE  m \in t.block_page_owners[b][p] <=> m \notin X /\ MappedTo(t, m, b, p)
    <3> DEFINE e == s.lba_table[m]
    <3>1. e.block_idx \in Blocks /\ e.page_idx \in Pages
      BY <1>1 DEF MappingEntry
    <3>2. b # v
      BY <1>7, <2>2
    <3>3. CASE b = r
      <4>1. p \in Landed(f, v)
        BY <1>7, <2>2, <3>3
      <4> DEFINE q == Source(f, v, p)
      <4>2. t.block_page_owners[b][p] = s.block_page_owners[v][q]
        BY <1>8, <3>2, <3>3, <4>1
      <4>3. m \in s.block_page_owners[v][q] <=> m \notin X /\ MappedTo(s, m, v, q)
        BY <1>2, <1>5, <1>9, <4>1 DEF Owned
      <4>4. m \notin X /\ MappedTo(s, m, v, q) => MappedTo(t, m, b, p)
        BY <1>9, <1>11, <3>3, <4>1 DEF MappedTo
      <4>5. ASSUME m \notin X, MappedTo(t, m, b, p) PROVE MappedTo(s, m, v, q)
        <5>1. CASE e.state \in OnFlash /\ e.block_idx = v
          <6>1. e.page_idx \in Moved(f, v) /\ Dest(f, v, e.page_idx) = p
            BY <1>11, <4>5, <5>1 DEF MappedTo
          <6> QED
            BY <1>10, <5>1, <6>1 DEF MappedTo
        <5>2. CASE ~(e.state \in OnFlash /\ e.block_idx = v)
          <6>1. e.state \in OnFlash /\ e.block_idx = r /\ e.page_idx = p
            BY <1>11, <3>3, <4>5, <5>2 DEF MappedTo
          <6>2. f.page_valid[r][p]
            BY <1>5, <4>5, <6>1 DEF Stored
          <6> QED
            BY <1>4, <6>2
        <5> QED
          BY <5>1, <5>2
      <4> QED
        BY <4>2, <4>3, <4>4, <4>5
    <3>4. CASE b # r
      <4>1. f.page_valid[b][p] /\ t.block_page_owners[b][p] = s.block_page_owners[b][p]
        BY <1>7, <1>8, <2>2, <3>2, <3>4
      <4>2. m \in s.block_page_owners[b][p] <=> m \notin X /\ MappedTo(s, m, b, p)
        BY <1>5, <4>1 DEF Owned
      <4>3. m \notin X => (MappedTo(s, m, b, p) <=> MappedTo(t, m, b, p))
        BY <1>11, <3>2, <3>4 DEF MappedTo
      <4> QED
        BY <4>1, <4>2, <4>3
    <3> QED
      BY <3>3, <3>4
  <2> QED
    BY <2>1, <2>2 DEF Owned
<1>15. Stored(t, X, h)
  <2>1. SUFFICES ASSUME NEW m \in LBAs, m \notin X
                 PROVE  LET e == t.lba_table[m]
                        IN  IF e.state \in OnFlash
                            THEN /\ t.flash.page_valid[e.block_idx][e.page_idx]
                                 /\ Holds(t.flash.data[e.block_idx][e.page_idx], e, h[m])
                            ELSE h[m] = Zero
    BY DEF Stored
  <2> DEFINE e == s.lba_table[m]
             k == t.lba_table[m]
  <2>2. e.block_idx \in Blocks /\ e.page_idx \in Pages
    BY <1>1 DEF MappingEntry
  <2>3. CASE e.state \notin OnFlash
    BY <1>5, <1>11, <2>1, <2>3 DEF Stored
  <2>4. CASE e.state \in OnFlash /\ e.block_idx = v
    <3> DEFINE w == Dest(f, v, e.page_idx)
    <3>1. /\ e.page_idx \in Moved(f, v) /\ k.block_idx = r /\ k.page_idx = w
          /\ k.state = e.state
      BY <1>11, <2>1, <2>4
    <3>2. w \in Landed(f, v) /\ Source(f, v, w) = e.page_idx /\ w \in Pages
      BY <1>9, <1>10, <3>1
    <3>3. t.flash.page_valid[r][w] /\ t.flash.data[r][w] = f.data[v][e.page_idx]
      BY <1>1, <1>7, <3>2
    <3>4. Holds(f.data[v][e.page_idx], e, h[m])
      BY <1>5, <2>1, <2>4 DEF Stored
    <3>5. Holds(t.flash.data[r][w], k, h[m])
      BY <1>11, <3>3, <3>4, HoldsFields
    <3> QED
      BY <2>4, <3>1, <3>3, <3>5
  <2>5. CASE e.state \in OnFlash /\ e.block_idx # v
    <3>1. k.state = e.state /\ k.block_idx = e.block_idx /\ k.page_idx = e.page_idx
      BY <1>11, <2>5
    <3>2. f.page_valid[e.block_idx][e.page_idx]
          /\ Holds(f.data[e.block_idx][e.page_idx], e, h[m])
      BY <1>5, <2>1, <2>5 DEF Stored
    <3>3. e.block_idx # r
      BY <1>4, <2>2, <3>2
    <3>4. /\ t.flash.page_valid[e.block_idx][e.page_idx]
          /\ t.flash.data[e.block_idx][e.page_idx] = f.data[e.block_idx][e.page_idx]
      BY <1>7, <2>2, <2>5, <3>2, <3>3
    <3>5. Holds(t.flash.data[e.block_idx][e.page_idx], k, h[m])
      BY <1>11, <3>2, <3>4, HoldsFields
    <3> QED
      BY <2>5, <3>1, <3>4, <3>5
  <2> QED
    BY <2>3, <2>4, <2>5
<1> QED
  BY <1>12, <1>13, <1>14, <1>15 DEF Good, t, v

(* Moving on to the reserve when nothing can be reclaimed.                 *)
LEMMA AdvanceGood ==
  ASSUME NEW s, Sound(s), NEW X, NEW h, Good(s, X, h), s.rotations < total_blocks - 1
  PROVE  Good(AdvanceToReserve(s), X, h)
<1> DEFINE t == AdvanceToReserve(s)
           r == s.reserve_block_idx
<1>1. r \in Blocks /\ s.rotations \in Nat
  BY GeometryAssumption DEF Sound, Controller
<1>2. /\ t.flash = s.flash /\ t.lba_table = s.lba_table
      /\ t.block_page_owners = s.block_page_owners
      /\ t.active_block_idx = r /\ t.active_page_idx = 0
      /\ t.reserve_block_idx = Next1(r) /\ t.rotations = s.rotations + 1
  BY <1>1, GeometryAssumption DEF AdvanceToReserve, Rotated
<1>3. /\ r = s.rotations + 1
      /\ \A b \in Blocks, p \in Pages : b > s.rotations => ~s.flash.is_programmed[b][p]
  BY DEF Good, Untouched
<1>4. RoomAhead(s) /\ Owned(s, X) /\ Stored(s, X, h)
  BY DEF Good
<1> HIDE DEF t
<1>5. Untouched(t)
  <2>1. t.rotations < total_blocks - 1 => t.reserve_block_idx = t.rotations + 1
    BY <1>1, <1>2, <1>3, Next1Value, GeometryAssumption
  <2>2. \A b \in Blocks : b > t.rotations => b > s.rotations
    BY <1>1, <1>2, GeometryAssumption DEF Blocks
  <2>3. t.active_block_idx <= t.rotations
    BY <1>1, <1>2, <1>3
  <2> QED
    BY <1>2, <1>3, <2>1, <2>2, <2>3 DEF Untouched
<1>6. RoomAhead(t)
  BY <1>1, <1>2, <1>3, <1>4 DEF RoomAhead
<1>7. Owned(t, X)
  BY <1>2, <1>4 DEF Owned, MappedTo
<1>8. Stored(t, X, h)
  BY <1>2, <1>4 DEF Stored
<1> QED
  BY <1>5, <1>6, <1>7, <1>8 DEF Good, t

(* A collection that does not end the first lap keeps the data, and one    *)
(* that follows the first lap does not begin it again.                     *)
LEMMA CollectionGood ==
  ASSUME NEW s, Sound(s), RunGarbageCollectionIfNeeded(s).rotations < total_blocks
  PROVE  /\ s.rotations < total_blocks
         /\ \A X, h : Good(s, X, h) => Good(RunGarbageCollectionIfNeeded(s), X, h)
<1> DEFINE t == RunGarbageCollectionIfNeeded(s)
<1>1. s.rotations \in 0 .. total_blocks
  BY DEF Sound, Controller
<1>2. CASE s.active_page_idx < pages_per_block
  BY <1>2 DEF RunGarbageCollectionIfNeeded
<1>3. CASE ~(s.active_page_idx < pages_per_block) /\ NoneInvalid(s)
  <2>1. t = AdvanceToReserve(s)
    BY <1>3 DEF RunGarbageCollectionIfNeeded
  <2>2. t.rotations = Rotated(s)
    BY <2>1 DEF AdvanceToReserve
  <2>3. s.rotations < total_blocks - 1
    BY <1>1, <2>2, GeometryAssumption DEF Rotated
  <2> QED
    BY <1>1, <2>1, <2>3, AdvanceGood, GeometryAssumption
<1>4. CASE ~(s.active_page_idx < pages_per_block) /\ ~NoneInvalid(s)
  <2>1. t = Collect(s, Victim(s))
    BY <1>4 DEF RunGarbageCollectionIfNeeded
  <2>2. t.rotations = Rotated(s)
    BY <2>1 DEF Collect
  <2>3. s.rotations < total_blocks - 1
    BY <1>1, <2>2, GeometryAssumption DEF Rotated
  <2> QED
    BY <1>1, <1>4, <2>1, <2>3, CollectGood, GeometryAssumption
<1> QED
  BY <1>2, <1>3, <1>4

-----------------------------------------------------------------------------
(* Placing a page that holds the blocks of the LBAs in S, which were       *)
(* exempt, brings them back among those whose data is safe.                *)
LEMMA PlaceGood ==
  ASSUME NEW s, Sound(s), NEW X, NEW h, NEW image \in PageImage,
         NEW S \in SUBSET LBAs, S \subseteq X, NEW placed \in [S -> Placement],
         \A m \in S : Holds(image, placed[m], h[m]),
         s.rotations < total_blocks => Good(s, X, h),
         PlacePage(s, image, placed).rotations < total_blocks
  PROVE  /\ s.rotations < total_blocks
         /\ Good(PlacePage(s, image, placed), X \ S, h)
<1> DEFINE t == RunGarbageCollectionIfNeeded(s)
           u == PlacePage(s, image, placed)
           b == t.active_block_idx
           p == t.active_page_idx
           f == t.flash
<1>1. t.rotations < total_blocks
  BY DEF PlacePage
<1>2. Sound(t) /\ p \in Pages
  BY CollectionSound
<1>3. s.rotations < total_blocks /\ Good(t, X, h)
  BY <1>1, CollectionGood
<1>4. /\ u.flash = ProgramPage(f, b, p, image)
      /\ u.lba_table = [l \in LBAs |-> IF l \in S THEN MovedTo(placed[l], b, p)
                                                  ELSE t.lba_table[l]]
      /\ u.active_block_idx = b /\ u.active_page_idx = p + 1
      /\ u.reserve_block_idx = t.reserve_block_idx /\ u.rotations = t.rotations
      /\ u.block_page_owners = [t.block_page_owners EXCEPT ![b][p] = @ \cup S]
  BY DEF PlacePage
<1> HIDE DEF t, u
<1>5. /\ f \in FlashArray /\ CountsExact(f) /\ b \in Blocks
      /\ t.lba_table \in [LBAs -> MappingEntry]
      /\ t.block_page_owners \in [Blocks -> [Pages -> SUBSET LBAs]]
      /\ t.rotations \in Nat /\ p \in Nat
  BY <1>2, GeometryAssumption DEF Sound, Controller, Pages
<1>6. Untouched(t) /\ RoomAhead(t) /\ Owned(t, X) /\ Stored(t, X, h)
  BY <1>3 DEF Good
<1>7. ~f.is_programmed[b][p] /\ ~f.page_valid[b][p] /\ t.block_page_owners[b][p] = {}
  BY <1>2, <1>5, <1>6 DEF RoomAhead, CountsExact
<1>8. \A c \in Blocks, q \in Pages :
        /\ u.flash.is_programmed[c][q] <=> f.is_programmed[c][q] \/ (c = b /\ q = p)
        /\ u.flash.page_valid[c][q] <=> f.page_valid[c][q] \/ (c = b /\ q = p)
        /\ u.flash.data[c][q] = IF c = b /\ q = p THEN image ELSE f.data[c][q]
        /\ u.block_page_owners[c][q] = IF c = b /\ q = p THEN S
                                       ELSE t.block_page_owners[c][q]
  BY <1>2, <1>4, <1>5, <1>7 DEF ProgramPage, FlashArray
<1>9. ASSUME NEW m \in LBAs, m \notin S
      PROVE  u.lba_table[m] = t.lba_table[m]
  BY <1>4, <1>9
<1>10. ASSUME NEW m \in S
       PROVE  LET k == u.lba_table[m]
              IN  /\ k.state \in OnFlash /\ k.block_idx = b /\ k.page_idx = p
                  /\ Holds(image, k, h[m])
  <2>1. u.lba_table[m] = MovedTo(placed[m], b, p)
    BY <1>4
  <2>2. placed[m].state \in OnFlash /\ Holds(image, placed[m], h[m])
    BY DEF Placement
  <2>3. LET k == u.lba_table[m]
        IN  /\ k.state = placed[m].state /\ k.block_idx = b /\ k.page_idx = p
            /\ k.sub_slot = placed[m].sub_slot
            /\ k.compressed_size = placed[m].compressed_size
    BY <2>1 DEF MovedTo
  <2> QED
    BY <2>2, <2>3, HoldsFields
<1>11. \A m \in LBAs \ X : ~MappedTo(t, m, b, p)
  BY <1>6, <1>7 DEF Stored, MappedTo
<1>12. Untouched(u)
  <2>1. t.rotations < total_blocks - 1 => ~(b > t.rotations)
    BY <1>5, <1>6, GeometryAssumption DEF Untouched, Blocks
  <2> QED
    BY <1>4, <1>6, <1>8, <2>1 DEF Untouched
<1>13. RoomAhead(u)
  <2>1. \A q \in Pages : q >= p + 1 => q >= p /\ q # p
    BY <1>5, GeometryAssumption DEF Pages
  <2>2. \A q \in Pages : q >= p + 1 => ~u.flash.is_programmed[b][q]
    BY <1>5, <1>6, <1>8, <2>1 DEF RoomAhead
  <2>3. ASSUME NEW c \in Blocks, NEW q \in Pages, ~u.flash.is_programmed[c][q]
        PROVE  u.block_page_owners[c][q] = {}
    BY <1>6, <1>8, <2>3 DEF RoomAhead
  <2> QED
    BY <1>4, <2>2, <2>3 DEF RoomAhead
<1>14. Owned(u, X \ S)
  <2>1. \A c \in Blocks, q \in Pages : u.block_page_owners[c][q] \subseteq LBAs
    BY <1>5, <1>8
  <2>2. ASSUME NEW c \in Blocks, NEW q \in Pages, u.flash.page_valid[c][q], NEW m \in LBAs
        PROVE  m \in u.block_page_owners[c][q] <=> m \notin X \ S /\ MappedTo(u, m, c, q)
    <3>1. CASE c = b /\ q = p
      BY <1>8, <1>9, <1>10, <1>11, <3>1 DEF MappedTo
    <3>2. CASE ~(c = b /\ q = p)
      <4>1. f.page_valid[c][q] /\ u.block_page_owners[c][q] = t.block_page_owners[c][q]
        BY <1>8, <2>2, <3>2
      <4>2. m \in t.block_page_owners[c][q] <=> m \notin X /\ MappedTo(t, m, c, q)
        BY <1>6, <4>1 DEF Owned
      <4>3. m \in S => ~MappedTo(u, m, c, q)
        BY <1>10, <3>2 DEF MappedTo
      <4>4. m \notin S => (MappedTo(u, m, c, q) <=> MappedTo(t, m, c, q))
        BY <1>9 DEF MappedTo
      <4> QED
        BY <4>1, <4>2, <4>3, <4>4
    <3> QED
      BY <3>1, <3>2
  <2> QED
    BY <2>1, <2>2 DEF Owned
<1>15. Stored(u, X \ S, h)
  <2>1. SUFFICES ASSUME NEW m \in LBAs, m \notin X \ S
                 PROVE  LET e == u.lba_table[m]
                        IN  IF e.state \in OnFlash
                            THEN /\ u.flash.page_valid[e.block_idx][e.page_idx]
                                 /\ Holds(u.flash.data[e.block_idx][e.page_idx], e, h[m])
                            ELSE h[m] = Zero
    BY DEF Stored
  <2>2. CASE m \in S
    BY <1>2, <1>5, <1>8, <1>10, <2>2
  <2>3. CASE m \notin S
    <3> DEFINE e == t.lba_table[m]
    <3>1. m \notin X /\ u.lba_table[m] = e /\ e.block_idx \in Blocks /\ e.page_idx \in Pages
      BY <1>5, <1>9, <2>1, <2>3 DEF MappingEntry
    <3>2. e.state \notin OnFlash => h[m] = Zero
      BY <1>6, <3>1 DEF Stored
    <3>3. e.state \in OnFlash => /\ f.page_valid[e.block_idx][e.page_idx]
                                 /\ Holds(f.data[e.block_idx][e.page_idx], e, h[m])
      BY <1>6, <3>1 DEF Stored
    <3>4. e.state \in OnFlash => ~(e.block_idx = b /\ e.page_idx = p)
      BY <1>7, <3>3
    <3>5. e.state \in OnFlash =>
            /\ u.flash.page_valid[e.block_idx][e.page_idx]
            /\ u.flash.data[e.block_idx][e.page_idx] = f.data[e.block_idx][e.page_idx]
      <4> DEFINE c == e.block_idx
                 q == e.page_idx
      <4>1. c \in Blocks /\ q \in Pages
        BY <3>1
      <4>2. e.state \in OnFlash => f.page_valid[c][q] /\ ~(c = b /\ q = p)
        BY <3>3, <3>4
      <4> HIDE DEF c, q
      <4>3. e.state \in OnFlash =>
              u.flash.page_valid[c][q] /\ u.flash.data[c][q] = f.data[c][q]
        BY <1>8, <4>1, <4>2
      <4> QED
        BY <4>3 DEF c, q
    <3>6. e.state \in OnFlash => Holds(u.flash.data[e.block_idx][e.page_idx], e, h[m])
      <4> DEFINE old == f.data[e.block_idx][e.page_idx]
                 new == u.flash.data[e.block_idx][e.page_idx]
      <4> HIDE DEF old, new
      <4>1. e.state \in OnFlash => Holds(old, e, h[m]) /\ new = old
        BY <3>3, <3>5 DEF old, new
      <4> QED
        BY <4>1 DEF new
    <3> HIDE DEF e
    <3> QED
      BY <3>1, <3>2, <3>5, <3>6
  <2> QED
    BY <2>2, <2>3
<1> QED
  BY <1>3, <1>12, <1>13, <1>14, <1>15 DEF Good, u

-----------------------------------------------------------------------------
(* Good does not look at the staging buffer, nor at what the host wrote to *)
(* an exempt LBA.                                                          *)
LEMMA GoodFields ==
  ASSUME NEW s, NEW t, NEW X, NEW h, NEW g, Good(s, X, h),
         t.flash = s.flash, t.lba_table = s.lba_table,
         t.block_page_owners = s.block_page_owners,
         t.active_block_idx = s.active_block_idx, t.active_page_idx = s.active_page_idx,
         t.reserve_block_idx = s.reserve_block_idx, t.rotations = s.rotations,
         \A m \in LBAs \ X : g[m] = h[m]
  PROVE  Good(t, X, g)
<1>1. Untouched(t) /\ RoomAhead(t)
  BY DEF Good, Untouched, RoomAhead
<1>2. Owned(t, X)
  BY DEF Good, Owned, MappedTo
<1>3. Stored(t, X, g)
  BY DEF Good, Stored
<1> QED
  BY <1>1, <1>2, <1>3 DEF Good

(* Changing the staging buffer alone changes nothing on flash.             *)
LEMMA DropStagedGood ==
  ASSUME NEW s, Sound(s), NEW X, NEW h, Good(s, X, h), NEW k
  PROVE  Good([s EXCEPT !.staged_half = k], X, h)
<1> DEFINE t == [s EXCEPT !.staged_half = k]
<1>1. /\ t.flash = s.flash /\ t.lba_table = s.lba_table
      /\ t.block_page_owners = s.block_page_owners
      /\ t.active_block_idx = s.active_block_idx /\ t.active_page_idx = s.active_page_idx
      /\ t.reserve_block_idx = s.reserve_block_idx /\ t.rotations = s.rotations
  BY DEF Sound, Controller
<1> HIDE DEF t
<1>2. Good(t, X, h)
  BY <1>1, GoodFields
<1> QED
  BY <1>2 DEF t

(* WriteBlock's prefix makes one page stale; everyone mapped to it must be *)
(* exempt afterwards, and so must the LBA being written.                   *)
LEMMA SupersededGood ==
  ASSUME NEW s, Sound(s), NEW X, NEW Y, NEW h, Good(s, X, h), NEW l \in LBAs,
         X \subseteq Y, l \in Y,
         \A m \in LBAs \ {l} : m \notin X =>
           (m \in Y <=> /\ s.lba_table[l].state \in OnFlash
                        /\ MappedTo(s, m, s.lba_table[l].block_idx, s.lba_table[l].page_idx))
  PROVE  Good(Superseded(s, l), Y, h)
<1> DEFINE t == Superseded(s, l)
           e == s.lba_table[l]
           b == e.block_idx
           p == e.page_idx
           f == s.flash
<1>1. f \in FlashArray /\ b \in Blocks /\ p \in Pages /\ CountsExact(f)
      /\ s.block_page_owners \in [Blocks -> [Pages -> SUBSET LBAs]]
      /\ s.lba_table \in [LBAs -> MappingEntry]
  BY DEF Sound, Controller, MappingEntry
<1>2. /\ t.flash = IF e.state \in OnFlash THEN InvalidatePage(f, b, p) ELSE f
      /\ t.lba_table = s.lba_table /\ t.block_page_owners = s.block_page_owners
      /\ t.active_block_idx = s.active_block_idx /\ t.active_page_idx = s.active_page_idx
      /\ t.reserve_block_idx = s.reserve_block_idx /\ t.rotations = s.rotations
  BY DEF Superseded
<1> HIDE DEF t
<1>3. \A c \in Blocks, q \in Pages :
        /\ t.flash.is_programmed[c][q] = f.is_programmed[c][q]
        /\ t.flash.data[c][q] = f.data[c][q]
        /\ t.flash.page_valid[c][q]
             <=> f.page_valid[c][q] /\ ~(e.state \in OnFlash /\ c = b /\ q = p)
  <2>1. CASE e.state \in OnFlash
    <3>1. CASE ~f.page_valid[b][p]
      BY <1>1, <1>2, <2>1, <3>1 DEF InvalidatePage
    <3>2. CASE f.page_valid[b][p]
      <4>1. /\ t.flash.is_programmed = f.is_programmed /\ t.flash.data = f.data
            /\ t.flash.page_valid = [f.page_valid EXCEPT ![b][p] = FALSE]
        BY <1>2, <2>1, <3>2 DEF InvalidatePage
      <4> QED
        BY <1>1, <2>1, <4>1 DEF FlashArray
    <3> QED
      BY <3>1, <3>2
  <2>2. CASE e.state \notin OnFlash
    BY <1>2, <2>2
  <2> QED
    BY <2>1, <2>2
<1>4. Untouched(s) /\ RoomAhead(s) /\ Owned(s, X) /\ Stored(s, X, h)
  BY DEF Good
<1>5. Untouched(t)
  BY <1>2, <1>3, <1>4 DEF Untouched
<1>6. RoomAhead(t)
  <2>1. s.active_block_idx \in Blocks
    BY DEF Sound, Controller
  <2> QED
    BY <1>2, <1>3, <1>4, <2>1 DEF RoomAhead
<1>7. Owned(t, Y)
  <2>1. ASSUME NEW c \in Blocks, NEW q \in Pages, t.flash.page_valid[c][q], NEW m \in LBAs
        PROVE  m \in s.block_page_owners[c][q] <=> m \notin Y /\ MappedTo(s, m, c, q)
    <3>1. f.page_valid[c][q] /\ ~(e.state \in OnFlash /\ c = b /\ q = p)
      BY <1>3, <2>1
    <3>2. m \in s.block_page_owners[c][q] <=> m \notin X /\ MappedTo(s, m, c, q)
      BY <1>4, <3>1 DEF Owned
    <3>3. m \in Y /\ m \notin X => ~MappedTo(s, m, c, q)
      BY <3>1 DEF MappedTo
    <3> QED
      BY <3>2, <3>3
  <2> QED
    BY <1>1, <1>2, <2>1 DEF Owned, MappedTo
<1>8. Stored(t, Y, h)
  <2>1. SUFFICES ASSUME NEW m \in LBAs, m \notin Y
                 PROVE  LET k == s.lba_table[m]
                        IN  IF k.state \in OnFlash
                            THEN /\ t.flash.page_valid[k.block_idx][k.page_idx]
                                 /\ Holds(t.flash.data[k.block_idx][k.page_idx], k, h[m])
                            ELSE h[m] = Zero
    BY <1>2 DEF Stored
  <2> DEFINE k == s.lba_table[m]
             c == k.block_idx
             q == k.page_idx
  <2>2. c \in Blocks /\ q \in Pages /\ m \notin X /\ m # l
    BY <1>1, <2>1 DEF MappingEntry
  <2>3. CASE k.state \notin OnFlash
    BY <1>4, <2>2, <2>3 DEF Stored
  <2>4. CASE k.state \in OnFlash
    <3>1. f.page_valid[c][q] /\ Holds(f.data[c][q], k, h[m])
      BY <1>4, <2>2, <2>4 DEF Stored
    <3>2. ~(e.state \in OnFlash /\ c = b /\ q = p)
      BY <2>1, <2>2, <2>4 DEF MappedTo
    <3> HIDE DEF c, q
    <3>3. t.flash.page_valid[c][q] /\ t.flash.data[c][q] = f.data[c][q]
      BY <1>3, <2>2, <3>1, <3>2
    <3> QED
      BY <2>4, <3>1, <3>3 DEF c, q
  <2> QED
    BY <2>3, <2>4
<1> QED
  BY <1>5, <1>6, <1>7, <1>8 DEF Good, t

(* A block that fits half a page reaches WriteBlock as its LZ4 stream.     *)
LEMMA HalfIsCompressed ==
  ASSUME NEW d \in Data, FitsHalf(Compress(d))
  PROVE  /\ Compress(d).data = LZ4(d)
         /\ Compress(d).compressed_size = LZ4Size[d] /\ LZ4Size[d] > 0
<1>1. LZ4Size[d] \in Int
  BY SizeAssumption
<1>2. d # Zero
  BY DEF FitsHalf, Compress
<1>3. ~StoredRaw(d)
  BY <1>2 DEF FitsHalf, Compress, FLASH_PAGE_SIZE, HALF_PAGE
<1> QED
  BY <1>1, <1>2, <1>3 DEF Compress, StoredRaw

(* Flushing brings the staged LBA back among the safe ones.                *)
LEMMA FlushGood ==
  ASSUME NEW s, Sound(s), NEW Y, NEW C, NEW h, StagedLBA(s) \subseteq Y,
         s.rotations < total_blocks => Good(s, Y, h) /\ StagedRight(s, C, h),
         FlushStagedWrites(s).rotations < total_blocks
  PROVE  /\ s.rotations < total_blocks
         /\ Good(FlushStagedWrites(s), Y \ StagedLBA(s), h)
         /\ StagedLBA(FlushStagedWrites(s)) = {}
<1> DEFINE k == s.staged_half
           image == Packed(k.data, Blank)
           placed == [l \in {k.lba} |-> Half(0, k.comp_size)]
           u == PlacePage(s, image, placed)
           t == FlushStagedWrites(s)
<1>1. CASE ~k.has_value
  <2>1. t = s /\ StagedLBA(s) = {} /\ Y \ {} = Y
    BY <1>1 DEF FlushStagedWrites, StagedLBA
  <2> QED
    BY <2>1
<1>2. CASE k.has_value
  <2>1. k.lba \in LBAs /\ k.comp_size \in 0 .. HALF_PAGE /\ k.data \in Bytes
    BY DEF Sound, Controller, StagedHalfPage
  <2>2. image \in PageImage
    BY <2>1, ImagesTyped, PackedTyped
  <2>3. placed \in [{k.lba} -> Placement] /\ {k.lba} \in SUBSET LBAs
    BY <2>1, PlacementTyped DEF Slots
  <2>4. Sound(u)
    BY <2>2, <2>3, PlacePageSound
  <2>5. t = [u EXCEPT !.staged_half = NothingStaged]
    BY <1>2 DEF FlushStagedWrites
  <2>6. StagedLBA(s) = {k.lba}
    BY <1>2, <2>1 DEF StagedLBA
  <2> HIDE DEF u
  <2>7. u.rotations = t.rotations /\ t.staged_half = NothingStaged
    BY <2>4, <2>5 DEF Sound, Controller
  <2>8. s.rotations < total_blocks
    BY <2>1, <2>2, <2>3, <2>7, CollectionGood DEF u, PlacePage
  <2>9. \A m \in {k.lba} : Holds(image, placed[m], h[m])
    <3>1. k.data = LZ4(h[k.lba]) /\ k.comp_size = LZ4Size[h[k.lba]] /\ LZ4Size[h[k.lba]] > 0
      BY <2>6, <2>8 DEF StagedRight
    <3>2. placed[k.lba] = Half(0, k.comp_size) /\ image[0] = k.data
      BY DEF Packed, Slots
    <3> QED
      BY <3>1, <3>2 DEF Holds, Half
  <2> HIDE DEF image, placed
  <2>10. Good(u, Y \ {k.lba}, h)
    <3> DEFINE S == {k.lba}
    <3>1. S \subseteq Y /\ S \in SUBSET LBAs /\ placed \in [S -> Placement]
          /\ \A m \in S : Holds(image, placed[m], h[m])
      BY <2>3, <2>6, <2>9
    <3>2. PlacePage(s, image, placed).rotations < total_blocks
      BY <2>7 DEF u
    <3> HIDE DEF S, k, t
    <3>3. Good(PlacePage(s, image, placed), Y \ S, h)
      BY <2>2, <3>1, <3>2, PlaceGood
    <3> QED
      BY <3>3 DEF u, S
  <2>11. StagedLBA(t) = {}
    BY <2>7 DEF StagedLBA, NothingStaged
  <2>12. Good(t, Y \ StagedLBA(s), h)
    <3>1. Good([u EXCEPT !.staged_half = NothingStaged], Y \ {k.lba}, h)
      BY <2>4, <2>10, DropStagedGood
    <3> HIDE DEF t, k
    <3> QED
      BY <2>5, <2>6, <3>1
  <2> QED
    BY <2>8, <2>11, <2>12
<1> QED
  BY <1>1, <1>2

-----------------------------------------------------------------------------
(* After WriteBlock's prefix, with the history brought up to date, all is  *)
(* well except for the LBA being written and the one still staged.         *)
LEMMA PrefixGood ==
  ASSUME Inv, NEW l \in LBAs, NEW d \in Data, Recorded(l, d),
         Superseded(ftl, l).rotations < total_blocks
  PROVE  LET s == Superseded(ftl, l)
         IN  /\ Good(s, collateral' \cup StagedLBA(s) \cup {l}, host')
             /\ StagedRight(s, collateral', host')
             /\ l \notin StagedLBA(s)
<1> DEFINE s == Superseded(ftl, l)
           X == collateral \cup StagedLBA(ftl)
           Y == collateral' \cup StagedLBA(s) \cup {l}
           e == ftl.lba_table[l]
           hit == {m \in LBAs \ {l} : /\ e.state \in OnFlash
                                      /\ LiveAt(ftl, m, e.block_idx, e.page_idx)}
<1>1. /\ host' = [host EXCEPT ![l] = d]
      /\ collateral' = (collateral \cup hit) \ {l}
  BY DEF Recorded
<1>2. Good(ftl, X, host) /\ StagedRight(ftl, collateral, host)
  <2>1. FirstLap
    BY DEF Superseded, FirstLap
  <2> QED
    BY <2>1 DEF Inv, FirstLapInv
<1>3. s.staged_half = IF ftl.staged_half.has_value /\ ftl.staged_half.lba = l
                      THEN NothingStaged ELSE ftl.staged_half
  BY DEF Superseded
<1>4. /\ StagedLBA(s) = StagedLBA(ftl) \ {l}
      /\ StagedLBA(s) # {} => s.staged_half = ftl.staged_half
  BY <1>3 DEF StagedLBA, NothingStaged
<1>5. \A m \in LBAs : m \in hit <=> /\ m # l /\ m \notin StagedLBA(ftl)
                                    /\ e.state \in OnFlash
                                    /\ MappedTo(ftl, m, e.block_idx, e.page_idx)
  BY DEF LiveAt, StagedLBA, MappedTo
<1>6. Good(s, Y, host)
  <2>1. X \subseteq Y /\ l \in Y
    BY <1>1, <1>4
  <2>2. \A m \in LBAs \ {l} : m \notin X =>
          (m \in Y <=> /\ e.state \in OnFlash
                       /\ MappedTo(ftl, m, e.block_idx, e.page_idx))
    <3> HIDE DEF hit, e
    <3> QED
      BY <1>1, <1>4, <1>5
  <2>3. Sound(ftl)
    BY DEF Inv
  <2> HIDE DEF X, Y
  <2> QED
    BY <1>2, <2>1, <2>2, <2>3, SupersededGood
<1>7. Good(s, Y, host')
  <2>1. \A m \in LBAs \ Y : host'[m] = host[m]
    BY <1>1 DEF Inv
  <2> HIDE DEF s, Y
  <2> QED
    BY <1>6, <2>1, GoodFields
<1>8. StagedRight(s, collateral', host')
  <2>1. SUFFICES ASSUME NEW m \in StagedLBA(s)
                 PROVE  /\ m \notin collateral'
                        /\ s.staged_half.data = LZ4(host'[m])
                        /\ s.staged_half.comp_size = LZ4Size[host'[m]]
                        /\ LZ4Size[host'[m]] > 0
    BY DEF StagedRight
  <2>2. m \in StagedLBA(ftl) /\ m # l /\ s.staged_half = ftl.staged_half /\ m \in LBAs
    BY <1>4 DEF StagedLBA
  <2>3. host'[m] = host[m]
    BY <1>1, <2>2 DEF Inv
  <2>4. /\ m \notin collateral
        /\ ftl.staged_half.data = LZ4(host[m])
        /\ ftl.staged_half.comp_size = LZ4Size[host[m]]
        /\ LZ4Size[host[m]] > 0
    BY <1>2, <2>2 DEF StagedRight
  <2>5. m \notin collateral'
    <3> HIDE DEF hit
    <3> QED
      BY <1>1, <1>5, <2>2, <2>4
  <2> QED
    BY <2>2, <2>3, <2>4, <2>5
<1> QED
  BY <1>4, <1>7, <1>8

(* What each action must establish when it does not end the first lap.     *)
GoodAfter ==
  /\ Good(ftl', collateral' \cup StagedLBA(ftl'), host')
  /\ StagedRight(ftl', collateral', host')

(* A zero block: the LBA leaves flash, its old page is stale.              *)
LEMMA WriteZeroGood ==
  ASSUME Inv, NEW l \in LBAs, NEW d \in Data, WriteZero(l, d), FirstLap'
  PROVE  GoodAfter
<1> DEFINE s == Superseded(ftl, l)
           table == [ftl.lba_table EXCEPT ![l] = Sparse(@)]
           Y == collateral' \cup StagedLBA(s) \cup {l}
           Z == collateral' \cup StagedLBA(s)
<1>1. ftl' = [s EXCEPT !.lba_table = table] /\ Recorded(l, d) /\ d = Zero
  BY DEF WriteZero, Compress
<1>2. Sound(s) /\ s.lba_table = ftl.lba_table
  BY SupersededSound DEF Inv, Superseded
<1> HIDE DEF s
<1>3. /\ ftl'.flash = s.flash /\ ftl'.lba_table = table
      /\ ftl'.block_page_owners = s.block_page_owners
      /\ ftl'.active_block_idx = s.active_block_idx
      /\ ftl'.active_page_idx = s.active_page_idx
      /\ ftl'.reserve_block_idx = s.reserve_block_idx
      /\ ftl'.rotations = s.rotations /\ ftl'.staged_half = s.staged_half
  BY <1>1, <1>2 DEF Sound, Controller
<1>4. Good(s, Y, host') /\ StagedRight(s, collateral', host') /\ l \notin StagedLBA(s)
  BY <1>1, <1>3, PrefixGood DEF FirstLap, s
<1>5. host'[l] = Zero /\ l \notin collateral' /\ l \notin Z
  BY <1>1, <1>4 DEF Recorded, Inv
<1>6. /\ table[l].state = "SPARSE_ZERO" /\ table[l].state \notin OnFlash
      /\ \A m \in LBAs \ {l} : table[m] = s.lba_table[m]
  BY <1>2 DEF Sparse, OnFlash, Sound, Controller
<1> HIDE DEF table
<1>7. Untouched(ftl') /\ RoomAhead(ftl')
  BY <1>3, <1>4 DEF Good, Untouched, RoomAhead
<1>8. Owned(ftl', Z)
  <2>1. ASSUME NEW b \in Blocks, NEW p \in Pages
        PROVE  {m \in LBAs \ Y : MappedTo(s, m, b, p)}
                 = {m \in LBAs \ Z : MappedTo(ftl', m, b, p)}
    BY <1>3, <1>5, <1>6 DEF MappedTo
  <2>2. Owned(s, Y)
    BY <1>4 DEF Good
  <2> HIDE DEF Y, Z
  <2> QED
    BY <1>3, <2>1, <2>2 DEF Owned
<1>9. Stored(ftl', Z, host')
  <2>1. Stored(s, Y, host')
    BY <1>4 DEF Good
  <2> QED
    BY <1>3, <1>5, <1>6, <2>1 DEF Stored
<1>10. StagedLBA(ftl') = StagedLBA(s)
  BY <1>3 DEF StagedLBA
<1>11. StagedRight(ftl', collateral', host')
  BY <1>3, <1>4, <1>10 DEF StagedRight
<1> QED
  BY <1>7, <1>8, <1>9, <1>10, <1>11 DEF Good, GoodAfter

(* A first half-page block waits in the staging buffer.                    *)
LEMMA WriteStagedGood ==
  ASSUME Inv, NEW l \in LBAs, NEW d \in Data, WriteStaged(l, d), FirstLap'
  PROVE  GoodAfter
<1> DEFINE s == Superseded(ftl, l)
           c == Compress(d)
           k == [has_value |-> TRUE, lba |-> l, comp_size |-> c.compressed_size,
                 data |-> c.data]
<1>1. /\ ftl' = [s EXCEPT !.staged_half = k] /\ Recorded(l, d)
      /\ FitsHalf(c) /\ ~s.staged_half.has_value
  BY DEF WriteStaged
<1>2. Sound(s)
  BY SupersededSound DEF Inv
<1>3. c.data = LZ4(d) /\ c.compressed_size = LZ4Size[d] /\ LZ4Size[d] > 0
  BY <1>1, HalfIsCompressed
<1> HIDE DEF s, c
<1>4. ftl'.rotations = s.rotations /\ ftl'.staged_half = k
  BY <1>1, <1>2 DEF Sound, Controller
<1>5. StagedLBA(s) = {} /\ StagedLBA(ftl') = {l}
  BY <1>1, <1>4 DEF StagedLBA
<1>6. Good(s, collateral' \cup StagedLBA(s) \cup {l}, host')
  BY <1>1, <1>4, PrefixGood DEF FirstLap, s
<1>7. Good(s, collateral' \cup StagedLBA(ftl'), host')
  <2>1. collateral' \cup StagedLBA(s) \cup {l} = collateral' \cup StagedLBA(ftl')
    BY <1>5
  <2> QED
    BY <1>6, <2>1
<1>8. Good(ftl', collateral' \cup StagedLBA(ftl'), host')
  BY <1>1, <1>2, <1>7, DropStagedGood
<1>9. host'[l] = d /\ l \notin collateral'
  BY <1>1 DEF Recorded, Inv
<1>10. StagedRight(ftl', collateral', host')
  BY <1>3, <1>4, <1>5, <1>9 DEF StagedRight
<1> QED
  BY <1>8, <1>10 DEF GoodAfter

(* A second half-page block shares a page with the staged one.             *)
LEMMA WritePairedGood ==
  ASSUME Inv, NEW l \in LBAs, NEW d \in Data, WritePaired(l, d), FirstLap'
  PROVE  GoodAfter
<1> DEFINE s == Superseded(ftl, l)
           k == s.staged_half
           c == Compress(d)
           image == Packed(k.data, c.data)
           S == {k.lba, l}
           placed == [m \in S |-> IF m = l THEN Half(1, c.compressed_size)
                                           ELSE Half(0, k.comp_size)]
           u == PlacePage(s, image, placed)
           Y == collateral' \cup StagedLBA(s) \cup {l}
<1>1. /\ ftl' = [u EXCEPT !.staged_half = NothingStaged] /\ Recorded(l, d)
      /\ FitsHalf(c) /\ k.has_value
  BY DEF WritePaired
<1>2. Sound(s) /\ k \in StagedHalfPage
  BY SupersededSound DEF Inv, Sound, Controller
<1>3. c.data = LZ4(d) /\ c.compressed_size = LZ4Size[d] /\ LZ4Size[d] > 0
      /\ c.data \in Bytes /\ c.compressed_size \in 0 .. HALF_PAGE
  BY <1>1, HalfIsCompressed, CompressTyped
<1> HIDE DEF c
<1>4. k.lba \in LBAs /\ k.comp_size \in 0 .. HALF_PAGE /\ k.data \in Bytes
  BY <1>2 DEF StagedHalfPage
<1>5. StagedLBA(s) = {k.lba}
  BY <1>1, <1>4 DEF StagedLBA
<1>6. s.rotations < total_blocks =>
        /\ Good(s, Y, host') /\ StagedRight(s, collateral', host') /\ l # k.lba
  BY <1>1, <1>5, PrefixGood
<1> HIDE DEF s
<1>7. image \in PageImage
  BY <1>3, <1>4, PackedTyped
<1>8. placed \in [S -> Placement] /\ S \in SUBSET LBAs
  BY <1>3, <1>4, PlacementTyped DEF Slots
<1> HIDE DEF u
<1>9. Sound(u)
  <2> HIDE DEF S, image, placed
  <2> QED
    BY <1>2, <1>7, <1>8, PlacePageSound DEF u
<1>10. u.rotations < total_blocks /\ StagedLBA(ftl') = {}
  BY <1>1, <1>9 DEF Sound, Controller, FirstLap, StagedLBA, NothingStaged
<1>11. s.rotations < total_blocks
  BY <1>2, <1>10, CollectionGood DEF u, PlacePage
<1>12. host'[l] = d /\ l \notin collateral'
  BY <1>1 DEF Recorded, Inv
<1>13. /\ k.lba \notin collateral' /\ k.data = LZ4(host'[k.lba])
       /\ k.comp_size = LZ4Size[host'[k.lba]] /\ LZ4Size[host'[k.lba]] > 0
  BY <1>5, <1>6, <1>11 DEF StagedRight
<1>14. \A m \in S : Holds(image, placed[m], host'[m])
  <2>1. Holds(image, placed[l], host'[l])
    <3>1. placed[l] = Half(1, c.compressed_size) /\ image[1] = c.data
      BY DEF Packed, Slots
    <3> QED
      BY <1>3, <1>12, <3>1 DEF Holds, Half
  <2>2. Holds(image, placed[k.lba], host'[k.lba])
    <3>1. placed[k.lba] = Half(0, k.comp_size) /\ image[0] = k.data
      BY <1>6, <1>11 DEF Packed, Slots
    <3> QED
      BY <1>13, <3>1 DEF Holds, Half
  <2> QED
    BY <2>1, <2>2
<1>15. Good(u, collateral', host')
  <2>1. S \subseteq Y /\ Y \ S = collateral'
    BY <1>5, <1>12, <1>13
  <2>2. Good(s, Y, host')
    BY <1>6, <1>11
  <2> HIDE DEF S, image, placed, Y
  <2>3. Good(u, Y \ S, host')
    BY <1>2, <1>7, <1>8, <1>10, <1>14, <2>1, <2>2, PlaceGood DEF u
  <2> QED
    BY <2>1, <2>3
<1>16. Good(ftl', collateral', host')
  BY <1>1, <1>9, <1>15, DropStagedGood
<1>17. collateral' \cup StagedLBA(ftl') = collateral'
  BY <1>10
<1>18. StagedRight(ftl', collateral', host')
  BY <1>10 DEF StagedRight
<1> QED
  BY <1>16, <1>17, <1>18 DEF GoodAfter

(* A full page follows the staged half: two placements in one call.        *)
LEMMA WriteFullGood ==
  ASSUME Inv, NEW l \in LBAs, NEW d \in Data, WriteFull(l, d), FirstLap'
  PROVE  GoodAfter
<1> DEFINE s == Superseded(ftl, l)
           t == FlushStagedWrites(s)
           c == Compress(d)
           image == Whole(c.data)
           S == {l}
           placed == [m \in S |-> Full(c.compressed_size)]
           Y == collateral' \cup StagedLBA(s) \cup {l}
           Z == Y \ StagedLBA(s)
<1>1. /\ ftl' = PlacePage(t, image, placed) /\ Recorded(l, d)
      /\ ~c.is_zero_block /\ ~FitsHalf(c)
  BY DEF WriteFull
<1>2. Sound(s) /\ Sound(t)
  BY SupersededSound, FlushSound DEF Inv
<1>3. c.data \in Bytes /\ c.compressed_size \in 0 .. FLASH_PAGE_SIZE
  BY CompressTyped
<1>4. s.rotations < total_blocks =>
        /\ Good(s, Y, host') /\ StagedRight(s, collateral', host') /\ l \notin StagedLBA(s)
  BY <1>1, PrefixGood
<1> HIDE DEF s
<1>5. image \in PageImage
  BY <1>3, PackedTyped
<1>6. placed \in [S -> Placement] /\ S \in SUBSET LBAs
  BY <1>3, PlacementTyped
<1>7. host'[l] = d /\ l \notin collateral'
  BY <1>1 DEF Recorded, Inv
<1>8. \A m \in S : Holds(image, placed[m], host'[m])
  <2>1. placed[l] = Full(c.compressed_size)
    OBVIOUS
  <2> QED
    BY <1>1, <1>7, <2>1 DEF Holds, Full
<1> HIDE DEF c, image, placed
<1>9. PlacePage(t, image, placed).rotations < total_blocks
  BY <1>1 DEF FirstLap
<1>10. t.rotations < total_blocks
  <2> HIDE DEF t
  <2> QED
    BY <1>2, <1>9, CollectionGood DEF PlacePage
<1>11. /\ s.rotations < total_blocks /\ Good(t, Z, host') /\ StagedLBA(t) = {}
  BY <1>2, <1>4, <1>10, FlushGood
<1>12. S \subseteq Z
  BY <1>4, <1>11
<1>13. Good(ftl', Z \ S, host')
  <2> HIDE DEF S, t, Z
  <2> QED
    BY <1>1, <1>2, <1>5, <1>6, <1>8, <1>9, <1>11, <1>12, PlaceGood
<1>14. StagedLBA(ftl') = {}
  <2>1. ftl'.staged_half = RunGarbageCollectionIfNeeded(t).staged_half
    <3> HIDE DEF t
    <3> QED
      BY <1>1 DEF PlacePage
  <2>2. RunGarbageCollectionIfNeeded(t).staged_half = t.staged_half
    <3> HIDE DEF t
    <3> QED
      BY DEF RunGarbageCollectionIfNeeded, AdvanceToReserve, Collect
  <2> QED
    BY <1>11, <2>1, <2>2 DEF StagedLBA
<1>15. Z \ S = collateral'
  <2>1. \A m \in StagedLBA(s) : m \notin collateral'
    BY <1>4, <1>11 DEF StagedRight
  <2> QED
    BY <1>7, <2>1
<1>16. StagedRight(ftl', collateral', host')
  BY <1>14 DEF StagedRight
<1>17. collateral' \cup StagedLBA(ftl') = collateral'
  BY <1>14
<1> QED
  BY <1>13, <1>15, <1>16, <1>17 DEF GoodAfter

(* FlushStagedWrites called by the host.                                   *)
LEMMA FlushActionGood ==
  ASSUME Inv, Flush, FirstLap'
  PROVE  GoodAfter
<1> DEFINE X == collateral \cup StagedLBA(ftl)
<1>1. ftl' = FlushStagedWrites(ftl) /\ host' = host /\ collateral' = collateral
  BY DEF Flush
<1>2. Sound(ftl) /\ (ftl.rotations < total_blocks =>
                       Good(ftl, X, host) /\ StagedRight(ftl, collateral, host))
  BY DEF Inv, FirstLapInv, FirstLap
<1>3. FlushStagedWrites(ftl).rotations < total_blocks
  BY <1>1 DEF FirstLap
<1>4. /\ ftl.rotations < total_blocks /\ Good(FlushStagedWrites(ftl), X \ StagedLBA(ftl), host)
      /\ StagedLBA(FlushStagedWrites(ftl)) = {}
  <2>1. StagedLBA(ftl) \subseteq X
    OBVIOUS
  <2> HIDE DEF X
  <2> QED
    BY <1>2, <1>3, <2>1, FlushGood
<1>5. X \ StagedLBA(ftl) = collateral
  BY <1>2, <1>4 DEF StagedRight
<1>6. StagedLBA(ftl') = {} /\ collateral' \cup StagedLBA(ftl') = collateral
  BY <1>1, <1>4
<1>7. StagedRight(ftl', collateral', host')
  BY <1>6 DEF StagedRight
<1> QED
  BY <1>1, <1>4, <1>5, <1>6, <1>7 DEF GoodAfter

-----------------------------------------------------------------------------
(* The constructor establishes the invariant.                              *)
LEMMA InitGood ==
  ASSUME Init
  PROVE  Inv
<1>1. Sound(ftl)
  BY InitSound
<1>2. host \in [LBAs -> Data] /\ collateral = {} /\ \A m \in LBAs : host[m] = Zero
  BY DataAssumption DEF Init
<1>3. /\ \A m \in LBAs : ftl.lba_table[m].state = "UNMAPPED"
      /\ ftl.flash = NewFlash /\ ftl.rotations = 0
      /\ ftl.active_block_idx = 0 /\ ftl.reserve_block_idx = 1
      /\ ftl.block_page_owners = [b \in Blocks |-> [p \in Pages |-> {}]]
      /\ ftl.staged_half = NothingStaged
  BY DEF Init
<1>4. StagedLBA(ftl) = {}
  BY <1>3 DEF StagedLBA, NothingStaged
<1>5. 0 \in Blocks
  BY GeometryAssumption DEF Blocks
<1>6. Untouched(ftl) /\ RoomAhead(ftl)
  BY <1>3, <1>5 DEF Untouched, RoomAhead, NewFlash
<1>7. Owned(ftl, {})
  BY <1>3 DEF Owned, NewFlash
<1>8. Stored(ftl, {}, host)
  BY <1>2, <1>3 DEF Stored, OnFlash
<1>9. StagedRight(ftl, {}, host)
  BY <1>4 DEF StagedRight
<1>10. collateral \cup StagedLBA(ftl) = {}
  BY <1>2, <1>4
<1> QED
  BY <1>1, <1>2, <1>6, <1>7, <1>8, <1>9, <1>10 DEF Inv, FirstLapInv, Good

(* Every public call keeps the invariant.                                  *)
LEMMA StepGood ==
  ASSUME Inv, [Next]_vars
  PROVE  Inv'
<1>1. Sound(ftl') /\ host' \in [LBAs -> Data] /\ collateral' \in SUBSET LBAs
  BY StepSound, HistoryTyped DEF Inv
<1>2. ASSUME FirstLap' PROVE GoodAfter
  <2>1. ASSUME NEW l \in LBAs, NEW d \in Data, WriteBlock(l, d) PROVE GoodAfter
    BY <1>2, <2>1, WriteZeroGood, WriteStagedGood, WritePairedGood, WriteFullGood
       DEF WriteBlock
  <2>2. CASE Flush
    BY <1>2, <2>2, FlushActionGood
  <2>3. CASE UNCHANGED vars
    BY <1>2, <2>3 DEF vars, Inv, FirstLapInv, FirstLap, GoodAfter
  <2> QED
    BY <2>1, <2>2, <2>3 DEF Next
<1>3. FirstLapInv'
  BY <1>2 DEF FirstLapInv, GoodAfter
<1> QED
  BY <1>1, <1>3 DEF Inv

(* Mapping table, owner lists, valid bits, page contents and staging       *)
(* buffer agree throughout the first lap.                                  *)
THEOREM FirstLapInvariant == Spec => []FirstLapInv
<1>1. Inv => FirstLapInv
  BY DEF Inv
<1> QED
  BY <1>1, InitGood, StepGood, PTL DEF Spec

(* The decoder undoes the encoder.                                         *)
LEMMA DecodesStream ==
  ASSUME NEW d \in Data, LZ4Size[d] > 0
  PROVE  LZ4_decompress_safe(LZ4(d), LZ4Size[d]) = d
BY DEF LZ4_decompress_safe, LZ4

(* A full page is read as it is: right unless it holds an LZ4 stream.      *)
LEMMA FullPageDecodes ==
  ASSUME NEW d \in Data, ~MidSize(d), ~Compress(d).is_zero_block, ~FitsHalf(Compress(d))
  PROVE  AsHostBlock(Compress(d).data) = d
<1>1. d # Zero
  BY DEF Compress
<1>2. LZ4Size[d] \in Int
  BY SizeAssumption
<1>3. StoredRaw(d)
  <2>1. SUFFICES ASSUME ~StoredRaw(d) PROVE FALSE
    OBVIOUS
  <2>2. Compress(d).compressed_size = LZ4Size[d]
    BY <1>1, <2>1 DEF Compress
  <2> QED
    BY <1>1, <1>2, <2>1, <2>2 DEF MidSize, FitsHalf, HALF_PAGE
<1>4. Compress(d).data = Raw(d)
  BY <1>1, <1>3 DEF Compress
<1> QED
  BY <1>4 DEF AsHostBlock, Raw

(* Reading follows an entry to the page that holds the block.              *)
LEMMA EntryDecodes ==
  ASSUME NEW s, CountsExact(s.flash), NEW l, s.lba_table[l] \in MappingEntry,
         ~(s.staged_half.has_value /\ s.staged_half.lba = l),
         NEW d \in Data, ~MidSize(d),
         IF s.lba_table[l].state \in OnFlash
         THEN /\ s.flash.page_valid[s.lba_table[l].block_idx][s.lba_table[l].page_idx]
              /\ Holds(s.flash.data[s.lba_table[l].block_idx][s.lba_table[l].page_idx],
                       s.lba_table[l], d)
         ELSE d = Zero
  PROVE  ReadBlock(s, l) = d
<1> DEFINE e == s.lba_table[l]
           b == e.block_idx
           p == e.page_idx
           page == ReadPage(s.flash, b, p)
<1>1. e \in MappingEntry /\ b \in Blocks /\ p \in Pages
  BY DEF MappingEntry
<1> HIDE DEF b, p
<1>2. e.state \in OnFlash => page = s.flash.data[b][p] /\ Holds(page, e, d)
  <2>1. e.state \in OnFlash => /\ s.flash.page_valid[b][p]
                              /\ Holds(s.flash.data[b][p], e, d)
    BY DEF b, p
  <2>2. s.flash.page_valid[b][p] => s.flash.is_programmed[b][p]
    BY <1>1 DEF CountsExact
  <2> QED
    BY <2>1, <2>2 DEF ReadPage
<1> USE DEF b, p
<1>3. CASE e.state \in {"UNMAPPED", "SPARSE_ZERO"}
  <2>1. e.state \notin OnFlash
    BY <1>3 DEF OnFlash
  <2> QED
    BY <1>3, <2>1 DEF ReadBlock
<1>4. CASE e.state = "RAW_FULL_PAGE"
  <2>1. /\ page = Whole(Compress(d).data)
        /\ ~Compress(d).is_zero_block /\ ~FitsHalf(Compress(d))
    BY <1>4, <1>2 DEF OnFlash, Holds
  <2>2. page[0] = Compress(d).data
    BY <2>1 DEF Whole, Packed, Slots
  <2>3. AsHostBlock(page[0]) = d
    BY <2>1, <2>2, FullPageDecodes
  <2>4. ReadBlock(s, l) = IF page = Whole(page[0]) THEN AsHostBlock(page[0]) ELSE Corrupt
    BY <1>4 DEF ReadBlock
  <2> HIDE DEF page
  <2> QED
    BY <2>1, <2>2, <2>3, <2>4
<1>5. CASE e.state = "COMPRESSED_HALF_PAGE"
  <2>1. /\ page[e.sub_slot] = LZ4(d)
        /\ e.compressed_size = LZ4Size[d] /\ LZ4Size[d] > 0
    BY <1>5, <1>2 DEF OnFlash, Holds
  <2>2. ReadBlock(s, l) = LZ4_decompress_safe(page[e.sub_slot], e.compressed_size)
    BY <1>5 DEF ReadBlock
  <2> HIDE DEF page
  <2> QED
    BY <2>1, <2>2, DecodesStream
<1> QED
  BY <1>1, <1>3, <1>4, <1>5 DEF MappingEntry, MappingState

(* Reading follows the mapping to the page, or to the staging buffer, that *)
(* holds the block.                                                        *)
LEMMA ReadsBack == Inv => FirstLapIntegrity
<1>1. ASSUME Inv, FirstLap, NEW l \in LBAs, l \notin collateral, ~MidSize(host[l])
      PROVE  ReadBlock(ftl, l) = host[l]
  <2> DEFINE k == ftl.staged_half
             e == ftl.lba_table[l]
             d == host[l]
  <2>1. /\ Good(ftl, collateral \cup StagedLBA(ftl), host)
        /\ StagedRight(ftl, collateral, host)
    BY <1>1 DEF Inv, FirstLapInv
  <2>2. d \in Data /\ e \in MappingEntry /\ CountsExact(ftl.flash)
    BY <1>1 DEF Inv, Sound, Controller
  <2>3. CASE k.has_value /\ k.lba = l
    <3>1. k.data = LZ4(d) /\ k.comp_size = LZ4Size[d] /\ LZ4Size[d] > 0
      BY <1>1, <2>1, <2>3 DEF StagedRight, StagedLBA
    <3> QED
      BY <2>2, <2>3, <3>1, DecodesStream DEF ReadBlock
  <2>4. CASE ~(k.has_value /\ k.lba = l)
    <3>1. l \notin collateral \cup StagedLBA(ftl)
      BY <1>1, <2>4 DEF StagedLBA
    <3>2. IF e.state \in OnFlash
          THEN /\ ftl.flash.page_valid[e.block_idx][e.page_idx]
               /\ Holds(ftl.flash.data[e.block_idx][e.page_idx], e, d)
          ELSE d = Zero
      BY <1>1, <2>1, <3>1 DEF Good, Stored
    <3> QED
      BY <1>1, <2>2, <2>4, <3>2, EntryDecodes
  <2> QED
    BY <2>3, <2>4
<1> QED
  BY <1>1 DEF FirstLapIntegrity

(* Throughout the first lap an LBA reads back what was last written to it, *)
(* across staging, packing, flushing and garbage collection, unless the    *)
(* block is mid-size or another LBA's write made its page stale.           *)
THEOREM FirstLapIntegrityCorrect == Spec => []FirstLapIntegrity
BY ReadsBack, InitGood, StepGood, PTL DEF Spec

(* Throughout the first lap block_page_owners, which garbage collection    *)
(* re-points by, is the inverse of lba_table.                              *)
THEOREM OwnersCorrect == Spec => []OwnersMatchMapping
<1>1. ASSUME Inv, FirstLap, NEW b \in Blocks, NEW p \in Pages,
             ftl.flash.page_valid[b][p]
      PROVE  ftl.block_page_owners[b][p] = {l \in LBAs \ collateral : LiveAt(ftl, l, b, p)}
  <2>1. ftl.block_page_owners[b][p]
          = {m \in LBAs \ (collateral \cup StagedLBA(ftl)) : MappedTo(ftl, m, b, p)}
    BY <1>1 DEF Inv, FirstLapInv, Good, Owned
  <2>2. \A m \in LBAs : LiveAt(ftl, m, b, p)
                          <=> MappedTo(ftl, m, b, p) /\ m \notin StagedLBA(ftl)
    BY DEF LiveAt, MappedTo, StagedLBA
  <2> QED
    BY <2>1, <2>2
<1>2. Inv => OwnersMatchMapping
  BY <1>1 DEF OwnersMatchMapping
<1> QED
  BY <1>2, InitGood, StepGood, PTL DEF Spec

-----------------------------------------------------------------------------
(* Laps.                                                                   *)

(* A lap, once over, stays over.                                           *)
LEMMA PlaceLap ==
  ASSUME NEW s, Sound(s), NEW image, NEW placed,
         PlacePage(s, image, placed).rotations < total_blocks
  PROVE  s.rotations < total_blocks
<1>1. RunGarbageCollectionIfNeeded(s).rotations < total_blocks
  BY DEF PlacePage
<1> QED
  BY <1>1, CollectionGood

(* A flush that ends inside the first lap of the log began inside it.      *)
LEMMA FlushLap ==
  ASSUME NEW s, Sound(s), FlushStagedWrites(s).rotations < total_blocks
  PROVE  s.rotations < total_blocks
<1> DEFINE h == s.staged_half
           u == PlacePage(s, Packed(h.data, Blank), [l \in {h.lba} |-> Half(0, h.comp_size)])
<1>1. CASE ~h.has_value
  BY <1>1 DEF FlushStagedWrites
<1>2. CASE h.has_value
  <2>1. FlushStagedWrites(s).rotations = u.rotations
    BY <1>2 DEF FlushStagedWrites, PlacePage
  <2> QED
    BY <2>1, PlaceLap
<1> QED
  BY <1>1, <1>2

(* The lap count never goes back: what is in its first lap was in it       *)
(* before.                                                                 *)
LEMMA StepLap ==
  ASSUME Sound(ftl), [Next]_vars, FirstLap'
  PROVE  FirstLap
<1>1. ASSUME NEW l \in LBAs, NEW d \in Data, WriteBlock(l, d)
      PROVE  FirstLap
  <2> DEFINE s == Superseded(ftl, l)
  <2>1. Sound(s) /\ s.rotations = ftl.rotations
    BY SupersededSound DEF Superseded
  <2>2. CASE WriteZero(l, d) \/ WriteStaged(l, d)
    BY <2>1, <2>2 DEF WriteZero, WriteStaged, FirstLap, Superseded
  <2>3. CASE WritePaired(l, d)
    <3>1. PICK image, placed : ftl'.rotations = PlacePage(s, image, placed).rotations
      BY <2>3 DEF WritePaired, PlacePage
    <3> QED
      BY <2>1, <3>1, PlaceLap DEF FirstLap
  <2>4. CASE WriteFull(l, d)
    <3>1. PICK image, placed : ftl' = PlacePage(FlushStagedWrites(s), image, placed)
      BY <2>4 DEF WriteFull
    <3>2. Sound(FlushStagedWrites(s))
      BY <2>1, FlushSound
    <3>3. FlushStagedWrites(s).rotations < total_blocks
      BY <3>1, <3>2, PlaceLap DEF FirstLap
    <3> QED
      BY <2>1, <3>3, FlushLap DEF FirstLap
  <2> QED
    BY <1>1, <2>2, <2>3, <2>4 DEF WriteBlock
<1>2. CASE Flush
  BY <1>2, FlushLap DEF Flush, FirstLap
<1>3. CASE UNCHANGED vars
  BY <1>3 DEF vars, FirstLap
<1> QED
  BY <1>1, <1>2, <1>3 DEF Next

-----------------------------------------------------------------------------
(* Every valid page has an owner.                                          *)

(* A collection gives the pages it fills the owners of the pages it moves. *)
LEMMA CollectInhabited ==
  ASSUME NEW s, Sound(s), Inhabited(s), NEW v \in Blocks, v # s.reserve_block_idx
  PROVE  Inhabited(Collect(s, v))
<1> DEFINE f == s.flash
           r == s.reserve_block_idx
           k == MigratePages(f, v, r)
           g == Collect(s, v)
<1>1. f \in FlashArray /\ r \in Blocks /\ k \in FlashArray
  BY MigratePagesOK DEF Sound, Controller
<1>2. g.flash = EraseBlock(k, v) /\ g.block_page_owners = MigrateOwners(s, v)
  BY DEF Collect
<1>3. SUFFICES ASSUME NEW b \in Blocks, NEW p \in Pages, g.flash.page_valid[b][p]
               PROVE  g.block_page_owners[b][p] # {}
  BY DEF Inhabited
<1>4. b # v /\ k.page_valid[b][p]
  <2> HIDE DEF k, g
  <2> QED
    BY <1>1, <1>2, <1>3 DEF EraseBlock, FlashArray
<1>5. CASE b = r /\ p \in Landed(f, v)
  <2>1. Source(f, v, p) \in Moved(f, v)
    BY <1>1, <1>5, SourceOfDest
  <2>2. s.block_page_owners[v][Source(f, v, p)] # {}
    BY <2>1 DEF Moved, Inhabited
  <2>3. g.block_page_owners[b][p] = s.block_page_owners[v][Source(f, v, p)]
    BY <1>2, <1>4, <1>5 DEF MigrateOwners
  <2> QED
    BY <2>2, <2>3
<1>6. CASE ~(b = r /\ p \in Landed(f, v))
  <2>1. f.page_valid[b][p]
    BY <1>1, <1>4, <1>6 DEF MigratePages, FlashArray
  <2>2. g.block_page_owners[b][p] = s.block_page_owners[b][p]
    BY <1>2, <1>4, <1>6 DEF MigrateOwners
  <2> QED
    BY <2>1, <2>2 DEF Inhabited
<1> QED
  BY <1>5, <1>6

(* So does the test for one.                                               *)
LEMMA CollectionInhabited ==
  ASSUME NEW s, Sound(s), Inhabited(s)
  PROVE  Inhabited(RunGarbageCollectionIfNeeded(s))
<1>1. ~NoneInvalid(s) => Inhabited(Collect(s, Victim(s)))
  BY VictimOK, CollectInhabited
<1>2. Inhabited(AdvanceToReserve(s))
  BY DEF AdvanceToReserve, Inhabited
<1> QED
  BY <1>1, <1>2 DEF RunGarbageCollectionIfNeeded

(* A page is programmed for the LBAs it is then owned by.                  *)
LEMMA PlaceInhabited ==
  ASSUME NEW s0, Sound(s0), Inhabited(s0), NEW image, NEW placed,
         DOMAIN placed # {}
  PROVE  Inhabited(PlacePage(s0, image, placed))
<1> DEFINE s == RunGarbageCollectionIfNeeded(s0)
           b == s.active_block_idx
           p == s.active_page_idx
           t == PlacePage(s0, image, placed)
<1>1. Sound(s) /\ Inhabited(s) /\ p \in Pages /\ b \in Blocks
  BY CollectionSound, CollectionInhabited DEF Sound, Controller
<1>2. /\ s.flash \in FlashArray
      /\ s.block_page_owners \in [Blocks -> [Pages -> SUBSET LBAs]]
  BY <1>1 DEF Sound, Controller
<1>3. /\ t.flash = ProgramPage(s.flash, b, p, image)
      /\ t.block_page_owners = [s.block_page_owners EXCEPT ![b][p] = @ \cup DOMAIN placed]
  BY DEF PlacePage
<1> HIDE DEF s, b, p, t
<1>4. ASSUME NEW c \in Blocks, NEW q \in Pages, t.flash.page_valid[c][q]
      PROVE  t.block_page_owners[c][q] # {}
  <2>1. CASE c = b /\ q = p
    <3>1. t.block_page_owners[c][q] = s.block_page_owners[b][p] \cup DOMAIN placed
      BY <1>1, <1>2, <1>3, <2>1
    <3> QED
      BY <3>1
  <2>2. CASE ~(c = b /\ q = p)
    <3>1. s.flash.page_valid[c][q]
      BY <1>1, <1>2, <1>3, <1>4, <2>2 DEF ProgramPage, FlashArray
    <3>2. t.block_page_owners[c][q] = s.block_page_owners[c][q]
      BY <1>1, <1>2, <1>3, <2>2
    <3> QED
      BY <1>1, <3>1, <3>2 DEF Inhabited
  <2> QED
    BY <2>1, <2>2
<1> QED
  BY <1>4 DEF Inhabited, t

(* The flush places a page for the staged LBA.                             *)
LEMMA FlushInhabited ==
  ASSUME NEW s, Sound(s), Inhabited(s)
  PROVE  Inhabited(FlushStagedWrites(s))
<1> DEFINE h == s.staged_half
           t == PlacePage(s, Packed(h.data, Blank), [l \in {h.lba} |-> Half(0, h.comp_size)])
<1>1. Inhabited(t)
  BY PlaceInhabited
<1>2. /\ [t EXCEPT !.staged_half = NothingStaged].flash = t.flash
      /\ [t EXCEPT !.staged_half = NothingStaged].block_page_owners = t.block_page_owners
  BY DEF PlacePage
<1> HIDE DEF t
<1>3. Inhabited([t EXCEPT !.staged_half = NothingStaged])
  BY <1>1, <1>2 DEF Inhabited
<1> QED
  BY <1>3 DEF FlushStagedWrites, t

(* Every call leaves no valid page without an owner.                       *)
LEMMA StepInhabited ==
  ASSUME Sound(ftl), Inhabited(ftl), [Next]_vars
  PROVE  Inhabited(ftl)'
<1>1. ASSUME NEW l \in LBAs, NEW d \in Data, WriteBlock(l, d)
      PROVE  Inhabited(ftl)'
  <2> DEFINE s == Superseded(ftl, l)
             e == ftl.lba_table[l]
  <2>1. Sound(s)
    BY SupersededSound
  <2>2. Inhabited(s)
    <3>1. /\ s.flash = IF e.state \in OnFlash
                       THEN InvalidatePage(ftl.flash, e.block_idx, e.page_idx)
                       ELSE ftl.flash
          /\ s.block_page_owners = ftl.block_page_owners
      BY DEF Superseded
    <3>2. ftl.flash \in FlashArray /\ e \in MappingEntry
      BY DEF Sound, Controller
    <3>3. \A b \in Blocks, p \in Pages : s.flash.page_valid[b][p] => ftl.flash.page_valid[b][p]
      <4> HIDE DEF s, e
      <4> QED
        BY <3>1, <3>2 DEF InvalidatePage, FlashArray, MappingEntry
    <3> HIDE DEF s
    <3> QED
      BY <3>1, <3>3 DEF Inhabited
  <2>3. CASE WriteZero(l, d) \/ WriteStaged(l, d)
    <3>1. ftl'.flash = s.flash /\ ftl'.block_page_owners = s.block_page_owners
      BY <2>3 DEF WriteZero, WriteStaged, Superseded
    <3> HIDE DEF s
    <3> QED
      BY <2>2, <3>1 DEF Inhabited
  <2>4. CASE WritePaired(l, d)
    <3>1. PICK image, placed :
            /\ DOMAIN placed # {}
            /\ ftl' = [PlacePage(s, image, placed) EXCEPT !.staged_half = NothingStaged]
      <4> DEFINE c == Compress(d)
                 k == s.staged_half
                 q == [m \in {k.lba, l} |-> IF m = l THEN Half(1, c.compressed_size)
                                                     ELSE Half(0, k.comp_size)]
      <4>1. ftl' = [PlacePage(s, Packed(k.data, c.data), q) EXCEPT !.staged_half = NothingStaged]
        BY <2>4 DEF WritePaired
      <4>2. l \in DOMAIN q
        OBVIOUS
      <4> HIDE DEF s, q, c, k
      <4> QED
        BY <4>1, <4>2
    <3> DEFINE t == PlacePage(s, image, placed)
    <3>2. Inhabited(t)
      <4> HIDE DEF s
      <4> QED
        BY <2>1, <2>2, <3>1, PlaceInhabited
    <3>3. ftl'.flash = t.flash /\ ftl'.block_page_owners = t.block_page_owners
      BY <3>1 DEF PlacePage
    <3> HIDE DEF s, t
    <3> QED
      BY <3>2, <3>3 DEF Inhabited
  <2>5. CASE WriteFull(l, d)
    <3> DEFINE u == FlushStagedWrites(s)
    <3>1. PICK image, placed : DOMAIN placed # {} /\ ftl' = PlacePage(u, image, placed)
      BY <2>5 DEF WriteFull
    <3>2. Sound(u) /\ Inhabited(u)
      <4> HIDE DEF s
      <4> QED
        BY <2>1, <2>2, FlushSound, FlushInhabited
    <3> HIDE DEF u
    <3> QED
      BY <3>1, <3>2, PlaceInhabited
  <2> QED
    BY <1>1, <2>3, <2>4, <2>5 DEF WriteBlock
<1>2. CASE Flush
  BY <1>2, FlushInhabited DEF Flush
<1>3. CASE UNCHANGED vars
  BY <1>3 DEF vars
<1> QED
  BY <1>1, <1>2, <1>3 DEF Next

(* Throughout the first lap no page stays valid without an LBA that is     *)
(* read from it: whatever a write, a pair or a collection leaves behind is *)
(* invalid and will be reclaimed.                                          *)
THEOREM GarbageCounted == Spec => []NoGarbageKept
<1>1. Init => Inhabited(ftl)
  BY DEF Init, Inhabited, NewFlash
<1>2. Inv /\ Inhabited(ftl) /\ [Next]_vars => Inhabited(ftl)'
  BY StepInhabited DEF Inv
<1>3. Inv /\ Inhabited(ftl) => NoGarbageKept
  <2>1. SUFFICES ASSUME Inv, Inhabited(ftl), FirstLap, NEW b \in Blocks, NEW p \in Pages,
                        ftl.flash.page_valid[b][p]
                 PROVE  \E l \in LBAs \ collateral : LiveAt(ftl, l, b, p)
    BY DEF NoGarbageKept
  <2>2. ftl.block_page_owners[b][p]
          = {m \in LBAs \ (collateral \cup StagedLBA(ftl)) : MappedTo(ftl, m, b, p)}
    BY <2>1 DEF Inv, FirstLapInv, Good, Owned
  <2>3. PICK l \in LBAs \ (collateral \cup StagedLBA(ftl)) : MappedTo(ftl, l, b, p)
    BY <2>1, <2>2 DEF Inhabited
  <2>4. LiveAt(ftl, l, b, p)
    BY <2>3 DEF LiveAt, MappedTo, StagedLBA
  <2> QED
    BY <2>3, <2>4
<1> QED
  BY <1>1, <1>2, <1>3, InitGood, StepGood, PTL DEF Spec
=============================================================================
