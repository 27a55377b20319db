----------------------------- MODULE FlashLemmas -----------------------------
(***************************************************************************)
(* Facts about the operations of FlashModel, for every geometry, used by   *)
(* the proofs about the device and about the FTL.                          *)
(***************************************************************************)
EXTENDS FlashModel, SetLemmas

(* Sets of pages are finite and have at most pages_per_block members.      *)
LEMMA PageSetsFinite ==
  ASSUME NEW S \in SUBSET Pages
  PROVE  IsFiniteSet(S) /\ Cardinality(S) \in Nat /\ Cardinality(S) <= pages_per_block
<1>1. IsFiniteSet(Pages) /\ Cardinality(Pages) = pages_per_block
  BY FS_Interval, GeometryAssumption DEF Pages
<1> QED
  BY <1>1, FS_Subset, FS_CardinalityType

(* The buffers the firmware starts from are page images.                   *)
LEMMA ImagesTyped == Blank \in Bytes /\ ZeroImage \in PageImage /\ ErasedImage \in PageImage
BY DataAssumption
   DEF Blank, FF, Bytes, ZeroImage, ErasedImage, PageImage, Whole, Packed, Slots

-----------------------------------------------------------------------------
(* The constructor leaves a well-typed array with exact counts.            *)
LEMMA NewFlashOK == NewFlash \in FlashArray /\ CountsExact(NewFlash)
<1>1. NewFlash \in FlashArray
  BY ImagesTyped DEF NewFlash, FlashArray
<1>2. \A b \in Blocks : StalePages(NewFlash, b) = {}
  BY DEF NewFlash, StalePages
<1> QED
  BY <1>1, <1>2, FS_EmptySet DEF CountsExact, NewFlash

(* Programming keeps the array typed and the counts exact, also when it is *)
(* refused.                                                                *)
LEMMA ProgramPageOK ==
  ASSUME NEW f \in FlashArray, NEW b \in Blocks, NEW p \in Pages,
         NEW image \in PageImage
  PROVE  /\ ProgramPage(f, b, p, image) \in FlashArray
         /\ CountsExact(f) => CountsExact(ProgramPage(f, b, p, image))
<1> DEFINE g == ProgramPage(f, b, p, image)
<1>1. g \in FlashArray
  BY DEF ProgramPage, FlashArray
<1>2. ASSUME CountsExact(f) PROVE CountsExact(g)
  <2>1. \A c \in Blocks : StalePages(g, c) = StalePages(f, c)
    BY <1>2 DEF ProgramPage, FlashArray, StalePages, CountsExact
  <2>2. g.invalid_page_count = f.invalid_page_count
    BY DEF ProgramPage, FlashArray
  <2>3. \A c \in Blocks, q \in Pages : g.page_valid[c][q] => g.is_programmed[c][q]
    BY <1>2 DEF ProgramPage, FlashArray, CountsExact
  <2> QED
    BY <1>2, <2>1, <2>2, <2>3 DEF CountsExact
<1> QED
  BY <1>1, <1>2

(* Erasing keeps the array typed and the counts exact.                     *)
LEMMA EraseBlockOK ==
  ASSUME NEW f \in FlashArray, NEW b \in Blocks
  PROVE  /\ EraseBlock(f, b) \in FlashArray
         /\ CountsExact(f) => CountsExact(EraseBlock(f, b))
<1> DEFINE g == EraseBlock(f, b)
<1>1. g \in FlashArray
  BY ImagesTyped DEF EraseBlock, FlashArray
<1>2. ASSUME CountsExact(f) PROVE CountsExact(g)
  <2>1. \A c \in Blocks : StalePages(g, c) = IF c = b THEN {} ELSE StalePages(f, c)
    BY DEF EraseBlock, FlashArray, StalePages
  <2>2. \A c \in Blocks :
          g.invalid_page_count[c] = IF c = b THEN 0 ELSE f.invalid_page_count[c]
    BY DEF EraseBlock, FlashArray
  <2>3. \A c \in Blocks, q \in Pages : g.page_valid[c][q] => g.is_programmed[c][q]
    BY <1>2 DEF EraseBlock, FlashArray, CountsExact
  <2> QED
    BY <1>2, <2>1, <2>2, <2>3, FS_EmptySet DEF CountsExact
<1> QED
  BY <1>1, <1>2

(* Invalidating does too, also when the page is not valid.                 *)
LEMMA InvalidatePageOK ==
  ASSUME NEW f \in FlashArray, NEW b \in Blocks, NEW p \in Pages
  PROVE  /\ InvalidatePage(f, b, p) \in FlashArray
         /\ CountsExact(f) => CountsExact(InvalidatePage(f, b, p))
<1> DEFINE g == InvalidatePage(f, b, p)
<1>1. g \in FlashArray
  BY DEF InvalidatePage, FlashArray
<1>2. ASSUME CountsExact(f), f.page_valid[b][p] PROVE CountsExact(g)
  <2>1. \A c \in Blocks : StalePages(g, c) = IF c = b THEN StalePages(f, b) \cup {p}
                                                       ELSE StalePages(f, c)
    BY <1>2 DEF InvalidatePage, FlashArray, StalePages, CountsExact
  <2>2. \A c \in Blocks :
          g.invalid_page_count[c] = IF c = b THEN f.invalid_page_count[b] + 1
                                             ELSE f.invalid_page_count[c]
    BY <1>2 DEF InvalidatePage, FlashArray
  <2>3. \A c \in Blocks, q \in Pages : g.page_valid[c][q] => g.is_programmed[c][q]
    BY <1>2 DEF InvalidatePage, FlashArray, CountsExact
  <2>4. p \notin StalePages(f, b) /\ StalePages(f, b) \in SUBSET Pages
    BY <1>2 DEF StalePages
  <2>5. Cardinality(StalePages(f, b) \cup {p}) = Cardinality(StalePages(f, b)) + 1
    BY <2>4, PageSetsFinite, FS_AddElement
  <2> QED
    BY <1>2, <2>1, <2>2, <2>3, <2>5 DEF CountsExact
<1>3. ASSUME CountsExact(f), ~f.page_valid[b][p] PROVE CountsExact(g)
  BY <1>3 DEF InvalidatePage
<1> QED
  BY <1>1, <1>2, <1>3

(* Reading returns a page image.                                           *)
LEMMA ReadPageTyped ==
  ASSUME NEW f \in FlashArray, NEW b \in Blocks, NEW p \in Pages
  PROVE  ReadPage(f, b, p) \in PageImage
BY ImagesTyped DEF ReadPage, FlashArray
=============================================================================
