-------------------------- MODULE FlashDeviceProofs --------------------------
(***************************************************************************)
(* Theorems about FlashDevice, for every geometry and every bound.         *)
(***************************************************************************)
EXTENDS FlashDevice, FlashLemmas

(* Every sequence of calls of FlashModel keeps its members well typed.     *)
THEOREM DeviceTypeCorrect == Spec => []TypeOK
<1>1. Init => TypeOK
  BY NewFlashOK DEF Init, TypeOK
<1>2. TypeOK /\ [Next]_vars => TypeOK'
  <2> SUFFICES ASSUME TypeOK, [Next]_vars PROVE TypeOK'
    OBVIOUS
  <2>1. ASSUME NEW b \in Blocks, NEW p \in Pages, NEW image \in Images,
               Program(b, p, image)
        PROVE  TypeOK'
    BY <2>1, ProgramPageOK, DeviceAssumption DEF Program, TypeOK
  <2>2. ASSUME NEW b \in Blocks, NEW p \in Pages, Invalidate(b, p)
        PROVE  TypeOK'
    BY <2>2, InvalidatePageOK DEF Invalidate, TypeOK, counters
  <2>3. ASSUME NEW b \in Blocks, Erase(b) PROVE TypeOK'
    BY <2>3, EraseBlockOK DEF Erase, TypeOK
  <2>4. CASE Read
    BY <2>4 DEF Read, TypeOK
  <2>5. CASE ResetTelemetry
    BY <2>5 DEF ResetTelemetry, TypeOK
  <2>6. CASE UNCHANGED vars
    BY <2>6 DEF vars, counters, TypeOK
  <2> QED
    BY <2>1, <2>2, <2>3, <2>4, <2>5, <2>6 DEF Next
<1> QED
  BY <1>1, <1>2, PTL DEF Spec

(* InvalidatePage and EraseBlock keep invalid_page_count equal to the      *)
(* number of stale pages; programming never disturbs it.                   *)
THEOREM InvalidCountCorrect == Spec => []InvalidCountExact
<1>1. Init => InvalidCountExact
  BY NewFlashOK DEF Init, InvalidCountExact
<1>2. TypeOK /\ InvalidCountExact /\ [Next]_vars => InvalidCountExact'
  <2> SUFFICES ASSUME TypeOK, InvalidCountExact, [Next]_vars
               PROVE  InvalidCountExact'
    OBVIOUS
  <2> USE DEF InvalidCountExact, TypeOK
  <2>1. ASSUME NEW b \in Blocks, NEW p \in Pages, NEW image \in Images,
               Program(b, p, image)
        PROVE  InvalidCountExact'
    BY <2>1, ProgramPageOK, DeviceAssumption DEF Program
  <2>2. ASSUME NEW b \in Blocks, NEW p \in Pages, Invalidate(b, p)
        PROVE  InvalidCountExact'
    BY <2>2, InvalidatePageOK DEF Invalidate
  <2>3. ASSUME NEW b \in Blocks, Erase(b) PROVE InvalidCountExact'
    BY <2>3, EraseBlockOK DEF Erase
  <2>4. CASE Read \/ ResetTelemetry \/ UNCHANGED vars
    BY <2>4 DEF Read, ResetTelemetry, vars
  <2> QED
    BY <2>1, <2>2, <2>3, <2>4 DEF Next
<1> QED
  BY <1>1, <1>2, DeviceTypeCorrect, PTL DEF Spec

(* No call but an erase of its block changes the contents of a programmed  *)
(* page or makes a stale page valid again.                                 *)
THEOREM NoOverwriteWithoutErase == Spec => NoOverwrite
<1>1. TypeOK /\ [Next]_vars => [PagesKept]_vars
  <2> SUFFICES ASSUME TypeOK, Next PROVE PagesKept
    OBVIOUS
  <2> USE DEF TypeOK, PagesKept
  <2>1. ASSUME NEW b \in Blocks, NEW p \in Pages, NEW image \in Images,
               Program(b, p, image)
        PROVE  PagesKept
    BY <2>1 DEF Program, ProgramPage, FlashArray
  <2>2. ASSUME NEW b \in Blocks, NEW p \in Pages, Invalidate(b, p)
        PROVE  PagesKept
    BY <2>2 DEF Invalidate, InvalidatePage, FlashArray
  <2>3. ASSUME NEW b \in Blocks, Erase(b) PROVE PagesKept
    <3>1. erase_count'[b] # erase_count[b]
      BY <2>3 DEF Erase
    <3> QED
      BY <2>3, <3>1 DEF Erase, EraseBlock, FlashArray
  <2>4. CASE Read \/ ResetTelemetry
    BY <2>4 DEF Read, ResetTelemetry
  <2> QED
    BY <2>1, <2>2, <2>3, <2>4 DEF Next
<1> QED
  BY <1>1, DeviceTypeCorrect, PTL DEF Spec, NoOverwrite

-----------------------------------------------------------------------------
(* The set of programmed pages is finite.                                  *)
LEMMA ProgrammedFinite ==
  ASSUME NEW f
  PROVE  IsFiniteSet(ProgrammedPages(f)) /\ Cardinality(ProgrammedPages(f)) \in Nat
<1>1. IsFiniteSet(Blocks) /\ IsFiniteSet(Pages)
  BY FS_Interval, GeometryAssumption DEF Blocks, Pages
<1>2. IsFiniteSet(Blocks \X Pages)
  BY <1>1, FS_Product
<1>3. ProgrammedPages(f) \in SUBSET (Blocks \X Pages)
  BY DEF ProgrammedPages
<1> QED
  BY <1>2, <1>3, FS_Subset, FS_CardinalityType

(* A successful program adds one programmed page, an erase takes away at   *)
(* most pages_per_block.                                                   *)
LEMMA ProgramCountsOne ==
  ASSUME NEW f \in FlashArray, NEW b \in Blocks, NEW p \in Pages,
         NEW image \in PageImage, ~f.is_programmed[b][p]
  PROVE  Cardinality(ProgrammedPages(ProgramPage(f, b, p, image)))
           = Cardinality(ProgrammedPages(f)) + 1
<1>1. ProgrammedPages(ProgramPage(f, b, p, image)) = ProgrammedPages(f) \cup {<<b, p>>}
  BY DEF ProgrammedPages, ProgramPage, FlashArray
<1>2. <<b, p>> \notin ProgrammedPages(f)
  BY DEF ProgrammedPages
<1> QED
  BY <1>1, <1>2, ProgrammedFinite, FS_AddElement

(* An erase takes away at most one block's worth of programmed pages.      *)
LEMMA EraseCountsBlock ==
  ASSUME NEW f \in FlashArray, NEW b \in Blocks
  PROVE  Cardinality(ProgrammedPages(f))
           <= Cardinality(ProgrammedPages(EraseBlock(f, b))) + pages_per_block
<1> DEFINE A == ProgrammedPages(EraseBlock(f, b))
           B == {b} \X Pages
<1>1. ProgrammedPages(f) \in SUBSET (A \cup B)
  BY DEF ProgrammedPages, EraseBlock, FlashArray
<1>2. IsFiniteSet(B) /\ Cardinality(B) = pages_per_block
  <2>1. IsFiniteSet(Pages) /\ Cardinality(Pages) = pages_per_block
    BY FS_Interval, GeometryAssumption DEF Pages
  <2>2. IsFiniteSet({b}) /\ Cardinality({b}) = 1
    BY FS_Singleton
  <2> QED
    BY <2>1, <2>2, FS_Product, GeometryAssumption
<1>3. IsFiniteSet(A) /\ Cardinality(A) \in Nat
  BY ProgrammedFinite
<1> HIDE DEF A, B
<1>4. /\ IsFiniteSet(A \cup B)
      /\ Cardinality(A \cup B) = Cardinality(A) + Cardinality(B) - Cardinality(A \cap B)
  BY <1>2, <1>3, FS_Union
<1>5. Cardinality(A \cap B) \in Nat
  BY <1>3, FS_Intersection, FS_CardinalityType
<1>6. Cardinality(ProgrammedPages(f)) <= Cardinality(A \cup B)
  BY <1>1, <1>4, FS_Subset
<1>7. Cardinality(ProgrammedPages(f)) \in Nat
  BY ProgrammedFinite
<1>8. Cardinality(ProgrammedPages(f)) <= Cardinality(A) + pages_per_block
  BY <1>2, <1>3, <1>4, <1>5, <1>6, <1>7, GeometryAssumption
<1> QED
  BY <1>8 DEF A

(* The pages counted as programmed since a reset are never more than those *)
(* programmed now plus one block's worth per erase counted: no page is     *)
(* programmed twice without an erase in between.                           *)
THEOREM ProgramsCovered == Spec => []ProgramsCoveredByErases
<1>1. Init => ProgramsCoveredByErases
  BY ProgrammedFinite, GeometryAssumption DEF Init, ProgramsCoveredByErases
<1>2. TypeOK /\ ProgramsCoveredByErases /\ [Next]_vars => ProgramsCoveredByErases'
  <2> SUFFICES ASSUME TypeOK, ProgramsCoveredByErases, [Next]_vars
               PROVE  ProgramsCoveredByErases'
    OBVIOUS
  <2> DEFINE held == Cardinality(ProgrammedPages(flash))
             worn == pages_per_block * total_blocks_erased
  <2>0. held \in Nat /\ held' \in Nat /\ worn \in Nat
    BY ProgrammedFinite, GeometryAssumption DEF TypeOK
  <2>1. ASSUME NEW b \in Blocks, NEW p \in Pages, NEW image \in Images,
               Program(b, p, image)
        PROVE  ProgramsCoveredByErases'
    <3>1. CASE flash.is_programmed[b][p]
      BY <2>1, <3>1 DEF Program, ProgramPage, ProgramsCoveredByErases
    <3>2. CASE ~flash.is_programmed[b][p]
      <4>1. held' = held + 1
        BY <2>1, <3>2, ProgramCountsOne, DeviceAssumption DEF Program, TypeOK
      <4>2. total_pages_programmed' = total_pages_programmed + 1 /\ worn' = worn
        BY <2>1, <3>2 DEF Program
      <4> HIDE DEF held, worn
      <4> QED
        BY <2>0, <4>1, <4>2 DEF TypeOK, ProgramsCoveredByErases, held, worn
    <3> QED
      BY <3>1, <3>2
  <2>2. ASSUME NEW b \in Blocks, NEW p \in Pages, Invalidate(b, p)
        PROVE  ProgramsCoveredByErases'
    <3>1. flash'.is_programmed = flash.is_programmed
      BY <2>2 DEF Invalidate, InvalidatePage, TypeOK, FlashArray
    <3>2. ProgrammedPages(flash') = ProgrammedPages(flash)
      BY <3>1 DEF ProgrammedPages
    <3> QED
      BY <2>2, <3>2 DEF Invalidate, counters, ProgramsCoveredByErases
  <2>3. ASSUME NEW b \in Blocks, Erase(b) PROVE ProgramsCoveredByErases'
    <3>1. held <= held' + pages_per_block
      BY <2>3, EraseCountsBlock DEF Erase, TypeOK
    <3>2. worn' = worn + pages_per_block
      BY <2>3, GeometryAssumption DEF Erase, TypeOK
    <3>3. total_pages_programmed' = total_pages_programmed
      BY <2>3 DEF Erase
    <3>4. total_pages_programmed <= held + worn
      BY DEF ProgramsCoveredByErases
    <3>5. \A n, h, w, hh, k \in Nat : n <= h + w /\ h <= hh + k => n <= hh + (w + k)
      OBVIOUS
    <3>6. total_pages_programmed \in Nat /\ pages_per_block \in Nat
      BY GeometryAssumption DEF TypeOK
    <3>7. total_pages_programmed <= held' + (worn + pages_per_block)
      <4> HIDE DEF held, worn
      <4> QED
        BY <2>0, <3>1, <3>4, <3>5, <3>6
    <3> QED
      BY <3>2, <3>3, <3>7 DEF ProgramsCoveredByErases
  <2>4. CASE Read \/ UNCHANGED vars
    BY <2>4 DEF Read, vars, counters, ProgramsCoveredByErases
  <2>5. CASE ResetTelemetry
    BY <2>0, <2>5, GeometryAssumption DEF ResetTelemetry, ProgramsCoveredByErases
  <2> QED
    BY <2>1, <2>2, <2>3, <2>4, <2>5 DEF Next
<1> QED
  BY <1>1, <1>2, DeviceTypeCorrect, PTL DEF Spec

-----------------------------------------------------------------------------
(* Erasing a block wears it by one.                                        *)
LEMMA WearGrows ==
  ASSUME TypeOK, NEW b \in Blocks,
         erase_count' = [erase_count EXCEPT ![b] = @ + 1]
  PROVE  SumOf(erase_count', Blocks) = SumOf(erase_count, Blocks) + 1
<1> DEFINE f == erase_count
           g == erase_count'
<1>1. IsFiniteSet(Blocks)
  BY FS_Interval, GeometryAssumption DEF Blocks
<1>2. /\ f \in [Blocks -> Int] /\ g \in [Blocks -> Int] /\ g[b] = f[b] + 1
      /\ \A c \in Blocks : c # b => g[c] = f[c]
  BY DEF TypeOK
<1>3. f[b] \in Int
  BY <1>2
<1> HIDE DEF f, g
<1>4. SumOf(g, Blocks) = SumOf(f, Blocks) + g[b] - f[b]
  BY <1>1, <1>2, SumUpdate
<1>5. SumOf(f, Blocks) \in Int
  BY <1>1, <1>2, SumType
<1>6. SumOf(g, Blocks) = SumOf(f, Blocks) + 1
  BY <1>2, <1>3, <1>4, <1>5
<1> QED
  BY <1>6 DEF f, g

(* ResetTelemetry zeroes the erases counted and not the wear of the        *)
(* blocks: the erases counted since a reset are among those worn.          *)
THEOREM WearCovered == Spec => []WearCoversTelemetry
<1> DEFINE worn == SumOf(erase_count, Blocks)
           Covered == total_blocks_erased <= worn
<1>1. WearCoversTelemetry <=> Covered
  BY DEF WearCoversTelemetry, GetTelemetry, SumOf
<1>2. IsFiniteSet(Blocks)
  BY FS_Interval, GeometryAssumption DEF Blocks
<1>3. TypeOK => worn \in Nat
  BY <1>2, SumType DEF TypeOK
<1>4. Init => Covered
  <2> SUFFICES ASSUME Init PROVE Covered
    OBVIOUS
  <2>1. erase_count \in [Blocks -> {0}] /\ total_blocks_erased = 0
    BY DEF Init
  <2>2. worn = 0
    BY <1>2, <2>1, SumType
  <2> HIDE DEF worn
  <2> QED
    BY <2>1, <2>2
<1>5. TypeOK /\ Covered /\ [Next]_vars => Covered'
  <2> SUFFICES ASSUME TypeOK, Covered, [Next]_vars PROVE Covered'
    OBVIOUS
  <2>1. worn \in Nat /\ total_blocks_erased \in Nat
    BY <1>3 DEF TypeOK
  <2>2. ASSUME NEW b \in Blocks, Erase(b) PROVE Covered'
    <3>1. /\ total_blocks_erased' = total_blocks_erased + 1
          /\ erase_count' = [erase_count EXCEPT ![b] = @ + 1]
      BY <2>2 DEF Erase
    <3>2. worn' = worn + 1
      BY <3>1, WearGrows
    <3> HIDE DEF worn
    <3> QED
      BY <2>1, <3>1, <3>2
  <2>3. CASE ResetTelemetry
    <3>1. total_blocks_erased' = 0 /\ worn' = worn
      BY <2>3 DEF ResetTelemetry
    <3> HIDE DEF worn
    <3> QED
      BY <2>1, <3>1
  <2>4. ASSUME NEW b \in Blocks, NEW p \in Pages, NEW image \in Images, Program(b, p, image)
        PROVE  Covered'
    BY <2>4 DEF Program
  <2>5. ASSUME NEW b \in Blocks, NEW p \in Pages, Invalidate(b, p) PROVE Covered'
    BY <2>5 DEF Invalidate, counters
  <2>6. CASE Read \/ UNCHANGED vars
    BY <2>6 DEF Read, vars, counters
  <2> HIDE DEF Covered
  <2> QED
    BY <2>2, <2>3, <2>4, <2>5, <2>6 DEF Next
<1> HIDE DEF Covered
<1> QED
  BY <1>1, <1>4, <1>5, DeviceTypeCorrect, PTL DEF Spec
=============================================================================
