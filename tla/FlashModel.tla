------------------------------ MODULE FlashModel ------------------------------
(***************************************************************************)
(* The NAND array of src/src/flash_model.cpp as a value and the operations *)
(* on it.  A flash array f holds, per block and page, what FlashBlock and  *)
(* PhysicalPage hold: is_programmed, page_valid, data, and per block the   *)
(* cached invalid_page_count the garbage collector chooses victims by.     *)
(* FlashBlock::free_page_idx is never read and is left out; wear and       *)
(* telemetry counters are in FlashDevice, which runs this array alone.     *)
(***************************************************************************)
EXTENDS Naturals, FiniteSets, Payload

CONSTANTS total_blocks, pages_per_block   \* FlashConfig

(* One block to write and one held back.                                   *)
ASSUME GeometryAssumption ==
  /\ total_blocks \in Nat /\ total_blocks >= 2
  /\ pages_per_block \in Nat \ {0}

ZeroImage   == Whole(Blank)   \* contents of a page never touched
ErasedImage == Whole(FF)      \* 0xFF everywhere

Blocks == 0 .. total_blocks - 1
Pages  == 0 .. pages_per_block - 1

FlashArray ==
  [is_programmed      : [Blocks -> [Pages -> BOOLEAN]],
   page_valid         : [Blocks -> [Pages -> BOOLEAN]],
   data               : [Blocks -> [Pages -> PageImage]],
   invalid_page_count : [Blocks -> Nat]]

NewFlash ==
  [is_programmed      |-> [b \in Blocks |-> [p \in Pages |-> FALSE]],
   page_valid         |-> [b \in Blocks |-> [p \in Pages |-> FALSE]],
   data               |-> [b \in Blocks |-> [p \in Pages |-> ZeroImage]],
   invalid_page_count |-> [b \in Blocks |-> 0]]

-----------------------------------------------------------------------------
(* Faulty variants of the operations below, for the mutation runs: a       *)
(* program without the NAND check, and a count of invalidations rather     *)
(* than of invalid pages.                                                  *)
ProgramPageOverwriting(f, b, p, image) ==
  [f EXCEPT !.is_programmed[b][p] = TRUE, !.page_valid[b][p] = TRUE,
            !.data[b][p] = image]
InvalidatePageCountingTwice(f, b, p) ==
  [f EXCEPT !.page_valid[b][p] = FALSE, !.invalid_page_count[b] = @ + 1]

(* A page that is programmed refuses the program; the array is unchanged.  *)
ProgramPage(f, b, p, image) ==
  IF f.is_programmed[b][p] THEN f
  ELSE [is_programmed      |-> [f.is_programmed EXCEPT ![b][p] = TRUE],
        page_valid         |-> [f.page_valid EXCEPT ![b][p] = TRUE],
        data               |-> [f.data EXCEPT ![b][p] = image],
        invalid_page_count |-> f.invalid_page_count]

ReadPage(f, b, p) ==
  IF f.is_programmed[b][p] THEN f.data[b][p] ELSE ErasedImage

EraseBlock(f, b) ==
  [is_programmed      |-> [f.is_programmed EXCEPT ![b] = [p \in Pages |-> FALSE]],
   page_valid         |-> [f.page_valid EXCEPT ![b] = [p \in Pages |-> FALSE]],
   data               |-> [f.data EXCEPT ![b] = [p \in Pages |-> ErasedImage]],
   invalid_page_count |-> [f.invalid_page_count EXCEPT ![b] = 0]]

InvalidatePage(f, b, p) ==
  IF ~f.page_valid[b][p] THEN f
  ELSE [is_programmed      |-> f.is_programmed,
        page_valid         |-> [f.page_valid EXCEPT ![b][p] = FALSE],
        data               |-> f.data,
        invalid_page_count |-> [f.invalid_page_count EXCEPT ![b] = @ + 1]]

-----------------------------------------------------------------------------
StalePages(f, b) == {p \in Pages : f.is_programmed[b][p] /\ ~f.page_valid[b][p]}

(* The cached count is the number of programmed pages no longer valid, and *)
(* only programmed pages are valid.                                        *)
CountsExact(f) ==
  /\ \A b \in Blocks, p \in Pages : f.page_valid[b][p] => f.is_programmed[b][p]
  /\ \A b \in Blocks : f.invalid_page_count[b] = Cardinality(StalePages(f, b))
=============================================================================
