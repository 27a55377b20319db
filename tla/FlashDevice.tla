----------------------------- MODULE FlashDevice -----------------------------
(***************************************************************************)
(* The class FlashModel of src/src/flash_model.cpp on its own: the array   *)
(* of module FlashModel with the wear and telemetry counters, driven by    *)
(* any sequence of public calls.  Calls with an index outside the array    *)
(* return before changing anything and are not actions.                    *)
(***************************************************************************)
EXTENDS FlashModel, FiniteSetsExt

CONSTANTS
  Images,    \* the page images callers program
  MaxWear,   \* bound: erases of one block
  MaxReads   \* bound: page reads between two resets

ASSUME DeviceAssumption ==
  Images \subseteq PageImage /\ MaxWear \in Nat /\ MaxReads \in Nat

VARIABLES
  flash,
  erase_count,             \* per block, never reset
  total_pages_programmed,
  total_pages_read,
  total_blocks_erased

counters == <<total_pages_programmed, total_pages_read, total_blocks_erased>>
vars == <<flash, erase_count, counters>>

Init ==
  /\ flash = NewFlash
  /\ erase_count = [b \in Blocks |-> 0]
  /\ total_pages_programmed = 0
  /\ total_pages_read = 0
  /\ total_blocks_erased = 0

-----------------------------------------------------------------------------
Program(b, p, image) ==
  /\ flash' = ProgramPage(flash, b, p, image)
  /\ total_pages_programmed' = IF flash.is_programmed[b][p]
                               THEN total_pages_programmed
                               ELSE total_pages_programmed + 1
  /\ UNCHANGED <<erase_count, total_pages_read, total_blocks_erased>>

Read ==
  /\ total_pages_read < MaxReads
  /\ total_pages_read' = total_pages_read + 1
  /\ UNCHANGED <<flash, erase_count, total_pages_programmed, total_blocks_erased>>

(* Faulty variants, for the mutation runs: an erase that leaves no wear,   *)
(* and a reset that forgets one counter.                                   *)
EraseUnworn(b) ==
  /\ flash' = EraseBlock(flash, b)
  /\ total_blocks_erased' = total_blocks_erased + 1
  /\ UNCHANGED <<erase_count, total_pages_programmed, total_pages_read>>
ResetAllButPrograms ==
  /\ total_pages_read' = 0
  /\ total_blocks_erased' = 0
  /\ UNCHANGED <<flash, erase_count, total_pages_programmed>>

Erase(b) ==
  /\ erase_count[b] < MaxWear
  /\ flash' = EraseBlock(flash, b)
  /\ erase_count' = [erase_count EXCEPT ![b] = @ + 1]
  /\ total_blocks_erased' = total_blocks_erased + 1
  /\ UNCHANGED <<total_pages_programmed, total_pages_read>>

Invalidate(b, p) ==
  /\ flash' = InvalidatePage(flash, b, p)
  /\ UNCHANGED <<erase_count, counters>>

(* Wear and page state survive a reset of the telemetry.                   *)
ResetTelemetry ==
  /\ total_pages_programmed' = 0
  /\ total_pages_read' = 0
  /\ total_blocks_erased' = 0
  /\ UNCHANGED <<flash, erase_count>>

Next ==
  \/ \E b \in Blocks, p \in Pages : \/ \E image \in Images : Program(b, p, image)
                                    \/ Invalidate(b, p)
  \/ \E b \in Blocks : Erase(b)
  \/ Read
  \/ ResetTelemetry

Spec == Init /\ [][Next]_vars

(* The derived figures of GetTelemetry; the average is kept as a sum.      *)
GetTelemetry ==
  [total_physical_bytes_written |-> total_pages_programmed * 4096,
   max_pe_cycles |-> Max({erase_count[b] : b \in Blocks}),
   sum_pe_cycles |-> MapThenSumSet(LAMBDA b : erase_count[b], Blocks)]

-----------------------------------------------------------------------------
(* Every member of FlashModel has its C++ type.                            *)
TypeOK ==
  /\ flash \in FlashArray
  /\ erase_count \in [Blocks -> Nat]
  /\ total_pages_programmed \in Nat
  /\ total_pages_read \in Nat
  /\ total_blocks_erased \in Nat

(* invalid_page_count, a cache updated by InvalidatePage and EraseBlock    *)
(* alone, is the number of stale pages whatever the order of calls.        *)
InvalidCountExact == CountsExact(flash)

(* "Cannot overwrite without an erase": while its block is not erased, a   *)
(* programmed page keeps its contents and a stale page stays stale.        *)
PagesKept ==
  \A b \in Blocks, p \in Pages :
    flash.is_programmed[b][p] /\ erase_count'[b] = erase_count[b] =>
      /\ flash'.is_programmed[b][p]
      /\ flash'.data[b][p] = flash.data[b][p]
      /\ flash'.page_valid[b][p] => flash.page_valid[b][p]
NoOverwrite == [][PagesKept]_vars

ProgrammedPages(f) == {bp \in Blocks \X Pages : f.is_programmed[bp[1]][bp[2]]}

(* A page is programmed at most once per erase of its block, so what the   *)
(* telemetry counts as programmed since the last reset is covered by the   *)
(* pages now programmed and one block's worth for each erase counted.      *)
ProgramsCoveredByErases ==
  total_pages_programmed <=
    Cardinality(ProgrammedPages(flash)) + pages_per_block * total_blocks_erased

(* ResetTelemetry leaves wear alone: the erases counted since a reset are  *)
(* among those the blocks have worn.                                       *)
WearCoversTelemetry == total_blocks_erased <= GetTelemetry.sum_pe_cycles
=============================================================================
