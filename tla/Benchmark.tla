------------------------------ MODULE Benchmark ------------------------------
(***************************************************************************)
(* The benchmark runner of src/src/main.cpp on the FTL, with the telemetry *)
(* counters of FTLController and FlashModel and with a second thread that  *)
(* reads.                                                                  *)
(*                                                                         *)
(* WriteBlock, ReadBlock, GetTelemetry and ResetTelemetry hold ftl_mutex_; *)
(* FlushStagedWrites holds nothing, and neither does the garbage           *)
(* collection it calls, so both are split into their steps here: a         *)
(* collection copies a page, re-points its LBAs one index of the mapping   *)
(* entry after the other, and at last erases the block.  The reader, too,  *)
(* takes the entry, its two indices and the page in steps of its own, and  *)
(* meets every state in between.                                           *)
(***************************************************************************)
EXTENDS FTLController, Sequences

CONSTANTS
  Generators,   \* the blocks a workload may write to LBAs 0, 1, ...
  num_workloads,
  MaxReads      \* bound: calls of ReadBlock

ASSUME WorkloadAssumption ==
  /\ num_workloads \in Nat /\ MaxReads \in Nat
  /\ \A g \in Generators : g \in Seq(Data) /\ Len(g) \in 1 .. num_lbas

VARIABLES
  tel,      \* the counters
  runner,   \* main and RunWorkload
  reader    \* a call of ReadBlock on another thread

benchVars == <<ftl, host, collateral, tel, runner, reader>>

NoCounts ==
  [host_writes |-> 0, host_reads |-> 0, zero_blocks |-> 0, half_page_packs |-> 0,
   raw_full_pages |-> 0, gc_count |-> 0, gc_migrated_pages |-> 0,
   total_pages_programmed |-> 0, total_blocks_erased |-> 0]

NotReading ==
  [pc |-> "idle", lba |-> 0, entry |-> <<>>, staged |-> NothingStaged,
   unread |-> {},         \* the indices of the entry not yet read
   overtaken |-> FALSE]   \* history: the collection took the page away

BenchInit ==
  /\ Init
  /\ tel = NoCounts
  /\ runner = [pc |-> "start", workload |-> 1, generator |-> <<>>, i |-> 0,
               victim |-> 0, page |-> 0, to |-> 0,   \* of a collection
               before |-> <<>>]   \* history: the controller when a flush began
  /\ reader = NotReading

-----------------------------------------------------------------------------
(* What collecting garbage in s, and placing a page in s, add to k.        *)
CountCollection(k, s) ==
  IF s.active_page_idx < pages_per_block \/ NoneInvalid(s) THEN k
  ELSE LET v == Victim(s)
           fresh == {w \in Landed(s.flash, v) :
                       ~s.flash.is_programmed[s.reserve_block_idx][w]}
       IN  [k EXCEPT !.gc_count = @ + 1,
                     !.gc_migrated_pages = @ + Cardinality(Moved(s.flash, v)),
                     !.total_pages_programmed = @ + Cardinality(fresh),
                     !.total_blocks_erased = @ + 1]
CountProgram(k, s) ==
  IF s.flash.is_programmed[s.active_block_idx][s.active_page_idx] THEN k
  ELSE [k EXCEPT !.total_pages_programmed = @ + 1]
CountPlacement(k, s) ==
  CountProgram(CountCollection(k, s), RunGarbageCollectionIfNeeded(s))

CountWrite(l, d) ==
  LET k == [tel EXCEPT !.host_writes = @ + 1]
      s == Superseded(ftl, l)
      flushed == IF s.staged_half.has_value THEN CountPlacement(k, s) ELSE k
      c == Compress(d)
  IN  IF c.is_zero_block THEN [k EXCEPT !.zero_blocks = @ + 1]
      ELSE IF ~FitsHalf(c)
        THEN [CountPlacement(flushed, FlushStagedWrites(s)) EXCEPT !.raw_full_pages = @ + 1]
      ELSE IF s.staged_half.has_value
        THEN [flushed EXCEPT !.half_page_packs = @ + 1]
      ELSE k

-----------------------------------------------------------------------------
(* The calls that take the mutex wait for the reader.                      *)
Unlocked == reader.pc = "idle"

Migrating == runner.pc \in {"migrate", "block_idx", "page_idx"}
Flushing == Migrating \/ runner.pc \in {"collect", "program", "map", "own", "reset"}
LoopOver == runner.pc = "write" /\ runner.i = Len(runner.generator)

(* RunWorkload up to its loop.                                             *)
ResetHostCounts ==   \* faulty variant, for the mutation runs
  [NoCounts EXCEPT !.total_pages_programmed = tel.total_pages_programmed]
ResetTelemetry == NoCounts

StartWorkload(g) ==
  /\ runner.pc = "start" /\ runner.workload <= num_workloads /\ Unlocked
  /\ tel' = ResetTelemetry
  /\ runner' = [runner EXCEPT !.pc = "write", !.generator = g, !.i = 0]
  /\ UNCHANGED <<ftl, host, collateral, reader>>

WriteNext ==
  /\ runner.pc = "write" /\ runner.i < Len(runner.generator) /\ Unlocked
  /\ LET d == runner.generator[runner.i + 1]
     IN  WriteBlock(runner.i, d) /\ tel' = CountWrite(runner.i, d)
  /\ runner' = [runner EXCEPT !.i = @ + 1]
  /\ UNCHANGED reader

(* FlushStagedWrites: the test, then garbage collection in as many steps   *)
(* as it takes, the program, the mapping entry, the owner list and the     *)
(* page pointer, the reset.                                                *)
NoFlush ==   \* faulty variant, for the mutation runs
  /\ LoopOver
  /\ runner' = [runner EXCEPT !.pc = "report"]
  /\ UNCHANGED <<ftl, host, collateral, tel, reader>>
FlushResetFirst ==   \* faulty variant, for the mutation runs
  /\ LoopOver
  /\ ftl' = [ftl EXCEPT !.staged_half.has_value = FALSE]
  /\ runner' = IF ftl.staged_half.has_value
               THEN [runner EXCEPT !.pc = "collect", !.before = ftl]
               ELSE [runner EXCEPT !.pc = "report"]
  /\ UNCHANGED <<host, collateral, tel, reader>>
FlushTest ==
  /\ LoopOver
  /\ runner' = IF ftl.staged_half.has_value
               THEN [runner EXCEPT !.pc = "collect", !.before = ftl]
               ELSE [runner EXCEPT !.pc = "report"]
  /\ UNCHANGED <<ftl, host, collateral, tel, reader>>

FlushStep(from, to, next) ==
  /\ runner.pc = from
  /\ ftl' = next
  /\ runner' = [runner EXCEPT !.pc = to]
  /\ UNCHANGED <<host, collateral>>

(* RunGarbageCollectionIfNeeded: there is room, or nothing to reclaim.     *)
Collects(s) == s.active_page_idx >= pages_per_block /\ ~NoneInvalid(s)

FlushMakeRoom ==
  /\ ~Collects(ftl)
  /\ FlushStep("collect", "program", RunGarbageCollectionIfNeeded(ftl))
  /\ UNCHANGED <<tel, reader>>

(* Phase 1.  From here on the reserve is being used up: its turn counts.   *)
ChooseVictim ==
  /\ runner.pc = "collect" /\ Collects(ftl)
  /\ runner' = [runner EXCEPT !.pc = "migrate", !.victim = Victim(ftl), !.page = 0, !.to = 0]
  /\ ftl' = [ftl EXCEPT !.rotations = Rotated(ftl)]
  /\ tel' = [tel EXCEPT !.gc_count = @ + 1]
  /\ UNCHANGED <<host, collateral, reader>>

(* Phase 2, for each page of the victim: an invalid one loses its owners.  *)
MigrationStep(from, to) ==
  /\ runner.pc = from /\ runner.page < pages_per_block
  /\ runner' = [runner EXCEPT !.pc = to]
  /\ UNCHANGED <<host, collateral, reader>>
VictimPageValid == ftl.flash.page_valid[runner.victim][runner.page]

SkipLeavingHole ==   \* faulty variant, for the mutation runs
  /\ runner.pc = "migrate" /\ runner.page < pages_per_block /\ ~VictimPageValid
  /\ ftl' = [ftl EXCEPT !.block_page_owners[runner.victim][runner.page] = {}]
  /\ runner' = [runner EXCEPT !.page = @ + 1, !.to = @ + 1]
  /\ UNCHANGED <<host, collateral, tel, reader>>
SkipPage ==
  /\ runner.pc = "migrate" /\ runner.page < pages_per_block /\ ~VictimPageValid
  /\ ftl' = [ftl EXCEPT !.block_page_owners[runner.victim][runner.page] = {}]
  /\ runner' = [runner EXCEPT !.page = @ + 1]
  /\ UNCHANGED <<host, collateral, tel, reader>>

(* A valid one is copied to the reserve, which may refuse it,              *)
CopyPage ==
  /\ MigrationStep("migrate", "block_idx") /\ VictimPageValid
  /\ ftl' = [ftl EXCEPT !.flash =
               ProgramPage(@, ftl.reserve_block_idx, runner.to,
                           ReadPage(@, runner.victim, runner.page))]
  /\ tel' = [tel EXCEPT !.gc_migrated_pages = @ + 1,
                        !.total_pages_programmed =
               @ + IF ftl.flash.is_programmed[ftl.reserve_block_idx][runner.to] THEN 0 ELSE 1]

(* its owners are pointed at the reserve block,                            *)
PageOwners == ftl.block_page_owners[runner.victim][runner.page]

RepointBlock ==
  /\ MigrationStep("block_idx", "page_idx")
  /\ ftl' = [ftl EXCEPT !.lba_table =
       [l \in LBAs |-> IF l \in PageOwners
                       THEN MovedTo(@[l], ftl.reserve_block_idx, @[l].page_idx) ELSE @[l]]]
  /\ UNCHANGED tel

(* then at the page, and move there in the owner lists.                    *)
RepointPage ==
  /\ runner.pc = "page_idx" /\ runner.page < pages_per_block
  /\ ftl' = [ftl EXCEPT
       !.lba_table = [l \in LBAs |-> IF l \in PageOwners
                                     THEN MovedTo(@[l], @[l].block_idx, runner.to) ELSE @[l]],
       !.block_page_owners = [@ EXCEPT ![ftl.reserve_block_idx][runner.to] = PageOwners,
                                       ![runner.victim][runner.page] = {}]]
  /\ runner' = [runner EXCEPT !.pc = "migrate", !.page = @ + 1, !.to = @ + 1]
  /\ UNCHANGED <<host, collateral, tel, reader>>

(* Phase 3.  A reader that has yet to read a page of the victim reads an   *)
(* erased one, or what is written there next.                              *)
ReadsFlash(r) == r.pc = "fetch" /\ ~r.staged.has_value /\ r.entry.state \in OnFlash

EraseVictim ==
  /\ runner.pc = "migrate" /\ runner.page = pages_per_block
  /\ ftl' = [ftl EXCEPT !.flash = EraseBlock(@, runner.victim),
                        !.block_page_owners[runner.victim] = [p \in Pages |-> {}],
                        !.active_block_idx = runner.victim,
                        !.active_page_idx = 0,
                        !.reserve_block_idx = NextReserve(@, runner.victim)]
  /\ tel' = [tel EXCEPT !.total_blocks_erased = @ + 1]
  /\ runner' = [runner EXCEPT !.pc = "program", !.victim = 0, !.page = 0, !.to = 0]
  /\ reader' = IF ReadsFlash(reader) /\ reader.entry.block_idx = runner.victim
               THEN [reader EXCEPT !.overtaken = TRUE] ELSE reader
  /\ UNCHANGED <<host, collateral>>

(* Back in FlushStagedWrites.                                              *)
FlushProgram ==
  /\ FlushStep("program", "map",
       [ftl EXCEPT !.flash = ProgramPage(@, ftl.active_block_idx, ftl.active_page_idx,
                                         Packed(ftl.staged_half.data, Blank))])
  /\ tel' = CountProgram(tel, ftl)
  /\ UNCHANGED reader

FlushMap ==
  /\ FlushStep("map", "own",
       [ftl EXCEPT !.lba_table[ftl.staged_half.lba] =
          MovedTo(Half(0, ftl.staged_half.comp_size),
                  ftl.active_block_idx, ftl.active_page_idx)])
  /\ UNCHANGED <<tel, reader>>

FlushOwn ==
  /\ FlushStep("own", "reset",
       [ftl EXCEPT !.block_page_owners[ftl.active_block_idx][ftl.active_page_idx] =
                     @ \cup {ftl.staged_half.lba},
                   !.active_page_idx = @ + 1])
  /\ UNCHANGED <<tel, reader>>

FlushReset ==
  /\ runner.pc = "reset"
  /\ ftl' = [ftl EXCEPT !.staged_half = NothingStaged]
  /\ runner' = [runner EXCEPT !.pc = "report", !.before = <<>>]
  /\ UNCHANGED <<host, collateral, tel, reader>>

(* GetTelemetry and the figures; then the next workload, or the end.       *)
Report ==
  /\ runner.pc = "report" /\ Unlocked
  /\ runner' = [runner EXCEPT !.workload = @ + 1, !.pc =
       IF runner.workload + 1 > num_workloads THEN "done" ELSE "start"]
  /\ UNCHANGED <<ftl, host, collateral, tel, reader>>

(* ReadBlock, under the mutex: the staging buffer, or the entry of an LBA  *)
(* that is not on flash; of one that is, the two indices, as arguments of  *)
(* ReadPage in whatever order.  The rest of an entry on flash changes only *)
(* under the mutex, or while its LBA is staged.                            *)
Lookup(l) ==
  LET h == IF ftl.staged_half.has_value /\ ftl.staged_half.lba = l
           THEN ftl.staged_half ELSE NothingStaged
      e == ftl.lba_table[l]
      indexed == ~h.has_value /\ e.state \in OnFlash
  IN  /\ reader.pc = "idle" /\ tel.host_reads < MaxReads
      /\ tel' = [tel EXCEPT !.host_reads = @ + 1]
      /\ reader' = [pc |-> IF indexed THEN "index" ELSE "fetch", lba |-> l,
                    entry |-> e, staged |-> h, overtaken |-> FALSE,
                    unread |-> IF indexed THEN {"block_idx", "page_idx"} ELSE {}]
      /\ UNCHANGED <<ftl, host, collateral, runner>>

(* The entry of l or, when it is half re-pointed, the one it had.          *)
Settled(l) ==
  IF runner.pc = "page_idx" /\ l \in PageOwners
  THEN MovedTo(ftl.lba_table[l], runner.victim, runner.page)
  ELSE ftl.lba_table[l]

(* Two indices that were never in the entry together lead nowhere.         *)
ReadIndex(index, entry) ==
  /\ reader.pc = "index" /\ index \in reader.unread
  /\ reader' = [reader EXCEPT !.entry = entry, !.unread = @ \ {index},
       !.pc = IF reader.unread = {index} THEN "fetch" ELSE "index",
       !.overtaken = reader.unread = {index} /\ entry # Settled(reader.lba)]
  /\ UNCHANGED <<ftl, host, collateral, tel, runner>>

ReadBlockIdx ==
  ReadIndex("block_idx", MovedTo(reader.entry, ftl.lba_table[reader.lba].block_idx,
                                 reader.entry.page_idx))
ReadPageIdx ==
  ReadIndex("page_idx", MovedTo(reader.entry, reader.entry.block_idx,
                                ftl.lba_table[reader.lba].page_idx))

Delivered(r) ==
  ReadBlock([ftl EXCEPT !.lba_table[r.lba] = r.entry, !.staged_half = r.staged], r.lba)

FetchPage ==
  /\ reader.pc = "fetch"
  /\ reader' = NotReading
  /\ UNCHANGED <<ftl, host, collateral, tel, runner>>

-----------------------------------------------------------------------------
RunnerStep ==
  \/ \E g \in Generators : StartWorkload(g)
  \/ WriteNext \/ FlushTest
  \/ FlushMakeRoom \/ ChooseVictim
  \/ SkipPage \/ CopyPage \/ RepointBlock \/ RepointPage \/ EraseVictim
  \/ FlushProgram \/ FlushMap \/ FlushOwn \/ FlushReset
  \/ Report

ReaderStep == (\E l \in LBAs : Lookup(l)) \/ ReadBlockIdx \/ ReadPageIdx \/ FetchPage

BenchNext == RunnerStep \/ ReaderStep

BenchSpec == BenchInit /\ [][BenchNext]_benchVars

-----------------------------------------------------------------------------
(* The split flush is one step of FTLController: all its steps together,   *)
(* the collection's page by page included, do to the controller what the   *)
(* flush under the mutex would, whatever a reader does between them.       *)
Committed == IF Flushing THEN runner.before ELSE ftl
Atomic == INSTANCE FTLController WITH ftl <- Committed
FlushIsAtomic == Atomic!Spec

(* The counters the report divides agree: in the first lap every page      *)
(* programmed since the reset is a page migrated, or holds a block written *)
(* since the reset that was not zero, two to a page for each pair, one of  *)
(* them not yet programmed while it is staged.                             *)
ReportBalances ==
  FirstLap /\ ~Flushing =>
    /\ tel.total_pages_programmed + tel.zero_blocks + tel.half_page_packs
         + (IF ftl.staged_half.has_value THEN 1 ELSE 0)
       = tel.gc_migrated_pages + tel.host_writes
    /\ tel.total_blocks_erased = tel.gc_count

(* When a workload reports, every block it wrote is on flash, none only in *)
(* the staging buffer; excepted are mid-size blocks and those that a later *)
(* write through a stale mapping entry took with it.                       *)
ReportedIsOnFlash ==
  FirstLap /\ runner.pc = "report" =>
    \A i \in DOMAIN runner.generator :
      i - 1 \notin collateral /\ ~MidSize(runner.generator[i]) =>
        ReadBlock([ftl EXCEPT !.staged_half = NothingStaged], i - 1) = runner.generator[i]

(* A read that runs beside the flush delivers the block last written, at   *)
(* whatever step of a collection it looks, unless it read one index of the *)
(* entry before and the other after the page moved, or its page was erased *)
(* before it was read, or the block is mid-size or collateral.             *)
ReadsDuringFlush ==
  reader.pc = "fetch" /\ ~reader.overtaken /\ FirstLap
    /\ reader.lba \notin collateral /\ ~MidSize(host[reader.lba])
    => Delivered(reader) = host[reader.lba]
=============================================================================
