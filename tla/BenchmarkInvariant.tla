-------------------------- MODULE BenchmarkInvariant --------------------------
(***************************************************************************)
(* Why the split flush is atomic, why the benchmark's counters balance and *)
(* why a read beside the flush is right: the inductive invariant of        *)
(* Benchmark.                                                              *)
(*                                                                         *)
(* While the flush runs, the controller is a function of what it was       *)
(* before: Stage says which and, for the pages of a collection,            *)
(* MigrationStage.  What FTLInvariant says of the controller is said here  *)
(* of the committed one, and holds of each stage as far as the reader      *)
(* looks.                                                                  *)
(***************************************************************************)
EXTENDS Benchmark, FTLInvariant

(* The victim pages before p are treated: these pages of the reserve are   *)
(* reached,                                                                *)
Reached(f, v, p) == {w \in Landed(f, v) : Source(f, v, w) < p}

(* programmed unless they were before,                                     *)
Copied(f, v, r, p, b, w) == b = r /\ w \in Reached(f, v, p) /\ ~f.is_programmed[r][w]
MigratedFlash(f, v, r, p) ==
  [is_programmed |-> [b \in Blocks |-> [w \in Pages |->
     f.is_programmed[b][w] \/ Copied(f, v, r, p, b, w)]],
   page_valid |-> [b \in Blocks |-> [w \in Pages |->
     f.page_valid[b][w] \/ Copied(f, v, r, p, b, w)]],
   data |-> [b \in Blocks |-> [w \in Pages |->
     IF Copied(f, v, r, p, b, w) THEN ReadPage(f, v, Source(f, v, w)) ELSE f.data[b][w]]],
   invalid_page_count |-> f.invalid_page_count]

(* their LBAs are mapped to them,                                          *)
OwnedBefore(s, v, p, l) == {q \in Moved(s.flash, v) : q < p /\ l \in s.block_page_owners[v][q]}
MigratedEntry(s, v, p, l) ==
  IF OwnedBefore(s, v, p, l) = {} THEN s.lba_table[l]
  ELSE MovedTo(s.lba_table[l], s.reserve_block_idx,
               Dest(s.flash, v, Max(OwnedBefore(s, v, p, l))))

(* and are their owners; the treated pages of the victim have none.        *)
MigratedOwners(s, v, p) ==
  [b \in Blocks |-> [w \in Pages |->
     IF b = v THEN IF w < p THEN {} ELSE s.block_page_owners[v][w]
     ELSE IF b = s.reserve_block_idx /\ w \in Reached(s.flash, v, p)
       THEN s.block_page_owners[v][Source(s.flash, v, w)]
     ELSE s.block_page_owners[b][w]]]

(* The controller midway, the reserve counted as taken.                    *)
Midway(s, flash, table, owners) ==
  [flash             |-> flash,
   lba_table         |-> table,
   active_block_idx  |-> s.active_block_idx,
   active_page_idx   |-> s.active_page_idx,
   reserve_block_idx |-> s.reserve_block_idx,
   staged_half       |-> s.staged_half,
   block_page_owners |-> owners,
   rotations         |-> Rotated(s)]

(* Page p is copied after "migrate", and the block index of its LBAs set   *)
(* after "block_idx".                                                      *)
MigratedTable(s, v, p) == [l \in LBAs |-> MigratedEntry(s, v, p, l)]
BlockSetTable(s, v, p) ==
  [l \in LBAs |->
     LET e == MigratedEntry(s, v, p, l)
     IN  IF l \in s.block_page_owners[v][p]
         THEN MovedTo(e, s.reserve_block_idx, e.page_idx) ELSE e]

MigrationStage(s, v, p) ==
  /\ Collects(s) /\ v = Victim(s) /\ p \in 0 .. pages_per_block
  /\ runner.to = Dest(s.flash, v, p)
  /\ runner.pc # "migrate" => p \in Moved(s.flash, v)
  /\ ftl = Midway(s, MigratedFlash(s.flash, v, s.reserve_block_idx,
                                   IF runner.pc = "migrate" THEN p ELSE p + 1),
                  IF runner.pc = "page_idx" THEN BlockSetTable(s, v, p)
                                            ELSE MigratedTable(s, v, p),
                  MigratedOwners(s, v, p))

(* The steps of FlushStagedWrites after garbage collection.                *)
Programmed(s) ==
  [s EXCEPT !.flash = ProgramPage(@, s.active_block_idx, s.active_page_idx,
                                  Packed(s.staged_half.data, Blank))]
Mapped(s) ==
  [s EXCEPT !.lba_table[s.staged_half.lba] =
     MovedTo(Half(0, s.staged_half.comp_size), s.active_block_idx, s.active_page_idx)]
WithOwner(s) ==
  [s EXCEPT !.block_page_owners[s.active_block_idx][s.active_page_idx] =
              @ \cup {s.staged_half.lba},
            !.active_page_idx = @ + 1]

(* The controller about to take the step pc of a flush that began in s.    *)
Stage(pc, s) ==
  LET g == RunGarbageCollectionIfNeeded(s)
  IN  CASE pc = "collect" -> s
        [] pc = "program" -> g
        [] pc = "map"     -> Programmed(g)
        [] pc = "own"     -> Mapped(Programmed(g))
        [] pc = "reset"   -> WithOwner(Mapped(Programmed(g)))

FlushStage ==
  /\ Flushing => runner.before.staged_half.has_value
  /\ Migrating => MigrationStage(runner.before, runner.victim, runner.page)
  /\ Flushing /\ ~Migrating => ftl = Stage(runner.pc, runner.before)

(* What the mapping and the staging buffer say of s can be relied on.      *)
Consistent(s) ==
  s.rotations < total_blocks => /\ Good(s, collateral \cup StagedLBA(s), host)
                                /\ StagedRight(s, collateral, host)

-----------------------------------------------------------------------------
Counters ==
  [host_writes : Nat, host_reads : Nat, zero_blocks : Nat, half_page_packs : Nat,
   raw_full_pages : Nat, gc_count : Nat, gc_migrated_pages : Nat,
   total_pages_programmed : Nat, total_blocks_erased : Nat]

RunnerState ==
  [pc : {"start", "write", "collect", "migrate", "block_idx", "page_idx", "program",
         "map", "own", "reset", "report", "done"},
   workload : Nat, generator : Generators \cup {<<>>}, i : Nat,
   victim : Blocks, page : 0 .. pages_per_block, to : 0 .. pages_per_block,
   before : Controller \cup {<<>>}]

ReaderState ==
  [pc : {"idle", "index", "fetch"}, lba : LBAs, entry : MappingEntry \cup {<<>>},
   staged : StagedHalfPage, unread : SUBSET {"block_idx", "page_idx"}, overtaken : BOOLEAN]

(* The runner writes its blocks to LBAs 0, 1, ..., so that the one staged  *)
(* was written in this workload, and flushes before it reports.            *)
RunnerRight ==
  /\ runner.pc \notin {"start", "done"} =>
       /\ runner.generator \in Generators
       /\ runner.i <= Len(runner.generator)
       /\ \A j \in 1 .. runner.i : host[j - 1] = runner.generator[j]
  /\ runner.pc \notin {"start", "write", "done"} => runner.i = Len(runner.generator)
  /\ runner.pc \in {"start", "report", "done"} => ~ftl.staged_half.has_value
  /\ runner.pc = "write" /\ ftl.staged_half.has_value => ftl.staged_half.lba < runner.i

(* The entry the reader took still leads to the block.                     *)
Found(r) ==
  IF r.staged.has_value
  THEN /\ r.staged.lba = r.lba
       /\ r.staged.data = LZ4(host[r.lba])
       /\ r.staged.comp_size = LZ4Size[host[r.lba]] /\ LZ4Size[host[r.lba]] > 0
  ELSE /\ r.entry \in MappingEntry
       /\ IF r.entry.state \in OnFlash
          THEN /\ ftl.flash.page_valid[r.entry.block_idx][r.entry.page_idx]
               /\ Holds(ftl.flash.data[r.entry.block_idx][r.entry.page_idx],
                        r.entry, host[r.lba])
          ELSE host[r.lba] = Zero

(* An entry half read is that of an LBA on flash, up to the two indices.   *)
HalfRead ==
  LET e == reader.entry
      t == ftl.lba_table[reader.lba]
  IN  /\ ~reader.staged.has_value /\ reader.lba \notin StagedLBA(ftl)
      /\ e \in MappingEntry /\ e.state \in OnFlash
      /\ e = MovedTo(t, e.block_idx, e.page_idx)

ReaderRight ==
  /\ reader.pc = "index" => HalfRead
  /\ reader.pc = "fetch" /\ ~reader.overtaken /\ FirstLap /\ reader.lba \notin collateral
       => Found(reader)

(* Pages programmed, and blocks that need none, less pages that account    *)
(* for them; a block staged has its page still to come.                    *)
Balance(k) ==
  k.total_pages_programmed + k.zero_blocks + k.half_page_packs
    - k.gc_migrated_pages - k.host_writes
Pending ==
  IF ftl.staged_half.has_value /\ runner.pc \notin {"map", "own", "reset"} THEN 1 ELSE 0

CountsRight ==
  /\ tel.total_blocks_erased + (IF Migrating THEN 1 ELSE 0) = tel.gc_count
  /\ FirstLap => Balance(tel) + Pending = 0

BenchInv ==
  /\ Sound(Committed) /\ Consistent(Committed) /\ Sound(ftl)
  /\ host \in [LBAs -> Data] /\ collateral \in SUBSET LBAs
  /\ tel \in Counters /\ runner \in RunnerState /\ reader \in ReaderState
  /\ FlushStage /\ RunnerRight /\ ReaderRight /\ CountsRight
=============================================================================
