------------------------------ MODULE LineTable ------------------------------
(***************************************************************************)
(* The memory line table of legacy/src/line_table.cpp: a table entry for   *)
(* each 64-byte line of the virtual space and an allocator of 16-byte      *)
(* chunks of the physical DRAM, in runs of one to four.  The private       *)
(* members are the fields of a record t; a helper is an operator from such *)
(* a record to the one it leaves behind.                                   *)
(***************************************************************************)
EXTENDS BDIEngine

CONSTANTS
  virtual_capacity,   \* bytes
  physical_capacity,
  OFFSET_RANGE        \* phys_chunk_offset takes 2^24 values

ASSUME TableAssumption ==
  /\ virtual_capacity \in Nat /\ physical_capacity \in Nat /\ OFFSET_RANGE \in Nat \ {0}

SLOT_CHUNK_SIZE       == 16
total_logical_lines   == (virtual_capacity + CACHE_LINE_SIZE - 1) \div CACHE_LINE_SIZE
total_physical_chunks == physical_capacity \div SLOT_CHUNK_SIZE
UINT32_MAX            == -1   \* stands for it: no chunk has that number

LineIndex == 0 .. total_logical_lines - 1
Chunks    == 0 .. total_physical_chunks - 1

NoEntry == [phys_chunk_offset |-> 0, allocated_chunks |-> 0,
            pattern_tag |-> "ZEROS", valid |-> FALSE]

(* physical_dram is kept chunk by chunk.                                   *)
NewTable ==
  [entries |-> [l \in LineIndex |-> NoEntry],
   physical_dram |-> [c \in Chunks |-> [i \in 1 .. SLOT_CHUNK_SIZE |-> 0]],
   free_chunks |-> [n \in 1 .. 4 |-> <<>>],
   next_unpartitioned_chunk |-> 0,
   allocated_chunks_count |-> 0, total_uncompressed_bytes_stored |-> 0]

(* A run of n chunks comes from the list of runs of that length, the last  *)
(* one freed first, or from the chunks never handed out.                   *)
AllocateUnpopped(t, n) ==   \* faulty variant, for the mutation runs
  IF n = 0 THEN [table |-> t, offset |-> 0]
  ELSE IF t.free_chunks[n] # <<>> THEN [table |-> t, offset |-> Last(t.free_chunks[n])]
  ELSE IF t.next_unpartitioned_chunk + n <= total_physical_chunks
    THEN [table |-> [t EXCEPT !.next_unpartitioned_chunk = @ + n],
          offset |-> t.next_unpartitioned_chunk]
  ELSE [table |-> t, offset |-> UINT32_MAX]
AllocatePastEnd(t, n) ==    \* faulty variant, for the mutation runs
  IF n = 0 THEN [table |-> t, offset |-> 0]
  ELSE IF t.next_unpartitioned_chunk < total_physical_chunks
    THEN [table |-> [t EXCEPT !.next_unpartitioned_chunk = @ + n],
          offset |-> t.next_unpartitioned_chunk]
  ELSE [table |-> t, offset |-> UINT32_MAX]
AllocateChunks(t, n) ==
  LET taken == [t EXCEPT !.allocated_chunks_count = @ + n]
      free  == IF n = 0 THEN <<>> ELSE t.free_chunks[n]
      next  == t.next_unpartitioned_chunk
  IN  IF n = 0 THEN [table |-> t, offset |-> 0]
      ELSE IF free # <<>>
        THEN [table |-> [taken EXCEPT !.free_chunks[n] = Front(free)],
              offset |-> Last(free)]
      ELSE IF next + n <= total_physical_chunks
        THEN [table |-> [taken EXCEPT !.next_unpartitioned_chunk = @ + n],
              offset |-> next]
      ELSE [table |-> t, offset |-> UINT32_MAX]

FreeUncounted(t, offset, n) ==   \* faulty variant, for the mutation runs
  IF n = 0 \/ offset = UINT32_MAX THEN t
  ELSE [t EXCEPT !.free_chunks[n] = Append(@, offset)]
FreeChunks(t, offset, n) ==
  IF n = 0 \/ offset = UINT32_MAX THEN t
  ELSE [t EXCEPT !.allocated_chunks_count = @ - n,
                 !.free_chunks[n] = Append(@, offset)]

Needed(c) ==
  IF c.pattern = "ZEROS" THEN 0
  ELSE GetQuantizedSlotSize(c.compressed_size) \div SLOT_CHUNK_SIZE

(* Copies the compressed bytes; the rest of the last chunk keeps its own.  *)
WriteData(t, offset, data) ==
  [t EXCEPT !.physical_dram = [c \in Chunks |-> [i \in 1 .. SLOT_CHUNK_SIZE |->
     LET k == (c - offset) * SLOT_CHUNK_SIZE + i
     IN  IF k \in DOMAIN data THEN data[k] ELSE @[c][i]]]]

(* What an entry without a run, or with one of the wrong length, gets.  On *)
(* failure the old run is on a free list and the entry still names it.     *)
Reallocate(t, e, n) ==
  AllocateChunks(IF e.valid THEN FreeChunks(t, e.phys_chunk_offset, e.allocated_chunks)
                            ELSE t, n)
KeepLargerRun(t, e, n) ==   \* faulty variant, for the mutation runs
  IF e.valid /\ e.allocated_chunks >= n
  THEN [table |-> t, offset |-> e.phys_chunk_offset] ELSE Reallocate(t, e, n)
KeepRun(t, e, n) ==
  IF e.valid /\ e.allocated_chunks = n
  THEN [table |-> t, offset |-> e.phys_chunk_offset] ELSE Reallocate(t, e, n)

StoreLine(t, l, c) ==
  LET e == t.entries[l]
      n == Needed(c)
      a == KeepRun(t, e, n)
      counted == [a.table EXCEPT !.total_uncompressed_bytes_stored =
                    @ + (IF e.valid THEN 0 ELSE CACHE_LINE_SIZE)]
      written == IF n > 0 THEN WriteData(counted, a.offset, c.data) ELSE counted
  IN  IF n > 0 /\ a.offset = UINT32_MAX THEN [table |-> a.table, ok |-> FALSE]
      ELSE [table |-> [written EXCEPT !.entries[l] =
              [phys_chunk_offset |-> IF n > 0 THEN a.offset % OFFSET_RANGE ELSE 0,
               allocated_chunks |-> n, pattern_tag |-> c.pattern, valid |-> TRUE]],
            ok |-> TRUE]

(* The second half of LoadLine, after the lock: entry e is a copy.         *)
Fetch(t, e) ==
  IF ~e.valid \/ e.allocated_chunks = 0 \/ e.pattern_tag = "ZEROS" THEN ZeroLine
  ELSE DecompressRaw(
         Join([i \in 1 .. e.allocated_chunks |->
                 t.physical_dram[e.phys_chunk_offset + i - 1]], SLOT_CHUNK_SIZE),
         e.allocated_chunks * SLOT_CHUNK_SIZE, e.pattern_tag)

(* The runs of chunks that a valid entry holds, and that a free list does. *)
Run(offset, n) == offset .. offset + n - 1
Held(t, l) == IF t.entries[l].valid
              THEN Run(t.entries[l].phys_chunk_offset, t.entries[l].allocated_chunks)
              ELSE {}
=============================================================================
