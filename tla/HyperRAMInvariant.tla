-------------------------- MODULE HyperRAMInvariant --------------------------
(***************************************************************************)
(* Why the compressed memory reads back what was stored: an invariant of   *)
(* HyperRAMController that implies its safety properties and that every    *)
(* step preserves.  Its heart is Ownership, an account of every chunk the  *)
(* allocator ever handed out.                                              *)
(***************************************************************************)
EXTENDS HyperRAMController

EntryType ==
  [phys_chunk_offset : Nat, allocated_chunks : 0 .. 4, pattern_tag : BDIPattern, valid : BOOLEAN]

(* An entry, current or not, names chunks that were handed out.            *)
EntryOK(e, next) ==
  /\ e \in EntryType
  /\ e.phys_chunk_offset + e.allocated_chunks <= next
  /\ e.pattern_tag = "UNCOMPRESSED" => e.allocated_chunks = 4

FreeListsOK(lists, next) ==
  /\ lists \in [1 .. 4 -> Seq(Nat)]
  /\ \A n \in 1 .. 4 : \A i \in 1 .. Len(lists[n]) : lists[n][i] + n <= next

TableType ==
  [entries : [LineIndex -> EntryType],
   physical_dram : [Chunks -> [1 .. SLOT_CHUNK_SIZE -> Byte]],
   free_chunks : [1 .. 4 -> Seq(Nat)],
   next_unpartitioned_chunk : 0 .. total_physical_chunks,
   allocated_chunks_count : Int, total_uncompressed_bytes_stored : Int]

TableOK(t) ==
  /\ t \in TableType
  /\ \A l \in LineIndex : EntryOK(t.entries[l], t.next_unpartitioned_chunk)
  /\ FreeListsOK(t.free_chunks, t.next_unpartitioned_chunk)

-----------------------------------------------------------------------------
(* Every chunk below next has one owner: a line outside X, a free run, or  *)
(* the run R that a store has in its hands.                                *)
Holders(t, X) == {l \in LineIndex \ X : t.entries[l].valid}
FreeAt(t, n, i) == Run(t.free_chunks[n][i], n)
HeldBy(t, X) == UNION {Held(t, l) : l \in Holders(t, X)}

Owned(t, X, R) ==
  /\ \A l \in Holders(t, X), m \in Holders(t, X) : l # m => Held(t, l) \cap Held(t, m) = {}
  /\ \A n \in 1 .. 4, m \in 1 .. 4 :
       \A i \in 1 .. Len(t.free_chunks[n]), j \in 1 .. Len(t.free_chunks[m]) :
         n # m \/ i # j => FreeAt(t, n, i) \cap FreeAt(t, m, j) = {}
  /\ \A l \in Holders(t, X), n \in 1 .. 4 : \A i \in 1 .. Len(t.free_chunks[n]) :
       Held(t, l) \cap FreeAt(t, n, i) = {}
  /\ \A l \in Holders(t, X) : Held(t, l) \cap R = {}
  /\ \A n \in 1 .. 4 : \A i \in 1 .. Len(t.free_chunks[n]) : R \cap FreeAt(t, n, i) = {}

AllOwned(t, X, R) ==
  \A k \in 0 .. t.next_unpartitioned_chunk - 1 :
    \/ k \in R
    \/ \E l \in Holders(t, X) : k \in Held(t, l)
    \/ \E n \in 1 .. 4 : \E i \in 1 .. Len(t.free_chunks[n]) : k \in FreeAt(t, n, i)

Counted(t, X, R) ==
  t.allocated_chunks_count = Cardinality(HeldBy(t, X) \cup R)

Ownership(t, X, R) == Owned(t, X, R) /\ AllOwned(t, X, R) /\ Counted(t, X, R)

-----------------------------------------------------------------------------
ThreadType ==
  [pc : {"idle", "line", "fetch", "store"}, op : {"Read", "Write"}, address : Nat,
   size : Nat, src : Seq(Byte), done : Nat, entry : EntryType, line_buf : Line,
   overtaken : BOOLEAN]

(* A call in progress is at a line of its range, at the start of the line  *)
(* unless it is at the first.                                              *)
InRange(c) ==
  /\ c.done < c.size /\ c.address + c.size <= virtual_capacity
  /\ c.done = 0 \/ OffsetOf(c) = 0
  /\ c.op = "Write" => Len(c.src) = c.size

ThreadOK(c, next) ==
  /\ c \in ThreadType /\ EntryOK(c.entry, next)
  /\ c.pc # "idle" => InRange(c)
  /\ c.pc = "store" => c.op = "Write"

TelemetryType ==
  [reads : Nat, writes : Nat, bytes_read : Nat, bytes_written : Nat,
   pattern_counts : [BDIPattern -> Nat]]

Typed ==
  /\ TableOK(table) /\ telemetry \in TelemetryType
  /\ thread \in [Threads -> ThreadType]
  /\ \A t \in Threads : ThreadOK(thread[t], table.next_unpartitioned_chunk)
  /\ content \in [LineIndex -> Line] /\ lost \in SUBSET LineIndex /\ misused \in BOOLEAN

ValidLines(t) == {l \in LineIndex : t.entries[l].valid}
LinesCounted ==
  table.total_uncompressed_bytes_stored = CACHE_LINE_SIZE * Cardinality(ValidLines(table))

(* The bytes of the lines that the writes in progress have done are not    *)
(* counted as written yet; those lines were compressed.                    *)
Progress(c) == IF c.op = "Write" THEN c.done ELSE 0
InProgress  == [t \in Threads |-> Progress(thread[t])]
BytesCounted ==
  telemetry.bytes_written + MapThenSumSet(LAMBDA t : InProgress[t], Threads)
    <= CACHE_LINE_SIZE * MapThenSumSet(LAMBDA p : telemetry.pattern_counts[p], BDIPattern)

(* An entry copied by a load is current until the line is stored again.    *)
Current(c) == c.entry = table.entries[LineOf(c)]

(* What a write is about to store, if nobody stores the line before it.    *)
Wanted(c, line) ==
  [i \in 1 .. CACHE_LINE_SIZE |->
    LET k == LineOf(c) * CACHE_LINE_SIZE + i - c.address
    IN  IF k \in 1 .. c.size THEN c.src[k] ELSE line[i]]

Ready(c) ==
  ~c.overtaken /\ LineOf(c) \notin lost =>
    /\ c.pc = "fetch" => Current(c)
    /\ c.pc = "store" => c.line_buf = Wanted(c, content[LineOf(c)])

Consistent ==
  Trusted =>
    /\ Ownership(table, lost, {})
    /\ \A l \in LineIndex \ lost : Fetch(table, table.entries[l]) = content[l]
    /\ \A t \in Threads : Ready(thread[t])

Inductive == Typed /\ LinesCounted /\ BytesCounted /\ Consistent
=============================================================================
