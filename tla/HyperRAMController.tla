-------------------------- MODULE HyperRAMController --------------------------
(***************************************************************************)
(* The compressed-memory controller of legacy/src/hyper_ram_controller.cpp *)
(* with calls of Read and Write on several threads.  The controller takes  *)
(* no lock of its own; the line table's mutex covers StoreLine and the     *)
(* copying of an entry in LoadLine, but not the reading of the DRAM behind *)
(* it.  A step is the code between two points where another thread may     *)
(* run: start of the call, copy of an entry, reading of the DRAM, store.   *)
(***************************************************************************)
EXTENDS LineTable

CONSTANTS
  Threads,    \* numbers
  Requests,   \* calls that may be made
  MaxCalls,   \* bound: calls made
  Samples     \* lines on which the codec is checked, beside those stored

ASSUME ControllerAssumption ==
  /\ MaxCalls \in Nat /\ Threads \subseteq Nat /\ IsFiniteSet(Threads) /\ Samples \subseteq Line
  /\ \A r \in Requests :
       /\ r.op \in {"Read", "Write"} /\ r.address \in Nat /\ r.size \in Nat /\ r.src \in Seq(Byte)
       /\ r.op = "Write" => Len(r.src) = r.size

VARIABLES
  table,      \* line_table_
  telemetry,
  thread,     \* the local variables of the call each thread is in
  calls,      \* bookkeeping for MaxCalls
  (* History variables: no code reads them.                                *)
  content,    \* content[l]: the bytes last stored in line l, zero before
  lost,       \* the lines whose run was freed by a store that failed
  misused     \* a line of lost was stored again

vars == <<table, telemetry, thread, calls, content, lost, misused>>

Idle ==
  [pc |-> "idle", op |-> "Read", address |-> 0, size |-> 0, src |-> <<>>,
   done |-> 0, entry |-> NoEntry, line_buf |-> ZeroLine,
   overtaken |-> FALSE]  \* history: the line was stored since entry was copied

(* Without the latency sums, which grow by a constant with every line.     *)
NoTelemetry ==
  [reads |-> 0, writes |-> 0, bytes_read |-> 0, bytes_written |-> 0,
   pattern_counts |-> [p \in BDIPattern |-> 0]]

Init ==
  /\ table = NewTable /\ telemetry = NoTelemetry
  /\ thread = [t \in Threads |-> Idle] /\ calls = 0
  /\ content = [l \in LineIndex |-> ZeroLine]
  /\ lost = {} /\ misused = FALSE

-----------------------------------------------------------------------------
(* The line a call is at, and the part of it that the call covers.         *)
LineOf(c) == (c.address + c.done) \div CACHE_LINE_SIZE
OffsetOf(c) == (c.address + c.done) % CACHE_LINE_SIZE
PartOf(c) == Min({c.size - c.done, CACHE_LINE_SIZE - OffsetOf(c)})
Covered(c) == OffsetOf(c) + 1 .. OffsetOf(c) + PartOf(c)

(* The line with the bytes of src put in.                                  *)
MergeShifted(c, line) ==   \* faulty variant, for the mutation runs
  [i \in 1 .. CACHE_LINE_SIZE |->
     IF i \in Covered(c) THEN c.src[i - OffsetOf(c)] ELSE line[i]]
Merge(c, line) ==
  [i \in 1 .. CACHE_LINE_SIZE |->
     IF i \in Covered(c) THEN c.src[c.done + i - OffsetOf(c)] ELSE line[i]]

(* After a line: the next one, or the end of the call.                     *)
AtLine(c, done) ==
  [Idle EXCEPT !.pc = "line", !.op = c.op, !.address = c.address, !.size = c.size,
               !.src = c.src, !.done = done]
StuckAtLine(c) ==   \* faulty variant, for the mutation runs
  IF c.done + PartOf(c) = c.size THEN Idle ELSE AtLine(c, c.done)
Advanced(c) ==
  IF c.done + PartOf(c) = c.size THEN Idle ELSE AtLine(c, c.done + PartOf(c))

OutOfRange(r) == r.address > virtual_capacity \/ r.size > virtual_capacity - r.address

(* Threads are interchangeable: a call is made by the first that is idle.  *)
Call(t, r) ==
  /\ thread[t].pc = "idle" /\ calls < MaxCalls
  /\ \A u \in Threads : u < t => thread[u].pc # "idle"
  /\ calls' = calls + 1
  /\ thread' = [thread EXCEPT ![t] =
       IF r.size = 0 \/ OutOfRange(r) THEN Idle ELSE AtLine(r, 0)]
  /\ UNCHANGED <<table, telemetry, content, lost, misused>>

(* A whole line is overwritten without being loaded.                       *)
WholeLine(t) ==
  LET c == thread[t] IN
  /\ c.pc = "line" /\ c.op = "Write" /\ PartOf(c) = CACHE_LINE_SIZE
  /\ thread' = [thread EXCEPT ![t] = [c EXCEPT !.pc = "store", !.overtaken = FALSE,
                                               !.line_buf = Merge(c, @)]]
  /\ UNCHANGED <<table, telemetry, calls, content, lost, misused>>

(* LoadLine up to the end of its lock.                                     *)
CopyEntry(t) ==
  LET c == thread[t] IN
  /\ c.pc = "line" /\ ~(c.op = "Write" /\ PartOf(c) = CACHE_LINE_SIZE)
  /\ thread' = [thread EXCEPT ![t] = [c EXCEPT !.pc = "fetch", !.overtaken = FALSE,
                                               !.entry = table.entries[LineOf(c)]]]
  /\ UNCHANGED <<table, telemetry, calls, content, lost, misused>>

(* The rest of LoadLine and what the caller does with the line.            *)
Finished(tel, c) ==
  IF c.done + PartOf(c) < c.size THEN tel
  ELSE IF c.op = "Read"
    THEN [tel EXCEPT !.reads = @ + 1, !.bytes_read = @ + c.size]
    ELSE [tel EXCEPT !.writes = @ + 1, !.bytes_written = @ + c.size]

FetchLine(t) ==
  LET c    == thread[t]
      line == Fetch(table, c.entry)
  IN  /\ c.pc = "fetch"
      /\ thread' = [thread EXCEPT ![t] =
           IF line = Refused THEN Idle
           ELSE IF c.op = "Read" THEN Advanced(c)
           ELSE [c EXCEPT !.pc = "store", !.entry = NoEntry, !.line_buf = Merge(c, line)]]
      /\ telemetry' = IF line = Refused \/ c.op = "Write" THEN telemetry
                      ELSE Finished(telemetry, c)
      /\ UNCHANGED <<table, calls, content, lost, misused>>

(* Compress, StoreLine and the end of the turn.                            *)
Store(t, wraps) ==
  LET c    == thread[t]
      l    == LineOf(c)
      comp == Compress(c.line_buf, wraps)
      s    == StoreLine(table, l, comp)
      counted == [telemetry EXCEPT !.pattern_counts[comp.pattern] = @ + 1]
      Others(th) == [u \in Threads |->
        IF u # t /\ th[u].pc \in {"fetch", "store"} /\ LineOf(th[u]) = l
        THEN [th[u] EXCEPT !.overtaken = TRUE] ELSE th[u]]
  IN  /\ c.pc = "store"
      /\ table' = s.table
      /\ misused' = (misused \/ l \in lost)
      /\ \/ /\ s.ok
            /\ thread' = Others([thread EXCEPT ![t] = Advanced(c)])
            /\ telemetry' = Finished(counted, c)
            /\ content' = [content EXCEPT ![l] = c.line_buf]
            /\ UNCHANGED lost
         \/ /\ ~s.ok
            /\ thread' = Others([thread EXCEPT ![t] = Idle])
            /\ telemetry' = counted
            /\ lost' = IF Held(table, l) = {} THEN lost ELSE lost \cup {l}
            /\ UNCHANGED content
      /\ UNCHANGED calls

ThreadStep(t) ==
  WholeLine(t) \/ CopyEntry(t) \/ FetchLine(t) \/ \E wraps \in BOOLEAN : Store(t, wraps)

Next == \E t \in Threads : ThreadStep(t) \/ \E r \in Requests : Call(t, r)

(* A thread in a call goes on with it: WF_vars(ThreadStep(t)) spelled out. *)
(* A thread has a step exactly while it is in a call, and every step of it *)
(* changes its pc.                                                         *)
Scheduled(t) ==
  []<>(thread[t].pc = "idle") \/ []<><<thread'[t].pc # thread[t].pc>>_vars

Spec == Init /\ [][Next]_vars /\ \A t \in Threads : Scheduled(t)

-----------------------------------------------------------------------------
(* Every field has its C++ type and every index is in range.               *)
TypeOK ==
  /\ \A l \in LineIndex : table.entries[l].allocated_chunks \in 0 .. 4
  /\ \A l \in LineIndex \ lost : Held(table, l) \subseteq Chunks
  /\ table.next_unpartitioned_chunk \in 0 .. total_physical_chunks
  /\ \A t \in Threads :
       /\ thread[t].pc \in {"idle", "line", "fetch", "store"}
       /\ thread[t].pc # "idle" => LineOf(thread[t]) \in LineIndex

(* The free runs, as pairs of a length and a place in its list.            *)
FreePlaces == UNION {{n} \X DOMAIN table.free_chunks[n] : n \in 1 .. 4}
FreeRun(p) == Run(table.free_chunks[p[1]][p[2]], p[1])
HeldLines  == {l \in LineIndex \ lost : table.entries[l].valid}

(* What the table promises holds until a line that lost its run is stored  *)
(* again, and while the chunks handed out have numbers an entry can name.  *)
Trusted == ~misused /\ table.next_unpartitioned_chunk <= OFFSET_RANGE

(* Every chunk handed out is held by one line or is in one free run: none  *)
(* is shared, none leaks.                                                  *)
ChunksHaveOneOwner ==
  Trusted =>
    /\ \A l, m \in HeldLines : l # m => Held(table, l) \cap Held(table, m) = {}
    /\ \A p, q \in FreePlaces : p # q => FreeRun(p) \cap FreeRun(q) = {}
    /\ \A l \in HeldLines, p \in FreePlaces : Held(table, l) \cap FreeRun(p) = {}
    /\ (UNION {Held(table, l) : l \in HeldLines}) \cup (UNION {FreeRun(p) : p \in FreePlaces})
         = 0 .. table.next_unpartitioned_chunk - 1

(* What GetTelemetry reports: the chunks allocated are the chunks held, a  *)
(* line counts once however often it is written, and no byte is counted as *)
(* written whose line was not compressed, whichever calls fail on the way. *)
CountsExact ==
  /\ telemetry.bytes_written
       <= CACHE_LINE_SIZE * MapThenSumSet(LAMBDA p : telemetry.pattern_counts[p], BDIPattern)
  /\ Trusted =>
    /\ table.allocated_chunks_count
         = Cardinality(UNION {Held(table, l) : l \in HeldLines})
    /\ table.total_uncompressed_bytes_stored
         = CACHE_LINE_SIZE * Cardinality({l \in LineIndex : table.entries[l].valid})

(* A line loads as it was last stored, whatever moved around it.           *)
LinesReadBack ==
  Trusted => \A l \in LineIndex \ lost : Fetch(table, table.entries[l]) = content[l]

(* Reading the DRAM after the lock is released is safe as long as no other *)
(* thread stores the same line in between.                                 *)
LoadsUntorn ==
  \A t \in Threads :
    LET c == thread[t] IN
    c.pc = "fetch" /\ ~c.overtaken /\ Trusted /\ LineOf(c) \notin lost =>
      Fetch(table, c.entry) = content[LineOf(c)]

(* A write changes the bytes of its range and no others, unless another    *)
(* thread stores the line between its load and its store.                  *)
OnlyRangeChanges ==
  \A t \in Threads :
    LET c == thread[t]
        l == LineOf(c)
    IN  c.pc = "store" /\ ~c.overtaken /\ Trusted /\ l \notin lost =>
          c.line_buf = [i \in 1 .. CACHE_LINE_SIZE |->
            LET k == l * CACHE_LINE_SIZE + i - c.address
            IN  IF k \in 1 .. c.size THEN c.src[k] ELSE content[l][i]]

(* A line decompresses to itself, whatever the build makes of a signed     *)
(* overflow, and takes no more bytes than any pattern that fits: the lines *)
(* about to be stored and, in the initial state, the samples.              *)
CompressionExact ==
  \A line \in (IF calls = 0 THEN Samples ELSE {})
                \cup {thread[t].line_buf : t \in {u \in Threads : thread[u].pc = "store"}},
     wraps \in BOOLEAN :
    LET c == Compress(line, wraps)
    IN  /\ Decompress(c) = line
        /\ \A i \in DOMAIN Shapes :
             ShapeFits(line, Shapes[i], wraps) => c.compressed_size <= ShapeSize(Shapes[i])

(* Every call returns.                                                     *)
CallsReturn == \A t \in Threads : thread[t].pc # "idle" ~> thread[t].pc = "idle"
=============================================================================
