--------------------------- MODULE LZ4Decompressor ---------------------------
(***************************************************************************)
(* The hardware decompressor of src/hdl/lz4_decompressor_4k.v, between the *)
(* producer and the consumer of its two AXI streams.  The registers of the *)
(* core are the fields of the record core; every action but Reset is one   *)
(* rising clock edge, one action per state of the machine.  What a Verilog *)
(* nonblocking assignment schedules is a primed value; what it does not    *)
(* assign is kept.                                                         *)
(*                                                                         *)
(* The producer is send_byte of the testbench: it offers the bytes of a    *)
(* block in order, keeps a byte until an edge at which s_axis_tready is    *)
(* high, and marks the last one.  The consumer takes a byte at every edge  *)
(* at which m_axis_tvalid and m_axis_tready are high.  The testbench never *)
(* pauses either; ProducerGaps and ConsumerStalls allow what AXI allows.   *)
(***************************************************************************)
EXTENDS LZ4Stream

CONSTANTS
  MAX_BLOCK_SIZE,   \* parameter of the Verilog module
  BlockSet,         \* the blocks the producer may send
  X,                \* the value of a register or memory cell never written
  ProducerGaps,     \* s_axis_tvalid may be low between two bytes
  ConsumerStalls,   \* m_axis_tready may be low
  MaxBlocks,        \* bound: blocks started
  MaxResets,        \* bound: resets
  ResetWithin       \* bound: output bytes after which no reset comes

ASSUME CoreAssumption ==
  /\ MAX_BLOCK_SIZE \in 1..4096
  /\ X \notin Byte
  /\ ProducerGaps \in BOOLEAN
  /\ ConsumerStalls \in BOOLEAN
  /\ MaxBlocks \in Nat
  /\ MaxResets \in Nat
  /\ ResetWithin \in Nat
  /\ BlockSet \subseteq Seq(LZ4Sequence) \ {<<>>}

VARIABLES
  core,          \* the registers of lz4_decompressor_4k
  history_ram,   \* the window; not reset
  block,         \* the block being sent
  stream,        \* its bytes
  sent,          \* how many of them were accepted
  offered,       \* s_axis_tvalid
  taken,         \* the bytes the consumer took since the last start
  started,       \* bookkeeping for MaxBlocks and MaxResets
  resets

environment == <<block, stream, sent, offered, taken>>
vars == <<core, history_ram, environment, started, resets>>

States == {"IDLE", "TOKEN", "EXT_LIT", "LITERAL", "OFFSET_L", "OFFSET_H",
           "EXT_MATCH", "MATCH_COPY", "DONE"}

InReset ==
  [state |-> "IDLE", busy |-> FALSE, done |-> FALSE, error_flag |-> FALSE,
   decompressed_bytes |-> 0, write_ptr |-> 0, lit_len |-> 0, match_len |-> 0,
   match_offset |-> 0, saved_match_token |-> 0, offset_low |-> 0,
   last_byte_seen |-> FALSE, s_axis_tready |-> FALSE,
   m_axis_tvalid |-> FALSE, m_axis_tdata |-> 0, m_axis_tlast |-> FALSE]

Init ==
  /\ core = InReset
  /\ history_ram = [a \in 0..(MAX_BLOCK_SIZE - 1) |-> X]
  /\ block = <<>> /\ stream = <<>> /\ sent = 0 /\ offered = FALSE
  /\ taken = <<>>
  /\ started = 0 /\ resets = 0

-----------------------------------------------------------------------------
(* The streams, seen at a clock edge.                                      *)
s_axis_tdata == stream[sent + 1]
s_axis_tlast == offered /\ sent + 1 = Len(stream)
Accepted == offered /\ core.s_axis_tready

(* What the producer offers after the edge: a byte not yet accepted stays. *)
Produce ==
  /\ sent' = IF Accepted THEN sent + 1 ELSE sent
  /\ offered' \in IF offered /\ ~Accepted THEN {TRUE}
                  ELSE IF sent' = Len(stream) THEN {FALSE}
                  ELSE IF ProducerGaps THEN BOOLEAN ELSE {TRUE}
  /\ UNCHANGED <<block, stream>>

Consume(m_axis_tready) ==
  taken' = IF core.m_axis_tvalid /\ m_axis_tready
           THEN Append(taken, core.m_axis_tdata) ELSE taken

Ready == IF ConsumerStalls THEN BOOLEAN ELSE {TRUE}

(* The registers after line 77, which every state but IDLE keeps.          *)
Latched ==
  [core EXCEPT !.last_byte_seen = @ \/ (Accepted /\ s_axis_tlast)]

(* An edge in state st, with the environment's part of it.                 *)
Edge(st, m_axis_tready) ==
  /\ core.state = st
  /\ Produce
  /\ Consume(m_axis_tready)
  /\ UNCHANGED <<started, resets>>

-----------------------------------------------------------------------------
(* ST_IDLE without start.                                                  *)
Idle ==
  /\ core.state = "IDLE"
  /\ \E r \in Ready : Consume(r)
  /\ core' = [core EXCEPT !.done = FALSE, !.error_flag = FALSE,
                          !.last_byte_seen = FALSE,
                          !.m_axis_tvalid = FALSE, !.m_axis_tlast = FALSE,
                          !.busy = FALSE, !.s_axis_tready = FALSE]
  /\ UNCHANGED <<history_ram, block, stream, sent, offered, started, resets>>

(* Faulty variant for the mutation runs: a start that does not rewind the  *)
(* write pointer.                                                          *)
StartWithoutRewind(b) ==
  /\ core.state = "IDLE" /\ sent = Len(stream) /\ started < MaxBlocks
  /\ core' = [core EXCEPT !.done = FALSE, !.busy = TRUE,
                          !.last_byte_seen = FALSE, !.decompressed_bytes = 0,
                          !.s_axis_tready = TRUE, !.state = "TOKEN"]
  /\ block' = b /\ stream' = Encode(b) /\ sent' = 0 /\ offered' = TRUE
  /\ taken' = <<>> /\ started' = started + 1
  /\ UNCHANGED <<history_ram, resets>>

(* ST_IDLE with start: the host has a new block ready for the producer.    *)
Start(b) ==
  /\ core.state = "IDLE"
  /\ sent = Len(stream)
  /\ started < MaxBlocks
  /\ core' = [core EXCEPT !.done = FALSE, !.error_flag = FALSE,
                          !.last_byte_seen = FALSE,
                          !.m_axis_tvalid = FALSE, !.m_axis_tlast = FALSE,
                          !.busy = TRUE, !.write_ptr = 0,
                          !.decompressed_bytes = 0, !.s_axis_tready = TRUE,
                          !.state = "TOKEN"]
  /\ block' = b
  /\ stream' = Encode(b)
  /\ sent' = 0
  /\ offered' \in IF ProducerGaps THEN BOOLEAN ELSE {TRUE}
  /\ taken' = <<>>
  /\ started' = started + 1
  /\ UNCHANGED <<history_ram, resets>>

Token ==
  /\ \E r \in Ready : Edge("TOKEN", r)
  /\ LET lits == s_axis_tdata \div 16
         idle == [Latched EXCEPT !.m_axis_tvalid = FALSE]
     IN  core' = IF ~Accepted THEN idle
                 ELSE [idle EXCEPT
                         !.saved_match_token = s_axis_tdata % 16,
                         !.lit_len = lits,
                         !.s_axis_tready = TRUE,
                         !.state = CASE lits = 15 -> "EXT_LIT"
                                     [] lits \in 1..14 -> "LITERAL"
                                     [] lits = 0 -> "OFFSET_L"]
  /\ UNCHANGED history_ram

ExtLit ==
  /\ \E r \in Ready : Edge("EXT_LIT", r)
  /\ core' = IF ~Accepted THEN Latched
             ELSE [Latched EXCEPT
                     !.lit_len = (@ + s_axis_tdata) % 65536,
                     !.s_axis_tready = s_axis_tdata # 255 \/ @,
                     !.state = IF s_axis_tdata # 255 THEN "LITERAL" ELSE @]
  /\ UNCHANGED history_ram

-----------------------------------------------------------------------------
(* What ST_LITERAL and ST_MATCH_COPY share: a byte goes to the output      *)
(* register and, if the consumer is ready, into the window.  A write       *)
(* beyond the end of the window is lost.                                   *)
Present(r, byte) ==
  [r EXCEPT !.m_axis_tdata = byte, !.m_axis_tvalid = TRUE,
            !.m_axis_tlast = (core.write_ptr = MAX_BLOCK_SIZE - 1)]

Advance(r) ==
  [r EXCEPT !.write_ptr = (@ + 1) % 8192,
            !.decompressed_bytes = (@ + 1) % 8192]

Remember(byte) ==
  IF core.write_ptr < MAX_BLOCK_SIZE
  THEN [history_ram EXCEPT ![core.write_ptr] = byte] ELSE history_ram

(* Faulty variants: tlast is ignored; the output stays valid after the     *)
(* last literal; the core goes on reading during a match whose length was  *)
(* extended; a match is read one byte early.                               *)
FinishIgnoringLast(r, last, next) ==
  LET full == core.write_ptr + 1 = MAX_BLOCK_SIZE IN
  [r EXCEPT !.s_axis_tready = ~full,
            !.state = IF full THEN "DONE" ELSE next]
OffsetLStillValid ==
  /\ Edge("OFFSET_L", TRUE)
  /\ core' = IF ~Accepted THEN Latched
             ELSE [Latched EXCEPT !.offset_low = s_axis_tdata,
                                  !.state = "OFFSET_H"]
  /\ UNCHANGED history_ram
ReadAddrEarly ==
  IF core.write_ptr > core.match_offset % 8192
  THEN (core.write_ptr - core.match_offset - 1) % 4096 ELSE 0

(* The last byte of a run of literals or of a match.                       *)
Finish(r, last, next) ==
  LET full == core.write_ptr + 1 = MAX_BLOCK_SIZE IN
  [r EXCEPT !.s_axis_tready = ~(full \/ last),
            !.state = IF full \/ last THEN "DONE" ELSE next]

(* ST_LITERAL looks at s_axis_tvalid alone.                                *)
Literal ==
  /\ \E m_axis_tready \in Ready :
       /\ Edge("LITERAL", m_axis_tready)
       /\ IF ~offered
          THEN core' = Latched /\ UNCHANGED history_ram
          ELSE LET shown == Present(Latched, s_axis_tdata) IN
               IF ~m_axis_tready
               THEN /\ core' = [shown EXCEPT !.s_axis_tready = FALSE]
                    /\ UNCHANGED history_ram
               ELSE /\ core' = IF core.lit_len = 1
                               THEN Finish(Advance(shown), s_axis_tlast, "OFFSET_L")
                               ELSE [Advance(shown) EXCEPT
                                       !.lit_len = (@ - 1) % 65536,
                                       !.s_axis_tready = TRUE]
                    /\ history_ram' = Remember(s_axis_tdata)

OffsetL ==
  /\ \E r \in Ready : Edge("OFFSET_L", r)
  /\ LET quiet == [Latched EXCEPT !.m_axis_tvalid = FALSE] IN
     core' = IF ~Accepted THEN quiet
             ELSE [quiet EXCEPT !.offset_low = s_axis_tdata,
                                !.s_axis_tready = TRUE,
                                !.state = "OFFSET_H"]
  /\ UNCHANGED history_ram

OffsetH ==
  /\ \E r \in Ready : Edge("OFFSET_H", r)
  /\ LET ext == core.saved_match_token = 15 IN
     core' = IF ~Accepted THEN Latched
             ELSE [Latched EXCEPT
                     !.match_offset = 256 * s_axis_tdata + core.offset_low,
                     !.match_len = core.saved_match_token + 4,
                     !.s_axis_tready = ext,
                     !.state = IF ext THEN "EXT_MATCH" ELSE "MATCH_COPY"]
  /\ UNCHANGED history_ram

ExtMatch ==
  /\ \E r \in Ready : Edge("EXT_MATCH", r)
  /\ core' = IF ~Accepted THEN Latched
             ELSE [Latched EXCEPT
                     !.match_len = (@ + s_axis_tdata) % 65536,
                     !.s_axis_tready = s_axis_tdata = 255 /\ @,
                     !.state = IF s_axis_tdata # 255 THEN "MATCH_COPY" ELSE @]
  /\ UNCHANGED history_ram

(* An address outside the window reads as X.                               *)
match_read_addr ==
  IF core.write_ptr >= core.match_offset % 8192
  THEN (core.write_ptr - core.match_offset) % 4096 ELSE 0
Window(a) == IF a < MAX_BLOCK_SIZE THEN history_ram[a] ELSE X

(* The byte at that address is shown; the core reads no input meanwhile.   *)
Copied ==
  Present([Latched EXCEPT !.s_axis_tready = FALSE], Window(match_read_addr))

OneLess(r) == [r EXCEPT !.match_len = (@ - 1) % 65536]

MatchCopy ==
  \E m_axis_tready \in Ready :
    /\ Edge("MATCH_COPY", m_axis_tready)
    /\ IF ~m_axis_tready
       THEN core' = Copied /\ UNCHANGED history_ram
       ELSE /\ core' = IF core.match_len = 1
                       THEN Finish(Advance(Copied), core.last_byte_seen, "TOKEN")
                       ELSE OneLess(Advance(Copied))
            /\ history_ram' = Remember(Window(match_read_addr))

Done ==
  /\ \E r \in Ready : Edge("DONE", r)
  /\ core' = [Latched EXCEPT !.m_axis_tvalid = FALSE, !.m_axis_tlast = FALSE,
                             !.s_axis_tready = FALSE, !.done = TRUE,
                             !.busy = FALSE, !.state = "IDLE"]
  /\ UNCHANGED history_ram

(* rst_n falls, at any time, and resets the host's side with the core.     *)
Reset ==
  /\ resets < MaxResets
  /\ Len(taken) <= ResetWithin
  /\ core' = InReset
  /\ block' = <<>> /\ stream' = <<>> /\ sent' = 0 /\ offered' = FALSE
  /\ taken' = <<>>
  /\ resets' = resets + 1
  /\ UNCHANGED <<history_ram, started>>

ClockEdge ==
  \/ Idle
  \/ \E b \in BlockSet : Start(b)
  \/ Token \/ ExtLit \/ Literal
  \/ OffsetL \/ OffsetH \/ ExtMatch \/ MatchCopy
  \/ Done

Next == ClockEdge \/ Reset

(* The clock runs.                                                         *)
Spec == Init /\ [][Next]_vars /\ WF_vars(ClockEdge)

-----------------------------------------------------------------------------
(* Properties.                                                             *)

(* The registers of lz4_decompressor_4k and their declared widths.         *)
Registers ==
  [state : States, busy : BOOLEAN, done : BOOLEAN, error_flag : BOOLEAN,
   decompressed_bytes : Below(8192), write_ptr : Below(8192),
   lit_len : Below(65536), match_len : Below(65536),
   match_offset : Below(65536), saved_match_token : Below(16),
   offset_low : Byte, last_byte_seen : BOOLEAN, s_axis_tready : BOOLEAN,
   m_axis_tvalid : BOOLEAN, m_axis_tdata : Byte \cup {X}, m_axis_tlast : BOOLEAN]

(* The registers of lz4_decompressor_4k keep their declared widths, and    *)
(* the window its size.                                                    *)
TypeOK ==
  /\ core \in Registers
  /\ history_ram \in [0..(MAX_BLOCK_SIZE - 1) -> Byte \cup {X}]
  /\ stream \in Seq(Byte) /\ sent \in 0..Len(stream) /\ offered \in BOOLEAN
  /\ taken \in Seq(Byte \cup {X})

(* The bytes handed to the consumer are, at every clock edge, the start of *)
(* what the LZ4 block stands for, whatever was decompressed or cut off by  *)
(* a reset before; when done is raised they are all there and no input     *)
(* byte is left over to be read as the next block's token.  The byte that  *)
(* carries m_axis_tlast is the last of a full block.                       *)
BlockDelivered ==
  WellFormed(block, MAX_BLOCK_SIZE) =>
    /\ IsPrefix(taken, Decode(block))
    /\ core.done => taken = Decode(block) /\ sent = Len(stream)
    /\ core.m_axis_tvalid /\ core.m_axis_tlast =>
         Len(taken) + 1 = MAX_BLOCK_SIZE

(* What the window holds below the write pointer is this block's output,   *)
(* so that no match can reach bytes of an earlier block: history_ram is    *)
(* neither cleared by reset nor by start.                                  *)
WindowHoldsOutput ==
  WellFormed(block, MAX_BLOCK_SIZE) /\ core.busy =>
    LET out == Decode(block) IN
    /\ core.write_ptr <= Len(out)
    /\ \A i \in 1..core.write_ptr : history_ram[i - 1] = out[i]

(* A block that was started is finished, unless a reset cuts it off: the   *)
(* machine never waits for a byte that the stream does not have.           *)
EveryBlockCompletes == core.busy ~> (core.done \/ core = InReset)
=============================================================================
