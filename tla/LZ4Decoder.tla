------------------------------ MODULE LZ4Decoder ------------------------------
(***************************************************************************)
(* The block decoder of src/src/lz4.c, as LZ4_decompress_safe and          *)
(* LZ4_decompress_safe_partial run it: LZ4_decompress_generic on x86-64,   *)
(* without a dictionary.  The fast loop and the safe loop are the two      *)
(* values of dec.pc; a step is one turn of a loop, that is one sequence.   *)
(* A label that goto enters from several places is an operator of its own. *)
(*                                                                         *)
(* The copy routines move 8, 16 or 32 bytes whatever the length asked for. *)
(* The output is a memory that is longer than the caller's buffer, and     *)
(* wrote, fetched and lowest remember the ends of what was accessed.       *)
(***************************************************************************)
EXTENDS LZ4Stream

CONSTANT Unset   \* a byte never written, or read outside the input

ASSUME DecoderAssumption == Unset \notin Byte

FASTLOOP_SAFE_DISTANCE   == 64
MATCH_SAFEGUARD_DISTANCE == 12
WILDCOPYLENGTH           == 8
Margin                   == 64   \* bound: memory shown behind the buffer

VARIABLES
  job,  \* the arguments: input, size of the output buffer, partialDecoding
  dec   \* the local variables and the memory

decoderVars == <<job, dec>>

NoJob == [src |-> <<>>, outputSize |-> 0, partialDecoding |-> FALSE]
Fresh(size) ==
  [pc |-> "returned", ip |-> 0, op |-> 0, result |-> 0,
   mem |-> [a \in 0 .. size + Margin - 1 |-> Unset],
   wrote |-> 0, fetched |-> 0, lowest |-> 0]

DecoderInit == job = NoJob /\ dec = Fresh(0)

inputEnd == Len(job.src)
oend   == job.outputSize
In(i)  == IF i < inputEnd THEN job.src[i + 1] ELSE Unset

-----------------------------------------------------------------------------
(* memcpy of n bytes to output address at, from the input or the output.   *)
FromInput(d, at, from, n) ==
  [d EXCEPT !.mem = [a \in DOMAIN @ |-> IF a \in at .. at + n - 1
                                        THEN In(from + a - at) ELSE @[a]],
            !.wrote = Max({@, at + n}), !.fetched = Max({@, from + n})]

Store(d, at, n, Val(_)) ==
  [d EXCEPT !.mem = [a \in DOMAIN @ |-> IF a \in at .. at + n - 1
                                        THEN Val(a - at) ELSE @[a]],
            !.wrote = Max({@, at + n})]

(* k copies of size bytes, one after the other, each from where the last   *)
(* one ended: at a distance of at least size they repeat the bytes between *)
(* from and at.  A memcpy whose ends overlap is undefined; one to itself   *)
(* changes nothing.                                                        *)
CopySteps(d, at, from, size, k) ==
  LET distance == at - from
      Val(j) == IF distance = 0 THEN d.mem[at + j]
                ELSE IF distance < size \/ from + (j % distance) < 0 THEN Unset
                ELSE d.mem[from + (j % distance)]
  IN  [Store(d, at, size * k, Val) EXCEPT !.lowest = Min({@, from})]
Copy(d, at, from, n) == CopySteps(d, at, from, n, 1)

Turns(n, size) == Max({1, (n + size - 1) \div size})

LZ4_wildCopy8(d, at, from, end)  == CopySteps(d, at, from, 8, Turns(end - at, 8))
LZ4_wildCopy32(d, at, from, end) == CopySteps(d, at, from, 16, 2 * Turns(end - at, 32))
WildLiterals(d, n, size) == FromInput(d, d.op, d.ip, size * Turns(n, size))

inc32table == <<0, 1, 2, 1, 0, 4, 4, 4>>
dec64table == <<0, 0, 0, -1, -4, 1, 2, 3>>

(* The first eight bytes of a match at distance below 8: four one by one   *)
(* or two by two, then four more from where the pattern comes round.       *)
FirstEight(d, at, from, offset, size) ==
  Copy(CopySteps(Store(d, at, 4, LAMBDA k : 0), at, from, size, 4 \div size),
       at + 4, from + inc32table[offset + 1], 4)
ResumeBack(from, offset) ==   \* faulty variant, for the mutation runs
  from + inc32table[offset + 1] + dec64table[offset + 1]
Resume(from, offset) == from + inc32table[offset + 1] - dec64table[offset + 1]

LZ4_memcpy_using_offset(d, at, from, end, offset) ==
  IF offset \in {1, 2, 4}
  THEN [Store(d, at, 8 * Turns(end - at, 8), LAMBDA k : d.mem[from + (k % offset)])
        EXCEPT !.lowest = Min({@, from})]
  ELSE IF offset < 8
  THEN LZ4_wildCopy8(FirstEight(d, at, from, offset, 2),
                     at + 8, Resume(from, offset), end)
  ELSE LZ4_wildCopy8(Copy(d, at, from, 8), at + 8, from + 8, end)

-----------------------------------------------------------------------------
(* Bytes of 255 and one that is not, none of them at ilimit or beyond.     *)
read_variable_length(ip, ilimit) ==
  LET end == Min({Max({ip, ilimit})} \cup {i \in ip .. ilimit - 1 : In(i) # 255})
  IN  IF end >= ilimit THEN [error |-> TRUE, length |-> 0, ip |-> end]
      ELSE [error |-> FALSE, length |-> 255 * (end - ip) + In(end), ip |-> end + 1]

(* A length whose nibble is 15 goes on in the input.                       *)
Length(d, nibble, ilimit) ==
  IF nibble = 15
  THEN LET r == read_variable_length(d.ip, ilimit)
       IN  [r EXCEPT !.length = @ + 15]
  ELSE [error |-> FALSE, length |-> nibble, ip |-> d.ip]
Past(d, r) == [d EXCEPT !.ip = r.ip, !.fetched = Max({@, r.ip})]

output_error(d) == [d EXCEPT !.pc = "returned", !.result = -d.ip - 1]
EndOfDecoding(d) == [d EXCEPT !.pc = "returned", !.result = d.op]

Token(d) == [d EXCEPT !.ip = @ + 1, !.fetched = Max({@, d.ip + 1})]
Moved(d, n) == [d EXCEPT !.ip = @ + n, !.op = @ + n]
OffsetAt(d) == In(d.ip) + 256 * In(d.ip + 1)
PastOffset(d) == [d EXCEPT !.ip = @ + 2, !.fetched = Max({@, d.ip + 2})]

(* A match of at most 18 bytes at a distance of 8 or more.                 *)
ShortMatch(d, match, length) ==
  [Copy(CopySteps(d, d.op, match, 8, 2), d.op + 16, match + 16, 2)
   EXCEPT !.op = @ + length]

-----------------------------------------------------------------------------
(* safe_match_copy:                                                        *)
PartialMatch(d, match, length) ==
  LET mlen == Min({length, oend - d.op})
      e    == [CopySteps(d, d.op, match, 1, mlen) EXCEPT !.op = @ + mlen]
  IN  IF e.op = oend THEN EndOfDecoding(e) ELSE e

MatchAtEnd(d, match, cpy) ==
  LET oCopyLimit == oend - (WILDCOPYLENGTH - 1)
      wild == d.op < oCopyLimit
      e    == IF wild THEN LZ4_wildCopy8(d, d.op, match, oCopyLimit) ELSE d
      from == IF wild THEN match + oCopyLimit - d.op ELSE match
      at   == IF wild THEN oCopyLimit ELSE d.op
  IN  [CopySteps(e, at, from, 1, Max({0, cpy - at})) EXCEPT !.op = cpy]

MatchInside(d, match, length, cpy) ==
  LET e == Copy(d, d.op, match, 8)
  IN  [IF length > 16 THEN LZ4_wildCopy8(e, d.op + 8, match + 8, cpy) ELSE e
       EXCEPT !.op = cpy]

safe_match_copy(d0, offset, length) ==
  LET d     == [d0 EXCEPT !.pc = "safe"]
      match == d.op - offset
      cpy   == d.op + length
      e     == [IF offset < 8 THEN FirstEight(d, d.op, match, offset, 1)
                ELSE Copy(d, d.op, match, 8) EXCEPT !.op = @ + 8]
      from  == IF offset < 8 THEN Resume(match, offset) ELSE match + 8
      near  == cpy > oend - MATCH_SAFEGUARD_DISTANCE
  IN  CASE match < 0                     -> output_error(d)
        [] match >= 0 /\ near /\ job.partialDecoding -> PartialMatch(d, match, length)
        [] match >= 0 /\ near /\ ~job.partialDecoding ->
             IF cpy > oend - 5 THEN output_error(e) ELSE MatchAtEnd(e, from, cpy)
        [] match >= 0 /\ ~near           -> MatchInside(e, from, length, cpy)

(* Faulty variant, for the mutation runs: the margin is the one that holds *)
(* for the length of literals.                                             *)
CopyMatchFar(d, nibble, offset) ==
  LET r == Length(d, nibble, inputEnd - 15)
  IN  IF r.error THEN output_error(Past(d, r))
      ELSE safe_match_copy(Past(d, r), offset, r.length + 4)

(* _copy_match:                                                            *)
copy_match(d, nibble, offset) ==
  LET r == Length(d, nibble, inputEnd - 6)
  IN  IF r.error THEN output_error(Past(d, r))
      ELSE safe_match_copy(Past(d, r), offset, r.length + 4)

MatchAfter(d, token) == copy_match(PastOffset(d), token % 16, OffsetAt(d))

(* safe_literal_copy:                                                      *)
(* Faulty variant, for the mutation runs: missing input is not noticed.    *)
LastRunUnbounded(d, token, length) ==
  LET n == IF ~job.partialDecoding THEN length ELSE Min({length, oend - d.op})
      e == Moved(FromInput(d, d.op, d.ip, n), n)
  IN  IF ~job.partialDecoding /\ (d.ip + length # inputEnd \/ d.op + length > oend)
        THEN output_error(d)
      ELSE IF ~job.partialDecoding \/ e.op = oend \/ e.ip >= inputEnd - 2
        THEN EndOfDecoding(e)
      ELSE MatchAfter(e, token)

LastLiteralRun(d, token, length) ==
  LET have == IF d.ip + length > inputEnd THEN inputEnd - d.ip ELSE length
      n    == IF ~job.partialDecoding THEN length ELSE Min({have, oend - d.op})
      e    == Moved(FromInput(d, d.op, d.ip, n), n)
  IN  IF ~job.partialDecoding /\ (d.ip + length # inputEnd \/ d.op + length > oend)
        THEN output_error(d)
      ELSE IF ~job.partialDecoding \/ e.op = oend \/ e.ip >= inputEnd - 2
        THEN EndOfDecoding(e)
      ELSE MatchAfter(e, token)

(* Faulty variant, for the mutation runs: the copy has no margin.          *)
LiteralCopyTight(d, token, length) ==
  IF d.op + length > oend \/ d.ip + length > inputEnd - (2 + 1 + 5)
  THEN LastLiteralRun(d, token, length)
  ELSE MatchAfter(Moved(WildLiterals(d, length, 8), length), token)

safe_literal_copy(d, token, length) ==
  IF d.op + length > oend - 12 \/ d.ip + length > inputEnd - (2 + 1 + 5)
  THEN LastLiteralRun(d, token, length)
  ELSE MatchAfter(Moved(WildLiterals(d, length, 8), length), token)

(* safe_literal_copy_early:                                                *)
safe_literal_copy_early(d, token) ==
  LET r == Length(d, token \div 16, inputEnd - 15)
  IN  IF r.error THEN output_error(Past(d, r))
      ELSE safe_literal_copy(Past(d, r), token, r.length)

-----------------------------------------------------------------------------
(* A turn of the safe loop, with its two-stage shortcut.                   *)
SafeTurn(d) ==
  LET token == In(d.ip)
      t     == Token(d)
      short == /\ token \div 16 # 15
               /\ t.ip < inputEnd - 14 - 2 /\ t.op <= oend - 14 - 18
      lits  == Moved(FromInput(t, t.op, t.ip, 16), token \div 16)
      offset == OffsetAt(lits)
      match == lits.op - offset
  IN  IF ~short THEN safe_literal_copy_early(t, token)
      ELSE IF token % 16 # 15 /\ offset >= 8 /\ match >= 0
      THEN ShortMatch(PastOffset(lits), match, (token % 16) + 4)
      ELSE copy_match(PastOffset(lits), token % 16, offset)

(* The match of a turn of the fast loop, far from the end of the output.   *)
FastMatch(d, token, offset) ==
  LET r      == Length(d, token % 16, inputEnd - 6)
      e      == Past(d, r)
      length == r.length + 4
      match  == e.op - offset
      cpy    == e.op + length
  IN  CASE r.error -> output_error(e)
        [] ~r.error /\ cpy >= oend - FASTLOOP_SAFE_DISTANCE ->
             safe_match_copy(e, offset, length)
        [] ~r.error /\ cpy < oend - FASTLOOP_SAFE_DISTANCE ->
             IF token % 16 # 15 /\ match >= 0 /\ offset >= 8
               THEN ShortMatch(e, match, length)
             ELSE IF match < 0 THEN output_error(e)
             ELSE [IF offset < 16
                   THEN LZ4_memcpy_using_offset(e, e.op, match, cpy, offset)
                   ELSE LZ4_wildCopy32(e, e.op, match, cpy) EXCEPT !.op = cpy]

FastTurn(d) ==
  LET token == In(d.ip)
      t     == Token(d)
      r     == Length(t, token \div 16, inputEnd - 15)
      e     == Past(t, r)
      long  == token \div 16 = 15
      near  == \/ e.op + r.length > oend - 32
               \/ e.ip + r.length > inputEnd - 32
      lits  == Moved(IF long THEN WildLiterals(e, r.length, 32)
                             ELSE FromInput(e, e.op, e.ip, 16), r.length)
  IN  IF t.ip > inputEnd - (16 + 1) THEN safe_literal_copy_early(t, token)
      ELSE IF long /\ r.error THEN output_error(e)
      ELSE IF long /\ near THEN safe_literal_copy(e, token, r.length)
      ELSE FastMatch(PastOffset(lits), token, OffsetAt(lits))

-----------------------------------------------------------------------------
(* LZ4_decompress_generic up to its loops.                                 *)
Entry(src, size, partial) ==
  LET d == Fresh(size)
  IN  IF size = 0
        THEN [d EXCEPT !.result = IF partial \/ src = <<0>> THEN 0 ELSE -1]
      ELSE IF src = <<>> THEN [d EXCEPT !.result = -1]
      ELSE [d EXCEPT !.pc = IF size < FASTLOOP_SAFE_DISTANCE THEN "safe" ELSE "fast"]

LZ4_decompress_safe(src, size) ==
  /\ dec.pc = "returned"
  /\ job' = [src |-> src, outputSize |-> size, partialDecoding |-> FALSE]
  /\ dec' = Entry(src, size, FALSE)

LZ4_decompress_safe_partial(src, targetOutputSize, dstCapacity) ==
  LET size == Min({targetOutputSize, dstCapacity}) IN
  /\ dec.pc = "returned"
  /\ job' = [src |-> src, outputSize |-> size, partialDecoding |-> TRUE]
  /\ dec' = Entry(src, size, TRUE)

FastSequence == dec.pc = "fast" /\ dec' = FastTurn(dec) /\ UNCHANGED job
SafeSequence == dec.pc = "safe" /\ dec' = SafeTurn(dec) /\ UNCHANGED job

DecoderStep == FastSequence \/ SafeSequence
=============================================================================
