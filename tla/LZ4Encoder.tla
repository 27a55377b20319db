------------------------------ MODULE LZ4Encoder ------------------------------
(***************************************************************************)
(* The block compressor of src/src/lz4.c, as LZ4_compress_default,         *)
(* LZ4_compress_fast, LZ4_compress_fast_extState_fastReset and             *)
(* LZ4_compress_destSize_extState run it: LZ4_compress_generic_validated   *)
(* on a block below 64 KB, without a dictionary, with a 16-bit hash table. *)
(*                                                                         *)
(* The local variables of the function are the fields of enc, its labels   *)
(* the values of enc.pc; a step is one turn of the search loop or the code *)
(* between two labels.  Pointers are offsets from the start of their       *)
(* buffer, op is the length of dst.  The table and currentOffset outlive a *)
(* call, which is what a fast reset relies on.                             *)
(***************************************************************************)
EXTENDS LZ4Stream

CONSTANTS
  LZ4_hash4(_),  \* four bytes to a slot of the table: any function
  Slots,         \* the slots of the table
  IndexLimit,    \* 0xFFFF, the largest index the U16 table can hold
  ReuseLimit     \* 4 KB, the input from which a used table is cleared

ASSUME EncoderAssumption ==
  /\ IndexLimit \in 1 .. 65535
  /\ ReuseLimit \in Nat

MINMATCH     == 4
LASTLITERALS == 5
MFLIMIT      == 12
LZ4_minLength   == MFLIMIT + 1
LZ4_skipTrigger == 64       \* >> 6

LZ4_compressBound(n) == n + n \div 255 + 16

VARIABLES
  ctx,   \* LZ4_stream_t: the hash table and what it says of earlier blocks
  call,  \* the arguments of the call in progress
  enc    \* its local variables

encoderVars == <<ctx, call, enc>>

ClearedState ==
  [hashTable |-> [h \in Slots |-> 0], currentOffset |-> 0, clearedTable |-> TRUE]

NoLocals ==
  [pc |-> "returned", ip |-> 0, anchor |-> 0, match |-> 0, token |-> 0,
   dst |-> <<>>, forwardH |-> 0, forwardIp |-> 0, step |-> 1,
   searchMatchNb |-> 0, filledIp |-> 0, result |-> 0, consumed |-> 0,
   wrote |-> 0, fetched |-> 0]  \* wrote, fetched: ends of dst, src as accessed

NoCall ==
  [src |-> <<>>, dstCapacity |-> 0, outputDirective |-> "notLimited",
   dictSmall |-> FALSE, startIndex |-> 0, acceleration |-> 1, destSize |-> FALSE]

EncoderInit == ctx = ClearedState /\ call = NoCall /\ enc = NoLocals

-----------------------------------------------------------------------------
At(i) == call.src[i + 1]
Four(i) == <<At(i), At(i + 1), At(i + 2), At(i + 3)>>
LZ4_hashPosition(i) == LZ4_hash4(Four(i))

iend           == Len(call.src)
mflimitPlusOne == iend - MFLIMIT + 1
LateMatchlimit == iend - MINMATCH   \* faulty variant, for the mutation runs
matchlimit     == iend - LASTLITERALS
op             == Len(enc.dst)
olimit         == call.dstCapacity
Limited        == call.outputDirective = "limitedOutput"
FillOutput     == call.outputDirective = "fillOutput"

(* The table holds U16 indexes; base is source - startIndex.               *)
PutIndexOnHash(c, i, h) ==
  [c EXCEPT !.hashTable[h] = (i + call.startIndex) % (IndexLimit + 1)]
Candidate(c, h) == c.hashTable[h] - call.startIndex

(* dictSmall: entries left by earlier blocks are passed over.              *)
Usable(m) == call.dictSmall => m >= 0
Matches(m, i) == Usable(m) /\ Four(m) = Four(i)

Emit(e, bytes) ==
  [e EXCEPT !.dst = @ \o bytes, !.wrote = Max({@, Len(e.dst) + Len(bytes)})]
WriteMax(e, end) == [e EXCEPT !.wrote = Max({@, end})]

(* Faulty variant, for the mutation runs: no byte for a length of 15.      *)
LengthBytesAbove15(n) ==
  IF n <= 15 THEN <<>>
  ELSE [k \in 1 .. (n - 15) \div 255 + 1 |->
          IF k <= (n - 15) \div 255 THEN 255 ELSE (n - 15) % 255]

(* Nibble 15, then bytes of 255 and the rest.                              *)
LengthBytes(n) ==
  IF n < 15 THEN <<>>
  ELSE [k \in 1 .. (n - 15) \div 255 + 1 |->
          IF k <= (n - 15) \div 255 THEN 255 ELSE (n - 15) % 255]

(* LZ4_compress_destSize_extState clears the state when it is done.        *)
Return(r, used, e) ==
  /\ enc' = [e EXCEPT !.pc = "returned", !.result = r, !.consumed = used]
  /\ ctx' = IF call.destSize THEN ClearedState ELSE ctx

-----------------------------------------------------------------------------
(* LZ4_compress_generic with state c: the checks, the state's update and   *)
(* the first byte.                                                         *)
LZ4_compress_generic(c, a) ==
  LET n == Len(a.src) IN
  /\ call' = a
  /\ IF n = 0
     THEN /\ ctx' = c
          /\ enc' = IF a.outputDirective # "notLimited" /\ a.dstCapacity <= 0
                    THEN NoLocals
                    ELSE [Emit(NoLocals, <<0>>) EXCEPT !.result = 1]
     ELSE IF a.outputDirective = "fillOutput" /\ a.dstCapacity < 1
     THEN ctx' = c /\ enc' = [NoLocals EXCEPT !.consumed = n]
     ELSE LET used == [c EXCEPT !.currentOffset = @ + n, !.clearedTable = FALSE]
          IN  IF n < LZ4_minLength
              THEN ctx' = used /\ enc' = [NoLocals EXCEPT !.pc = "last_literals"]
              ELSE /\ ctx' = [used EXCEPT !.hashTable[LZ4_hash4(SubSeq(a.src, 1, 4))]
                                            = a.startIndex % (IndexLimit + 1)]
                   /\ enc' = [NoLocals EXCEPT
                        !.pc = "search", !.ip = 1, !.forwardIp = 1,
                        !.forwardH = LZ4_hash4(SubSeq(a.src, 2, 5)),
                        !.searchMatchNb = a.acceleration * LZ4_skipTrigger]

Clamp(acceleration) == Min({Max({acceleration, 1}), 65537})

Arguments(src, cap, limited, c, acceleration) ==
  [src |-> src, dstCapacity |-> cap,
   outputDirective |-> IF cap >= LZ4_compressBound(Len(src))
                       THEN "notLimited" ELSE limited,
   dictSmall |-> c.currentOffset # 0, startIndex |-> c.currentOffset,
   acceleration |-> Clamp(acceleration), destSize |-> FALSE]

(* LZ4_compress_fast gives it a state of its own; LZ4_compress_default is  *)
(* LZ4_compress_fast with acceleration 1.                                  *)
LZ4_compress_fast_extState(src, cap, acceleration) ==
  /\ enc.pc = "returned"
  /\ LZ4_compress_generic(ClearedState,
       Arguments(src, cap, "limitedOutput", ClearedState, acceleration))

LZ4_prepareTable(c, n) ==
  IF ~c.clearedTable /\ (c.currentOffset + n >= IndexLimit \/ n >= ReuseLimit)
  THEN ClearedState ELSE c

LZ4_compress_fast_extState_fastReset(src, cap, acceleration) ==
  /\ enc.pc = "returned"
  /\ LET c == LZ4_prepareTable(ctx, Len(src)) IN
     LZ4_compress_generic(c, Arguments(src, cap, "limitedOutput", c, acceleration))

(* The acceleration is clamped only where the call above is made.          *)
LZ4_compress_destSize_extState(src, cap, acceleration) ==
  LET a == Arguments(src, cap, "fillOutput", ClearedState, acceleration) IN
  /\ enc.pc = "returned"
  /\ LZ4_compress_generic(ClearedState,
       [a EXCEPT !.destSize = TRUE,
                 !.acceleration = IF a.outputDirective = "fillOutput"
                                  THEN acceleration ELSE @])

-----------------------------------------------------------------------------
(* One turn of the search loop.  The probes lie further apart the longer   *)
(* nothing is found.                                                       *)
NextProbe(e) ==
  [e EXCEPT !.ip = e.forwardIp,
            !.forwardIp = @ + e.step,
            !.step = e.searchMatchNb \div LZ4_skipTrigger,
            !.searchMatchNb = @ + 1]

SearchEnds ==
  /\ enc.pc = "search"
  /\ enc.forwardIp + enc.step > mflimitPlusOne
  /\ enc' = [NextProbe(enc) EXCEPT !.pc = "last_literals"]
  /\ UNCHANGED <<ctx, call>>

Probe ==
  /\ enc.pc = "search"
  /\ enc.forwardIp + enc.step <= mflimitPlusOne
  /\ LET e == NextProbe(enc)
         m == Candidate(ctx, enc.forwardH)
     IN  enc' = [e EXCEPT !.forwardH = LZ4_hashPosition(e.forwardIp),
                          !.match = m,
                          !.filledIp = e.ip,
                          !.pc = IF Matches(m, e.ip) THEN "literals" ELSE "search"]
  /\ ctx' = PutIndexOnHash(ctx, enc.forwardIp, enc.forwardH)
  /\ UNCHANGED call

(* Catch up: how far the match extends backwards.                          *)
CatchUp(i, m) ==
  LET bound == Min({i - enc.anchor, m})
  IN  Min({bound} \cup {k \in 0 .. bound - 1 : At(i - k - 1) # At(m - k - 1)})

(* LZ4_wildCopy8 of n bytes: it moves at least 8, and 8 at a time.         *)
WildCopy8(e, from, n) ==
  LET moved == 8 * Max({1, (n + 7) \div 8})
  IN  [WriteMax(Emit(e, SubSeq(call.src, from + 1, from + n)), Len(e.dst) + moved)
       EXCEPT !.fetched = Max({@, from + moved})]

(* Faulty variant, for the mutation runs: only the literals are allowed    *)
(* for, not the offset and the last literals behind them.                  *)
LiteralsOverflowBare(litLength) == op + 1 + litLength + litLength \div 255 > olimit

LiteralsOverflow(litLength) ==
  op + 1 + litLength + (2 + 1 + LASTLITERALS) + litLength \div 255 > olimit
LiteralsTooLong(litLength) ==
  op + 1 + (litLength + 240) \div 255 + litLength + 2 + 1 + MFLIMIT - MINMATCH
    > olimit

EncodeLiterals ==
  /\ enc.pc = "literals"
  /\ LET back == CatchUp(enc.ip, enc.match)
         e    == [enc EXCEPT !.ip = @ - back, !.match = @ - back, !.token = op]
         lits == e.ip - e.anchor
         head == Emit(e, <<16 * Nibble(lits)>> \o LengthBytes(lits))
     IN  IF Limited /\ LiteralsOverflow(lits) THEN Return(0, 0, e)
         ELSE /\ enc' = IF FillOutput /\ LiteralsTooLong(lits)
                        THEN [e EXCEPT !.pc = "last_literals"]
                        ELSE [WildCopy8(head, e.anchor, lits) EXCEPT
                                !.pc = "_next_match"]
              /\ UNCHANGED ctx
  /\ UNCHANGED call

-----------------------------------------------------------------------------
(* Word by word, then a half word, two bytes and a byte: how many bytes    *)
(* are the same up to the limit.                                           *)
LZ4_count(i, m, limit) ==
  Min({limit - i} \cup {k \in 0 .. limit - i - 1 : At(i + k) # At(m + k)})

(* Faulty variant, for the mutation runs.                                  *)
PositionsKept(c, from, to) == c

(* The positions up to the search's last probe leave the table when the    *)
(* match no longer reaches them.                                           *)
ForgetPositions(c, from, to) ==
  [c EXCEPT !.hashTable = [h \in Slots |->
     IF \E i \in from .. to : LZ4_hashPosition(i) = h THEN 0 ELSE @[h]]]

MatchOverflow(at, matchCode) ==
  at + 1 + LASTLITERALS + (matchCode + 240) \div 255 > olimit
ReducedCode(at) == 15 - 1 + (olimit - at - 1 - LASTLITERALS) * 255

(* The token's low nibble, then the length, stored in words of four 255s.  *)
EncodeLength(e, matchCode) ==
  LET at == Len(e.dst)
      t  == e.token + 1
  IN  [WriteMax(Emit(e, LengthBytes(matchCode)),
                IF matchCode < 15 THEN at
                ELSE at + 4 + 4 * ((matchCode - 15) \div 1020))
       EXCEPT !.dst[t] = @ + Nibble(matchCode), !.anchor = e.ip]

EncodeMatch ==
  /\ enc.pc = "_next_match"
  /\ LET offset == enc.ip - enc.match
         e      == Emit(enc, <<offset % 256, offset \div 256>>)
         code   == LZ4_count(e.ip + MINMATCH, e.match + MINMATCH, matchlimit)
         long   == call.outputDirective # "notLimited" /\ MatchOverflow(op + 2, code)
         kept   == IF long THEN ReducedCode(op + 2) ELSE code
         after  == e.ip + MINMATCH + kept
     IN  IF FillOutput /\ op + 2 + 1 + MFLIMIT - MINMATCH > olimit
         THEN /\ enc' = [enc EXCEPT !.dst = SubSeq(@, 1, enc.token),
                                    !.pc = "last_literals"]
              /\ UNCHANGED ctx
         ELSE IF long /\ Limited THEN Return(0, 0, e)
         ELSE /\ ctx' = IF long /\ after <= e.filledIp
                        THEN ForgetPositions(ctx, after, e.filledIp) ELSE ctx
              /\ enc' = EncodeLength([e EXCEPT !.ip = after, !.pc = "next"], kept)
  /\ UNCHANGED call

(* The end of the chunk, else the table takes ip - 2 and ip, and a match   *)
(* right here needs no literals.                                           *)
NextPosition ==
  /\ enc.pc = "next"
  /\ IF enc.ip >= mflimitPlusOne
     THEN enc' = [enc EXCEPT !.pc = "last_literals"] /\ UNCHANGED ctx
     ELSE LET ip     == enc.ip
              h      == LZ4_hashPosition(ip)
              filled == PutIndexOnHash(ctx, ip - 2, LZ4_hashPosition(ip - 2))
              m      == Candidate(filled, h)
          IN  /\ ctx' = PutIndexOnHash(filled, ip, h)
              /\ enc' = IF Matches(m, ip)
                        THEN [Emit(enc, <<0>>) EXCEPT !.token = op, !.match = m,
                                                      !.pc = "_next_match"]
                        ELSE [enc EXCEPT
                                !.ip = ip + 1, !.forwardIp = ip + 1, !.step = 1,
                                !.searchMatchNb = call.acceleration * LZ4_skipTrigger,
                                !.forwardH = LZ4_hashPosition(ip + 1),
                                !.pc = "search"]
  /\ UNCHANGED call

LastRunOverflow(lastRun) == op + lastRun + 1 + (lastRun + 240) \div 255 > olimit
(* Faulty variant, for the mutation runs: one byte of room is lost.        *)
ShortRun ==
  LET room == Max({olimit - op - 2, 0}) IN room - (room + 241) \div 256
ReducedRun == LET room == olimit - op - 1 IN room - (room + 241) \div 256

LastLiterals ==
  /\ enc.pc = "last_literals"
  /\ LET rest    == iend - enc.anchor
         long    == call.outputDirective # "notLimited" /\ LastRunOverflow(rest)
         lastRun == IF long /\ FillOutput THEN ReducedRun ELSE rest
         e       == Emit(enc, <<16 * Nibble(lastRun)>> \o LengthBytes(lastRun)
                     \o SubSeq(call.src, enc.anchor + 1, enc.anchor + lastRun))
     IN  IF long /\ Limited THEN Return(0, 0, enc)
         ELSE Return(Len(e.dst), enc.anchor + lastRun, e)
  /\ UNCHANGED call

EncoderStep ==
  SearchEnds \/ Probe \/ EncodeLiterals \/ EncodeMatch \/ NextPosition \/ LastLiterals
=============================================================================
