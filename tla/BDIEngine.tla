------------------------------ MODULE BDIEngine ------------------------------
(***************************************************************************)
(* Base-delta-immediate compression of a 64-byte line, as in               *)
(* legacy/src/bdi_engine.cpp.  A line and a word are sequences of bytes,   *)
(* the lowest first; arithmetic on words is modulo 2^64, 2^32 or 2^16.     *)
(***************************************************************************)
EXTENDS Integers, Sequences, SequencesExt

CACHE_LINE_SIZE == 64
Byte == 0 .. 255
Line == [1 .. CACHE_LINE_SIZE -> Byte]
ZeroLine == [i \in 1 .. CACHE_LINE_SIZE |-> 0]

(* The base-delta patterns in the order in which Compress tries them.      *)
Shapes ==
  << [pattern |-> "BASE8_DELTA1", tag |-> 2, base |-> 8, delta |-> 1],
     [pattern |-> "BASE4_DELTA1", tag |-> 5, base |-> 4, delta |-> 1],
     [pattern |-> "BASE8_DELTA2", tag |-> 3, base |-> 8, delta |-> 2],
     [pattern |-> "BASE2_DELTA1", tag |-> 7, base |-> 2, delta |-> 1],
     [pattern |-> "BASE4_DELTA2", tag |-> 6, base |-> 4, delta |-> 2],
     [pattern |-> "BASE8_DELTA4", tag |-> 4, base |-> 8, delta |-> 4] >>
BDIPattern ==
  {"ZEROS", "REP_WORD", "UNCOMPRESSED"} \cup {Shapes[i].pattern : i \in DOMAIN Shapes}

Count(s)     == CACHE_LINE_SIZE \div s.base
ShapeSize(s) == 1 + s.base + (Count(s) - 1) * s.delta

-----------------------------------------------------------------------------
(* f itself; TLC evaluates the elements of a subsequence only once.        *)
Eager(f) == SubSeq(f, 1, Len(f))

Words(line, w) ==
  Eager([i \in 1 .. CACHE_LINE_SIZE \div w |-> SubSeq(line, w * (i - 1) + 1, w * i)])

(* The bytes of words of w bytes, one after the other.                     *)
Join(words, w) ==
  Eager([k \in 1 .. Len(words) * w |-> words[(k - 1) \div w + 1][1 + ((k - 1) % w)]])

(* The borrow and the carry out of the low k bytes of a - b and a + b.     *)
Borrow(a, b, k) ==
  IF \E j \in 1 .. k : a[j] < b[j] /\ \A i \in j + 1 .. k : a[i] = b[i] THEN 1 ELSE 0
Carry(a, b, k) ==
  IF \E j \in 1 .. k : a[j] + b[j] > 255 /\ \A i \in j + 1 .. k : a[i] + b[i] = 255
  THEN 1 ELSE 0

Minus(a, b) == Eager([k \in 1 .. Len(a) |-> (a[k] - b[k] - Borrow(a, b, k - 1)) % 256])
Plus(a, b)  == Eager([k \in 1 .. Len(a) |-> (a[k] + b[k] + Carry(a, b, k - 1)) % 256])

Negative(a) == a[Len(a)] >= 128
ZeroExtend(d, w) ==   \* only the faulty variant below uses it
  [k \in 1 .. w |-> IF k <= Len(d) THEN d[k] ELSE 0]
SignExtend(d, w) ==
  Eager([k \in 1 .. w |-> IF k <= Len(d) THEN d[k] ELSE IF Negative(d) THEN 255 ELSE 0])

(* 16-bit words are subtracted as int and narrowed; wider ones can         *)
(* overflow, which C++ leaves undefined: wraps says whether this build     *)
(* takes the difference modulo 2^w, or compares the exact one.             *)
Overflows(a, b) ==
  Len(a) > 2 /\ Negative(a) # Negative(b) /\ Negative(Minus(a, b)) # Negative(a)
DeltaFitsUnsigned(word, base, n, wraps) ==   \* faulty variant, for the mutation runs
  LET diff == Minus(word, base)
      low  == SubSeq(diff, 1, n)
  IN  diff \in {SignExtend(low, Len(diff)), ZeroExtend(low, Len(diff))}
DeltaFits(word, base, n, wraps) ==
  LET diff == Minus(word, base)
  IN  diff = SignExtend(SubSeq(diff, 1, n), Len(diff)) /\ (wraps \/ ~Overflows(word, base))

ShapeFits(line, s, wraps) ==
  LET v == Words(line, s.base)
  IN  \A i \in 2 .. Len(v) : DeltaFits(v[i], v[1], s.delta, wraps)

ShapeData(line, s) ==
  LET v == Words(line, s.base)
  IN  <<s.tag>> \o v[1]
        \o Join(Eager([i \in 1 .. Len(v) - 1 |-> SubSeq(Minus(v[i + 1], v[1]), 1, s.delta)]),
                s.delta)

CompressedLine(pattern, data) ==
  [pattern |-> pattern, compressed_size |-> Len(data), data |-> data]

Compress(line, wraps) ==
  LET fitting == {i \in DOMAIN Shapes : ShapeFits(line, Shapes[i], wraps)}
      first   == Shapes[Min(fitting)]
      words64 == Words(line, 8)
  IN  IF line = ZeroLine THEN CompressedLine("ZEROS", <<0>>)
      ELSE IF \A i \in 2 .. 8 : words64[i] = words64[1]
        THEN CompressedLine("REP_WORD", <<1>> \o words64[1])
      ELSE IF fitting = {} THEN CompressedLine("UNCOMPRESSED", line)
      ELSE CompressedLine(first.pattern, ShapeData(line, first))

-----------------------------------------------------------------------------
Refused == <<>>   \* DecompressRaw returned false

ShapeLine(buffer, s) ==
  LET base == SubSeq(buffer, 2, 1 + s.base)
      Delta(i) == SubSeq(buffer, 2 + s.base + (i - 2) * s.delta,
                                 1 + s.base + (i - 1) * s.delta)
  IN  Join(Eager([i \in 1 .. Count(s) |->
        IF i = 1 THEN base ELSE Plus(base, SignExtend(Delta(i), s.base))]), s.base)

DecompressRaw(buffer, comp_size, pattern) ==
  IF pattern = "ZEROS" THEN ZeroLine
  ELSE IF pattern = "REP_WORD"
    THEN IF comp_size < 9 THEN Refused
         ELSE Join(Eager([i \in 1 .. 8 |-> SubSeq(buffer, 2, 9)]), 8)
  ELSE IF pattern = "UNCOMPRESSED" THEN SubSeq(buffer, 1, CACHE_LINE_SIZE)
  ELSE LET s == Shapes[CHOOSE i \in DOMAIN Shapes : Shapes[i].pattern = pattern]
       IN  IF comp_size < ShapeSize(s) THEN Refused ELSE ShapeLine(buffer, s)

Decompress(c) == DecompressRaw(c.data, c.compressed_size, c.pattern)

GetQuantizedSlotSize(size) ==
  IF size <= 16 THEN 16 ELSE IF size <= 32 THEN 32 ELSE IF size <= 48 THEN 48 ELSE 64
=============================================================================
