---------------------------- MODULE HyperRAMProofs ----------------------------
(***************************************************************************)
(* Theorems about HyperRAMController and the engine it calls.              *)
(*                                                                         *)
(* BDIEngine: every line there is, of 256 ^ 64, is decompressed to itself, *)
(* and takes no more bytes than any pattern that fits it would, whatever   *)
(* the build makes of a signed overflow.                                   *)
(*                                                                         *)
(* The controller, for every capacity, every number of threads and every   *)
(* set of calls: Inductive is an invariant, and implies the safety         *)
(* properties.  First the line table, operation by operation, then the     *)
(* steps of the calls, then the theorems.                                  *)
(***************************************************************************)
EXTENDS HyperRAMInvariant, SequenceTheorems, SetLemmas

(* The engine.                                                             *)
(* What the sequences built from a function on 1 .. n are.                 *)
LEMMA EagerIs ==
  ASSUME NEW S, NEW n \in Nat, NEW f \in [1 .. n -> S]
  PROVE  Eager(f) = f
BY DEF Eager

Widths == {1, 2, 4, 8, 16}

(* Position j of word i, and the way back.                                 *)
LEMMA Places ==
  ASSUME NEW w \in Widths, NEW n \in 0 .. 64
  PROVE  /\ \A k \in 1 .. n * w : (k - 1) \div w + 1 \in 1 .. n /\ 1 + ((k - 1) % w) \in 1 .. w
         /\ \A i \in 1 .. n, j \in 1 .. w :
              /\ (i - 1) * w + j \in 1 .. n * w
              /\ ((i - 1) * w + j - 1) \div w + 1 = i
              /\ 1 + (((i - 1) * w + j - 1) % w) = j
<1>1. CASE w = 1
  BY <1>1
<1>2. CASE w = 2
  BY <1>2
<1>3. CASE w = 4
  BY <1>3
<1>4. CASE w = 8
  BY <1>4
<1>5. CASE w = 16
  BY <1>5
<1> QED
  BY <1>1, <1>2, <1>3, <1>4, <1>5 DEF Widths

(* Joining words puts byte j of word i at its place.                       *)
LEMMA JoinIs ==
  ASSUME NEW w \in Widths, NEW n \in 0 .. 64, NEW words \in [1 .. n -> [1 .. w -> Byte]]
  PROVE  /\ Join(words, w) \in [1 .. n * w -> Byte]
         /\ \A i \in 1 .. n, j \in 1 .. w : Join(words, w)[(i - 1) * w + j] = words[i][j]
<1> DEFINE f == [k \in 1 .. n * w |-> words[(k - 1) \div w + 1][1 + ((k - 1) % w)]]
<1>1. \A k \in 1 .. n * w : (k - 1) \div w + 1 \in 1 .. n /\ 1 + ((k - 1) % w) \in 1 .. w
  BY Places
<1>2. f \in [1 .. n * w -> Byte]
  BY <1>1
<1>3. n * w \in Nat
  BY DEF Widths
<1>4. Len(words) = n
  OBVIOUS
<1>5. Join(words, w) = f
  BY <1>2, <1>3, <1>4, EagerIs DEF Join
<1>6. ASSUME NEW i \in 1 .. n, NEW j \in 1 .. w
      PROVE  f[(i - 1) * w + j] = words[i][j]
  <2>1. CASE w = 1
    <3>1. /\ (i - 1) * 1 + j \in 1 .. n * 1
          /\ ((i - 1) * 1 + j - 1) \div 1 + 1 = i
          /\ 1 + (((i - 1) * 1 + j - 1) % 1) = j
      BY <2>1
    <3> QED
      BY <2>1, <3>1
  <2>2. CASE w = 2
    <3>1. /\ (i - 1) * 2 + j \in 1 .. n * 2
          /\ ((i - 1) * 2 + j - 1) \div 2 + 1 = i
          /\ 1 + (((i - 1) * 2 + j - 1) % 2) = j
      BY <2>2
    <3> DEFINE p == (i - 1) * 2 + j
    <3>2. p = (i - 1) * w + j /\ p \in 1 .. n * w
          /\ (p - 1) \div w + 1 = i /\ 1 + ((p - 1) % w) = j
      BY <2>2, <3>1
    <3> HIDE DEF p
    <3>3. f[p] = words[i][j]
      BY <3>2
    <3> QED
      BY <3>2, <3>3
  <2>3. CASE w = 4
    <3>1. /\ (i - 1) * 4 + j \in 1 .. n * 4
          /\ ((i - 1) * 4 + j - 1) \div 4 + 1 = i
          /\ 1 + (((i - 1) * 4 + j - 1) % 4) = j
      BY <2>3
    <3> DEFINE p == (i - 1) * 4 + j
    <3>2. p = (i - 1) * w + j /\ p \in 1 .. n * w
          /\ (p - 1) \div w + 1 = i /\ 1 + ((p - 1) % w) = j
      BY <2>3, <3>1
    <3> HIDE DEF p
    <3>3. f[p] = words[i][j]
      BY <3>2
    <3> QED
      BY <3>2, <3>3
  <2>4. CASE w = 8
    <3>1. /\ (i - 1) * 8 + j \in 1 .. n * 8
          /\ ((i - 1) * 8 + j - 1) \div 8 + 1 = i
          /\ 1 + (((i - 1) * 8 + j - 1) % 8) = j
      BY <2>4
    <3> DEFINE p == (i - 1) * 8 + j
    <3>2. p = (i - 1) * w + j /\ p \in 1 .. n * w
          /\ (p - 1) \div w + 1 = i /\ 1 + ((p - 1) % w) = j
      BY <2>4, <3>1
    <3> HIDE DEF p
    <3>3. f[p] = words[i][j]
      BY <3>2
    <3> QED
      BY <3>2, <3>3
  <2>5. CASE w = 16
    <3>1. /\ (i - 1) * 16 + j \in 1 .. n * 16
          /\ ((i - 1) * 16 + j - 1) \div 16 + 1 = i
          /\ 1 + (((i - 1) * 16 + j - 1) % 16) = j
      BY <2>5
    <3> DEFINE p == (i - 1) * 16 + j
    <3>2. p = (i - 1) * w + j /\ p \in 1 .. n * w
          /\ (p - 1) \div w + 1 = i /\ 1 + ((p - 1) % w) = j
      BY <2>5, <3>1
    <3> HIDE DEF p
    <3>3. f[p] = words[i][j]
      BY <3>2
    <3> QED
      BY <3>2, <3>3
  <2> QED
    BY <2>1, <2>2, <2>3, <2>4, <2>5 DEF Widths
<1> QED
  BY <1>2, <1>5, <1>6

-----------------------------------------------------------------------------
(* Bytes are numbers.                                                      *)
LEMMA ByteRange ==
  /\ \A x \in Byte : x \in Int /\ 0 <= x /\ x <= 255
  /\ \A x \in Int : 0 <= x /\ x <= 255 => x \in Byte
BY DEF Byte

Word(w) == [1 .. w -> Byte]
WordSizes == {2, 4, 8}

(* A part of a sequence, index by index.                                   *)
LEMMA SubSeqIs ==
  ASSUME NEW f, NEW a \in Int, NEW b \in Int
  PROVE  SubSeq(f, a, b) = [k \in 1 .. b - a + 1 |-> f[a + k - 1]]
OBVIOUS

(* Cutting a line into words, index by index.                              *)
LEMMA WordsIs ==
  ASSUME NEW line \in Line, NEW w \in WordSizes
  PROVE  /\ Words(line, w) \in [1 .. CACHE_LINE_SIZE \div w -> Word(w)]
         /\ \A i \in 1 .. CACHE_LINE_SIZE \div w, k \in 1 .. w :
              Words(line, w)[i][k] = line[(i - 1) * w + k]
<1> DEFINE n == CACHE_LINE_SIZE \div w
           f == [i \in 1 .. n |-> SubSeq(line, w * (i - 1) + 1, w * i)]
<1>1. ASSUME NEW i \in 1 .. n
      PROVE  /\ f[i] \in Word(w)
             /\ \A k \in 1 .. w : f[i][k] = line[(i - 1) * w + k]
  <2> DEFINE p == w * (i - 1) + 1
             q == w * i
  <2>1. /\ p \in 1 .. 65 /\ q \in p - 1 .. 64 /\ q - p + 1 = w
        /\ \A k \in 1 .. w : p + k - 1 = (i - 1) * w + k
    <3>1. CASE w = 2
      BY <3>1 DEF CACHE_LINE_SIZE
    <3>2. CASE w = 4
      BY <3>2 DEF CACHE_LINE_SIZE
    <3>3. CASE w = 8
      BY <3>3 DEF CACHE_LINE_SIZE
    <3> QED
      BY <3>1, <3>2, <3>3 DEF WordSizes
  <2>2. f[i] = SubSeq(line, p, q)
    OBVIOUS
  <2>3. line \in [1 .. 64 -> Byte]
    BY DEF Line, CACHE_LINE_SIZE
  <2> HIDE DEF f, p, q
  <2>5. SubSeq(line, p, q) = [k \in 1 .. q - p + 1 |-> line[p + k - 1]]
    BY <2>1, SubSeqIs
  <2>4. f[i] = [k \in 1 .. w |-> line[(i - 1) * w + k]]
    BY <2>1, <2>2, <2>5
  <2>6. \A k \in 1 .. w : line[(i - 1) * w + k] \in Byte
    <3>1. \A k \in 1 .. w : p + k - 1 \in 1 .. 64
      BY <2>1
    <3> QED
      BY <2>1, <2>3, <3>1
  <2> QED
    BY <2>4, <2>6 DEF Word
<1>2. n \in Nat
  BY DEF WordSizes, CACHE_LINE_SIZE
<1>3. f \in [1 .. n -> Word(w)]
  BY <1>1
<1>4. Words(line, w) = f
  BY <1>2, <1>3, EagerIs DEF Words
<1> QED
  BY <1>1, <1>3, <1>4

(* A borrow out of one byte depends on that byte and the borrow below it.  *)
LEMMA BorrowStep ==
  ASSUME NEW w \in Nat, NEW a \in Word(w), NEW b \in Word(w), NEW k \in 1 .. w
  PROVE  /\ Borrow(a, b, 0) = 0
         /\ Borrow(a, b, k - 1) \in {0, 1}
         /\ Borrow(a, b, k) = IF a[k] < b[k] THEN 1
                              ELSE IF a[k] = b[k] THEN Borrow(a, b, k - 1) ELSE 0
BY DEF Borrow, Word, Byte

(* The carry into a byte, from the byte below it.                          *)
LEMMA CarryStep ==
  ASSUME NEW w \in Nat, NEW a \in Word(w), NEW b \in Word(w), NEW k \in 1 .. w
  PROVE  /\ Carry(a, b, 0) = 0
         /\ Carry(a, b, k - 1) \in {0, 1}
         /\ Carry(a, b, k) = IF a[k] + b[k] > 255 THEN 1
                             ELSE IF a[k] + b[k] = 255 THEN Carry(a, b, k - 1) ELSE 0
BY DEF Carry, Word, Byte

(* A difference of words is a word.                                        *)
LEMMA MinusIs ==
  ASSUME NEW w \in Nat, NEW a \in Word(w), NEW b \in Word(w)
  PROVE  /\ Minus(a, b) \in Word(w)
         /\ \A k \in 1 .. w : Minus(a, b)[k] = (a[k] - b[k] - Borrow(a, b, k - 1)) % 256
<1> DEFINE f == [k \in 1 .. w |-> (a[k] - b[k] - Borrow(a, b, k - 1)) % 256]
<1>0. ASSUME NEW k \in 1 .. w
      PROVE  f[k] \in Byte
  <2>1. Borrow(a, b, k - 1) \in {0, 1}
    BY BorrowStep
  <2>2. a[k] \in Byte /\ b[k] \in Byte
    BY DEF Word
  <2> QED
    BY <2>1, <2>2, ByteRange
<1>1. f \in Word(w)
  BY <1>0 DEF Word
<1>2. Len(a) = w
  BY DEF Word
<1>3. Minus(a, b) = f
  BY <1>1, <1>2, EagerIs DEF Minus, Word
<1> QED
  BY <1>1, <1>3

(* Adding back what was subtracted gives the word again.                   *)
LEMMA PlusIs ==
  ASSUME NEW w \in Nat, NEW a \in Word(w), NEW b \in Word(w)
  PROVE  /\ Plus(a, b) \in Word(w)
         /\ \A k \in 1 .. w : Plus(a, b)[k] = (a[k] + b[k] + Carry(a, b, k - 1)) % 256
<1> DEFINE f == [k \in 1 .. w |-> (a[k] + b[k] + Carry(a, b, k - 1)) % 256]
<1>0. ASSUME NEW k \in 1 .. w
      PROVE  f[k] \in Byte
  <2>1. Carry(a, b, k - 1) \in {0, 1}
    BY CarryStep
  <2>2. a[k] \in Byte /\ b[k] \in Byte
    BY DEF Word
  <2> QED
    BY <2>1, <2>2, ByteRange
<1>1. f \in Word(w)
  BY <1>0 DEF Word
<1>2. Len(a) = w
  BY DEF Word
<1>3. Plus(a, b) = f
  BY <1>1, <1>2, EagerIs DEF Plus, Word
<1> QED
  BY <1>1, <1>3

(* One byte of a difference added back, with its borrow and its carry.     *)
LEMMA ByteStep ==
  ASSUME NEW x \in Byte, NEW y \in Byte, NEW r \in {0, 1},
         NEW e, e = (x - y - r) % 256
  PROVE  /\ (y + e + r) % 256 = x
         /\ (IF y + e > 255 THEN 1 ELSE IF y + e = 255 THEN r ELSE 0)
              = IF x < y THEN 1 ELSE IF x = y THEN r ELSE 0
<1>0. x \in Int /\ 0 <= x /\ x <= 255 /\ y \in Int /\ 0 <= y /\ y <= 255
  BY ByteRange
<1>1. CASE r = 0
  BY <1>0, <1>1
<1>2. CASE r = 1
  BY <1>0, <1>2
<1> QED
  BY <1>1, <1>2

(* Functions that agree everywhere are the same.                           *)
LEMMA SameWords ==
  ASSUME NEW T, NEW n \in Nat, NEW f \in [1 .. n -> T], NEW g \in [1 .. n -> T],
         \A i \in 1 .. n : f[i] = g[i]
  PROVE  f = g
OBVIOUS

(* Words that agree byte for byte are the same.                            *)
LEMMA SameWord ==
  ASSUME NEW w \in Nat, NEW a \in Word(w), NEW b \in Word(w), \A k \in 1 .. w : a[k] = b[k]
  PROVE  a = b
BY DEF Word

(* Adding the difference back gives the word.                              *)
LEMMA PlusMinus ==
  ASSUME NEW w \in WordSizes, NEW a \in Word(w), NEW b \in Word(w)
  PROVE  Plus(b, Minus(a, b)) = a
<1> DEFINE d == Minus(a, b)
           Same(k) == Carry(b, d, k) = Borrow(a, b, k)
<1> SUFFICES Plus(b, d) = a
  OBVIOUS
<1>1. w \in Nat /\ d \in Word(w)
  BY MinusIs DEF WordSizes
<1>2. ASSUME NEW k \in 0 .. w - 1, Same(k)
      PROVE  Same(k + 1) /\ Plus(b, d)[k + 1] = a[k + 1]
  <2> DEFINE i == k + 1
  <2>0. i \in 1 .. w /\ i - 1 = k
    BY <1>1
  <2>1. d[i] = (a[i] - b[i] - Borrow(a, b, k)) % 256
    BY <1>1, <2>0, MinusIs
  <2>2. a[i] \in Byte /\ b[i] \in Byte
    BY <1>1, <2>0 DEF Word
  <2>3. Borrow(a, b, i) = IF a[i] < b[i] THEN 1
                          ELSE IF a[i] = b[i] THEN Borrow(a, b, k) ELSE 0
    BY <1>1, <2>0, BorrowStep
  <2>4. Carry(b, d, i) = IF b[i] + d[i] > 255 THEN 1
                         ELSE IF b[i] + d[i] = 255 THEN Borrow(a, b, k) ELSE 0
    BY <1>1, <1>2, <2>0, CarryStep
  <2>5. Borrow(a, b, k) \in {0, 1}
    BY <1>1, <2>0, BorrowStep
  <2>6. Plus(b, d)[i] = (b[i] + d[i] + Borrow(a, b, k)) % 256
    BY <1>1, <1>2, <2>0, PlusIs
  <2> HIDE DEF d, i
  <2>9. /\ (b[i] + d[i] + Borrow(a, b, k)) % 256 = a[i]
        /\ (IF b[i] + d[i] > 255 THEN 1 ELSE IF b[i] + d[i] = 255 THEN Borrow(a, b, k) ELSE 0)
             = IF a[i] < b[i] THEN 1 ELSE IF a[i] = b[i] THEN Borrow(a, b, k) ELSE 0
    BY <2>1, <2>2, <2>5, ByteStep
  <2>7. Plus(b, d)[i] = a[i]
    BY <2>6, <2>9
  <2>8. Same(i)
    BY <2>3, <2>4, <2>9
  <2> QED
    BY <2>7, <2>8 DEF i
<1>3. Same(0)
  BY <1>1, BorrowStep, CarryStep DEF WordSizes
<1> HIDE DEF Same, d
<1>4. Same(1) /\ Same(2)
  <2>1. Same(0 + 1)
    BY <1>2, <1>3 DEF WordSizes
  <2>2. Same(1 + 1)
    BY <1>2, <2>1 DEF WordSizes
  <2> QED
    BY <2>1, <2>2
<1>5. w > 2 => Same(3) /\ Same(4)
  BY <1>2, <1>4 DEF WordSizes
<1>6. w > 4 => Same(5) /\ Same(6)
  BY <1>2, <1>5 DEF WordSizes
<1>7. w > 4 => Same(7)
  BY <1>2, <1>6 DEF WordSizes
<1>8. \A k \in 0 .. w - 1 : Plus(b, d)[k + 1] = a[k + 1]
  BY <1>2, <1>3, <1>4, <1>5, <1>6, <1>7 DEF WordSizes
<1>9. \A k \in 1 .. w : Plus(b, d)[k] = a[k]
  <2> SUFFICES ASSUME NEW k \in 1 .. w PROVE Plus(b, d)[k] = a[k]
    OBVIOUS
  <2>1. k - 1 \in 0 .. w - 1 /\ (k - 1) + 1 = k
    BY <1>1
  <2> QED
    BY <1>8, <2>1
<1> QED
  <2>1. Plus(b, d) \in Word(w)
    BY <1>1, PlusIs
  <2> QED
    BY <1>1, <2>1, <1>9, SameWord
-----------------------------------------------------------------------------
(* The six patterns: the sizes of a word and of a difference.              *)
Sizes == {<<8, 1>>, <<4, 1>>, <<8, 2>>, <<2, 1>>, <<4, 2>>, <<8, 4>>}
Kinds == {Shapes[i] : i \in DOMAIN Shapes}

(* The shapes of the base-delta patterns.                                  *)
LEMMA KindIs ==
  ASSUME NEW s \in Kinds
  PROVE  /\ s.tag \in Byte /\ s.pattern \in BDIPattern \ {"ZEROS", "REP_WORD", "UNCOMPRESSED"}
         /\ <<s.base, s.delta>> \in Sizes
         /\ s.base \in WordSizes /\ s.base \in Widths /\ s.delta \in Widths
         /\ Count(s) \in 2 .. 32 /\ Count(s) * s.base = 64 /\ Count(s) = 64 \div s.base
         /\ ShapeSize(s) \in 1 .. 64 /\ 1 + s.base <= ShapeSize(s)
         /\ s.base \in Nat /\ s.delta \in Nat \ {0} /\ s.delta \in 1 .. s.base
         /\ Count(s) \in Nat /\ 1 \in 1 .. Count(s) /\ Count(s) = CACHE_LINE_SIZE \div s.base
BY DEF Kinds, Shapes, Byte, BDIPattern, Sizes, WordSizes, Widths, Count, CACHE_LINE_SIZE, ShapeSize

(* A sequence of three parts, index by index.                              *)
LEMMA ThreeParts ==
  ASSUME NEW t \in Byte, NEW b \in Seq(Byte), NEW j \in Seq(Byte)
  PROVE  LET r == <<t>> \o b \o j IN
         /\ r \in [1 .. 1 + Len(b) + Len(j) -> Byte]
         /\ Len(r) = 1 + Len(b) + Len(j)
         /\ \A k \in 1 .. Len(b) : r[1 + k] = b[k]
         /\ \A k \in 1 .. Len(j) : r[1 + Len(b) + k] = j[k]
<1> DEFINE r == <<t>> \o b \o j
<1>1. <<t>> \o b \o j = [k \in 1 .. 1 + Len(b) + Len(j) |->
           IF k = 1 THEN t ELSE IF k <= 1 + Len(b) THEN b[k - 1] ELSE j[k - 1 - Len(b)]]
  OBVIOUS
<1>2. r = [k \in 1 .. 1 + Len(b) + Len(j) |->
           IF k = 1 THEN t ELSE IF k <= 1 + Len(b) THEN b[k - 1] ELSE j[k - 1 - Len(b)]]
  BY <1>1
<1> HIDE DEF r
<1>3. Len(b) \in Nat /\ Len(j) \in Nat /\ b \in [1 .. Len(b) -> Byte] /\ j \in [1 .. Len(j) -> Byte]
  OBVIOUS
<1>8. r \in [1 .. 1 + Len(b) + Len(j) -> Byte]
  BY <1>2, <1>3
<1>9. Len(r) = 1 + Len(b) + Len(j)
  BY <1>3, <1>8
<1>10. \A k \in 1 .. Len(b) : r[1 + k] = b[k]
  BY <1>2, <1>3
<1>11. \A k \in 1 .. Len(j) : r[1 + Len(b) + k] = j[k]
  BY <1>2, <1>3
<1> QED
  BY <1>8, <1>9, <1>10, <1>11 DEF r

(* A sequence of two parts, index by index.                                *)
LEMMA TwoParts ==
  ASSUME NEW t \in Byte, NEW b \in Seq(Byte)
  PROVE  LET r == <<t>> \o b IN
         /\ r \in [1 .. 1 + Len(b) -> Byte]
         /\ Len(r) = 1 + Len(b)
         /\ \A k \in 1 .. Len(b) : r[1 + k] = b[k]
<1> DEFINE r == <<t>> \o b
<1>1. <<t>> \o b = [k \in 1 .. 1 + Len(b) |-> IF k = 1 THEN t ELSE b[k - 1]]
  OBVIOUS
<1>2. r = [k \in 1 .. 1 + Len(b) |-> IF k = 1 THEN t ELSE b[k - 1]]
  BY <1>1
<1> HIDE DEF r
<1>3. Len(b) \in Nat /\ b \in [1 .. Len(b) -> Byte]
  OBVIOUS
<1>4. r \in [1 .. 1 + Len(b) -> Byte]
  BY <1>2, <1>3
<1>5. Len(r) = 1 + Len(b)
  BY <1>3, <1>4
<1>6. \A k \in 1 .. Len(b) : r[1 + k] = b[k]
  BY <1>2, <1>3
<1> QED
  BY <1>4, <1>5, <1>6 DEF r

(* A function on 1 .. n is a sequence of length n.                         *)
LEMMA BytesAre ==
  ASSUME NEW n \in Nat, NEW f \in [1 .. n -> Byte]
  PROVE  f \in Seq(Byte) /\ Len(f) = n
OBVIOUS

(* A line is a function on its 64 bytes.                                   *)
LEMMA LineIs ==
  ASSUME NEW line \in Line
  PROVE  line \in Seq(Byte) /\ Len(line) = 64 /\ line \in [1 .. 64 -> Byte]
<1> DEFINE n == 64
<1>1. n \in Nat /\ line \in [1 .. n -> Byte]
  BY DEF Line, CACHE_LINE_SIZE
<1> HIDE DEF n
<1>2. line \in Seq(Byte) /\ Len(line) = n
  BY <1>1, BytesAre
<1> QED
  BY <1>1, <1>2 DEF n

(* A tag put before a word.                                                *)
LEMMA Prepended ==
  ASSUME NEW t \in Byte, NEW w \in Word(8)
  PROVE  LET r == <<t>> \o w IN
         /\ r \in [1 .. 9 -> Byte] /\ r \in Seq(Byte) /\ Len(r) = 9
         /\ \A k \in 1 .. 8 : r[1 + k] = w[k]
<1> DEFINE n == 8
           r == <<t>> \o w
<1>1. n \in Nat /\ w \in [1 .. n -> Byte]
  BY DEF Word
<1> HIDE DEF n, r
<1>2. w \in Seq(Byte) /\ Len(w) = n
  BY <1>1, BytesAre
<1>3. /\ r \in [1 .. 1 + Len(w) -> Byte]
      /\ Len(r) = 1 + Len(w)
      /\ \A k \in 1 .. Len(w) : r[1 + k] = w[k]
  BY <1>2, TwoParts DEF r
<1> DEFINE m == 1 + n
<1>4. m \in Nat /\ r \in [1 .. m -> Byte]
  BY <1>1, <1>2, <1>3
<1>5. m = 9
  BY DEF n
<1> HIDE DEF m
<1>6. r \in Seq(Byte) /\ Len(r) = m
  BY <1>4, BytesAre
<1> QED
  BY <1>2, <1>3, <1>4, <1>5, <1>6 DEF r, n

(* Sign extension gives a word of the asked width.                         *)
LEMMA SignExtendIs ==
  ASSUME NEW n \in Nat \ {0}, NEW w \in Nat, NEW d \in Word(n)
  PROVE  SignExtend(d, w) \in Word(w)
<1> DEFINE f == [k \in 1 .. w |-> IF k <= Len(d) THEN d[k] ELSE IF Negative(d) THEN 255 ELSE 0]
<1>1. 0 \in Byte /\ 255 \in Byte /\ Len(d) = n
  BY DEF Byte, Word
<1>2. \A k \in 1 .. w : k <= n => d[k] \in Byte
  BY DEF Word
<1>3. f \in [1 .. w -> Byte]
  BY <1>1, <1>2
<1> QED
  BY <1>3, EagerIs DEF SignExtend, Word

(* What a pattern writes.                                                  *)
LEMMA ShapeDataIs ==
  ASSUME NEW line \in Line, NEW s \in Kinds
  PROVE  LET v == Words(line, s.base) IN
         /\ ShapeData(line, s) \in [1 .. ShapeSize(s) -> Byte]
         /\ Len(ShapeData(line, s)) = ShapeSize(s)
         /\ \A k \in 1 .. s.base : ShapeData(line, s)[1 + k] = v[1][k]
         /\ \A i \in 1 .. Count(s) - 1, k \in 1 .. s.delta :
              ShapeData(line, s)[1 + s.base + (i - 1) * s.delta + k] = Minus(v[i + 1], v[1])[k]
<1> DEFINE w == s.base
           d == s.delta
           n == Count(s)
           v == Words(line, w)
           e == [i \in 1 .. n - 1 |-> SubSeq(Minus(v[i + 1], v[1]), 1, d)]
           data == <<s.tag>> \o v[1] \o Join(e, d)
<1>1. /\ w \in WordSizes /\ d \in Widths /\ n \in 2 .. 32 /\ n = 64 \div w /\ s.tag \in Byte
      /\ d \in 1 .. w
  BY KindIs DEF Sizes
<1>2. v \in [1 .. n -> Word(w)]
  BY <1>1, WordsIs DEF CACHE_LINE_SIZE
<1> HIDE DEF w, d, n, v
<1>3. ASSUME NEW i \in 1 .. n - 1
      PROVE  /\ e[i] \in [1 .. d -> Byte]
             /\ \A k \in 1 .. d : e[i][k] = Minus(v[i + 1], v[1])[k]
  <2> DEFINE m == Minus(v[i + 1], v[1])
  <2>1. i + 1 \in 1 .. n /\ 1 \in 1 .. n /\ w \in Nat /\ d \in Nat
    BY <1>1 DEF WordSizes, Widths
  <2>2. m \in Word(w)
    BY <1>2, <2>1, MinusIs
  <2>3. e[i] = SubSeq(m, 1, d)
    OBVIOUS
  <2> HIDE DEF m, e
  <2>4. SubSeq(m, 1, d) = [k \in 1 .. d - 1 + 1 |-> m[1 + k - 1]]
    BY <2>1, SubSeqIs
  <2>5. e[i] = [k \in 1 .. d |-> m[k]]
    BY <2>1, <2>3, <2>4
  <2>6. \A k \in 1 .. d : m[k] \in Byte
    BY <1>1, <2>1, <2>2 DEF Word
  <2> QED
    BY <2>5, <2>6 DEF m
<1>4. e \in [1 .. n - 1 -> [1 .. d -> Byte]]
  BY <1>3
<1>5. /\ Join(e, d) \in [1 .. (n - 1) * d -> Byte]
      /\ \A i \in 1 .. n - 1, k \in 1 .. d : Join(e, d)[(i - 1) * d + k] = e[i][k]
  <2> DEFINE p == n - 1
  <2>1. p \in 0 .. 64 /\ e \in [1 .. p -> [1 .. d -> Byte]] /\ d \in Widths
    BY <1>1, <1>4
  <2> HIDE DEF e, p
  <2>2. /\ Join(e, d) \in [1 .. p * d -> Byte]
        /\ \A i \in 1 .. p, k \in 1 .. d : Join(e, d)[(i - 1) * d + k] = e[i][k]
    BY <2>1, JoinIs
  <2> QED
    BY <2>2 DEF p
<1>6. Len(v) = n /\ n - 1 \in Nat /\ Eager(e) = e
  <2>1. n - 1 \in Nat /\ n \in Nat
    BY <1>1
  <2>2. Len(v) = n
    BY <1>2, <2>1
  <2> HIDE DEF e
  <2> QED
    BY <1>4, <2>1, <2>2, EagerIs
<1>7. ShapeData(line, s) = data
  BY <1>6 DEF ShapeData, v, w, d
<1>8. v[1] \in [1 .. w -> Byte] /\ (n - 1) * d \in Nat /\ w \in Nat
  BY <1>1, <1>2 DEF Word, WordSizes, Widths
<1>9. ShapeSize(s) = 1 + w + (n - 1) * d
  BY DEF ShapeSize, w, d, n
<1> DEFINE j == Join(e, d)
<1>10. /\ data \in [1 .. 1 + w + (n - 1) * d -> Byte]
       /\ Len(data) = 1 + w + (n - 1) * d
       /\ \A k \in 1 .. w : data[1 + k] = v[1][k]
       /\ \A k \in 1 .. (n - 1) * d : data[1 + w + k] = j[k]
  <2> HIDE DEF j, e
  <2>1. j \in [1 .. (n - 1) * d -> Byte]
    BY <1>5 DEF j
  <2>2. data = <<s.tag>> \o v[1] \o j
    BY DEF j
  <2> DEFINE p == (n - 1) * d
             b == v[1]
             t == s.tag
  <2>3. data = <<t>> \o b \o j
    BY <2>2
  <2>5. p \in Nat /\ b \in [1 .. w -> Byte] /\ j \in [1 .. p -> Byte] /\ t \in Byte /\ w \in Nat
    BY <1>1, <1>8, <2>1
  <2> HIDE DEF data, p, b, t
  <2>4. /\ data \in [1 .. 1 + w + p -> Byte]
        /\ Len(data) = 1 + w + p
        /\ \A k \in 1 .. w : data[1 + k] = b[k]
        /\ \A k \in 1 .. p : data[1 + w + k] = j[k]
    <3>1. b \in Seq(Byte) /\ Len(b) = w /\ j \in Seq(Byte) /\ Len(j) = p
      BY <2>5
    <3> DEFINE r == <<t>> \o b \o j
    <3>2. /\ r \in [1 .. 1 + Len(b) + Len(j) -> Byte]
          /\ Len(r) = 1 + Len(b) + Len(j)
          /\ \A k \in 1 .. Len(b) : r[1 + k] = b[k]
          /\ \A k \in 1 .. Len(j) : r[1 + Len(b) + k] = j[k]
      BY <2>5, <3>1, ThreeParts
    <3>3. data = r
      BY <2>3
    <3> HIDE DEF r
    <3> QED
      BY <3>1, <3>2, <3>3
  <2> QED
    BY <2>4 DEF p, b
<1>11. ASSUME NEW i \in 1 .. n - 1, NEW k \in 1 .. d
       PROVE  data[1 + w + (i - 1) * d + k] = Minus(v[i + 1], v[1])[k]
  <2> HIDE DEF data, j, e
  <2> DEFINE q == (i - 1) * d + k
  <2>1. q \in 1 .. (n - 1) * d
    <3> DEFINE p == n - 1
    <3>1. p \in 0 .. 64 /\ i \in 1 .. p /\ d \in Widths
      BY <1>1
    <3> HIDE DEF p
    <3>2. q \in 1 .. p * d
      BY <3>1, Places
    <3> QED
      BY <3>2 DEF p
  <2>2. 1 + w + (i - 1) * d + k = 1 + w + q
    BY <1>8, <1>1 DEF Widths
  <2>3. j[q] = e[i][k]
    BY <1>5 DEF j
  <2> HIDE DEF q
  <2> QED
    BY <1>10, <2>1, <2>2, <2>3, <1>3
<1> QED
  <2> HIDE DEF data
  <2>1. /\ data \in [1 .. ShapeSize(s) -> Byte]
        /\ Len(data) = ShapeSize(s)
        /\ \A k \in 1 .. w : data[1 + k] = v[1][k]
        /\ \A i \in 1 .. n - 1, k \in 1 .. d :
             data[1 + w + (i - 1) * d + k] = Minus(v[i + 1], v[1])[k]
    BY <1>9, <1>10, <1>11
  <2> QED
    BY <1>7, <2>1 DEF w, d, n, v
(* Where a pattern reads the difference of word i.                         *)
LEMMA DeltaPlaces ==
  ASSUME NEW s \in Kinds, NEW i \in 2 .. Count(s)
  PROVE  /\ 2 + s.base + (i - 2) * s.delta \in Int
         /\ 1 + s.base + (i - 1) * s.delta \in Int
         /\ (1 + s.base + (i - 1) * s.delta) - (2 + s.base + (i - 2) * s.delta) + 1 = s.delta
         /\ \A k \in 1 .. s.delta :
              /\ (2 + s.base + (i - 2) * s.delta) + k - 1 = 1 + s.base + (i - 1 - 1) * s.delta + k
              /\ 1 + s.base + (i - 1 - 1) * s.delta + k \in 1 .. ShapeSize(s)
<1> DEFINE w == s.base
           d == s.delta
           n == Count(s)
<1>1. /\ w \in {2, 4, 8} /\ d \in {1, 2, 4} /\ n \in 2 .. 32
  BY KindIs DEF Sizes, WordSizes
<1>2. ShapeSize(s) = 1 + w + (n - 1) * d
  BY DEF ShapeSize
<1> HIDE DEF w, d, n
<1> SUFFICES /\ 2 + w + (i - 2) * d \in Int
             /\ 1 + w + (i - 1) * d \in Int
             /\ (1 + w + (i - 1) * d) - (2 + w + (i - 2) * d) + 1 = d
             /\ \A k \in 1 .. d :
                  /\ (2 + w + (i - 2) * d) + k - 1 = 1 + w + (i - 1 - 1) * d + k
                  /\ 1 + w + (i - 1 - 1) * d + k \in 1 .. 1 + w + (n - 1) * d
  BY <1>2 DEF w, d, n
<1>3. i \in 2 .. n
  BY DEF n
<1>4. CASE d = 1
  BY <1>1, <1>3, <1>4
<1>5. CASE d = 2
  BY <1>1, <1>3, <1>5
<1>6. CASE d = 4
  BY <1>1, <1>3, <1>6
<1> QED
  BY <1>1, <1>4, <1>5, <1>6

DeltaOf(buffer, s, i) == SubSeq(buffer, 2 + s.base + (i - 2) * s.delta,
                                        1 + s.base + (i - 1) * s.delta)

(* The i-th delta of a buffer, byte by byte.                               *)
LEMMA DeltaIs ==
  ASSUME NEW s \in Kinds, NEW i \in 2 .. Count(s),
         NEW m \in Nat, m >= ShapeSize(s), NEW buffer \in [1 .. m -> Byte]
  PROVE  /\ DeltaOf(buffer, s, i)
              = [k \in 1 .. s.delta |-> buffer[1 + s.base + (i - 1 - 1) * s.delta + k]]
         /\ DeltaOf(buffer, s, i) \in Word(s.delta)
<1> DEFINE p == 2 + s.base + (i - 2) * s.delta
           q == 1 + s.base + (i - 1) * s.delta
           P(k) == 1 + s.base + (i - 1 - 1) * s.delta + k
           d == s.delta
<1>1. /\ p \in Int /\ q \in Int /\ q - p + 1 = d
      /\ \A k \in 1 .. d : p + k - 1 = P(k) /\ P(k) \in 1 .. ShapeSize(s)
  BY DeltaPlaces
<1>2. DeltaOf(buffer, s, i) = SubSeq(buffer, p, q)
  BY DEF DeltaOf
<1> HIDE DEF p, q, P, d
<1> DEFINE z == ShapeSize(s)
<1>4. z \in 1 .. 64 /\ m >= z
  BY KindIs
<1> HIDE DEF z
<1>3. SubSeq(buffer, p, q) = [k \in 1 .. q - p + 1 |-> buffer[p + k - 1]]
  BY <1>1, SubSeqIs
<1>5. SubSeq(buffer, p, q) = [k \in 1 .. d |-> buffer[P(k)]]
  BY <1>1, <1>3
<1>6. \A k \in 1 .. d : buffer[P(k)] \in Byte
  <2>1. \A k \in 1 .. d : P(k) \in 1 .. m
    <3>1. \A k \in 1 .. d : P(k) \in 1 .. z
      BY <1>1 DEF z
    <3> QED
      BY <1>4, <3>1
  <2> QED
    BY <2>1
<1>7. [k \in 1 .. d |-> buffer[P(k)]] \in Word(d)
  BY <1>6 DEF Word
<1> QED
  BY <1>2, <1>5, <1>7 DEF P, d

BaseOf(buffer, s) == SubSeq(buffer, 2, 1 + s.base)

(* The base of a buffer, byte by byte.                                     *)
LEMMA BaseIs ==
  ASSUME NEW s \in Kinds, NEW m \in Nat, m >= ShapeSize(s), NEW buffer \in [1 .. m -> Byte]
  PROVE  /\ BaseOf(buffer, s) = [k \in 1 .. s.base |-> buffer[1 + k]]
         /\ BaseOf(buffer, s) \in Word(s.base)
         /\ 1 + s.base <= ShapeSize(s) /\ ShapeSize(s) \in 1 .. 64
<1> DEFINE w == s.base
<1>1. w \in {2, 4, 8} /\ s.delta \in {1, 2, 4} /\ Count(s) \in 2 .. 32
  BY KindIs DEF Sizes, WordSizes
<1>2. 1 + w <= ShapeSize(s) /\ ShapeSize(s) \in 1 .. 64
  BY KindIs
<1> HIDE DEF w
<1>3. SubSeq(buffer, 2, 1 + w) = [k \in 1 .. 1 + w - 2 + 1 |-> buffer[2 + k - 1]]
  BY <1>1, SubSeqIs
<1>4. SubSeq(buffer, 2, 1 + w) = [k \in 1 .. w |-> buffer[1 + k]]
  BY <1>1, <1>3
<1>5. \A k \in 1 .. w : buffer[1 + k] \in Byte
  <2> DEFINE z == ShapeSize(s)
  <2>2. 1 + w <= z /\ z \in 1 .. 64 /\ m >= z
    BY <1>2
  <2> HIDE DEF z
  <2>1. \A k \in 1 .. w : 1 + k \in 1 .. m
    BY <1>1, <2>2
  <2> QED
    BY <2>1
<1>6. [k \in 1 .. w |-> buffer[1 + k]] \in Word(w)
  BY <1>5 DEF Word
<1> QED
  BY <1>2, <1>4, <1>6 DEF BaseOf, w

(* What a pattern reads, as words.                                         *)
WordsOf(buffer, s) ==
  [i \in 1 .. Count(s) |->
     IF i = 1 THEN BaseOf(buffer, s)
     ELSE Plus(BaseOf(buffer, s), SignExtend(DeltaOf(buffer, s, i), s.base))]

(* Whatever the buffer, what a shape decompresses is a line.               *)
LEMMA ShapeLineType ==
  ASSUME NEW s \in Kinds, NEW m \in Nat, m >= ShapeSize(s), NEW buffer \in [1 .. m -> Byte]
  PROVE  /\ WordsOf(buffer, s) \in [1 .. Count(s) -> Word(s.base)]
         /\ ShapeLine(buffer, s) = Join(WordsOf(buffer, s), s.base)
         /\ ShapeLine(buffer, s) \in Line
<1> DEFINE w == s.base
           d == s.delta
           n == Count(s)
           f == WordsOf(buffer, s)
<1>1. w \in WordSizes /\ d \in {1, 2, 4} /\ n \in 2 .. 32 /\ n * w = 64 /\ w \in Widths
  BY KindIs DEF Sizes
<1>2. BaseOf(buffer, s) \in Word(w)
  BY BaseIs
<1>3. \A i \in 2 .. n : DeltaOf(buffer, s, i) \in Word(d)
  BY DeltaIs
<1> HIDE DEF w, d, n
<1>4. ASSUME NEW i \in 1 .. n
      PROVE  f[i] \in Word(w)
  <2>1. CASE i = 1
    BY <1>2, <2>1 DEF WordsOf, n
  <2>2. CASE i # 1
    <3>1. i \in 2 .. n
      BY <1>1, <2>2
    <3>2. f[i] = Plus(BaseOf(buffer, s), SignExtend(DeltaOf(buffer, s, i), w))
      BY <2>2 DEF WordsOf, n, w
    <3>3. d \in Nat \ {0} /\ w \in Nat
      BY <1>1 DEF WordSizes
    <3>4. SignExtend(DeltaOf(buffer, s, i), w) \in Word(w)
      BY <1>3, <3>1, <3>3, SignExtendIs
    <3> QED
      BY <1>2, <3>2, <3>3, <3>4, PlusIs
  <2> QED
    BY <2>1, <2>2
<1>5. f \in [1 .. n -> Word(w)]
  BY <1>4 DEF WordsOf, n
<1>6. Eager(f) = f
  <2>1. n \in Nat
    BY <1>1
  <2> HIDE DEF f
  <2> QED
    BY <1>5, <2>1, EagerIs
<1>7. ShapeLine(buffer, s) = Join(Eager(f), w)
  BY DEF ShapeLine, WordsOf, BaseOf, DeltaOf, w
<1>8. Join(f, w) \in [1 .. n * w -> Byte]
  <2>1. n \in 0 .. 64 /\ f \in [1 .. n -> [1 .. w -> Byte]]
    BY <1>1, <1>5 DEF Word
  <2> HIDE DEF f
  <2> QED
    BY <1>1, <2>1, JoinIs
<1> QED
  BY <1>1, <1>5, <1>6, <1>7, <1>8 DEF n, w, Line, CACHE_LINE_SIZE

(* A line is its words joined.                                             *)
LEMMA JoinWords ==
  ASSUME NEW line \in Line, NEW w \in WordSizes
  PROVE  Join(Words(line, w), w) = line
<1> DEFINE v == Words(line, w)
           n == 64 \div w
<1>7. n \in Nat /\ n * w = 64
  BY DEF WordSizes
<1> HIDE DEF n
<1>1. /\ v \in [1 .. n -> Word(w)]
      /\ \A i \in 1 .. n, k \in 1 .. w : v[i][k] = line[(i - 1) * w + k]
  <2>1. CACHE_LINE_SIZE \div w = n
    BY DEF CACHE_LINE_SIZE, n
  <2> QED
    BY <2>1, WordsIs
<1>2. w \in Widths /\ n \in 0 .. 64
  BY DEF WordSizes, Widths, n
<1> DEFINE r == Join(v, w)
<1>3. /\ r \in [1 .. n * w -> Byte]
      /\ \A i \in 1 .. n, k \in 1 .. w : r[(i - 1) * w + k] = v[i][k]
  <2>1. v \in [1 .. n -> [1 .. w -> Byte]]
    BY <1>1 DEF Word
  <2> HIDE DEF v, r
  <2>2. /\ Join(v, w) \in [1 .. n * w -> Byte]
        /\ \A i \in 1 .. n, k \in 1 .. w : Join(v, w)[(i - 1) * w + k] = v[i][k]
    BY <1>2, <2>1, JoinIs
  <2> QED
    BY <2>2 DEF r
<1> HIDE DEF v, r
<1>4. ASSUME NEW k \in 1 .. 64
      PROVE  r[k] = line[k]
  <2> DEFINE i == (k - 1) \div w + 1
             j == 1 + ((k - 1) % w)
  <2>1. i \in 1 .. n /\ j \in 1 .. w
    BY <1>2, <1>7, Places
  <2>2. (i - 1) * w + j = k
    <3>1. CASE w = 2
      BY <3>1
    <3>2. CASE w = 4
      BY <3>2
    <3>3. CASE w = 8
      BY <3>3
    <3> QED
      BY <3>1, <3>2, <3>3 DEF WordSizes
  <2> HIDE DEF i, j
  <2> DEFINE P(x, y) == (x - 1) * w + y
  <2>4. \A x \in 1 .. n, y \in 1 .. w : r[P(x, y)] = v[x][y] /\ v[x][y] = line[P(x, y)]
    BY <1>1, <1>3
  <2>3. r[(i - 1) * w + j] = line[(i - 1) * w + j]
    <3> HIDE DEF P
    <3>1. r[P(i, j)] = line[P(i, j)]
      BY <2>1, <2>4
    <3> QED
      BY <3>1 DEF P
  <2> QED
    BY <2>2, <2>3
<1>5. r \in [1 .. 64 -> Byte] /\ line \in [1 .. 64 -> Byte]
  BY <1>3, <1>7 DEF Line, CACHE_LINE_SIZE
<1>6. r = line
  BY <1>4, <1>5
<1> QED
  BY <1>6 DEF r, v
(* The m bytes of buffer begin with data.                                  *)
BeginsWith(buffer, m, data) ==
  /\ m \in Nat /\ buffer \in [1 .. m -> Byte] /\ Len(data) <= m
  /\ \A k \in 1 .. Len(data) : buffer[k] = data[k]

(* A buffer that begins with what a pattern wrote reads as the line.       *)
LEMMA ShapeRoundTrip ==
  ASSUME NEW line \in Line, NEW s \in Kinds, NEW wraps, ShapeFits(line, s, wraps),
         NEW m, NEW buffer, BeginsWith(buffer, m, ShapeData(line, s))
  PROVE  ShapeLine(buffer, s) = line
<1> DEFINE w == s.base
           d == s.delta
           n == Count(s)
           v == Words(line, s.base)
           z == ShapeSize(s)
<1>1. /\ w \in WordSizes /\ w \in Nat /\ d \in Nat \ {0} /\ n \in 2 .. 32
      /\ n \in Nat /\ 1 \in 1 .. n /\ n = CACHE_LINE_SIZE \div w
      /\ d \in 1 .. w /\ z \in 1 .. 64 /\ 1 + w <= z
  BY KindIs
<1>0. /\ m \in Nat /\ buffer \in [1 .. m -> Byte] /\ m >= z
      /\ \A k \in 1 .. z : buffer[k] = ShapeData(line, s)[k]
  <2>1. Len(ShapeData(line, s)) = z
    BY ShapeDataIs
  <2>2. z <= m /\ m \in Nat /\ buffer \in [1 .. m -> Byte]
    BY <2>1 DEF BeginsWith
  <2>3. \A k \in 1 .. z : buffer[k] = ShapeData(line, s)[k]
    BY <2>1 DEF BeginsWith
  <2> HIDE DEF z
  <2>4. m >= z
    BY <1>1, <2>2
  <2> QED
    BY <2>2, <2>3, <2>4
<1>2. v \in [1 .. n -> Word(w)]
  BY <1>1, WordsIs
<1>3. Len(v) = n
  <2> HIDE DEF v, n
  <2> QED
    BY <1>1, <1>2
<1>4. \A k \in 1 .. w : buffer[1 + k] = v[1][k]
  <2>1. \A k \in 1 .. w : ShapeData(line, s)[1 + k] = v[1][k]
    BY ShapeDataIs
  <2>2. \A k \in 1 .. z : buffer[k] = ShapeData(line, s)[k]
    BY <1>0
  <2> HIDE DEF v, z, w
  <2>3. \A k \in 1 .. w : 1 + k \in 1 .. z
    BY <1>1
  <2> QED
    BY <2>1, <2>2, <2>3
<1>5. BaseOf(buffer, s) = v[1]
  <2>1. BaseOf(buffer, s) = [k \in 1 .. w |-> buffer[1 + k]]
    BY <1>0, BaseIs
  <2>2. v[1] \in [1 .. w -> Byte]
    BY <1>1, <1>2 DEF Word
  <2> HIDE DEF v, w
  <2> QED
    BY <1>4, <2>1, <2>2
<1>6. ASSUME NEW i \in 2 .. n
      PROVE  WordsOf(buffer, s)[i] = v[i]
  <2> DEFINE diff == Minus(v[i], v[1])
             P(k) == 1 + s.base + (i - 1 - 1) * s.delta + k
  <2>1. i \in 1 .. n /\ 1 \in 1 .. n /\ i - 1 \in 1 .. n - 1 /\ i - 1 + 1 = i /\ i # 1
    BY <1>1
  <2>8. v[i] \in Word(w) /\ v[1] \in Word(w)
    BY <1>2, <2>1
  <2>2. diff \in Word(w)
    <3> HIDE DEF v, w, n
    <3> QED
      BY <1>1, <2>8, MinusIs
  <2>3. \A k \in 1 .. d : buffer[P(k)] = diff[k]
    <3>1. \A j \in 1 .. n - 1, k \in 1 .. d :
            ShapeData(line, s)[1 + s.base + (j - 1) * s.delta + k] = Minus(v[j + 1], v[1])[k]
      BY ShapeDataIs
    <3>2. \A k \in 1 .. d : ShapeData(line, s)[P(k)] = Minus(v[i - 1 + 1], v[1])[k]
      <4> DEFINE j == i - 1
      <4>1. j \in 1 .. n - 1
        BY <2>1
      <4> HIDE DEF j, n, v, d
      <4>2. \A k \in 1 .. d :
              ShapeData(line, s)[1 + s.base + (j - 1) * s.delta + k] = Minus(v[j + 1], v[1])[k]
        BY <3>1, <4>1, Zenon
      <4> QED
        BY <4>2 DEF j
    <3>3. \A k \in 1 .. d : P(k) \in 1 .. z
      BY DeltaPlaces
    <3>4. \A k \in 1 .. z : buffer[k] = ShapeData(line, s)[k]
      BY <1>0
    <3> HIDE DEF P, v, z, d
    <3> QED
      BY <2>1, <3>2, <3>3, <3>4
  <2>4. DeltaOf(buffer, s, i) = [k \in 1 .. d |-> diff[k]]
    <3>1. DeltaOf(buffer, s, i) = [k \in 1 .. d |-> buffer[P(k)]]
      BY <1>0, DeltaIs
    <3> HIDE DEF P, diff, d
    <3> QED
      BY <2>3, <3>1
  <2>5. SubSeq(diff, 1, d) = [k \in 1 .. d |-> diff[k]]
    <3> HIDE DEF diff, d
    <3>1. SubSeq(diff, 1, d) = [k \in 1 .. d - 1 + 1 |-> diff[1 + k - 1]]
      BY <1>1, SubSeqIs
    <3> QED
      BY <1>1, <3>1
  <2>6. diff = SignExtend(SubSeq(diff, 1, d), w)
    <3>1. DeltaFits(v[i], v[1], d, wraps)
      BY <1>3, <2>1 DEF ShapeFits
    <3>2. Len(diff) = w
      <4> HIDE DEF diff, w
      <4> QED
        BY <1>1, <2>2 DEF Word
    <3> QED
      BY <3>1, <3>2 DEF DeltaFits
  <2>7. WordsOf(buffer, s)[i] = Plus(v[1], diff)
    <3>1. WordsOf(buffer, s)[i]
            = Plus(BaseOf(buffer, s), SignExtend(DeltaOf(buffer, s, i), w))
      BY <2>1 DEF WordsOf
    <3> HIDE DEF diff, v, w, d
    <3> QED
      BY <1>5, <2>4, <2>5, <2>6, <3>1
  <2> QED
    BY <1>1, <2>7, <2>8, PlusMinus
<1>7. WordsOf(buffer, s)[1] = v[1]
  BY <1>1, <1>5 DEF WordsOf
<1>8. WordsOf(buffer, s) \in [1 .. n -> Word(w)] /\ ShapeLine(buffer, s) = Join(WordsOf(buffer, s), w)
  BY <1>0, ShapeLineType
<1>9. WordsOf(buffer, s) = v
  <2> HIDE DEF v, n
  <2>1. \A i \in 1 .. n : i = 1 \/ i \in 2 .. n
    BY <1>1
  <2> DEFINE g == WordsOf(buffer, s)
  <2>2. \A i \in 1 .. n : g[i] = v[i]
    BY <1>6, <1>7, <2>1
  <2> HIDE DEF g, w
  <2>3. g \in [1 .. n -> Word(w)]
    BY <1>8 DEF g
  <2>4. g = v
    BY <1>2, <2>2, <2>3, <1>1, SameWords
  <2> QED
    BY <2>4 DEF g
<1>10. Join(v, w) = line
  BY <1>1, JoinWords
<1> QED
  BY <1>8, <1>9, <1>10

-----------------------------------------------------------------------------
(* Every line is stored in at most 64 bytes, under the pattern named.      *)
PatternOf(line, wraps) ==
  LET fitting == {i \in DOMAIN Shapes : ShapeFits(line, Shapes[i], wraps)}
  IN  Shapes[Min(fitting)]

(* The shape chosen fits, and none that fits takes fewer bytes.            *)
LEMMA FirstFitting ==
  ASSUME NEW line \in Line, NEW wraps,
         {i \in DOMAIN Shapes : ShapeFits(line, Shapes[i], wraps)} # {}
  PROVE  /\ PatternOf(line, wraps) \in Kinds
         /\ ShapeFits(line, PatternOf(line, wraps), wraps)
         /\ \A i \in DOMAIN Shapes : ShapeFits(line, Shapes[i], wraps) =>
              ShapeSize(PatternOf(line, wraps)) <= ShapeSize(Shapes[i])
<1> DEFINE fitting == {i \in DOMAIN Shapes : ShapeFits(line, Shapes[i], wraps)}
           f == Min(fitting)
<1>1. DOMAIN Shapes = 1 .. 6
  BY DEF Shapes
<1>2. \E x \in fitting : \A y \in fitting : x <= y
  <2> HIDE DEF fitting
  <2>0. fitting \subseteq 1 .. 6 /\ fitting # {}
    BY <1>1 DEF fitting
  <2>1. CASE 1 \in fitting
    BY <2>0, <2>1
  <2>2. CASE 1 \notin fitting /\ 2 \in fitting
    BY <2>0, <2>2
  <2>3. CASE 1 \notin fitting /\ 2 \notin fitting /\ 3 \in fitting
    BY <2>0, <2>3
  <2>4. CASE fitting \cap 1 .. 3 = {} /\ 4 \in fitting
    BY <2>0, <2>4
  <2>5. CASE fitting \cap 1 .. 4 = {} /\ 5 \in fitting
    BY <2>0, <2>5
  <2>6. CASE fitting \cap 1 .. 5 = {}
    <3>1. \A y \in fitting : y = 6
      BY <2>0, <2>6
    <3>2. PICK x \in fitting : TRUE
      BY <2>0
    <3> QED
      BY <3>1, <3>2
  <2> QED
    BY <2>1, <2>2, <2>3, <2>4, <2>5, <2>6
<1>3. f \in fitting /\ \A y \in fitting : f <= y
  <2> HIDE DEF fitting
  <2> QED
    BY <1>2 DEF Min
<1>4. f \in 1 .. 6 /\ ShapeFits(line, Shapes[f], wraps)
  BY <1>1, <1>3
<1>5. PatternOf(line, wraps) = Shapes[f]
  BY DEF PatternOf
<1>6. /\ ShapeSize(Shapes[1]) = 16 /\ ShapeSize(Shapes[2]) = 20 /\ ShapeSize(Shapes[3]) = 23
      /\ ShapeSize(Shapes[4]) = 34 /\ ShapeSize(Shapes[5]) = 35 /\ ShapeSize(Shapes[6]) = 37
  BY DEF Shapes, ShapeSize, Count, CACHE_LINE_SIZE
<1>7. \A i \in 1 .. 6, j \in 1 .. 6 : i <= j => ShapeSize(Shapes[i]) <= ShapeSize(Shapes[j])
  BY <1>6
<1>8. ASSUME NEW i \in DOMAIN Shapes, ShapeFits(line, Shapes[i], wraps)
      PROVE  ShapeSize(Shapes[f]) <= ShapeSize(Shapes[i])
  <2>1. i \in fitting /\ i \in 1 .. 6
    BY <1>1, <1>8
  <2>2. f <= i
    BY <1>3, <2>1
  <2> HIDE DEF f
  <2> QED
    BY <1>4, <1>7, <2>1, <2>2
<1>9. Shapes[f] \in Kinds
  BY <1>1, <1>4 DEF Kinds
<1> QED
  BY <1>4, <1>5, <1>8, <1>9

(* The pattern of a shape names that shape.                                *)
LEMMA ShapeNamed ==
  ASSUME NEW s \in Kinds, NEW buffer, NEW m
  PROVE  DecompressRaw(buffer, m, s.pattern)
           = IF m < ShapeSize(s) THEN Refused ELSE ShapeLine(buffer, s)
<1>1. PICK j \in DOMAIN Shapes : s = Shapes[j]
  BY DEF Kinds
<1>2. \A i \in DOMAIN Shapes : Shapes[i].pattern = s.pattern <=> i = j
  BY <1>1 DEF Shapes
<1>3. (CHOOSE i \in DOMAIN Shapes : Shapes[i].pattern = s.pattern) = j
  BY <1>2
<1>4. s.pattern \notin {"ZEROS", "REP_WORD", "UNCOMPRESSED"}
  BY KindIs
<1> QED
  BY <1>1, <1>3, <1>4 DEF DecompressRaw

(* Eight times the same word.                                              *)
LEMMA RepeatedType ==
  ASSUME NEW m \in Nat, NEW buffer \in [1 .. m -> Byte], m >= 9
  PROVE  LET b == [k \in 1 .. 8 |-> buffer[1 + k]] IN
         /\ b \in Word(8)
         /\ DecompressRaw(buffer, m, "REP_WORD") = Join([i \in 1 .. 8 |-> b], 8)
         /\ DecompressRaw(buffer, m, "REP_WORD") \in Line
<1> DEFINE b == [k \in 1 .. 8 |-> buffer[1 + k]]
           f == [i \in 1 .. 8 |-> b]
<1>1. b \in Word(8)
  <2>1. \A k \in 1 .. 8 : 1 + k \in 1 .. m
    OBVIOUS
  <2> QED
    BY <2>1 DEF Word
<1>2. SubSeq(buffer, 2, 9) = b
  <2>1. SubSeq(buffer, 2, 9) = [k \in 1 .. 9 - 2 + 1 |-> buffer[2 + k - 1]]
    BY SubSeqIs
  <2> QED
    BY <2>1
<1> HIDE DEF b
<1>3. f \in [1 .. 8 -> [1 .. 8 -> Byte]]
  BY <1>1 DEF Word
<1>4. Eager(f) = f
  <2> HIDE DEF f
  <2> QED
    BY <1>3, EagerIs
<1>5. ~(m < 9)
  OBVIOUS
<1>6. DecompressRaw(buffer, m, "REP_WORD") = Join(f, 8)
  BY <1>2, <1>4, <1>5 DEF DecompressRaw
<1>7. Join(f, 8) \in [1 .. 64 -> Byte]
  <2> DEFINE n == 8
             w == 8
  <2>1. n \in 0 .. 64 /\ w \in Widths /\ f \in [1 .. n -> [1 .. w -> Byte]] /\ n * w = 64
    BY <1>3 DEF Widths
  <2> HIDE DEF n, w, f
  <2>2. Join(f, w) \in [1 .. n * w -> Byte]
    BY <2>1, JoinIs
  <2> QED
    BY <2>1, <2>2 DEF n, w
<1> QED
  BY <1>1, <1>6, <1>7 DEF b, Line, CACHE_LINE_SIZE

(* The first 64 bytes of a buffer are a line.                              *)
LEMMA FirstBytes ==
  ASSUME NEW m \in Nat, NEW buffer \in [1 .. m -> Byte], m >= 64
  PROVE  /\ SubSeq(buffer, 1, CACHE_LINE_SIZE) = [k \in 1 .. 64 |-> buffer[k]]
         /\ SubSeq(buffer, 1, CACHE_LINE_SIZE) \in Line
<1>1. SubSeq(buffer, 1, 64) = [k \in 1 .. 64 - 1 + 1 |-> buffer[1 + k - 1]]
  BY SubSeqIs
<1>2. SubSeq(buffer, 1, 64) = [k \in 1 .. 64 |-> buffer[k]]
  BY <1>1
<1>3. \A k \in 1 .. 64 : buffer[k] \in Byte
  OBVIOUS
<1> QED
  BY <1>2, <1>3 DEF Line, CACHE_LINE_SIZE

(* The zero line is a line.                                                *)
LEMMA ZeroIsLine == ZeroLine \in Line
BY ByteRange DEF ZeroLine, Line

(* DecompressRaw returns a line or refuses, whatever the buffer holds.     *)
LEMMA DecompressType ==
  ASSUME NEW m \in Nat, NEW buffer \in [1 .. m -> Byte], NEW p \in BDIPattern,
         p = "UNCOMPRESSED" => m >= 64
  PROVE  DecompressRaw(buffer, m, p) \in Line \cup {Refused}
<1>1. CASE p = "ZEROS"
  BY <1>1, ZeroIsLine DEF DecompressRaw
<1>2. CASE p = "REP_WORD"
  <2>1. CASE m >= 9
    BY <1>2, <2>1, RepeatedType
  <2>2. CASE m < 9
    BY <1>2, <2>2 DEF DecompressRaw
  <2> QED
    BY <2>1, <2>2
<1>3. CASE p = "UNCOMPRESSED"
  BY <1>3, FirstBytes DEF DecompressRaw
<1>4. CASE p \notin {"ZEROS", "REP_WORD", "UNCOMPRESSED"}
  <2>1. PICK s \in Kinds : p = s.pattern
    BY <1>4 DEF BDIPattern, Kinds
  <2>2. CASE m < ShapeSize(s)
    BY <2>1, <2>2, ShapeNamed
  <2>3. CASE m >= ShapeSize(s)
    <3>1. ~(m < ShapeSize(s))
      <4> DEFINE z == ShapeSize(s)
      <4>1. z \in 1 .. 64
        BY KindIs
      <4>2. m >= z
        BY <2>3
      <4> HIDE DEF z
      <4>3. ~(m < z)
        BY <4>1, <4>2
      <4> QED
        BY <4>3 DEF z
    <3>2. DecompressRaw(buffer, m, p) = ShapeLine(buffer, s)
      BY <2>1, <3>1, ShapeNamed
    <3> QED
      BY <2>3, <3>2, ShapeLineType
  <2> QED
    <3> DEFINE z == ShapeSize(s)
    <3>1. z \in 1 .. 64
      BY KindIs
    <3>2. (m < z => DecompressRaw(buffer, m, p) \in Line \cup {Refused})
          /\ (m >= z => DecompressRaw(buffer, m, p) \in Line \cup {Refused})
      BY <2>2, <2>3
    <3> HIDE DEF z
    <3> QED
      BY <3>1, <3>2
<1> QED
  BY <1>1, <1>2, <1>3, <1>4

(* What Compress returns, whichever build: a pattern and from one to       *)
(* sixty-four bytes, and a buffer that begins with them reads as the line. *)
Faithful(c, line) ==
  /\ c.pattern \in BDIPattern
  /\ c.compressed_size = Len(c.data) /\ c.data \in Seq(Byte) /\ Len(c.data) \in 1 .. 64
  /\ c.pattern = "ZEROS" => line = ZeroLine
  /\ c.pattern = "UNCOMPRESSED" => Len(c.data) = 64
  /\ \A m, buffer : BeginsWith(buffer, m, c.data) => DecompressRaw(buffer, m, c.pattern) = line

(* A zero line is stored as nothing.                                       *)
LEMMA ZerosFaithful ==
  ASSUME NEW line \in Line, line = ZeroLine
  PROVE  Faithful(CompressedLine("ZEROS", <<0>>), line)
<1>1. <<0>> \in Seq(Byte) /\ Len(<<0>>) = 1
  BY ByteRange
<1>2. \A m, buffer : DecompressRaw(buffer, m, "ZEROS") = line
  BY DEF DecompressRaw
<1> QED
  BY <1>1, <1>2 DEF Faithful, CompressedLine, BDIPattern

(* A line that fits no pattern is stored as it is.                         *)
LEMMA RawFaithful ==
  ASSUME NEW line \in Line
  PROVE  Faithful(CompressedLine("UNCOMPRESSED", line), line)
<1>1. line \in Seq(Byte) /\ Len(line) = 64 /\ line \in [1 .. 64 -> Byte]
  BY LineIs
<1>2. ASSUME NEW m, NEW buffer, BeginsWith(buffer, m, line)
      PROVE  DecompressRaw(buffer, m, "UNCOMPRESSED") = line
  <2>1. /\ m \in Nat /\ m >= 64 /\ buffer \in [1 .. m -> Byte]
        /\ \A k \in 1 .. 64 : buffer[k] = line[k]
    BY <1>1, <1>2 DEF BeginsWith
  <2>2. DecompressRaw(buffer, m, "UNCOMPRESSED") = [k \in 1 .. 64 |-> buffer[k]]
    BY <2>1, FirstBytes DEF DecompressRaw
  <2> QED
    BY <1>1, <2>1, <2>2
<1> QED
  BY <1>1, <1>2 DEF Faithful, CompressedLine, BDIPattern

(* A line of one repeated word is stored as that word.                     *)
LEMMA RepeatedFaithful ==
  ASSUME NEW line \in Line, \A i \in 2 .. 8 : Words(line, 8)[i] = Words(line, 8)[1]
  PROVE  Faithful(CompressedLine("REP_WORD", <<1>> \o Words(line, 8)[1]), line)
<1> DEFINE v == Words(line, 8)
           w == v[1]
           data == <<1>> \o w
<1>0. 8 \in WordSizes /\ CACHE_LINE_SIZE \div 8 = 8
  BY DEF WordSizes, CACHE_LINE_SIZE
<1>1. v \in [1 .. 8 -> Word(8)]
  BY <1>0, WordsIs
<1>2. \A i \in 1 .. 8 : v[i] = w
  OBVIOUS
<1> HIDE DEF v
<1>3. w \in Word(8)
  BY <1>1
<1> HIDE DEF w
<1>4. w \in [1 .. 8 -> Byte] /\ 1 \in Byte
  BY <1>3, ByteRange DEF Word
<1>7. /\ data \in [1 .. 9 -> Byte] /\ data \in Seq(Byte) /\ Len(data) = 9
      /\ \A k \in 1 .. 8 : data[1 + k] = w[k]
  BY <1>3, <1>4, Prepended
<1> HIDE DEF data
<1>8. data \in Seq(Byte) /\ Len(data) = 9
  BY <1>7
<1>9. ASSUME NEW m, NEW buffer, BeginsWith(buffer, m, data)
      PROVE  DecompressRaw(buffer, m, "REP_WORD") = line
  <2>1. /\ m \in Nat /\ m >= 9 /\ buffer \in [1 .. m -> Byte]
        /\ \A k \in 1 .. 9 : buffer[k] = data[k]
    BY <1>8, <1>9 DEF BeginsWith
  <2> DEFINE b == [k \in 1 .. 8 |-> buffer[1 + k]]
  <2>2. \A k \in 1 .. 8 : buffer[1 + k] = w[k]
    BY <1>7, <2>1
  <2>3. b = w
    BY <1>4, <2>2
  <2>4. DecompressRaw(buffer, m, "REP_WORD") = Join([i \in 1 .. 8 |-> b], 8)
    BY <2>1, RepeatedType
  <2> HIDE DEF b
  <2>5. [i \in 1 .. 8 |-> w] = v
    BY <1>1, <1>2
  <2>6. Join(v, 8) = line
    BY <1>0, JoinWords DEF v
  <2> QED
    BY <2>3, <2>4, <2>5, <2>6
<1>10. Faithful(CompressedLine("REP_WORD", data), line)
  BY <1>8, <1>9 DEF Faithful, CompressedLine, BDIPattern
<1> QED
  BY <1>10 DEF data, w, v

(* A line that fits a shape is stored as base and deltas.                  *)
LEMMA ShapeFaithful ==
  ASSUME NEW line \in Line, NEW wraps, NEW s \in Kinds, ShapeFits(line, s, wraps)
  PROVE  Faithful(CompressedLine(s.pattern, ShapeData(line, s)), line)
<1> DEFINE data == ShapeData(line, s)
           z == ShapeSize(s)
<1>1. data \in [1 .. z -> Byte] /\ Len(data) = z
  BY ShapeDataIs
<1>2. z \in 1 .. 64 /\ s.pattern \in BDIPattern \ {"ZEROS", "REP_WORD", "UNCOMPRESSED"}
  BY KindIs
<1>3. ASSUME NEW m, NEW buffer, BeginsWith(buffer, m, data)
      PROVE  DecompressRaw(buffer, m, s.pattern) = line
  <2>1. m \in Nat /\ z <= m
    BY <1>1, <1>3 DEF BeginsWith
  <2>2. ShapeLine(buffer, s) = line
    BY <1>3, ShapeRoundTrip
  <2>3. ~(m < z)
    <3> HIDE DEF z
    <3> QED
      BY <1>2, <2>1
  <2> QED
    BY <2>2, <2>3, ShapeNamed
<1> HIDE DEF data, z
<1>4. data \in Seq(Byte)
  BY <1>1, <1>2
<1>5. Faithful(CompressedLine(s.pattern, data), line)
  BY <1>1, <1>2, <1>3, <1>4 DEF Faithful, CompressedLine
<1> QED
  BY <1>5 DEF data

(* Compress is undone by DecompressRaw from any buffer that begins with    *)
(* the bytes it wrote (the last chunk of a run is padded with what was     *)
(* there), and no fitting pattern takes fewer bytes.                       *)
THEOREM CompressIs ==
  ASSUME NEW line \in Line, NEW wraps
  PROVE  /\ Faithful(Compress(line, wraps), line)
         /\ \A i \in DOMAIN Shapes : ShapeFits(line, Shapes[i], wraps) =>
              Compress(line, wraps).compressed_size <= ShapeSize(Shapes[i])
<1> DEFINE fitting == {i \in DOMAIN Shapes : ShapeFits(line, Shapes[i], wraps)}
           first == PatternOf(line, wraps)
           repeated == \A i \in 2 .. 8 : Words(line, 8)[i] = Words(line, 8)[1]
           c == Compress(line, wraps)
<1>1. c = IF line = ZeroLine THEN CompressedLine("ZEROS", <<0>>)
          ELSE IF repeated THEN CompressedLine("REP_WORD", <<1>> \o Words(line, 8)[1])
          ELSE IF fitting = {} THEN CompressedLine("UNCOMPRESSED", line)
          ELSE CompressedLine(first.pattern, ShapeData(line, first))
  BY DEF Compress, PatternOf
<1>2. \A i \in DOMAIN Shapes : Shapes[i] \in Kinds /\ 1 <= ShapeSize(Shapes[i]) /\ 9 <= ShapeSize(Shapes[i])
  <2>1. DOMAIN Shapes = 1 .. 6
    BY DEF Shapes
  <2>2. /\ ShapeSize(Shapes[1]) = 16 /\ ShapeSize(Shapes[2]) = 20 /\ ShapeSize(Shapes[3]) = 23
        /\ ShapeSize(Shapes[4]) = 34 /\ ShapeSize(Shapes[5]) = 35 /\ ShapeSize(Shapes[6]) = 37
    BY DEF Shapes, ShapeSize, Count, CACHE_LINE_SIZE
  <2> QED
    BY <2>1, <2>2 DEF Kinds
<1> HIDE DEF repeated, c
<1>3. CASE line = ZeroLine
  <2>1. c = CompressedLine("ZEROS", <<0>>)
    BY <1>1, <1>3
  <2>2. c.compressed_size = 1
    BY <2>1 DEF CompressedLine
  <2> QED
    <3>1. Faithful(c, line)
      BY <1>3, <2>1, ZerosFaithful
    <3>2. \A i \in DOMAIN Shapes : c.compressed_size <= ShapeSize(Shapes[i])
      BY <1>2, <2>2
    <3> QED
      BY <3>1, <3>2 DEF c
<1>4. CASE line # ZeroLine /\ repeated
  <2>1. c = CompressedLine("REP_WORD", <<1>> \o Words(line, 8)[1])
    BY <1>1, <1>4
  <2>2. c.compressed_size = 9
    <3> DEFINE w == Words(line, 8)[1]
    <3>1. w \in Word(8)
      <4>1. 8 \in WordSizes /\ CACHE_LINE_SIZE \div 8 = 8
        BY DEF WordSizes, CACHE_LINE_SIZE
      <4>2. Words(line, 8) \in [1 .. 8 -> Word(8)]
        BY <4>1, WordsIs
      <4> QED
        BY <4>2
    <3>2. 1 \in Byte
      BY ByteRange
    <3> HIDE DEF w
    <3>3. Len(<<1>> \o w) = 9
      BY <3>1, <3>2, Prepended
    <3> QED
      BY <2>1, <3>3 DEF w, CompressedLine
  <2>3. Faithful(c, line)
    BY <1>4, <2>1, RepeatedFaithful DEF repeated
  <2> QED
    <3>1. \A i \in DOMAIN Shapes : c.compressed_size <= ShapeSize(Shapes[i])
      BY <1>2, <2>2
    <3> QED
      BY <2>3, <3>1 DEF c
<1>5. CASE line # ZeroLine /\ ~repeated /\ fitting = {}
  <2>1. c = CompressedLine("UNCOMPRESSED", line)
    BY <1>1, <1>5
  <2>2. Faithful(c, line)
    BY <2>1, RawFaithful
  <2> QED
    BY <1>5, <2>2 DEF c
<1>6. CASE line # ZeroLine /\ ~repeated /\ fitting # {}
  <2>1. c = CompressedLine(first.pattern, ShapeData(line, first))
    BY <1>1, <1>6
  <2>2. /\ first \in Kinds /\ ShapeFits(line, first, wraps)
        /\ \A i \in DOMAIN Shapes : ShapeFits(line, Shapes[i], wraps) =>
             ShapeSize(first) <= ShapeSize(Shapes[i])
    BY <1>6, FirstFitting
  <2> HIDE DEF first
  <2>3. Faithful(c, line)
    BY <2>1, <2>2, ShapeFaithful
  <2>4. c.compressed_size = ShapeSize(first)
    <3>1. Len(ShapeData(line, first)) = ShapeSize(first)
      BY <2>2, ShapeDataIs
    <3> QED
      BY <2>1, <3>1 DEF CompressedLine
  <2> QED
    BY <2>2, <2>3, <2>4 DEF c
<1> QED
  BY <1>3, <1>4, <1>5, <1>6

-----------------------------------------------------------------------------
(* The line table.                                                         *)

(* A run is a finite set of n chunk numbers.                               *)
LEMMA RunIs ==
  ASSUME NEW o \in Nat, NEW n \in Nat
  PROVE  /\ IsFiniteSet(Run(o, n)) /\ Cardinality(Run(o, n)) = n
         /\ \A k \in Int : k \in Run(o, n) <=> o <= k /\ k < o + n
         /\ Run(o, n) \subseteq Nat
<1>1. o + n - 1 \in Int /\ o \in Int
  OBVIOUS
<1>2. Run(o, n) = o .. o + n - 1
  BY DEF Run
<1> DEFINE p == o + n - 1
<1>3. IsFiniteSet(o .. p) /\ Cardinality(o .. p) = IF o > p THEN 0 ELSE p - o + 1
  <2>1. p \in Int
    BY <1>1
  <2> HIDE DEF p
  <2> QED
    BY <1>1, <2>1, FS_Interval
<1> QED
  BY <1>2, <1>3

(* A line holds chunks that were handed out.                               *)
LEMMA HeldIs ==
  ASSUME NEW t, TableOK(t), NEW l \in LineIndex
  PROVE  /\ Held(t, l) \subseteq 0 .. t.next_unpartitioned_chunk - 1
         /\ t.next_unpartitioned_chunk \in Nat
<1>1. /\ t.entries[l].phys_chunk_offset \in Nat /\ t.entries[l].allocated_chunks \in Nat
      /\ t.entries[l].phys_chunk_offset + t.entries[l].allocated_chunks <= t.next_unpartitioned_chunk
  BY DEF TableOK, EntryOK, EntryType
<1>2. t.next_unpartitioned_chunk \in Nat
  BY DEF TableOK, TableType
<1> QED
  BY <1>1, <1>2 DEF Held, Run

(* The chunks held are finitely many.                                      *)
LEMMA HeldFinite ==
  ASSUME NEW t, TableOK(t), NEW X
  PROVE  IsFiniteSet(HeldBy(t, X)) /\ Cardinality(HeldBy(t, X)) \in Nat
<1> DEFINE next == t.next_unpartitioned_chunk
           p == next - 1
<1>1. \A l \in LineIndex : Held(t, l) \subseteq 0 .. p
  BY HeldIs
<1>2. HeldBy(t, X) \subseteq 0 .. p
  BY <1>1 DEF HeldBy, Holders
<1>3. p \in Int
  BY DEF TableOK, TableType
<1> HIDE DEF p
<1>4. IsFiniteSet(0 .. p)
  BY <1>3, FS_Interval
<1> QED
  BY <1>2, <1>4, FS_Subset, FS_CardinalityType

(* A store takes the run of the line it stores in its hands.               *)
LEMMA TakeOut ==
  ASSUME NEW t, NEW X, NEW l \in LineIndex \ X, Ownership(t, X, {})
  PROVE  Ownership(t, X \cup {l}, Held(t, l))
<1>0. \A m : m \in Holders(t, X \cup {l}) <=> m \in Holders(t, X) /\ m # l
  BY DEF Holders
<1>1. CASE t.entries[l].valid
  <2>1. l \in Holders(t, X)
    BY <1>1 DEF Holders
  <2>2. Owned(t, X \cup {l}, Held(t, l))
    BY <1>0, <2>1 DEF Ownership, Owned
  <2>3. AllOwned(t, X \cup {l}, Held(t, l))
    BY <1>0, <2>1 DEF Ownership, AllOwned
  <2>4. HeldBy(t, X \cup {l}) \cup Held(t, l) = HeldBy(t, X) \cup {}
    BY <1>0, <2>1 DEF HeldBy
  <2> QED
    BY <2>2, <2>3, <2>4 DEF Ownership, Counted
<1>2. CASE ~t.entries[l].valid
  <2>1. Held(t, l) = {} /\ l \notin Holders(t, X)
    BY <1>2 DEF Held, Holders
  <2>2. \A m : m \in Holders(t, X \cup {l}) <=> m \in Holders(t, X)
    BY <1>0, <2>1
  <2>3. Holders(t, X \cup {l}) = Holders(t, X)
    BY <2>2
  <2> QED
    BY <2>1, <2>3 DEF Ownership, Owned, AllOwned, Counted, HeldBy
<1> QED
  BY <1>1, <1>2

(* ... and puts it on a free list,                                         *)
LEMMA PutFree ==
  ASSUME NEW t, TableOK(t), NEW u, NEW X, NEW o \in Nat, NEW n \in 1 .. 4,
         Ownership(t, X, Run(o, n)),
         u.entries = t.entries,
         u.next_unpartitioned_chunk = t.next_unpartitioned_chunk,
         u.free_chunks = [t.free_chunks EXCEPT ![n] = Append(@, o)],
         u.allocated_chunks_count = t.allocated_chunks_count - n
  PROVE  Ownership(u, X, {})
<1>1. Holders(u, X) = Holders(t, X) /\ \A l : Held(u, l) = Held(t, l)
  BY DEF Holders, Held
<1>2. /\ t.free_chunks \in [1 .. 4 -> Seq(Nat)]
  BY DEF TableOK, TableType
<1>3. /\ \A m \in 1 .. 4 : m # n => u.free_chunks[m] = t.free_chunks[m]
      /\ u.free_chunks[n] = Append(t.free_chunks[n], o)
  BY <1>2
<1>4. /\ t.free_chunks[n] \in Seq(Nat) /\ Len(t.free_chunks[n]) \in Nat
      /\ Len(u.free_chunks[n]) = Len(t.free_chunks[n]) + 1
      /\ \A i \in 1 .. Len(t.free_chunks[n]) : u.free_chunks[n][i] = t.free_chunks[n][i]
      /\ u.free_chunks[n][Len(t.free_chunks[n]) + 1] = o
  <2>1. t.free_chunks[n] \in Seq(Nat)
    BY <1>2
  <2> QED
    BY <1>3, <2>1
<1> DEFINE L == Len(t.free_chunks[n])
<1>5. /\ \A m \in 1 .. 4 : \A i \in 1 .. Len(u.free_chunks[m]) :
           \/ /\ i \in 1 .. Len(t.free_chunks[m]) /\ FreeAt(u, m, i) = FreeAt(t, m, i)
           \/ m = n /\ i = L + 1 /\ FreeAt(u, m, i) = Run(o, n)
      /\ \A m \in 1 .. 4 : \A i \in 1 .. Len(t.free_chunks[m]) :
           i \in 1 .. Len(u.free_chunks[m]) /\ FreeAt(u, m, i) = FreeAt(t, m, i)
      /\ L + 1 \in 1 .. Len(u.free_chunks[n]) /\ FreeAt(u, n, L + 1) = Run(o, n)
  <2>1. ASSUME NEW m \in 1 .. 4, m # n, NEW i \in 1 .. Len(u.free_chunks[m])
        PROVE  i \in 1 .. Len(t.free_chunks[m]) /\ FreeAt(u, m, i) = FreeAt(t, m, i)
    BY <1>3, <2>1 DEF FreeAt
  <2>2. ASSUME NEW i \in 1 .. Len(u.free_chunks[n])
        PROVE  \/ i \in 1 .. L /\ FreeAt(u, n, i) = FreeAt(t, n, i)
               \/ i = L + 1 /\ FreeAt(u, n, i) = Run(o, n)
    BY <1>4 DEF FreeAt
  <2>3. ASSUME NEW m \in 1 .. 4, m # n, NEW i \in 1 .. Len(t.free_chunks[m])
        PROVE  i \in 1 .. Len(u.free_chunks[m]) /\ FreeAt(u, m, i) = FreeAt(t, m, i)
    BY <1>3, <2>3 DEF FreeAt
  <2>4. ASSUME NEW i \in 1 .. Len(t.free_chunks[n])
        PROVE  i \in 1 .. Len(u.free_chunks[n]) /\ FreeAt(u, n, i) = FreeAt(t, n, i)
    BY <1>4 DEF FreeAt
  <2>5. L + 1 \in 1 .. Len(u.free_chunks[n]) /\ FreeAt(u, n, L + 1) = Run(o, n)
    BY <1>4 DEF FreeAt
  <2> QED
    BY <2>1, <2>2, <2>3, <2>4, <2>5
<1> HIDE DEF L
<1>6. Owned(u, X, {})
  <2>1. /\ \A l \in Holders(u, X), m \in Holders(u, X) : l # m => Held(u, l) \cap Held(u, m) = {}
        /\ \A l \in Holders(u, X) : Held(u, l) \cap {} = {}
    BY <1>1 DEF Ownership, Owned
  <2>2. ASSUME NEW m \in 1 .. 4, NEW k \in 1 .. 4,
               NEW i \in 1 .. Len(u.free_chunks[m]), NEW j \in 1 .. Len(u.free_chunks[k]),
               m # k \/ i # j
        PROVE  FreeAt(u, m, i) \cap FreeAt(u, k, j) = {}
    <3>1. /\ \A x \in 1 .. 4 : \A y \in 1 .. Len(t.free_chunks[x]) :
               Run(o, n) \cap FreeAt(t, x, y) = {}
          /\ \A x \in 1 .. 4, z \in 1 .. 4 :
               \A y \in 1 .. Len(t.free_chunks[x]), w \in 1 .. Len(t.free_chunks[z]) :
                 x # z \/ y # w => FreeAt(t, x, y) \cap FreeAt(t, z, w) = {}
      BY DEF Ownership, Owned
    <3>2. CASE i \in 1 .. Len(t.free_chunks[m]) /\ FreeAt(u, m, i) = FreeAt(t, m, i)
      <4>1. CASE j \in 1 .. Len(t.free_chunks[k]) /\ FreeAt(u, k, j) = FreeAt(t, k, j)
        BY <2>2, <3>1, <3>2, <4>1
      <4>2. CASE k = n /\ j = L + 1 /\ FreeAt(u, k, j) = Run(o, n)
        BY <3>1, <3>2, <4>2
      <4> QED
        BY <1>5, <4>1, <4>2
    <3>3. CASE m = n /\ i = L + 1 /\ FreeAt(u, m, i) = Run(o, n)
      <4>1. CASE j \in 1 .. Len(t.free_chunks[k]) /\ FreeAt(u, k, j) = FreeAt(t, k, j)
        BY <3>1, <3>3, <4>1
      <4>2. CASE k = n /\ j = L + 1 /\ FreeAt(u, k, j) = Run(o, n)
        BY <2>2, <3>3, <4>2
      <4> QED
        BY <1>5, <4>1, <4>2
    <3> QED
      BY <1>5, <3>2, <3>3
  <2>3. ASSUME NEW l \in Holders(u, X), NEW m \in 1 .. 4, NEW i \in 1 .. Len(u.free_chunks[m])
        PROVE  Held(u, l) \cap FreeAt(u, m, i) = {}
    BY <1>1, <1>5 DEF Ownership, Owned
  <2> QED
    BY <2>1, <2>2, <2>3 DEF Owned
<1>7. AllOwned(u, X, {})
  <2> SUFFICES ASSUME NEW k \in 0 .. u.next_unpartitioned_chunk - 1
               PROVE  \/ \E l \in Holders(u, X) : k \in Held(u, l)
                      \/ \E m \in 1 .. 4 : \E i \in 1 .. Len(u.free_chunks[m]) : k \in FreeAt(u, m, i)
    BY DEF AllOwned
  <2>1. \/ k \in Run(o, n)
        \/ \E l \in Holders(t, X) : k \in Held(t, l)
        \/ \E m \in 1 .. 4 : \E i \in 1 .. Len(t.free_chunks[m]) : k \in FreeAt(t, m, i)
    BY DEF Ownership, AllOwned
  <2>2. CASE k \in Run(o, n)
    BY <1>5, <2>2
  <2>3. CASE \E l \in Holders(t, X) : k \in Held(t, l)
    BY <1>1, <2>3
  <2>4. CASE \E m \in 1 .. 4 : \E i \in 1 .. Len(t.free_chunks[m]) : k \in FreeAt(t, m, i)
    <3>0. PICK m \in 1 .. 4 : \E i \in 1 .. Len(t.free_chunks[m]) : k \in FreeAt(t, m, i)
      BY <2>4
    <3>1. PICK i \in 1 .. Len(t.free_chunks[m]) : k \in FreeAt(t, m, i)
      BY <3>0
    <3>2. i \in 1 .. Len(u.free_chunks[m]) /\ k \in FreeAt(u, m, i)
      BY <1>5, <3>1
    <3> QED
      BY <3>2
  <2> QED
    BY <2>1, <2>2, <2>3, <2>4
<1>8. Counted(u, X, {})
  <2> DEFINE H == HeldBy(t, X)
             R == Run(o, n)
  <2>1. HeldBy(u, X) = H
    BY <1>1 DEF HeldBy
  <2>2. IsFiniteSet(H) /\ Cardinality(H) \in Nat
    BY HeldFinite
  <2>3. IsFiniteSet(R) /\ Cardinality(R) = n
    BY RunIs
  <2>4. H \cap R = {}
    BY DEF Ownership, Owned, HeldBy
  <2> HIDE DEF H, R
  <2>5. Cardinality(H \cup R) = Cardinality(H) + Cardinality(R) - Cardinality(H \cap R)
    BY <2>2, <2>3, FS_Union
  <2>6. Cardinality(H \cup R) = Cardinality(H) + n
    <3>1. Cardinality(H \cap R) = 0
      BY <2>4, FS_EmptySet
    <3> HIDE DEF H, R
    <3> QED
      BY <2>2, <2>3, <2>5, <3>1
  <2>7. t.allocated_chunks_count = Cardinality(H \cup R)
    BY DEF Ownership, Counted, H, R
  <2>8. u.allocated_chunks_count = Cardinality(H)
    BY <2>2, <2>6, <2>7
  <2>9. H \cup {} = H
    OBVIOUS
  <2> QED
    BY <2>1, <2>8, <2>9 DEF Counted
<1> QED
  BY <1>6, <1>7, <1>8 DEF Ownership

(* A free list without its last run.                                       *)
(* Without the last of the runs of length n, the lists u has are those of t. *)
Popped(u, t, n) ==
  /\ \A m \in 1 .. 4 : \A i \in 1 .. Len(u.free_chunks[m]) :
       i \in 1 .. Len(t.free_chunks[m]) /\ FreeAt(u, m, i) = FreeAt(t, m, i)
         /\ (m # n \/ i # Len(t.free_chunks[n]))
  /\ \A m \in 1 .. 4 : \A i \in 1 .. Len(t.free_chunks[m]) :
       \/ i \in 1 .. Len(u.free_chunks[m]) /\ FreeAt(u, m, i) = FreeAt(t, m, i)
       \/ m = n /\ i = Len(t.free_chunks[n])
  /\ Len(t.free_chunks[n]) \in 1 .. Len(t.free_chunks[n])
  /\ FreeAt(t, n, Len(t.free_chunks[n])) = Run(Last(t.free_chunks[n]), n)

(* The free lists after one run was taken off.                             *)
LEMMA PopFreeLists ==
  ASSUME NEW t, TableOK(t), NEW u, NEW n \in 1 .. 4, t.free_chunks[n] # <<>>,
         u.free_chunks = [t.free_chunks EXCEPT ![n] = Front(t.free_chunks[n])]
  PROVE  /\ FreeListsOK(u.free_chunks, t.next_unpartitioned_chunk)
         /\ Last(t.free_chunks[n]) \in Nat
         /\ Last(t.free_chunks[n]) + n <= t.next_unpartitioned_chunk
         /\ Popped(u, t, n)
<1> DEFINE s == t.free_chunks[n]
           L == Len(s)
           o == Last(s)
<1>2. t.free_chunks \in [1 .. 4 -> Seq(Nat)]
  BY DEF TableOK, TableType
<1>3. /\ \A m \in 1 .. 4 : m # n => u.free_chunks[m] = t.free_chunks[m]
      /\ u.free_chunks[n] = Front(s)
  BY <1>2
<1>4. s \in Seq(Nat) /\ s # <<>>
  BY <1>2
<1>5. /\ Front(s) \in Seq(Nat) /\ Len(Front(s)) = L - 1 /\ L \in Nat \ {0}
      /\ \A i \in 1 .. L - 1 : Front(s)[i] = s[i]
      /\ o = s[L] /\ o \in Nat
  <2> HIDE DEF s
  <2>1. L \in Nat \ {0} /\ o = s[L] /\ o \in Nat
    BY <1>4 DEF Last
  <2>2. Front(s) = [i \in 1 .. L - 1 |-> s[i]]
    BY <1>4, <2>1 DEF Front
  <2>3. \A i \in 1 .. L - 1 : s[i] \in Nat
    BY <1>4, <2>1
  <2> DEFINE p == L - 1
  <2>4. p \in Nat /\ Front(s) \in [1 .. p -> Nat]
    BY <2>1, <2>2, <2>3
  <2> HIDE DEF p
  <2>5. Front(s) \in Seq(Nat) /\ Len(Front(s)) = p
    BY <2>4
  <2> QED
    BY <2>1, <2>2, <2>5 DEF p
<1>12. /\ Len(u.free_chunks[n]) = L - 1 /\ L \in Nat \ {0}
       /\ \A i \in 1 .. L - 1 : u.free_chunks[n][i] = t.free_chunks[n][i]
  <2> DEFINE f == u.free_chunks[n]
  <2>1. f = Front(s)
    BY <1>3
  <2> HIDE DEF f, L
  <2>2. Len(f) = L - 1 /\ L \in Nat \ {0} /\ \A i \in 1 .. L - 1 : f[i] = s[i]
    BY <1>5, <2>1
  <2> QED
    BY <2>2 DEF f
<1>6. /\ \A m \in 1 .. 4 : \A i \in 1 .. Len(u.free_chunks[m]) :
           i \in 1 .. Len(t.free_chunks[m]) /\ FreeAt(u, m, i) = FreeAt(t, m, i) /\ (m # n \/ i # L)
      /\ \A m \in 1 .. 4 : \A i \in 1 .. Len(t.free_chunks[m]) :
           \/ i \in 1 .. Len(u.free_chunks[m]) /\ FreeAt(u, m, i) = FreeAt(t, m, i)
           \/ m = n /\ i = L
      /\ L \in 1 .. Len(t.free_chunks[n]) /\ FreeAt(t, n, L) = Run(o, n)
  <2> HIDE DEF o
  <2>1. ASSUME NEW m \in 1 .. 4, m # n, NEW i \in 1 .. Len(u.free_chunks[m])
        PROVE  i \in 1 .. Len(t.free_chunks[m]) /\ FreeAt(u, m, i) = FreeAt(t, m, i)
    BY <1>3, <2>1 DEF FreeAt
  <2>2. ASSUME NEW i \in 1 .. Len(u.free_chunks[n])
        PROVE  i \in 1 .. L /\ FreeAt(u, n, i) = FreeAt(t, n, i) /\ i # L
    <3> HIDE DEF L
    <3> QED
      BY <1>12 DEF FreeAt
  <2>3. ASSUME NEW m \in 1 .. 4, m # n, NEW i \in 1 .. Len(t.free_chunks[m])
        PROVE  i \in 1 .. Len(u.free_chunks[m]) /\ FreeAt(u, m, i) = FreeAt(t, m, i)
    BY <1>3, <2>3 DEF FreeAt
  <2>4. ASSUME NEW i \in 1 .. Len(t.free_chunks[n]), i # L
        PROVE  i \in 1 .. Len(u.free_chunks[n]) /\ FreeAt(u, n, i) = FreeAt(t, n, i)
    <3>1. i \in 1 .. L
      OBVIOUS
    <3> HIDE DEF L
    <3> QED
      BY <1>12, <2>4, <3>1 DEF FreeAt
  <2>5. L \in 1 .. Len(t.free_chunks[n]) /\ FreeAt(t, n, L) = Run(o, n)
    BY <1>5 DEF FreeAt
  <2> QED
    BY <2>1, <2>2, <2>3, <2>4, <2>5
<1>9. /\ FreeListsOK(u.free_chunks, t.next_unpartitioned_chunk)
      /\ o \in Nat /\ o + n <= t.next_unpartitioned_chunk
  <2>1. \A m \in 1 .. 4 : \A i \in 1 .. Len(t.free_chunks[m]) :
          t.free_chunks[m][i] + m <= t.next_unpartitioned_chunk
    BY DEF TableOK, FreeListsOK
  <2>2. u.free_chunks \in [1 .. 4 -> Seq(Nat)]
    BY <1>2, <1>5
  <2>3. ASSUME NEW m \in 1 .. 4, NEW i \in 1 .. Len(u.free_chunks[m])
        PROVE  u.free_chunks[m][i] + m <= t.next_unpartitioned_chunk
    <3>1. CASE m = n
      <4>1. i \in 1 .. L - 1 /\ u.free_chunks[m][i] = t.free_chunks[m][i]
        BY <1>3, <1>5, <3>1
      <4>2. i \in 1 .. Len(t.free_chunks[m])
        BY <1>5, <3>1, <4>1
      <4> QED
        BY <2>1, <4>1, <4>2
    <3>2. CASE m # n
      BY <1>3, <2>1, <3>2
    <3> QED
      BY <3>1, <3>2
  <2>4. o + n <= t.next_unpartitioned_chunk
    BY <1>5, <1>6, <2>1
  <2> QED
    BY <1>5, <2>2, <2>3, <2>4 DEF FreeListsOK
<1> QED
  BY <1>6, <1>9 DEF Popped

(* A store takes a run from a free list,                                   *)
LEMMA PopFree ==
  ASSUME NEW t, TableOK(t), NEW u, NEW X, NEW n \in 1 .. 4, t.free_chunks[n] # <<>>,
         Ownership(t, X, {}),
         u.entries = t.entries,
         u.next_unpartitioned_chunk = t.next_unpartitioned_chunk,
         u.free_chunks = [t.free_chunks EXCEPT ![n] = Front(t.free_chunks[n])],
         u.allocated_chunks_count = t.allocated_chunks_count + n
  PROVE  Ownership(u, X, Run(Last(t.free_chunks[n]), n))
<1> DEFINE s == t.free_chunks[n]
           L == Len(s)
           o == Last(s)
<1>1. Holders(u, X) = Holders(t, X) /\ \A l : Held(u, l) = Held(t, l)
  BY DEF Holders, Held
<1>6. /\ \A m \in 1 .. 4 : \A i \in 1 .. Len(u.free_chunks[m]) :
           i \in 1 .. Len(t.free_chunks[m]) /\ FreeAt(u, m, i) = FreeAt(t, m, i) /\ (m # n \/ i # L)
      /\ \A m \in 1 .. 4 : \A i \in 1 .. Len(t.free_chunks[m]) :
           \/ i \in 1 .. Len(u.free_chunks[m]) /\ FreeAt(u, m, i) = FreeAt(t, m, i)
           \/ m = n /\ i = L
      /\ L \in 1 .. Len(t.free_chunks[n]) /\ FreeAt(t, n, L) = Run(o, n)
  <2>1. Popped(u, t, n)
    BY PopFreeLists
  <2> QED
    BY <2>1 DEF Popped
<1>9. o \in Nat
  BY PopFreeLists
<1>10. /\ \A l \in Holders(t, X) : Held(t, l) \cap Run(o, n) = {}
       /\ \A m \in 1 .. 4 : \A i \in 1 .. Len(u.free_chunks[m]) : Run(o, n) \cap FreeAt(u, m, i) = {}
  <2>1. ASSUME NEW l \in Holders(t, X)
        PROVE  Held(t, l) \cap Run(o, n) = {}
    <3>1. \A m \in 1 .. 4 : \A i \in 1 .. Len(t.free_chunks[m]) :
            Held(t, l) \cap FreeAt(t, m, i) = {}
      BY <2>1, Zenon DEF Ownership, Owned
    <3>2. L \in 1 .. Len(t.free_chunks[n]) /\ FreeAt(t, n, L) = Run(o, n)
      BY <1>6
    <3> HIDE DEF L, o
    <3>3. Held(t, l) \cap FreeAt(t, n, L) = {}
      BY <3>1, <3>2
    <3> QED
      BY <3>2, <3>3
  <2>2. ASSUME NEW m \in 1 .. 4, NEW i \in 1 .. Len(u.free_chunks[m])
        PROVE  Run(o, n) \cap FreeAt(u, m, i) = {}
    <3>1. FreeAt(t, n, L) \cap FreeAt(t, m, i) = {}
      BY <1>6 DEF Ownership, Owned
    <3> QED
      BY <1>6, <3>1
  <2> QED
    BY <2>1, <2>2
<1> HIDE DEF o, L, s
<1>7. Owned(u, X, Run(o, n))
  <2>1. \A l \in Holders(u, X), m \in Holders(u, X) : l # m => Held(u, l) \cap Held(u, m) = {}
    BY <1>1 DEF Ownership, Owned
  <2>2. ASSUME NEW m \in 1 .. 4, NEW k \in 1 .. 4,
               NEW i \in 1 .. Len(u.free_chunks[m]), NEW j \in 1 .. Len(u.free_chunks[k]),
               m # k \/ i # j
        PROVE  FreeAt(u, m, i) \cap FreeAt(u, k, j) = {}
    <3>1. FreeAt(t, m, i) \cap FreeAt(t, k, j) = {}
      BY <1>6, <2>2 DEF Ownership, Owned
    <3> QED
      BY <1>6, <3>1
  <2>3. ASSUME NEW l \in Holders(u, X), NEW m \in 1 .. 4, NEW i \in 1 .. Len(u.free_chunks[m])
        PROVE  Held(u, l) \cap FreeAt(u, m, i) = {}
    BY <1>1, <1>6 DEF Ownership, Owned
  <2> QED
    BY <1>1, <1>10, <2>1, <2>2, <2>3 DEF Owned
<1>8. AllOwned(u, X, Run(o, n))
  <2> SUFFICES ASSUME NEW k \in 0 .. u.next_unpartitioned_chunk - 1
               PROVE  \/ k \in Run(o, n)
                      \/ \E l \in Holders(u, X) : k \in Held(u, l)
                      \/ \E m \in 1 .. 4 : \E i \in 1 .. Len(u.free_chunks[m]) : k \in FreeAt(u, m, i)
    BY DEF AllOwned
  <2>1. \/ \E l \in Holders(t, X) : k \in Held(t, l)
        \/ \E m \in 1 .. 4 : \E i \in 1 .. Len(t.free_chunks[m]) : k \in FreeAt(t, m, i)
    BY DEF Ownership, AllOwned
  <2>2. CASE \E l \in Holders(t, X) : k \in Held(t, l)
    BY <1>1, <2>2
  <2>3. CASE \E m \in 1 .. 4 : \E i \in 1 .. Len(t.free_chunks[m]) : k \in FreeAt(t, m, i)
    <3>0. PICK m \in 1 .. 4 : \E i \in 1 .. Len(t.free_chunks[m]) : k \in FreeAt(t, m, i)
      BY <2>3
    <3>1. PICK i \in 1 .. Len(t.free_chunks[m]) : k \in FreeAt(t, m, i)
      BY <3>0
    <3>2. CASE i \in 1 .. Len(u.free_chunks[m]) /\ FreeAt(u, m, i) = FreeAt(t, m, i)
      <4>1. k \in FreeAt(u, m, i)
        BY <3>1, <3>2
      <4> QED
        BY <3>2, <4>1
    <3>3. CASE m = n /\ i = L
      BY <1>6, <3>1, <3>3
    <3> QED
      BY <1>6, <3>2, <3>3
  <2> QED
    BY <2>1, <2>2, <2>3
<1>11. Counted(u, X, Run(o, n))
  <2> DEFINE H == HeldBy(t, X)
             R == Run(o, n)
  <2>1. HeldBy(u, X) = H
    BY <1>1 DEF HeldBy
  <2>2. IsFiniteSet(H) /\ Cardinality(H) \in Nat
    BY HeldFinite
  <2>3. IsFiniteSet(R) /\ Cardinality(R) = n
    BY <1>9, RunIs
  <2>4. H \cap R = {}
    BY <1>10 DEF HeldBy
  <2>9. H \cup {} = H
    OBVIOUS
  <2>7. t.allocated_chunks_count = Cardinality(H)
    BY <2>9 DEF Ownership, Counted
  <2> HIDE DEF H, R
  <2>5. Cardinality(H \cup R) = Cardinality(H) + Cardinality(R) - Cardinality(H \cap R)
    BY <2>2, <2>3, FS_Union
  <2>6. Cardinality(H \cap R) = 0
    BY <2>4, FS_EmptySet
  <2>8. u.allocated_chunks_count = Cardinality(H \cup R)
    BY <2>2, <2>3, <2>5, <2>6, <2>7
  <2> QED
    BY <2>1, <2>8 DEF Counted, R
<1> QED
  BY <1>7, <1>8, <1>11 DEF Ownership, o, s

(* The runs on the free lists, by place.                                   *)
LEMMA FreeAtIs ==
  ASSUME NEW t, TableOK(t), NEW n \in 1 .. 4, NEW i \in 1 .. Len(t.free_chunks[n])
  PROVE  FreeAt(t, n, i) \subseteq 0 .. t.next_unpartitioned_chunk - 1
<1> DEFINE o == t.free_chunks[n][i]
           next == t.next_unpartitioned_chunk
<1>1. o \in Nat
  <2>1. t.free_chunks[n] \in Seq(Nat)
    BY DEF TableOK, FreeListsOK
  <2> QED
    BY <2>1
<1>2. next \in Nat /\ o + n <= next
  <2>1. next \in Nat
    BY DEF TableOK, TableType
  <2>2. \A m \in 1 .. 4 : \A j \in 1 .. Len(t.free_chunks[m]) :
          t.free_chunks[m][j] + m <= t.next_unpartitioned_chunk
    BY DEF TableOK, FreeListsOK
  <2> QED
    BY <2>1, <2>2
<1>3. FreeAt(t, n, i) = Run(o, n)
  BY DEF FreeAt
<1> HIDE DEF o, next
<1>4. Run(o, n) \subseteq 0 .. next - 1
  BY <1>1, <1>2 DEF Run
<1> QED
  BY <1>3, <1>4 DEF next

(* ... or the chunks that were never handed out,                           *)
LEMMA TakeFresh ==
  ASSUME NEW t, TableOK(t), NEW u, NEW X, NEW n \in 1 .. 4,
         Ownership(t, X, {}),
         u.entries = t.entries,
         u.next_unpartitioned_chunk = t.next_unpartitioned_chunk + n,
         u.free_chunks = t.free_chunks,
         u.allocated_chunks_count = t.allocated_chunks_count + n
  PROVE  Ownership(u, X, Run(t.next_unpartitioned_chunk, n))
<1> DEFINE o == t.next_unpartitioned_chunk
           R == Run(o, n)
<1>1. /\ Holders(u, X) = Holders(t, X) /\ \A l : Held(u, l) = Held(t, l)
      /\ \A m, i : FreeAt(u, m, i) = FreeAt(t, m, i)
  BY DEF Holders, Held, FreeAt
<1>2. /\ o \in Nat
      /\ \A l \in LineIndex : Held(t, l) \subseteq 0 .. o - 1
      /\ \A m \in 1 .. 4 : \A i \in 1 .. Len(t.free_chunks[m]) : FreeAt(t, m, i) \subseteq 0 .. o - 1
  <2>1. o \in Nat
    BY DEF TableOK, TableType
  <2>2. \A l \in LineIndex : Held(t, l) \subseteq 0 .. o - 1
    BY HeldIs
  <2>3. \A m \in 1 .. 4 : \A i \in 1 .. Len(t.free_chunks[m]) : FreeAt(t, m, i) \subseteq 0 .. o - 1
    BY FreeAtIs
  <2> QED
    BY <2>1, <2>2, <2>3
<1>3. /\ IsFiniteSet(R) /\ Cardinality(R) = n
      /\ \A k \in Int : k \in R <=> o <= k /\ k < o + n
  BY <1>2, RunIs
<1>4. R \cap 0 .. o - 1 = {} /\ \A k \in 0 .. o + n - 1 : k \in R \/ k \in 0 .. o - 1
  <2> HIDE DEF o, R
  <2> QED
    BY <1>2, <1>3
<1>5. Holders(t, X) \subseteq LineIndex
  BY DEF Holders
<1>6. Owned(u, X, R)
  <2>1. \A l \in Holders(u, X), m \in Holders(u, X) : l # m => Held(u, l) \cap Held(u, m) = {}
    BY <1>1 DEF Ownership, Owned
  <2>4. ASSUME NEW m \in 1 .. 4, NEW k \in 1 .. 4,
               NEW i \in 1 .. Len(u.free_chunks[m]), NEW j \in 1 .. Len(u.free_chunks[k]),
               m # k \/ i # j
        PROVE  FreeAt(u, m, i) \cap FreeAt(u, k, j) = {}
    <3>1. FreeAt(t, m, i) \cap FreeAt(t, k, j) = {}
      BY <2>4 DEF Ownership, Owned
    <3> QED
      BY <1>1, <3>1
  <2>5. ASSUME NEW l \in Holders(u, X), NEW m \in 1 .. 4, NEW i \in 1 .. Len(u.free_chunks[m])
        PROVE  Held(u, l) \cap FreeAt(u, m, i) = {}
    BY <1>1 DEF Ownership, Owned
  <2> HIDE DEF o, R
  <2>2. \A l \in Holders(u, X) : Held(u, l) \cap R = {}
    BY <1>1, <1>2, <1>4, <1>5
  <2>3. ASSUME NEW m \in 1 .. 4, NEW i \in 1 .. Len(u.free_chunks[m])
        PROVE  R \cap FreeAt(u, m, i) = {}
    <3>1. FreeAt(t, m, i) \subseteq 0 .. o - 1
      BY <1>2
    <3> QED
      BY <1>1, <1>4, <3>1
  <2> QED
    BY <2>1, <2>2, <2>3, <2>4, <2>5 DEF Owned
<1>7. AllOwned(u, X, R)
  <2> SUFFICES ASSUME NEW k \in 0 .. u.next_unpartitioned_chunk - 1
               PROVE  \/ k \in R
                      \/ \E l \in Holders(u, X) : k \in Held(u, l)
                      \/ \E m \in 1 .. 4 : \E i \in 1 .. Len(u.free_chunks[m]) : k \in FreeAt(u, m, i)
    BY DEF AllOwned
  <2>1. CASE k \in 0 .. t.next_unpartitioned_chunk - 1
    <3>1. \/ \E l \in Holders(t, X) : k \in Held(t, l)
          \/ \E m \in 1 .. 4 : \E i \in 1 .. Len(t.free_chunks[m]) : k \in FreeAt(t, m, i)
      BY <2>1 DEF Ownership, AllOwned
    <3> QED
      BY <1>1, <3>1
  <2>2. k \in R \/ k \in 0 .. o - 1
    <3>2. k \in 0 .. o + n - 1
      <4>1. u.next_unpartitioned_chunk = o + n
        OBVIOUS
      <4>2. k \in 0 .. (o + n) - 1
        BY <4>1
      <4> HIDE DEF o
      <4> QED
        BY <4>2, <1>2
    <3>1. k \in 0 .. o + n - 1
      BY <3>2
    <3> HIDE DEF o, R
    <3> QED
      BY <1>4, <3>1
  <2> QED
    BY <2>1, <2>2
<1>8. Counted(u, X, R)
  <2> DEFINE H == HeldBy(t, X)
  <2>1. HeldBy(u, X) = H
    BY <1>1 DEF HeldBy
  <2>2. IsFiniteSet(H) /\ Cardinality(H) \in Nat
    BY HeldFinite
  <2>4. H \cap R = {}
    <3>1. H \subseteq 0 .. o - 1
      BY <1>2, <1>5 DEF HeldBy
    <3> HIDE DEF H, R, o
    <3> QED
      BY <1>4, <3>1
  <2>9. H \cup {} = H
    OBVIOUS
  <2>7. t.allocated_chunks_count = Cardinality(H)
    BY <2>9 DEF Ownership, Counted
  <2> HIDE DEF H, R
  <2>5. Cardinality(H \cup R) = Cardinality(H) + Cardinality(R) - Cardinality(H \cap R)
    BY <2>2, <1>3, FS_Union
  <2>6. Cardinality(H \cap R) = 0
    BY <2>4, FS_EmptySet
  <2>8. u.allocated_chunks_count = Cardinality(H \cup R)
    BY <2>2, <1>3, <2>5, <2>6, <2>7
  <2> QED
    BY <2>1, <2>8 DEF Counted
<1> QED
  BY <1>6, <1>7, <1>8 DEF Ownership

(* ... and gives the run it has in its hands to the line.                  *)
LEMMA PutIn ==
  ASSUME NEW t, NEW u, NEW X, NEW l \in LineIndex \ X, NEW e,
         Ownership(t, X \cup {l}, Run(e.phys_chunk_offset, e.allocated_chunks)),
         t.entries \in [LineIndex -> EntryType],
         e.valid = TRUE,
         u.entries = [t.entries EXCEPT ![l] = e],
         u.next_unpartitioned_chunk = t.next_unpartitioned_chunk,
         u.free_chunks = t.free_chunks,
         u.allocated_chunks_count = t.allocated_chunks_count
  PROVE  Ownership(u, X, {})
<1> DEFINE R == Run(e.phys_chunk_offset, e.allocated_chunks)
           Y == X \cup {l}
<1>1. /\ \A m \in LineIndex : m # l => u.entries[m] = t.entries[m]
      /\ u.entries[l] = e
  OBVIOUS
<1>2. /\ Held(u, l) = R
      /\ \A m \in LineIndex : m # l => Held(u, m) = Held(t, m)
  BY <1>1 DEF Held
<1>3. \A m : m \in Holders(u, X) <=> m = l \/ m \in Holders(t, Y)
  BY <1>1 DEF Holders
<1>4. \A m \in Holders(t, Y) : m \in LineIndex /\ m # l
  BY DEF Holders
<1>5. \A m, i : FreeAt(u, m, i) = FreeAt(t, m, i)
  BY DEF FreeAt
<1>0. Ownership(t, Y, R)
  OBVIOUS
<1> HIDE DEF R, Y
<1>6. Owned(u, X, {})
  <2>1. \A m \in Holders(u, X), k \in Holders(u, X) : m # k => Held(u, m) \cap Held(u, k) = {}
    BY <1>0, <1>2, <1>3, <1>4 DEF Ownership, Owned
  <2>2. ASSUME NEW n \in 1 .. 4, NEW k \in 1 .. 4,
               NEW i \in 1 .. Len(u.free_chunks[n]), NEW j \in 1 .. Len(u.free_chunks[k]),
               n # k \/ i # j
        PROVE  FreeAt(u, n, i) \cap FreeAt(u, k, j) = {}
    <3>1. FreeAt(t, n, i) \cap FreeAt(t, k, j) = {}
      BY <1>0, <2>2 DEF Ownership, Owned
    <3> QED
      BY <1>5, <3>1
  <2>3. ASSUME NEW m \in Holders(u, X), NEW n \in 1 .. 4, NEW i \in 1 .. Len(u.free_chunks[n])
        PROVE  Held(u, m) \cap FreeAt(u, n, i) = {}
    <3>1. CASE m = l
      BY <1>0, <1>2, <1>5, <3>1 DEF Ownership, Owned
    <3>2. CASE m # l
      BY <1>0, <1>2, <1>3, <1>4, <1>5, <3>2 DEF Ownership, Owned
    <3> QED
      BY <3>1, <3>2
  <2> QED
    BY <2>1, <2>2, <2>3 DEF Owned
<1>7. AllOwned(u, X, {})
  <2> SUFFICES ASSUME NEW k \in 0 .. u.next_unpartitioned_chunk - 1
               PROVE  \/ \E m \in Holders(u, X) : k \in Held(u, m)
                      \/ \E n \in 1 .. 4 : \E i \in 1 .. Len(u.free_chunks[n]) : k \in FreeAt(u, n, i)
    BY DEF AllOwned
  <2>1. \/ k \in R
        \/ \E m \in Holders(t, Y) : k \in Held(t, m)
        \/ \E n \in 1 .. 4 : \E i \in 1 .. Len(t.free_chunks[n]) : k \in FreeAt(t, n, i)
    BY <1>0 DEF Ownership, AllOwned
  <2>2. CASE k \in R
    BY <1>2, <1>3, <2>2
  <2>3. CASE \E m \in Holders(t, Y) : k \in Held(t, m)
    BY <1>2, <1>3, <1>4, <2>3
  <2>4. CASE \E n \in 1 .. 4 : \E i \in 1 .. Len(t.free_chunks[n]) : k \in FreeAt(t, n, i)
    BY <1>5, <2>4
  <2> QED
    BY <2>1, <2>2, <2>3, <2>4
<1>8. Counted(u, X, {})
  <2>1. HeldBy(u, X) \cup {} = HeldBy(t, Y) \cup R
    BY <1>2, <1>3, <1>4 DEF HeldBy
  <2> QED
    BY <1>0, <2>1 DEF Ownership, Counted
<1> QED
  BY <1>6, <1>7, <1>8 DEF Ownership

-----------------------------------------------------------------------------
(* How many chunks a compressed line takes.                                *)
LEMMA NeededIs ==
  ASSUME NEW c, NEW line, Faithful(c, line)
  PROVE  /\ Needed(c) \in 0 .. 4
         /\ c.pattern = "ZEROS" <=> Needed(c) = 0
         /\ c.pattern # "ZEROS" => Len(c.data) <= Needed(c) * SLOT_CHUNK_SIZE
         /\ c.pattern = "UNCOMPRESSED" => Needed(c) = 4
<1>1. c.compressed_size = Len(c.data) /\ Len(c.data) \in 1 .. 64
  BY DEF Faithful
<1>2. c.pattern = "UNCOMPRESSED" => Len(c.data) = 64
  BY DEF Faithful
<1> DEFINE n == Len(c.data)
<1> HIDE DEF n
<1>3. n \in 1 .. 64 /\ (c.pattern = "UNCOMPRESSED" => n = 64) /\ c.compressed_size = n
  BY <1>1, <1>2 DEF n
<1>4. CASE c.pattern = "ZEROS"
  BY <1>4 DEF Needed
<1>5. CASE c.pattern # "ZEROS"
  <2>1. Needed(c) = (IF n <= 16 THEN 16 ELSE IF n <= 32 THEN 32 ELSE IF n <= 48 THEN 48 ELSE 64) \div 16
    BY <1>3, <1>5 DEF Needed, GetQuantizedSlotSize, SLOT_CHUNK_SIZE
  <2>2. Needed(c) \in 1 .. 4 /\ n <= Needed(c) * 16 /\ (c.pattern = "UNCOMPRESSED" => Needed(c) = 4)
    BY <1>3, <2>1
  <2> QED
    BY <1>5, <2>2 DEF n, SLOT_CHUNK_SIZE
<1> QED
  BY <1>4, <1>5

(* The bytes behind an entry.                                              *)
ChunksOf(t, e) == [i \in 1 .. e.allocated_chunks |-> t.physical_dram[e.phys_chunk_offset + i - 1]]
BytesOf(t, e) == Join(ChunksOf(t, e), SLOT_CHUNK_SIZE)

(* The bytes an entry reads, index by index.                               *)
LEMMA BytesAt ==
  ASSUME NEW t, NEW e \in EntryType, t.physical_dram \in [Chunks -> [1 .. SLOT_CHUNK_SIZE -> Byte]],
         e.phys_chunk_offset + e.allocated_chunks <= total_physical_chunks
  PROVE  /\ BytesOf(t, e) \in [1 .. e.allocated_chunks * SLOT_CHUNK_SIZE -> Byte]
         /\ \A i \in 1 .. e.allocated_chunks, j \in 1 .. SLOT_CHUNK_SIZE :
              /\ e.phys_chunk_offset + i - 1 \in Chunks
              /\ BytesOf(t, e)[(i - 1) * SLOT_CHUNK_SIZE + j]
                   = t.physical_dram[e.phys_chunk_offset + i - 1][j]
<1> DEFINE n == e.allocated_chunks
           o == e.phys_chunk_offset
           f == ChunksOf(t, e)
           dram == t.physical_dram
           total == total_physical_chunks
           w == SLOT_CHUNK_SIZE
<1>1. n \in 0 .. 4 /\ o \in Nat /\ o + n <= total /\ total \in Nat
  BY TableAssumption DEF EntryType, total_physical_chunks, SLOT_CHUNK_SIZE
<1>2. Chunks = 0 .. total - 1
  BY DEF Chunks
<1>3. dram \in [Chunks -> [1 .. w -> Byte]] /\ w \in Widths
  BY DEF Widths, SLOT_CHUNK_SIZE
<1>4. f = [i \in 1 .. n |-> dram[o + i - 1]]
  BY DEF ChunksOf
<1>7. BytesOf(t, e) = Join(f, w)
  BY DEF BytesOf
<1> HIDE DEF n, o, f, dram, total, w
<1>5. \A i \in 1 .. n : o + i - 1 \in Chunks
  BY <1>1, <1>2
<1>6. f \in [1 .. n -> [1 .. w -> Byte]]
  BY <1>3, <1>4, <1>5
<1>8. /\ Join(f, w) \in [1 .. n * w -> Byte]
      /\ \A i \in 1 .. n, j \in 1 .. w : Join(f, w)[(i - 1) * w + j] = f[i][j]
  <2>1. n \in 0 .. 64
    BY <1>1
  <2> QED
    BY <1>3, <1>6, <2>1, JoinIs
<1>9. \A i \in 1 .. n : f[i] = dram[o + i - 1]
  BY <1>4
<1>10. BytesOf(t, e) \in [1 .. n * w -> Byte]
  BY <1>7, <1>8
<1>11. ASSUME NEW i \in 1 .. n, NEW j \in 1 .. w
       PROVE  BytesOf(t, e)[(i - 1) * w + j] = dram[o + i - 1][j]
  BY <1>7, <1>8, <1>9
<1> QED
  BY <1>5, <1>10, <1>11 DEF n, o, dram, w

(* What the second half of LoadLine does with an entry.                    *)
LEMMA FetchIs ==
  ASSUME NEW t, NEW e
  PROVE  Fetch(t, e) = IF ~e.valid \/ e.allocated_chunks = 0 \/ e.pattern_tag = "ZEROS"
                       THEN ZeroLine
                       ELSE DecompressRaw(BytesOf(t, e), e.allocated_chunks * SLOT_CHUNK_SIZE,
                                          e.pattern_tag)
BY DEF Fetch, BytesOf, ChunksOf

(* Reading depends on no chunk but those of the entry.                     *)
LEMMA FetchSame ==
  ASSUME NEW t, NEW u, NEW e \in EntryType,
         \A k \in Run(e.phys_chunk_offset, e.allocated_chunks) :
           u.physical_dram[k] = t.physical_dram[k]
  PROVE  Fetch(u, e) = Fetch(t, e)
<1> DEFINE n == e.allocated_chunks
           o == e.phys_chunk_offset
<1>1. n \in 0 .. 4 /\ o \in Nat
  BY DEF EntryType
<1>2. \A k \in Run(o, n) : u.physical_dram[k] = t.physical_dram[k]
  OBVIOUS
<1>3. \A i \in 1 .. n : o + i - 1 \in Run(o, n)
  <2> HIDE DEF n, o
  <2> QED
    BY <1>1 DEF Run
<1>4. \A i \in 1 .. n : u.physical_dram[o + i - 1] = t.physical_dram[o + i - 1]
  BY <1>2, <1>3
<1>5. ChunksOf(u, e) = ChunksOf(t, e)
  BY <1>4 DEF ChunksOf
<1> QED
  BY <1>5, FetchIs DEF BytesOf

(* Reading never fails to return a line or a refusal.                      *)
LEMMA FetchType ==
  ASSUME NEW t, TableOK(t), NEW e, EntryOK(e, t.next_unpartitioned_chunk)
  PROVE  Fetch(t, e) \in Line \cup {Refused}
<1>1. CASE ~e.valid \/ e.allocated_chunks = 0 \/ e.pattern_tag = "ZEROS"
  BY <1>1, FetchIs, ZeroIsLine
<1>2. CASE ~(~e.valid \/ e.allocated_chunks = 0 \/ e.pattern_tag = "ZEROS")
  <2> DEFINE m == e.allocated_chunks * SLOT_CHUNK_SIZE
             b == BytesOf(t, e)
  <2>1. Fetch(t, e) = DecompressRaw(b, m, e.pattern_tag)
    BY <1>2, FetchIs
  <2>2. e \in EntryType /\ e.pattern_tag \in BDIPattern /\ e.allocated_chunks \in 0 .. 4
    BY DEF EntryOK, EntryType
  <2>3. e.phys_chunk_offset + e.allocated_chunks <= total_physical_chunks
    <3> DEFINE next == t.next_unpartitioned_chunk
               total == total_physical_chunks
               x == e.phys_chunk_offset + e.allocated_chunks
    <3>1. next \in 0 .. total
      BY DEF TableOK, TableType
    <3>2. x <= next /\ x \in Nat
      BY DEF EntryOK, EntryType
    <3>3. total \in Nat
      BY TableAssumption DEF total_physical_chunks, SLOT_CHUNK_SIZE
    <3> HIDE DEF next, total, x
    <3>4. x <= total
      BY <3>1, <3>2, <3>3
    <3> QED
      BY <3>4 DEF total, x
  <2>4. b \in [1 .. m -> Byte]
    <3>1. t.physical_dram \in [Chunks -> [1 .. SLOT_CHUNK_SIZE -> Byte]]
      BY DEF TableOK, TableType
    <3> QED
      BY <2>2, <2>3, <3>1, BytesAt
  <2>5. m \in Nat /\ (e.pattern_tag = "UNCOMPRESSED" => m >= 64)
    BY <2>2 DEF EntryOK, SLOT_CHUNK_SIZE
  <2> HIDE DEF m, b
  <2>6. DecompressRaw(b, m, e.pattern_tag) \in Line \cup {Refused}
    BY <2>2, <2>4, <2>5, DecompressType
  <2> QED
    BY <2>1, <2>6
<1> QED
  BY <1>1, <1>2

(* Writing the bytes of a line changes the chunks of its run only, and the *)
(* line then reads back.                                                   *)
LEMMA WriteDataIs ==
  ASSUME NEW t, t.physical_dram \in [Chunks -> [1 .. SLOT_CHUNK_SIZE -> Byte]],
         NEW o \in Nat, NEW n \in 1 .. 4, NEW data \in Seq(Byte),
         Len(data) <= n * SLOT_CHUNK_SIZE
  PROVE  LET d == [c \in Chunks |-> [i \in 1 .. SLOT_CHUNK_SIZE |->
                     LET k == (c - o) * SLOT_CHUNK_SIZE + i
                     IN  IF k \in DOMAIN data THEN data[k] ELSE t.physical_dram[c][i]]] IN
         /\ d \in [Chunks -> [1 .. SLOT_CHUNK_SIZE -> Byte]]
         /\ \A c \in Chunks : c \notin Run(o, n) => d[c] = t.physical_dram[c]
         /\ \A c \in Chunks, i \in 1 .. SLOT_CHUNK_SIZE :
              (c - o) * SLOT_CHUNK_SIZE + i \in 1 .. Len(data) =>
                d[c][i] = data[(c - o) * SLOT_CHUNK_SIZE + i]
<1> DEFINE dram == t.physical_dram
           P(c, i) == (c - o) * SLOT_CHUNK_SIZE + i
           d == [c \in Chunks |-> [i \in 1 .. SLOT_CHUNK_SIZE |->
                     IF P(c, i) \in DOMAIN data THEN data[P(c, i)] ELSE dram[c][i]]]
<1>1. DOMAIN data = 1 .. Len(data) /\ Len(data) \in Nat /\ \A k \in 1 .. Len(data) : data[k] \in Byte
  OBVIOUS
<1>2. ASSUME NEW c \in Chunks, NEW i \in 1 .. SLOT_CHUNK_SIZE, P(c, i) \in 1 .. Len(data)
      PROVE  c \in Run(o, n)
  <2>1. c \in Int
    BY DEF Chunks
  <2> DEFINE m == Len(data)
  <2>2. m \in Nat /\ m <= n * 16 /\ (c - o) * 16 + i \in 1 .. m /\ i \in 1 .. 16
    BY <1>1, <1>2 DEF SLOT_CHUNK_SIZE
  <2> HIDE DEF m
  <2>3. o <= c /\ c < o + n
    BY <2>1, <2>2
  <2> QED
    BY <2>1, <2>3 DEF Run
<1>3. dram \in [Chunks -> [1 .. SLOT_CHUNK_SIZE -> Byte]]
  OBVIOUS
<1>8. Len(data) <= n * SLOT_CHUNK_SIZE
  OBVIOUS
<1> HIDE DEF P, dram
<1>4. d \in [Chunks -> [1 .. SLOT_CHUNK_SIZE -> Byte]]
  <2>1. ASSUME NEW c \in Chunks, NEW i \in 1 .. SLOT_CHUNK_SIZE
        PROVE  (IF P(c, i) \in DOMAIN data THEN data[P(c, i)] ELSE dram[c][i]) \in Byte
    BY <1>1, <1>3
  <2> QED
    BY <2>1
<1>5. ASSUME NEW c \in Chunks, c \notin Run(o, n)
      PROVE  d[c] = dram[c]
  <2>1. \A i \in 1 .. SLOT_CHUNK_SIZE : P(c, i) \notin DOMAIN data
    BY <1>1, <1>2, <1>5
  <2>2. d[c] = [i \in 1 .. SLOT_CHUNK_SIZE |-> dram[c][i]]
    BY <2>1
  <2>3. dram[c] \in [1 .. SLOT_CHUNK_SIZE -> Byte]
    BY <1>3
  <2> QED
    BY <2>2, <2>3
<1>6. \A c \in Chunks, i \in 1 .. SLOT_CHUNK_SIZE :
        P(c, i) \in 1 .. Len(data) => d[c][i] = data[P(c, i)]
  BY <1>1
<1> QED
  BY <1>4, <1>5, <1>6 DEF P, dram

(* The bytes of data are in the DRAM from chunk o on.                      *)
Holds(u, o, data) ==
  \A k \in Chunks, i \in 1 .. SLOT_CHUNK_SIZE :
    (k - o) * SLOT_CHUNK_SIZE + i \in 1 .. Len(data) =>
      u.physical_dram[k][i] = data[(k - o) * SLOT_CHUNK_SIZE + i]

(* The line whose bytes were written to the run of an entry reads back.    *)
LEMMA FetchWritten ==
  ASSUME NEW u, NEW c, NEW line, Faithful(c, line), NEW e \in EntryType,
         u.physical_dram \in [Chunks -> [1 .. SLOT_CHUNK_SIZE -> Byte]],
         e.phys_chunk_offset + e.allocated_chunks <= total_physical_chunks,
         e.allocated_chunks = Needed(c), e.pattern_tag = c.pattern, e.valid = TRUE,
         Holds(u, e.phys_chunk_offset, c.data)
  PROVE  Fetch(u, e) = line
<1>1. CASE c.pattern = "ZEROS"
  <2>1. line = ZeroLine
    BY <1>1 DEF Faithful
  <2> QED
    BY <1>1, <2>1, FetchIs
<1>2. CASE c.pattern # "ZEROS"
  <2> DEFINE n == e.allocated_chunks
             o == e.phys_chunk_offset
             m == n * SLOT_CHUNK_SIZE
             b == BytesOf(u, e)
             data == c.data
             L == Len(c.data)
  <2>1. n \in 1 .. 4 /\ L <= m /\ L \in 1 .. 64 /\ o \in Nat /\ m = n * 16
    <3>1. Needed(c) \in 0 .. 4 /\ Needed(c) # 0 /\ L <= Needed(c) * SLOT_CHUNK_SIZE
      BY <1>2, NeededIs
    <3>2. L \in 1 .. 64 /\ o \in Nat
      BY DEF Faithful, EntryType
    <3> HIDE DEF L
    <3> QED
      BY <3>1, <3>2 DEF SLOT_CHUNK_SIZE
  <2>2. Fetch(u, e) = DecompressRaw(b, m, c.pattern)
    BY <1>2, <2>1, FetchIs
  <2>3. /\ b \in [1 .. m -> Byte]
        /\ \A i \in 1 .. n, j \in 1 .. SLOT_CHUNK_SIZE :
             o + i - 1 \in Chunks /\ b[(i - 1) * SLOT_CHUNK_SIZE + j] = u.physical_dram[o + i - 1][j]
    <3>1. BytesOf(u, e) \in [1 .. e.allocated_chunks * SLOT_CHUNK_SIZE -> Byte]
      BY BytesAt
    <3>2. \A i \in 1 .. e.allocated_chunks, j \in 1 .. SLOT_CHUNK_SIZE :
            /\ e.phys_chunk_offset + i - 1 \in Chunks
            /\ BytesOf(u, e)[(i - 1) * SLOT_CHUNK_SIZE + j]
                 = u.physical_dram[e.phys_chunk_offset + i - 1][j]
      <4>1. e \in EntryType /\ u.physical_dram \in [Chunks -> [1 .. SLOT_CHUNK_SIZE -> Byte]]
            /\ e.phys_chunk_offset + e.allocated_chunks <= total_physical_chunks
        OBVIOUS
      <4> QED
        BY ONLY <4>1, BytesAt
    <3> QED
      BY <3>1, <3>2
  <2>4. \A k \in Chunks, i \in 1 .. SLOT_CHUNK_SIZE :
          (k - o) * SLOT_CHUNK_SIZE + i \in 1 .. L =>
            u.physical_dram[k][i] = data[(k - o) * SLOT_CHUNK_SIZE + i]
    BY DEF Holds
  <2>5. ASSUME NEW k \in 1 .. L
        PROVE  b[k] = data[k]
    <3> DEFINE i == (k - 1) \div 16 + 1
               j == 1 + ((k - 1) % 16)
               x == o + i - 1
               dram == u.physical_dram
    <3> HIDE DEF n, o, m, b, L, data, dram
    <3>1. i \in 1 .. n /\ j \in 1 .. 16 /\ (i - 1) * 16 + j = k /\ (x - o) * 16 + j = k
      BY <2>1
    <3> HIDE DEF i, j, x
    <3>2. x \in Chunks /\ b[(i - 1) * 16 + j] = dram[x][j]
      BY <2>3, <3>1 DEF SLOT_CHUNK_SIZE, x, dram
    <3>3. dram[x][j] = data[(x - o) * 16 + j]
      BY <2>4, <3>1, <3>2 DEF SLOT_CHUNK_SIZE, dram
    <3> QED
      BY <3>1, <3>2, <3>3
  <2> HIDE DEF n, m, b
  <2>6. BeginsWith(b, m, c.data)
    BY <2>1, <2>3, <2>5 DEF BeginsWith
  <2>7. DecompressRaw(b, m, c.pattern) = line
    BY <2>6 DEF Faithful
  <2> QED
    BY <2>2, <2>7
<1> QED
  BY <1>1, <1>2

-----------------------------------------------------------------------------
(* What the allocator and the freeing of a run leave alone.                *)
SameLines(u, t) ==
  /\ u.entries = t.entries /\ u.physical_dram = t.physical_dram
  /\ u.total_uncompressed_bytes_stored = t.total_uncompressed_bytes_stored
  /\ t.next_unpartitioned_chunk <= u.next_unpartitioned_chunk

(* The parts of a table that is in order.                                  *)
LEMMA TableParts ==
  ASSUME NEW t, TableOK(t)
  PROVE  /\ t.next_unpartitioned_chunk \in Nat /\ total_physical_chunks \in Nat
         /\ t.next_unpartitioned_chunk <= total_physical_chunks
         /\ t.free_chunks \in [1 .. 4 -> Seq(Nat)]
         /\ t.allocated_chunks_count \in Int /\ t.total_uncompressed_bytes_stored \in Int
         /\ t.entries \in [LineIndex -> EntryType]
         /\ t.physical_dram \in [Chunks -> [1 .. SLOT_CHUNK_SIZE -> Byte]]
         /\ \A l \in LineIndex : EntryOK(t.entries[l], t.next_unpartitioned_chunk)
         /\ FreeListsOK(t.free_chunks, t.next_unpartitioned_chunk)
<1>1. total_physical_chunks \in Nat
  BY TableAssumption DEF total_physical_chunks, SLOT_CHUNK_SIZE
<1>2. t.next_unpartitioned_chunk \in 0 .. total_physical_chunks
  BY DEF TableOK, TableType
<1>3. t.next_unpartitioned_chunk \in Nat /\ t.next_unpartitioned_chunk <= total_physical_chunks
  BY <1>1, <1>2
<1> QED
  BY <1>1, <1>3 DEF TableOK, TableType

(* FreeChunks puts the run a line held on a free list.                     *)
LEMMA FreeChunksIs ==
  ASSUME NEW t, TableOK(t), NEW o \in Nat, NEW n \in 0 .. 4, o + n <= t.next_unpartitioned_chunk
  PROVE  /\ TableOK(FreeChunks(t, o, n)) /\ SameLines(FreeChunks(t, o, n), t)
         /\ FreeChunks(t, o, n).next_unpartitioned_chunk = t.next_unpartitioned_chunk
         /\ \A Y : Ownership(t, Y, Run(o, n)) => Ownership(FreeChunks(t, o, n), Y, {})
<1>1. CASE n = 0
  <2>1. FreeChunks(t, o, n) = t
    BY <1>1 DEF FreeChunks
  <2>2. Run(o, n) = {}
    BY <1>1 DEF Run
  <2>3. SameLines(t, t)
    BY TableParts DEF SameLines
  <2> QED
    BY <2>1, <2>2, <2>3
<1>2. CASE n # 0
  <2> DEFINE u == FreeChunks(t, o, n)
  <2>1. u = [t EXCEPT !.allocated_chunks_count = @ - n, !.free_chunks[n] = Append(@, o)]
    BY <1>2 DEF FreeChunks, UINT32_MAX
  <2> HIDE DEF u
  <2>2. t \in TableType
    BY DEF TableOK
  <2>3. /\ u.entries = t.entries /\ u.physical_dram = t.physical_dram
        /\ u.total_uncompressed_bytes_stored = t.total_uncompressed_bytes_stored
        /\ u.next_unpartitioned_chunk = t.next_unpartitioned_chunk
        /\ u.free_chunks = [t.free_chunks EXCEPT ![n] = Append(@, o)]
        /\ u.allocated_chunks_count = t.allocated_chunks_count - n
    BY <2>1, <2>2 DEF TableType
  <2>4. n \in 1 .. 4
    BY <1>2
  <2>5. FreeListsOK(u.free_chunks, t.next_unpartitioned_chunk)
    <3> DEFINE f == u.free_chunks
               g == t.free_chunks
               next == t.next_unpartitioned_chunk
    <3>1. g \in [1 .. 4 -> Seq(Nat)] /\ \A m \in 1 .. 4 : \A i \in 1 .. Len(g[m]) : g[m][i] + m <= next
      BY DEF TableOK, FreeListsOK
    <3>2. f = [g EXCEPT ![n] = Append(@, o)] /\ o + n <= next
      BY <2>3
    <3> HIDE DEF f, g, next
    <3>3. f \in [1 .. 4 -> Seq(Nat)]
      BY <2>4, <3>1, <3>2
    <3>4. ASSUME NEW m \in 1 .. 4, NEW i \in 1 .. Len(f[m])
          PROVE  f[m][i] + m <= next
      <4>1. CASE m # n
        BY <2>4, <3>1, <3>2, <4>1
      <4>2. CASE m = n
        <5> DEFINE s == g[n]
        <5>1. f[m] = Append(s, o) /\ s \in Seq(Nat)
          BY <2>4, <3>1, <3>2, <4>2
        <5>2. \A j \in 1 .. Len(s) : s[j] + n <= next
          BY <2>4, <3>1
        <5> HIDE DEF s
        <5>3. CASE i = Len(s) + 1
          <6>1. f[m][i] = o
            BY <5>1, <5>3
          <6> QED
            BY <3>2, <4>2, <6>1
        <5>4. CASE i # Len(s) + 1
          <6>1. i \in 1 .. Len(s)
            BY <5>1, <5>4
          <6>2. f[m][i] = s[i]
            BY <5>1, <6>1
          <6> QED
            BY <4>2, <5>2, <6>1, <6>2
        <5> QED
          BY <5>3, <5>4
      <4> QED
        BY <4>1, <4>2
    <3> QED
      BY <3>3, <3>4 DEF FreeListsOK, f, next
  <2>6. u \in TableType
    <3>4. u.free_chunks \in [1 .. 4 -> Seq(Nat)]
      BY <2>5 DEF FreeListsOK
    <3>5. t.allocated_chunks_count \in Int
      BY TableParts
    <3>1. u.free_chunks \in [1 .. 4 -> Seq(Nat)] /\ u.allocated_chunks_count \in Int
      BY <2>3, <3>4, <3>5
    <3>2. /\ DOMAIN u = DOMAIN t
          /\ u = [entries |-> u.entries, physical_dram |-> u.physical_dram,
                  free_chunks |-> u.free_chunks,
                  next_unpartitioned_chunk |-> u.next_unpartitioned_chunk,
                  allocated_chunks_count |-> u.allocated_chunks_count,
                  total_uncompressed_bytes_stored |-> u.total_uncompressed_bytes_stored]
      BY <2>1, <2>2 DEF TableType
    <3> QED
      BY <2>2, <2>3, <3>1, <3>2 DEF TableType
  <2>7. TableOK(u)
    BY <2>3, <2>5, <2>6 DEF TableOK
  <2>8. SameLines(u, t)
    BY <2>3, TableParts DEF SameLines
  <2>9. ASSUME NEW Y, Ownership(t, Y, Run(o, n))
        PROVE  Ownership(u, Y, {})
    BY <2>3, <2>4, <2>9, PutFree
  <2> QED
    BY <2>3, <2>7, <2>8, <2>9 DEF u
<1> QED
  BY <1>1, <1>2

(* AllocateChunks hands out a run that nobody owns, or nothing.            *)
LEMMA AllocateChunksIs ==
  ASSUME NEW t, TableOK(t), NEW n \in 0 .. 4
  PROVE  LET a == AllocateChunks(t, n) IN
         /\ TableOK(a.table) /\ SameLines(a.table, t)
         /\ \/ a.offset \in Nat /\ a.offset + n <= a.table.next_unpartitioned_chunk
            \/ a.offset = UINT32_MAX /\ n > 0
         /\ \A Y : Ownership(t, Y, {}) =>
              Ownership(a.table, Y, IF a.offset = UINT32_MAX THEN {} ELSE Run(a.offset, n))
<1> DEFINE a == AllocateChunks(t, n)
           u == a.table
           free == t.free_chunks[n]
           next == t.next_unpartitioned_chunk
<1>0. next \in Nat /\ t \in TableType /\ SameLines(t, t)
  BY TableParts DEF TableOK, SameLines
<1>1. CASE n = 0
  <2>1. a.table = t /\ a.offset = 0
    BY <1>1 DEF AllocateChunks
  <2>2. Run(0, n) = {} /\ 0 # UINT32_MAX
    BY <1>1 DEF Run, UINT32_MAX
  <2> HIDE DEF a
  <2> QED
    BY <1>0, <1>1, <2>1, <2>2 DEF a
<1>2. CASE n # 0 /\ free # <<>>
  <2>1. /\ u = [t EXCEPT !.allocated_chunks_count = @ + n, !.free_chunks[n] = Front(free)]
        /\ a.offset = Last(free)
    BY <1>2 DEF AllocateChunks
  <2> HIDE DEF a
  <2>2. n \in 1 .. 4
    BY <1>2
  <2>3. /\ u.entries = t.entries /\ u.physical_dram = t.physical_dram
        /\ u.total_uncompressed_bytes_stored = t.total_uncompressed_bytes_stored
        /\ u.next_unpartitioned_chunk = next
        /\ u.free_chunks = [t.free_chunks EXCEPT ![n] = Front(free)]
        /\ u.allocated_chunks_count = t.allocated_chunks_count + n
    BY <1>0, <2>1 DEF TableType
  <2>4. ASSUME NEW Y, Ownership(t, Y, {})
        PROVE  Ownership(u, Y, Run(Last(free), n))
    BY <1>2, <2>2, <2>3, <2>4, PopFree
  <2>5. /\ FreeListsOK(u.free_chunks, next)
        /\ Last(free) \in Nat /\ Last(free) + n <= next
    BY <1>2, <2>2, <2>3, PopFreeLists
  <2>6. u \in TableType
    <3>4. u.free_chunks \in [1 .. 4 -> Seq(Nat)]
      BY <2>5 DEF FreeListsOK
    <3>5. t.allocated_chunks_count \in Int
      BY TableParts
    <3>1. u.free_chunks \in [1 .. 4 -> Seq(Nat)] /\ u.allocated_chunks_count \in Int
      BY <2>3, <3>4, <3>5
    <3>2. u = [entries |-> u.entries, physical_dram |-> u.physical_dram,
               free_chunks |-> u.free_chunks,
               next_unpartitioned_chunk |-> u.next_unpartitioned_chunk,
               allocated_chunks_count |-> u.allocated_chunks_count,
               total_uncompressed_bytes_stored |-> u.total_uncompressed_bytes_stored]
      BY <1>0, <2>1 DEF TableType
    <3> QED
      BY <1>0, <2>3, <3>1, <3>2 DEF TableType
  <2>7. TableOK(u) /\ SameLines(u, t)
    BY <1>0, <2>3, <2>5, <2>6 DEF TableOK, SameLines
  <2>8. Last(free) # UINT32_MAX
    <3> DEFINE x == Last(free)
    <3>1. x \in Nat
      BY <2>5
    <3> HIDE DEF x
    <3>2. x # UINT32_MAX
      BY <3>1 DEF UINT32_MAX
    <3> QED
      BY <3>2 DEF x
  <2> QED
    BY <2>1, <2>3, <2>4, <2>5, <2>7, <2>8 DEF a
<1>3. CASE n # 0 /\ free = <<>> /\ next + n <= total_physical_chunks
  <2>1. /\ u = [t EXCEPT !.allocated_chunks_count = @ + n, !.next_unpartitioned_chunk = @ + n]
        /\ a.offset = next
    BY <1>3 DEF AllocateChunks
  <2> HIDE DEF a
  <2>2. n \in 1 .. 4
    BY <1>3
  <2>3. /\ u.entries = t.entries /\ u.physical_dram = t.physical_dram
        /\ u.total_uncompressed_bytes_stored = t.total_uncompressed_bytes_stored
        /\ u.next_unpartitioned_chunk = next + n
        /\ u.free_chunks = t.free_chunks
        /\ u.allocated_chunks_count = t.allocated_chunks_count + n
    BY <1>0, <2>1 DEF TableType
  <2>4. ASSUME NEW Y, Ownership(t, Y, {})
        PROVE  Ownership(u, Y, Run(next, n))
    BY <2>2, <2>3, <2>4, TakeFresh
  <2>5. FreeListsOK(u.free_chunks, next + n)
    <3>1. FreeListsOK(t.free_chunks, next)
      BY TableParts
    <3> DEFINE g == t.free_chunks
    <3> HIDE DEF next, g
    <3>2. g \in [1 .. 4 -> Seq(Nat)] /\ \A m \in 1 .. 4 : \A i \in 1 .. Len(g[m]) : g[m][i] + m <= next
      BY <3>1 DEF FreeListsOK, g
    <3>3. ASSUME NEW m \in 1 .. 4, NEW i \in 1 .. Len(g[m])
          PROVE  g[m][i] + m <= next + n
      <4>1. g[m] \in Seq(Nat)
        BY <3>2
      <4> DEFINE x == g[m][i]
      <4>2. x \in Nat /\ x + m <= next
        BY <3>2, <4>1
      <4> HIDE DEF x
      <4>3. x + m <= next + n
        BY <1>0, <2>2, <4>2
      <4> QED
        BY <4>3 DEF x
    <3>4. FreeListsOK(g, next + n)
      BY <3>2, <3>3 DEF FreeListsOK
    <3> QED
      BY <2>3, <3>4 DEF g
  <2>6. \A l \in LineIndex : EntryOK(u.entries[l], next + n)
    <3>1. \A l \in LineIndex : EntryOK(t.entries[l], next)
      BY TableParts
    <3> SUFFICES ASSUME NEW l \in LineIndex PROVE EntryOK(t.entries[l], next + n)
      BY <2>3
    <3> DEFINE e == t.entries[l]
    <3>2. EntryOK(e, next)
      BY <3>1
    <3> HIDE DEF next, e
    <3>3. EntryOK(e, next + n)
      BY <1>0, <2>2, <3>2 DEF EntryOK, EntryType
    <3> QED
      BY <3>3 DEF e
  <2>7. u \in TableType
    <3>4. total_physical_chunks \in Nat /\ t.allocated_chunks_count \in Int
      BY TableParts
    <3>5. next + n \in 0 .. total_physical_chunks
      <4> HIDE DEF next
      <4> QED
        BY <1>0, <1>3, <3>4
    <3>1. u.next_unpartitioned_chunk \in 0 .. total_physical_chunks /\ u.allocated_chunks_count \in Int
      BY <2>3, <3>4, <3>5
    <3>2. u = [entries |-> u.entries, physical_dram |-> u.physical_dram,
               free_chunks |-> u.free_chunks,
               next_unpartitioned_chunk |-> u.next_unpartitioned_chunk,
               allocated_chunks_count |-> u.allocated_chunks_count,
               total_uncompressed_bytes_stored |-> u.total_uncompressed_bytes_stored]
      BY <1>0, <2>1 DEF TableType
    <3> QED
      BY <1>0, <2>3, <3>1, <3>2 DEF TableType
  <2>8. TableOK(u)
    BY <2>3, <2>5, <2>6, <2>7 DEF TableOK
  <2>9. SameLines(u, t) /\ next # UINT32_MAX
    BY <1>0, <2>2, <2>3 DEF SameLines, UINT32_MAX
  <2> QED
    BY <1>0, <2>1, <2>3, <2>4, <2>8, <2>9 DEF a
<1>4. CASE n # 0 /\ free = <<>> /\ ~(next + n <= total_physical_chunks)
  <2>1. a.table = t /\ a.offset = UINT32_MAX
    BY <1>4 DEF AllocateChunks
  <2> HIDE DEF a
  <2> QED
    BY <1>0, <1>4, <2>1 DEF a
<1> QED
  BY <1>1, <1>2, <1>3, <1>4

(* Keeping the lines is transitive.                                        *)
LEMMA SameLinesOf ==
  ASSUME NEW t, TableOK(t), NEW u, TableOK(u), NEW v, TableOK(v), SameLines(u, t), SameLines(v, u)
  PROVE  SameLines(v, t)
<1>1. /\ t.next_unpartitioned_chunk \in Nat /\ u.next_unpartitioned_chunk \in Nat
      /\ v.next_unpartitioned_chunk \in Nat
  BY TableParts
<1> QED
  BY <1>1 DEF SameLines

(* The entry of a line names chunks that were handed out.                  *)
LEMMA EntryParts ==
  ASSUME NEW t, TableOK(t), NEW l \in LineIndex
  PROVE  /\ t.entries[l].phys_chunk_offset \in Nat /\ t.entries[l].allocated_chunks \in 0 .. 4
         /\ t.entries[l].phys_chunk_offset + t.entries[l].allocated_chunks <= t.next_unpartitioned_chunk
         /\ t.entries[l] \in EntryType
BY DEF TableOK, EntryOK, EntryType

(* A store ends up with the run it asked for in its hands, or with none.   *)
LEMMA KeepRunIs ==
  ASSUME NEW t, TableOK(t), NEW l \in LineIndex, NEW n \in 0 .. 4
  PROVE  LET a == KeepRun(t, t.entries[l], n) IN
         /\ TableOK(a.table) /\ SameLines(a.table, t)
         /\ \/ a.offset \in Nat /\ a.offset + n <= a.table.next_unpartitioned_chunk
            \/ a.offset = UINT32_MAX /\ n > 0
         /\ \A X : l \notin X /\ Ownership(t, X, {}) =>
              Ownership(a.table, X \cup {l},
                        IF a.offset = UINT32_MAX THEN {} ELSE Run(a.offset, n))
<1> DEFINE e == t.entries[l]
           a == KeepRun(t, e, n)
<1>1. /\ e.phys_chunk_offset \in Nat /\ e.allocated_chunks \in 0 .. 4
      /\ e.phys_chunk_offset + e.allocated_chunks <= t.next_unpartitioned_chunk
  BY EntryParts
<1>2. \A X : l \notin X /\ Ownership(t, X, {}) => Ownership(t, X \cup {l}, Held(t, l))
  BY TakeOut
<1>3. Held(t, l) = IF e.valid THEN Run(e.phys_chunk_offset, e.allocated_chunks) ELSE {}
  BY DEF Held
<1>4. SameLines(t, t)
  BY TableParts DEF SameLines
<1> HIDE DEF e
<1>5. CASE e.valid /\ e.allocated_chunks = n
  <2>1. a.table = t /\ a.offset = e.phys_chunk_offset
    BY <1>5 DEF KeepRun
  <2> HIDE DEF a
  <2>2. a.offset # UINT32_MAX
    BY <1>1, <2>1 DEF UINT32_MAX
  <2> QED
    BY <1>1, <1>2, <1>3, <1>4, <1>5, <2>1, <2>2 DEF a, e
<1>6. CASE ~(e.valid /\ e.allocated_chunks = n)
  <2> DEFINE f == IF e.valid THEN FreeChunks(t, e.phys_chunk_offset, e.allocated_chunks) ELSE t
  <2>1. a = AllocateChunks(f, n)
    BY <1>6 DEF KeepRun, Reallocate
  <2>2. /\ TableOK(f) /\ SameLines(f, t)
        /\ \A X : l \notin X /\ Ownership(t, X, {}) => Ownership(f, X \cup {l}, {})
    <3>1. CASE e.valid
      <4> DEFINE o == e.phys_chunk_offset
                 m == e.allocated_chunks
      <4>1. f = FreeChunks(t, o, m) /\ Held(t, l) = Run(o, m)
        BY <1>3, <3>1
      <4>2. o \in Nat /\ m \in 0 .. 4 /\ o + m <= t.next_unpartitioned_chunk
        BY <1>1
      <4> HIDE DEF f, o, m
      <4>3. /\ TableOK(FreeChunks(t, o, m)) /\ SameLines(FreeChunks(t, o, m), t)
            /\ \A Y : Ownership(t, Y, Run(o, m)) => Ownership(FreeChunks(t, o, m), Y, {})
        BY <4>2, FreeChunksIs
      <4> QED
        BY <1>2, <4>1, <4>3
    <3>2. CASE ~e.valid
      BY <1>2, <1>3, <1>4, <3>2
    <3> QED
      BY <3>1, <3>2
  <2> HIDE DEF f
  <2>3. LET b == AllocateChunks(f, n) IN
         /\ TableOK(b.table) /\ SameLines(b.table, f)
         /\ \/ b.offset \in Nat /\ b.offset + n <= b.table.next_unpartitioned_chunk
            \/ b.offset = UINT32_MAX /\ n > 0
         /\ \A Y : Ownership(f, Y, {}) =>
              Ownership(b.table, Y, IF b.offset = UINT32_MAX THEN {} ELSE Run(b.offset, n))
    BY <2>2, AllocateChunksIs
  <2> HIDE DEF a
  <2>4. /\ TableOK(a.table) /\ SameLines(a.table, f)
        /\ \/ a.offset \in Nat /\ a.offset + n <= a.table.next_unpartitioned_chunk
           \/ a.offset = UINT32_MAX /\ n > 0
        /\ \A Y : Ownership(f, Y, {}) =>
              Ownership(a.table, Y, IF a.offset = UINT32_MAX THEN {} ELSE Run(a.offset, n))
    BY <2>1, <2>3
  <2>5. SameLines(a.table, t)
    BY <2>2, <2>4, SameLinesOf
  <2> QED
    BY <2>2, <2>4, <2>5 DEF a, e
<1> QED
  BY <1>5, <1>6

(* A line whose entry has no chunks loses none when its store fails.       *)
LEMMA PutBack ==
  ASSUME NEW t, NEW X, NEW l \in LineIndex, Ownership(t, X \cup {l}, {}), Held(t, l) = {}
  PROVE  Ownership(t, X, {})
<1> DEFINE Y == X \cup {l}
<1>1. /\ \A m \in Holders(t, Y) : m \in Holders(t, X)
      /\ \A m \in Holders(t, X) : m \in Holders(t, Y) \/ Held(t, m) = {}
  BY DEF Holders
<1>2. Ownership(t, Y, {})
  OBVIOUS
<1> HIDE DEF Y
<1>3. Owned(t, X, {})
  <2>1. Owned(t, Y, {})
    BY <1>2 DEF Ownership
  <2>2. \A m \in Holders(t, X), k \in Holders(t, X) : m # k => Held(t, m) \cap Held(t, k) = {}
    BY <1>1, <2>1 DEF Owned
  <2>3. ASSUME NEW m \in Holders(t, X), NEW n \in 1 .. 4, NEW i \in 1 .. Len(t.free_chunks[n])
        PROVE  Held(t, m) \cap FreeAt(t, n, i) = {}
    BY <1>1, <2>1 DEF Owned
  <2> QED
    BY <2>1, <2>2, <2>3 DEF Owned
<1>4. AllOwned(t, X, {})
  BY <1>1, <1>2 DEF Ownership, AllOwned
<1>5. HeldBy(t, X) = HeldBy(t, Y)
  BY <1>1 DEF HeldBy
<1> QED
  BY <1>2, <1>3, <1>4, <1>5 DEF Ownership, Counted

(* A store that failed leaves the lines and the counts as they were, and   *)
(* the run of its line, if it had one, on a free list.                     *)
Failed(u, t, l) ==
  /\ TableOK(u) /\ SameLines(u, t)
  /\ \A X : l \notin X /\ Ownership(t, X, {}) =>
       /\ Ownership(u, X \cup {l}, {})
       /\ Held(t, l) = {} => Ownership(u, X, {})

(* A store that succeeded leaves its line in the run of its entry and the  *)
(* other lines as they were, if the entry can name the run.                *)
Stored(u, t, l, line) ==
  /\ TableOK(u) /\ t.next_unpartitioned_chunk <= u.next_unpartitioned_chunk
  /\ u.entries[l].valid = TRUE
  /\ \A m \in LineIndex : m # l => u.entries[m] = t.entries[m]
  /\ u.total_uncompressed_bytes_stored =
       t.total_uncompressed_bytes_stored + IF t.entries[l].valid THEN 0 ELSE 64
  /\ u.next_unpartitioned_chunk <= OFFSET_RANGE =>
       \A X : l \notin X /\ Ownership(t, X, {}) =>
         /\ Ownership(u, X, {})
         /\ Fetch(u, u.entries[l]) = line
         /\ \A m \in LineIndex \ X : m # l => Fetch(u, u.entries[m]) = Fetch(t, t.entries[m])

(* A StoreLine that returns false does no more than that.                  *)
LEMMA StoreFails ==
  ASSUME NEW t, TableOK(t), NEW l \in LineIndex, NEW c, NEW line, Faithful(c, line),
         ~StoreLine(t, l, c).ok
  PROVE  Failed(StoreLine(t, l, c).table, t, l)
<1> DEFINE n == Needed(c)
           a == KeepRun(t, t.entries[l], n)
<1>1. n \in 0 .. 4
  BY NeededIs
<1>2. /\ TableOK(a.table) /\ SameLines(a.table, t)
      /\ \A X : l \notin X /\ Ownership(t, X, {}) =>
              Ownership(a.table, X \cup {l},
                        IF a.offset = UINT32_MAX THEN {} ELSE Run(a.offset, n))
  BY <1>1, KeepRunIs
<1>3. StoreLine(t, l, c).table = a.table /\ a.offset = UINT32_MAX
  BY DEF StoreLine
<1> HIDE DEF a
<1>4. ASSUME NEW X, l \notin X, Ownership(t, X, {})
      PROVE  /\ Ownership(a.table, X \cup {l}, {})
             /\ Held(t, l) = {} => Ownership(a.table, X, {})
  <2>1. Ownership(a.table, X \cup {l}, {})
    BY <1>2, <1>3, <1>4
  <2>2. Held(a.table, l) = Held(t, l)
    BY <1>2 DEF SameLines, Held
  <2> QED
    BY <2>1, <2>2, PutBack
<1> QED
  BY <1>2, <1>3, <1>4 DEF Failed

(* Counting the bytes of a line changes one member.                        *)
LEMMA WithTotal ==
  ASSUME NEW v \in TableType, NEW x \in Int
  PROVE  LET w == [v EXCEPT !.total_uncompressed_bytes_stored = @ + x] IN
         /\ w \in TableType
         /\ w.entries = v.entries /\ w.physical_dram = v.physical_dram
         /\ w.free_chunks = v.free_chunks
         /\ w.next_unpartitioned_chunk = v.next_unpartitioned_chunk
         /\ w.allocated_chunks_count = v.allocated_chunks_count
         /\ w.total_uncompressed_bytes_stored = v.total_uncompressed_bytes_stored + x
<1> DEFINE y == v.total_uncompressed_bytes_stored + x
           w == [v EXCEPT !.total_uncompressed_bytes_stored = y]
<1>1. y \in Int
  <2>1. v.total_uncompressed_bytes_stored \in Int
    BY DEF TableType
  <2> QED
    BY <2>1
<1> HIDE DEF y
<1>2. w \in TableType
  BY <1>1 DEF TableType
<1>3. /\ w.entries = v.entries /\ w.physical_dram = v.physical_dram
      /\ w.free_chunks = v.free_chunks
      /\ w.next_unpartitioned_chunk = v.next_unpartitioned_chunk
      /\ w.allocated_chunks_count = v.allocated_chunks_count
      /\ w.total_uncompressed_bytes_stored = y
  BY <1>1 DEF TableType
<1>4. [v EXCEPT !.total_uncompressed_bytes_stored = @ + x] = w
  BY DEF y
<1> HIDE DEF w
<1> QED
  BY <1>2, <1>3, <1>4 DEF y

(* The parts of what a successful store leaves behind.                     *)
OthersKept(u, t, o, n) ==
  \A k \in Chunks : k \notin Run(o, n) => u.physical_dram[k] = t.physical_dram[k]

EntryOf(c, o) ==
  [phys_chunk_offset |-> IF Needed(c) > 0 THEN o % OFFSET_RANGE ELSE 0,
   allocated_chunks |-> Needed(c), pattern_tag |-> c.pattern, valid |-> TRUE]

StoreEffect(u, t, v, l, o, c) ==
  /\ o \in Nat /\ o + Needed(c) <= v.next_unpartitioned_chunk
  /\ u.entries = [t.entries EXCEPT ![l] = EntryOf(c, o)]
  /\ u.next_unpartitioned_chunk = v.next_unpartitioned_chunk
  /\ u.free_chunks = v.free_chunks
  /\ u.allocated_chunks_count = v.allocated_chunks_count
  /\ u.total_uncompressed_bytes_stored =
       t.total_uncompressed_bytes_stored + IF t.entries[l].valid THEN 0 ELSE 64
  /\ u = [entries |-> u.entries, physical_dram |-> u.physical_dram,
          free_chunks |-> u.free_chunks,
          next_unpartitioned_chunk |-> u.next_unpartitioned_chunk,
          allocated_chunks_count |-> u.allocated_chunks_count,
          total_uncompressed_bytes_stored |-> u.total_uncompressed_bytes_stored]
  /\ u.physical_dram \in [Chunks -> [1 .. SLOT_CHUNK_SIZE -> Byte]]
  /\ OthersKept(u, t, o, Needed(c))
  /\ Needed(c) > 0 => Holds(u, o, c.data)

(* What StoreLine writes, member by member.                                *)
LEMMA StoreParts ==
  ASSUME NEW t, TableOK(t), NEW l \in LineIndex, NEW c, NEW line, Faithful(c, line),
         StoreLine(t, l, c).ok
  PROVE  LET a == KeepRun(t, t.entries[l], Needed(c))
         IN  StoreEffect(StoreLine(t, l, c).table, t, a.table, l, a.offset, c)
<1> DEFINE n == Needed(c)
           a == KeepRun(t, t.entries[l], n)
           v == a.table
           u == StoreLine(t, l, c).table
           x == IF t.entries[l].valid THEN 0 ELSE 64
           counted == [v EXCEPT !.total_uncompressed_bytes_stored = @ + x]
           written == IF n > 0 THEN WriteData(counted, a.offset, c.data) ELSE counted
           e == [phys_chunk_offset |-> IF n > 0 THEN a.offset % OFFSET_RANGE ELSE 0,
                 allocated_chunks |-> n, pattern_tag |-> c.pattern, valid |-> TRUE]
<1>1. n \in 0 .. 4 /\ (n > 0 => Len(c.data) <= n * SLOT_CHUNK_SIZE)
  BY NeededIs
<1>2. /\ TableOK(v) /\ SameLines(v, t)
      /\ \/ a.offset \in Nat /\ a.offset + n <= v.next_unpartitioned_chunk
         \/ a.offset = UINT32_MAX /\ n > 0
  BY <1>1, KeepRunIs
<1>3. ~(n > 0 /\ a.offset = UINT32_MAX)
  BY DEF StoreLine
<1>4. u = [written EXCEPT !.entries[l] = e]
  BY <1>3 DEF StoreLine, CACHE_LINE_SIZE
<1>5. a.offset \in Nat /\ a.offset + n <= v.next_unpartitioned_chunk
  BY <1>2, <1>3
<1>6. /\ v.entries = t.entries /\ v.physical_dram = t.physical_dram
      /\ v.total_uncompressed_bytes_stored = t.total_uncompressed_bytes_stored
  BY <1>2 DEF SameLines
<1>7. v \in TableType
  BY <1>2 DEF TableOK
<1>8. t.physical_dram \in [Chunks -> [1 .. SLOT_CHUNK_SIZE -> Byte]]
  BY TableParts
<1>9. c.data \in Seq(Byte)
  BY DEF Faithful
<1> DEFINE o == a.offset
           data == c.data
           d == [k \in Chunks |-> [i \in 1 .. SLOT_CHUNK_SIZE |->
                     LET j == (k - o) * SLOT_CHUNK_SIZE + i
                     IN  IF j \in DOMAIN data THEN data[j] ELSE t.physical_dram[k][i]]]
<1>10. x \in Int
  OBVIOUS
<1>11. /\ counted \in TableType
       /\ counted.entries = t.entries /\ counted.physical_dram = t.physical_dram
       /\ counted.free_chunks = v.free_chunks
       /\ counted.next_unpartitioned_chunk = v.next_unpartitioned_chunk
       /\ counted.allocated_chunks_count = v.allocated_chunks_count
       /\ counted.total_uncompressed_bytes_stored = t.total_uncompressed_bytes_stored + x
  <2> HIDE DEF x, v
  <2> QED
    BY <1>6, <1>7, <1>10, WithTotal
<1>12. written = IF n > 0 THEN [counted EXCEPT !.physical_dram = d] ELSE counted
  <2> HIDE DEF counted, o, data, n
  <2> QED
    BY <1>11 DEF WriteData, o, data
<1> HIDE DEF n, a, v, u, x, counted, written, e, o, data, d
<1>13. /\ u.entries = [t.entries EXCEPT ![l] = e]
       /\ u.next_unpartitioned_chunk = v.next_unpartitioned_chunk
       /\ u.free_chunks = v.free_chunks
       /\ u.allocated_chunks_count = v.allocated_chunks_count
       /\ u.total_uncompressed_bytes_stored = t.total_uncompressed_bytes_stored + x
       /\ u.physical_dram = IF n > 0 THEN d ELSE t.physical_dram
       /\ u = [entries |-> u.entries, physical_dram |-> u.physical_dram,
               free_chunks |-> u.free_chunks,
               next_unpartitioned_chunk |-> u.next_unpartitioned_chunk,
               allocated_chunks_count |-> u.allocated_chunks_count,
               total_uncompressed_bytes_stored |-> u.total_uncompressed_bytes_stored]
  <2>1. CASE n > 0
    <3>1. written = [counted EXCEPT !.physical_dram = d]
      BY <1>12, <2>1
    <3>2. u = [counted EXCEPT !.physical_dram = d, !.entries = [t.entries EXCEPT ![l] = e]]
      BY <1>4, <1>11, <3>1 DEF TableType
    <3> QED
      BY <1>11, <2>1, <3>2 DEF TableType
  <2>2. CASE ~(n > 0)
    <3>2. u = [counted EXCEPT !.entries = [t.entries EXCEPT ![l] = e]]
      BY <1>4, <1>11, <1>12, <2>2 DEF TableType
    <3> QED
      BY <1>11, <2>2, <3>2 DEF TableType
  <2> QED
    BY <2>1, <2>2
<1>14. /\ u.physical_dram \in [Chunks -> [1 .. SLOT_CHUNK_SIZE -> Byte]]
       /\ \A k \in Chunks : k \notin Run(o, n) => u.physical_dram[k] = t.physical_dram[k]
       /\ n > 0 => \A k \in Chunks, i \in 1 .. SLOT_CHUNK_SIZE :
            (k - o) * SLOT_CHUNK_SIZE + i \in 1 .. Len(data) =>
              u.physical_dram[k][i] = data[(k - o) * SLOT_CHUNK_SIZE + i]
  <2>1. CASE n > 0
    <3>1. n \in 1 .. 4 /\ o \in Nat /\ data \in Seq(Byte) /\ Len(data) <= n * SLOT_CHUNK_SIZE
      BY <1>1, <1>5, <1>9, <2>1 DEF o, data
    <3>2. /\ d \in [Chunks -> [1 .. SLOT_CHUNK_SIZE -> Byte]]
          /\ \A k \in Chunks : k \notin Run(o, n) => d[k] = t.physical_dram[k]
          /\ \A k \in Chunks, i \in 1 .. SLOT_CHUNK_SIZE :
              (k - o) * SLOT_CHUNK_SIZE + i \in 1 .. Len(data) =>
                d[k][i] = data[(k - o) * SLOT_CHUNK_SIZE + i]
      BY <1>8, <3>1, WriteDataIs DEF d
    <3> QED
      BY <1>13, <2>1, <3>2
  <2>2. CASE ~(n > 0)
    BY <1>8, <1>13, <2>2
  <2> QED
    BY <2>1, <2>2
<1> QED
  BY <1>5, <1>13, <1>14
  DEF StoreEffect, EntryOf, OthersKept, Holds, n, a, v, u, x, e, o, data

(* The run in a store's hands is no other line's.                          *)
LEMMA OwnershipDisjoint ==
  ASSUME NEW t, NEW X, NEW R, Ownership(t, X, R), NEW m \in LineIndex \ X
  PROVE  Held(t, m) \cap R = {}
<1>1. CASE t.entries[m].valid
  BY <1>1 DEF Ownership, Owned, Holders
<1>2. CASE ~t.entries[m].valid
  BY <1>2 DEF Held
<1> QED
  BY <1>1, <1>2

(* A line whose chunks were not written reads as before.                   *)
LEMMA FetchKept ==
  ASSUME NEW t, TableOK(t), NEW u, NEW o \in Nat, NEW n \in Nat, NEW m \in LineIndex,
         OthersKept(u, t, o, n),
         Held(t, m) \cap Run(o, n) = {}
  PROVE  Fetch(u, t.entries[m]) = Fetch(t, t.entries[m])
<1> DEFINE e == t.entries[m]
<1>1. e \in EntryType
  BY EntryParts
<1>2. CASE ~e.valid
  BY <1>2, FetchIs
<1>3. CASE e.valid
  <2>1. Held(t, m) = Run(e.phys_chunk_offset, e.allocated_chunks)
    BY <1>3 DEF Held
  <2>2. Held(t, m) \subseteq Chunks
    <3>1. Held(t, m) \subseteq 0 .. t.next_unpartitioned_chunk - 1
      BY HeldIs
    <3> DEFINE next == t.next_unpartitioned_chunk
               total == total_physical_chunks
    <3>2. next \in Nat /\ total \in Nat /\ next <= total
      BY TableParts
    <3>3. Held(t, m) \subseteq 0 .. next - 1
      BY <3>1
    <3> HIDE DEF next, total
    <3>4. 0 .. next - 1 \subseteq 0 .. total - 1
      BY <3>2
    <3> QED
      BY <3>3, <3>4 DEF Chunks, total
  <2>3. \A k \in Run(e.phys_chunk_offset, e.allocated_chunks) :
          u.physical_dram[k] = t.physical_dram[k]
    BY <2>1, <2>2 DEF OthersKept
  <2> HIDE DEF e
  <2> QED
    BY <1>1, <2>3, FetchSame DEF e
<1> QED
  BY <1>2, <1>3

(* A StoreLine that returns true does that.                                *)
LEMMA StoreSucceeds ==
  ASSUME NEW t, TableOK(t), NEW l \in LineIndex, NEW c, NEW line, Faithful(c, line),
         StoreLine(t, l, c).ok
  PROVE  Stored(StoreLine(t, l, c).table, t, l, line)
<1> DEFINE n == Needed(c)
           a == KeepRun(t, t.entries[l], n)
           v == a.table
           o == a.offset
           u == StoreLine(t, l, c).table
           x == IF t.entries[l].valid THEN 0 ELSE 64
           next == v.next_unpartitioned_chunk
           p == IF n > 0 THEN o % OFFSET_RANGE ELSE 0
           e == EntryOf(c, o)
<1>1. /\ n \in 0 .. 4
      /\ c.pattern = "ZEROS" <=> n = 0
      /\ c.pattern = "UNCOMPRESSED" => n = 4
      /\ c.pattern \in BDIPattern
  BY NeededIs DEF Faithful
<1>2. /\ TableOK(v) /\ SameLines(v, t)
      /\ \A X : l \notin X /\ Ownership(t, X, {}) =>
              Ownership(v, X \cup {l}, IF o = UINT32_MAX THEN {} ELSE Run(o, n))
  BY <1>1, KeepRunIs
<1>0. StoreEffect(u, t, v, l, o, c)
  BY StoreParts
<1> HIDE DEF a, u, e, n
<1>3. /\ o \in Nat /\ o + n <= next
      /\ u.entries = [t.entries EXCEPT ![l] = e]
      /\ u.next_unpartitioned_chunk = next
      /\ u.free_chunks = v.free_chunks
      /\ u.allocated_chunks_count = v.allocated_chunks_count
      /\ u.total_uncompressed_bytes_stored = t.total_uncompressed_bytes_stored + x
  BY <1>0 DEF StoreEffect, e, n
<1>4. u = [entries |-> u.entries, physical_dram |-> u.physical_dram,
           free_chunks |-> u.free_chunks,
           next_unpartitioned_chunk |-> u.next_unpartitioned_chunk,
           allocated_chunks_count |-> u.allocated_chunks_count,
           total_uncompressed_bytes_stored |-> u.total_uncompressed_bytes_stored]
  BY <1>0 DEF StoreEffect
<1>5. /\ u.physical_dram \in [Chunks -> [1 .. SLOT_CHUNK_SIZE -> Byte]]
      /\ OthersKept(u, t, o, n)
      /\ n > 0 => Holds(u, o, c.data)
  BY <1>0 DEF StoreEffect, n
<1>6. v.entries = t.entries /\ t.next_unpartitioned_chunk <= next
  BY <1>2 DEF SameLines
<1>7. x \in Int /\ o # UINT32_MAX
  BY <1>3 DEF UINT32_MAX
<1>8. next \in Nat /\ total_physical_chunks \in Nat /\ next <= total_physical_chunks
  BY <1>2, TableParts
<1> HIDE DEF v, o, x, next, p
<1>9. p \in Nat /\ p <= o /\ (next <= OFFSET_RANGE /\ n > 0 => p = o)
  BY <1>1, <1>3, <1>8, TableAssumption DEF p
<1>11. e.phys_chunk_offset = p /\ e.allocated_chunks = n /\ e.pattern_tag = c.pattern /\ e.valid = TRUE
  BY DEF e, EntryOf, p, n
<1>10. EntryOK(e, next)
  <2>1. e = [phys_chunk_offset |-> p, allocated_chunks |-> n, pattern_tag |-> c.pattern, valid |-> TRUE]
    BY DEF e, EntryOf, p, n
  <2>2. e \in EntryType
    BY <1>1, <1>9, <2>1 DEF EntryType
  <2>3. p + n <= next
    BY <1>1, <1>3, <1>8, <1>9
  <2> QED
    BY <1>1, <1>11, <2>2, <2>3 DEF EntryOK
<1>12. t.entries \in [LineIndex -> EntryType] /\ e \in EntryType
  BY <1>10, TableParts DEF EntryOK
<1>13. u.entries[l] = e /\ \A m \in LineIndex : m # l => u.entries[m] = t.entries[m]
  BY <1>3, <1>12
<1>14. TableOK(u)
  <2>1. \A m \in LineIndex : EntryOK(v.entries[m], next)
    BY <1>2, TableParts DEF next
  <2>2. \A m \in LineIndex : EntryOK(u.entries[m], next)
    BY <1>6, <1>10, <1>13, <2>1
  <2>3. FreeListsOK(u.free_chunks, next)
    BY <1>2, <1>3, TableParts DEF next
  <2>4. v \in TableType
    BY <1>2 DEF TableOK
  <2>5. u \in TableType
    <3>1. u.entries \in [LineIndex -> EntryType]
      BY <1>3, <1>12
    <3>2. u.next_unpartitioned_chunk \in 0 .. total_physical_chunks
      BY <1>3, <1>8
    <3>3. u.free_chunks \in [1 .. 4 -> Seq(Nat)] /\ u.allocated_chunks_count \in Int
      BY <1>2, <1>3, TableParts
    <3>5. t.total_uncompressed_bytes_stored \in Int
      BY TableParts
    <3>4. u.total_uncompressed_bytes_stored \in Int
      BY <1>3, <1>7, <3>5
    <3> QED
      BY <1>4, <1>5, <3>1, <3>2, <3>3, <3>4 DEF TableType
  <2> QED
    BY <1>3, <2>2, <2>3, <2>5 DEF TableOK
<1>15. ASSUME next <= OFFSET_RANGE, NEW X, l \notin X, Ownership(t, X, {})
       PROVE  /\ Ownership(u, X, {})
              /\ Fetch(u, u.entries[l]) = line
              /\ \A m \in LineIndex \ X : m # l => Fetch(u, u.entries[m]) = Fetch(t, t.entries[m])
  <2>1. Ownership(v, X \cup {l}, Run(o, n))
    BY <1>2, <1>7, <1>15
  <2>2. Run(e.phys_chunk_offset, e.allocated_chunks) = Run(o, n)
    <3>1. CASE n > 0
      BY <1>9, <1>11, <1>15, <3>1
    <3>2. CASE ~(n > 0)
      <4>1. n = 0
        BY <1>1, <3>2
      <4> QED
        BY <1>3, <1>9, <1>11, <4>1 DEF Run
    <3> QED
      BY <3>1, <3>2
  <2>3. Ownership(u, X, {})
    <3>1. Ownership(v, X \cup {l}, Run(e.phys_chunk_offset, e.allocated_chunks))
      BY <2>1, <2>2
    <3>2. v.entries \in [LineIndex -> EntryType]
      BY <1>6, <1>12
    <3>3. u.entries = [v.entries EXCEPT ![l] = e] /\ u.next_unpartitioned_chunk = v.next_unpartitioned_chunk
      BY <1>3, <1>6 DEF next
    <3> QED
      BY <1>3, <1>11, <1>15, <3>1, <3>2, <3>3, PutIn
  <2>4. Fetch(u, e) = line
    <3>1. CASE n = 0
      <4>1. c.pattern = "ZEROS"
        BY <1>1, <3>1
      <4> QED
        BY <1>11, <4>1, FetchIs DEF Faithful
    <3>2. CASE n # 0
      <4>1. e.phys_chunk_offset = o
        BY <1>1, <1>9, <1>11, <1>15, <3>2
      <4>2. o + n <= total_physical_chunks
        BY <1>1, <1>3, <1>8
      <4>3. e.phys_chunk_offset + e.allocated_chunks <= total_physical_chunks
        BY <1>11, <4>1, <4>2
      <4>4. Holds(u, e.phys_chunk_offset, c.data)
        BY <1>1, <1>5, <3>2, <4>1
      <4>5. e.allocated_chunks = Needed(c)
        BY <1>11 DEF n
      <4> QED
        BY <1>5, <1>11, <1>12, <4>3, <4>4, <4>5, FetchWritten
    <3> QED
      BY <3>1, <3>2
  <2>5. ASSUME NEW m \in LineIndex \ X, m # l
        PROVE  Fetch(u, u.entries[m]) = Fetch(t, t.entries[m])
    <3>1. Held(v, m) \cap Run(o, n) = {}
      BY <2>1, <2>5, OwnershipDisjoint
    <3>2. Held(t, m) \cap Run(o, n) = {}
      BY <1>6, <3>1 DEF Held
    <3>3. n \in Nat
      BY <1>1
    <3>4. Fetch(u, t.entries[m]) = Fetch(t, t.entries[m])
      BY <1>3, <1>5, <3>2, <3>3, FetchKept
    <3> QED
      BY <1>13, <2>5, <3>4
  <2> QED
    BY <1>13, <2>3, <2>4, <2>5
<1> QED
  BY <1>3, <1>6, <1>11, <1>13, <1>14, <1>15 DEF Stored, u, x

(* The smaller of two.                                                     *)
LEMMA MinOfTwo ==
  ASSUME NEW a \in Int, NEW b \in Int
  PROVE  Min({a, b}) = IF a <= b THEN a ELSE b
BY DEF Min

(* Where a call in progress is.                                            *)
LEMMA PartIs ==
  ASSUME NEW c, c.address \in Nat, c.size \in Nat, c.done \in Nat,
         c.done < c.size, c.address + c.size <= virtual_capacity
  PROVE  /\ LineOf(c) \in LineIndex /\ LineOf(c) \in Nat
         /\ OffsetOf(c) \in 0 .. 63
         /\ c.address + c.done = 64 * LineOf(c) + OffsetOf(c)
         /\ PartOf(c) \in 1 .. 64
         /\ c.done + PartOf(c) <= c.size /\ OffsetOf(c) + PartOf(c) <= 64
         /\ c.done + PartOf(c) = c.size \/ OffsetOf(c) + PartOf(c) = 64
<1> DEFINE x == c.address + c.done
           r == c.size - c.done
           l == LineOf(c)
           o == OffsetOf(c)
           n == PartOf(c)
           vc == virtual_capacity
           total == total_logical_lines
<1>1. x \in Nat /\ r \in Nat /\ r > 0 /\ x + r <= vc /\ vc \in Nat
  BY TableAssumption
<1>2. l = x \div 64 /\ o = x % 64
  BY DEF LineOf, OffsetOf, CACHE_LINE_SIZE
<1>3. total = (vc + 64 - 1) \div 64
  BY DEF total_logical_lines, CACHE_LINE_SIZE
<1>4. n = Min({r, 64 - o})
  BY DEF PartOf, CACHE_LINE_SIZE
<1> HIDE DEF x, r, l, o, n, vc, total
<1>5. l \in Nat /\ o \in 0 .. 63 /\ x = 64 * l + o
  BY <1>1, <1>2
<1>6. l \in 0 .. total - 1
  <2>1. x <= vc - 1
    BY <1>1
  <2>2. total = (vc - 1) \div 64 + 1
    BY <1>1, <1>3
  <2>3. x \div 64 <= (vc - 1) \div 64
    BY <1>1, <2>1
  <2> QED
    BY <1>1, <1>2, <1>5, <2>2, <2>3
<1>7. n = IF r <= 64 - o THEN r ELSE 64 - o
  <2> DEFINE p == 64 - o
  <2>1. p \in Int
    BY <1>5
  <2> HIDE DEF p
  <2>2. Min({r, p}) = IF r <= p THEN r ELSE p
    BY <1>1, <2>1, MinOfTwo
  <2> QED
    BY <1>4, <2>2 DEF p
<1>8. n \in 1 .. 64 /\ n <= r /\ o + n <= 64 /\ (n = r \/ o + n = 64)
  BY <1>1, <1>5, <1>7
<1>9. c.done + n <= c.size /\ (n = r => c.done + n = c.size)
  BY <1>8 DEF r
<1> QED
  BY <1>5, <1>6, <1>8, <1>9 DEF x, l, o, n, total, LineIndex

(* A thread outside a call is in order.                                    *)
LEMMA IdleIs == Idle \in ThreadType /\ \A next \in Nat : ThreadOK(Idle, next)
<1>1. NoEntry \in EntryType /\ \A next \in Nat : EntryOK(NoEntry, next)
  BY DEF NoEntry, EntryType, EntryOK, BDIPattern
<1>2. Idle \in ThreadType
  BY <1>1, ZeroIsLine DEF Idle, ThreadType
<1> QED
  BY <1>1, <1>2 DEF Idle, ThreadOK

(* A call at the start of a line is in order.                              *)
LEMMA AtLineOK ==
  ASSUME NEW c, c.op \in {"Read", "Write"}, c.address \in Nat, c.size \in Nat,
         c.src \in Seq(Byte), c.op = "Write" => Len(c.src) = c.size,
         NEW done \in Nat, done < c.size, c.address + c.size <= virtual_capacity,
         done = 0 \/ (c.address + done) % 64 = 0,
         NEW next \in Nat
  PROVE  /\ ThreadOK(AtLine(c, done), next)
         /\ AtLine(c, done).pc = "line"
         /\ AtLine(c, done).op = c.op /\ AtLine(c, done).done = done
<1> DEFINE a == AtLine(c, done)
<1> DEFINE op == c.op
           address == c.address
           size == c.size
           src == c.src
<1>1. /\ op \in {"Read", "Write"} /\ address \in Nat /\ size \in Nat /\ src \in Seq(Byte)
      /\ op = "Write" => Len(src) = size
      /\ done < size /\ address + size <= virtual_capacity
      /\ done = 0 \/ (address + done) % 64 = 0
  OBVIOUS
<1>2. a = [Idle EXCEPT !.pc = "line", !.op = op, !.address = address, !.size = size,
                       !.src = src, !.done = done]
  BY DEF AtLine
<1>3. Idle \in ThreadType /\ Idle.entry = NoEntry
  BY IdleIs DEF Idle
<1> HIDE DEF a, op, address, size, src
<1>4. /\ a \in ThreadType
      /\ a.pc = "line" /\ a.op = op /\ a.address = address /\ a.size = size
      /\ a.src = src /\ a.done = done /\ a.entry = NoEntry
  BY <1>1, <1>2, <1>3 DEF ThreadType
<1>5. EntryOK(NoEntry, next)
  BY DEF NoEntry, EntryType, EntryOK, BDIPattern
<1>6. InRange(a)
  BY <1>1, <1>4 DEF InRange, OffsetOf, CACHE_LINE_SIZE
<1> QED
  BY <1>4, <1>5, <1>6 DEF ThreadOK, a, op

(* The parts of a thread that is in order.                                 *)
LEMMA ThreadParts ==
  ASSUME NEW c, NEW next, ThreadOK(c, next)
  PROVE  /\ c.pc \in {"idle", "line", "fetch", "store"} /\ c.op \in {"Read", "Write"}
         /\ c.address \in Nat /\ c.size \in Nat /\ c.src \in Seq(Byte) /\ c.done \in Nat
         /\ c.entry \in EntryType /\ EntryOK(c.entry, next)
         /\ c.line_buf \in Line /\ c.overtaken \in BOOLEAN
         /\ c.pc # "idle" =>
              /\ c.done < c.size /\ c.address + c.size <= virtual_capacity
              /\ c.op = "Write" => Len(c.src) = c.size
BY DEF ThreadOK, ThreadType, InRange

(* After a line a call is at the next one, or over.                        *)
LEMMA AdvancedIs ==
  ASSUME NEW next \in Nat, NEW c, ThreadOK(c, next), c.pc # "idle"
  PROVE  /\ ThreadOK(Advanced(c), next)
         /\ Advanced(c).pc \in {"idle", "line"}
         /\ Progress(Advanced(c)) =
              IF c.op = "Write" /\ c.done + PartOf(c) < c.size THEN c.done + PartOf(c) ELSE 0
<1> DEFINE n == PartOf(c)
           d == c.done + n
<1>1. /\ c.address \in Nat /\ c.size \in Nat /\ c.done \in Nat
      /\ c.done < c.size /\ c.address + c.size <= virtual_capacity
      /\ c.op \in {"Read", "Write"} /\ c.src \in Seq(Byte)
      /\ c.op = "Write" => Len(c.src) = c.size
  BY ThreadParts
<1>2. /\ n \in 1 .. 64 /\ d <= c.size
      /\ d = c.size \/ OffsetOf(c) + n = 64
      /\ c.address + c.done = 64 * LineOf(c) + OffsetOf(c)
      /\ LineOf(c) \in Nat /\ OffsetOf(c) \in 0 .. 63
  BY <1>1, PartIs
<1> DEFINE a == c.address
           e == c.done
           l == LineOf(c)
           o == OffsetOf(c)
           size == c.size
<1>5. /\ a \in Nat /\ e \in Nat /\ size \in Nat /\ l \in Nat /\ o \in 0 .. 63 /\ n \in 1 .. 64
      /\ d = e + n /\ d <= size /\ (d = size \/ o + n = 64) /\ a + e = 64 * l + o
  BY <1>1, <1>2
<1> HIDE DEF a, e, l, o, n, d, size
<1>3. CASE d = size
  <2>1. Advanced(c) = Idle
    BY <1>3 DEF Advanced, d, n, size
  <2>2. Idle.pc = "idle" /\ Progress(Idle) = 0
    BY DEF Idle, Progress
  <2>3. ~(d < size)
    BY <1>5, <1>3
  <2> QED
    BY <2>1, <2>2, <2>3, IdleIs DEF d, n, size
<1>4. CASE d # size
  <2>1. Advanced(c) = AtLine(c, d)
    BY <1>4 DEF Advanced, d, n, size
  <2>2. d \in Nat /\ d < size
    BY <1>5, <1>4
  <2>3. (a + d) % 64 = 0
    <3>3. a + d = 64 * (l + 1)
      BY <1>4, <1>5
    <3>4. (64 * (l + 1)) % 64 = 0
      BY <1>5
    <3> QED
      BY <3>3, <3>4
  <2>4. /\ ThreadOK(AtLine(c, d), next) /\ AtLine(c, d).pc = "line"
        /\ AtLine(c, d).op = c.op /\ AtLine(c, d).done = d
    BY <1>1, <2>2, <2>3, AtLineOK DEF a, size
  <2>5. Progress(AtLine(c, d)) = IF c.op = "Write" /\ d < size THEN d ELSE 0
    BY <2>2, <2>4 DEF Progress
  <2> QED
    BY <2>1, <2>4, <2>5 DEF d, n, size
<1> QED
  BY <1>3, <1>4

(* What a write merges is what it wants stored.                            *)
LEMMA MergeIs ==
  ASSUME NEW next \in Nat, NEW c, ThreadOK(c, next), c.pc # "idle", c.op = "Write",
         NEW line \in Line
  PROVE  Merge(c, line) \in Line /\ Merge(c, line) = Wanted(c, line)
<1> DEFINE n == PartOf(c)
           o == OffsetOf(c)
           l == LineOf(c)
           a == c.address
           d == c.done
           size == c.size
           src == c.src
<1>1. /\ a \in Nat /\ size \in Nat /\ d \in Nat /\ src \in Seq(Byte) /\ Len(src) = size
      /\ d < size /\ a + size <= virtual_capacity
  BY ThreadParts
<1>2. /\ n \in 1 .. 64 /\ d + n <= size /\ o + n <= 64
      /\ d + n = size \/ o + n = 64
      /\ a + d = 64 * l + o /\ l \in Nat /\ o \in 0 .. 63
  BY <1>1, PartIs
<1>3. d = 0 \/ o = 0
  BY DEF ThreadOK, InRange
<1>4. Covered(c) = o + 1 .. o + n
  BY DEF Covered
<1>5. Merge(c, line) = [i \in 1 .. 64 |-> IF i \in Covered(c) THEN src[d + i - o] ELSE line[i]]
  BY DEF Merge, CACHE_LINE_SIZE
<1>6. Wanted(c, line) = [i \in 1 .. 64 |-> IF l * 64 + i - a \in 1 .. size
                                           THEN src[l * 64 + i - a] ELSE line[i]]
  BY DEF Wanted, CACHE_LINE_SIZE
<1> HIDE DEF n, o, l, a, d, size, src
<1>7. ASSUME NEW i \in 1 .. 64
      PROVE  /\ i \in Covered(c) <=> l * 64 + i - a \in 1 .. size
             /\ i \in Covered(c) => l * 64 + i - a = d + i - o
  BY <1>1, <1>2, <1>3, <1>4
<1>8. Merge(c, line) = Wanted(c, line)
  BY <1>5, <1>6, <1>7
<1>9. \A k \in 1 .. size : src[k] \in Byte
  BY <1>1
<1>10. Wanted(c, line) \in Line
  <2>1. ASSUME NEW i \in 1 .. 64
        PROVE  (IF l * 64 + i - a \in 1 .. size THEN src[l * 64 + i - a] ELSE line[i]) \in Byte
    <3>1. line[i] \in Byte
      BY DEF Line, CACHE_LINE_SIZE
    <3> QED
      BY <1>9, <3>1
  <2> QED
    BY <1>6, <2>1 DEF Line, CACHE_LINE_SIZE
<1> QED
  BY <1>8, <1>10

(* There are finitely many patterns.                                       *)
LEMMA PatternsFinite == IsFiniteSet(BDIPattern)
<1> DEFINE A == {"ZEROS"} \cup {"REP_WORD"}
           B == A \cup {"UNCOMPRESSED"}
           C == B \cup {"BASE8_DELTA1"}
           D == C \cup {"BASE8_DELTA2"}
           E == D \cup {"BASE8_DELTA4"}
           F == E \cup {"BASE4_DELTA1"}
           G == F \cup {"BASE4_DELTA2"}
           H == G \cup {"BASE2_DELTA1"}
<1>1. IsFiniteSet({"ZEROS"})
  BY FS_Singleton
<1>2. IsFiniteSet(A)
  BY <1>1, FS_AddElement
<1>3. IsFiniteSet(B)
  BY <1>2, FS_AddElement
<1>4. IsFiniteSet(C)
  BY <1>3, FS_AddElement
<1>5. IsFiniteSet(D)
  BY <1>4, FS_AddElement
<1>6. IsFiniteSet(E)
  BY <1>5, FS_AddElement
<1>7. IsFiniteSet(F)
  BY <1>6, FS_AddElement
<1>8. IsFiniteSet(G)
  BY <1>7, FS_AddElement
<1>9. IsFiniteSet(H)
  BY <1>8, FS_AddElement
<1>10. BDIPattern \subseteq H
  BY DEF BDIPattern, Shapes
<1> QED
  BY <1>9, <1>10, FS_Subset

(* The bytes counted, as sums of functions.                                *)
LEMMA BytesAreSums ==
  BytesCounted <=>
    telemetry.bytes_written + SumOf(InProgress, Threads) <= 64 * SumOf(telemetry.pattern_counts, BDIPattern)
BY DEF BytesCounted, SumOf, CACHE_LINE_SIZE

(* The invariant holds after construction.                                 *)
LEMMA InductiveInit == Init => Inductive
<1> SUFFICES ASSUME Init PROVE Inductive
  OBVIOUS
<1>1. /\ table = NewTable /\ telemetry = NoTelemetry
      /\ thread = [t \in Threads |-> Idle]
      /\ content = [l \in LineIndex |-> ZeroLine]
      /\ lost = {} /\ misused = FALSE
  BY DEF Init
<1>2. /\ table.entries = [l \in LineIndex |-> NoEntry]
      /\ table.physical_dram = [c \in Chunks |-> [i \in 1 .. SLOT_CHUNK_SIZE |-> 0]]
      /\ table.free_chunks = [n \in 1 .. 4 |-> <<>>]
      /\ table.next_unpartitioned_chunk = 0
      /\ table.allocated_chunks_count = 0 /\ table.total_uncompressed_bytes_stored = 0
      /\ table = [entries |-> table.entries, physical_dram |-> table.physical_dram,
                  free_chunks |-> table.free_chunks,
                  next_unpartitioned_chunk |-> table.next_unpartitioned_chunk,
                  allocated_chunks_count |-> table.allocated_chunks_count,
                  total_uncompressed_bytes_stored |-> table.total_uncompressed_bytes_stored]
  BY <1>1 DEF NewTable
<1>3. NoEntry \in EntryType /\ EntryOK(NoEntry, 0) /\ NoEntry.valid = FALSE
  BY DEF NoEntry, EntryType, EntryOK, BDIPattern
<1>4. total_physical_chunks \in Nat
  BY TableAssumption DEF total_physical_chunks, SLOT_CHUNK_SIZE
<1>5. TableOK(table)
  <2>1. table.entries \in [LineIndex -> EntryType]
    BY <1>2, <1>3
  <2>2. table.physical_dram \in [Chunks -> [1 .. SLOT_CHUNK_SIZE -> Byte]]
    <3>1. 0 \in Byte
      BY ByteRange
    <3> QED
      BY <1>2, <3>1
  <2>3. FreeListsOK(table.free_chunks, 0)
    <3>1. \A n \in 1 .. 4 : table.free_chunks[n] = <<>>
      BY <1>2
    <3>2. table.free_chunks \in [1 .. 4 -> Seq(Nat)]
      BY <1>2
    <3> QED
      BY <3>1, <3>2 DEF FreeListsOK
  <2>4. 0 \in 0 .. total_physical_chunks
    BY <1>4
  <2>5. table.free_chunks \in [1 .. 4 -> Seq(Nat)]
    BY <2>3 DEF FreeListsOK
  <2>6. table \in TableType
    <3>1. table.allocated_chunks_count \in Int /\ table.total_uncompressed_bytes_stored \in Int
      BY <1>2
    <3>2. table.next_unpartitioned_chunk \in 0 .. total_physical_chunks
      BY <1>2, <2>4
    <3> DEFINE e == table.entries
               d == table.physical_dram
               f == table.free_chunks
               n == table.next_unpartitioned_chunk
               k == table.allocated_chunks_count
               m == table.total_uncompressed_bytes_stored
    <3>3. table = [entries |-> e, physical_dram |-> d, free_chunks |-> f,
                   next_unpartitioned_chunk |-> n, allocated_chunks_count |-> k,
                   total_uncompressed_bytes_stored |-> m]
      BY <1>2
    <3>4. /\ e \in [LineIndex -> EntryType] /\ d \in [Chunks -> [1 .. SLOT_CHUNK_SIZE -> Byte]]
          /\ f \in [1 .. 4 -> Seq(Nat)] /\ n \in 0 .. total_physical_chunks
          /\ k \in Int /\ m \in Int
      BY <2>1, <2>2, <2>5, <3>1, <3>2
    <3> HIDE DEF e, d, f, n, k, m
    <3> QED
      BY <3>3, <3>4 DEF TableType
  <2>7. \A l \in LineIndex : EntryOK(table.entries[l], 0)
    BY <1>2, <1>3
  <2> QED
    BY <1>2, <2>3, <2>6, <2>7 DEF TableOK
<1>6. telemetry \in TelemetryType /\ telemetry.bytes_written = 0
      /\ telemetry.pattern_counts \in [BDIPattern -> {0}]
  BY <1>1 DEF NoTelemetry, TelemetryType
<1>7. /\ thread \in [Threads -> ThreadType]
      /\ \A t \in Threads : ThreadOK(thread[t], table.next_unpartitioned_chunk)
  BY <1>1, <1>2, IdleIs
<1>8. Typed
  BY <1>1, <1>5, <1>6, <1>7, ZeroIsLine DEF Typed
<1>9. \A X : Holders(table, X) = {}
  BY <1>2, <1>3 DEF Holders
<1>10. LinesCounted
  <2>1. ValidLines(table) = {}
    BY <1>2, <1>3 DEF ValidLines
  <2> QED
    BY <1>2, <2>1, FS_EmptySet DEF LinesCounted, CACHE_LINE_SIZE
<1>11. BytesCounted
  <2>1. InProgress \in [Threads -> {0}]
    BY <1>1 DEF InProgress, Progress, Idle
  <2>2. SumOf(InProgress, Threads) = 0
    BY <2>1, ControllerAssumption, SumType
  <2>3. SumOf(telemetry.pattern_counts, BDIPattern) = 0
    BY <1>6, PatternsFinite, SumType
  <2> QED
    BY <1>6, <2>2, <2>3, BytesAreSums
<1>12. Ownership(table, {}, {})
  <2>1. \A n \in 1 .. 4 : 1 .. Len(table.free_chunks[n]) = {}
    BY <1>2
  <2>2. Owned(table, {}, {})
    BY <1>9, <2>1 DEF Owned
  <2>3. AllOwned(table, {}, {})
    BY <1>2 DEF AllOwned
  <2>4. HeldBy(table, {}) \cup {} = {}
    BY <1>9 DEF HeldBy
  <2>5. Counted(table, {}, {})
    BY <1>2, <2>4, FS_EmptySet DEF Counted
  <2> QED
    BY <2>2, <2>3, <2>5 DEF Ownership
<1>13. \A l \in LineIndex : Fetch(table, table.entries[l]) = content[l]
  BY <1>1, <1>2, <1>3, FetchIs
<1>14. \A t \in Threads : Ready(thread[t])
  BY <1>1 DEF Ready, Idle
<1> QED
  BY <1>1, <1>8, <1>10, <1>11, <1>12, <1>13, <1>14 DEF Inductive, Consistent

(* A step that only moves one thread on.                                   *)
LEMMA ThreadMoves ==
  ASSUME Inductive, NEW t \in Threads, NEW c,
         thread' = [thread EXCEPT ![t] = c],
         UNCHANGED <<table, content, lost, misused>>,
         telemetry' \in TelemetryType, telemetry'.pattern_counts = telemetry.pattern_counts,
         ThreadOK(c, table.next_unpartitioned_chunk),
         telemetry'.bytes_written + Progress(c) <= telemetry.bytes_written + Progress(thread[t]),
         Trusted => Ready(c)
  PROVE  Inductive'
<1>1. /\ table' = table /\ content' = content /\ lost' = lost /\ misused' = misused
      /\ Typed /\ LinesCounted /\ BytesCounted /\ Consistent
  BY DEF Inductive
<1>2. thread \in [Threads -> ThreadType] /\ c \in ThreadType
  BY <1>1 DEF Typed, ThreadOK
<1>3. thread'[t] = c /\ \A u \in Threads : u # t => thread'[u] = thread[u]
  BY <1>2
<1>4. Typed'
  <2>1. thread' \in [Threads -> ThreadType]
    BY <1>2
  <2>2. \A u \in Threads : ThreadOK(thread[u], table.next_unpartitioned_chunk)
    BY <1>1 DEF Typed
  <2>3. \A u \in Threads : ThreadOK(thread'[u], table.next_unpartitioned_chunk)
    BY <1>3, <2>2
  <2> QED
    BY <1>1, <2>1, <2>3 DEF Typed
<1>5. LinesCounted'
  BY <1>1 DEF LinesCounted
<1>6. BytesCounted'
  <2>1. \A u \in Threads : Progress(thread[u]) \in Int
    BY <1>2 DEF ThreadType, Progress
  <2>2. Progress(c) \in Int
    BY <1>2 DEF ThreadType, Progress
  <2>3. InProgress \in [Threads -> Int] /\ InProgress[t] = Progress(thread[t])
    BY <2>1 DEF InProgress
  <2>4. InProgress' = [InProgress EXCEPT ![t] = Progress(c)]
    <3>1. InProgress' = [u \in Threads |-> Progress(thread'[u])]
      BY DEF InProgress
    <3>2. InProgress = [u \in Threads |-> Progress(thread[u])]
      BY DEF InProgress
    <3> QED
      BY <1>3, <3>1, <3>2
  <2> DEFINE p == Progress(c)
             q == Progress(thread[t])
             s == SumOf(InProgress, Threads)
             s2 == SumOf(InProgress', Threads)
             b == telemetry.bytes_written
             b2 == telemetry'.bytes_written
             m == SumOf(telemetry.pattern_counts, BDIPattern)
  <2>5. s2 = s + p - q /\ s \in Int
    <3>1. IsFiniteSet(Threads)
      BY ControllerAssumption
    <3> DEFINE f == InProgress
               g == InProgress'
    <3>2. /\ f \in [Threads -> Int] /\ f[t] = q /\ g \in [Threads -> Int] /\ g[t] = p
          /\ \A u \in Threads : u # t => g[u] = f[u]
      BY <2>2, <2>3, <2>4
    <3> HIDE DEF f, g, p
    <3>4. SumOf(g, Threads) = SumOf(f, Threads) + g[t] - f[t]
      BY <3>1, <3>2, SumUpdate
    <3>5. SumOf(f, Threads) \in Int
      BY <3>1, <3>2, SumType
    <3> QED
      BY <3>2, <3>4, <3>5 DEF f, g, p
  <2>6. b2 + p <= b + q /\ p \in Int /\ q \in Int /\ b \in Int /\ b2 \in Int
    <3>1. b \in Int /\ b2 \in Int
      BY <1>1 DEF Typed, TelemetryType
    <3> QED
      BY <2>1, <2>2, <3>1
  <2>7. b + s <= 64 * m
    BY <1>1, BytesAreSums
  <2>8. m \in Int
    <3>1. telemetry.pattern_counts \in [BDIPattern -> Nat]
      BY <1>1 DEF Typed, TelemetryType
    <3>2. m \in Nat
      BY <3>1, PatternsFinite, SumType
    <3> QED
      BY <3>2
  <2>9. BytesCounted' <=>
          (telemetry.bytes_written + SumOf(InProgress, Threads)
             <= 64 * SumOf(telemetry.pattern_counts, BDIPattern))'
    BY BytesAreSums, PTL
  <2>10. SumOf(telemetry'.pattern_counts, BDIPattern) = m
    OBVIOUS
  <2> HIDE DEF p, q, s, s2, b, b2, m
  <2>11. b2 + s2 <= 64 * m
    BY <2>5, <2>6, <2>7, <2>8
  <2> QED
    BY <2>9, <2>10, <2>11 DEF b2, s2
<1>7. Consistent'
  <2> SUFFICES ASSUME Trusted PROVE Consistent'
    BY <1>1 DEF Consistent, Trusted
  <2>1. /\ Ownership(table, lost, {})
        /\ \A l \in LineIndex \ lost : Fetch(table, table.entries[l]) = content[l]
        /\ \A u \in Threads : Ready(thread[u])
    BY <1>1 DEF Consistent
  <2>2. \A u \in Threads : Ready(thread'[u])
    BY <1>3, <2>1
  <2>3. \A u \in Threads : Ready(thread[u])'
    BY <1>1, <2>2 DEF Ready, Current
  <2> QED
    BY <1>1, <2>1, <2>3 DEF Consistent
<1> QED
  BY <1>4, <1>5, <1>6, <1>7 DEF Inductive

(* The parts of the invariant that every step starts from.                 *)
LEMMA InductiveParts ==
  ASSUME Inductive, NEW t \in Threads
  PROVE  /\ TableOK(table) /\ telemetry \in TelemetryType
         /\ table.next_unpartitioned_chunk \in Nat
         /\ thread \in [Threads -> ThreadType]
         /\ ThreadOK(thread[t], table.next_unpartitioned_chunk)
         /\ content \in [LineIndex -> Line] /\ lost \in SUBSET LineIndex
         /\ Trusted => Ready(thread[t])
<1>1. Typed /\ Consistent
  BY DEF Inductive
<1>2. table.next_unpartitioned_chunk \in Nat
  BY <1>1, TableParts DEF Typed
<1> QED
  BY <1>1, <1>2 DEF Typed, Consistent

(* Starting a call keeps the invariant.                                    *)
LEMMA CallKeeps ==
  ASSUME Inductive, NEW t \in Threads, NEW r \in Requests, Call(t, r)
  PROVE  Inductive'
<1> DEFINE next == table.next_unpartitioned_chunk
           x == IF r.size = 0 \/ OutOfRange(r) THEN Idle ELSE AtLine(r, 0)
<1>1. /\ thread' = [thread EXCEPT ![t] = x]
      /\ UNCHANGED <<table, content, lost, misused>> /\ telemetry' = telemetry
  BY DEF Call
<1>2. /\ telemetry \in TelemetryType /\ next \in Nat
      /\ ThreadOK(thread[t], next) /\ thread[t] \in ThreadType
  BY InductiveParts DEF ThreadOK
<1>3. /\ r.op \in {"Read", "Write"} /\ r.address \in Nat /\ r.size \in Nat
      /\ r.src \in Seq(Byte) /\ (r.op = "Write" => Len(r.src) = r.size)
  BY ControllerAssumption
<1>4. ThreadOK(x, next) /\ x.pc \in {"idle", "line"} /\ Progress(x) = 0
  <2>1. CASE r.size = 0 \/ OutOfRange(r)
    <3>1. x = Idle /\ Idle.pc = "idle" /\ Progress(Idle) = 0
      BY <2>1 DEF Idle, Progress
    <3> QED
      BY <1>2, <3>1, IdleIs
  <2>2. CASE ~(r.size = 0 \/ OutOfRange(r))
    <3>1. x = AtLine(r, 0)
      BY <2>2
    <3>2. 0 < r.size /\ r.address + r.size <= virtual_capacity
      <4> DEFINE a == r.address
                 s == r.size
      <4>1. a \in Nat /\ s \in Nat /\ s # 0 /\ ~(a > virtual_capacity) /\ ~(s > virtual_capacity - a)
        BY <1>3, <2>2 DEF OutOfRange
      <4> HIDE DEF a, s
      <4>2. 0 < s /\ a + s <= virtual_capacity
        BY <4>1, TableAssumption
      <4> QED
        BY <4>2 DEF a, s
    <3> DEFINE z == 0
    <3>3. z \in Nat /\ z < r.size /\ z = 0
      BY <3>2
    <3> HIDE DEF z
    <3>4. ThreadOK(AtLine(r, z), next) /\ AtLine(r, z).pc = "line" /\ AtLine(r, z).done = z
      BY <1>2, <1>3, <3>2, <3>3, AtLineOK
    <3>5. Progress(AtLine(r, z)) = 0
      BY <3>3, <3>4 DEF Progress
    <3> QED
      BY <3>1, <3>3, <3>4, <3>5
  <2> QED
    BY <2>1, <2>2
<1>5. Progress(thread[t]) \in Nat /\ telemetry.bytes_written \in Nat
  BY <1>2 DEF ThreadType, Progress, TelemetryType
<1>6. Trusted => Ready(x)
  BY <1>4 DEF Ready
<1> HIDE DEF x, next
<1>7. telemetry'.bytes_written + Progress(x) <= telemetry.bytes_written + Progress(thread[t])
  BY <1>1, <1>4, <1>5
<1> QED
  BY <1>1, <1>2, <1>4, <1>6, <1>7, ThreadMoves DEF next

(* Overwriting a whole line, up to its store, keeps it.                    *)
LEMMA WholeLineKeeps ==
  ASSUME Inductive, NEW t \in Threads, WholeLine(t)
  PROVE  Inductive'
<1> DEFINE next == table.next_unpartitioned_chunk
           c == thread[t]
           m == Merge(c, c.line_buf)
           x == [c EXCEPT !.pc = "store", !.overtaken = FALSE, !.line_buf = m]
<1>1. /\ thread' = [thread EXCEPT ![t] = x]
      /\ UNCHANGED <<table, content, lost, misused>> /\ telemetry' = telemetry
      /\ c.pc = "line" /\ c.op = "Write" /\ PartOf(c) = 64
  BY DEF WholeLine, CACHE_LINE_SIZE
<1>2. /\ telemetry \in TelemetryType /\ next \in Nat
      /\ ThreadOK(c, next) /\ c \in ThreadType /\ c.line_buf \in Line
      /\ content \in [LineIndex -> Line]
  BY InductiveParts DEF ThreadOK, ThreadType
<1>3. InRange(c) /\ EntryOK(c.entry, next)
  BY <1>1, <1>2 DEF ThreadOK
<1> HIDE DEF c, next
<1>4. \A line \in Line : Merge(c, line) \in Line /\ Merge(c, line) = Wanted(c, line)
  BY <1>1, <1>2, MergeIs
<1>5. m \in Line
  BY <1>2, <1>4
<1> HIDE DEF m
<1>6. /\ x \in ThreadType /\ x.pc = "store" /\ x.op = c.op /\ x.done = c.done /\ x.size = c.size
      /\ x.address = c.address /\ x.src = c.src /\ x.entry = c.entry /\ x.line_buf = m
  BY <1>2, <1>5 DEF ThreadType
<1> HIDE DEF x
<1>7. ThreadOK(x, next) /\ Progress(x) = Progress(c)
  BY <1>1, <1>3, <1>6 DEF ThreadOK, InRange, OffsetOf, Progress
<1>8. LineOf(x) = LineOf(c) /\ LineOf(c) \in LineIndex
  <2>1. LineOf(c) \in LineIndex
    BY <1>2, <1>3, PartIs DEF InRange, ThreadType
  <2> QED
    BY <1>6, <2>1 DEF LineOf
<1>9. m = Wanted(x, content[LineOf(x)])
  <2> DEFINE line == content[LineOf(c)]
  <2>1. line \in Line
    BY <1>2, <1>8
  <2> HIDE DEF line
  <2>2. OffsetOf(c) = 0 /\ Covered(c) = 1 .. 64
    <3>1. /\ OffsetOf(c) \in 0 .. 63 /\ OffsetOf(c) + PartOf(c) <= 64
      BY <1>2, <1>3, PartIs DEF InRange, ThreadType
    <3> DEFINE o == OffsetOf(c)
    <3>2. o \in 0 .. 63 /\ o + 64 <= 64
      BY <1>1, <3>1
    <3> HIDE DEF o
    <3>3. o = 0
      BY <3>2
    <3> QED
      BY <1>1, <3>3 DEF Covered, o
  <2>3. m = Merge(c, line)
    BY <2>2 DEF m, Merge, CACHE_LINE_SIZE
  <2>4. m = Wanted(c, line)
    BY <1>4, <2>1, <2>3
  <2>5. Wanted(x, line) = Wanted(c, line)
    BY <1>6, <1>8 DEF Wanted
  <2> QED
    BY <1>8, <2>4, <2>5 DEF line
<1>10. Trusted => Ready(x)
  BY <1>6, <1>9 DEF Ready
<1>11. Progress(c) \in Nat /\ telemetry.bytes_written \in Nat
  BY <1>2 DEF ThreadType, Progress, TelemetryType
<1>12. telemetry'.bytes_written + Progress(x) <= telemetry.bytes_written + Progress(thread[t])
  BY <1>1, <1>7, <1>11 DEF c
<1> QED
  BY <1>1, <1>2, <1>7, <1>10, <1>12, ThreadMoves DEF next

(* The locked half of LoadLine keeps it.                                   *)
LEMMA CopyEntryKeeps ==
  ASSUME Inductive, NEW t \in Threads, CopyEntry(t)
  PROVE  Inductive'
<1> DEFINE next == table.next_unpartitioned_chunk
           c == thread[t]
           e == table.entries[LineOf(c)]
           x == [c EXCEPT !.pc = "fetch", !.overtaken = FALSE, !.entry = e]
<1>1. /\ thread' = [thread EXCEPT ![t] = x]
      /\ UNCHANGED <<table, content, lost, misused>> /\ telemetry' = telemetry
      /\ c.pc = "line"
  BY DEF CopyEntry
<1>2. /\ telemetry \in TelemetryType /\ next \in Nat
      /\ ThreadOK(c, next) /\ c \in ThreadType /\ TableOK(table)
  BY InductiveParts DEF ThreadOK, ThreadType
<1>3. InRange(c)
  BY <1>1, <1>2 DEF ThreadOK
<1> HIDE DEF c, next
<1>4. LineOf(c) \in LineIndex
  BY <1>2, <1>3, PartIs DEF InRange, ThreadType
<1>5. e \in EntryType /\ EntryOK(e, next)
  BY <1>2, <1>4 DEF TableOK, EntryOK, next
<1> HIDE DEF e
<1>6. /\ x \in ThreadType /\ x.pc = "fetch" /\ x.op = c.op /\ x.done = c.done /\ x.size = c.size
      /\ x.address = c.address /\ x.src = c.src /\ x.entry = e
  BY <1>2, <1>5 DEF ThreadType
<1> HIDE DEF x
<1>7. ThreadOK(x, next) /\ Progress(x) = Progress(c) /\ LineOf(x) = LineOf(c)
  BY <1>3, <1>5, <1>6 DEF ThreadOK, InRange, OffsetOf, LineOf, Progress
<1>8. Trusted => Ready(x)
  BY <1>6, <1>7 DEF Ready, Current, e
<1>9. Progress(c) \in Nat /\ telemetry.bytes_written \in Nat
  BY <1>2 DEF ThreadType, Progress, TelemetryType
<1>10. telemetry'.bytes_written + Progress(x) <= telemetry.bytes_written + Progress(thread[t])
  BY <1>1, <1>7, <1>9 DEF c
<1> QED
  BY <1>1, <1>2, <1>7, <1>8, <1>10, ThreadMoves DEF next

(* What finishing a line adds to the telemetry.                            *)
LEMMA FinishedIs ==
  ASSUME NEW tel \in TelemetryType, NEW c \in ThreadType
  PROVE  /\ Finished(tel, c) \in TelemetryType
         /\ Finished(tel, c).pattern_counts = tel.pattern_counts
         /\ Finished(tel, c).bytes_written =
              tel.bytes_written + IF c.op = "Write" /\ ~(c.done + PartOf(c) < c.size)
                                  THEN c.size ELSE 0
<1> DEFINE size == c.size
<1>1. size \in Nat
  BY DEF ThreadType
<1>2. /\ tel.reads \in Nat /\ tel.writes \in Nat /\ tel.bytes_read \in Nat /\ tel.bytes_written \in Nat
  BY DEF TelemetryType
<1>3. CASE c.done + PartOf(c) < c.size
  BY <1>2, <1>3 DEF Finished
<1>4. CASE ~(c.done + PartOf(c) < c.size) /\ c.op = "Read"
  <2> DEFINE a == tel.reads + 1
             b == tel.bytes_read + size
  <2>1. Finished(tel, c) = [tel EXCEPT !.reads = a, !.bytes_read = b]
    BY <1>4 DEF Finished
  <2>2. a \in Nat /\ b \in Nat
    BY <1>1, <1>2
  <2> HIDE DEF a, b
  <2> QED
    <3> DEFINE f == Finished(tel, c)
    <3>1. f = [tel EXCEPT !.reads = a, !.bytes_read = b]
      BY <2>1
    <3> HIDE DEF f
    <3>2. f \in TelemetryType /\ f.pattern_counts = tel.pattern_counts
          /\ f.bytes_written = tel.bytes_written
      BY <2>2, <3>1 DEF TelemetryType
    <3>3. tel.bytes_written + 0 = tel.bytes_written
      BY <1>2
    <3> QED
      BY <1>4, <3>2, <3>3 DEF f
<1>5. CASE ~(c.done + PartOf(c) < c.size) /\ c.op # "Read"
  <2> DEFINE a == tel.writes + 1
             b == tel.bytes_written + size
  <2>1. Finished(tel, c) = [tel EXCEPT !.writes = a, !.bytes_written = b]
    BY <1>5 DEF Finished
  <2>2. a \in Nat /\ b \in Nat
    BY <1>1, <1>2
  <2>3. c.op = "Write"
    BY <1>5 DEF ThreadType
  <2>4. b = tel.bytes_written + size
    OBVIOUS
  <2> HIDE DEF a, b
  <2> QED
    BY <1>2, <1>5, <2>1, <2>2, <2>3, <2>4 DEF TelemetryType
<1> QED
  BY <1>3, <1>4, <1>5

(* The rest of LoadLine, and what its caller does, keeps it.               *)
LEMMA FetchLineKeeps ==
  ASSUME Inductive, NEW t \in Threads, FetchLine(t)
  PROVE  Inductive'
<1> DEFINE next == table.next_unpartitioned_chunk
           c == thread[t]
           line == Fetch(table, c.entry)
           m == Merge(c, line)
           y == [c EXCEPT !.pc = "store", !.entry = NoEntry, !.line_buf = m]
           x == IF line = Refused THEN Idle ELSE IF c.op = "Read" THEN Advanced(c) ELSE y
           f == Finished(telemetry, c)
<1>1. /\ thread' = [thread EXCEPT ![t] = x]
      /\ UNCHANGED <<table, content, lost, misused>>
      /\ telemetry' = IF line = Refused \/ c.op = "Write" THEN telemetry ELSE f
      /\ c.pc = "fetch"
  BY DEF FetchLine
<1>2. /\ telemetry \in TelemetryType /\ next \in Nat
      /\ ThreadOK(c, next) /\ c \in ThreadType /\ TableOK(table)
      /\ content \in [LineIndex -> Line] /\ (Trusted => Ready(c))
  BY InductiveParts DEF ThreadOK, ThreadType
<1>3. InRange(c) /\ EntryOK(c.entry, next)
  BY <1>1, <1>2 DEF ThreadOK
<1>4. line \in Line \cup {Refused}
  BY <1>2, <1>3, FetchType
<1>5. /\ Trusted /\ ~c.overtaken /\ LineOf(c) \notin lost /\ LineOf(c) \in LineIndex =>
           line = content[LineOf(c)]
  BY <1>1, <1>2 DEF Inductive, Consistent, Ready, Current
<1> HIDE DEF c, next, line, m, f
<1>6. LineOf(c) \in LineIndex
  BY <1>2, <1>3, PartIs DEF InRange, ThreadType
<1>7. Progress(c) \in Nat /\ telemetry.bytes_written \in Nat /\ c.op \in {"Read", "Write"}
  BY <1>2 DEF ThreadType, Progress, TelemetryType
<1>8. /\ f \in TelemetryType /\ f.pattern_counts = telemetry.pattern_counts
      /\ c.op = "Read" => f.bytes_written = telemetry.bytes_written
  <2>1. /\ f \in TelemetryType /\ f.pattern_counts = telemetry.pattern_counts
        /\ f.bytes_written = telemetry.bytes_written
             + IF c.op = "Write" /\ ~(c.done + PartOf(c) < c.size) THEN c.size ELSE 0
    BY <1>2, FinishedIs DEF f
  <2>2. telemetry.bytes_written + 0 = telemetry.bytes_written
    BY <1>7
  <2> QED
    BY <2>1, <2>2
<1>9. CASE line = Refused
  <2>1. x = Idle /\ telemetry' = telemetry
    BY <1>1, <1>9
  <2>2. Idle.pc = "idle" /\ Progress(Idle) = 0
    BY DEF Idle, Progress
  <2> HIDE DEF x
  <2>3. ThreadOK(x, next) /\ (Trusted => Ready(x))
    BY <1>2, <2>1, <2>2, IdleIs DEF Ready
  <2>4. telemetry'.bytes_written + Progress(x) <= telemetry.bytes_written + Progress(thread[t])
    BY <1>7, <2>1, <2>2 DEF c
  <2> QED
    BY <1>1, <1>2, <2>1, <2>3, <2>4, ThreadMoves DEF next
<1>10. CASE line # Refused /\ c.op = "Read"
  <2>1. x = Advanced(c) /\ telemetry' = f
    BY <1>1, <1>10
  <2>2. /\ ThreadOK(Advanced(c), next) /\ Advanced(c).pc \in {"idle", "line"}
        /\ Progress(Advanced(c)) = 0
    BY <1>1, <1>2, <1>10, AdvancedIs
  <2> HIDE DEF x
  <2>3. ThreadOK(x, next) /\ (Trusted => Ready(x))
    BY <2>1, <2>2 DEF Ready
  <2>4. telemetry'.bytes_written + Progress(x) <= telemetry.bytes_written + Progress(thread[t])
    BY <1>7, <1>8, <1>10, <2>1, <2>2 DEF c
  <2> QED
    BY <1>1, <1>8, <2>1, <2>3, <2>4, ThreadMoves DEF next
<1>11. CASE line # Refused /\ c.op = "Write"
  <2>1. x = y /\ telemetry' = telemetry
    BY <1>1, <1>11
  <2>2. line \in Line
    BY <1>4, <1>11
  <2>3. m \in Line /\ m = Wanted(c, line)
    BY <1>1, <1>2, <1>11, <2>2, MergeIs DEF m
  <2>4. NoEntry \in EntryType /\ EntryOK(NoEntry, next)
    BY <1>2 DEF NoEntry, EntryType, EntryOK, BDIPattern
  <2>5. /\ y \in ThreadType /\ y.pc = "store" /\ y.op = c.op /\ y.done = c.done /\ y.size = c.size
        /\ y.address = c.address /\ y.src = c.src /\ y.entry = NoEntry /\ y.line_buf = m
        /\ y.overtaken = c.overtaken
    BY <1>2, <2>3, <2>4 DEF ThreadType
  <2> HIDE DEF x, y
  <2>6. ThreadOK(y, next) /\ Progress(y) = Progress(c) /\ LineOf(y) = LineOf(c)
    BY <1>3, <1>11, <2>4, <2>5 DEF ThreadOK, InRange, OffsetOf, LineOf, Progress
  <2>7. Wanted(y, line) = Wanted(c, line)
    BY <2>5, <2>6 DEF Wanted
  <2>8. Trusted => Ready(y)
    BY <1>5, <1>6, <2>3, <2>5, <2>6, <2>7 DEF Ready
  <2>9. telemetry'.bytes_written + Progress(x) <= telemetry.bytes_written + Progress(thread[t])
    BY <1>7, <2>1, <2>6 DEF c
  <2> QED
    BY <1>1, <1>2, <2>1, <2>6, <2>8, <2>9, ThreadMoves DEF next
<1> QED
  BY <1>7, <1>9, <1>10, <1>11

-----------------------------------------------------------------------------
(* The other threads at the line stored are overtaken.                     *)
Overtaking(th, t, x, l) ==
  [u \in Threads |->
    IF u = t THEN x
    ELSE IF th[u].pc \in {"fetch", "store"} /\ LineOf(th[u]) = l
    THEN [th[u] EXCEPT !.overtaken = TRUE] ELSE th[u]]

(* Marking the overtaken threads changes nothing else in them.             *)
LEMMA OvertakingIs ==
  ASSUME NEW th \in [Threads -> ThreadType], NEW t \in Threads, NEW x \in ThreadType, NEW l,
         NEW next, ThreadOK(x, next), \A u \in Threads : ThreadOK(th[u], next)
  PROVE  LET th2 == Overtaking(th, t, x, l) IN
         /\ th2 \in [Threads -> ThreadType] /\ th2[t] = x
         /\ \A u \in Threads : ThreadOK(th2[u], next)
         /\ \A u \in Threads : u # t => Progress(th2[u]) = Progress(th[u])
         /\ \A u \in Threads : u # t /\ ~th2[u].overtaken =>
              th2[u] = th[u] /\ ~(th[u].pc \in {"fetch", "store"} /\ LineOf(th[u]) = l)
<1> DEFINE th2 == Overtaking(th, t, x, l)
<1>1. th2[t] = x
  BY DEF Overtaking
<1>2. ASSUME NEW u \in Threads, u # t
      PROVE  /\ th2[u] \in ThreadType /\ ThreadOK(th2[u], next)
             /\ Progress(th2[u]) = Progress(th[u])
             /\ ~th2[u].overtaken =>
                  th2[u] = th[u] /\ ~(th[u].pc \in {"fetch", "store"} /\ LineOf(th[u]) = l)
  <2> DEFINE c == th[u]
             y == [c EXCEPT !.overtaken = TRUE]
             b == c.pc \in {"fetch", "store"} /\ LineOf(c) = l
  <2>1. th2[u] = IF b THEN y ELSE c
    BY <1>2 DEF Overtaking
  <2>2. c \in ThreadType /\ ThreadOK(c, next)
    OBVIOUS
  <2> HIDE DEF c, th2
  <2>3. /\ y \in ThreadType /\ y.pc = c.pc /\ y.op = c.op /\ y.done = c.done /\ y.size = c.size
        /\ y.address = c.address /\ y.src = c.src /\ y.entry = c.entry /\ y.overtaken = TRUE
    BY <2>2 DEF ThreadType
  <2> HIDE DEF y, b
  <2>4. ThreadOK(y, next) /\ Progress(y) = Progress(c)
    BY <2>2, <2>3 DEF ThreadOK, InRange, OffsetOf, Progress
  <2> QED
    BY <2>1, <2>2, <2>3, <2>4 DEF c, b
<1>3. th2 = [u \in Threads |-> th2[u]]
  BY DEF Overtaking
<1> HIDE DEF th2
<1>4. \A u \in Threads : th2[u] \in ThreadType /\ ThreadOK(th2[u], next)
  BY <1>1, <1>2
<1>5. th2 \in [Threads -> ThreadType]
  BY <1>3, <1>4
<1> QED
  BY <1>1, <1>2, <1>4, <1>5 DEF th2

(* The counts of the bytes and of the patterns, when a line is stored.     *)
LEMMA BytesStay ==
  ASSUME Inductive, NEW t \in Threads, NEW p \in BDIPattern, NEW l, NEW x,
         thread' \in [Threads -> ThreadType], thread'[t] = x,
         \A u \in Threads : u # t => Progress(thread'[u]) = Progress(thread[u]),
         telemetry'.pattern_counts = [telemetry.pattern_counts EXCEPT ![p] = @ + 1],
         telemetry'.bytes_written \in Nat,
         telemetry'.bytes_written + Progress(x)
           <= telemetry.bytes_written + Progress(thread[t]) + 64
  PROVE  BytesCounted'
<1>1. thread \in [Threads -> ThreadType] /\ telemetry \in TelemetryType
  BY InductiveParts
<1>2. \A u \in Threads : Progress(thread[u]) \in Int
  BY <1>1 DEF ThreadType, Progress
<1>3. Progress(x) \in Int
  BY DEF ThreadType, Progress
<1> DEFINE f == InProgress
           g == InProgress'
           q == Progress(thread[t])
           r == Progress(x)
           h == telemetry.pattern_counts
           k == telemetry'.pattern_counts
           b == telemetry.bytes_written
           b2 == telemetry'.bytes_written
<1>4. f \in [Threads -> Int] /\ f[t] = q
  BY <1>2 DEF InProgress
<1>5. g = [f EXCEPT ![t] = r]
  <2>1. InProgress' = [u \in Threads |-> Progress(thread'[u])]
    BY DEF InProgress
  <2>2. InProgress = [u \in Threads |-> Progress(thread[u])]
    BY DEF InProgress
  <2> QED
    BY <2>1, <2>2
<1>6. h \in [BDIPattern -> Int] /\ k = [h EXCEPT ![p] = h[p] + 1]
  BY <1>1 DEF TelemetryType
<1>7. b2 + r <= b + q + 64 /\ b \in Int /\ b2 \in Int /\ q \in Int /\ r \in Int
  <2>1. b \in Int
    BY <1>1 DEF TelemetryType
  <2> QED
    BY <1>2, <1>3, <2>1
<1>8. b + SumOf(f, Threads) <= 64 * SumOf(h, BDIPattern)
  BY BytesAreSums DEF Inductive
<1>9. BytesCounted' <=>
        (telemetry.bytes_written + SumOf(InProgress, Threads)
           <= 64 * SumOf(telemetry.pattern_counts, BDIPattern))'
  BY BytesAreSums, PTL
<1>10. BytesCounted' <=> b2 + SumOf(g, Threads) <= 64 * SumOf(k, BDIPattern)
  BY <1>9
<1> HIDE DEF f, g, q, r, h, k, b, b2
<1>11. SumOf(g, Threads) = SumOf(f, Threads) + r - f[t] /\ SumOf(f, Threads) \in Int
  <2>1. IsFiniteSet(Threads)
    BY ControllerAssumption
  <2>4. /\ f \in [Threads -> Int] /\ g \in [Threads -> Int] /\ g[t] = r
        /\ \A u \in Threads : u # t => g[u] = f[u]
    BY <1>4, <1>5, <1>7
  <2>2. SumOf(g, Threads) = SumOf(f, Threads) + g[t] - f[t]
    BY <2>1, <2>4, SumUpdate
  <2>3. SumOf(f, Threads) \in Int
    BY <2>4, <2>1, SumType
  <2> QED
    BY <2>2, <2>3, <2>4
<1>12. SumOf(k, BDIPattern) = SumOf(h, BDIPattern) + 1 /\ SumOf(h, BDIPattern) \in Int
  <2>1. h[p] \in Int /\ h[p] + 1 \in Int
    BY <1>6
  <2>6. /\ h \in [BDIPattern -> Int] /\ k \in [BDIPattern -> Int] /\ k[p] = h[p] + 1
        /\ \A u \in BDIPattern : u # p => k[u] = h[u]
    BY <1>6, <2>1
  <2>4. SumOf(k, BDIPattern) = SumOf(h, BDIPattern) + k[p] - h[p]
    BY <2>6, PatternsFinite, SumUpdate
  <2>5. SumOf(h, BDIPattern) \in Int
    BY <2>6, PatternsFinite, SumType
  <2> QED
    BY <2>1, <2>4, <2>5, <2>6
<1>13. b2 + SumOf(g, Threads) <= 64 * SumOf(k, BDIPattern)
  BY <1>4, <1>7, <1>8, <1>11, <1>12
<1> QED
  BY <1>10, <1>13

(* An entry stays in order when more chunks are handed out.                *)
LEMMA EntryMonotone ==
  ASSUME NEW e, NEW next \in Nat, NEW next2 \in Nat, next <= next2, EntryOK(e, next)
  PROVE  EntryOK(e, next2)
<1>1. e.phys_chunk_offset \in Nat /\ e.allocated_chunks \in Nat
  BY DEF EntryOK, EntryType
<1> DEFINE a == e.phys_chunk_offset
           n == e.allocated_chunks
<1>2. a \in Nat /\ n \in Nat /\ a + n <= next
  BY <1>1 DEF EntryOK
<1> HIDE DEF a, n
<1>3. a + n <= next2
  BY <1>2
<1> QED
  BY <1>3 DEF EntryOK, a, n

(* The types, and the counts of the bytes and of the patterns, after a     *)
(* store.                                                                  *)
LEMMA StoreKeepsTypes ==
  ASSUME Inductive, NEW t \in Threads, NEW p \in BDIPattern, NEW l,
         NEW x \in ThreadType, ThreadOK(x, table.next_unpartitioned_chunk),
         thread' = Overtaking(thread, t, x, l),
         TableOK(table'), table.next_unpartitioned_chunk <= table'.next_unpartitioned_chunk,
         telemetry' \in TelemetryType,
         telemetry'.pattern_counts = [telemetry.pattern_counts EXCEPT ![p] = @ + 1],
         telemetry'.bytes_written + Progress(x)
           <= telemetry.bytes_written + Progress(thread[t]) + 64,
         content' \in [LineIndex -> Line], lost' \in SUBSET LineIndex, misused' \in BOOLEAN
  PROVE  /\ Typed' /\ BytesCounted' /\ thread'[t] = x
         /\ \A u \in Threads : u # t /\ ~thread'[u].overtaken =>
              /\ thread'[u] = thread[u]
              /\ ~(thread[u].pc \in {"fetch", "store"} /\ LineOf(thread[u]) = l)
<1> DEFINE next == table.next_unpartitioned_chunk
           next2 == table'.next_unpartitioned_chunk
<1>1. thread \in [Threads -> ThreadType] /\ \A u \in Threads : ThreadOK(thread[u], next)
  BY DEF Inductive, Typed
<1>2. next \in Nat /\ next2 \in Nat /\ next <= next2
  <2>1. TableOK(table)
    BY DEF Inductive, Typed
  <2> QED
    BY <2>1, TableParts
<1> DEFINE th2 == Overtaking(thread, t, x, l)
<1>3. /\ th2 \in [Threads -> ThreadType] /\ th2[t] = x
      /\ \A u \in Threads : ThreadOK(th2[u], next)
      /\ \A u \in Threads : u # t => Progress(th2[u]) = Progress(thread[u])
      /\ \A u \in Threads : u # t /\ ~th2[u].overtaken =>
           th2[u] = thread[u] /\ ~(thread[u].pc \in {"fetch", "store"} /\ LineOf(thread[u]) = l)
  BY <1>1, OvertakingIs
<1>4. thread' = th2
  OBVIOUS
<1> HIDE DEF th2, next, next2
<1>5. \A u \in Threads : ThreadOK(th2[u], next2)
  <2> TAKE u \in Threads
  <2>1. ThreadOK(th2[u], next)
    BY <1>3
  <2>2. EntryOK(th2[u].entry, next)
    BY <2>1 DEF ThreadOK
  <2>3. EntryOK(th2[u].entry, next2)
    BY <1>2, <2>2, EntryMonotone
  <2> QED
    BY <2>1, <2>3 DEF ThreadOK
<1>6. Typed'
  BY <1>3, <1>4, <1>5 DEF Typed, next2
<1>7. telemetry'.bytes_written \in Nat
  BY DEF TelemetryType
<1>8. BytesCounted'
  BY <1>3, <1>4, <1>7, BytesStay
<1> QED
  BY <1>3, <1>4, <1>6, <1>8

(* A line counts once, however often it is stored.                         *)
LEMMA StoreCountsLine ==
  ASSUME LinesCounted, TableOK(table), NEW l \in LineIndex,
         table'.entries[l].valid = TRUE,
         \A m \in LineIndex : m # l => table'.entries[m] = table.entries[m],
         table'.total_uncompressed_bytes_stored =
           table.total_uncompressed_bytes_stored + IF table.entries[l].valid THEN 0 ELSE 64
  PROVE  LinesCounted'
<1> DEFINE V == ValidLines(table)
           V2 == ValidLines(table')
           n == table.total_uncompressed_bytes_stored
           n2 == table'.total_uncompressed_bytes_stored
           b == table.entries[l].valid
<1>1. V2 = V \cup {l} /\ (l \in V <=> b)
  BY DEF ValidLines
<1>2. IsFiniteSet(V) /\ Cardinality(V) \in Nat
  <2> DEFINE last == total_logical_lines - 1
  <2>1. V \subseteq 0 .. last
    BY DEF ValidLines, LineIndex
  <2>2. last \in Int
    BY TableAssumption DEF total_logical_lines, CACHE_LINE_SIZE
  <2> HIDE DEF last, V
  <2>3. IsFiniteSet(0 .. last)
    BY <2>2, FS_Interval
  <2> QED
    BY <2>1, <2>3, FS_Subset, FS_CardinalityType
<1>3. n = 64 * Cardinality(V)
  BY DEF LinesCounted, CACHE_LINE_SIZE
<1>4. n2 = n + IF b THEN 0 ELSE 64
  OBVIOUS
<1> HIDE DEF V, V2, n, n2, b
<1>5. Cardinality(V2) = IF l \in V THEN Cardinality(V) ELSE Cardinality(V) + 1
  BY <1>1, <1>2, FS_AddElement
<1>6. n2 = 64 * Cardinality(V2)
  BY <1>1, <1>2, <1>3, <1>4, <1>5
<1>7. (ValidLines(table))' = V2 /\ (table.total_uncompressed_bytes_stored)' = n2
  BY DEF V2, n2, ValidLines
<1> QED
  BY <1>6, <1>7 DEF LinesCounted, CACHE_LINE_SIZE

(* The threads not overtaken are at other lines, which keep what they had. *)
LEMMA OthersReady ==
  ASSUME Inductive, NEW t \in Threads, NEW l \in LineIndex, NEW u \in Threads, u # t,
         Ready(thread[u]), lost \subseteq lost',
         \A m \in LineIndex : m # l =>
           table'.entries[m] = table.entries[m] /\ content'[m] = content[m],
         ~thread'[u].overtaken =>
           /\ thread'[u] = thread[u]
           /\ ~(thread[u].pc \in {"fetch", "store"} /\ LineOf(thread[u]) = l)
  PROVE  Ready(thread[u])'
<1> DEFINE d == thread[u]
           m == LineOf(d)
<1>1. d \in ThreadType /\ (d.pc # "idle" => InRange(d))
  BY DEF Inductive, Typed, ThreadOK
<1>2. d.pc # "idle" => m \in LineIndex
  <2> SUFFICES ASSUME d.pc # "idle" PROVE m \in LineIndex
    OBVIOUS
  <2> HIDE DEF d
  <2> QED
    BY <1>1, PartIs DEF ThreadType, InRange
<1>3. SUFFICES ASSUME ~thread'[u].overtaken, d.pc \in {"fetch", "store"},
                      thread'[u] = d, m # l, m \in LineIndex, m \notin lost'
               PROVE  /\ d.pc = "fetch" => d.entry = table'.entries[m]
                      /\ d.pc = "store" => d.line_buf = Wanted(d, content'[m])
  BY <1>2 DEF Ready, Current
<1>4. ~d.overtaken /\ m \notin lost
  BY <1>3
<1>5. /\ d.pc = "fetch" => d.entry = table.entries[m]
      /\ d.pc = "store" => d.line_buf = Wanted(d, content[m])
  BY <1>4 DEF Ready, Current
<1> QED
  BY <1>3, <1>5

(* A store that succeeds keeps the table consistent.                       *)
LEMMA StoredConsistent ==
  ASSUME Inductive, NEW t \in Threads, NEW l \in LineIndex, NEW line,
         Stored(table', table, l, line),
         thread'[t].pc \in {"idle", "line"},
         \A u \in Threads : u # t /\ ~thread'[u].overtaken =>
           /\ thread'[u] = thread[u]
           /\ ~(thread[u].pc \in {"fetch", "store"} /\ LineOf(thread[u]) = l),
         content' = [content EXCEPT ![l] = line], lost' = lost,
         misused' = (misused \/ l \in lost)
  PROVE  Consistent'
<1> SUFFICES ASSUME Trusted' PROVE Consistent'
  BY DEF Consistent
<1>1. /\ ~misused /\ l \notin lost /\ table'.next_unpartitioned_chunk <= OFFSET_RANGE
  BY DEF Trusted
<1>2. /\ TableOK(table) /\ TableOK(table')
      /\ content \in [LineIndex -> Line]
  BY DEF Inductive, Typed, Stored
<1>3. Trusted
  <2> DEFINE next == table.next_unpartitioned_chunk
             next2 == table'.next_unpartitioned_chunk
  <2>1. next \in Nat /\ next2 \in Nat /\ next <= next2 /\ next2 <= OFFSET_RANGE
    BY <1>1, <1>2, TableParts DEF Stored
  <2>2. OFFSET_RANGE \in Nat
    BY TableAssumption
  <2> HIDE DEF next, next2
  <2>3. next <= OFFSET_RANGE
    BY <2>1, <2>2
  <2> QED
    BY <1>1, <2>3 DEF Trusted, next
<1>4. /\ Ownership(table, lost, {})
      /\ \A m \in LineIndex \ lost : Fetch(table, table.entries[m]) = content[m]
      /\ \A u \in Threads : Ready(thread[u])
  BY <1>3 DEF Inductive, Consistent
<1>5. /\ \A m \in LineIndex : m # l => table'.entries[m] = table.entries[m]
      /\ Ownership(table', lost, {})
      /\ Fetch(table', table'.entries[l]) = line
      /\ \A m \in LineIndex \ lost : m # l =>
           Fetch(table', table'.entries[m]) = Fetch(table, table.entries[m])
  BY <1>1, <1>4 DEF Stored
<1>6. content'[l] = line /\ \A m \in LineIndex : m # l => content'[m] = content[m]
  BY <1>2
<1>7. \A m \in LineIndex \ lost : Fetch(table', table'.entries[m]) = content'[m]
  BY <1>4, <1>5, <1>6
<1>8. \A u \in Threads : Ready(thread[u])'
  <2> TAKE u \in Threads
  <2>1. CASE u = t
    BY <2>1 DEF Ready
  <2>2. CASE u # t
    BY <1>4, <1>5, <1>6, <2>2, OthersReady
  <2> QED
    BY <2>1, <2>2
<1> QED
  BY <1>5, <1>7, <1>8 DEF Consistent

(* A store that fails loses its line, and only that line.                  *)
LEMMA FailedConsistent ==
  ASSUME Inductive, NEW t \in Threads, NEW l \in LineIndex,
         Failed(table', table, l),
         thread'[t].pc \in {"idle", "line"},
         \A u \in Threads : u # t /\ ~thread'[u].overtaken =>
           /\ thread'[u] = thread[u]
           /\ ~(thread[u].pc \in {"fetch", "store"} /\ LineOf(thread[u]) = l),
         content' = content,
         lost' = IF Held(table, l) = {} THEN lost ELSE lost \cup {l},
         misused' = (misused \/ l \in lost)
  PROVE  Consistent'
<1> SUFFICES ASSUME Trusted' PROVE Consistent'
  BY DEF Consistent
<1>1. /\ ~misused /\ l \notin lost /\ table'.next_unpartitioned_chunk <= OFFSET_RANGE
  BY DEF Trusted
<1>2. /\ TableOK(table) /\ TableOK(table') /\ SameLines(table', table)
      /\ content \in [LineIndex -> Line]
  BY DEF Inductive, Typed, Failed
<1>3. Trusted
  <2> DEFINE next == table.next_unpartitioned_chunk
             next2 == table'.next_unpartitioned_chunk
  <2>1. next \in Nat /\ next2 \in Nat /\ next <= next2 /\ next2 <= OFFSET_RANGE
    BY <1>1, <1>2, TableParts DEF SameLines
  <2>2. OFFSET_RANGE \in Nat
    BY TableAssumption
  <2> HIDE DEF next, next2
  <2>3. next <= OFFSET_RANGE
    BY <2>1, <2>2
  <2> QED
    BY <1>1, <2>3 DEF Trusted, next
<1>4. /\ Ownership(table, lost, {})
      /\ \A m \in LineIndex \ lost : Fetch(table, table.entries[m]) = content[m]
      /\ \A u \in Threads : Ready(thread[u])
  BY <1>3 DEF Inductive, Consistent
<1>5. Ownership(table', lost', {})
  BY <1>1, <1>4 DEF Failed
<1>6. table'.entries = table.entries /\ lost \subseteq lost'
  BY <1>2 DEF SameLines
<1>7. \A m \in LineIndex \ lost' : Fetch(table', table'.entries[m]) = content'[m]
  <2> TAKE m \in LineIndex \ lost'
  <2>1. table.entries[m] \in EntryType
    BY <1>2, EntryParts
  <2>2. Fetch(table', table.entries[m]) = Fetch(table, table.entries[m])
    BY <1>2, <2>1, FetchSame DEF SameLines
  <2> QED
    BY <1>4, <1>6, <2>2
<1>8. \A u \in Threads : Ready(thread[u])'
  <2> TAKE u \in Threads
  <2>1. CASE u = t
    BY <2>1 DEF Ready
  <2>2. CASE u # t
    BY <1>4, <1>6, <2>2, OthersReady
  <2> QED
    BY <2>1, <2>2
<1> QED
  BY <1>5, <1>7, <1>8 DEF Consistent

(* A store, by its names.                                                  *)
LEMMA StoreIs ==
  ASSUME Inductive, NEW t \in Threads, NEW wraps \in BOOLEAN, Store(t, wraps)
  PROVE  LET c == thread[t]
             l == LineOf(c)
             comp == Compress(c.line_buf, wraps)
             s == StoreLine(table, l, comp)
             counted == [telemetry EXCEPT !.pattern_counts[comp.pattern] = @ + 1]
         IN  /\ c.pc = "store" /\ c.op = "Write" /\ l \in LineIndex
             /\ c \in ThreadType /\ ThreadOK(c, table.next_unpartitioned_chunk)
             /\ Faithful(comp, c.line_buf) /\ comp.pattern \in BDIPattern
             /\ table' = s.table
             /\ misused' = (misused \/ l \in lost)
             /\ thread' = Overtaking(thread, t, IF s.ok THEN Advanced(c) ELSE Idle, l)
             /\ telemetry' = IF s.ok THEN Finished(counted, c) ELSE counted
             /\ content' = IF s.ok THEN [content EXCEPT ![l] = c.line_buf] ELSE content
             /\ lost' = IF s.ok \/ Held(table, l) = {} THEN lost ELSE lost \cup {l}
<1> DEFINE c == thread[t]
           l == LineOf(c)
           comp == Compress(c.line_buf, wraps)
           s == StoreLine(table, l, comp)
           counted == [telemetry EXCEPT !.pattern_counts[comp.pattern] = @ + 1]
           x == IF s.ok THEN Advanced(c) ELSE Idle
           next == table.next_unpartitioned_chunk
           th == [thread EXCEPT ![t] = x]
           Others == [u \in Threads |->
                        IF u # t /\ th[u].pc \in {"fetch", "store"} /\ LineOf(th[u]) = l
                        THEN [th[u] EXCEPT !.overtaken = TRUE] ELSE th[u]]
<1>1. /\ c.pc = "store" /\ table' = s.table /\ misused' = (misused \/ l \in lost)
      /\ thread' = Others
      /\ telemetry' = IF s.ok THEN Finished(counted, c) ELSE counted
      /\ content' = IF s.ok THEN [content EXCEPT ![l] = c.line_buf] ELSE content
      /\ lost' = IF s.ok \/ Held(table, l) = {} THEN lost ELSE lost \cup {l}
  BY DEF Store
<1>2. ThreadOK(c, next) /\ thread \in [Threads -> ThreadType]
  BY InductiveParts
<1>3. c \in ThreadType /\ InRange(c) /\ c.op = "Write"
  BY <1>1, <1>2 DEF ThreadOK
<1>4. Others = Overtaking(thread, t, x, l)
  <2> HIDE DEF x, l
  <2>1. th[t] = x /\ \A u \in Threads : u # t => th[u] = thread[u]
    BY <1>2
  <2> HIDE DEF th
  <2> QED
    BY <2>1 DEF Overtaking
<1> HIDE DEF Others, x, th
<1>5. l \in LineIndex /\ c.line_buf \in Line
  <2> HIDE DEF c
  <2> QED
    BY <1>3, PartIs DEF InRange, ThreadType
<1>6. Faithful(comp, c.line_buf)
  BY <1>5, CompressIs
<1>7. comp.pattern \in BDIPattern
  BY <1>6 DEF Faithful
<1> QED
  BY <1>1, <1>2, <1>3, <1>4, <1>5, <1>6, <1>7 DEF x

(* Counting a pattern changes one count.                                   *)
LEMMA CountedIs ==
  ASSUME NEW tel \in TelemetryType, NEW p \in BDIPattern
  PROVE  LET counted == [tel EXCEPT !.pattern_counts[p] = @ + 1] IN
         /\ counted \in TelemetryType /\ counted.bytes_written = tel.bytes_written
         /\ counted.pattern_counts = [tel.pattern_counts EXCEPT ![p] = @ + 1]
<1> DEFINE k == [tel.pattern_counts EXCEPT ![p] = tel.pattern_counts[p] + 1]
<1>1. tel.pattern_counts \in [BDIPattern -> Nat]
  BY DEF TelemetryType
<1>2. tel.pattern_counts[p] + 1 \in Nat
  BY <1>1
<1>3. k \in [BDIPattern -> Nat]
  BY <1>1, <1>2
<1> DEFINE counted == [tel EXCEPT !.pattern_counts = k]
<1>4. counted = [tel EXCEPT !.pattern_counts[p] = @ + 1]
  OBVIOUS
<1> HIDE DEF k
<1>5. counted \in TelemetryType /\ counted.bytes_written = tel.bytes_written
      /\ counted.pattern_counts = k
  BY <1>3 DEF TelemetryType
<1> QED
  BY <1>4, <1>5 DEF k

(* Compressing and storing a line keeps the invariant.                     *)
LEMMA StoreKeeps ==
  ASSUME Inductive, NEW t \in Threads, NEW wraps \in BOOLEAN, Store(t, wraps)
  PROVE  Inductive'
<1> DEFINE c == thread[t]
           l == LineOf(c)
           comp == Compress(c.line_buf, wraps)
           s == StoreLine(table, l, comp)
           p == comp.pattern
           counted == [telemetry EXCEPT !.pattern_counts[p] = @ + 1]
           x == IF s.ok THEN Advanced(c) ELSE Idle
           next == table.next_unpartitioned_chunk
           line == c.line_buf
<1>1. /\ c.pc = "store" /\ c.op = "Write" /\ l \in LineIndex
      /\ c \in ThreadType /\ ThreadOK(c, next)
      /\ Faithful(comp, line) /\ p \in BDIPattern
      /\ table' = s.table
      /\ misused' = (misused \/ l \in lost)
      /\ thread' = Overtaking(thread, t, x, l)
      /\ telemetry' = IF s.ok THEN Finished(counted, c) ELSE counted
      /\ content' = IF s.ok THEN [content EXCEPT ![l] = line] ELSE content
      /\ lost' = IF s.ok \/ Held(table, l) = {} THEN lost ELSE lost \cup {l}
  BY StoreIs
<1>2. /\ telemetry \in TelemetryType /\ next \in Nat /\ TableOK(table)
      /\ content \in [LineIndex -> Line] /\ lost \in SUBSET LineIndex
      /\ misused \in BOOLEAN /\ LinesCounted
  BY InductiveParts DEF Inductive, Typed
<1>3. /\ counted \in TelemetryType /\ counted.bytes_written = telemetry.bytes_written
      /\ counted.pattern_counts = [telemetry.pattern_counts EXCEPT ![p] = @ + 1]
  BY <1>1, <1>2, CountedIs
<1>4. /\ c.line_buf \in Line /\ Progress(c) = c.done
      /\ c.done \in Nat /\ c.size \in Nat /\ PartOf(c) \in 1 .. 64 /\ c.done + PartOf(c) <= c.size
      /\ telemetry.bytes_written \in Nat
  <2>1. InRange(c)
    BY <1>1 DEF ThreadOK
  <2> HIDE DEF c
  <2> QED
    BY <1>1, <1>2, <2>1, PartIs DEF InRange, ThreadType, Progress, TelemetryType
<1> HIDE DEF c, l, comp, s, p, counted, line, next
<1>5. misused' \in BOOLEAN /\ lost' \in SUBSET LineIndex /\ content' \in [LineIndex -> Line]
  BY <1>1, <1>2, <1>4 DEF line
<1>6. CASE s.ok
  <2>1. Stored(table', table, l, line)
    BY <1>1, <1>2, <1>6, StoreSucceeds DEF s
  <2>2. x = Advanced(c) /\ telemetry' = Finished(counted, c)
    BY <1>1, <1>6
  <2> DEFINE f == Finished(counted, c)
             n == PartOf(c)
             d == c.done
             size == c.size
             b == telemetry.bytes_written
  <2>3. /\ f \in TelemetryType /\ f.pattern_counts = counted.pattern_counts
        /\ f.bytes_written = b + IF ~(d + n < size) THEN size ELSE 0
    BY <1>1, <1>3, FinishedIs
  <2>4. /\ ThreadOK(x, next) /\ x.pc \in {"idle", "line"}
        /\ Progress(x) = IF d + n < size THEN d + n ELSE 0
    BY <1>1, <1>2, <2>2, AdvancedIs
  <2> HIDE DEF x, f
  <2>5. /\ d \in Nat /\ n \in 1 .. 64 /\ size \in Nat /\ d + n <= size /\ b \in Nat
        /\ Progress(c) = d
    BY <1>4
  <2> DEFINE fb == f.bytes_written
             px == Progress(x)
  <2>6. fb = b + (IF ~(d + n < size) THEN size ELSE 0) /\ px = IF d + n < size THEN d + n ELSE 0
    BY <2>3, <2>4
  <2> HIDE DEF d, n, size, b, fb, px
  <2>7. fb + px <= b + d + 64
    BY <2>5, <2>6
  <2>8. /\ telemetry' \in TelemetryType
        /\ telemetry'.pattern_counts = [telemetry.pattern_counts EXCEPT ![p] = @ + 1]
        /\ telemetry'.bytes_written + Progress(x)
             <= telemetry.bytes_written + Progress(thread[t]) + 64
    BY <1>3, <2>2, <2>3, <2>5, <2>7 DEF f, fb, px, b, c
  <2>9. x \in ThreadType
    BY <2>4 DEF ThreadOK
  <2>10. TableOK(table') /\ table.next_unpartitioned_chunk <= table'.next_unpartitioned_chunk
    BY <2>1 DEF Stored
  <2>11. /\ Typed' /\ BytesCounted' /\ thread'[t] = x
         /\ \A u \in Threads : u # t /\ ~thread'[u].overtaken =>
              /\ thread'[u] = thread[u]
              /\ ~(thread[u].pc \in {"fetch", "store"} /\ LineOf(thread[u]) = l)
    BY <1>1, <1>5, <2>4, <2>8, <2>9, <2>10, StoreKeepsTypes DEF next
  <2>12. LinesCounted'
    BY <1>1, <1>2, <2>1, StoreCountsLine DEF Stored
  <2>13. Consistent'
    BY <1>1, <1>6, <2>1, <2>4, <2>11, StoredConsistent
  <2> QED
    BY <2>11, <2>12, <2>13 DEF Inductive
<1>7. CASE ~s.ok
  <2>1. Failed(table', table, l)
    BY <1>1, <1>2, <1>7, StoreFails DEF s
  <2>2. x = Idle /\ telemetry' = counted
    BY <1>1, <1>7
  <2>3. Idle.pc = "idle" /\ Progress(Idle) = 0
    BY DEF Idle, Progress
  <2>4. /\ x \in ThreadType /\ ThreadOK(x, next) /\ x.pc \in {"idle", "line"} /\ Progress(x) = 0
    BY <1>2, <2>2, <2>3, IdleIs
  <2> HIDE DEF x
  <2>8. /\ telemetry' \in TelemetryType
        /\ telemetry'.pattern_counts = [telemetry.pattern_counts EXCEPT ![p] = @ + 1]
        /\ telemetry'.bytes_written + Progress(x)
             <= telemetry.bytes_written + Progress(thread[t]) + 64
    BY <1>3, <1>4, <2>2, <2>4 DEF c
  <2>10. TableOK(table') /\ table.next_unpartitioned_chunk <= table'.next_unpartitioned_chunk
    BY <2>1 DEF Failed, SameLines
  <2>11. /\ Typed' /\ BytesCounted' /\ thread'[t] = x
         /\ \A u \in Threads : u # t /\ ~thread'[u].overtaken =>
              /\ thread'[u] = thread[u]
              /\ ~(thread[u].pc \in {"fetch", "store"} /\ LineOf(thread[u]) = l)
    BY <1>1, <1>5, <2>4, <2>8, <2>10, StoreKeepsTypes DEF next
  <2>12. LinesCounted'
    BY <1>2, <2>1 DEF Failed, SameLines, LinesCounted, ValidLines
  <2>13. Consistent'
    BY <1>1, <1>7, <2>1, <2>4, <2>11, FailedConsistent
  <2> QED
    BY <2>11, <2>12, <2>13 DEF Inductive
<1> QED
  BY <1>6, <1>7

(* Every step keeps the invariant.                                         *)
LEMMA InductiveStep == Inductive /\ [Next]_vars => Inductive'
<1> SUFFICES ASSUME Inductive, [Next]_vars PROVE Inductive'
  OBVIOUS
<1>1. CASE UNCHANGED vars
  <2>1. /\ table' = table /\ telemetry' = telemetry /\ thread' = thread
        /\ content' = content /\ lost' = lost /\ misused' = misused
    BY <1>1 DEF vars
  <2>2. Typed' /\ LinesCounted'
    BY <2>1 DEF Inductive, Typed, LinesCounted
  <2>3. BytesCounted'
    <3>1. BytesCounted' <=>
            (telemetry.bytes_written + SumOf(InProgress, Threads)
               <= 64 * SumOf(telemetry.pattern_counts, BDIPattern))'
      BY BytesAreSums, PTL
    <3>2. InProgress' = InProgress
      BY <2>1 DEF InProgress
    <3> QED
      BY <2>1, <3>1, <3>2, BytesAreSums DEF Inductive
  <2>4. Consistent'
    BY <2>1 DEF Inductive, Consistent, Trusted, Ready, Current
  <2> QED
    BY <2>2, <2>3, <2>4 DEF Inductive
<1>2. ASSUME NEW t \in Threads, WholeLine(t) PROVE Inductive'
  BY <1>2, WholeLineKeeps
<1>3. ASSUME NEW t \in Threads, CopyEntry(t) PROVE Inductive'
  BY <1>3, CopyEntryKeeps
<1>4. ASSUME NEW t \in Threads, FetchLine(t) PROVE Inductive'
  BY <1>4, FetchLineKeeps
<1>5. ASSUME NEW t \in Threads, NEW wraps \in BOOLEAN, Store(t, wraps) PROVE Inductive'
  BY <1>5, StoreKeeps
<1>6. ASSUME NEW t \in Threads, NEW r \in Requests, Call(t, r) PROVE Inductive'
  BY <1>6, CallKeeps
<1> QED
  BY <1>1, <1>2, <1>3, <1>4, <1>5, <1>6 DEF Next, ThreadStep

(* What the table, the calls and the telemetry have to do with one another *)
(* in every reachable state, whatever the threads do between locks.        *)
THEOREM AlwaysInductive == Spec => []Inductive
<1>1. Init => Inductive
  BY InductiveInit
<1>2. Inductive /\ [Next]_vars => Inductive'
  BY InductiveStep
<1> QED
  BY <1>1, <1>2, PTL DEF Spec

(* Every index is in range: the lines, the entries' chunks, the position   *)
(* of every call.                                                          *)
THEOREM TypesRight == Spec => []TypeOK
<1>1. Inductive => TypeOK
  <2> SUFFICES ASSUME Inductive PROVE TypeOK
    OBVIOUS
  <2>1. Typed
    BY DEF Inductive
  <2>2. TableOK(table)
    BY <2>1 DEF Typed
  <2>3. \A l \in LineIndex : table.entries[l].allocated_chunks \in 0 .. 4
    BY <2>2, EntryParts
  <2>4. \A l \in LineIndex \ lost : Held(table, l) \subseteq Chunks
    <3> TAKE l \in LineIndex \ lost
    <3> DEFINE next == table.next_unpartitioned_chunk
               total == total_physical_chunks
    <3>1. Held(table, l) \subseteq 0 .. next - 1
      BY <2>2, HeldIs
    <3>2. next \in Nat /\ total \in Nat /\ next <= total
      BY <2>2, TableParts
    <3>3. Chunks = 0 .. total - 1
      BY DEF Chunks
    <3> HIDE DEF next, total
    <3> QED
      BY <3>1, <3>2, <3>3
  <2>5. table.next_unpartitioned_chunk \in 0 .. total_physical_chunks
    BY <2>2, TableParts
  <2>6. ASSUME NEW t \in Threads
        PROVE  /\ thread[t].pc \in {"idle", "line", "fetch", "store"}
               /\ thread[t].pc # "idle" => LineOf(thread[t]) \in LineIndex
    <3> DEFINE c == thread[t]
    <3>1. ThreadOK(c, table.next_unpartitioned_chunk)
      BY <2>1 DEF Typed
    <3> HIDE DEF c
    <3>2. c.pc # "idle" => LineOf(c) \in LineIndex
      BY <3>1, PartIs DEF ThreadOK, ThreadType, InRange
    <3> QED
      BY <3>1, <3>2 DEF c, ThreadOK, ThreadType
  <2> QED
    BY <2>3, <2>4, <2>5, <2>6 DEF TypeOK
<1> QED
  BY <1>1, AlwaysInductive, PTL

(* The lines that hold their run, in the words of the invariant.           *)
LEMMA HeldLinesIs == HeldLines = Holders(table, lost)
BY DEF HeldLines, Holders

(* AllocateChunks and FreeChunks, called by StoreLine alone: every chunk   *)
(* handed out is held by one line or is in one free run, none leaks.       *)
THEOREM OneOwner == Spec => []ChunksHaveOneOwner
<1>1. Inductive => ChunksHaveOneOwner
  <2> SUFFICES ASSUME Inductive, Trusted PROVE ChunksHaveOneOwner
    BY DEF ChunksHaveOneOwner
  <2>1. Ownership(table, lost, {}) /\ TableOK(table)
    BY DEF Inductive, Typed, Consistent
  <2>2. Owned(table, lost, {}) /\ AllOwned(table, lost, {})
    BY <2>1 DEF Ownership
  <2>3. \A l, m \in HeldLines : l # m => Held(table, l) \cap Held(table, m) = {}
    BY <2>2, HeldLinesIs DEF Owned
  <2>4. \A p \in FreePlaces : \E n \in 1 .. 4 : \E i \in 1 .. Len(table.free_chunks[n]) :
           p = <<n, i>> /\ FreeRun(p) = FreeAt(table, n, i)
    <3> TAKE p \in FreePlaces
    <3>1. PICK n \in 1 .. 4 : p \in {n} \X DOMAIN table.free_chunks[n]
      BY DEF FreePlaces
    <3>2. table.free_chunks[n] \in Seq(Nat)
      BY <2>1, TableParts
    <3>3. DOMAIN table.free_chunks[n] = 1 .. Len(table.free_chunks[n])
      BY <3>2
    <3>4. PICK i \in 1 .. Len(table.free_chunks[n]) : p = <<n, i>>
      BY <3>1, <3>3
    <3> QED
      BY <3>4 DEF FreeRun, FreeAt
  <2>5. \A n \in 1 .. 4 : \A i \in 1 .. Len(table.free_chunks[n]) :
           <<n, i>> \in FreePlaces /\ FreeRun(<<n, i>>) = FreeAt(table, n, i)
    <3> TAKE n \in 1 .. 4
    <3> TAKE i \in 1 .. Len(table.free_chunks[n])
    <3>2. table.free_chunks[n] \in Seq(Nat)
      BY <2>1, TableParts
    <3>3. <<n, i>> \in {n} \X DOMAIN table.free_chunks[n]
      BY <3>2
    <3> QED
      BY <3>3 DEF FreePlaces, FreeRun, FreeAt
  <2>6. \A p, q \in FreePlaces : p # q => FreeRun(p) \cap FreeRun(q) = {}
    <3> TAKE p, q \in FreePlaces
    <3>1. PICK n \in 1 .. 4 : \E i \in 1 .. Len(table.free_chunks[n]) :
             p = <<n, i>> /\ FreeRun(p) = FreeAt(table, n, i)
      BY <2>4
    <3>2. PICK i \in 1 .. Len(table.free_chunks[n]) :
             p = <<n, i>> /\ FreeRun(p) = FreeAt(table, n, i)
      BY <3>1
    <3>3. PICK m \in 1 .. 4 : \E j \in 1 .. Len(table.free_chunks[m]) :
             q = <<m, j>> /\ FreeRun(q) = FreeAt(table, m, j)
      BY <2>4
    <3>4. PICK j \in 1 .. Len(table.free_chunks[m]) :
             q = <<m, j>> /\ FreeRun(q) = FreeAt(table, m, j)
      BY <3>3
    <3> QED
      BY <2>2, <3>2, <3>4 DEF Owned
  <2>7. \A l \in HeldLines, p \in FreePlaces : Held(table, l) \cap FreeRun(p) = {}
    <3> TAKE l \in HeldLines, p \in FreePlaces
    <3>1. PICK n \in 1 .. 4 : \E i \in 1 .. Len(table.free_chunks[n]) :
             p = <<n, i>> /\ FreeRun(p) = FreeAt(table, n, i)
      BY <2>4
    <3>2. PICK i \in 1 .. Len(table.free_chunks[n]) :
             p = <<n, i>> /\ FreeRun(p) = FreeAt(table, n, i)
      BY <3>1
    <3> QED
      BY <2>2, <3>2, HeldLinesIs DEF Owned
  <2>8. (UNION {Held(table, l) : l \in HeldLines}) \cup (UNION {FreeRun(p) : p \in FreePlaces})
          = 0 .. table.next_unpartitioned_chunk - 1
    <3>1. ASSUME NEW l \in HeldLines PROVE Held(table, l) \subseteq 0 .. table.next_unpartitioned_chunk - 1
      BY <2>1, HeldIs DEF HeldLines
    <3>2. ASSUME NEW p \in FreePlaces PROVE FreeRun(p) \subseteq 0 .. table.next_unpartitioned_chunk - 1
      <4>1. PICK n \in 1 .. 4 : \E i \in 1 .. Len(table.free_chunks[n]) :
               p = <<n, i>> /\ FreeRun(p) = FreeAt(table, n, i)
        BY <2>4
      <4>2. PICK i \in 1 .. Len(table.free_chunks[n]) : FreeRun(p) = FreeAt(table, n, i)
        BY <4>1
      <4> DEFINE next == table.next_unpartitioned_chunk
                 o == table.free_chunks[n][i]
      <4>3. o + n <= next /\ next \in Nat /\ table.free_chunks[n] \in Seq(Nat)
        BY <2>1, TableParts DEF FreeListsOK
      <4>4. o \in Nat
        BY <4>3
      <4>5. FreeRun(p) = o .. o + n - 1
        BY <4>2 DEF FreeAt, Run
      <4> HIDE DEF next, o
      <4> QED
        BY <4>3, <4>4, <4>5 DEF next
    <3>3. ASSUME NEW k \in 0 .. table.next_unpartitioned_chunk - 1
          PROVE  \/ \E l \in HeldLines : k \in Held(table, l)
                 \/ \E p \in FreePlaces : k \in FreeRun(p)
      BY <2>2, <2>5, HeldLinesIs DEF AllOwned
    <3> QED
      BY <3>1, <3>2, <3>3
  <2> QED
    BY <2>3, <2>6, <2>7, <2>8 DEF ChunksHaveOneOwner
<1> QED
  BY <1>1, AlwaysInductive, PTL

(* GetTelemetry and the table's counters tell the truth, also about calls  *)
(* in progress and calls that failed on the way.                           *)
THEOREM CountsRight == Spec => []CountsExact
<1>1. Inductive => CountsExact
  <2> SUFFICES ASSUME Inductive PROVE CountsExact
    OBVIOUS
  <2>1. Typed /\ LinesCounted /\ BytesCounted /\ Consistent
    BY DEF Inductive
  <2>2. telemetry.bytes_written <= 64 * SumOf(telemetry.pattern_counts, BDIPattern)
    <3> DEFINE s == SumOf(InProgress, Threads)
               m == SumOf(telemetry.pattern_counts, BDIPattern)
               b == telemetry.bytes_written
    <3>1. InProgress \in [Threads -> Nat]
      <4>1. \A t \in Threads : Progress(thread[t]) \in Nat
        BY <2>1 DEF Typed, ThreadType, Progress
      <4> QED
        BY <4>1 DEF InProgress
    <3>2. s \in Nat
      BY <3>1, ControllerAssumption, SumType
    <3>3. telemetry.pattern_counts \in [BDIPattern -> Nat] /\ b \in Nat
      BY <2>1 DEF Typed, TelemetryType
    <3>4. m \in Nat
      BY <3>3, PatternsFinite, SumType
    <3>5. b + s <= 64 * m
      BY <2>1, BytesAreSums
    <3> HIDE DEF s, m, b
    <3>6. b <= 64 * m
      BY <3>2, <3>3, <3>4, <3>5
    <3> QED
      BY <3>6 DEF m, b
  <2>3. telemetry.bytes_written
          <= CACHE_LINE_SIZE * MapThenSumSet(LAMBDA p : telemetry.pattern_counts[p], BDIPattern)
    BY <2>2 DEF SumOf, CACHE_LINE_SIZE
  <2>4. Trusted => table.allocated_chunks_count = Cardinality(UNION {Held(table, l) : l \in HeldLines})
    <3> SUFFICES ASSUME Trusted
                 PROVE  table.allocated_chunks_count = Cardinality(UNION {Held(table, l) : l \in HeldLines})
      OBVIOUS
    <3>1. Counted(table, lost, {})
      BY <2>1 DEF Consistent, Ownership
    <3>2. HeldBy(table, lost) \cup {} = UNION {Held(table, l) : l \in HeldLines}
      BY HeldLinesIs DEF HeldBy
    <3> QED
      BY <3>1, <3>2 DEF Counted
  <2>5. table.total_uncompressed_bytes_stored
          = CACHE_LINE_SIZE * Cardinality({l \in LineIndex : table.entries[l].valid})
    BY <2>1 DEF LinesCounted, ValidLines
  <2> QED
    BY <2>3, <2>4, <2>5 DEF CountsExact
<1> QED
  BY <1>1, AlwaysInductive, PTL

(* LoadLine finds in every line what StoreLine last put there, however the *)
(* other lines moved, grew and shrank in between.                          *)
THEOREM StoredIsLoaded == Spec => []LinesReadBack
<1>1. Inductive => LinesReadBack
  BY DEF Inductive, Consistent, LinesReadBack
<1> QED
  BY <1>1, AlwaysInductive, PTL

(* LoadLine reads the DRAM after it released the mutex: what it reads is   *)
(* the line, unless another thread stores that line before it is done.     *)
THEOREM NoTornLoad == Spec => []LoadsUntorn
<1>1. Inductive => LoadsUntorn
  <2> SUFFICES ASSUME Inductive, NEW t \in Threads, thread[t].pc = "fetch",
                      ~thread[t].overtaken, Trusted, LineOf(thread[t]) \notin lost
               PROVE  Fetch(table, thread[t].entry) = content[LineOf(thread[t])]
    BY DEF LoadsUntorn
  <2> DEFINE c == thread[t]
  <2>1. ThreadOK(c, table.next_unpartitioned_chunk)
    BY DEF Inductive, Typed
  <2>2. Ready(c) /\ \A l \in LineIndex \ lost : Fetch(table, table.entries[l]) = content[l]
    BY DEF Inductive, Consistent
  <2>3. LineOf(c) \in LineIndex
    <3> HIDE DEF c
    <3>1. c.pc # "idle"
      BY DEF c
    <3> QED
      BY <2>1, <3>1, PartIs DEF ThreadOK, ThreadType, InRange
  <2> QED
    BY <2>2, <2>3 DEF Ready, Current
<1> QED
  BY <1>1, AlwaysInductive, PTL

(* Write stores back the line it loaded with the bytes of its range changed*)
(* and no others, unless another thread stores the line in between.        *)
THEOREM OnlyTheRange == Spec => []OnlyRangeChanges
<1>1. Inductive => OnlyRangeChanges
  BY DEF Inductive, Consistent, OnlyRangeChanges, Ready, Wanted
<1> QED
  BY <1>1, AlwaysInductive, PTL

(* Every line that Write compresses is decompressed to itself, and is put  *)
(* in the fewest bytes of the patterns that fit.                           *)
THEOREM CompressionRight == Spec => []CompressionExact
<1>1. ASSUME NEW line \in Line, NEW wraps
      PROVE  Decompress(Compress(line, wraps)) = line
  <2> DEFINE c == Compress(line, wraps)
             data == c.data
             m == Len(data)
  <2>1. Faithful(c, line)
    BY CompressIs
  <2>2. c.compressed_size = m /\ data \in Seq(Byte)
    BY <2>1 DEF Faithful
  <2> HIDE DEF c, data
  <2>3. BeginsWith(data, m, data)
    BY <2>2 DEF BeginsWith
  <2>4. DecompressRaw(data, m, c.pattern) = line
    BY <2>1, <2>3 DEF Faithful, data
  <2> QED
    BY <2>2, <2>4 DEF Decompress, data, c
<1>2. Inductive => CompressionExact
  <2> SUFFICES ASSUME Inductive PROVE CompressionExact
    OBVIOUS
  <2>1. \A t \in Threads : thread[t].line_buf \in Line
    BY DEF Inductive, Typed, ThreadType
  <2>2. \A line \in (IF calls = 0 THEN Samples ELSE {})
                      \cup {thread[t].line_buf : t \in {u \in Threads : thread[u].pc = "store"}} :
          line \in Line
    BY <2>1, ControllerAssumption
  <2> QED
    BY <1>1, <2>2, CompressIs DEF CompressionExact
<1> QED
  BY <1>2, AlwaysInductive, PTL
=============================================================================
