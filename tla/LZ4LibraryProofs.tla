--------------------------- MODULE LZ4LibraryProofs ---------------------------
(***************************************************************************)
(* Theorems about LZ4Library, for every script of calls, every source      *)
(* below the index limit, every size of the output and every input of the  *)
(* decoder: LibraryInv is an invariant, and implies the bounds.  First the *)
(* decoder, from its copy routines to its loops, then the encoder, label   *)
(* by label, then the caller of both.                                      *)
(***************************************************************************)
EXTENDS LZ4LibraryInvariant, SetLemmas, SequenceTheorems

(* The greater and the lesser of two numbers.                              *)
LEMMA MaxOfTwo ==
  ASSUME NEW a \in Int, NEW b \in Int
  PROVE  /\ Max({a, b}) \in Int /\ a <= Max({a, b}) /\ b <= Max({a, b})
         /\ Max({a, b}) = a \/ Max({a, b}) = b
<1> DEFINE S == {a, b}
<1>1. \E x \in S : \A y \in S : x >= y
  OBVIOUS
<1>2. Max(S) \in S /\ \A y \in S : Max(S) >= y
  BY <1>1 DEF Max
<1> QED
  BY <1>2

(* The lesser of two integers.                                             *)
LEMMA MinOfTwo ==
  ASSUME NEW a \in Int, NEW b \in Int
  PROVE  /\ Min({a, b}) \in Int /\ Min({a, b}) <= a /\ Min({a, b}) <= b
         /\ Min({a, b}) = a \/ Min({a, b}) = b
<1> DEFINE S == {a, b}
<1>1. \E x \in S : \A y \in S : x <= y
  OBVIOUS
<1>2. Min(S) \in S /\ \A y \in S : Min(S) <= y
  BY <1>1 DEF Min
<1> QED
  BY <1>2

(* The least number of a set with a lower bound.                           *)
LEMMA LeastIs ==
  ASSUME NEW a \in Int, NEW S \in SUBSET Int, S # {}, \A x \in S : a <= x
  PROVE  Min(S) \in S /\ \A y \in S : Min(S) <= y
<1> DEFINE T == {x - a : x \in S}
<1>1. T \in SUBSET Nat /\ T # {}
  <2>1. \A x \in S : x \in Int /\ a <= x
    OBVIOUS
  <2>2. \A x \in S : x - a \in Nat
    BY <2>1
  <2> QED
    BY <2>2
<1>2. PICK m \in T : \A y \in T : m <= y
  BY <1>1, LeastNatural
<1>3. PICK x \in S : m = x - a
  BY <1>2
<1>4. \A y \in S : x <= y
  <2> SUFFICES ASSUME NEW y \in S PROVE x <= y
    OBVIOUS
  <2>1. y - a \in T
    OBVIOUS
  <2>2. x - a <= y - a
    BY <1>2, <1>3, <2>1
  <2> QED
    BY <2>2
<1> QED
  BY <1>4 DEF Min

-----------------------------------------------------------------------------
(* The decoder stays inside its buffers.                                   *)

(* The pointers and the label stay as they are.                            *)
Same(e, d) == e.pc = d.pc /\ e.ip = d.ip /\ e.op = d.op

(* The sizes of a call to the decoder are naturals.                        *)
LEMMA SizesAre ==
  ASSUME JobOK
  PROVE  oend \in Nat /\ inputEnd \in Nat
BY DEF JobOK, oend, inputEnd

(* Inside its input the decoder reads bytes.                               *)
LEMMA InIs ==
  ASSUME JobOK, NEW i \in Nat, i < inputEnd
  PROVE  In(i) \in Byte
<1>1. i + 1 \in 1 .. Len(job.src)
  BY DEF inputEnd, JobOK
<1>2. job.src[i + 1] \in Byte
  BY <1>1 DEF JobOK
<1> QED
  BY <1>2 DEF In

(* Copies within the output.                                               *)
LEMMA CopyStepsWithin ==
  ASSUME JobOK, NEW d, Within(d), NEW at \in Nat, NEW from \in Nat, NEW size, NEW k,
         size * k \in Int, at + size * k <= oend
  PROVE  LET e == CopySteps(d, at, from, size, k) IN Within(e) /\ Same(e, d)
<1> DEFINE n == size * k
<1>1. Shape(d) /\ Numbers(d) /\ d.wrote <= oend /\ d.fetched <= inputEnd /\ d.lowest >= 0
  BY DEF Within
<1>2. PICK mem : CopySteps(d, at, from, size, k) =
        [d EXCEPT !.mem = mem, !.wrote = Max({d.wrote, at + n}), !.lowest = Min({d.lowest, from})]
  BY <1>1 DEF CopySteps, Store, Shape, Locals
<1> DEFINE e == CopySteps(d, at, from, size, k)
           w == Max({d.wrote, at + n})
           l == Min({d.lowest, from})
<1>3. w \in Int /\ w <= oend
  <2>1. at + n \in Int
    OBVIOUS
  <2> QED
    BY <1>1, <2>1, MaxOfTwo DEF Numbers
<1>4. l \in Int /\ l >= 0
  <2>1. d.lowest \in Int /\ from \in Int
    BY <1>1 DEF Numbers
  <2>2. l \in Int /\ (l = d.lowest \/ l = from)
    BY <2>1, MinOfTwo
  <2> QED
    BY <1>1, <2>1, <2>2
<1> HIDE DEF w, l, n
<1>5. /\ e.pc = d.pc /\ e.ip = d.ip /\ e.op = d.op /\ e.wrote = w /\ e.lowest = l
      /\ e.fetched = d.fetched /\ e.result = d.result /\ Shape(e)
  BY <1>1, <1>2 DEF Shape, Locals, w, l
<1> QED
  BY <1>1, <1>3, <1>4, <1>5 DEF Within, Same, Numbers

(* Copies from the input.                                                  *)
LEMMA FromInputWithin ==
  ASSUME JobOK, NEW d, Within(d), NEW at \in Nat, NEW from \in Nat, NEW n \in Nat,
         at + n <= oend, from + n <= inputEnd
  PROVE  LET e == FromInput(d, at, from, n) IN Within(e) /\ Same(e, d)
<1>1. Shape(d) /\ Numbers(d) /\ d.wrote <= oend /\ d.fetched <= inputEnd /\ d.lowest >= 0
  BY DEF Within
<1>2. PICK mem : FromInput(d, at, from, n) =
        [d EXCEPT !.mem = mem, !.wrote = Max({d.wrote, at + n}),
                  !.fetched = Max({d.fetched, from + n})]
  BY <1>1 DEF FromInput, Shape, Locals
<1> DEFINE e == FromInput(d, at, from, n)
           w == Max({d.wrote, at + n})
           f == Max({d.fetched, from + n})
<1>3. w \in Int /\ w <= oend
  <2>1. at + n \in Int
    OBVIOUS
  <2> QED
    BY <1>1, <2>1, MaxOfTwo DEF Numbers
<1>4. f \in Int /\ f <= inputEnd
  <2>1. from + n \in Int
    OBVIOUS
  <2> QED
    BY <1>1, <2>1, MaxOfTwo DEF Numbers
<1> HIDE DEF w, f
<1>5. /\ e.pc = d.pc /\ e.ip = d.ip /\ e.op = d.op /\ e.wrote = w /\ e.lowest = d.lowest
      /\ e.fetched = f /\ e.result = d.result /\ Shape(e)
  BY <1>1, <1>2 DEF Shape, Locals, w, f
<1> QED
  BY <1>1, <1>3, <1>4, <1>5 DEF Within, Same, Numbers

(* Moving the pointers, and what was read of the input.                    *)
LEMMA PastWithin ==
  ASSUME JobOK, NEW d, Within(d), NEW i \in Nat, i <= inputEnd
  PROVE  LET e == [d EXCEPT !.ip = i, !.fetched = Max({@, i})]
         IN  Within(e) /\ e.pc = d.pc /\ e.op = d.op /\ e.ip = i
<1>1. Shape(d) /\ Numbers(d) /\ d.wrote <= oend /\ d.fetched <= inputEnd /\ d.lowest >= 0
  BY DEF Within
<1> DEFINE f == Max({d.fetched, i})
           e == [d EXCEPT !.ip = i, !.fetched = f]
<1>2. f \in Int /\ f <= inputEnd
  <2>1. d.fetched \in Int /\ i \in Int
    BY <1>1 DEF Numbers
  <2>2. f \in Int /\ (f = d.fetched \/ f = i)
    BY <2>1, MaxOfTwo
  <2> QED
    BY <1>1, <2>2
<1> HIDE DEF f
<1>3. /\ e.pc = d.pc /\ e.ip = i /\ e.op = d.op /\ e.wrote = d.wrote /\ e.lowest = d.lowest
      /\ e.fetched = f /\ Shape(e)
  <2>1. Shape(d)
    BY DEF Within
  <2> QED
    BY <2>1 DEF Shape, Locals
<1>4. Within(e)
  BY <1>1, <1>2, <1>3 DEF Within, Numbers
<1> QED
  BY <1>3, <1>4 DEF f

(* Fetching one or two input bytes that are there stays within bounds.     *)
LEMMA FetchWithin ==
  ASSUME JobOK, NEW d, Within(d), NEW n \in {1, 2}, d.ip + n <= inputEnd
  PROVE  LET e == [d EXCEPT !.ip = @ + n, !.fetched = Max({@, d.ip + n})]
         IN  Within(e) /\ e.pc = d.pc /\ e.op = d.op /\ e.ip = d.ip + n
<1>1. d.ip + n \in Nat /\ Shape(d)
  BY DEF Within, Numbers
<1> QED
  BY <1>1, PastWithin

(* Moving the output pointer alone reads and writes nothing.               *)
LEMMA OpWithin ==
  ASSUME NEW d, Within(d), NEW o \in Nat
  PROVE  LET e == [d EXCEPT !.op = o] IN Within(e) /\ e.pc = d.pc /\ e.op = o /\ e.ip = d.ip
<1> DEFINE e == [d EXCEPT !.op = o]
<1>1. Shape(d)
  BY DEF Within
<1>2. /\ e.pc = d.pc /\ e.ip = d.ip /\ e.op = o /\ e.wrote = d.wrote /\ e.lowest = d.lowest
      /\ e.fetched = d.fetched /\ Shape(e)
  BY <1>1 DEF Shape, Locals
<1> HIDE DEF e
<1> QED
  BY <1>2 DEF Within, Numbers, e

(* The two ways to return.                                                 *)
LEMMA ReturnWithin ==
  ASSUME NEW d, Within(d)
  PROVE  /\ Within(output_error(d)) /\ output_error(d).pc = "returned"
         /\ Within(EndOfDecoding(d)) /\ EndOfDecoding(d).pc = "returned"
<1> DEFINE e(r) == [d EXCEPT !.pc = "returned", !.result = r]
<1>1. Shape(d)
  BY DEF Within
<1>2. ASSUME NEW r PROVE Within(e(r)) /\ e(r).pc = "returned"
  <2> DEFINE f == e(r)
  <2>1. /\ f.pc = "returned" /\ f.ip = d.ip /\ f.op = d.op /\ f.wrote = d.wrote
        /\ f.lowest = d.lowest /\ f.fetched = d.fetched /\ Shape(f)
    BY <1>1 DEF Shape, Locals
  <2> HIDE DEF f
  <2>2. Within(f) /\ f.pc = "returned"
    BY <2>1 DEF Within, Numbers
  <2> QED
    BY <2>2 DEF f
<1> QED
  BY <1>2 DEF output_error, EndOfDecoding

(* A copy that moves size bytes at a time goes on for less than size bytes *)
(* beyond the length.                                                      *)
LEMMA TurnsAre ==
  ASSUME NEW n \in Int
  PROVE  /\ Turns(n, 8) \in Nat /\ (8 * Turns(n, 8) <= 8 \/ 8 * Turns(n, 8) <= n + 7)
         /\ Turns(n, 32) \in Nat /\ (32 * Turns(n, 32) <= 32 \/ 32 * Turns(n, 32) <= n + 31)
<1> DEFINE p == (n + 8 - 1) \div 8
           q == (n + 32 - 1) \div 32
<1>1. p \in Int /\ 8 * p <= n + 7 /\ q \in Int /\ 32 * q <= n + 31
  OBVIOUS
<1> HIDE DEF p, q
<1>2. Turns(n, 8) = Max({1, p}) /\ Turns(n, 32) = Max({1, q})
  BY DEF Turns, p, q
<1>3. /\ Max({1, p}) \in Int /\ 1 <= Max({1, p}) /\ (Max({1, p}) = 1 \/ Max({1, p}) = p)
      /\ Max({1, q}) \in Int /\ 1 <= Max({1, q}) /\ (Max({1, q}) = 1 \/ Max({1, q}) = q)
  <2>1. 1 \in Int /\ p \in Int /\ q \in Int
    BY <1>1
  <2> QED
    BY <2>1, MaxOfTwo
<1>4. Turns(n, 8) \in Nat /\ (Turns(n, 8) = 1 \/ Turns(n, 8) = p)
  BY <1>2, <1>3
<1>5. Turns(n, 32) \in Nat /\ (Turns(n, 32) = 1 \/ Turns(n, 32) = q)
  BY <1>2, <1>3
<1> DEFINE s == Turns(n, 8)
           t == Turns(n, 32)
<1> HIDE DEF s, t
<1>6. s \in Nat /\ (8 * s <= 8 \/ 8 * s <= n + 7)
  BY <1>1, <1>4 DEF s
<1>7. t \in Nat /\ (32 * t <= 32 \/ 32 * t <= n + 31)
  BY <1>1, <1>5 DEF t
<1> QED
  BY <1>6, <1>7 DEF s, t

(* The copy in steps of 8 writes up to 7 bytes past its end, and the end   *)
(* leaves room for them.                                                   *)
LEMMA WildCopy8Within ==
  ASSUME JobOK, NEW d, Within(d), NEW at \in Nat, NEW from \in Nat, NEW end \in Int,
         at + 8 <= oend, end + 7 <= oend
  PROVE  LET e == LZ4_wildCopy8(d, at, from, end) IN Within(e) /\ Same(e, d)
<1> DEFINE k == Turns(end - at, 8)
<1>1. k \in Nat /\ (8 * k <= 8 \/ 8 * k <= end - at + 7)
  <2>1. end - at \in Int
    OBVIOUS
  <2> QED
    BY <2>1, TurnsAre
<1> HIDE DEF k
<1>2. 8 * k \in Int /\ at + 8 * k <= oend
  BY <1>1, SizesAre
<1> QED
  BY <1>2, CopyStepsWithin DEF LZ4_wildCopy8, k

(* The copy in steps of 32 writes up to 31 bytes past its end, and the end *)
(* leaves room for them.                                                   *)
LEMMA WildCopy32Within ==
  ASSUME JobOK, NEW d, Within(d), NEW at \in Nat, NEW from \in Nat, NEW end \in Int,
         at + 32 <= oend, end + 31 <= oend
  PROVE  LET e == LZ4_wildCopy32(d, at, from, end) IN Within(e) /\ Same(e, d)
<1> DEFINE t == Turns(end - at, 32)
           k == 2 * t
<1>1. t \in Nat /\ (32 * t <= 32 \/ 32 * t <= end - at + 31)
  <2>1. end - at \in Int
    OBVIOUS
  <2> QED
    BY <2>1, TurnsAre
<1> HIDE DEF t
<1>2. 16 * k \in Int /\ at + 16 * k <= oend
  BY <1>1, SizesAre
<1> QED
  BY <1>2, CopyStepsWithin DEF LZ4_wildCopy32, t

(* Literals copied in steps of 8 or 32 overrun both buffers, and both leave*)
(* room.                                                                   *)
LEMMA WildLiteralsWithin ==
  ASSUME JobOK, NEW d, Within(d), NEW n \in Nat, NEW size \in {8, 32},
         d.op + size <= oend, d.op + n + size - 1 <= oend,
         d.ip + size <= inputEnd, d.ip + n + size - 1 <= inputEnd
  PROVE  LET e == WildLiterals(d, n, size) IN Within(e) /\ Same(e, d)
<1> DEFINE k == Turns(n, size)
<1>1. k \in Nat /\ (size * k <= size \/ size * k <= n + size - 1)
  <2>1. n \in Int
    OBVIOUS
  <2>2. CASE size = 8
    BY <2>1, <2>2, TurnsAre
  <2>3. CASE size = 32
    BY <2>1, <2>3, TurnsAre
  <2> QED
    BY <2>2, <2>3
<1> DEFINE m == size * k
<1>2. m \in Nat /\ (m <= size \/ m <= n + size - 1)
  BY <1>1
<1> HIDE DEF k, m
<1>3. d.op \in Nat /\ d.ip \in Nat /\ d.op + m <= oend /\ d.ip + m <= inputEnd
  BY <1>2, SizesAre DEF Within, Numbers
<1>4. WildLiterals(d, n, size) = FromInput(d, d.op, d.ip, m)
  BY DEF WildLiterals, m, k
<1> QED
  BY <1>2, <1>3, <1>4, FromInputWithin

(* Writes of any bytes, and reads of the output.                           *)
LEMMA WroteWithin ==
  ASSUME JobOK, NEW d, Within(d), NEW at \in Nat, NEW n \in Int, at + n <= oend, NEW mem
  PROVE  LET e == [d EXCEPT !.mem = mem, !.wrote = Max({@, at + n})]
         IN  Within(e) /\ Same(e, d)
<1> DEFINE w == Max({d.wrote, at + n})
           e == [d EXCEPT !.mem = mem, !.wrote = w]
<1>1. Shape(d) /\ Numbers(d) /\ d.wrote <= oend /\ d.fetched <= inputEnd /\ d.lowest >= 0
  BY DEF Within
<1>2. w \in Int /\ w <= oend
  <2>1. at + n \in Int
    OBVIOUS
  <2> QED
    BY <1>1, <2>1, MaxOfTwo DEF Numbers
<1> HIDE DEF w
<1>3. /\ e.pc = d.pc /\ e.ip = d.ip /\ e.op = d.op /\ e.wrote = w /\ e.lowest = d.lowest
      /\ e.fetched = d.fetched /\ Shape(e)
  BY <1>1 DEF Shape, Locals
<1> HIDE DEF e
<1>4. Within(e) /\ Same(e, d)
  BY <1>1, <1>2, <1>3 DEF Within, Same, Numbers
<1> QED
  BY <1>4 DEF e, w

(* Noting how far back a match read changes no bound.                      *)
LEMMA LowestWithin ==
  ASSUME NEW d, Within(d), NEW from \in Nat
  PROVE  LET e == [d EXCEPT !.lowest = Min({@, from})] IN Within(e) /\ Same(e, d)
<1> DEFINE l == Min({d.lowest, from})
           e == [d EXCEPT !.lowest = l]
<1>1. Shape(d) /\ Numbers(d) /\ d.wrote <= oend /\ d.fetched <= inputEnd /\ d.lowest >= 0
  BY DEF Within
<1>2. l \in Int /\ l >= 0
  <2>1. d.lowest \in Int /\ from \in Int
    BY <1>1 DEF Numbers
  <2>2. l \in Int /\ (l = d.lowest \/ l = from)
    BY <2>1, MinOfTwo
  <2> QED
    BY <1>1, <2>1, <2>2
<1> HIDE DEF l
<1>3. /\ e.pc = d.pc /\ e.ip = d.ip /\ e.op = d.op /\ e.wrote = d.wrote /\ e.lowest = l
      /\ e.fetched = d.fetched /\ Shape(e)
  BY <1>1 DEF Shape, Locals
<1> HIDE DEF e
<1>4. Within(e) /\ Same(e, d)
  BY <1>1, <1>2, <1>3 DEF Within, Same, Numbers
<1> QED
  BY <1>4 DEF e, l

(* The tables point back into the pattern, never before its start.         *)
LEMMA TablesAre ==
  ASSUME NEW offset \in 0 .. 7
  PROVE  /\ inc32table[offset + 1] \in 0 .. 4
         /\ inc32table[offset + 1] - dec64table[offset + 1] \in Nat
         /\ dec64table[offset + 1] \in Int
<1>1. offset \in {0, 1, 2, 3, 4, 5, 6, 7}
  OBVIOUS
<1> QED
  BY <1>1 DEF inc32table, dec64table

(* The first eight bytes of an overlapping match are written one by one and*)
(* four at once, inside the output.                                        *)
LEMMA FirstEightWithin ==
  ASSUME JobOK, NEW d, Within(d), NEW at \in Nat, NEW from \in Nat, NEW offset \in 0 .. 7,
         NEW size \in {1, 2}, at + 8 <= oend
  PROVE  LET e == FirstEight(d, at, from, offset, size) IN Within(e) /\ Same(e, d)
<1> DEFINE d1 == Store(d, at, 4, LAMBDA k : 0)
           d2 == CopySteps(d1, at, from, size, 4 \div size)
           inc == inc32table[offset + 1]
<1>0. oend \in Nat
  BY SizesAre
<1>1. Within(d1) /\ Same(d1, d)
  <2>1. PICK mem : d1 = [d EXCEPT !.mem = mem, !.wrote = Max({@, at + 4})]
    BY DEF Store
  <2>2. at + 4 <= oend
    BY <1>0
  <2> HIDE DEF d1
  <2>3. 4 \in Int
    OBVIOUS
  <2>4. Within([d EXCEPT !.mem = mem, !.wrote = Max({@, at + 4})])
    BY <2>2, <2>3, WroteWithin
  <2>5. Same([d EXCEPT !.mem = mem, !.wrote = Max({@, at + 4})], d)
    BY <2>2, <2>3, WroteWithin
  <2> QED
    BY <2>1, <2>4, <2>5
<1> HIDE DEF d1
<1>2. Within(d2) /\ Same(d2, d)
  <2>1. size * (4 \div size) = 4
    BY <1>1
  <2>2. at + size * (4 \div size) <= oend /\ size * (4 \div size) \in Int
    BY <1>0, <2>1
  <2>3. Within(d2) /\ Same(d2, d1)
    BY <1>1, <2>2, CopyStepsWithin
  <2> QED
    BY <1>1, <2>3 DEF Same
<1>3. inc \in 0 .. 4
  BY TablesAre
<1> HIDE DEF d2, inc
<1>4. from + inc \in Nat /\ at + 4 \in Nat /\ 4 * 1 \in Int /\ (at + 4) + 4 * 1 <= oend
  BY <1>0, <1>3
<1> DEFINE e == CopySteps(d2, at + 4, from + inc, 4, 1)
<1>5. Within(e) /\ Same(e, d2)
  BY <1>2, <1>4, CopyStepsWithin
<1> HIDE DEF e
<1>6. FirstEight(d, at, from, offset, size) = e
  BY DEF FirstEight, Copy, e, d2, d1, inc
<1> QED
  BY <1>2, <1>5, <1>6 DEF Same

(* The place an overlapping match resumes from is never before the output. *)
LEMMA ResumeIs ==
  ASSUME NEW from \in Nat, NEW offset \in 0 .. 7
  PROVE  Resume(from, offset) \in Nat
<1> DEFINE a == inc32table[offset + 1]
           b == dec64table[offset + 1]
<1>1. a \in Int /\ b \in Int /\ a - b \in Nat
  BY TablesAre
<1>2. Resume(from, offset) = from + a - b
  BY DEF Resume
<1> HIDE DEF a, b
<1> QED
  BY <1>1, <1>2

(* A copy of exactly n bytes stays within the output when n bytes are left.*)
LEMMA CopyWithin ==
  ASSUME JobOK, NEW d, Within(d), NEW at \in Nat, NEW from \in Nat, NEW n \in Nat,
         at + n <= oend
  PROVE  LET e == Copy(d, at, from, n) IN Within(e) /\ Same(e, d)
<1>1. n * 1 = n /\ n * 1 \in Int
  OBVIOUS
<1> QED
  BY <1>1, CopyStepsWithin DEF Copy

(* A match whose bytes come from the pattern of its first ones.            *)
LEMMA UsingOffsetWithin ==
  ASSUME JobOK, NEW d, Within(d), NEW at \in Nat, NEW from \in Nat, NEW end \in Int,
         NEW offset \in 0 .. 15, at + 16 <= oend, end + 7 <= oend
  PROVE  LET e == LZ4_memcpy_using_offset(d, at, from, end, offset) IN Within(e) /\ Same(e, d)
<1> DEFINE e == LZ4_memcpy_using_offset(d, at, from, end, offset)
<1>0. oend \in Nat /\ at + 8 <= oend /\ at + 8 \in Nat /\ (at + 8) + 8 <= oend
  BY SizesAre
<1>1. CASE offset \in {1, 2, 4}
  <2> DEFINE k == Turns(end - at, 8)
             n == 8 * k
  <2>1. n \in Int /\ at + n <= oend
    <3>1. end - at \in Int
      OBVIOUS
    <3>2. k \in Nat /\ (8 * k <= 8 \/ 8 * k <= end - at + 7)
      BY <3>1, TurnsAre
    <3> HIDE DEF k
    <3> QED
      BY <1>0, <3>2
  <2> DEFINE f == Store(d, at, n, LAMBDA i : d.mem[from + (i % offset)])
  <2>2. PICK mem : f = [d EXCEPT !.mem = mem, !.wrote = Max({@, at + n})]
    BY DEF Store
  <2> HIDE DEF n, f
  <2>3. Within(f) /\ Same(f, d)
    <3>1. Within([d EXCEPT !.mem = mem, !.wrote = Max({@, at + n})])
      BY <2>1, WroteWithin
    <3>2. Same([d EXCEPT !.mem = mem, !.wrote = Max({@, at + n})], d)
      BY <2>1, WroteWithin
    <3> QED
      BY <2>2, <3>1, <3>2
  <2> USE DEF f
  <2>4. e = [f EXCEPT !.lowest = Min({@, from})]
    <3>1. e = [f EXCEPT !.lowest = Min({d.lowest, from})] \/ e = [f EXCEPT !.lowest = Min({@, from})]
      BY <1>1 DEF LZ4_memcpy_using_offset, n
    <3>2. f.lowest = d.lowest
      <4>1. Shape(d)
        BY DEF Within
      <4> QED
        BY <2>2, <4>1 DEF Shape, Locals
    <3> QED
      BY <3>1, <3>2
  <2> HIDE DEF f, e
  <2>5. Within(e) /\ Same(e, f)
    BY <2>3, <2>4, LowestWithin
  <2> QED
    BY <2>3, <2>5 DEF Same, e
<1>2. CASE offset \notin {1, 2, 4} /\ offset < 8
  <2> DEFINE f == FirstEight(d, at, from, offset, 2)
             s == Resume(from, offset)
  <2>1. offset \in 0 .. 7
    BY <1>2
  <2>2. Within(f) /\ Same(f, d) /\ s \in Nat
    BY <1>0, <2>1, FirstEightWithin, ResumeIs
  <2>3. e = LZ4_wildCopy8(f, at + 8, s, end)
    BY <1>2 DEF LZ4_memcpy_using_offset
  <2> HIDE DEF f, s, e
  <2>4. Within(e) /\ Same(e, f)
    BY <1>0, <2>2, <2>3, WildCopy8Within
  <2> QED
    BY <2>2, <2>4 DEF Same, e
<1>3. CASE offset \notin {1, 2, 4} /\ ~(offset < 8)
  <2> DEFINE f == Copy(d, at, from, 8)
  <2>2. Within(f) /\ Same(f, d)
    BY <1>0, CopyWithin
  <2>3. e = LZ4_wildCopy8(f, at + 8, from + 8, end)
    BY <1>3 DEF LZ4_memcpy_using_offset
  <2> HIDE DEF f, e
  <2>4. from + 8 \in Nat
    OBVIOUS
  <2>5. Within(e) /\ Same(e, f)
    BY <1>0, <2>2, <2>3, <2>4, WildCopy8Within
  <2> QED
    BY <2>2, <2>5 DEF Same, e
<1> QED
  BY <1>1, <1>2, <1>3
(* Both ways of returning from the decoder are allowed within bounds.      *)
LEMMA ReturnReady ==
  ASSUME NEW d, Within(d)
  PROVE  Ready(output_error(d)) /\ Ready(EndOfDecoding(d))
BY ReturnWithin DEF Ready

(* Going to another label changes no bound.                                *)
LEMMA PcWithin ==
  ASSUME NEW d, Within(d), NEW pc
  PROVE  LET e == [d EXCEPT !.pc = pc]
         IN  Within(e) /\ e.pc = pc /\ e.op = d.op /\ e.ip = d.ip
<1> DEFINE e == [d EXCEPT !.pc = pc]
<1>1. Shape(d)
  BY DEF Within
<1>2. /\ e.pc = pc /\ e.ip = d.ip /\ e.op = d.op /\ e.wrote = d.wrote /\ e.lowest = d.lowest
      /\ e.fetched = d.fetched /\ Shape(e)
  BY <1>1 DEF Shape, Locals
<1> HIDE DEF e
<1> QED
  BY <1>2 DEF Within, Numbers, e

(* The three ways a match is copied.                                       *)
LEMMA PartialMatchReady ==
  ASSUME JobOK, NEW d, Within(d), d.pc = "safe", d.op <= oend, d.ip < inputEnd,
         NEW match \in Nat, NEW length \in Nat
  PROVE  Ready(PartialMatch(d, match, length))
<1> DEFINE mlen == Min({length, oend - d.op})
           f == CopySteps(d, d.op, match, 1, mlen)
           e == [f EXCEPT !.op = @ + mlen]
<1>0. oend \in Nat /\ d.op \in Nat
  BY SizesAre DEF Within, Numbers
<1>1. mlen \in Nat /\ d.op + mlen <= oend
  <2>1. length \in Int /\ oend - d.op \in Int /\ oend - d.op >= 0
    BY <1>0
  <2>2. mlen \in Int /\ mlen <= oend - d.op /\ (mlen = length \/ mlen = oend - d.op)
    BY <2>1, MinOfTwo
  <2> HIDE DEF mlen
  <2> QED
    BY <1>0, <2>1, <2>2
<1> HIDE DEF mlen
<1>2. 1 * mlen \in Int /\ d.op + 1 * mlen <= oend
  BY <1>1
<1>3. Within(f) /\ Same(f, d)
  BY <1>0, <1>2, CopyStepsWithin
<1> HIDE DEF f
<1>4. f.op = d.op /\ f.op + mlen \in Nat
  BY <1>0, <1>1, <1>3 DEF Same
<1>5. Within(e) /\ e.pc = f.pc /\ e.op = f.op + mlen /\ e.ip = f.ip
  <2> DEFINE o == f.op + mlen
  <2>1. Within([f EXCEPT !.op = o]) /\ [f EXCEPT !.op = o].pc = f.pc
        /\ [f EXCEPT !.op = o].op = o /\ [f EXCEPT !.op = o].ip = f.ip
    <3> HIDE DEF o
    <3>1. o \in Nat
      BY <1>4 DEF o
    <3> QED
      BY <1>3, <3>1, OpWithin
  <2> QED
    BY <2>1
<1> HIDE DEF e
<1>6. Ready(e)
  BY <1>1, <1>3, <1>4, <1>5 DEF Ready, Same
<1>7. PartialMatch(d, match, length) = IF e.op = oend THEN EndOfDecoding(e) ELSE e
  BY DEF PartialMatch, e, f, mlen
<1> QED
  BY <1>5, <1>6, <1>7, ReturnReady

(* The end of a match at least 12 bytes before the end of the output is    *)
(* copied in steps of 8.                                                   *)
LEMMA MatchInsideReady ==
  ASSUME JobOK, NEW d, Within(d), d.pc = "safe", d.ip < inputEnd,
         NEW match \in Nat, NEW length \in Nat, NEW cpy \in Nat,
         length >= 4, d.op + length = cpy + 8, cpy <= oend - 12
  PROVE  Ready(MatchInside(d, match, length, cpy))
<1> DEFINE e == Copy(d, d.op, match, 8)
           f == LZ4_wildCopy8(e, d.op + 8, match + 8, cpy)
<1>0. oend \in Nat /\ d.op \in Nat
  BY SizesAre DEF Within, Numbers
<1>1. Within(e) /\ Same(e, d)
  <2>1. d.op + 8 <= oend
    BY <1>0
  <2> QED
    BY <1>0, <2>1, CopyWithin
<1> HIDE DEF e
<1>2. ASSUME length > 16 PROVE Within(f) /\ Same(f, d)
  <2>1. d.op + 8 \in Nat /\ match + 8 \in Nat /\ (d.op + 8) + 8 <= oend /\ cpy + 7 <= oend
        /\ cpy \in Int
    BY <1>0, <1>2
  <2>2. Within(f) /\ Same(f, e)
    BY <1>1, <2>1, WildCopy8Within
  <2> QED
    BY <1>1, <2>2 DEF Same
<1> HIDE DEF f
<1> DEFINE g == IF length > 16 THEN f ELSE e
<1>3. Within(g) /\ Same(g, d)
  BY <1>1, <1>2
<1> HIDE DEF g
<1>4. MatchInside(d, match, length, cpy) = [g EXCEPT !.op = cpy]
  BY DEF MatchInside, g, f, e
<1> DEFINE h == [g EXCEPT !.op = cpy]
<1>5. Within(h) /\ h.pc = g.pc /\ h.op = cpy /\ h.ip = g.ip
  BY <1>3, OpWithin
<1> HIDE DEF h
<1>6. cpy <= oend
  BY <1>0
<1>7. Ready(h)
  BY <1>3, <1>5, <1>6 DEF Ready, Same
<1> QED
  BY <1>4, <1>7 DEF h

(* The end of a match in the last 12 bytes is copied in steps of 8 up to   *)
(* oCopyLimit, then byte by byte.                                          *)
LEMMA MatchAtEndReady ==
  ASSUME JobOK, NEW d, Within(d), d.pc = "safe", d.ip < inputEnd,
         NEW match \in Nat, NEW cpy \in Nat, d.op <= oend - 4, cpy <= oend - 5
  PROVE  Ready(MatchAtEnd(d, match, cpy))
<1> DEFINE lim == oend - (WILDCOPYLENGTH - 1)
           wild == d.op < lim
           e == IF wild THEN LZ4_wildCopy8(d, d.op, match, lim) ELSE d
           from == IF wild THEN match + lim - d.op ELSE match
           at == IF wild THEN lim ELSE d.op
           n == Max({0, cpy - at})
           f == CopySteps(e, at, from, 1, n)
<1>0. oend \in Nat /\ d.op \in Nat /\ lim = oend - 7 /\ lim \in Int
  BY SizesAre DEF Within, Numbers, WILDCOPYLENGTH
<1> HIDE DEF lim
<1>1. Within(e) /\ Same(e, d)
  <2>1. CASE wild
    <3>1. d.op + 8 <= oend /\ lim + 7 <= oend
      BY <1>0, <2>1
    <3> QED
      BY <1>0, <2>1, <3>1, WildCopy8Within
  <2>2. CASE ~wild
    BY <2>2 DEF Same
  <2> QED
    BY <2>1, <2>2
<1>2. from \in Nat /\ at \in Nat /\ at <= oend - 4
  BY <1>0
<1> HIDE DEF e, from, at
<1>3. n \in Nat /\ (n = 0 \/ n = cpy - at)
  <2>1. 0 \in Int /\ cpy - at \in Int
    BY <1>2
  <2>2. n \in Int /\ 0 <= n /\ (n = 0 \/ n = cpy - at)
    BY <2>1, MaxOfTwo
  <2> HIDE DEF n
  <2> QED
    BY <2>2
<1> HIDE DEF n
<1>4. 1 * n \in Int /\ at + 1 * n <= oend
  BY <1>0, <1>2, <1>3
<1>5. Within(f) /\ Same(f, e)
  BY <1>1, <1>2, <1>4, CopyStepsWithin
<1> HIDE DEF f
<1> DEFINE h == [f EXCEPT !.op = cpy]
<1>6. Within(h) /\ h.pc = f.pc /\ h.op = cpy /\ h.ip = f.ip
  BY <1>5, OpWithin
<1>7. MatchAtEnd(d, match, cpy) = h
  BY DEF MatchAtEnd, h, f, e, n, at, from, lim
<1> HIDE DEF h
<1>8. cpy <= oend
  BY <1>0
<1>9. Ready(h)
  BY <1>1, <1>5, <1>6, <1>8 DEF Ready, Same
<1> QED
  BY <1>7, <1>9

(* safe_match_copy, from where a match may be copied: the last twelve      *)
(* bytes of the output are reached in a partial decode only.               *)
LEMMA SafeMatchReady ==
  ASSUME JobOK, NEW d0, Within(d0), d0.ip < inputEnd, d0.op <= oend,
         job.partialDecoding \/ d0.op <= oend - 12,
         NEW offset \in Nat, NEW length \in Nat, length >= 4
  PROVE  Ready(safe_match_copy(d0, offset, length))
<1> DEFINE d == [d0 EXCEPT !.pc = "safe"]
           match == d.op - offset
           cpy == d.op + length
           f == IF offset < 8 THEN FirstEight(d, d.op, match, offset, 1) ELSE Copy(d, d.op, match, 8)
           e == [f EXCEPT !.op = @ + 8]
           from == IF offset < 8 THEN Resume(match, offset) ELSE match + 8
           near == cpy > oend - MATCH_SAFEGUARD_DISTANCE
           result == safe_match_copy(d0, offset, length)
<1>1. Within(d) /\ d.pc = "safe" /\ d.op = d0.op /\ d.ip = d0.ip
  BY PcWithin
<1>2. oend \in Nat /\ d.op \in Nat /\ match \in Int /\ cpy \in Nat
      /\ near \in BOOLEAN /\ (near <=> cpy > oend - 12)
  BY <1>1, SizesAre DEF Within, Numbers, MATCH_SAFEGUARD_DISTANCE
<1>3. result = CASE match < 0 -> output_error(d)
        [] match >= 0 /\ near /\ job.partialDecoding -> PartialMatch(d, match, length)
        [] match >= 0 /\ near /\ ~job.partialDecoding ->
             IF cpy > oend - 5 THEN output_error(e) ELSE MatchAtEnd(e, from, cpy)
        [] match >= 0 /\ ~near -> MatchInside(e, from, length, cpy)
  BY DEF safe_match_copy
<1> HIDE DEF near, result
<1>4. CASE match < 0
  <2>1. ~(match >= 0)
    BY <1>2, <1>4
  <2> HIDE DEF d, match, cpy, e, from
  <2>2. result = output_error(d)
    BY <1>3, <1>4, <2>1
  <2> QED
    BY <1>1, <2>2, ReturnReady DEF result
<1>5. CASE match >= 0
  <2>0. match \in Nat /\ ~(match < 0)
    BY <1>2, <1>5
  <2>1. CASE near /\ job.partialDecoding
    <3> HIDE DEF match, cpy, e, from
    <3>1. result = PartialMatch(d, match, length)
      BY <1>3, <1>5, <2>0, <2>1
    <3> HIDE DEF d
    <3> QED
      BY <1>1, <2>0, <3>1, PartialMatchReady DEF result
  <2>2. ASSUME d.op + 8 <= oend PROVE Within(e) /\ e.pc = "safe" /\ e.op = d.op + 8 /\ e.ip = d.ip
                                     /\ from \in Nat
    <3> HIDE DEF d, match, cpy
    <3>1. ASSUME offset < 8 PROVE Within(f) /\ Same(f, d) /\ from \in Nat
      <4>1. offset \in 0 .. 7 /\ 1 \in {1, 2}
        BY <3>1
      <4>2. Within(f) /\ Same(f, d)
        BY <1>1, <1>2, <2>0, <2>2, <3>1, <4>1, FirstEightWithin
      <4>3. from \in Nat
        BY <2>0, <3>1, <4>1, ResumeIs
      <4> QED
        BY <4>2, <4>3
    <3>2. ASSUME ~(offset < 8) PROVE Within(f) /\ Same(f, d) /\ from \in Nat
      <4>1. Within(f) /\ Same(f, d)
        <5>1. f = Copy(d, d.op, match, 8)
          BY <3>2
        <5>2. PICK n \in Nat : n = 8
          OBVIOUS
        <5> HIDE DEF f
        <5> QED
          BY <1>1, <1>2, <2>0, <2>2, <5>1, <5>2, CopyWithin
      <4>2. from \in Nat
        BY <2>0, <3>2
      <4> QED
        BY <4>1, <4>2
    <3>3. Within(f) /\ Same(f, d) /\ from \in Nat
      BY <3>1, <3>2
    <3> HIDE DEF f, from
    <3>4. f.op + 8 \in Nat /\ f.op = d.op
      BY <1>2, <3>3 DEF Same
    <3> DEFINE o == f.op + 8
               g == [f EXCEPT !.op = o]
    <3>5. Within(g) /\ g.pc = f.pc /\ g.op = o /\ g.ip = f.ip
      <4> HIDE DEF o
      <4>1. o \in Nat
        BY <3>4 DEF o
      <4> QED
        BY <3>3, <4>1, OpWithin
    <3>6. e = g
      OBVIOUS
    <3> HIDE DEF g
    <3> QED
      BY <1>1, <3>3, <3>4, <3>5, <3>6 DEF Same
  <2>3. CASE near /\ ~job.partialDecoding
    <3>0. d.op <= oend - 12 /\ d.op + 8 <= oend /\ cpy > oend - 12
      BY <1>1, <1>2, <2>3
    <3>4. Within(e) /\ e.pc = "safe" /\ e.op = d.op + 8 /\ e.ip = d.ip /\ from \in Nat
      BY <2>2, <3>0
    <3> HIDE DEF match, e, from, d, cpy
    <3>1. result = IF cpy > oend - 5 THEN output_error(e) ELSE MatchAtEnd(e, from, cpy)
      BY <1>3, <1>5, <2>0, <2>3
    <3>2. CASE cpy > oend - 5
      BY <3>1, <3>2, <3>4, ReturnReady DEF result
    <3>3. CASE ~(cpy > oend - 5)
      <4>1. cpy <= oend - 5 /\ e.op <= oend - 4 /\ e.ip < inputEnd
        BY <1>1, <1>2, <3>0, <3>3, <3>4
      <4> QED
        BY <1>2, <3>1, <3>3, <3>4, <4>1, MatchAtEndReady DEF result
    <3> QED
      BY <3>2, <3>3
  <2>4. CASE ~near
    <3>0. d.op + 8 <= oend /\ cpy <= oend - 12
      BY <1>2, <2>4
    <3>4. Within(e) /\ e.pc = "safe" /\ e.op = d.op + 8 /\ e.ip = d.ip /\ from \in Nat
      BY <2>2, <3>0
    <3>5. e.op + length = cpy + 8
      BY <1>2, <3>4
    <3> HIDE DEF match, e, from, d, cpy
    <3>1. result = MatchInside(e, from, length, cpy)
      BY <1>3, <1>5, <2>0, <2>4
    <3>2. e.ip < inputEnd
      BY <1>1, <3>4
    <3> QED
      BY <1>2, <3>0, <3>1, <3>2, <3>4, <3>5, MatchInsideReady DEF result
  <2> QED
    BY <1>2, <2>1, <2>3, <2>4
<1> QED
  BY <1>2, <1>4, <1>5

-----------------------------------------------------------------------------
(* A length that goes on in the input ends before the limit.               *)
LEMMA VariableLengthIs ==
  ASSUME JobOK, NEW ip \in Nat, NEW ilimit \in Int, ilimit <= inputEnd
  PROVE  LET r == read_variable_length(ip, ilimit)
         IN  /\ r.error \in BOOLEAN /\ r.length \in Nat /\ r.ip \in Nat /\ ip <= r.ip
             /\ r.ip <= ip \/ r.ip <= ilimit
             /\ ~r.error => ip < r.ip /\ r.ip <= ilimit
<1> DEFINE m == Max({ip, ilimit})
           T == {i \in ip .. ilimit - 1 : In(i) # 255}
           S == {m} \cup T
           end == Min(S)
           r == read_variable_length(ip, ilimit)
<1>1. m \in Int /\ ip <= m /\ ilimit <= m /\ (m = ip \/ m = ilimit)
  <2>1. ip \in Int
    OBVIOUS
  <2> QED
    BY <2>1, MaxOfTwo
<1> HIDE DEF m
<1>2. S \in SUBSET Int /\ S # {} /\ \A x \in S : ip <= x
  BY <1>1
<1>3. end \in S /\ \A y \in S : end <= y
  <2>1. ip \in Int
    OBVIOUS
  <2> HIDE DEF S
  <2> QED
    BY <1>2, <2>1, LeastIs
<1>4. end \in Nat /\ ip <= end /\ end <= m
  BY <1>1, <1>2, <1>3
<1>5. end < ilimit => end \in T
  BY <1>1, <1>3
<1> HIDE DEF end
<1>6. r = IF end >= ilimit THEN [error |-> TRUE, length |-> 0, ip |-> end]
          ELSE [error |-> FALSE, length |-> 255 * (end - ip) + In(end), ip |-> end + 1]
  BY DEF read_variable_length, end, m
<1> HIDE DEF r, T
<1>7. CASE end >= ilimit
  <2>1. r = [error |-> TRUE, length |-> 0, ip |-> end]
    BY <1>6, <1>7
  <2>2. r.error /\ r.error \in BOOLEAN
    BY <2>1
  <2>3. r.length \in Nat /\ r.ip = end
    BY <2>1
  <2>4. end <= ip \/ end <= ilimit
    BY <1>1, <1>4
  <2> QED
    BY <1>4, <2>2, <2>3, <2>4 DEF r
<1>8. CASE ~(end >= ilimit)
  <2>1. end < ilimit /\ end \in T
    BY <1>4, <1>5, <1>8
  <2>2. In(end) \in Byte
    <3>1. end < inputEnd
      BY <1>4, <2>1, SizesAre
    <3> QED
      BY <1>4, <3>1, InIs
  <2>3. In(end) \in Nat
    BY <2>2 DEF Byte, Below
  <2> DEFINE v == In(end)
             n == 255 * (end - ip) + v
  <2> HIDE DEF v
  <2>4. n \in Nat
    <3>1. v \in Nat /\ end - ip \in Nat
      BY <1>4, <2>3 DEF v
    <3> QED
      BY <3>1
  <2>5. r = [error |-> FALSE, length |-> n, ip |-> end + 1]
    BY <1>6, <1>8 DEF v
  <2> HIDE DEF n
  <2>6. ~r.error /\ r.error \in BOOLEAN
    BY <2>5
  <2>7. r.length \in Nat /\ r.ip = end + 1
    BY <2>4, <2>5
  <2>8. end + 1 \in Nat /\ ip < end + 1 /\ end + 1 <= ilimit
    BY <1>4, <2>1
  <2>9. r.ip \in Nat /\ ip < r.ip /\ r.ip <= ilimit /\ ip <= r.ip
    BY <2>7, <2>8
  <2> QED
    BY <2>6, <2>7, <2>9 DEF r
<1> QED
  BY <1>7, <1>8

(* read_variable_length stops at its limit, with an error, or at a byte    *)
(* below 255.                                                              *)
LEMMA LengthIs ==
  ASSUME JobOK, NEW d, Within(d), NEW nibble \in 0 .. 15, NEW ilimit \in Int,
         ilimit <= inputEnd
  PROVE  LET r == Length(d, nibble, ilimit)
         IN  /\ r.error \in BOOLEAN /\ r.length \in Nat /\ r.ip \in Nat
             /\ d.ip <= r.ip /\ (r.ip <= d.ip \/ r.ip <= ilimit)
             /\ nibble # 15 => ~r.error /\ r.length = nibble /\ r.ip = d.ip
             /\ nibble = 15 /\ ~r.error => r.ip <= ilimit
<1> DEFINE s == read_variable_length(d.ip, ilimit)
           r == Length(d, nibble, ilimit)
<1>1. d.ip \in Nat
  BY DEF Within, Numbers
<1>2. CASE nibble # 15
  <2>1. r = [error |-> FALSE, length |-> nibble, ip |-> d.ip]
    BY <1>2 DEF Length
  <2> HIDE DEF r
  <2> QED
    BY <1>1, <1>2, <2>1 DEF r
<1>3. CASE nibble = 15
  <2>1. r = [s EXCEPT !.length = @ + 15]
    BY <1>3 DEF Length
  <2>2. /\ s.error \in BOOLEAN /\ s.length \in Nat /\ s.ip \in Nat /\ d.ip <= s.ip
        /\ s.ip <= d.ip \/ s.ip <= ilimit
        /\ ~s.error => d.ip < s.ip /\ s.ip <= ilimit
    BY <1>1, VariableLengthIs
  <2>3. r.error = s.error /\ r.length = s.length + 15 /\ r.ip = s.ip
    <3>1. \E e, l, i : s = [error |-> e, length |-> l, ip |-> i]
      BY DEF read_variable_length
    <3> HIDE DEF s
    <3> QED
      BY <2>1, <3>1
  <2> HIDE DEF s, r
  <2> QED
    BY <1>3, <2>2, <2>3 DEF r
<1> QED
  BY <1>2, <1>3
(* Reading a length stays inside the input.                                *)
LEMMA LengthWithin ==
  ASSUME JobOK, NEW d, Within(d), d.ip <= inputEnd, NEW nibble \in 0 .. 15,
         NEW ilimit \in Int, ilimit <= inputEnd
  PROVE  LET e == Past(d, Length(d, nibble, ilimit))
         IN  /\ Within(e) /\ e.pc = d.pc /\ e.op = d.op
             /\ e.ip = Length(d, nibble, ilimit).ip
<1> DEFINE r == Length(d, nibble, ilimit)
<1>1. r.ip \in Nat /\ (r.ip <= d.ip \/ r.ip <= ilimit)
  BY LengthIs
<1> HIDE DEF r
<1>2. r.ip <= inputEnd
  BY <1>1, SizesAre DEF Within, Numbers
<1> QED
  BY <1>1, <1>2, PastWithin DEF Past, r

(* _copy_match and what leads to it, from where an offset is in the input. *)
LEMMA CopyMatchReady ==
  ASSUME JobOK, NEW d, Within(d), d.ip < inputEnd, d.op <= oend,
         job.partialDecoding \/ d.op <= oend - 12,
         NEW nibble \in 0 .. 15, NEW offset \in Nat
  PROVE  Ready(copy_match(d, nibble, offset))
<1> DEFINE lim == inputEnd - 6
           r == Length(d, nibble, lim)
           e == Past(d, r)
<1>1. d.ip \in Nat /\ inputEnd \in Nat /\ lim \in Int /\ lim <= inputEnd /\ d.ip <= inputEnd
  BY SizesAre DEF Within, Numbers
<1>2. r.length \in Nat /\ r.ip \in Nat /\ (r.ip <= d.ip \/ r.ip <= lim)
  <2> HIDE DEF lim
  <2> QED
    BY <1>1, LengthIs
<1>3. Within(e) /\ e.pc = d.pc /\ e.op = d.op /\ e.ip = r.ip
  <2> HIDE DEF lim
  <2> QED
    BY <1>1, LengthWithin
<1>4. copy_match(d, nibble, offset)
        = IF r.error THEN output_error(e) ELSE safe_match_copy(e, offset, r.length + 4)
  BY DEF copy_match
<1>5. r.ip < inputEnd
  BY <1>1, <1>2
<1> HIDE DEF r, e, lim
<1>6. r.length + 4 \in Nat /\ r.length + 4 >= 4
  BY <1>2
<1>7. e.ip < inputEnd /\ e.op <= oend /\ (job.partialDecoding \/ e.op <= oend - 12)
  BY <1>3, <1>5
<1>8. Ready(safe_match_copy(e, offset, r.length + 4))
  BY <1>3, <1>6, <1>7, SafeMatchReady
<1> QED
  BY <1>3, <1>4, <1>8, ReturnReady

(* Both halves of a token are nibbles.                                     *)
LEMMA NibblesAre ==
  ASSUME NEW token \in Byte
  PROVE  token \in Nat /\ token % 16 \in 0 .. 15 /\ token \div 16 \in 0 .. 15
<1>1. token \in 0 .. 255
  BY DEF Byte, Below
<1> QED
  BY <1>1

(* An offset of two bytes inside the input is a natural.                   *)
LEMMA OffsetIs ==
  ASSUME JobOK, NEW d, Within(d), d.ip + 2 <= inputEnd
  PROVE  OffsetAt(d) \in Nat
<1>1. d.ip \in Nat /\ d.ip + 1 \in Nat /\ d.ip < inputEnd /\ d.ip + 1 < inputEnd
  BY SizesAre DEF Within, Numbers
<1>2. In(d.ip) \in Byte /\ In(d.ip + 1) \in Byte
  BY <1>1, InIs
<1>3. In(d.ip) \in Nat /\ In(d.ip + 1) \in Nat
  BY <1>2, NibblesAre
<1> QED
  BY <1>3 DEF OffsetAt

(* Stepping over an offset stays inside the input.                         *)
LEMMA PastOffsetWithin ==
  ASSUME JobOK, NEW d, Within(d), d.ip + 2 <= inputEnd
  PROVE  LET e == PastOffset(d)
         IN  Within(e) /\ e.pc = d.pc /\ e.op = d.op /\ e.ip = d.ip + 2
BY FetchWithin DEF PastOffset

(* A match whose offset is next is decoded within bounds, or refused.      *)
LEMMA MatchAfterReady ==
  ASSUME JobOK, NEW d, Within(d), d.ip + 2 < inputEnd, d.op <= oend,
         job.partialDecoding \/ d.op <= oend - 12, NEW token \in Byte
  PROVE  Ready(MatchAfter(d, token))
<1> DEFINE e == PastOffset(d)
<1>1. d.ip + 2 <= inputEnd
  BY SizesAre DEF Within, Numbers
<1>2. Within(e) /\ e.op = d.op /\ e.ip = d.ip + 2 /\ OffsetAt(d) \in Nat
  BY <1>1, PastOffsetWithin, OffsetIs
<1>3. MatchAfter(d, token) = copy_match(e, token % 16, OffsetAt(d))
  BY DEF MatchAfter
<1> HIDE DEF e
<1>4. token % 16 \in 0 .. 15 /\ e.ip < inputEnd /\ e.op <= oend
      /\ (job.partialDecoding \/ e.op <= oend - 12)
  BY <1>2, NibblesAre
<1> QED
  BY <1>2, <1>3, <1>4, CopyMatchReady

(* Stepping over literals moves both pointers alike.                       *)
LEMMA MovedWithin ==
  ASSUME NEW d, Within(d), NEW n \in Nat
  PROVE  LET e == Moved(d, n)
         IN  Within(e) /\ e.pc = d.pc /\ e.op = d.op + n /\ e.ip = d.ip + n
<1>1. d.ip + n \in Nat /\ d.op + n \in Nat
  BY DEF Within, Numbers
<1>2. PICK i \in Nat, o \in Nat : i = d.ip + n /\ o = d.op + n
  BY <1>1
<1> DEFINE e == [d EXCEPT !.ip = i, !.op = o]
<1>3. Shape(d)
  BY DEF Within
<1>4. Moved(d, n) = e
  BY <1>2 DEF Moved
<1>5. /\ e.pc = d.pc /\ e.ip = i /\ e.op = o /\ e.wrote = d.wrote /\ e.lowest = d.lowest
      /\ e.fetched = d.fetched /\ Shape(e)
  BY <1>3 DEF Shape, Locals
<1> HIDE DEF e
<1>6. Within(e)
  BY <1>5 DEF Within, Numbers
<1> QED
  BY <1>2, <1>4, <1>5, <1>6

(* safe_literal_copy: the last literals of the block, or of the output.    *)
LEMMA LastLiteralRunReady ==
  ASSUME JobOK, NEW d, Within(d), d.ip <= inputEnd, d.op <= oend,
         NEW token \in Byte, NEW length \in Nat
  PROVE  Ready(LastLiteralRun(d, token, length))
<1> DEFINE have == IF d.ip + length > inputEnd THEN inputEnd - d.ip ELSE length
           n == IF ~job.partialDecoding THEN length ELSE Min({have, oend - d.op})
           f == FromInput(d, d.op, d.ip, n)
           e == Moved(f, n)
           bad == ~job.partialDecoding /\ (d.ip + length # inputEnd \/ d.op + length > oend)
           done == ~job.partialDecoding \/ e.op = oend \/ e.ip >= inputEnd - 2
<1>0. d.ip \in Nat /\ d.op \in Nat /\ inputEnd \in Nat /\ oend \in Nat
  BY SizesAre DEF Within, Numbers
<1>1. LastLiteralRun(d, token, length)
        = IF bad THEN output_error(d) ELSE IF done THEN EndOfDecoding(e) ELSE MatchAfter(e, token)
  BY DEF LastLiteralRun
<1>2. ASSUME ~bad
      PROVE  n \in Nat /\ d.ip + n <= inputEnd /\ d.op + n <= oend
  <2>1. CASE ~job.partialDecoding
    <3>1. n = length /\ d.ip + length = inputEnd /\ d.op + length <= oend
      BY <1>0, <1>2, <2>1
    <3> QED
      BY <1>0, <3>1
  <2>2. CASE job.partialDecoding
    <3>1. have \in Nat /\ d.ip + have <= inputEnd /\ oend - d.op \in Nat
      BY <1>0
    <3> HIDE DEF have
    <3>2. have \in Int /\ oend - d.op \in Int
      BY <3>1
    <3> DEFINE m == Min({have, oend - d.op})
    <3>3. m \in Int /\ m <= have /\ m <= oend - d.op /\ (m = have \/ m = oend - d.op)
      BY <3>2, MinOfTwo
    <3>4. n = m
      BY <2>2
    <3> HIDE DEF m, n
    <3> QED
      BY <1>0, <3>1, <3>3, <3>4
  <2> QED
    BY <2>1, <2>2 DEF JobOK
<1>3. ASSUME ~bad PROVE Within(e) /\ e.op = d.op + n /\ e.ip = d.ip + n /\ e.op <= oend /\ e.ip \in Nat
  <2>1. n \in Nat /\ d.ip + n <= inputEnd /\ d.op + n <= oend
    BY <1>2, <1>3
  <2> HIDE DEF n, bad
  <2>2. Within(f) /\ Same(f, d)
    BY <1>0, <2>1, FromInputWithin
  <2> HIDE DEF f
  <2>3. Within(e) /\ e.op = f.op + n /\ e.ip = f.ip + n
    BY <2>1, <2>2, MovedWithin
  <2> QED
    BY <1>0, <2>1, <2>2, <2>3 DEF Same
<1> HIDE DEF n, have, f, e, bad
<1>4. CASE bad
  BY <1>1, <1>4, ReturnReady
<1>5. CASE ~bad /\ done
  BY <1>1, <1>3, <1>5, ReturnReady
<1>6. CASE ~bad /\ ~done
  <2>1. job.partialDecoding /\ ~(e.ip >= inputEnd - 2)
    BY <1>6 DEF JobOK
  <2>2. e.ip + 2 < inputEnd
    BY <1>0, <1>3, <1>6, <2>1
  <2> HIDE DEF done
  <2>3. Ready(MatchAfter(e, token))
    BY <1>3, <1>6, <2>1, <2>2, MatchAfterReady
  <2> QED
    BY <1>1, <1>6, <2>3
<1> QED
  BY <1>4, <1>5, <1>6

(* safe_literal_copy: literals near either end are copied exactly, or      *)
(* refused, and the last of them end the decoding.                         *)
LEMMA SafeLiteralReady ==
  ASSUME JobOK, NEW d, Within(d), d.ip <= inputEnd, d.op <= oend,
         NEW token \in Byte, NEW length \in Nat
  PROVE  Ready(safe_literal_copy(d, token, length))
<1> DEFINE near == d.op + length > oend - 12 \/ d.ip + length > inputEnd - (2 + 1 + 5)
           f == WildLiterals(d, length, 8)
           e == Moved(f, length)
<1>0. d.ip \in Nat /\ d.op \in Nat /\ inputEnd \in Nat /\ oend \in Nat
  BY SizesAre DEF Within, Numbers
<1>1. safe_literal_copy(d, token, length)
        = IF near THEN LastLiteralRun(d, token, length) ELSE MatchAfter(e, token)
  BY DEF safe_literal_copy
<1>2. ASSUME ~near PROVE Ready(MatchAfter(e, token))
  <2>1. d.op + length <= oend - 12 /\ d.ip + length <= inputEnd - 8
    BY <1>0, <1>2
  <2>2. /\ d.op + 8 <= oend /\ d.op + length + 8 - 1 <= oend
        /\ d.ip + 8 <= inputEnd /\ d.ip + length + 8 - 1 <= inputEnd
    BY <1>0, <2>1
  <2> HIDE DEF near
  <2>3. Within(f) /\ Same(f, d)
    BY <2>2, WildLiteralsWithin
  <2> HIDE DEF f
  <2>4. Within(e) /\ e.op = f.op + length /\ e.ip = f.ip + length
    BY <2>3, MovedWithin
  <2> HIDE DEF e
  <2>5. e.op <= oend - 12 /\ e.op <= oend /\ e.ip + 2 < inputEnd
    BY <1>0, <2>1, <2>3, <2>4 DEF Same
  <2> QED
    BY <2>4, <2>5, MatchAfterReady
<1> HIDE DEF near, e
<1>3. CASE near
  BY <1>1, <1>3, LastLiteralRunReady
<1>4. CASE ~near
  BY <1>1, <1>2, <1>4
<1> QED
  BY <1>3, <1>4

(* The same from the token's nibble, before any length byte is read.       *)
LEMMA EarlyReady ==
  ASSUME JobOK, NEW d, Within(d), d.ip <= inputEnd, d.op <= oend, NEW token \in Byte
  PROVE  Ready(safe_literal_copy_early(d, token))
<1> DEFINE lim == inputEnd - 15
           nibble == token \div 16
           r == Length(d, nibble, lim)
           e == Past(d, r)
<1>1. d.ip \in Nat /\ inputEnd \in Nat /\ lim \in Int /\ lim <= inputEnd /\ nibble \in 0 .. 15
  BY SizesAre, NibblesAre DEF Within, Numbers
<1>4. safe_literal_copy_early(d, token)
        = IF r.error THEN output_error(e) ELSE safe_literal_copy(e, token, r.length)
  BY DEF safe_literal_copy_early
<1> HIDE DEF lim, nibble
<1>2. r.length \in Nat /\ r.ip \in Nat /\ (r.ip <= d.ip \/ r.ip <= lim)
  BY <1>1, LengthIs
<1>3. Within(e) /\ e.op = d.op /\ e.ip = r.ip
  BY <1>1, LengthWithin
<1> HIDE DEF r, e
<1>5. e.ip <= inputEnd /\ e.op <= oend
  BY <1>1, <1>2, <1>3
<1>6. Ready(safe_literal_copy(e, token, r.length))
  BY <1>2, <1>3, <1>5, SafeLiteralReady
<1> QED
  BY <1>3, <1>4, <1>6, ReturnReady
(* The shortcut writes 18 bytes of a match where 18 are left.              *)
LEMMA ShortMatchWithin ==
  ASSUME JobOK, NEW d, Within(d), NEW match \in Nat, NEW length \in Nat, d.op + 18 <= oend
  PROVE  LET e == ShortMatch(d, match, length)
         IN  Within(e) /\ e.pc = d.pc /\ e.op = d.op + length /\ e.ip = d.ip
<1> DEFINE f == CopySteps(d, d.op, match, 8, 2)
           g == Copy(f, d.op + 16, match + 16, 2)
<1>1. d.op \in Nat /\ oend \in Nat
  BY SizesAre DEF Within, Numbers
<1>2. Within(f) /\ Same(f, d)
  <2>1. 8 * 2 \in Int /\ d.op + 8 * 2 <= oend
    BY <1>1
  <2> QED
    BY <1>1, <2>1, CopyStepsWithin
<1> HIDE DEF f
<1>3. Within(g) /\ Same(g, d)
  <2>1. d.op + 16 \in Nat /\ match + 16 \in Nat /\ (d.op + 16) + 2 <= oend /\ 2 \in Nat
    BY <1>1
  <2>2. Within(g) /\ Same(g, f)
    BY <1>2, <2>1, CopyWithin
  <2> QED
    BY <1>2, <2>2 DEF Same
<1>4. ShortMatch(d, match, length) = [g EXCEPT !.op = @ + length]
  BY DEF ShortMatch, g, f
<1> HIDE DEF g
<1>5. PICK o \in Nat : o = d.op + length
  BY <1>1
<1> DEFINE h == [g EXCEPT !.op = o]
<1>6. Within(h) /\ h.pc = g.pc /\ h.op = o /\ h.ip = g.ip
  BY <1>3, OpWithin
<1>7. ShortMatch(d, match, length) = h
  BY <1>3, <1>4, <1>5 DEF Same
<1> HIDE DEF h
<1> QED
  BY <1>3, <1>5, <1>6, <1>7 DEF Same

(* The token is read inside the input.                                     *)
LEMMA TokenWithin ==
  ASSUME JobOK, NEW d, Within(d), d.ip < inputEnd
  PROVE  LET e == Token(d)
         IN  /\ Within(e) /\ e.pc = d.pc /\ e.op = d.op /\ e.ip = d.ip + 1
             /\ e.ip <= inputEnd /\ In(d.ip) \in Byte
<1>1. d.ip \in Nat /\ d.ip + 1 <= inputEnd
  BY SizesAre DEF Within, Numbers
<1> DEFINE e == Token(d)
<1>2. Within(e) /\ e.pc = d.pc /\ e.op = d.op /\ e.ip = d.ip + 1
  BY <1>1, FetchWithin DEF Token
<1>3. In(d.ip) \in Byte
  BY <1>1, InIs
<1> HIDE DEF e
<1>4. e.ip <= inputEnd
  BY <1>1, <1>2
<1> QED
  BY <1>2, <1>3, <1>4 DEF e

(* A turn of the safe loop.                                                *)
LEMMA SafeTurnReady ==
  ASSUME JobOK, NEW d, Ready(d), d.pc = "safe"
  PROVE  Ready(SafeTurn(d))
<1> DEFINE token == In(d.ip)
           low == token % 16
           high == token \div 16
           t == Token(d)
           short == high # 15 /\ t.ip < inputEnd - 14 - 2 /\ t.op <= oend - 14 - 18
           f == FromInput(t, t.op, t.ip, 16)
           lits == Moved(f, high)
           offset == OffsetAt(lits)
           match == lits.op - offset
           e == PastOffset(lits)
<1>1. Within(d) /\ d.op <= oend /\ d.ip < inputEnd /\ d.ip \in Nat /\ d.op \in Nat
      /\ inputEnd \in Nat /\ oend \in Nat
  BY SizesAre DEF Ready, Within, Numbers
<1>2. Within(t) /\ t.pc = "safe" /\ t.op = d.op /\ t.ip = d.ip + 1 /\ t.ip <= inputEnd
      /\ token \in Byte
  BY <1>1, TokenWithin
<1>3. SafeTurn(d)
        = IF ~short THEN safe_literal_copy_early(t, token)
          ELSE IF low # 15 /\ offset >= 8 /\ match >= 0
          THEN ShortMatch(e, match, low + 4)
          ELSE copy_match(e, low, offset)
  BY DEF SafeTurn
<1> HIDE DEF token
<1>4. token \in Nat /\ low \in 0 .. 15 /\ high \in 0 .. 15
  BY <1>2, NibblesAre
<1>5. Ready(safe_literal_copy_early(t, token))
  <2> HIDE DEF t
  <2> QED
    BY <1>1, <1>2, EarlyReady
<1> HIDE DEF low, high, t
<1>6. ASSUME short
      PROVE  /\ Within(e) /\ e.pc = "safe" /\ e.op = lits.op /\ e.op + 18 <= oend
             /\ e.op \in Nat /\ e.ip < inputEnd /\ offset \in Nat
  <2>1. high \in 0 .. 14 /\ t.ip + 16 < inputEnd /\ t.op + 32 <= oend /\ t.ip \in Nat /\ t.op \in Nat
    BY <1>1, <1>2, <1>4, <1>6
  <2>2. t.op + 16 <= oend /\ t.ip + 16 <= inputEnd
    BY <1>1, <2>1
  <2>3. Within(f) /\ Same(f, t)
    BY <1>2, <2>1, <2>2, FromInputWithin
  <2> HIDE DEF f, short
  <2>7. high \in Nat
    BY <2>1
  <2>4. Within(lits) /\ lits.pc = f.pc /\ lits.op = f.op + high /\ lits.ip = f.ip + high
    BY <2>3, <2>7, MovedWithin
  <2> HIDE DEF lits
  <2>5. lits.pc = "safe" /\ lits.op + 18 <= oend /\ lits.ip + 2 < inputEnd /\ lits.op \in Nat
        /\ lits.ip + 2 <= inputEnd
    BY <1>1, <1>2, <2>1, <2>3, <2>4 DEF Same
  <2>6. offset \in Nat /\ Within(e) /\ e.pc = lits.pc /\ e.op = lits.op /\ e.ip = lits.ip + 2
    BY <2>4, <2>5, OffsetIs, PastOffsetWithin
  <2> HIDE DEF offset, e
  <2> QED
    BY <2>5, <2>6
<1>7. CASE ~short
  BY <1>3, <1>5, <1>7
<1>8. CASE short /\ low # 15 /\ offset >= 8 /\ match >= 0
  <2>0. /\ Within(e) /\ e.pc = "safe" /\ e.op = lits.op /\ e.op + 18 <= oend
        /\ e.op \in Nat /\ e.ip < inputEnd /\ offset \in Nat
    BY <1>6, <1>8
  <2>1. match \in Nat /\ low + 4 \in Nat /\ low + 4 <= 18
    BY <1>4, <1>8, <2>0
  <2> HIDE DEF match, e, short, offset, lits
  <2>2. SafeTurn(d) = ShortMatch(e, match, low + 4)
    BY <1>3, <1>8
  <2> DEFINE s == ShortMatch(e, match, low + 4)
  <2>3. Within(s) /\ s.pc = e.pc /\ s.op = e.op + (low + 4) /\ s.ip = e.ip
    BY <2>0, <2>1, ShortMatchWithin
  <2> HIDE DEF s
  <2>4. s.op <= oend /\ s.ip < inputEnd /\ s.pc = "safe"
    BY <1>1, <2>0, <2>1, <2>3
  <2>5. Ready(s)
    BY <2>3, <2>4 DEF Ready
  <2> QED
    BY <2>2, <2>5 DEF s
<1>9. CASE short /\ ~(low # 15 /\ offset >= 8 /\ match >= 0)
  <2>0. /\ Within(e) /\ e.pc = "safe" /\ e.op = lits.op /\ e.op + 18 <= oend
        /\ e.op \in Nat /\ e.ip < inputEnd /\ offset \in Nat
    BY <1>6, <1>9
  <2> HIDE DEF match, e, short, offset, lits
  <2>1. SafeTurn(d) = copy_match(e, low, offset)
    BY <1>3, <1>9
  <2>2. e.op <= oend /\ e.op <= oend - 12
    BY <1>1, <2>0
  <2> QED
    BY <1>4, <2>0, <2>1, <2>2, CopyMatchReady
<1> QED
  BY <1>7, <1>8, <1>9

(* The match of a turn of the fast loop.                                   *)
LEMMA FastMatchReady ==
  ASSUME JobOK, NEW d, Within(d), d.pc = "fast", d.ip < inputEnd, d.op <= oend - 32,
         NEW token \in Byte, NEW offset \in Nat
  PROVE  Ready(FastMatch(d, token, offset))
<1> DEFINE low == token % 16
           lim == inputEnd - 6
           r == Length(d, low, lim)
           e == Past(d, r)
           length == r.length + 4
           match == e.op - offset
           cpy == e.op + length
           far == cpy >= oend - FASTLOOP_SAFE_DISTANCE
           short == low # 15 /\ match >= 0 /\ offset >= 8
           copied == IF offset < 16 THEN LZ4_memcpy_using_offset(e, e.op, match, cpy, offset)
                     ELSE LZ4_wildCopy32(e, e.op, match, cpy)
           result == FastMatch(d, token, offset)
<1>1. result = CASE r.error -> output_error(e)
        [] ~r.error /\ far -> safe_match_copy(e, offset, length)
        [] ~r.error /\ cpy < oend - FASTLOOP_SAFE_DISTANCE ->
             IF short THEN ShortMatch(e, match, length)
             ELSE IF match < 0 THEN output_error(e)
             ELSE [copied EXCEPT !.op = cpy]
  BY DEF FastMatch
<1>2. d.ip \in Nat /\ d.op \in Nat /\ inputEnd \in Nat /\ oend \in Nat /\ d.ip <= inputEnd
      /\ lim \in Int /\ lim < inputEnd /\ lim <= inputEnd
  BY SizesAre DEF Within, Numbers
<1>3. low \in 0 .. 15
  BY NibblesAre
<1> HIDE DEF lim, low
<1>4. /\ r.error \in BOOLEAN /\ r.length \in Nat /\ r.ip \in Nat /\ (r.ip <= d.ip \/ r.ip <= lim)
      /\ low # 15 => r.length = low
  BY <1>2, <1>3, LengthIs
<1>5. Within(e) /\ e.pc = d.pc /\ e.op = d.op /\ e.ip = r.ip
  BY <1>2, <1>3, LengthWithin
<1> HIDE DEF r, e
<1>6. e.ip < inputEnd /\ e.op \in Nat /\ e.op <= oend - 32 /\ e.pc = "fast"
  BY <1>2, <1>4, <1>5
<1>7. length \in Nat /\ length >= 4 /\ match \in Int /\ cpy \in Nat /\ cpy >= e.op + 4
      /\ (far <=> cpy >= oend - 64)
  BY <1>4, <1>6 DEF FASTLOOP_SAFE_DISTANCE
<1>8. CASE r.error
  <2> HIDE DEF result, far, short, copied, length, match, cpy
  <2>1. result = output_error(e)
    BY <1>1, <1>8
  <2> QED
    BY <1>5, <2>1, ReturnReady DEF result
<1>9. CASE ~r.error /\ far
  <2>1. e.op <= oend /\ e.op <= oend - 12
    BY <1>2, <1>6
  <2> HIDE DEF result, short, copied, length, match
  <2>2. ~(cpy < oend - FASTLOOP_SAFE_DISTANCE)
    BY <1>2, <1>7, <1>9 DEF FASTLOOP_SAFE_DISTANCE
  <2> HIDE DEF far, cpy
  <2>3. result = safe_match_copy(e, offset, length)
    BY <1>1, <1>9, <2>2
  <2> QED
    BY <1>5, <1>6, <1>7, <2>1, <2>3, SafeMatchReady DEF result
<1>10. CASE ~r.error /\ ~far
  <2>1. cpy < oend - 64 /\ cpy < oend - FASTLOOP_SAFE_DISTANCE
    BY <1>2, <1>7, <1>10 DEF FASTLOOP_SAFE_DISTANCE
  <2>2. e.op + 18 <= oend /\ e.op + 16 <= oend /\ e.op + 32 <= oend /\ cpy + 31 <= oend /\ cpy + 7 <= oend
    BY <1>2, <1>6, <1>7, <2>1
  <2> DEFINE x == IF short THEN ShortMatch(e, match, length)
                  ELSE IF match < 0 THEN output_error(e)
                  ELSE [copied EXCEPT !.op = cpy]
  <2>3. result = x
    <3> HIDE DEF result, short, copied, length, match, cpy, far
    <3> QED
      BY <1>1, <1>10, <2>1
  <2>4. CASE short
    <3>1. match \in Nat
      BY <1>7, <2>4
    <3> DEFINE s == ShortMatch(e, match, length)
    <3>2. result = s
      BY <2>3, <2>4
    <3>3. Within(s) /\ s.pc = e.pc /\ s.op = e.op + length /\ s.ip = e.ip
      <4> HIDE DEF match, length
      <4> QED
        BY <1>5, <1>7, <2>2, <3>1, ShortMatchWithin
    <3> HIDE DEF s, result, match, far
    <3>4. s.op <= oend - FASTLOOP_SAFE_DISTANCE /\ s.ip < inputEnd /\ s.pc = "fast"
      BY <1>2, <1>6, <1>7, <2>1, <3>3 DEF FASTLOOP_SAFE_DISTANCE
    <3>5. Ready(s)
      BY <3>3, <3>4 DEF Ready
    <3> QED
      BY <3>2, <3>5 DEF result
  <2>5. CASE ~short /\ match < 0
    <3> HIDE DEF result, copied, length, match, cpy, far, short
    <3>1. result = output_error(e)
      BY <2>3, <2>5
    <3> QED
      BY <1>5, <3>1, ReturnReady DEF result
  <2>6. CASE ~short /\ ~(match < 0)
    <3>1. match \in Nat /\ cpy \in Int
      BY <1>7, <2>6
    <3> HIDE DEF match, cpy, length, short, far
    <3>2. Within(copied) /\ Same(copied, e)
      <4>1. CASE offset < 16
        <5>1. offset \in 0 .. 15
          BY <4>1
        <5> QED
          BY <1>5, <1>6, <2>2, <3>1, <4>1, <5>1, UsingOffsetWithin
      <4>2. CASE ~(offset < 16)
        BY <1>5, <1>6, <2>2, <3>1, <4>2, WildCopy32Within
      <4> QED
        BY <4>1, <4>2
    <3> HIDE DEF copied, result
    <3> DEFINE s == [copied EXCEPT !.op = cpy]
    <3>3. Within(s) /\ s.pc = copied.pc /\ s.op = cpy /\ s.ip = copied.ip
      BY <1>7, <3>2, OpWithin
    <3>4. result = s
      BY <2>3, <2>6
    <3> HIDE DEF s
    <3>5. s.op <= oend - FASTLOOP_SAFE_DISTANCE /\ s.ip < inputEnd /\ s.pc = "fast"
      BY <1>2, <1>6, <1>7, <2>1, <3>2, <3>3 DEF FASTLOOP_SAFE_DISTANCE, Same
    <3>6. Ready(s)
      BY <3>3, <3>5 DEF Ready
    <3> QED
      BY <3>4, <3>6 DEF result
  <2> QED
    BY <2>4, <2>5, <2>6
<1> QED
  BY <1>4, <1>8, <1>9, <1>10
(* A turn of the fast loop.                                                *)
LEMMA FastTurnReady ==
  ASSUME JobOK, NEW d, Ready(d), d.pc = "fast"
  PROVE  Ready(FastTurn(d))
<1> DEFINE token == In(d.ip)
           high == token \div 16
           t == Token(d)
           lim == inputEnd - 15
           r == Length(t, high, lim)
           e == Past(t, r)
           long == high = 15
           near == e.op + r.length > oend - 32 \/ e.ip + r.length > inputEnd - 32
           f == IF long THEN WildLiterals(e, r.length, 32) ELSE FromInput(e, e.op, e.ip, 16)
           lits == Moved(f, r.length)
           close == t.ip > inputEnd - (16 + 1)
           m == FastMatch(PastOffset(lits), token, OffsetAt(lits))
           result == FastTurn(d)
<1>1. result = IF close THEN safe_literal_copy_early(t, token)
               ELSE IF long /\ r.error THEN output_error(e)
               ELSE IF long /\ near THEN safe_literal_copy(e, token, r.length)
               ELSE m
  BY DEF FastTurn
<1>2. Within(d) /\ d.op <= oend - 64 /\ d.ip < inputEnd /\ d.ip \in Nat /\ d.op \in Nat
      /\ inputEnd \in Nat /\ oend \in Nat /\ lim \in Int /\ lim <= inputEnd
  BY SizesAre DEF Ready, Within, Numbers, FASTLOOP_SAFE_DISTANCE
<1>3. Within(t) /\ t.pc = "fast" /\ t.op = d.op /\ t.ip = d.ip + 1 /\ t.ip <= inputEnd
      /\ token \in Byte
  BY <1>2, TokenWithin
<1> HIDE DEF token
<1>4. high \in 0 .. 15
  BY <1>3, NibblesAre
<1> HIDE DEF high, t, lim
<1>5. t.op <= oend
  BY <1>2, <1>3
<1>6. Ready(safe_literal_copy_early(t, token))
  BY <1>3, <1>5, EarlyReady
<1>7. /\ r.error \in BOOLEAN /\ r.length \in Nat /\ r.ip \in Nat /\ (r.ip <= t.ip \/ r.ip <= lim)
      /\ high # 15 => ~r.error /\ r.length = high /\ r.ip = t.ip
  BY <1>2, <1>3, <1>4, LengthIs
<1>8. Within(e) /\ e.pc = t.pc /\ e.op = t.op /\ e.ip = r.ip
  BY <1>2, <1>3, <1>4, LengthWithin
<1> HIDE DEF r, e
<1>9. e.ip \in Nat /\ e.ip <= inputEnd /\ e.op \in Nat /\ e.op <= oend - 64 /\ e.op <= oend /\ e.pc = "fast"
  BY <1>2, <1>3, <1>7, <1>8
<1>10. Ready(safe_literal_copy(e, token, r.length))
  BY <1>3, <1>7, <1>8, <1>9, SafeLiteralReady
<1>11. ASSUME ~close, ~(long /\ near) PROVE Ready(m)
  <2>1. Within(f) /\ Same(f, e) /\ e.op + r.length <= oend - 32 /\ e.ip + r.length <= inputEnd - 3
    <3>1. CASE long
      <4>1. e.op + r.length <= oend - 32 /\ e.ip + r.length <= inputEnd - 32
        BY <1>2, <1>7, <1>9, <1>11, <3>1
      <4>2. /\ e.op + 32 <= oend /\ e.op + r.length + 32 - 1 <= oend
            /\ e.ip + 32 <= inputEnd /\ e.ip + r.length + 32 - 1 <= inputEnd
        BY <1>2, <1>7, <1>9, <4>1
      <4>3. Within(WildLiterals(e, r.length, 32)) /\ Same(WildLiterals(e, r.length, 32), e)
        BY <1>7, <1>8, <4>2, WildLiteralsWithin
      <4>4. e.ip + r.length <= inputEnd - 3
        BY <1>2, <1>7, <1>9, <4>1
      <4> QED
        BY <3>1, <4>1, <4>3, <4>4
    <3>2. CASE ~long
      <4>1. r.length = high /\ high <= 14 /\ e.ip = t.ip /\ t.ip <= inputEnd - 17
        BY <1>2, <1>3, <1>4, <1>7, <1>8, <1>11, <3>2
      <4>2. e.op + 16 <= oend /\ e.ip + 16 <= inputEnd /\ 16 \in Nat
        BY <1>2, <1>9, <4>1
      <4>3. Within(FromInput(e, e.op, e.ip, 16)) /\ Same(FromInput(e, e.op, e.ip, 16), e)
        BY <1>8, <1>9, <4>2, FromInputWithin
      <4>4. e.op + r.length <= oend - 32 /\ e.ip + r.length <= inputEnd - 3
        BY <1>2, <1>4, <1>9, <4>1
      <4> QED
        BY <3>2, <4>3, <4>4
    <3> QED
      BY <3>1, <3>2
  <2> HIDE DEF f
  <2>2. Within(lits) /\ lits.pc = f.pc /\ lits.op = f.op + r.length /\ lits.ip = f.ip + r.length
    BY <1>7, <2>1, MovedWithin
  <2> HIDE DEF lits
  <2>3. lits.pc = "fast" /\ lits.op <= oend - 32 /\ lits.ip + 2 < inputEnd /\ lits.ip + 2 <= inputEnd
    BY <1>2, <1>7, <1>9, <2>1, <2>2 DEF Same
  <2> DEFINE g == PastOffset(lits)
             offset == OffsetAt(lits)
  <2>4. offset \in Nat /\ Within(g) /\ g.pc = lits.pc /\ g.op = lits.op /\ g.ip = lits.ip + 2
    BY <2>2, <2>3, OffsetIs, PastOffsetWithin
  <2>5. m = FastMatch(g, token, offset)
    OBVIOUS
  <2> HIDE DEF g, offset, m
  <2>6. g.pc = "fast" /\ g.op <= oend - 32 /\ g.ip < inputEnd
    BY <2>3, <2>4
  <2> QED
    BY <1>3, <2>4, <2>5, <2>6, FastMatchReady
<1> HIDE DEF m, lits, f, near, long, close, result
<1>12. CASE close
  BY <1>1, <1>6, <1>12 DEF result
<1>13. CASE ~close /\ long /\ r.error
  <2>1. result = output_error(e)
    BY <1>1, <1>13
  <2> QED
    BY <1>8, <2>1, ReturnReady DEF result
<1>14. CASE ~close /\ ~(long /\ r.error) /\ long /\ near
  BY <1>1, <1>10, <1>14 DEF result
<1>15. CASE ~close /\ ~(long /\ r.error) /\ ~(long /\ near)
  BY <1>1, <1>11, <1>15 DEF result
<1> QED
  BY <1>12, <1>13, <1>14, <1>15

-----------------------------------------------------------------------------
(* The decoder, called and running.                                        *)
LEMMA FreshIs ==
  ASSUME NEW size \in Nat, job.outputSize = size, JobOK
  PROVE  Within(Fresh(size)) /\ Fresh(size).pc = "returned" /\ Fresh(size).ip = 0 /\ Fresh(size).op = 0
<1> DEFINE d == Fresh(size)
<1>1. /\ d.pc = "returned" /\ d.ip = 0 /\ d.op = 0 /\ d.wrote = 0 /\ d.fetched = 0 /\ d.lowest = 0
      /\ Shape(d)
  BY DEF Fresh, Shape, Locals
<1> HIDE DEF d
<1>2. Within(d)
  BY <1>1, SizesAre DEF Within, Numbers
<1> QED
  BY <1>1, <1>2 DEF d

(* A decoder that was just called is within bounds.                        *)
LEMMA EntryReady ==
  ASSUME JobOK, NEW size, job.outputSize = size, NEW partial, NEW src, src = job.src
  PROVE  Ready(Entry(src, size, partial))
<1> DEFINE d == Fresh(size)
           pc == IF size < FASTLOOP_SAFE_DISTANCE THEN "safe" ELSE "fast"
           result == Entry(src, size, partial)
<1>1. size \in Nat
  BY DEF JobOK
<1>2. Within(d) /\ d.pc = "returned" /\ d.ip = 0 /\ d.op = 0
  BY <1>1, FreshIs
<1> HIDE DEF d
<1>3. ASSUME NEW r PROVE Ready([d EXCEPT !.result = r])
  <2> DEFINE e == [d EXCEPT !.result = r]
  <2>1. Shape(d)
    BY <1>2 DEF Within
  <2>2. /\ e.pc = d.pc /\ e.ip = d.ip /\ e.op = d.op /\ e.wrote = d.wrote
        /\ e.lowest = d.lowest /\ e.fetched = d.fetched /\ Shape(e)
    BY <2>1 DEF Shape, Locals
  <2> HIDE DEF e
  <2>3. Within(e)
    BY <1>2, <2>2 DEF Within, Numbers
  <2> QED
    BY <1>2, <2>2, <2>3 DEF Ready, e
<1>4. result = IF size = 0
                 THEN [d EXCEPT !.result = IF partial \/ src = << 0 >> THEN 0 ELSE -1]
               ELSE IF src = <<>> THEN [d EXCEPT !.result = -1]
               ELSE [d EXCEPT !.pc = pc]
  BY DEF Entry, d
<1> HIDE DEF result
<1>5. CASE size = 0
  BY <1>3, <1>4, <1>5 DEF result
<1>6. CASE size # 0 /\ src = <<>>
  BY <1>3, <1>4, <1>6 DEF result
<1>7. CASE size # 0 /\ src # <<>>
  <2> DEFINE e == [d EXCEPT !.pc = pc]
  <2> HIDE DEF pc
  <2>1. Within(e) /\ e.pc = pc /\ e.op = d.op /\ e.ip = d.ip
    BY <1>2, PcWithin
  <2>2. result = e
    BY <1>4, <1>7
  <2> HIDE DEF e
  <2>3. inputEnd \in Nat /\ inputEnd > 0 /\ oend = size
    <3>1. job.src \in Seq(Byte) /\ job.src # <<>>
      BY <1>7 DEF JobOK
    <3> QED
      BY <3>1 DEF inputEnd, oend
  <2>4. (pc = "safe" /\ size < 64) \/ (pc = "fast" /\ size >= 64)
    BY <1>1 DEF pc, FASTLOOP_SAFE_DISTANCE
  <2>5. Ready(e)
    BY <1>1, <1>2, <2>1, <2>3, <2>4 DEF Ready, FASTLOOP_SAFE_DISTANCE
  <2> QED
    BY <2>2, <2>5 DEF result
<1> QED
  BY <1>5, <1>6, <1>7

(* A step of another part keeps the decoder's invariant.                   *)
LEMMA ReadyUnchanged ==
  ASSUME UNCHANGED decoderVars, DecoderInv
  PROVE  DecoderInv'
BY DEF decoderVars, DecoderInv, JobOK, Ready, Within, oend, inputEnd

(* Every step of the decoder keeps it.                                     *)
LEMMA DecoderStepReady ==
  ASSUME DecoderInv, DecoderStep
  PROVE  DecoderInv'
<1>1. job' = job /\ JobOK /\ Ready(dec)
  BY DEF DecoderStep, FastSequence, SafeSequence, DecoderInv
<1>2. Ready(dec')
  <2>1. CASE FastSequence
    BY <1>1, <2>1, FastTurnReady DEF FastSequence
  <2>2. CASE SafeSequence
    BY <1>1, <2>2, SafeTurnReady DEF SafeSequence
  <2> QED
    BY <2>1, <2>2 DEF DecoderStep
<1> QED
  BY <1>1, <1>2 DEF DecoderInv, JobOK, Ready, Within, oend, inputEnd
-----------------------------------------------------------------------------
(* The encoder: its operators.                                             *)

(* The constant operator LZ4_hash4 gives a slot for every four bytes.      *)
Hashing == \A a, b, c, d \in Byte : LZ4_hash4(<<a, b, c, d>>) \in Slots

(* A length from 15 on takes one byte per 255, rounded up.                 *)
LEMMA LengthBytesIs ==
  ASSUME NEW n \in Nat
  PROVE  /\ LengthBytes(n) \in Seq(Byte) /\ Len(LengthBytes(n)) \in Nat
         /\ n < 15 => Len(LengthBytes(n)) = 0
         /\ n >= 15 => /\ 255 * Len(LengthBytes(n)) <= n + 240
                       /\ n + 240 < 255 * Len(LengthBytes(n)) + 255
<1>1. CASE n < 15
  <2>1. LengthBytes(n) = <<>>
    BY <1>1 DEF LengthBytes
  <2> QED
    BY <1>1, <2>1
<1>2. CASE ~(n < 15)
  <2> DEFINE q == (n - 15) \div 255
             r == (n - 15) % 255
             B(k) == IF k <= q THEN 255 ELSE r
  <2>1. q \in Nat /\ r \in 0 .. 254 /\ 255 * q <= n - 15 /\ n - 15 < 255 * q + 255
    BY <1>2
  <2>2. LengthBytes(n) = [k \in 1 .. q + 1 |-> B(k)]
    BY <1>2 DEF LengthBytes
  <2>3. \A k \in 1 .. q + 1 : B(k) \in Byte
    <3> HIDE DEF q, r
    <3> QED
      BY <2>1 DEF Byte, Below
  <2> HIDE DEF q, r, B
  <2>4. LengthBytes(n) \in Seq(Byte) /\ Len(LengthBytes(n)) = q + 1
    BY <2>1, <2>2, <2>3
  <2> QED
    BY <1>2, <2>1, <2>4
<1> QED
  BY <1>1, <1>2

(* LZ4_count finds at least the bytes that are known to agree, and stops at*)
(* its limit.                                                              *)
LEMMA CountIs ==
  ASSUME NEW i \in Int, NEW m, NEW limit \in Int, i <= limit,
         NEW n \in Nat, n <= limit - i, \A k \in 0 .. n - 1 : At(i + k) = At(m + k)
  PROVE  LZ4_count(i, m, limit) \in 0 .. limit - i /\ n <= LZ4_count(i, m, limit)
<1> DEFINE T == {k \in 0 .. limit - i - 1 : At(i + k) # At(m + k)}
           S == {limit - i} \cup T
<1>1. S \in SUBSET Int /\ S # {} /\ \A x \in S : 0 <= x
  OBVIOUS
<1>2. limit - i \in S
  OBVIOUS
<1>5. \A x \in S : n <= x
  <2> SUFFICES ASSUME NEW x \in S PROVE n <= x
    OBVIOUS
  <2>1. CASE x = limit - i
    BY <2>1
  <2>2. CASE x \in T
    <3>1. x \in Int /\ 0 <= x /\ At(i + x) # At(m + x)
      BY <2>2
    <3>2. ~(x \in 0 .. n - 1)
      BY <3>1
    <3> QED
      BY <3>1, <3>2
  <2> QED
    BY <2>1, <2>2
<1> HIDE DEF S
<1>3. Min(S) \in S /\ \A y \in S : Min(S) <= y
  <2>1. 0 \in Int
    OBVIOUS
  <2> QED
    BY <1>1, <2>1, LeastIs
<1>4. Min(S) \in Int /\ 0 <= Min(S) /\ Min(S) <= limit - i /\ n <= Min(S)
  BY <1>1, <1>2, <1>3, <1>5
<1> QED
  BY <1>4 DEF LZ4_count, S

(* As far as the match extends backwards, the bytes are the same.          *)
LEMMA CatchUpIs ==
  ASSUME NEW i \in Nat, NEW m \in Nat, enc.anchor \in Nat, enc.anchor <= i
  PROVE  /\ CatchUp(i, m) \in Nat /\ CatchUp(i, m) <= i - enc.anchor /\ CatchUp(i, m) <= m
         /\ \A k \in 0 .. CatchUp(i, m) - 1 : At(i - k - 1) = At(m - k - 1)
<1> DEFINE a == i - enc.anchor
           bound == Min({a, m})
           T == {k \in 0 .. bound - 1 : At(i - k - 1) # At(m - k - 1)}
           S == {bound} \cup T
<1>1. a \in Int /\ a >= 0 /\ m \in Int
  OBVIOUS
<1>2. bound \in Int /\ bound <= a /\ bound <= m /\ bound >= 0
  <2> HIDE DEF a
  <2>1. bound \in Int /\ bound <= a /\ bound <= m /\ (bound = a \/ bound = m)
    BY <1>1, MinOfTwo
  <2> HIDE DEF bound
  <2> QED
    BY <1>1, <2>1
<1> HIDE DEF bound, a
<1>3. S \in SUBSET Int /\ S # {} /\ (\A x \in S : 0 <= x) /\ bound \in S
  BY <1>2
<1>7. \A k \in Int : 0 <= k /\ k < bound /\ k \notin S => At(i - k - 1) = At(m - k - 1)
  BY <1>2
<1> HIDE DEF S, T
<1>4. Min(S) \in S /\ \A y \in S : Min(S) <= y
  <2>1. 0 \in Int
    OBVIOUS
  <2> QED
    BY <1>3, <2>1, LeastIs
<1> DEFINE n == Min(S)
<1> HIDE DEF n
<1>5. n \in Nat /\ n <= a /\ n <= m /\ n <= bound
  <2>1. n \in S /\ n <= bound
    BY <1>3, <1>4 DEF n
  <2>2. n \in Int /\ 0 <= n
    BY <1>3, <2>1
  <2> QED
    BY <1>1, <1>2, <2>1, <2>2
<1>8. ASSUME NEW k \in 0 .. n - 1 PROVE At(i - k - 1) = At(m - k - 1)
  <2>1. k \in Int /\ 0 <= k /\ k < n /\ k < bound
    BY <1>2, <1>5
  <2>2. k \notin S
    <3>1. ASSUME k \in S PROVE FALSE
      <4>1. n <= k
        BY <1>4, <3>1 DEF n
      <4> QED
        BY <1>5, <2>1, <4>1
    <3> QED
      BY <3>1
  <2> QED
    BY <1>7, <2>1, <2>2
<1>6. CatchUp(i, m) = n
  BY DEF CatchUp, S, T, bound, a, n
<1> QED
  BY <1>5, <1>6, <1>8 DEF a

(* Four bytes of the source have a slot.                                   *)
LEMMA HashIs ==
  ASSUME Hashing, CallOK, NEW i \in Nat, i + 4 <= iend
  PROVE  LZ4_hashPosition(i) \in Slots
<1>1. call.src \in Seq(Byte) /\ i + 1 \in 1 .. Len(call.src) /\ i + 2 \in 1 .. Len(call.src)
      /\ i + 3 \in 1 .. Len(call.src) /\ i + 4 \in 1 .. Len(call.src)
  BY DEF CallOK, iend
<1>2. At(i) \in Byte /\ At(i + 1) \in Byte /\ At(i + 2) \in Byte /\ At(i + 3) \in Byte
  BY <1>1 DEF At
<1> QED
  BY <1>2 DEF Hashing, LZ4_hashPosition, Four

(* Four bytes of a string, one by one.                                     *)
LEMMA FourAre ==
  ASSUME NEW s \in Seq(Byte), NEW i \in Nat, i + 4 <= Len(s)
  PROVE  SubSeq(s, i + 1, i + 4) = <<s[i + 1], s[i + 2], s[i + 3], s[i + 4]>>
<1> DEFINE u == SubSeq(s, i + 1, i + 4)
           v == <<s[i + 1], s[i + 2], s[i + 3], s[i + 4]>>
<1>1. u \in Seq(Byte) /\ Len(u) = 4 /\ \A k \in 1 .. 4 : u[k] = s[i + k]
  <2>1. i + 1 \in 1 .. Len(s) + 1 /\ i + 4 \in i + 1 - 1 .. Len(s)
    OBVIOUS
  <2>2. u \in Seq(Byte) /\ Len(u) = i + 4 - (i + 1) + 1
        /\ \A k \in 1 .. i + 4 - (i + 1) + 1 : u[k] = s[i + 1 + k - 1]
    BY <2>1, SubSeqProperties
  <2>3. i + 4 - (i + 1) + 1 = 4 /\ \A k \in 1 .. 4 : i + 1 + k - 1 = i + k
    OBVIOUS
  <2> HIDE DEF u
  <2> QED
    BY <2>2, <2>3
<1>2. v \in Seq(Byte) /\ Len(v) = 4
  OBVIOUS
<1>3. v[1] = s[i + 1] /\ v[2] = s[i + 2] /\ v[3] = s[i + 3] /\ v[4] = s[i + 4]
  OBVIOUS
<1>4. \A k \in 1 .. 4 : k = 1 \/ k = 2 \/ k = 3 \/ k = 4
  OBVIOUS
<1> HIDE DEF u, v
<1>5. \A k \in 1 .. 4 : u[k] = v[k]
  BY <1>1, <1>3, <1>4
<1>6. u = v
  <2>1. Len(u) = Len(v) /\ \A k \in 1 .. Len(u) : u[k] = v[k]
    BY <1>1, <1>2, <1>5
  <2> QED
    BY <1>1, <1>2, <2>1, SeqEqual
<1> QED
  BY <1>6 DEF u, v
(* The locals that writing a byte does not touch.                          *)
Alike(f, e) ==
  /\ f.pc = e.pc /\ f.ip = e.ip /\ f.anchor = e.anchor /\ f.match = e.match
  /\ f.token = e.token /\ f.forwardH = e.forwardH /\ f.forwardIp = e.forwardIp
  /\ f.step = e.step /\ f.searchMatchNb = e.searchMatchNb /\ f.filledIp = e.filledIp
  /\ f.result = e.result /\ f.consumed = e.consumed

EncShape(e) == e = [x \in EncFields |-> e[x]]

(* The sizes of a call to the compressor.                                  *)
LEMMA CallIs ==
  ASSUME CallOK
  PROVE  /\ iend \in Nat /\ olimit \in Nat /\ call.src \in Seq(Byte) /\ Len(call.src) = iend
         /\ call.startIndex \in Nat /\ call.acceleration \in Nat
         /\ mflimitPlusOne = iend - 11 /\ matchlimit = iend - 5 /\ MFLIMIT = 12
         /\ IndexLimit \in Nat /\ IndexLimit <= 65535
         /\ call.startIndex + iend <= IndexLimit + 11
<1>1. IndexLimit \in Nat /\ IndexLimit <= 65535
  BY EncoderAssumption
<1>2. /\ iend \in Nat /\ olimit \in Nat /\ call.src \in Seq(Byte) /\ Len(call.src) = iend
      /\ call.startIndex \in Nat /\ call.acceleration \in Nat
  <2>1. call \in [src : Seq(Byte), dstCapacity : Nat, outputDirective : Directives,
                  dictSmall : BOOLEAN, startIndex : Nat, acceleration : Nat,
                  destSize : BOOLEAN]
    BY DEF CallOK
  <2>2. /\ call.src \in Seq(Byte) /\ call.dstCapacity \in Nat
        /\ call.startIndex \in Nat /\ call.acceleration \in Nat
    BY ONLY <2>1
  <2>3. iend = Len(call.src) /\ olimit = call.dstCapacity
    BY DEF iend, olimit
  <2>4. Len(call.src) \in Nat
    BY ONLY <2>2
  <2> QED
    BY ONLY <2>2, <2>3, <2>4
<1>3. call.startIndex + iend <= IndexLimit + 12 - 1
  BY DEF CallOK, MFLIMIT
<1>4. mflimitPlusOne = iend - 12 + 1 /\ matchlimit = iend - 5 /\ MFLIMIT = 12
  BY DEF mflimitPlusOne, matchlimit, MFLIMIT, LASTLITERALS
<1> QED
  BY <1>1, <1>2, <1>3, <1>4

(* Bytes appended where the capacity has room for them keep the bounds.    *)
LEMMA EmitKept ==
  ASSUME CallOK, NEW e, EncKept(e), NEW bytes \in Seq(Byte), Len(e.dst) + Len(bytes) <= olimit
  PROVE  LET f == Emit(e, bytes)
         IN  /\ EncKept(f) /\ EncShape(f) /\ Alike(f, e)
             /\ f.dst = e.dst \o bytes /\ Len(f.dst) = Len(e.dst) + Len(bytes)
<1> DEFINE w == Max({e.wrote, Len(e.dst) + Len(bytes)})
           new == e.dst \o bytes
           f == Emit(e, bytes)
<1>1. /\ EncShape(e) /\ e.dst \in Seq(Byte) /\ e.wrote \in Nat /\ e.wrote <= olimit
      /\ e.fetched \in Nat /\ e.fetched <= iend
  BY DEF EncKept, EncShape
<1>2. w \in Nat /\ w <= olimit
  <2>1. e.wrote \in Int /\ Len(e.dst) + Len(bytes) \in Int /\ Len(e.dst) + Len(bytes) >= 0
    BY <1>1
  <2>2. w \in Int /\ (w = e.wrote \/ w = Len(e.dst) + Len(bytes))
    BY <2>1, MaxOfTwo
  <2> HIDE DEF w
  <2> QED
    BY <1>1, <2>1, <2>2
<1>3. new \in Seq(Byte) /\ Len(new) = Len(e.dst) + Len(bytes)
  BY <1>1
<1>4. f = [e EXCEPT !.dst = new, !.wrote = w]
  BY <1>1 DEF Emit, EncShape, EncFields
<1> HIDE DEF w, f, new
<1>5. EncShape(f) /\ Alike(f, e) /\ f.dst = new /\ f.wrote = w /\ f.fetched = e.fetched
  BY <1>1, <1>4 DEF EncShape, EncFields, Alike
<1>6. EncKept(f)
  BY <1>1, <1>2, <1>3, <1>5 DEF EncKept, EncShape
<1> QED
  BY <1>3, <1>5, <1>6 DEF f, new

(* A write beyond the output, but within the capacity, keeps the bounds.   *)
LEMMA WriteMaxKept ==
  ASSUME CallOK, NEW e, EncKept(e), NEW end \in Nat, end <= olimit
  PROVE  LET f == WriteMax(e, end)
         IN  EncKept(f) /\ EncShape(f) /\ Alike(f, e) /\ f.dst = e.dst
<1> DEFINE w == Max({e.wrote, end})
           f == WriteMax(e, end)
<1>1. /\ EncShape(e) /\ e.dst \in Seq(Byte) /\ e.wrote \in Nat /\ e.wrote <= olimit
      /\ e.fetched \in Nat /\ e.fetched <= iend
  BY DEF EncKept, EncShape
<1>2. w \in Nat /\ w <= olimit
  <2>1. e.wrote \in Int /\ end \in Int
    BY <1>1
  <2>2. w \in Int /\ (w = e.wrote \/ w = end)
    BY <2>1, MaxOfTwo
  <2> HIDE DEF w
  <2> QED
    BY <1>1, <2>1, <2>2
<1>4. f = [e EXCEPT !.wrote = w]
  BY DEF WriteMax
<1> HIDE DEF w, f
<1>5. EncShape(f) /\ Alike(f, e) /\ f.dst = e.dst /\ f.wrote = w /\ f.fetched = e.fetched
  BY <1>1, <1>4 DEF EncShape, EncFields, Alike
<1>6. EncKept(f)
  BY <1>1, <1>2, <1>5 DEF EncKept, EncShape
<1> QED
  BY <1>5, <1>6 DEF f

(* Literals are bytes of the source.                                       *)
LEMMA LiteralsAre ==
  ASSUME CallOK, NEW from \in Nat, NEW n \in Nat, from + n <= iend
  PROVE  /\ SubSeq(call.src, from + 1, from + n) \in Seq(Byte)
         /\ Len(SubSeq(call.src, from + 1, from + n)) = n
<1>1. call.src \in Seq(Byte) /\ Len(call.src) = iend /\ iend \in Nat
  BY CallIs
<1> DEFINE a == from + 1
           b == from + n
           s == SubSeq(call.src, a, b)
<1>2. a \in Int /\ b \in Int /\ \A i \in a .. b : call.src[i] \in Byte
  BY <1>1
<1>3. b - a + 1 = n /\ (a <= b <=> n >= 1)
  OBVIOUS
<1> HIDE DEF a, b
<1>4. s \in Seq(Byte) /\ Len(s) = IF a <= b THEN b - a + 1 ELSE 0
  BY <1>2, SubSeqProperties
<1> QED
  BY <1>3, <1>4 DEF a, b

(* The copy of the literals goes up to eight bytes further.                *)
LEMMA EncoderWildCopy8Kept ==
  ASSUME CallOK, NEW e, EncKept(e), NEW from \in Nat, NEW n \in Nat,
         from + n + 8 <= iend,
         n = 0 => Len(e.dst) + 8 <= olimit, n > 0 => Len(e.dst) + n + 7 <= olimit
  PROVE  LET f == WildCopy8(e, from, n)
         IN  /\ EncKept(f) /\ EncShape(f) /\ Alike(f, e)
             /\ f.dst = e.dst \o SubSeq(call.src, from + 1, from + n)
             /\ Len(f.dst) = Len(e.dst) + n
<1> DEFINE t == Max({1, (n + 7) \div 8})
           moved == 8 * t
           lits == SubSeq(call.src, from + 1, from + n)
           e1 == Emit(e, lits)
           e2 == WriteMax(e1, Len(e.dst) + moved)
           g == Max({e2.fetched, from + moved})
           f == WildCopy8(e, from, n)
<1>0. e.dst \in Seq(Byte) /\ Len(e.dst) \in Nat /\ iend \in Nat /\ olimit \in Nat
  <2>1. iend \in Nat /\ olimit \in Nat
    BY CallIs
  <2>2. e.dst \in Seq(Byte)
    BY DEF EncKept
  <2> QED
    BY <2>1, <2>2
<1>1. t \in Nat /\ (t = 1 \/ 8 * t <= n + 7) /\ t >= 1 /\ (n = 0 => t = 1)
  <2> DEFINE p == (n + 7) \div 8
  <2>1. p \in Int /\ 8 * p <= n + 7 /\ 1 \in Int /\ (n = 0 => p = 0)
    OBVIOUS
  <2>3. t = Max({1, p})
    OBVIOUS
  <2> HIDE DEF p
  <2>2. t \in Int /\ 1 <= t /\ (t = 1 \/ t = p)
    BY <2>1, <2>3, MaxOfTwo
  <2> HIDE DEF t
  <2> QED
    BY <2>1, <2>2
<1> HIDE DEF t
<1>2. moved \in Nat /\ from + moved <= iend /\ Len(e.dst) + moved <= olimit
  <2> DEFINE l == Len(e.dst)
  <2>1. l \in Nat /\ iend \in Nat /\ olimit \in Nat
        /\ (n = 0 => l + 8 <= olimit) /\ (n > 0 => l + n + 7 <= olimit)
    BY <1>0
  <2> HIDE DEF l
  <2>2. moved \in Nat /\ moved >= 0
    BY <1>1
  <2>3. moved <= n + 8 /\ (n = 0 => moved <= 8) /\ (n > 0 => moved <= n + 7)
    BY <1>1
  <2> HIDE DEF moved
  <2>4. from + moved <= iend /\ l + moved <= olimit
    BY <2>1, <2>2, <2>3
  <2> QED
    BY <2>2, <2>4 DEF l
<1>3. lits \in Seq(Byte) /\ Len(lits) = n /\ Len(e.dst) + Len(lits) <= olimit
  <2>1. from + n <= iend /\ Len(e.dst) + n <= olimit
    BY <1>0
  <2>2. lits \in Seq(Byte) /\ Len(lits) = n
    BY <2>1, LiteralsAre
  <2> QED
    BY <2>1, <2>2
<1> HIDE DEF moved, lits
<1>4. EncKept(e1) /\ Alike(e1, e) /\ e1.dst = e.dst \o lits /\ Len(e1.dst) = Len(e.dst) + n
  BY <1>3, EmitKept
<1> HIDE DEF e1
<1>5. EncKept(e2) /\ EncShape(e2) /\ Alike(e2, e1) /\ e2.dst = e1.dst
  <2>1. Len(e.dst) + moved \in Nat
    BY <1>0, <1>2
  <2> QED
    BY <1>2, <1>4, <2>1, WriteMaxKept
<1> HIDE DEF e2
<1>6. g \in Nat /\ g <= iend
  <2>1. e2.fetched \in Int /\ e2.fetched <= iend /\ e2.fetched >= 0
        /\ from + moved \in Int /\ from + moved >= 0
    BY <1>2, <1>5 DEF EncKept
  <2>2. g \in Int /\ (g = e2.fetched \/ g = from + moved)
    BY <2>1, MaxOfTwo
  <2> HIDE DEF g
  <2> QED
    BY <1>2, <2>1, <2>2
<1>7. f = [e2 EXCEPT !.fetched = g]
  BY DEF WildCopy8, t, moved, lits, e1, e2
<1> HIDE DEF g, f
<1>8. EncShape(f) /\ Alike(f, e2) /\ f.dst = e2.dst /\ f.wrote = e2.wrote /\ f.fetched = g
  BY <1>5, <1>7 DEF EncShape, EncFields, Alike
<1>9. EncKept(f)
  BY <1>5, <1>6, <1>8 DEF EncKept, EncShape
<1>10. Alike(f, e)
  BY <1>4, <1>5, <1>8 DEF Alike
<1> QED
  BY <1>4, <1>5, <1>8, <1>9, <1>10 DEF f, lits
(* The table.                                                              *)
LEMMA CandidateIs ==
  ASSUME CallOK, NEW c, CtxOK(c), NEW h \in Slots
  PROVE  Candidate(c, h) \in Int /\ c.hashTable[h] \in Nat
BY CallIs DEF CtxOK, Candidate

(* LZ4_putIndexOnHash changes the candidate of one slot only.              *)
LEMMA PutIs ==
  ASSUME CallOK, NEW c, CtxOK(c), c.currentOffset = call.startIndex + iend,
         NEW i \in Nat, i + 12 <= iend, NEW h \in Slots
  PROVE  LET d == PutIndexOnHash(c, i, h)
         IN  /\ CtxOK(d) /\ d.currentOffset = c.currentOffset
             /\ \A g \in Slots : Candidate(d, g) = IF g = h THEN i ELSE Candidate(c, g)
<1> DEFINE s == call.startIndex
           v == (i + s) % (IndexLimit + 1)
           t == [c.hashTable EXCEPT ![h] = v]
           d == PutIndexOnHash(c, i, h)
<1>1. s \in Nat /\ iend \in Nat /\ IndexLimit \in Nat /\ s + iend <= IndexLimit + 11
  BY CallIs
<1>2. /\ c = [hashTable |-> c.hashTable, currentOffset |-> c.currentOffset,
              clearedTable |-> c.clearedTable]
      /\ c.hashTable \in [Slots -> Nat] /\ c.currentOffset \in Nat /\ c.clearedTable \in BOOLEAN
      /\ (c.clearedTable => c.currentOffset = 0)
      /\ \A g \in Slots : c.hashTable[g] <= c.currentOffset
  BY DEF CtxOK
<1>3. v = i + s
  <2>1. i + s \in Nat /\ i + s < IndexLimit + 1
    BY <1>1
  <2> DEFINE n == i + s
             m == IndexLimit + 1
  <2> HIDE DEF n, m, s
  <2>2. n \in Nat /\ m \in Nat /\ n < m => n % m = n
    OBVIOUS
  <2>3. n \in Nat /\ m \in Nat /\ n < m
    BY <1>1, <2>1 DEF n, m
  <2> QED
    BY <2>2, <2>3 DEF n, m
<1>4. d = [c EXCEPT !.hashTable = t]
  BY <1>2 DEF PutIndexOnHash
<1> HIDE DEF v
<1>5. /\ t \in [Slots -> Nat]
      /\ \A g \in Slots : t[g] = IF g = h THEN v ELSE c.hashTable[g]
  BY <1>1, <1>2, <1>3
<1> HIDE DEF t, d
<1>6. /\ d = [hashTable |-> t, currentOffset |-> c.currentOffset,
              clearedTable |-> c.clearedTable]
  BY <1>2, <1>4
<1>7. d.hashTable = t /\ d.currentOffset = c.currentOffset /\ d.clearedTable = c.clearedTable
  BY <1>6
<1>8. v <= c.currentOffset
  BY <1>1, <1>2, <1>3
<1>9. \A g \in Slots : t[g] <= c.currentOffset
  BY <1>2, <1>5, <1>8
<1>10. CtxOK(d)
  BY <1>2, <1>5, <1>6, <1>7, <1>9 DEF CtxOK
<1>11. ASSUME NEW g \in Slots PROVE Candidate(d, g) = IF g = h THEN i ELSE Candidate(c, g)
  BY <1>1, <1>3, <1>5, <1>7 DEF Candidate
<1> QED
  BY <1>7, <1>10, <1>11 DEF d

(* Entering a position leaves every entry of this call before any later    *)
(* one.                                                                    *)
LEMMA PutBefore ==
  ASSUME CallOK, Hashing, NEW c, CtxOK(c), c.currentOffset = call.startIndex + iend,
         NEW i \in Nat, i + 12 <= iend, NEW k \in Int, EntriesBefore(c, k),
         NEW n \in Int, k <= n, i < n
  PROVE  LET d == PutIndexOnHash(c, i, LZ4_hashPosition(i))
         IN  CtxOK(d) /\ d.currentOffset = c.currentOffset /\ EntriesBefore(d, n)
<1> DEFINE h == LZ4_hashPosition(i)
           d == PutIndexOnHash(c, i, h)
<1>1. iend \in Nat /\ i + 4 <= iend
  BY CallIs
<1>2. h \in Slots
  BY <1>1, HashIs
<1> HIDE DEF h
<1>3. /\ CtxOK(d) /\ d.currentOffset = c.currentOffset
      /\ \A g \in Slots : Candidate(d, g) = IF g = h THEN i ELSE Candidate(c, g)
  BY <1>2, PutIs
<1> HIDE DEF d
<1>4. ASSUME NEW g \in Slots
      PROVE  Candidate(d, g) < n /\ (Candidate(d, g) > 0 => LZ4_hashPosition(Candidate(d, g)) = g)
  <2>1. CASE g = h
    BY <1>3, <2>1 DEF h
  <2>2. CASE g # h
    <3>1. Candidate(d, g) = Candidate(c, g) /\ Candidate(c, g) \in Int
      BY <1>3, <2>2, CandidateIs
    <3>2. Candidate(c, g) < k /\ (Candidate(c, g) > 0 => LZ4_hashPosition(Candidate(c, g)) = g)
      BY DEF EntriesBefore
    <3> QED
      BY <3>1, <3>2
  <2> QED
    BY <2>1, <2>2
<1>5. EntriesBefore(d, n)
  BY <1>4 DEF EntriesBefore
<1> QED
  BY <1>3, <1>5 DEF d, h

(* Entries before a position are before every later one.                   *)
LEMMA BeforeLater ==
  ASSUME CallOK, NEW c, CtxOK(c), NEW k \in Int, EntriesBefore(c, k), NEW n \in Int, k <= n
  PROVE  EntriesBefore(c, n)
<1>1. ASSUME NEW g \in Slots
      PROVE  Candidate(c, g) < n /\ (Candidate(c, g) > 0 => LZ4_hashPosition(Candidate(c, g)) = g)
  <2>1. Candidate(c, g) \in Int
    BY CandidateIs
  <2>2. Candidate(c, g) < k /\ (Candidate(c, g) > 0 => LZ4_hashPosition(Candidate(c, g)) = g)
    BY DEF EntriesBefore
  <2> QED
    BY <2>1, <2>2
<1> QED
  BY <1>1 DEF EntriesBefore

-----------------------------------------------------------------------------
(* The encoder: its actions.                                               *)
LEMMA EncPrime ==
  ASSUME CallOK, EncoderAt(ctx', enc'), call' = call
  PROVE  EncoderInv'
<1>1. CallOK'
  BY DEF CallOK, iend, olimit
<1>2. (CtxOK(ctx) /\ EncKept(enc))'
  BY DEF EncoderAt, CtxOK, EncKept, iend, olimit
<1>3. (enc.pc # "returned" => Running(ctx, enc))'
  BY DEF EncoderAt, Running, FillOutput, iend, olimit
<1>4. (enc.pc = "returned" => AtReturn(enc))'
  BY DEF EncoderAt, AtReturn, iend, olimit
<1>5. (enc.pc = "search" => Searching(ctx, enc))'
  BY DEF EncoderAt, Searching, Ahead, EntriesBefore, Candidate, LZ4_hashPosition, Four, At,
         iend, mflimitPlusOne
<1>6. (enc.pc = "literals" => AtLiterals(ctx, enc))'
  BY DEF EncoderAt, AtLiterals, Ahead, Matching, EntriesBefore, Candidate, LZ4_hashPosition,
         Four, At, iend
<1>7. (enc.pc = "_next_match" => AtMatch(ctx, enc))'
  <2>1. (enc.pc = "_next_match" => Reaches(ctx, enc))'
    BY DEF EncoderAt, AtMatch, Reaches, EntriesBefore, Candidate, LZ4_hashPosition,
           Four, At, iend
  <2>2. (enc.pc = "_next_match" =>
            /\ Ahead(enc, enc.ip, 495) /\ Spare(enc, 5) /\ Matching(enc)
            /\ enc.token \in Nat /\ enc.token < Len(enc.dst)
            /\ \E high \in 0 .. 15 : enc.dst[enc.token + 1] = 16 * high)'
    BY DEF EncoderAt, AtMatch, Ahead, Spare, Matching, iend, olimit
  <2> QED
    BY <2>1, <2>2 DEF AtMatch
<1>8. (enc.pc = "next" => AtNext(ctx, enc))'
  BY DEF EncoderAt, AtNext, Ahead, Spare, EntriesBefore, Candidate, LZ4_hashPosition,
         Four, At, iend, olimit, matchlimit
<1>9. (enc.pc = "last_literals" => Ahead(enc, enc.anchor, 0))'
  BY DEF EncoderAt, Ahead
<1>10. (enc.pc \in {"returned", "search", "literals", "_next_match", "next",
                    "last_literals"})'
  BY DEF EncoderAt
<1> QED
  BY <1>1, <1>2, <1>3, <1>4, <1>5, <1>6, <1>7, <1>8, <1>9, <1>10 DEF EncoderInv, EncoderAt

(* The locals after one more probe of the search.                          *)
LEMMA NextProbeIs ==
  ASSUME NEW e, EncShape(e)
  PROVE  LET f == NextProbe(e)
         IN  /\ EncShape(f)
             /\ f.pc = e.pc /\ f.ip = e.forwardIp /\ f.forwardIp = e.forwardIp + e.step
             /\ f.step = e.searchMatchNb \div 64 /\ f.searchMatchNb = e.searchMatchNb + 1
             /\ f.anchor = e.anchor /\ f.match = e.match /\ f.dst = e.dst
             /\ f.wrote = e.wrote /\ f.fetched = e.fetched
<1> DEFINE a == e.forwardIp + e.step
           b == e.searchMatchNb \div 64
           c == e.searchMatchNb + 1
           f == NextProbe(e)
<1>1. f = [e EXCEPT !.ip = e.forwardIp, !.forwardIp = a, !.step = b, !.searchMatchNb = c]
  BY DEF NextProbe, LZ4_skipTrigger, EncShape, EncFields
<1> HIDE DEF a, b, c, f
<1>2. /\ EncShape(f)
      /\ f.pc = e.pc /\ f.ip = e.forwardIp /\ f.forwardIp = a
      /\ f.step = b /\ f.searchMatchNb = c
      /\ f.anchor = e.anchor /\ f.match = e.match /\ f.dst = e.dst
      /\ f.wrote = e.wrote /\ f.fetched = e.fetched
  BY <1>1 DEF EncShape, EncFields
<1> QED
  BY <1>2 DEF a, b, c, f

(* A search that reaches mflimitPlusOne goes to the last literals.         *)
LEMMA SearchEndsKeeps ==
  ASSUME EncoderInv, SearchEnds
  PROVE  EncoderAt(ctx', enc') /\ call' = call
<1> DEFINE f == NextProbe(enc)
           e == [f EXCEPT !.pc = "last_literals"]
<1>1. /\ enc' = e /\ ctx' = ctx /\ call' = call /\ CallOK /\ CtxOK(ctx) /\ EncKept(enc)
      /\ EncShape(enc) /\ Running(ctx, enc) /\ Searching(ctx, enc)
  BY DEF SearchEnds, EncoderInv, EncoderAt, EncKept, EncShape
<1>2. EncShape(f) /\ f.anchor = enc.anchor /\ f.dst = enc.dst /\ f.wrote = enc.wrote
      /\ f.fetched = enc.fetched
  BY <1>1, NextProbeIs
<1> HIDE DEF f
<1>3. EncShape(e) /\ e.anchor = enc.anchor /\ e.dst = enc.dst /\ e.wrote = enc.wrote
      /\ e.fetched = enc.fetched /\ e.pc = "last_literals"
  BY <1>2 DEF EncShape, EncFields
<1> HIDE DEF e
<1>4. EncKept(e) /\ Running(ctx, e) /\ Ahead(e, e.anchor, 0)
  BY <1>1, <1>3 DEF EncKept, EncShape, Running, Searching, Ahead
<1>5. EncoderAt(ctx, e)
  BY <1>1, <1>3, <1>4 DEF EncoderAt
<1> QED
  BY <1>1, <1>5

(* A probe finds a match behind it, within reach and of four bytes at      *)
(* least, or goes on.                                                      *)
LEMMA ProbeKeeps ==
  ASSUME Hashing, EncoderInv, Probe
  PROVE  EncoderAt(ctx', enc') /\ call' = call
<1> DEFINE f == NextProbe(enc)
           m == Candidate(ctx, enc.forwardH)
           h == LZ4_hashPosition(f.forwardIp)
           pc == IF Matches(m, f.ip) THEN "literals" ELSE "search"
           e == [f EXCEPT !.forwardH = h, !.match = m, !.filledIp = f.ip, !.pc = pc]
           c == PutIndexOnHash(ctx, enc.forwardIp, enc.forwardH)
<1>1. /\ enc' = e /\ ctx' = c /\ call' = call /\ CallOK /\ CtxOK(ctx) /\ EncKept(enc)
      /\ EncShape(enc) /\ Running(ctx, enc) /\ Searching(ctx, enc)
      /\ enc.forwardIp + enc.step <= mflimitPlusOne
  BY DEF Probe, EncoderInv, EncoderAt, EncKept, EncShape
<1>2. /\ EncShape(f) /\ f.ip = enc.forwardIp /\ f.forwardIp = enc.forwardIp + enc.step
      /\ f.step = enc.searchMatchNb \div 64 /\ f.searchMatchNb = enc.searchMatchNb + 1
      /\ f.anchor = enc.anchor /\ f.dst = enc.dst
      /\ f.wrote = enc.wrote /\ f.fetched = enc.fetched
  BY <1>1, NextProbeIs
<1>3. /\ enc.forwardIp \in Nat /\ enc.step \in Nat /\ enc.step >= 1 /\ enc.anchor \in Nat
      /\ enc.anchor < enc.forwardIp /\ enc.forwardIp + 12 <= iend /\ iend \in Nat
      /\ enc.searchMatchNb \in Nat /\ enc.searchMatchNb >= 64
      /\ enc.forwardH = LZ4_hashPosition(enc.forwardIp) /\ EntriesBefore(ctx, enc.forwardIp)
      /\ ctx.currentOffset = call.startIndex + iend
      /\ enc.forwardIp + enc.step <= iend - 11
  <2>1. /\ enc.forwardIp \in Nat /\ enc.step \in Nat /\ enc.step >= 1
        /\ enc.anchor < enc.forwardIp /\ enc.forwardIp <= mflimitPlusOne
        /\ enc.searchMatchNb \in Nat /\ enc.searchMatchNb >= 64
        /\ enc.forwardH = LZ4_hashPosition(enc.forwardIp) /\ EntriesBefore(ctx, enc.forwardIp)
    BY <1>1 DEF Searching
  <2>2. enc.anchor \in Nat /\ ctx.currentOffset = call.startIndex + iend
    BY <1>1 DEF Running
  <2>3. iend \in Nat /\ mflimitPlusOne = iend - 11
    BY <1>1, CallIs
  <2>4. enc.forwardIp + enc.step <= iend - 11
    BY <1>1, <2>3
  <2>5. enc.forwardIp + 12 <= iend
    BY <2>1, <2>3, <2>4
  <2> QED
    BY <2>1, <2>2, <2>3, <2>4, <2>5
<1>4. enc.forwardH \in Slots
  <2>1. enc.forwardIp + 4 <= iend
    BY <1>3
  <2> QED
    BY <1>1, <1>3, <2>1, HashIs
<1>5. m \in Int /\ m < enc.forwardIp
  BY <1>1, <1>3, <1>4, CandidateIs DEF EntriesBefore
<1>6. Matches(m, f.ip) => m \in Nat
  <2>1. ASSUME ~call.dictSmall PROVE m >= 0
    <3>1. call.startIndex = 0
      BY <1>1, <2>1 DEF CallOK
    <3>2. ctx.hashTable[enc.forwardH] \in Nat
      BY <1>1, <1>4, CandidateIs
    <3> QED
      BY <3>1, <3>2 DEF Candidate
  <2> QED
    BY <1>1, <1>5, <2>1 DEF Matches, Usable, CallOK
<1> DEFINE n == enc.forwardIp + enc.step
<1>7. CtxOK(c) /\ c.currentOffset = ctx.currentOffset /\ EntriesBefore(c, enc.forwardIp + 1)
  <2>1. enc.forwardIp \in Int /\ enc.forwardIp + 1 \in Int /\ enc.forwardIp <= enc.forwardIp + 1
        /\ enc.forwardIp < enc.forwardIp + 1
    BY <1>3
  <2> DEFINE q == enc.forwardIp + 1
  <2> HIDE DEF q
  <2>2. q \in Int /\ enc.forwardIp <= q /\ enc.forwardIp < q
    BY <2>1 DEF q
  <2>3. c = PutIndexOnHash(ctx, enc.forwardIp, LZ4_hashPosition(enc.forwardIp))
    BY <1>3
  <2> HIDE DEF c
  <2>4. CtxOK(c) /\ c.currentOffset = ctx.currentOffset /\ EntriesBefore(c, q)
    BY <1>1, <1>3, <2>1, <2>2, <2>3, PutBefore
  <2> QED
    BY <2>4 DEF q
<1>8. n \in Int /\ enc.forwardIp + 1 <= n /\ enc.forwardIp + 1 \in Int
  BY <1>3
<1> HIDE DEF n, c, m
<1>9. EntriesBefore(c, n)
  BY <1>1, <1>7, <1>8, BeforeLater
<1>10. f.step \in Nat /\ f.step >= 1 /\ f.searchMatchNb \in Nat /\ f.searchMatchNb >= 64
  BY <1>2, <1>3
<1> HIDE DEF f, h, pc
<1>11. /\ EncShape(e) /\ e.ip = f.ip /\ e.forwardIp = f.forwardIp /\ e.step = f.step
       /\ e.searchMatchNb = f.searchMatchNb /\ e.anchor = f.anchor /\ e.dst = f.dst
       /\ e.wrote = f.wrote /\ e.fetched = f.fetched /\ e.forwardH = h /\ e.match = m
       /\ e.filledIp = f.ip /\ e.pc = pc
  BY <1>2 DEF EncShape, EncFields
<1> HIDE DEF e
<1>12. EncKept(e) /\ Running(c, e) /\ Ahead(e, e.anchor, 0)
  BY <1>1, <1>2, <1>7, <1>11 DEF EncKept, EncShape, Running, Searching, Ahead
<1>13. CASE Matches(m, f.ip)
  <2>1. e.pc = "literals" /\ m \in Nat
    BY <1>6, <1>11, <1>13 DEF pc
  <2>2. e.ip = enc.forwardIp /\ e.filledIp = e.ip /\ e.match = m /\ e.anchor = enc.anchor
    BY <1>2, <1>11
  <2>3. e.ip \in Nat /\ e.anchor <= e.ip /\ e.ip <= iend - MFLIMIT
    BY <1>3, <2>2 DEF MFLIMIT
  <2>4. Matching(e)
    BY <1>5, <2>1, <2>2, <2>3 DEF Matching
  <2>6. Four(e.match) = Four(e.ip)
    BY <1>2, <1>13, <2>2 DEF Matches
  <2>5. AtLiterals(c, e)
    BY <1>7, <1>12, <2>2, <2>4, <2>6 DEF AtLiterals
  <2> QED
    BY <1>1, <1>7, <1>12, <2>1, <2>5 DEF EncoderAt
<1>14. CASE ~Matches(m, f.ip)
  <2>1. e.pc = "search"
    BY <1>11, <1>14 DEF pc
  <2>2. e.forwardIp = n /\ e.forwardH = LZ4_hashPosition(e.forwardIp)
    BY <1>2, <1>11 DEF h, n
  <2>3. e.forwardIp \in Nat /\ e.anchor < e.forwardIp /\ e.forwardIp <= mflimitPlusOne
    BY <1>1, <1>2, <1>3, <1>11, <2>2 DEF n
  <2>4. Searching(c, e)
    BY <1>9, <1>10, <1>11, <1>12, <2>2, <2>3 DEF Searching
  <2> QED
    BY <1>1, <1>7, <1>12, <2>1, <2>4 DEF EncoderAt
<1> QED
  BY <1>13, <1>14
(* A cleared table is a table.                                             *)
LEMMA ClearedOK == CtxOK(ClearedState) /\ ClearedState.currentOffset = 0
BY DEF CtxOK, ClearedState

(* Returning keeps the invariant when a result that leaves input behind    *)
(* fills the output.                                                       *)
LEMMA ReturnKeeps ==
  ASSUME CallOK, CtxOK(ctx), NEW e, EncKept(e), NEW r, NEW used, Return(r, used, e),
         r > 0 /\ used < iend => r >= olimit - 1
  PROVE  EncoderAt(ctx', enc')
<1> DEFINE f == [e EXCEPT !.pc = "returned", !.result = r, !.consumed = used]
<1>1. EncShape(e) /\ enc' = f
  BY DEF EncKept, EncShape, Return
<1>2. CtxOK(ctx')
  BY ClearedOK DEF Return
<1>3. EncShape(f) /\ f.pc = "returned" /\ f.result = r /\ f.consumed = used
      /\ f.dst = e.dst /\ f.wrote = e.wrote /\ f.fetched = e.fetched
  BY <1>1 DEF EncShape, EncFields
<1> HIDE DEF f
<1>4. EncKept(f)
  BY <1>3 DEF EncKept, EncShape
<1>5. AtReturn(f)
  BY <1>3 DEF AtReturn
<1> QED
  BY <1>1, <1>2, <1>3, <1>4, <1>5 DEF EncoderAt

(* The room for literals: as LZ4_compressBound leaves it, or as checked.   *)
LEMMA LiteralRoom ==
  ASSUME NEW o \in Nat, NEW L \in Nat, NEW lb \in Nat, NEW cap \in Nat, NEW n \in Nat,
         NEW a \in Nat,
         L < 15 => lb = 0, L >= 15 => 255 * lb <= L + 240 /\ L + 240 < 255 * lb + 255
  PROVE  /\ 255 * o <= 256 * a => 255 * (o + 1 + lb + L) <= 256 * (a + L) + 495
         /\ 255 * o <= 256 * a /\ a + L <= n /\ n + n \div 255 + 16 <= cap =>
              o + 1 + lb + L + 8 <= cap
         /\ o + 1 + L + (2 + 1 + 5) + L \div 255 <= cap =>
              /\ L = 0 => o + 1 + lb + 8 <= cap
              /\ L > 0 => o + 1 + lb + L + 7 <= cap
              /\ o + 1 + lb + L + 5 <= cap
         /\ o + 1 + (L + 240) \div 255 + L <= cap => o + 1 + lb + L <= cap
<1>1. 255 * lb <= L + 240
  OBVIOUS
<1>2. 255 * o <= 256 * a => 255 * (o + 1 + lb + L) <= 256 * (a + L) + 495
  BY <1>1
<1> DEFINE q == n \div 255
           p == L \div 255
           k == (L + 240) \div 255
<1>3. /\ q \in Nat /\ 255 * q <= n /\ n < 255 * q + 255
      /\ p \in Nat /\ 255 * p <= L /\ L < 255 * p + 255
      /\ k \in Nat /\ 255 * k <= L + 240 /\ L + 240 < 255 * k + 255
  OBVIOUS
<1> HIDE DEF q, p, k
<1>4. ASSUME 255 * o <= 256 * a, a + L <= n, n + q + 16 <= cap
      PROVE  o + 1 + lb + L + 8 <= cap
  <2>1. 255 * (o + 1 + lb + L) <= 256 * n + 495
    BY <1>2, <1>4
  <2>2. 256 * n < 255 * n + 255 * q + 255
    BY <1>3
  <2>3. 255 * (o + 1 + lb + L + 8) < 255 * (n + q) + 255 + 495 + 2040
    BY <1>3, <2>1, <2>2
  <2> QED
    BY <1>3, <1>4, <2>3
<1>5. lb <= p + 1 /\ (L = 0 => lb = 0) /\ lb = k
  BY <1>3
<1>6. ASSUME o + 1 + L + (2 + 1 + 5) + p <= cap
      PROVE  /\ L = 0 => o + 1 + lb + 8 <= cap
             /\ L > 0 => o + 1 + lb + L + 7 <= cap
             /\ o + 1 + lb + L + 5 <= cap
  BY <1>3, <1>5, <1>6
<1>7. o + 1 + k + L <= cap => o + 1 + lb + L <= cap
  BY <1>5
<1> QED
  BY <1>2, <1>4, <1>6, <1>7 DEF q, p, k

(* A nibble in the high half of a token is a byte.                         *)
LEMMA NibbleIs ==
  ASSUME NEW n \in Nat
  PROVE  Nibble(n) \in 0 .. 15 /\ 16 * Nibble(n) \in Byte
<1>1. Nibble(n) \in 0 .. 15
  BY DEF Nibble
<1> QED
  BY <1>1 DEF Byte, Below

(* A token and the bytes that its length takes.                            *)
LEMMA HeadIs ==
  ASSUME NEW n \in Nat
  PROVE  LET b == <<16 * Nibble(n)>> \o LengthBytes(n)
         IN  /\ b \in Seq(Byte) /\ Len(b) = 1 + Len(LengthBytes(n)) /\ b[1] = 16 * Nibble(n)
             /\ Len(b) \in Nat
<1> DEFINE v == 16 * Nibble(n)
           s == LengthBytes(n)
<1>1. v \in Byte /\ s \in Seq(Byte)
  BY NibbleIs, LengthBytesIs
<1> HIDE DEF v, s
<1>2. <<v>> \o s \in Seq(Byte) /\ Len(<<v>> \o s) = 1 + Len(s) /\ (<<v>> \o s)[1] = v
  BY <1>1
<1> QED
  BY <1>1, <1>2 DEF v, s
(* What is appended after a token leaves it alone.                         *)
LEMMA TokenStays ==
  ASSUME NEW s \in Seq(Byte), NEW h \in Seq(Byte), Len(h) >= 1, NEW r \in Seq(Byte)
  PROVE  ((s \o h) \o r)[Len(s) + 1] = h[1]
<1>1. s \o h \in Seq(Byte) /\ Len(s \o h) = Len(s) + Len(h) /\ (s \o h)[Len(s) + 1] = h[1]
  OBVIOUS
<1>2. Len(s) + 1 \in 1 .. Len(s \o h)
  BY <1>1
<1> DEFINE t == s \o h
           i == Len(s) + 1
<1> HIDE DEF t, i
<1>3. t \in Seq(Byte) /\ i \in 1 .. Len(t)
  BY <1>1, <1>2 DEF t, i
<1>4. (t \o r)[i] = t[i]
  BY <1>3
<1> QED
  BY <1>1, <1>4 DEF t, i

(* Catching up and writing the literals of a match, overrun of the copy    *)
(* included, stays in bounds or gives up.                                  *)
LEMMA EncodeLiteralsKeeps ==
  ASSUME EncoderInv, EncodeLiterals
  PROVE  EncoderAt(ctx', enc') /\ call' = call
<1> DEFINE back == CatchUp(enc.ip, enc.match)
           i == enc.ip - back
           m == enc.match - back
           o == op
           e == [enc EXCEPT !.ip = i, !.match = m, !.token = o]
           L == e.ip - e.anchor
           head == Emit(e, <<16 * Nibble(L)>> \o LengthBytes(L))
           lb == Len(LengthBytes(L))
           f == WildCopy8(head, e.anchor, L)
           g == [f EXCEPT !.pc = "_next_match"]
           k == [e EXCEPT !.pc = "last_literals"]
<1>1. /\ call' = call /\ CallOK /\ CtxOK(ctx) /\ EncKept(enc) /\ EncShape(enc)
      /\ Running(ctx, enc) /\ AtLiterals(ctx, enc) /\ enc.pc = "literals"
  BY DEF EncodeLiterals, EncoderInv, EncoderAt, EncKept, EncShape
<1>2. IF Limited /\ LiteralsOverflow(L) THEN Return(0, 0, e)
      ELSE /\ enc' = IF FillOutput /\ LiteralsTooLong(L) THEN k ELSE g
           /\ UNCHANGED ctx
  <2>1. e = [enc EXCEPT !.ip = @ - back, !.match = @ - back, !.token = op]
    BY <1>1 DEF EncShape, EncFields
  <2> HIDE DEF back, i, m, o, e
  <2> QED
    BY <2>1 DEF EncodeLiterals, back
<1>20. /\ EntriesBefore(ctx, enc.ip + 1) /\ enc.dst \in Seq(Byte) /\ o = Len(enc.dst)
  BY <1>1 DEF AtLiterals, EncKept, op
<1>3. /\ enc.anchor \in Nat /\ enc.ip \in Nat /\ enc.anchor <= enc.ip /\ enc.ip + 12 <= iend
      /\ enc.match \in Nat /\ enc.match < enc.ip /\ enc.filledIp = enc.ip /\ iend \in Nat
      /\ olimit \in Nat /\ o \in Nat
  <2>1. /\ enc.anchor \in Nat /\ enc.ip \in Nat /\ enc.anchor <= enc.ip
        /\ enc.match \in Nat /\ enc.match < enc.ip /\ enc.filledIp = enc.ip
        /\ enc.ip <= iend - MFLIMIT
    BY <1>1 DEF AtLiterals, Matching, Running
  <2>2. iend \in Nat /\ olimit \in Nat /\ MFLIMIT = 12
    BY <1>1, CallIs
  <2>3. o \in Nat
    BY <1>20
  <2> HIDE DEF o
  <2> QED
    BY <2>1, <2>2, <2>3
<1>4. /\ back \in Nat /\ back <= enc.ip - enc.anchor /\ back <= enc.match
      /\ \A k1 \in 0 .. back - 1 : At(enc.ip - k1 - 1) = At(enc.match - k1 - 1)
  BY <1>3, CatchUpIs
<1> HIDE DEF back
<1>21. \A j \in i .. enc.ip + 3 : At(j) = At(m + (j - i))
  <2> SUFFICES ASSUME NEW j \in i .. enc.ip + 3 PROVE At(j) = At(m + (j - i))
    OBVIOUS
  <2>1. i \in Int /\ m \in Int /\ i = enc.ip - back /\ m = enc.match - back
    BY <1>3, <1>4
  <2> HIDE DEF i, m
  <2>2. CASE j < enc.ip
    <3> DEFINE k1 == enc.ip - j - 1
    <3>1. k1 \in 0 .. back - 1 /\ enc.ip - k1 - 1 = j /\ enc.match - k1 - 1 = m + (j - i)
      BY <1>3, <1>4, <2>1, <2>2
    <3>2. At(enc.ip - k1 - 1) = At(enc.match - k1 - 1)
      <4> HIDE DEF k1
      <4> QED
        BY <1>4, <3>1
    <3> QED
      BY <3>1, <3>2
  <2>3. CASE ~(j < enc.ip)
    <3> DEFINE k1 == j - enc.ip
    <3>1. k1 \in 0 .. 3 /\ j = enc.ip + k1 /\ m + (j - i) = enc.match + k1
      BY <1>3, <1>4, <2>1, <2>3
    <3>2. Four(enc.match) = Four(enc.ip)
      BY <1>1 DEF AtLiterals
    <3>3. /\ At(enc.ip) = At(enc.match) /\ At(enc.ip + 1) = At(enc.match + 1)
          /\ At(enc.ip + 2) = At(enc.match + 2) /\ At(enc.ip + 3) = At(enc.match + 3)
      BY <3>2 DEF Four
    <3>4. enc.ip = enc.ip + 0 /\ enc.match = enc.match + 0
      BY <1>3
    <3>5. k1 = 0 \/ k1 = 1 \/ k1 = 2 \/ k1 = 3
      BY <3>1
    <3> HIDE DEF k1
    <3>6. At(enc.ip + k1) = At(enc.match + k1)
      BY <3>3, <3>4, <3>5
    <3> QED
      BY <3>1, <3>6
  <2> QED
    BY <2>2, <2>3
<1>5. i \in Nat /\ enc.anchor <= i /\ i <= enc.ip /\ i + 12 <= iend /\ m \in Nat /\ m < i
  BY <1>3, <1>4
<1> HIDE DEF i, m, o
<1>6. /\ EncShape(e) /\ e.ip = i /\ e.match = m /\ e.token = o /\ e.anchor = enc.anchor
      /\ e.dst = enc.dst /\ e.wrote = enc.wrote /\ e.fetched = enc.fetched
      /\ e.filledIp = enc.filledIp /\ e.pc = enc.pc
  BY <1>1 DEF EncShape, EncFields
<1> HIDE DEF e
<1>7. EncKept(e)
  BY <1>1, <1>6 DEF EncKept, EncShape
<1>8. L \in Nat /\ e.anchor + L = i /\ e.anchor \in Nat
  BY <1>3, <1>5, <1>6
<1> HIDE DEF L
<1>9. /\ lb \in Nat /\ (L < 15 => lb = 0)
      /\ (L >= 15 => 255 * lb <= L + 240 /\ L + 240 < 255 * lb + 255)
  BY <1>8, LengthBytesIs
<1> HIDE DEF lb
<1>10. CASE Limited /\ LiteralsOverflow(L)
  <2>1. Return(0, 0, e)
    BY <1>2, <1>10
  <2>2. ~(0 > 0)
    OBVIOUS
  <2> QED
    BY <1>1, <1>7, <2>1, <2>2, ReturnKeeps
<1>11. CASE ~(Limited /\ LiteralsOverflow(L)) /\ FillOutput /\ LiteralsTooLong(L)
  <2>1. enc' = k /\ ctx' = ctx
    BY <1>2, <1>11
  <2>2. EncShape(k) /\ k.pc = "last_literals" /\ k.dst = enc.dst /\ k.anchor = enc.anchor
        /\ k.wrote = enc.wrote /\ k.fetched = enc.fetched
    BY <1>6 DEF EncShape, EncFields
  <2> HIDE DEF k
  <2>3. EncKept(k) /\ Running(ctx, k) /\ Ahead(k, k.anchor, 0)
    BY <1>1, <2>2 DEF EncKept, EncShape, Running, AtLiterals, Ahead
  <2> QED
    BY <1>1, <2>1, <2>2, <2>3 DEF EncoderAt
<1>12. CASE ~(Limited /\ LiteralsOverflow(L)) /\ ~(FillOutput /\ LiteralsTooLong(L))
  <2>1. enc' = g /\ ctx' = ctx
    BY <1>2, <1>12
  <2>2. /\ call.outputDirective = "notLimited" =>
             /\ 255 * (o + 1 + lb + L) <= 256 * (e.anchor + L) + 495
             /\ o + 1 + lb + L + 8 <= olimit
        /\ call.outputDirective # "notLimited" =>
             /\ L = 0 => o + 1 + lb + 8 <= olimit
             /\ L > 0 => o + 1 + lb + L + 7 <= olimit
             /\ o + 1 + lb + L + 5 <= olimit
    <3>1. CASE call.outputDirective = "notLimited"
      <4>1. 255 * o <= 256 * e.anchor
        BY <1>1, <1>3, <1>6, <1>20, <3>1 DEF AtLiterals, Ahead
      <4>2. iend + iend \div 255 + 16 <= olimit
        BY <1>1, <1>3, <3>1 DEF CallOK, LZ4_compressBound, Running
      <4>3. e.anchor + L <= iend
        BY <1>3, <1>5, <1>8
      <4> QED
        BY <1>3, <1>8, <1>9, <3>1, <4>1, <4>2, <4>3, LiteralRoom
    <3>2. CASE Limited
      <4>1. ~(o + 1 + L + (2 + 1 + 5) + L \div 255 > olimit)
        BY <1>12, <3>2 DEF LiteralsOverflow, LASTLITERALS, o
      <4>2. o + 1 + L + (2 + 1 + 5) + L \div 255 <= olimit
        <5> DEFINE x == L \div 255
        <5>1. x \in Int
          BY <1>8
        <5> HIDE DEF x
        <5>2. ~(o + 1 + L + (2 + 1 + 5) + x > olimit)
          BY <4>1 DEF x
        <5>3. o + 1 + L + (2 + 1 + 5) + x <= olimit
          BY <1>3, <1>8, <5>1, <5>2
        <5> QED
          BY <5>3 DEF x
      <4> QED
        BY <1>3, <1>8, <1>9, <3>2, <4>2, LiteralRoom DEF Limited
    <3>3. CASE FillOutput
      <4> DEFINE x == (L + 240) \div 255
      <4>1. ~(o + 1 + x + L + 2 + 1 + 12 - 4 > olimit)
        BY <1>12, <3>3 DEF LiteralsTooLong, MFLIMIT, MINMATCH, o
      <4>2. x \in Nat
        BY <1>8
      <4>3. o + 1 + x + L + 11 <= olimit
        <5> HIDE DEF x
        <5> QED
          BY <1>3, <1>8, <4>1, <4>2
      <4> DEFINE cap == olimit - 11
      <4>4. cap \in Nat /\ o + 1 + x + L <= cap
        <5> HIDE DEF x
        <5> QED
          BY <1>3, <1>8, <4>2, <4>3
      <4>5. o + 1 + lb + L <= cap
        <5> HIDE DEF cap
        <5> QED
          BY <1>3, <1>8, <1>9, <4>4, LiteralRoom
      <4>6. o + 1 + lb + L + 11 <= olimit
        BY <1>3, <1>8, <1>9, <4>5
      <4> HIDE DEF cap, x
      <4> QED
        BY <1>3, <1>8, <1>9, <3>3, <4>6 DEF FillOutput
    <3> QED
      BY <1>1, <3>1, <3>2, <3>3 DEF CallOK, Directives, Limited, FillOutput
  <2>3. EncKept(head) /\ EncShape(head) /\ Alike(head, e)
        /\ head.dst = enc.dst \o (<<16 * Nibble(L)>> \o LengthBytes(L))
        /\ Len(head.dst) = o + 1 + lb
    <3> DEFINE b == <<16 * Nibble(L)>> \o LengthBytes(L)
    <3>1. b \in Seq(Byte) /\ Len(b) = 1 + lb
      BY <1>8, HeadIs DEF lb
    <3> HIDE DEF b
    <3>2. o + (1 + lb) <= olimit
      BY <1>3, <1>8, <1>9, <2>2
    <3>3. Len(e.dst) + Len(b) <= olimit
      BY <1>3, <1>6, <1>20, <3>1, <3>2
    <3> DEFINE x == Emit(e, b)
    <3>4. EncKept(x) /\ EncShape(x) /\ Alike(x, e) /\ x.dst = e.dst \o b
          /\ Len(x.dst) = Len(e.dst) + Len(b)
      BY <1>1, <1>7, <3>1, <3>3, EmitKept
    <3>5. head = x
      BY DEF b
    <3> HIDE DEF x, head
    <3>6. Len(head.dst) = o + 1 + lb
      <4>1. Len(head.dst) = Len(e.dst) + Len(b)
        BY <3>4, <3>5
      <4>2. Len(e.dst) = o /\ Len(b) = 1 + lb
        BY <1>6, <1>20, <3>1
      <4> DEFINE x1 == Len(head.dst)
                 x2 == Len(e.dst)
                 x3 == Len(b)
      <4>3. x1 = x2 + x3 /\ x2 = o /\ x3 = 1 + lb
        BY <4>1, <4>2
      <4> HIDE DEF x1, x2, x3
      <4>4. x1 = o + 1 + lb
        BY <1>3, <1>9, <4>3
      <4> QED
        BY <4>4 DEF x1
    <3> QED
      BY <1>6, <3>4, <3>5, <3>6 DEF b
  <2> HIDE DEF head
  <2>4. EncKept(f) /\ EncShape(f) /\ Alike(f, head) /\ Len(f.dst) = o + 1 + lb + L
        /\ f.dst = head.dst \o SubSeq(call.src, e.anchor + 1, e.anchor + L)
    <3> DEFINE l == Len(head.dst)
    <3>0. l = o + 1 + lb
      BY <2>3
    <3> HIDE DEF l
    <3>1. /\ e.anchor + L + 8 <= iend
          /\ (L = 0 => l + 8 <= olimit) /\ (L > 0 => l + L + 7 <= olimit)
      BY <1>3, <1>5, <1>8, <1>9, <2>2, <3>0
    <3>2. /\ EncKept(f) /\ EncShape(f) /\ Alike(f, head) /\ Len(f.dst) = l + L
          /\ f.dst = head.dst \o SubSeq(call.src, e.anchor + 1, e.anchor + L)
      <4>1. e.anchor \in Nat /\ L \in Nat /\ EncKept(head) /\ Alike(head, e)
        BY <1>1, <1>8, <2>3
      <4>2. /\ e.anchor + L + 8 <= iend
            /\ (L = 0 => Len(head.dst) + 8 <= olimit) /\ (L > 0 => Len(head.dst) + L + 7 <= olimit)
        BY <3>1 DEF l
      <4>3. /\ EncKept(f) /\ EncShape(f) /\ Alike(f, head) /\ Len(f.dst) = Len(head.dst) + L
            /\ f.dst = head.dst \o SubSeq(call.src, e.anchor + 1, e.anchor + L)
        BY <1>1, <4>1, <4>2, EncoderWildCopy8Kept
      <4> HIDE DEF f
      <4> QED
        BY <4>3 DEF l
    <3> QED
      BY <3>0, <3>2
  <2> HIDE DEF f
  <2>5. EncShape(g) /\ g.pc = "_next_match" /\ g.dst = f.dst /\ g.ip = f.ip /\ g.match = f.match
        /\ g.token = f.token /\ g.filledIp = f.filledIp /\ g.anchor = f.anchor
        /\ g.wrote = f.wrote /\ g.fetched = f.fetched
    BY <2>4 DEF EncShape, EncFields
  <2> HIDE DEF g
  <2>6. g.ip = i /\ g.match = m /\ g.token = o /\ g.filledIp = enc.ip /\ g.anchor = enc.anchor
    BY <1>3, <1>6, <2>3, <2>4, <2>5 DEF Alike
  <2>7. EncKept(g)
    BY <2>4, <2>5 DEF EncKept, EncShape
  <2> DEFINE n == Len(g.dst)
  <2>8. n = o + 1 + lb + L /\ n \in Nat
    <3>1. n = o + 1 + lb + L
      BY <2>4, <2>5
    <3> HIDE DEF n
    <3> QED
      BY <1>3, <1>8, <1>9, <3>1
  <2>9. g.dst[o + 1] = 16 * Nibble(L) /\ o < n
    <3> DEFINE h == <<16 * Nibble(L)>> \o LengthBytes(L)
               lits == SubSeq(call.src, e.anchor + 1, e.anchor + L)
    <3>1. h \in Seq(Byte) /\ Len(h) = 1 + lb /\ h[1] = 16 * Nibble(L)
      BY <1>8, HeadIs DEF lb
    <3>2. lits \in Seq(Byte)
      <4>1. e.anchor + L <= iend
        BY <1>3, <1>5, <1>8
      <4> QED
        BY <1>1, <1>8, <4>1, LiteralsAre
    <3>3. g.dst = (enc.dst \o h) \o lits
      BY <2>3, <2>4, <2>5
    <3> HIDE DEF h, lits
    <3>5. g.dst[o + 1] = h[1]
      <4>1. Len(h) >= 1
        BY <1>9, <3>1
      <4> QED
        BY <1>20, <3>1, <3>2, <3>3, <4>1, TokenStays
    <3>6. o < n
      BY <1>3, <1>8, <1>9, <2>8
    <3> HIDE DEF n
    <3> QED
      BY <3>1, <3>5, <3>6
  <2>10. Ahead(g, g.ip, 495) /\ Spare(g, 5)
    <3> HIDE DEF n
    <3>1. call.outputDirective = "notLimited" => 255 * n <= 256 * g.ip + 495
      BY <1>8, <2>2, <2>6, <2>8
    <3>2. call.outputDirective # "notLimited" => n + 5 <= olimit
      BY <1>3, <1>8, <1>9, <2>2, <2>8
    <3> QED
      BY <3>1, <3>2 DEF Ahead, Spare, n
  <2>11. Matching(g)
    BY <1>3, <1>5, <2>6 DEF Matching, MFLIMIT
  <2>13. Nibble(L) \in 0 .. 15
    BY <1>8, NibbleIs
  <2>16. Reaches(ctx, g)
    <3>1. CASE i = enc.ip
      BY <1>20, <2>6, <3>1 DEF Reaches
    <3>2. CASE i # enc.ip
      <4>1. g.filledIp > g.ip /\ g.filledIp <= iend - MFLIMIT
        BY <1>3, <1>5, <2>6, <3>2 DEF MFLIMIT
      <4>2. EntriesBefore(ctx, g.filledIp + 1)
        BY <1>20, <2>6
      <4>3. \A j \in g.ip .. g.filledIp + 3 : At(j) = At(g.match + (j - g.ip))
        BY <1>21, <2>6
      <4> QED
        BY <4>1, <4>2, <4>3 DEF Reaches
    <3> QED
      BY <3>1, <3>2
  <2>14. AtMatch(ctx, g)
    BY <1>3, <1>20, <2>6, <2>9, <2>10, <2>11, <2>13, <2>16 DEF AtMatch
  <2>15. Running(ctx, g)
    <3>1. FillOutput => n < olimit
      <4> HIDE DEF n
      <4>1. FillOutput => call.outputDirective # "notLimited"
        BY DEF FillOutput
      <4> QED
        BY <1>3, <1>8, <1>9, <2>2, <2>8, <4>1
    <3>2. Running(ctx, enc)
      BY <1>1
    <3> QED
      BY <2>6, <3>1, <3>2 DEF Running
  <2> QED
    BY <1>1, <2>1, <2>5, <2>7, <2>14, <2>15 DEF EncoderAt
<1> QED
  BY <1>1, <1>10, <1>11, <1>12
(* The literals that fill the output: they fit, there are no more of them  *)
(* than are left, and one byte at most stays free.                         *)
LEMMA ReducedRunIs ==
  ASSUME NEW room \in Nat, NEW rest \in Nat, rest + (rest + 240) \div 255 > room
  PROVE  LET run == room - (room + 241) \div 256
         IN  run \in Nat /\ run <= rest
             /\ run + (run + 240) \div 255 <= room
             /\ room - 1 <= run + (run + 240) \div 255
<1> DEFINE q == (room + 241) \div 256
           k == (rest + 240) \div 255
           run == room - q
           j == (run + 240) \div 255
<1>1. q \in Nat /\ 256 * q <= room + 241 /\ room + 241 < 256 * q + 256
  OBVIOUS
<1>2. k \in Nat /\ 255 * k <= rest + 240 /\ rest + 240 < 255 * k + 255
  OBVIOUS
<1>3. rest + k > room
  OBVIOUS
<1>4. run \in Nat
  <2> HIDE DEF q
  <2> QED
    BY <1>1
<1>5. j \in Nat /\ 255 * j <= run + 240 /\ run + 240 < 255 * j + 255
  <2> HIDE DEF run
  <2> QED
    BY <1>4
<1> HIDE DEF q, k, j
<1>6. j <= q /\ q <= j + 1
  BY <1>1, <1>5
<1>7. run <= rest
  <2> SUFFICES ASSUME rest + 1 <= run PROVE FALSE
    BY <1>4
  <2>1. k <= j
    BY <1>2, <1>4, <1>5
  <2> QED
    BY <1>1, <1>2, <1>3, <1>5, <1>6, <2>1
<1>8. run + j <= room /\ room - 1 <= run + j
  BY <1>1, <1>5, <1>6
<1> QED
  BY <1>4, <1>7, <1>8 DEF q, j

(* The last literals fit, or are cut to what fits, or the call fails.      *)
LEMMA LastLiteralsKeeps ==
  ASSUME EncoderInv, LastLiterals
  PROVE  EncoderAt(ctx', enc') /\ call' = call
<1> DEFINE a == enc.anchor
           o == op
           rest == iend - enc.anchor
           over == LastRunOverflow(rest)
           long == call.outputDirective # "notLimited" /\ over
           run == IF long /\ FillOutput THEN ReducedRun ELSE rest
           head == <<16 * Nibble(run)>> \o LengthBytes(run)
           lits == SubSeq(call.src, enc.anchor + 1, enc.anchor + run)
           e == Emit(enc, head \o lits)
           lb == Len(LengthBytes(run))
           k == (rest + 240) \div 255
<1>1. /\ call' = call /\ CallOK /\ CtxOK(ctx) /\ EncKept(enc)
      /\ Running(ctx, enc) /\ Ahead(enc, a, 0)
      /\ IF long /\ Limited THEN Return(0, 0, enc) ELSE Return(Len(e.dst), a + run, e)
  BY DEF LastLiterals, EncoderInv, EncoderAt
<1>2. enc.dst \in Seq(Byte) /\ o = Len(enc.dst)
  BY <1>1 DEF EncKept, op
<1>3. /\ a \in Nat /\ a <= iend /\ iend \in Nat /\ olimit \in Nat /\ o \in Nat /\ rest \in Nat
      /\ a + rest = iend
  <2>1. a \in Nat /\ a <= iend
    BY <1>1 DEF Running
  <2>2. iend \in Nat /\ olimit \in Nat
    BY <1>1, CallIs
  <2>3. o \in Nat
    BY <1>2
  <2> HIDE DEF o, a
  <2>4. rest = iend - a
    BY DEF a
  <2> HIDE DEF rest
  <2> QED
    BY <2>1, <2>2, <2>3, <2>4
<1>4. over <=> o + rest + 1 + k > olimit
  BY DEF LastRunOverflow
<1>5. k \in Nat /\ 255 * k <= rest + 240 /\ rest + 240 < 255 * k + 255
  BY <1>3
<1> HIDE DEF over, k, rest
<1>6. CASE long /\ Limited
  <2>1. Return(0, 0, enc)
    BY <1>1, <1>6
  <2>2. ~(0 > 0)
    OBVIOUS
  <2> QED
    BY <1>1, <2>1, <2>2, ReturnKeeps
<1>7. CASE ~(long /\ Limited)
  <2>1. /\ run \in Nat /\ run <= rest /\ o + 1 + run + (run + 240) \div 255 <= olimit
        /\ run < rest => olimit - 1 <= o + 1 + run + (run + 240) \div 255
    <3>1. CASE call.outputDirective = "notLimited"
      <4>1. run = rest
        BY <3>1
      <4>2. 255 * o <= 256 * a
        BY <1>1, <1>2, <1>3, <3>1 DEF Ahead
      <4>3. iend + iend \div 255 + 16 <= olimit
        BY <1>1, <1>3, <3>1 DEF CallOK, LZ4_compressBound, Running
      <4> DEFINE q == iend \div 255
      <4>4. q \in Nat /\ iend < 255 * q + 255 /\ iend + q + 16 <= olimit
        BY <1>3, <4>3
      <4> HIDE DEF q
      <4>5. 255 * (o + 1 + rest + k) <= 256 * a + 255 + 256 * rest + 240
        BY <1>3, <1>5, <4>2
      <4>6. 255 * (o + 1 + rest + k) <= 255 * iend + iend + 495
        BY <1>3, <4>5
      <4>7. 255 * (o + 1 + rest + k) < 255 * (iend + q + 1) + 495
        BY <1>3, <1>5, <4>4, <4>6
      <4>8. o + 1 + rest + k <= olimit
        BY <1>3, <1>5, <4>4, <4>7
      <4> QED
        BY <1>3, <4>1, <4>8 DEF k
    <3>2. CASE call.outputDirective # "notLimited" /\ ~over
      <4>1. run = rest
        BY <3>2
      <4>2. o + 1 + rest + k <= olimit
        BY <1>3, <1>4, <1>5, <3>2
      <4> QED
        BY <1>3, <4>1, <4>2 DEF k
    <3>3. CASE call.outputDirective # "notLimited" /\ over
      <4>1. FillOutput
        BY <1>1, <1>7, <3>3 DEF CallOK, Directives, Limited, FillOutput
      <4>2. run = ReducedRun
        BY <3>3, <4>1
      <4> DEFINE room == olimit - o - 1
      <4>3. room \in Nat
        BY <1>1, <1>2, <1>3, <4>1 DEF Running
      <4>4. run = room - (room + 241) \div 256
        BY <4>2 DEF ReducedRun
      <4>5. rest + k > room
        BY <1>3, <1>4, <1>5, <3>3
      <4> DEFINE r == room - (room + 241) \div 256
                 j == (r + 240) \div 255
      <4> HIDE DEF room, run
      <4>6. r \in Nat /\ r <= rest /\ r + j <= room /\ room - 1 <= r + j
        BY <1>3, <4>3, <4>5, ReducedRunIs DEF k
      <4>7. run = r
        BY <4>4
      <4>8. j \in Int
        BY <4>6
      <4> HIDE DEF r, j
      <4>9. o + 1 + r + j <= olimit /\ olimit - 1 <= o + 1 + r + j
        BY <1>3, <4>6, <4>8 DEF room
      <4> QED
        BY <4>6, <4>7, <4>9 DEF j
    <3> QED
      BY <3>1, <3>2, <3>3
  <2> DEFINE z == (run + 240) \div 255
  <2>2. z \in Nat /\ 255 * z <= run + 240 /\ run + 240 < 255 * z + 255
    <3> HIDE DEF run
    <3> QED
      BY <2>1
  <2> HIDE DEF run
  <2>3. lb = z /\ lb \in Nat
    <3>1. /\ lb \in Nat /\ (run < 15 => lb = 0)
          /\ (run >= 15 => 255 * lb <= run + 240 /\ run + 240 < 255 * lb + 255)
      BY <2>1, LengthBytesIs
    <3> HIDE DEF lb, z
    <3>2. lb = z
      BY <2>1, <2>2, <3>1
    <3> QED
      BY <3>1, <3>2
  <2>4. head \in Seq(Byte) /\ Len(head) = 1 + lb
    BY <2>1, HeadIs
  <2>5. lits \in Seq(Byte) /\ Len(lits) = run
    <3>1. a + run <= iend
      BY <1>3, <2>1
    <3> QED
      BY <1>1, <1>3, <2>1, <3>1, LiteralsAre
  <2> HIDE DEF head, lits, lb
  <2> DEFINE b == head \o lits
  <2>6. b \in Seq(Byte) /\ Len(b) = 1 + lb + run
    BY <2>4, <2>5
  <2>7. o + (1 + lb + run) <= olimit
    <3>1. o + 1 + run + z <= olimit
      BY <2>1 DEF z
    <3> HIDE DEF z
    <3> QED
      BY <1>3, <2>1, <2>2, <2>3, <3>1
  <2> HIDE DEF b
  <2>8. Len(enc.dst) + Len(b) <= olimit
    BY <1>2, <2>6, <2>7
  <2> DEFINE x == Emit(enc, b)
  <2>9. EncKept(x) /\ Len(x.dst) = Len(enc.dst) + Len(b)
    BY <1>1, <2>6, <2>8, EmitKept
  <2>10. e = x
    BY DEF b
  <2>11. Return(Len(x.dst), a + run, x)
    BY <1>1, <1>7, <2>10
  <2> HIDE DEF x, e
  <2> DEFINE r == Len(x.dst)
  <2>12. r = o + (1 + lb + run)
    BY <1>2, <2>6, <2>9
  <2> HIDE DEF r
  <2>13. ASSUME a + run < iend PROVE r >= olimit - 1
    <3>1. run < rest
      BY <1>3, <2>1, <2>13
    <3>2. olimit - 1 <= o + 1 + run + z
      BY <2>1, <3>1 DEF z
    <3> HIDE DEF z
    <3> QED
      BY <1>3, <2>1, <2>2, <2>3, <2>12, <3>2
  <2>14. r > 0 /\ a + run < iend => r >= olimit - 1
    BY <2>13
  <2> QED
    BY <1>1, <2>9, <2>11, <2>14, ReturnKeeps DEF r
<1> QED
  BY <1>6, <1>7(* After a match was cut short, no entry of this call is past its new end. *)
LEMMA ForgetBefore ==
  ASSUME CallOK, NEW c, CtxOK(c), c.currentOffset = call.startIndex + iend,
         NEW a \in Nat, a > 0, NEW b \in Nat, EntriesBefore(c, b + 1)
  PROVE  LET d == ForgetPositions(c, a, b)
         IN  CtxOK(d) /\ d.currentOffset = c.currentOffset /\ EntriesBefore(d, a)
<1> DEFINE Gone(h) == \E i \in a .. b : LZ4_hashPosition(i) = h
           t == [h \in Slots |-> IF Gone(h) THEN 0 ELSE c.hashTable[h]]
           d == ForgetPositions(c, a, b)
<1>1. /\ c = [hashTable |-> c.hashTable, currentOffset |-> c.currentOffset,
              clearedTable |-> c.clearedTable]
      /\ c.hashTable \in [Slots -> Nat] /\ c.currentOffset \in Nat /\ c.clearedTable \in BOOLEAN
      /\ (c.clearedTable => c.currentOffset = 0)
      /\ \A g \in Slots : c.hashTable[g] <= c.currentOffset
  BY DEF CtxOK
<1>2. d = [c EXCEPT !.hashTable = t]
  BY <1>1 DEF ForgetPositions
<1> HIDE DEF Gone
<1>3. /\ t \in [Slots -> Nat]
      /\ \A g \in Slots : t[g] = IF Gone(g) THEN 0 ELSE c.hashTable[g]
  BY <1>1
<1> HIDE DEF t, d
<1>4. d = [hashTable |-> t, currentOffset |-> c.currentOffset, clearedTable |-> c.clearedTable]
  BY <1>1, <1>2
<1>5. d.hashTable = t /\ d.currentOffset = c.currentOffset /\ d.clearedTable = c.clearedTable
  BY <1>4
<1>6. \A g \in Slots : t[g] <= c.currentOffset
  BY <1>1, <1>3
<1>7. CtxOK(d)
  BY <1>1, <1>3, <1>4, <1>5, <1>6 DEF CtxOK
<1>8. call.startIndex \in Nat
  BY CallIs
<1>9. ASSUME NEW g \in Slots
      PROVE  Candidate(d, g) < a /\ (Candidate(d, g) > 0 => LZ4_hashPosition(Candidate(d, g)) = g)
  <2>1. CASE Gone(g)
    <3>1. Candidate(d, g) = 0 - call.startIndex
      BY <1>3, <1>5, <2>1 DEF Candidate
    <3> QED
      BY <1>8, <3>1
  <2>2. CASE ~Gone(g)
    <3>1. Candidate(d, g) = Candidate(c, g) /\ Candidate(c, g) \in Int
      BY <1>3, <1>5, <2>2, CandidateIs DEF Candidate
    <3> DEFINE x == Candidate(c, g)
    <3>2. x < b + 1 /\ (x > 0 => LZ4_hashPosition(x) = g)
      BY DEF EntriesBefore
    <3>3. x \in Int
      BY <3>1
    <3> HIDE DEF x
    <3>4. ASSUME a <= x PROVE FALSE
      <4>1. x \in a .. b /\ x > 0
        BY <3>2, <3>3, <3>4
      <4> QED
        BY <2>2, <3>2, <4>1 DEF Gone
    <3>5. x < a
      BY <3>3, <3>4
    <3> QED
      BY <3>1, <3>2, <3>5 DEF x
  <2> QED
    BY <2>1, <2>2
<1>10. EntriesBefore(d, a)
  BY <1>9 DEF EntriesBefore
<1> QED
  BY <1>5, <1>7, <1>10 DEF d

(* The token takes the low nibble, the bytes of the length follow.         *)
LEMMA EncodeLengthKept ==
  ASSUME CallOK, NEW e, EncKept(e), e.token \in Nat, e.token < Len(e.dst),
         NEW high \in 0 .. 15, e.dst[e.token + 1] = 16 * high, NEW n \in Nat,
         Len(e.dst) + Len(LengthBytes(n)) <= olimit,
         n >= 15 => Len(e.dst) + 4 + 4 * ((n - 15) \div 1020) <= olimit
  PROVE  LET f == EncodeLength(e, n)
         IN  /\ EncKept(f) /\ EncShape(f)
             /\ f.pc = e.pc /\ f.ip = e.ip /\ f.anchor = e.ip /\ f.filledIp = e.filledIp
             /\ Len(f.dst) = Len(e.dst) + Len(LengthBytes(n))
<1> DEFINE at == Len(e.dst)
           b == LengthBytes(n)
           end == IF n < 15 THEN at ELSE at + 4 + 4 * ((n - 15) \div 1020)
           e1 == Emit(e, b)
           e2 == WriteMax(e1, end)
           t == e.token + 1
           v == e2.dst[t] + Nibble(n)
           s == [e2.dst EXCEPT ![t] = v]
           f == EncodeLength(e, n)
<1>1. b \in Seq(Byte) /\ Len(b) \in Nat /\ e.dst \in Seq(Byte) /\ at \in Nat /\ olimit \in Nat
  <2>1. b \in Seq(Byte) /\ Len(b) \in Nat
    BY LengthBytesIs
  <2>2. e.dst \in Seq(Byte)
    BY DEF EncKept
  <2>3. olimit \in Nat
    BY CallIs
  <2> HIDE DEF b
  <2> QED
    BY <2>1, <2>2, <2>3
<1>2. end \in Nat /\ end <= olimit
  <2>1. CASE n < 15
    BY <1>1, <2>1
  <2>2. CASE ~(n < 15)
    <3> DEFINE w == (n - 15) \div 1020
    <3>1. w \in Nat
      BY <2>2
    <3> HIDE DEF at
    <3>0. n >= 15
      BY <2>2
    <3>3. Len(e.dst) + 4 + 4 * ((n - 15) \div 1020) <= olimit
      BY <3>0, ZenonT(30)
    <3>4. end = at + 4 + 4 * w
      BY <2>2
    <3>2. end = at + 4 + 4 * w /\ at + 4 + 4 * w <= olimit
      BY <3>3, <3>4, ZenonT(30) DEF at
    <3> HIDE DEF w, end
    <3> QED
      BY <1>1, <3>1, <3>2
  <2> QED
    BY <2>1, <2>2, ZenonT(30)
<1>3. f = [e2 EXCEPT !.dst[t] = @ + Nibble(n), !.anchor = e.ip]
  BY DEF EncodeLength
<1> HIDE DEF b, end, e1, e2
<1>4. EncKept(e1) /\ Alike(e1, e) /\ e1.dst = e.dst \o b /\ Len(e1.dst) = at + Len(b)
  BY <1>1, EmitKept DEF b, e1
<1>5. EncKept(e2) /\ EncShape(e2) /\ Alike(e2, e1) /\ e2.dst = e1.dst
  BY <1>2, <1>4, WriteMaxKept, ZenonT(30) DEF e2
<1>6. t \in 1 .. at /\ e2.dst[t] = e.dst[t]
  <2>1. t \in 1 .. at
    BY <1>1
  <2> HIDE DEF t
  <2> QED
    BY <1>1, <1>4, <1>5, <2>1
<1>7. v \in Byte
  <2>1. Nibble(n) \in 0 .. 15
    BY NibbleIs
  <2>2. v = 16 * high + Nibble(n)
    BY <1>6
  <2> QED
    <3> HIDE DEF v
    <3> DEFINE q == Nibble(n)
    <3>1. q \in 0 .. 15 /\ v = 16 * high + q
      BY <2>1, <2>2
    <3> HIDE DEF q
    <3>2. v \in 0 .. 256 - 1
      BY <3>1
    <3> QED
      BY <3>2 DEF Byte, Below
<1>8. e2.dst \in Seq(Byte) /\ Len(e2.dst) = at + Len(b) /\ t \in 1 .. Len(e2.dst)
  <2>1. e2.dst \in Seq(Byte) /\ Len(e2.dst) = at + Len(b)
    BY <1>4, <1>5 DEF EncKept
  <2> HIDE DEF t, at
  <2> QED
    BY <1>1, <1>6, <2>1
<1> HIDE DEF v
<1>9. s \in Seq(Byte) /\ Len(s) = at + Len(b)
  <2> DEFINE r == e2.dst
  <2>1. r \in Seq(Byte) /\ Len(r) = at + Len(b) /\ t \in 1 .. Len(r)
    BY <1>8
  <2>2. s = [r EXCEPT ![t] = v]
    OBVIOUS
  <2> HIDE DEF r, s, t
  <2> QED
    BY <1>7, <2>1, <2>2
<1>10. f = [e2 EXCEPT !.dst = s, !.anchor = e.ip]
  <2>1. e2.dst \in Seq(Byte)
    BY <1>8
  <2> QED
    BY <1>3, <1>5, <2>1 DEF EncShape, EncFields, v
<1> HIDE DEF s, f
<1>11. /\ EncShape(f) /\ f.pc = e2.pc /\ f.ip = e2.ip /\ f.anchor = e.ip /\ f.filledIp = e2.filledIp
       /\ f.dst = s /\ f.wrote = e2.wrote /\ f.fetched = e2.fetched
  BY <1>5, <1>10, ZenonT(30) DEF EncShape, EncFields
<1>12. EncKept(f)
  BY <1>5, <1>9, <1>11 DEF EncKept, EncShape
<1> QED
  BY <1>4, <1>5, <1>9, <1>11, <1>12 DEF Alike, f, b

(* The room for the length of a match, and the most a match can then be.   *)
LEMMA MatchRoom ==
  ASSUME NEW o \in Nat, NEW code \in Nat, NEW cap \in Nat, NEW i \in Nat, NEW n \in Nat,
         i + code + 9 <= n
  PROVE  LET k == (code + 240) \div 255
             r == cap - o - 8
         IN  /\ 255 * o <= 256 * i + 495 /\ n + n \div 255 + 16 <= cap =>
                  /\ o + 2 + k + 6 <= cap
                  /\ code < 15 => 255 * (o + 2) <= 256 * (i + 4 + code)
                  /\ code >= 15 => 255 * (o + 2 + k) <= 256 * (i + 4 + code)
             /\ ~(o + 2 + 1 + 5 + k > cap) => o + 2 + k + 6 <= cap
             /\ o + 11 <= cap /\ o + 2 + 1 + 5 + k > cap =>
                  /\ r \in Nat /\ r >= 3 /\ 14 + 255 * r <= code
                  /\ (14 + 255 * r + 240) \div 255 = r
<1> DEFINE k == (code + 240) \div 255
           q == n \div 255
           r == cap - o - 8
<1>1. /\ k \in Nat /\ 255 * k <= code + 240 /\ code + 240 < 255 * k + 255
      /\ q \in Nat /\ 255 * q <= n /\ n < 255 * q + 255
  OBVIOUS
<1> HIDE DEF k, q
<1>2. ASSUME 255 * o <= 256 * i + 495, n + q + 16 <= cap
      PROVE  /\ o + 2 + k + 6 <= cap
             /\ code < 15 => 255 * (o + 2) <= 256 * (i + 4 + code)
             /\ code >= 15 => 255 * (o + 2 + k) <= 256 * (i + 4 + code)
  <2>1. code < 15 => 255 * (o + 2) <= 256 * (i + 4 + code)
    BY <1>2
  <2>2. code >= 15 => 255 * (o + 2 + k) <= 256 * (i + 4 + code)
    BY <1>1, <1>2
  <2>3. 255 * (o + 2 + k) <= 256 * (i + 4 + code) + 255
    BY <1>1, <1>2
  <2>4. 255 * (o + 2 + k) <= 256 * n
    BY <1>1, <2>3
  <2>5. 255 * (o + 2 + k + 6) < 255 * (n + q) + 255 + 1530
    BY <1>1, <2>4
  <2>6. o + 2 + k + 6 <= cap
    BY <1>1, <1>2, <2>5
  <2> QED
    BY <2>1, <2>2, <2>6
<1>3. ~(o + 2 + 1 + 5 + k > cap) => o + 2 + k + 6 <= cap
  BY <1>1
<1>4. ASSUME o + 11 <= cap, o + 2 + 1 + 5 + k > cap
      PROVE  /\ r \in Nat /\ r >= 3 /\ 14 + 255 * r <= code
             /\ (14 + 255 * r + 240) \div 255 = r
  <2>1. r \in Nat /\ r >= 3
    BY <1>4
  <2>2. k >= r + 1
    BY <1>1, <1>4
  <2> HIDE DEF r
  <2>3. 14 + 255 * r <= code
    BY <1>1, <2>1, <2>2
  <2>4. (14 + 255 * r + 240) \div 255 = r
    <3> DEFINE u == (14 + 255 * r + 240) \div 255
    <3>1. u \in Int /\ 255 * u <= 254 + 255 * r /\ 254 + 255 * r < 255 * u + 255
      BY <2>1
    <3> HIDE DEF u
    <3>2. u = r
      BY <2>1, <3>1
    <3> QED
      BY <3>2 DEF u
  <2> QED
    BY <2>1, <2>3, <2>4
<1> QED
  BY <1>2, <1>3, <1>4 DEF k, q, r

(* The length's words of four bytes end three bytes past it at most.       *)
LEMMA LengthRoom ==
  ASSUME NEW at \in Nat, NEW n \in Nat, NEW cap \in Nat, NEW lb \in Nat,
         n < 15 => lb = 0, n >= 15 => 255 * lb <= n + 240 /\ n + 240 < 255 * lb + 255,
         at + lb + 6 <= cap
  PROVE  n >= 15 => at + 4 + 4 * ((n - 15) \div 1020) <= cap
<1> SUFFICES ASSUME n >= 15 PROVE at + 4 + 4 * ((n - 15) \div 1020) <= cap
  OBVIOUS
<1> DEFINE w == (n - 15) \div 1020
<1>1. w \in Nat /\ 1020 * w <= n - 15
  OBVIOUS
<1> HIDE DEF w
<1>2. 4 * w <= lb
  BY <1>1
<1>3. at + 4 + 4 * w <= cap
  BY <1>1, <1>2
<1> QED
  BY <1>3 DEF w

(* Writing the offset and the length of a match stays in bounds, shortens  *)
(* the match to what fits, or gives up.                                    *)
LEMMA EncodeMatchKeeps ==
  ASSUME EncoderInv, EncodeMatch
  PROVE  EncoderAt(ctx', enc') /\ call' = call
<1> DEFINE o == op
           off == enc.ip - enc.match
           two == <<off % 256, off \div 256>>
           e == Emit(enc, two)
           code == LZ4_count(e.ip + MINMATCH, e.match + MINMATCH, matchlimit)
           over == MatchOverflow(o + 2, code)
           long == call.outputDirective # "notLimited" /\ over
           kept == IF long THEN ReducedCode(o + 2) ELSE code
           after == e.ip + MINMATCH + kept
           full == FillOutput /\ o + 2 + 1 + MFLIMIT - MINMATCH > olimit
           cut == [enc EXCEPT !.dst = SubSeq(@, 1, enc.token), !.pc = "last_literals"]
           g == [e EXCEPT !.ip = after, !.pc = "next"]
           f == EncodeLength(g, kept)
           c == IF long /\ after <= e.filledIp THEN ForgetPositions(ctx, after, e.filledIp)
                ELSE ctx
           lb == Len(LengthBytes(kept))
<1>1. /\ call' = call /\ CallOK /\ CtxOK(ctx) /\ EncKept(enc) /\ EncShape(enc)
      /\ Running(ctx, enc) /\ AtMatch(ctx, enc) /\ enc.pc = "_next_match"
  BY DEF EncodeMatch, EncoderInv, EncoderAt, EncKept, EncShape
<1>2. IF full THEN enc' = cut /\ ctx' = ctx
      ELSE IF long /\ Limited THEN Return(0, 0, e)
      ELSE ctx' = c /\ enc' = f
  BY DEF EncodeMatch
<1>3. /\ enc.dst \in Seq(Byte) /\ o = Len(enc.dst) /\ o \in Nat
      /\ iend \in Nat /\ olimit \in Nat /\ enc.anchor \in Nat
      /\ IndexLimit <= 65535 /\ IndexLimit \in Nat /\ call.startIndex \in Nat
      /\ call.startIndex + iend <= IndexLimit + 11 /\ matchlimit = iend - 5
  <2>1. enc.dst \in Seq(Byte) /\ o = Len(enc.dst)
    BY <1>1 DEF EncKept, op
  <2>2. o \in Nat
    BY <2>1
  <2>3. enc.anchor \in Nat
    BY <1>1 DEF Running
  <2> HIDE DEF o
  <2> QED
    BY <1>1, <2>1, <2>2, <2>3, CallIs
<1>4. /\ enc.ip \in Nat /\ enc.anchor <= enc.ip /\ enc.ip + 12 <= iend
      /\ enc.match \in Nat /\ enc.match < enc.ip /\ enc.filledIp \in Nat
      /\ enc.token \in Nat /\ enc.token < o
  <2>1. /\ enc.ip \in Nat /\ enc.anchor <= enc.ip /\ enc.ip <= iend - MFLIMIT
        /\ enc.match \in Nat /\ enc.match < enc.ip /\ enc.filledIp \in Nat
    BY <1>1 DEF AtMatch, Matching
  <2>2. enc.token \in Nat /\ enc.token < o
    BY <1>1, <1>3 DEF AtMatch
  <2> HIDE DEF o
  <2> QED
    BY <1>3, <2>1, <2>2 DEF MFLIMIT
<1>5. PICK high \in 0 .. 15 : enc.dst[enc.token + 1] = 16 * high
  BY <1>1 DEF AtMatch
<1>6. two \in Seq(Byte) /\ Len(two) = 2
  <2>1. off \in Nat /\ off < 65536
    <3>1. iend \in Nat /\ iend <= 65546
      BY <1>3
    <3>2. enc.ip \in Nat /\ enc.ip + 12 <= iend /\ enc.match \in Nat /\ enc.match < enc.ip
      BY <1>4
    <3>3. off = enc.ip - enc.match
      OBVIOUS
    <3> HIDE DEF off
    <3> QED
      BY <3>1, <3>2, <3>3
  <2> HIDE DEF off
  <2>2. off % 256 \in 0 .. 255 /\ off \div 256 \in 0 .. 255
    BY <2>1
  <2>3. off % 256 \in Byte /\ off \div 256 \in Byte
    BY <2>2 DEF Byte, Below
  <2> QED
    BY <2>3
<1> HIDE DEF o, off, two
<1>7. /\ call.outputDirective # "notLimited" => o + 5 <= olimit
      /\ call.outputDirective = "notLimited" =>
           255 * o <= 256 * enc.ip + 495 /\ iend + iend \div 255 + 16 <= olimit
  <2>1. call.outputDirective # "notLimited" => o + 5 <= olimit
    BY <1>1, <1>3 DEF AtMatch, Spare
  <2>2. call.outputDirective = "notLimited" => 255 * o <= 256 * enc.ip + 495
    BY <1>1, <1>3 DEF AtMatch, Ahead
  <2>3. call.outputDirective = "notLimited" => iend + iend \div 255 + 16 <= olimit
    BY <1>1, <1>3, <1>4 DEF CallOK, LZ4_compressBound
  <2> QED
    BY <2>1, <2>2, <2>3
<1>8. o + 2 <= olimit
  <2> DEFINE q == iend \div 255
  <2>1. q \in Nat /\ iend < 255 * q + 255
    <3>1. iend \in Nat
      BY <1>3
    <3> QED
      BY ONLY <3>1
  <2>2. call.outputDirective = "notLimited" => iend + q + 16 <= olimit
    BY <1>7
  <2> HIDE DEF q
  <2>3. iend \in Nat /\ olimit \in Nat /\ o \in Nat /\ enc.ip \in Nat /\ enc.ip + 12 <= iend
    BY <1>3, <1>4
  <2>4. CASE call.outputDirective = "notLimited"
    <3>1. 255 * o <= 256 * enc.ip + 495 /\ iend + q + 16 <= olimit
      BY <1>7, <2>2, <2>4
    <3> QED
      BY ONLY <2>1, <2>3, <3>1
  <2>5. CASE call.outputDirective # "notLimited"
    BY <1>7, <2>3, <2>5
  <2> QED
    BY <2>4, <2>5
<1>9. EncKept(e) /\ EncShape(e) /\ Alike(e, enc) /\ e.dst = enc.dst \o two
      /\ Len(e.dst) = o + 2
  <2>1. Len(enc.dst) + Len(two) <= olimit
    BY <1>3, <1>6, <1>8
  <2>2. /\ EncKept(e) /\ EncShape(e) /\ Alike(e, enc) /\ e.dst = enc.dst \o two
        /\ Len(e.dst) = Len(enc.dst) + Len(two)
    BY <1>1, <1>6, <2>1, EmitKept
  <2> HIDE DEF e
  <2> QED
    BY <1>3, <1>6, <2>2
<1> HIDE DEF e
<1>10. e.ip = enc.ip /\ e.match = enc.match /\ e.filledIp = enc.filledIp
       /\ e.token = enc.token /\ e.anchor = enc.anchor
  BY <1>9 DEF Alike
<1>11. CASE full
  <2> DEFINE s == SubSeq(enc.dst, 1, enc.token)
  <2>1. enc' = cut /\ ctx' = ctx
    BY <1>2, <1>11
  <2>2. s \in Seq(Byte) /\ Len(s) = enc.token
    <3>1. 1 \in Int /\ enc.token \in Int /\ \A i \in 1 .. enc.token : enc.dst[i] \in Byte
      BY <1>3, <1>4
    <3>2. s \in Seq(Byte) /\ Len(s) = IF 1 <= enc.token THEN enc.token - 1 + 1 ELSE 0
      BY <3>1, SubSeqProperties
    <3> HIDE DEF s
    <3> QED
      BY <1>4, <3>2
  <2>3. cut = [enc EXCEPT !.dst = s, !.pc = "last_literals"]
    BY <1>1 DEF EncShape, EncFields
  <2> HIDE DEF s, cut
  <2>4. EncShape(cut) /\ cut.pc = "last_literals" /\ cut.dst = s /\ cut.anchor = enc.anchor
        /\ cut.wrote = enc.wrote /\ cut.fetched = enc.fetched
    BY <1>1, <2>3 DEF EncShape, EncFields
  <2>5. EncKept(cut)
    BY <1>1, <2>2, <2>4 DEF EncKept, EncShape
  <2>6. FillOutput /\ o < olimit
    BY <1>1, <1>3, <1>11 DEF Running
  <2>7. Len(cut.dst) < olimit
    BY <1>3, <1>4, <2>2, <2>4, <2>6
  <2>8. Running(ctx, cut)
    BY <1>1, <2>4, <2>7 DEF Running
  <2>9. Ahead(cut, cut.anchor, 0)
    BY <2>6 DEF Ahead, FillOutput
  <2> QED
    BY <1>1, <2>1, <2>4, <2>5, <2>8, <2>9 DEF EncoderAt
<1>12. CASE ~full /\ long /\ Limited
  <2>1. Return(0, 0, e)
    BY <1>2, <1>12
  <2>2. ~(0 > 0)
    OBVIOUS
  <2> QED
    BY <1>1, <1>9, <2>1, <2>2, ReturnKeeps
<1>13. CASE ~full /\ ~(long /\ Limited)
  <2>1. code \in Nat /\ enc.ip + code + 9 <= iend
        /\ \A n \in Nat : /\ n <= iend - 9 - enc.ip
                          /\ \A k \in 0 .. n - 1 : At(enc.ip + 4 + k) = At(enc.match + 4 + k)
                          => n <= code
    <3> DEFINE i == enc.ip + 4
               m == enc.match + 4
               limit == iend - 5
               x == LZ4_count(i, m, limit)
    <3>1. code = x
      BY <1>3, <1>10 DEF MINMATCH
    <3>2. i \in Int /\ limit \in Int /\ i <= limit /\ limit - i = iend - 9 - enc.ip
      BY <1>3, <1>4
    <3> HIDE DEF i, m, limit, code
    <3>3. ASSUME NEW n \in Nat, n <= limit - i, \A k \in 0 .. n - 1 : At(i + k) = At(m + k)
          PROVE  x \in 0 .. limit - i /\ n <= x
      BY <3>2, <3>3, CountIs
    <3>4. x \in 0 .. limit - i
      <4>1. 0 \in Nat /\ 0 <= limit - i /\ \A k \in 0 .. 0 - 1 : At(i + k) = At(m + k)
        BY <3>2
      <4> QED
        BY <3>3, <4>1
    <3>5. ASSUME NEW n \in Nat, n <= iend - 9 - enc.ip,
                 \A k \in 0 .. n - 1 : At(enc.ip + 4 + k) = At(enc.match + 4 + k)
          PROVE  n <= x
      BY <3>2, <3>3, <3>5 DEF i, m
    <3>6. x \in Nat /\ enc.ip + x + 9 <= iend
      <4> HIDE DEF x
      <4> QED
        BY <1>3, <1>4, <3>2, <3>4
    <3> HIDE DEF x
    <3> QED
      BY <3>1, <3>5, <3>6
  <2> HIDE DEF code
  <2> DEFINE z == (code + 240) \div 255
             r == olimit - o - 8
  <2>20. LET k == (code + 240) \div 255
             y == olimit - o - 8
         IN  /\ 255 * o <= 256 * enc.ip + 495 /\ iend + iend \div 255 + 16 <= olimit =>
                  /\ o + 2 + k + 6 <= olimit
                  /\ code < 15 => 255 * (o + 2) <= 256 * (enc.ip + 4 + code)
                  /\ code >= 15 => 255 * (o + 2 + k) <= 256 * (enc.ip + 4 + code)
             /\ ~(o + 2 + 1 + 5 + k > olimit) => o + 2 + k + 6 <= olimit
             /\ o + 11 <= olimit /\ o + 2 + 1 + 5 + k > olimit =>
                  /\ y \in Nat /\ y >= 3 /\ 14 + 255 * y <= code
                  /\ (14 + 255 * y + 240) \div 255 = y
    <3>1. o \in Nat /\ code \in Nat /\ olimit \in Nat /\ enc.ip \in Nat /\ iend \in Nat
          /\ enc.ip + code + 9 <= iend
      BY <1>3, <1>4, <2>1
    <3> QED
      BY <3>1, MatchRoom
  <2> DEFINE q == iend \div 255
  <2>21. /\ 255 * o <= 256 * enc.ip + 495 /\ iend + q + 16 <= olimit =>
              /\ o + 2 + z + 6 <= olimit
              /\ code < 15 => 255 * (o + 2) <= 256 * (enc.ip + 4 + code)
              /\ code >= 15 => 255 * (o + 2 + z) <= 256 * (enc.ip + 4 + code)
         /\ ~(o + 2 + 1 + 5 + z > olimit) => o + 2 + z + 6 <= olimit
         /\ o + 11 <= olimit /\ o + 2 + 1 + 5 + z > olimit =>
              /\ r \in Nat /\ r >= 3 /\ 14 + 255 * r <= code
              /\ (14 + 255 * r + 240) \div 255 = r
    <3> QED
      BY <2>20
  <2>2. over <=> o + 2 + 1 + 5 + z > olimit
    BY DEF MatchOverflow, LASTLITERALS
  <2>3. long => kept = 14 + 255 * r
    <3>1. ReducedCode(o + 2) = 14 + 255 * r
      <4>1. ReducedCode(o + 2) = 15 - 1 + (olimit - (o + 2) - 1 - 5) * 255
        BY DEF ReducedCode, LASTLITERALS
      <4>2. 15 - 1 + (olimit - (o + 2) - 1 - 5) * 255 = 14 + 255 * (olimit - o - 8)
        BY <1>3
      <4> QED
        BY <4>1, <4>2
    <3> QED
      BY <3>1
  <2>4. /\ kept \in Nat /\ kept <= code
        /\ o + 2 + (kept + 240) \div 255 + 6 <= olimit
        /\ call.outputDirective = "notLimited" =>
             /\ kept < 15 => 255 * (o + 2) <= 256 * (enc.ip + 4 + kept)
             /\ kept >= 15 => 255 * (o + 2 + (kept + 240) \div 255) <= 256 * (enc.ip + 4 + kept)
    <3>1. CASE call.outputDirective = "notLimited"
      <4>1. kept = code
        BY <3>1
      <4> HIDE DEF kept
      <4>2. /\ o + 2 + z + 6 <= olimit
            /\ code < 15 => 255 * (o + 2) <= 256 * (enc.ip + 4 + code)
            /\ code >= 15 => 255 * (o + 2 + z) <= 256 * (enc.ip + 4 + code)
        <5>1. 255 * o <= 256 * enc.ip + 495 /\ iend + q + 16 <= olimit
          BY <1>7, <3>1
        <5> HIDE DEF q, z, r
        <5> QED
          BY <2>21, <5>1
      <4>3. code <= code
        BY <2>1
      <4> QED
        BY <2>1, <4>1, <4>2, <4>3
    <3>2. CASE call.outputDirective # "notLimited" /\ ~over
      <4>1. kept = code
        BY <3>2
      <4> HIDE DEF kept
      <4>2. ~(o + 2 + 1 + 5 + z > olimit)
        BY <2>2, <3>2
      <4>3. o + 2 + z + 6 <= olimit
        <5> HIDE DEF q, z, r
        <5> QED
          BY <2>21, <4>2
      <4>4. code <= code
        BY <2>1
      <4> QED
        BY <2>1, <3>2, <4>1, <4>3, <4>4
    <3>3. CASE call.outputDirective # "notLimited" /\ over
      <4>1. FillOutput
        BY <1>1, <1>13, <3>3 DEF CallOK, Directives, Limited, FillOutput
      <4>2. o + 11 <= olimit
        BY <1>3, <1>13, <4>1 DEF MFLIMIT, MINMATCH
      <4>3. kept = 14 + 255 * r
        BY <2>3, <3>3
      <4> HIDE DEF kept
      <4>4. o + 2 + 1 + 5 + z > olimit
        BY <2>2, <3>3
      <4>5. /\ r \in Nat /\ r >= 3 /\ 14 + 255 * r <= code
            /\ (14 + 255 * r + 240) \div 255 = r
        <5> HIDE DEF q, z
        <5> QED
          BY <2>21, <4>2, <4>4
      <4>6. o + 2 + r + 6 <= olimit
        BY <1>3
      <4> HIDE DEF r
      <4>7. kept \in Nat
        BY <4>3, <4>5
      <4>8. (kept + 240) \div 255 = r
        BY <4>3, <4>5
      <4> QED
        BY <3>3, <4>3, <4>5, <4>6, <4>7, <4>8
    <3> QED
      BY <3>1, <3>2, <3>3
  <2> HIDE DEF z, r, q
  <2>5. ~long => kept = code
    OBVIOUS
  <2>6. /\ after = enc.ip + 4 + kept /\ after \in Nat /\ after > 0 /\ after > enc.ip
        /\ after <= iend - 5 /\ after >= 2
    <3>1. after = enc.ip + 4 + kept
      BY <1>10 DEF MINMATCH
    <3>2. kept \in Nat /\ kept <= code
      BY <2>4
    <3>3. enc.ip \in Nat /\ code \in Nat /\ enc.ip + code + 9 <= iend /\ iend \in Nat
      BY <1>3, <1>4, <2>1
    <3> DEFINE i == enc.ip
               n == iend
    <3>4. i \in Nat /\ n \in Nat /\ i + code + 9 <= n /\ after = i + 4 + kept
      BY <3>1, <3>3
    <3> HIDE DEF kept, after, code, i, n
    <3>5. after \in Nat /\ after > 0 /\ after > i /\ after <= n - 5 /\ after >= 2
      BY <3>2, <3>3, <3>4
    <3> QED
      BY <3>1, <3>5 DEF i, n
  <2> HIDE DEF kept, after, long, over
  <2>7. ctx' = c /\ enc' = f
    BY <1>2, <1>13
  <2>8. /\ lb \in Nat /\ (kept < 15 => lb = 0)
        /\ (kept >= 15 => 255 * lb <= kept + 240 /\ kept + 240 < 255 * lb + 255)
    BY <2>4, LengthBytesIs
  <2>9. /\ o + 2 + lb + 6 <= olimit
        /\ call.outputDirective = "notLimited" =>
             255 * (o + 2 + lb) <= 256 * (enc.ip + 4 + kept)
    <3> DEFINE y == (kept + 240) \div 255
    <3> HIDE DEF lb
    <3>1. y \in Nat /\ 255 * y <= kept + 240 /\ kept + 240 < 255 * y + 255
      BY <2>4
    <3>2. /\ o + 2 + y + 6 <= olimit
          /\ call.outputDirective = "notLimited" =>
               /\ kept < 15 => 255 * (o + 2) <= 256 * (enc.ip + 4 + kept)
               /\ kept >= 15 => 255 * (o + 2 + y) <= 256 * (enc.ip + 4 + kept)
      BY <2>4
    <3> HIDE DEF y
    <3>3. lb <= y /\ (kept >= 15 => lb = y)
      BY <2>4, <2>8, <3>1
    <3>4. o + 2 + lb + 6 <= olimit
      BY <1>3, <2>8, <3>1, <3>2, <3>3
    <3>5. CASE kept < 15
      <4>1. lb = 0
        BY <2>8, <3>5
      <4>2. o + 2 + lb = o + 2
        BY <1>3, <4>1
      <4> QED
        BY <3>2, <3>4, <3>5, <4>2
    <3>6. CASE kept >= 15
      BY <3>2, <3>3, <3>4, <3>6
    <3> QED
      BY <2>4, <3>5, <3>6
  <2>10. kept >= 15 => o + 2 + 4 + 4 * ((kept - 15) \div 1020) <= olimit
    <3> DEFINE at == o + 2
    <3>1. at \in Nat /\ at + lb + 6 <= olimit
      BY <1>3, <2>9
    <3> HIDE DEF at, lb
    <3>2. kept >= 15 => at + 4 + 4 * ((kept - 15) \div 1020) <= olimit
      BY <1>3, <2>4, <2>8, <3>1, LengthRoom
    <3> QED
      BY <3>2 DEF at
  <2>11. /\ EncShape(g) /\ g.ip = after /\ g.pc = "next" /\ g.dst = e.dst /\ g.token = e.token
         /\ g.filledIp = e.filledIp /\ g.wrote = e.wrote /\ g.fetched = e.fetched
    BY <1>9 DEF EncShape, EncFields
  <2> HIDE DEF g
  <2>12. EncKept(g)
    BY <1>9, <2>11 DEF EncKept, EncShape
  <2>13. g.dst[g.token + 1] = 16 * high
    <3>1. enc.token + 1 \in 1 .. Len(enc.dst)
      BY <1>3, <1>4
    <3> DEFINE t == enc.token + 1
    <3> HIDE DEF t
    <3>2. (enc.dst \o two)[t] = enc.dst[t]
      <4>1. enc.dst \in Seq(Byte) /\ two \in Seq(Byte) /\ t \in 1 .. Len(enc.dst)
        BY <1>3, <1>6, <3>1 DEF t
      <4> QED
        BY ONLY <4>1
    <3> QED
      BY <1>5, <1>9, <1>10, <2>11, <3>2 DEF t
  <2>14. EncKept(f) /\ EncShape(f) /\ f.pc = "next" /\ f.ip = after /\ f.anchor = after
         /\ f.filledIp = enc.filledIp /\ Len(f.dst) = o + 2 + lb
    <3>1. Len(g.dst) = o + 2
      BY <1>9, <2>11
    <3>2. g.token \in Nat /\ g.token < Len(g.dst)
      BY <1>3, <1>4, <1>10, <2>11, <3>1
    <3>3. o + 2 + lb <= olimit
      BY <1>3, <2>8, <2>9
    <3>4. Len(g.dst) + Len(LengthBytes(kept)) <= olimit
      BY <3>1, <3>3
    <3>5. kept >= 15 => Len(g.dst) + 4 + 4 * ((kept - 15) \div 1020) <= olimit
      BY <2>10, <3>1
    <3>6. /\ EncKept(f) /\ EncShape(f)
          /\ f.pc = g.pc /\ f.ip = g.ip /\ f.anchor = g.ip /\ f.filledIp = g.filledIp
          /\ Len(f.dst) = Len(g.dst) + Len(LengthBytes(kept))
      <4>1. CallOK /\ kept \in Nat
        BY <1>1, <2>4
      <4> QED
        BY <2>12, <2>13, <3>2, <3>4, <3>5, <4>1, EncodeLengthKept, Zenon
    <3> QED
      BY <1>10, <2>11, <3>1, <3>6
  <2> HIDE DEF f, lb
  <2>15. CtxOK(c) /\ c.currentOffset = ctx.currentOffset /\ EntriesBefore(c, after)
    <3>0. ctx.currentOffset = call.startIndex + iend
      BY <1>1 DEF Running
    <3>1. CASE EntriesBefore(ctx, enc.ip + 1)
      <4>1. enc.ip + 1 \in Int /\ enc.ip + 1 <= after /\ after \in Int
        BY <1>4, <2>6
      <4>2. EntriesBefore(ctx, after)
        BY <1>1, <3>1, <4>1, BeforeLater
      <4>3. CASE long /\ after <= e.filledIp
        <5>1. c = ForgetPositions(ctx, after, enc.filledIp)
          BY <1>10, <4>3
        <5>2. enc.filledIp + 1 \in Int /\ enc.ip + 1 <= enc.filledIp + 1
          BY <1>4, <1>10, <2>6, <4>3
        <5>3. EntriesBefore(ctx, enc.filledIp + 1)
          BY <1>1, <3>1, <4>1, <5>2, BeforeLater
        <5> HIDE DEF c
        <5> QED
          BY <1>1, <1>4, <2>6, <3>0, <5>1, <5>3, ForgetBefore
      <4>4. CASE ~(long /\ after <= e.filledIp)
        BY <1>1, <4>2, <4>4
      <4> QED
        BY <4>3, <4>4
    <3>2. CASE ~EntriesBefore(ctx, enc.ip + 1)
      <4>1. /\ enc.filledIp > enc.ip /\ enc.filledIp + 12 <= iend
            /\ EntriesBefore(ctx, enc.filledIp + 1)
            /\ \A j \in enc.ip .. enc.filledIp + 3 : At(j) = At(enc.match + (j - enc.ip))
        <5>1. Reaches(ctx, enc)
          BY <1>1 DEF AtMatch
        <5>2. enc.filledIp <= iend - MFLIMIT => enc.filledIp + 12 <= iend
          BY <1>3, <1>4 DEF MFLIMIT
        <5> QED
          BY <3>2, <5>1, <5>2 DEF Reaches
      <4>2. CASE long /\ after <= e.filledIp
        <5>1. c = ForgetPositions(ctx, after, enc.filledIp)
          BY <1>10, <4>2
        <5> HIDE DEF c
        <5> QED
          BY <1>1, <1>4, <2>6, <3>0, <4>1, <5>1, ForgetBefore
      <4>3. CASE ~(long /\ after <= e.filledIp)
        <5>1. enc.filledIp + 1 <= after
          <6>1. CASE long
            BY <1>4, <1>10, <2>6, <4>3, <6>1
          <6>2. CASE ~long
            <7> DEFINE n == enc.filledIp - enc.ip
            <7>1. n \in Nat /\ n <= iend - 9 - enc.ip
              BY <1>3, <1>4, <4>1
            <7>2. ASSUME NEW k \in 0 .. n - 1
                  PROVE  At(enc.ip + 4 + k) = At(enc.match + 4 + k)
              <8> DEFINE j == enc.ip + 4 + k
              <8>1. j \in enc.ip .. enc.filledIp + 3 /\ enc.match + (j - enc.ip) = enc.match + 4 + k
                BY <1>4, <7>1
              <8>2. At(j) = At(enc.match + (j - enc.ip))
                <9> HIDE DEF j
                <9> QED
                  BY <4>1, <8>1
              <8> QED
                BY <8>1, <8>2
            <7>3. n <= code
              <8> HIDE DEF n
              <8> QED
                BY <2>1, <7>1, <7>2
            <7> QED
              BY <1>4, <2>1, <2>5, <2>6, <6>2, <7>3
          <6> QED
            BY <6>1, <6>2
        <5>2. enc.filledIp + 1 \in Int /\ after \in Int
          BY <1>4, <2>6
        <5>3. EntriesBefore(ctx, after)
          BY <1>1, <4>1, <5>1, <5>2, BeforeLater
        <5> QED
          BY <1>1, <4>3, <5>3
      <4> QED
        BY <4>2, <4>3
    <3> QED
      BY <3>1, <3>2
  <2> HIDE DEF c
  <2>16. Ahead(f, f.ip, 0) /\ Spare(f, 6)
    <3> DEFINE l == Len(f.dst)
    <3>1. l = o + 2 + lb
      BY <2>14
    <3> HIDE DEF l
    <3>2. l + 6 <= olimit
      BY <1>3, <2>8, <2>9, <3>1
    <3>3. call.outputDirective = "notLimited" => 255 * l <= 256 * f.ip + 0
      BY <1>4, <2>4, <2>6, <2>9, <2>14, <3>1
    <3> QED
      BY <3>2, <3>3 DEF Ahead, Spare, l
  <2>17. Running(c, f)
    <3>1. Running(ctx, enc)
      BY <1>1
    <3>2. after \in Nat /\ after <= iend
      BY <1>3, <2>6
    <3>3. Len(f.dst) < olimit
      BY <1>3, <2>8, <2>9, <2>14
    <3> QED
      BY <2>14, <2>15, <3>1, <3>2, <3>3 DEF Running
  <2>18. AtNext(c, f)
    <3>1. after <= matchlimit
      BY <1>3, <2>6
    <3> QED
      BY <1>4, <2>6, <2>14, <2>15, <2>16, <3>1 DEF AtNext
  <2> QED
    BY <1>1, <2>7, <2>14, <2>15, <2>17, <2>18 DEF EncoderAt
<1> QED
  BY <1>1, <1>11, <1>12, <1>13

(* An entry that may be used is a position of this source.                 *)
LEMMA UsableIs ==
  ASSUME CallOK, NEW c, CtxOK(c), NEW h \in Slots, Usable(Candidate(c, h))
  PROVE  Candidate(c, h) \in Nat
<1>1. Candidate(c, h) \in Int /\ c.hashTable[h] \in Nat
  BY CandidateIs
<1>2. CASE call.dictSmall
  BY <1>1, <1>2 DEF Usable
<1>3. CASE ~call.dictSmall
  <2>1. call.startIndex = 0
    BY <1>3 DEF CallOK
  <2> QED
    BY <1>1, <2>1 DEF Candidate
<1> QED
  BY <1>2, <1>3 DEF CallOK

(* After a match: the end of the input, another match at once, or a new    *)
(* search.                                                                 *)
LEMMA NextPositionKeeps ==
  ASSUME Hashing, EncoderInv, NextPosition
  PROVE  EncoderAt(ctx', enc') /\ call' = call
<1> DEFINE i == enc.ip
           o == op
           h == LZ4_hashPosition(i)
           filled == PutIndexOnHash(ctx, i - 2, LZ4_hashPosition(i - 2))
           m == Candidate(filled, h)
           c == PutIndexOnHash(filled, i, h)
           e == Emit(enc, << 0 >>)
           f == [e EXCEPT !.token = o, !.match = m, !.pc = "_next_match"]
           nb == call.acceleration * LZ4_skipTrigger
           nh == LZ4_hashPosition(i + 1)
           g == [enc EXCEPT !.ip = i + 1, !.forwardIp = i + 1, !.step = 1,
                            !.searchMatchNb = nb, !.forwardH = nh, !.pc = "search"]
           k == [enc EXCEPT !.pc = "last_literals"]
<1>1. /\ call' = call /\ CallOK /\ CtxOK(ctx) /\ EncKept(enc) /\ EncShape(enc)
      /\ Running(ctx, enc) /\ AtNext(ctx, enc) /\ enc.pc = "next"
  BY DEF NextPosition, EncoderInv, EncoderAt, EncKept, EncShape
<1>2. IF i >= mflimitPlusOne THEN enc' = k /\ ctx' = ctx
      ELSE ctx' = c /\ enc' = IF Matches(m, i) THEN f ELSE g
  BY DEF NextPosition
<1>3. /\ iend \in Nat /\ olimit \in Nat /\ mflimitPlusOne = iend - 11 /\ matchlimit = iend - 5
      /\ enc.dst \in Seq(Byte) /\ o = Len(enc.dst) /\ call.acceleration \in Nat
  BY <1>1, CallIs DEF EncKept, op
<1>4. /\ i \in Nat /\ i = enc.anchor /\ i >= 2 /\ enc.filledIp \in Nat /\ EntriesBefore(ctx, i)
      /\ i <= iend - 5
  <2>1. enc.anchor \in Nat
    BY <1>1 DEF Running
  <2> QED
    BY <1>1, <1>3, <2>1 DEF AtNext
<1>5. o \in Nat
  BY <1>3
<1> HIDE DEF i, o
<1>6. CASE i >= mflimitPlusOne
  <2>1. enc' = k /\ ctx' = ctx
    BY <1>2, <1>6
  <2> HIDE DEF k
  <2>2. EncShape(k) /\ k.pc = "last_literals" /\ k.dst = enc.dst /\ k.anchor = enc.anchor
        /\ k.wrote = enc.wrote /\ k.fetched = enc.fetched
    BY <1>1 DEF EncShape, EncFields, k
  <2>3. EncKept(k) /\ Running(ctx, k)
    BY <1>1, <2>2 DEF EncKept, EncShape, Running
  <2>4. Ahead(k, k.anchor, 0)
    <3>1. Ahead(enc, i, 0)
      BY <1>1, <1>4 DEF AtNext, i
    <3> QED
      BY <1>4, <2>2, <3>1 DEF Ahead
  <2> QED
    BY <1>1, <2>1, <2>2, <2>3, <2>4 DEF EncoderAt
<1>7. CASE ~(i >= mflimitPlusOne)
  <2>1. i + 12 <= iend
    BY <1>3, <1>4, <1>7
  <2>2. h \in Slots
    <3>1. i + 4 <= iend
      BY <1>3, <1>4, <2>1
    <3> QED
      BY <1>1, <1>4, <3>1, HashIs
  <2>3. CtxOK(filled) /\ filled.currentOffset = ctx.currentOffset /\ EntriesBefore(filled, i)
    <3> DEFINE j == i - 2
    <3>1. j \in Nat /\ j + 12 <= iend /\ j < i /\ i \in Int /\ i <= i
      BY <1>3, <1>4, <2>1
    <3>2. ctx.currentOffset = call.startIndex + iend
      BY <1>1 DEF Running
    <3> HIDE DEF j
    <3>3. LET d == PutIndexOnHash(ctx, j, LZ4_hashPosition(j))
          IN  CtxOK(d) /\ d.currentOffset = ctx.currentOffset /\ EntriesBefore(d, i)
      BY <1>1, <1>4, <3>1, <3>2, PutBefore
    <3> QED
      BY <3>3 DEF j
  <2>4. m \in Int /\ m < i
    BY <1>1, <2>2, <2>3, CandidateIs DEF EntriesBefore
  <2>5. Matches(m, i) => m \in Nat
    BY <1>1, <2>2, <2>3, UsableIs DEF Matches
  <2> HIDE DEF filled, m
  <2>6. CtxOK(c) /\ c.currentOffset = ctx.currentOffset /\ EntriesBefore(c, i + 1)
    <3>1. i \in Int /\ i + 1 \in Int /\ i <= i + 1 /\ i < i + 1
      BY <1>4
    <3>2. filled.currentOffset = call.startIndex + iend
      BY <1>1, <2>3 DEF Running
    <3>3. LET d == PutIndexOnHash(filled, i, LZ4_hashPosition(i))
          IN  CtxOK(d) /\ d.currentOffset = filled.currentOffset /\ EntriesBefore(d, i + 1)
      BY <1>1, <1>4, <2>1, <2>3, <3>1, <3>2, PutBefore
    <3> QED
      BY <2>3, <3>3
  <2> HIDE DEF c
  <2>7. /\ call.outputDirective # "notLimited" => o + 6 <= olimit
        /\ call.outputDirective = "notLimited" => 255 * o <= 256 * i
    <3>1. Spare(enc, 6) /\ Ahead(enc, i, 0)
      BY <1>1, <1>4 DEF AtNext, i
    <3> QED
      BY <1>3, <1>4, <3>1 DEF Spare, Ahead
  <2>8. CASE Matches(m, i)
    <3>1. ctx' = c /\ enc' = f
      BY <1>2, <1>7, <2>8
    <3>2. o + 1 <= olimit
      <4>1. call.outputDirective = "notLimited" => iend + iend \div 255 + 16 <= olimit
        BY <1>1, <1>3, <1>4, <2>1 DEF CallOK, LZ4_compressBound
      <4> DEFINE q == iend \div 255
      <4>2. q \in Nat /\ iend < 255 * q + 255
        <5>1. iend \in Nat
          BY <1>3
        <5> QED
          BY ONLY <5>1
      <4>3. call.outputDirective = "notLimited" => iend + q + 16 <= olimit
        BY <4>1
      <4> HIDE DEF q
      <4> QED
        BY <1>3, <1>4, <1>5, <2>1, <2>7, <4>2, <4>3
    <3>3. EncKept(e) /\ EncShape(e) /\ Alike(e, enc) /\ e.dst = enc.dst \o << 0 >>
          /\ Len(e.dst) = o + 1
      <4> DEFINE z == << 0 >>
      <4>1. z \in Seq(Byte) /\ Len(z) = 1
        BY DEF Byte, Below
      <4> HIDE DEF z
      <4>2. Len(enc.dst) + Len(z) <= olimit
        BY <1>3, <3>2, <4>1
      <4> DEFINE x == Emit(enc, z)
      <4>3. EncKept(x) /\ EncShape(x) /\ Alike(x, enc) /\ x.dst = enc.dst \o z
            /\ Len(x.dst) = Len(enc.dst) + Len(z)
        BY <1>1, <4>1, <4>2, EmitKept
      <4>4. e = x
        BY DEF z
      <4> HIDE DEF x, e
      <4> QED
        BY <1>3, <4>1, <4>3, <4>4 DEF z
    <3> HIDE DEF e
    <3>4. /\ EncShape(f) /\ f.pc = "_next_match" /\ f.token = o /\ f.match = m /\ f.ip = e.ip
          /\ f.anchor = e.anchor /\ f.dst = e.dst /\ f.filledIp = e.filledIp
          /\ f.wrote = e.wrote /\ f.fetched = e.fetched
      BY <3>3 DEF EncShape, EncFields
    <3> HIDE DEF f
    <3>5. f.ip = i /\ f.anchor = i /\ f.filledIp = enc.filledIp /\ Len(f.dst) = o + 1
      BY <1>4, <3>3, <3>4 DEF Alike, i
    <3>6. EncKept(f)
      BY <3>3, <3>4 DEF EncKept, EncShape
    <3>7. Ahead(f, f.ip, 495) /\ Spare(f, 5)
      <4> DEFINE l == Len(f.dst)
      <4>1. l = o + 1
        BY <3>5
      <4> HIDE DEF l
      <4>2. call.outputDirective = "notLimited" => 255 * l <= 256 * i + 495
        BY <1>4, <1>5, <2>7, <4>1
      <4>3. call.outputDirective # "notLimited" => l + 5 <= olimit
        BY <1>3, <1>5, <2>7, <4>1
      <4> QED
        BY <3>5, <4>2, <4>3 DEF Ahead, Spare, l
    <3>8. Matching(f)
      BY <1>3, <1>4, <2>1, <2>4, <2>5, <2>8, <3>4, <3>5 DEF Matching, MFLIMIT
    <3>9. Reaches(c, f)
      BY <2>6, <3>5 DEF Reaches
    <3>10. f.token \in Nat /\ f.token < Len(f.dst)
      BY <1>5, <3>4, <3>5
    <3>11. \E high \in 0 .. 15 : f.dst[f.token + 1] = 16 * high
      <4>1. f.dst[o + 1] = 0
        BY <1>3, <3>3, <3>4
      <4>2. 0 \in 0 .. 15 /\ 16 * 0 = 0
        OBVIOUS
      <4> QED
        BY <3>4, <4>1, <4>2
    <3>12. AtMatch(c, f)
      BY <3>7, <3>8, <3>9, <3>10, <3>11 DEF AtMatch
    <3>13. Running(c, f)
      <4>1. Running(ctx, enc)
        BY <1>1
      <4>2. FillOutput => Len(f.dst) < olimit
        BY <1>3, <1>5, <2>7, <3>5 DEF FillOutput
      <4>3. f.anchor = enc.anchor
        BY <1>4, <3>5
      <4> QED
        BY <2>6, <4>1, <4>2, <4>3 DEF Running
    <3> QED
      BY <1>1, <2>6, <3>1, <3>4, <3>6, <3>12, <3>13 DEF EncoderAt
  <2>9. CASE ~Matches(m, i)
    <3>1. ctx' = c /\ enc' = g
      BY <1>2, <1>7, <2>9
    <3>2. nb \in Nat /\ nb >= 64
      <4>1. call.acceleration >= 1
        BY <1>1 DEF Running
      <4> QED
        BY <1>3, <4>1 DEF LZ4_skipTrigger
    <3> HIDE DEF nb, nh
    <3>3. /\ EncShape(g) /\ g.pc = "search" /\ g.forwardIp = i + 1 /\ g.step = 1
          /\ g.searchMatchNb = nb /\ g.forwardH = nh /\ g.anchor = enc.anchor
          /\ g.dst = enc.dst /\ g.wrote = enc.wrote /\ g.fetched = enc.fetched
      BY <1>1 DEF EncShape, EncFields
    <3> HIDE DEF g
    <3>4. EncKept(g) /\ Running(c, g)
      BY <1>1, <2>6, <3>3 DEF EncKept, EncShape, Running
    <3>5. Ahead(g, g.anchor, 0)
      <4>1. Ahead(enc, i, 0)
        BY <1>1, <1>4 DEF AtNext, i
      <4> QED
        BY <1>4, <3>3, <4>1 DEF Ahead
    <3>6. g.forwardIp \in Nat /\ g.anchor < g.forwardIp /\ g.forwardIp <= mflimitPlusOne
          /\ g.step \in Nat /\ g.step >= 1
      BY <1>3, <1>4, <2>1, <3>3, SMTT(30)
    <3>7. Searching(c, g)
      BY <2>6, <3>2, <3>3, <3>5, <3>6 DEF Searching, nh
    <3> QED
      BY <1>1, <2>6, <3>1, <3>3, <3>4, <3>7 DEF EncoderAt
  <2> QED
    BY <2>8, <2>9
<1> QED
  BY <1>1, <1>6, <1>7

(* Every step of the compressor keeps its invariant.                       *)
LEMMA EncoderStepKeeps ==
  ASSUME Hashing, EncoderInv, EncoderStep
  PROVE  EncoderInv'
<1>1. EncoderAt(ctx', enc') /\ call' = call
  BY SearchEndsKeeps, ProbeKeeps, EncodeLiteralsKeeps, EncodeMatchKeeps, NextPositionKeeps,
     LastLiteralsKeeps DEF EncoderStep
<1> QED
  BY <1>1, EncPrime DEF EncoderInv

-----------------------------------------------------------------------------
(* The encoder: its calls.                                                 *)

(* The arguments go with the state that the call starts from.              *)
Fits(c, a) ==
  /\ a \in [src : Seq(Byte), dstCapacity : Nat, outputDirective : Directives,
            dictSmall : BOOLEAN, startIndex : Nat, acceleration : Nat, destSize : BOOLEAN]
  /\ a.dictSmall <=> a.startIndex # 0
  /\ a.outputDirective = "notLimited" => a.dstCapacity >= LZ4_compressBound(Len(a.src))
  /\ a.startIndex + Len(a.src) <= IndexLimit + MFLIMIT - 1
  /\ a.startIndex = c.currentOffset /\ a.acceleration >= 1

(* The empty byte string.                                                  *)
LEMMA EmptyIs == <<>> \in Seq(Byte) /\ Len(<<>>) = 0
OBVIOUS

(* Before its first call the compressor has written nothing.               *)
LEMMA NoLocalsKept ==
  /\ EncShape(NoLocals) /\ NoLocals.pc = "returned" /\ NoLocals.dst = <<>>
  /\ NoLocals.wrote = 0 /\ NoLocals.fetched = 0 /\ NoLocals.anchor = 0
  /\ NoLocals.result = 0 /\ NoLocals.consumed = 0
BY DEF NoLocals, EncShape, EncFields

(* A compressor that was just called is within bounds.                     *)
LEMMA StartedKept ==
  ASSUME NEW f, EncShape(f), f.dst \in Seq(Byte), f.wrote \in Nat, f.wrote <= olimit',
         f.fetched = 0, enc' = f, iend' \in Nat, olimit' \in Nat
  PROVE  EncKept(enc)'
<1>1. (enc = [x \in EncFields |-> enc[x]])'
  BY DEF EncShape
<1>2. enc'.dst \in Seq(Byte) /\ enc'.wrote \in Nat /\ enc'.wrote <= olimit'
  OBVIOUS
<1>3. enc'.fetched \in Nat /\ enc'.fetched <= iend'
  OBVIOUS
<1> QED
  BY <1>1, <1>2, <1>3 DEF EncKept

(* A call that returned with an error, or with all its input used, is at   *)
(* its return.                                                             *)
LEMMA StoppedAt ==
  ASSUME NEW f, f.pc = "returned", f.result <= 0 \/ f.consumed >= iend', enc' = f,
         f.result \in Int, f.consumed \in Int, iend' \in Nat
  PROVE  (enc.pc = "returned" /\ AtReturn(enc))'
<1>1. enc'.pc = "returned" /\ ~(enc'.result > 0 /\ enc'.consumed < iend')
  OBVIOUS
<1> QED
  BY <1>1 DEF AtReturn

(* A compressor at its return, with a sound table, satisfies the invariant.*)
LEMMA ReturnedAt ==
  ASSUME CtxOK(ctx)', EncKept(enc)', (enc.pc = "returned" /\ AtReturn(enc))'
  PROVE  EncoderAt(ctx, enc)'
BY DEF EncoderAt

(* Nothing to compress, or no room at all.                                 *)
LEMMA EmptyCallKeeps ==
  ASSUME NEW c, CtxOK(c), NEW a, Fits(c, a), call' = a, ctx' = c, Len(a.src) = 0,
         NEW e, enc' = e,
         e = IF a.outputDirective # "notLimited" /\ a.dstCapacity <= 0
             THEN NoLocals
             ELSE [Emit(NoLocals, << 0 >>) EXCEPT !.result = 1]
  PROVE  EncoderAt(ctx, enc)'
<1>1. a.dstCapacity \in Nat /\ iend' = 0 /\ olimit' = a.dstCapacity
  BY DEF Fits, iend, olimit
<1>2. CtxOK(ctx)'
  BY DEF CtxOK
<1>3. CASE a.outputDirective # "notLimited" /\ a.dstCapacity <= 0
  <2>2. /\ EncShape(e) /\ e.pc = "returned" /\ e.dst \in Seq(Byte) /\ e.wrote = 0
        /\ e.fetched = 0 /\ e.result = 0 /\ e.consumed = 0
    <3>1. e = NoLocals
      BY <1>3
    <3> QED
      BY <3>1, NoLocalsKept, EmptyIs
  <2>3. EncKept(enc)'
    <3>1. e.wrote \in Nat /\ e.wrote <= olimit' /\ olimit' \in Nat /\ iend' \in Nat
      BY <1>1, <2>2
    <3> QED
      BY <2>2, <3>1, StartedKept
  <2>4. (enc.pc = "returned" /\ AtReturn(enc))'
    BY <1>1, <2>2, StoppedAt
  <2> QED
    BY <1>2, <2>3, <2>4, ReturnedAt
<1>4. CASE ~(a.outputDirective # "notLimited" /\ a.dstCapacity <= 0)
  <2> DEFINE z == << 0 >>
             w == Max({0, 0 + 1})
             f == [NoLocals EXCEPT !.dst = z, !.wrote = w, !.result = 1]
  <2>1. a.dstCapacity >= 1
    <3>1. a.outputDirective = "notLimited" => a.dstCapacity >= 16
      BY DEF Fits, LZ4_compressBound
    <3> QED
      BY <1>1, <1>4, <3>1
  <2>2. w = 1
    <3>1. 0 \in Int /\ 0 + 1 \in Int /\ 0 + 1 = 1
      OBVIOUS
    <3>2. 0 + 1 <= w /\ (w = 0 \/ w = 0 + 1)
      BY <3>1, MaxOfTwo
    <3> HIDE DEF w
    <3> QED
      BY <3>1, <3>2
  <2>3. z \in Seq(Byte) /\ Len(z) = 1
    BY DEF Byte, Below
  <2>4. e = f
    <3>1. <<>> \o z = z /\ Len(<<>>) = 0
      OBVIOUS
    <3>2. Emit(NoLocals, z) = [NoLocals EXCEPT !.dst = z, !.wrote = w]
      <4>1. Emit(NoLocals, z) = [NoLocals EXCEPT !.dst = <<>> \o z, !.wrote = Max({0, Len(<<>>) + Len(z)})]
        BY NoLocalsKept DEF Emit, NoLocals
      <4> QED
        BY <2>3, <3>1, <4>1
    <3>3. e = [Emit(NoLocals, z) EXCEPT !.result = 1]
      BY <1>4
    <3> HIDE DEF z, w
    <3> QED
      BY <3>2, <3>3 DEF NoLocals
  <2> HIDE DEF w, z
  <2>5. EncShape(f) /\ f.pc = "returned" /\ f.dst = z /\ f.wrote = w /\ f.fetched = 0
        /\ f.consumed = 0 /\ f.result = 1
    BY NoLocalsKept DEF EncShape, EncFields
  <2> HIDE DEF f
  <2>6. EncKept(enc)'
    BY <1>1, <2>1, <2>2, <2>3, <2>4, <2>5, StartedKept
  <2>7. (enc.pc = "returned" /\ AtReturn(enc))'
    BY <1>1, <2>4, <2>5, StoppedAt
  <2> QED
    BY <1>2, <2>6, <2>7, ReturnedAt
<1> QED
  BY <1>3, <1>4

(* The call without room for one byte.                                     *)
LEMMA NoRoomCallKeeps ==
  ASSUME NEW c, CtxOK(c), NEW a, Fits(c, a), call' = a, ctx' = c,
         NEW f, enc' = f, f = [NoLocals EXCEPT !.consumed = Len(a.src)]
  PROVE  EncoderAt(ctx, enc)'
<1>1. a.dstCapacity \in Nat /\ iend' = Len(a.src) /\ olimit' = a.dstCapacity /\ Len(a.src) \in Nat
  BY DEF Fits, iend, olimit
<1>2. CtxOK(ctx)'
  BY DEF CtxOK
<1>3. EncShape(f) /\ f.pc = "returned" /\ f.dst = <<>> /\ f.wrote = 0 /\ f.fetched = 0
      /\ f.result = 0 /\ f.consumed = Len(a.src)
  BY NoLocalsKept DEF EncShape, EncFields
<1>4. f.dst \in Seq(Byte)
  BY <1>3, EmptyIs
<1>7. /\ f.wrote \in Nat /\ f.wrote <= olimit' /\ olimit' \in Nat /\ iend' \in Nat
      /\ f.result <= 0 /\ f.result \in Int /\ f.consumed \in Int
  BY <1>1, <1>3
<1>5. EncKept(enc)'
  BY <1>3, <1>4, <1>7, StartedKept
<1>6. (enc.pc = "returned" /\ AtReturn(enc))'
  BY <1>3, <1>7, StoppedAt
<1> QED
  BY <1>2, <1>5, <1>6, ReturnedAt

(* The first position enters the table, or the source is too short for it. *)
LEMMA StartKeeps ==
  ASSUME Hashing, NEW c, CtxOK(c), NEW a, Fits(c, a), call' = a, Len(a.src) # 0,
         ~(a.outputDirective = "fillOutput" /\ a.dstCapacity < 1),
         LZ4_compress_generic(c, a)
  PROVE  EncoderAt(ctx, enc)'
<1> DEFINE n == Len(a.src)
           s == a.startIndex
           used == [c EXCEPT !.currentOffset = @ + n, !.clearedTable = FALSE]
<1>1. /\ a.dstCapacity \in Nat /\ a.src \in Seq(Byte) /\ n \in Nat /\ n > 0
      /\ s \in Nat /\ a.acceleration \in Nat /\ a.acceleration >= 1 /\ s = c.currentOffset
      /\ iend' = n /\ olimit' = a.dstCapacity
  BY DEF Fits, iend, olimit
<1>2. IF n < LZ4_minLength
      THEN ctx' = used /\ enc' = [NoLocals EXCEPT !.pc = "last_literals"]
      ELSE /\ ctx' = [used EXCEPT !.hashTable[LZ4_hash4(SubSeq(a.src, 1, 4))]
                                    = a.startIndex % (IndexLimit + 1)]
           /\ enc' = [NoLocals EXCEPT
                        !.pc = "search", !.ip = 1, !.forwardIp = 1,
                        !.forwardH = LZ4_hash4(SubSeq(a.src, 2, 5)),
                        !.searchMatchNb = a.acceleration * LZ4_skipTrigger]
  BY DEF LZ4_compress_generic
<1>3. /\ c = [hashTable |-> c.hashTable, currentOffset |-> c.currentOffset,
              clearedTable |-> c.clearedTable]
      /\ c.hashTable \in [Slots -> Nat] /\ c.currentOffset \in Nat
      /\ \A g \in Slots : c.hashTable[g] <= c.currentOffset
  BY DEF CtxOK
<1>4. used = [hashTable |-> c.hashTable, currentOffset |-> s + n, clearedTable |-> FALSE]
  <2> DEFINE k == s + n
  <2>1. used = [c EXCEPT !.currentOffset = k, !.clearedTable = FALSE]
    BY <1>1, <1>3
  <2> HIDE DEF k, used
  <2>2. used = [hashTable |-> c.hashTable, currentOffset |-> k, clearedTable |-> FALSE]
    BY <1>3, <2>1
  <2> QED
    BY <2>2 DEF k
<1>5. FillOutput' => 0 < olimit'
  BY <1>1 DEF FillOutput
<1> HIDE DEF n, s, used
<1>6. CASE n < LZ4_minLength
  <2> DEFINE f == [NoLocals EXCEPT !.pc = "last_literals"]
  <2>1. ctx' = used /\ enc' = f
    BY <1>2, <1>6
  <2>2. EncShape(f) /\ f.pc = "last_literals" /\ f.dst = <<>> /\ f.wrote = 0 /\ f.fetched = 0
        /\ f.anchor = 0
    BY NoLocalsKept DEF EncShape, EncFields
  <2> HIDE DEF f
  <2>3. CtxOK(ctx)'
    <3>1. \A g \in Slots : c.hashTable[g] <= s + n
      BY <1>1, <1>3
    <3>2. CtxOK(used)
      BY <1>1, <1>3, <1>4, <3>1 DEF CtxOK
    <3> QED
      BY <2>1, <3>2 DEF CtxOK
  <2>4. EncKept(enc)'
    <3>1. /\ f.wrote \in Nat /\ f.wrote <= olimit' /\ olimit' \in Nat /\ iend' \in Nat
          /\ f.dst \in Seq(Byte)
      BY <1>1, <2>2, EmptyIs
    <3> QED
      BY <2>1, <2>2, <3>1, StartedKept
  <2>5. Running(ctx, enc)'
    <3>1. ctx'.currentOffset = call'.startIndex + iend'
      BY <1>1, <1>4, <2>1 DEF s
    <3>2. enc'.anchor = 0 /\ Len(enc'.dst) = 0
      BY <2>1, <2>2
    <3> QED
      BY <1>1, <1>5, <3>1, <3>2 DEF Running
  <2>6. Ahead(enc, enc.anchor, 0)'
    BY <2>1, <2>2 DEF Ahead
  <2> QED
    BY <2>1, <2>2, <2>3, <2>4, <2>5, <2>6 DEF EncoderAt
<1>7. CASE ~(n < LZ4_minLength)
  <2> DEFINE h1 == LZ4_hash4(SubSeq(a.src, 1, 4))
             h2 == LZ4_hash4(SubSeq(a.src, 2, 5))
             nb == a.acceleration * LZ4_skipTrigger
             v == s % (IndexLimit + 1)
             t == [c.hashTable EXCEPT ![h1] = v]
             f == [NoLocals EXCEPT !.pc = "search", !.ip = 1, !.forwardIp = 1,
                                   !.forwardH = h2, !.searchMatchNb = nb]
  <2>1. n >= 13
    BY <1>1, <1>7 DEF LZ4_minLength, MFLIMIT
  <2>2. h1 \in Slots /\ h2 = LZ4_hashPosition(1)'
    <3>1. SubSeq(a.src, 1, 4) = <<a.src[1], a.src[2], a.src[3], a.src[4]>>
      <4>1. 0 \in Nat /\ 0 + 4 <= Len(a.src)
        BY <1>1, <2>1 DEF n
      <4>2. SubSeq(a.src, 0 + 1, 0 + 4) = <<a.src[0 + 1], a.src[0 + 2], a.src[0 + 3], a.src[0 + 4]>>
        BY <1>1, <4>1, FourAre
      <4> QED
        BY <4>2
    <3>2. SubSeq(a.src, 2, 5) = <<a.src[2], a.src[3], a.src[4], a.src[5]>>
      <4>1. 1 \in Nat /\ 1 + 4 <= Len(a.src)
        BY <1>1, <2>1 DEF n
      <4>2. SubSeq(a.src, 1 + 1, 1 + 4) = <<a.src[1 + 1], a.src[1 + 2], a.src[1 + 3], a.src[1 + 4]>>
        BY <1>1, <4>1, FourAre
      <4> QED
        BY <4>2
    <3>3. a.src[1] \in Byte /\ a.src[2] \in Byte /\ a.src[3] \in Byte /\ a.src[4] \in Byte
      <4>1. 1 \in 1 .. Len(a.src) /\ 2 \in 1 .. Len(a.src) /\ 3 \in 1 .. Len(a.src)
            /\ 4 \in 1 .. Len(a.src)
        BY <1>1, <2>1 DEF n
      <4> QED
        BY <1>1, <4>1
    <3>4. h1 \in Slots
      BY <3>1, <3>3 DEF Hashing
    <3>5. Four(1)' = <<a.src[2], a.src[3], a.src[4], a.src[5]>>
      BY DEF Four, At
    <3>6. LZ4_hashPosition(1)' = LZ4_hash4(Four(1)')
      BY DEF LZ4_hashPosition
    <3> QED
      BY <3>2, <3>4, <3>5, <3>6
  <2>3. v \in Nat /\ v <= s
    <3>1. IndexLimit + 1 \in Nat /\ IndexLimit + 1 > 0
      BY EncoderAssumption
    <3> DEFINE k == IndexLimit + 1
    <3> HIDE DEF k
    <3>2. k \in Nat /\ k > 0 /\ s \in Nat
      BY <1>1, <3>1 DEF k
    <3>3. s % k \in Nat /\ s % k <= s
      <4> DEFINE d == s \div k
                 m == s % k
      <4>1. d \in Int /\ m \in Int /\ s = k * d + m /\ 0 <= m /\ m < k
        BY <3>2
      <4> HIDE DEF d, m
      <4>2. d >= 0
        <5>1. ASSUME d <= -1 PROVE FALSE
          <6>1. k * d <= k * (-1)
            BY <3>2, <4>1, <5>1
          <6> QED
            BY <3>2, <4>1, <6>1
        <5> QED
          BY <4>1, <5>1
      <4>3. k * d >= 0
        BY <3>2, <4>1, <4>2
      <4>4. m \in Nat /\ m <= s
        BY <3>2, <4>1, <4>3
      <4> QED
        BY <4>4 DEF m
    <3> QED
      BY <3>3 DEF k
  <2>4. nb \in Nat /\ nb >= 64
    BY <1>1 DEF LZ4_skipTrigger
  <2>5. ctx' = [used EXCEPT !.hashTable[h1] = v] /\ enc' = f
    BY <1>2, <1>7 DEF s
  <2> HIDE DEF h1, h2, nb, v
  <2>6. /\ t \in [Slots -> Nat]
        /\ \A g \in Slots : t[g] = IF g = h1 THEN v ELSE c.hashTable[g]
    BY <1>3, <2>2, <2>3
  <2>7. ctx' = [hashTable |-> t, currentOffset |-> s + n, clearedTable |-> FALSE]
    BY <1>4, <2>5
  <2> HIDE DEF t
  <2>8. ctx'.hashTable = t /\ ctx'.currentOffset = s + n /\ ctx'.clearedTable = FALSE
    BY <2>7
  <2>9. \A g \in Slots : t[g] \in Nat /\ t[g] <= s /\ t[g] <= s + n
    <3> SUFFICES ASSUME NEW g \in Slots PROVE t[g] \in Nat /\ t[g] <= s /\ t[g] <= s + n
      OBVIOUS
    <3>1. t[g] = v \/ t[g] = c.hashTable[g]
      BY <2>6
    <3>2. c.hashTable[g] \in Nat /\ c.hashTable[g] <= s
      BY <1>1, <1>3
    <3>3. t[g] \in Nat /\ t[g] <= s
      BY <2>3, <3>1, <3>2
    <3> QED
      BY <1>1, <3>3
  <2>10. CtxOK(ctx)'
    BY <1>1, <2>6, <2>7, <2>8, <2>9 DEF CtxOK
  <2>11. /\ EncShape(f) /\ f.pc = "search" /\ f.forwardIp = 1 /\ f.forwardH = h2
         /\ f.searchMatchNb = nb /\ f.step = 1 /\ f.anchor = 0
         /\ f.dst = <<>> /\ f.wrote = 0 /\ f.fetched = 0
    BY DEF NoLocals, EncShape, EncFields
  <2> HIDE DEF f
  <2>12. EncKept(enc)'
    <3>1. /\ f.wrote \in Nat /\ f.wrote <= olimit' /\ olimit' \in Nat /\ iend' \in Nat
          /\ f.dst \in Seq(Byte)
      BY <1>1, <2>11, EmptyIs
    <3> QED
      BY <2>5, <2>11, <3>1, StartedKept
  <2>13. Running(ctx, enc)'
    <3>1. ctx'.currentOffset = call'.startIndex + iend'
      BY <1>1, <2>8 DEF s
    <3>2. enc'.anchor = 0 /\ Len(enc'.dst) = 0
      BY <2>5, <2>11
    <3> QED
      BY <1>1, <1>5, <3>1, <3>2 DEF Running
  <2>14. EntriesBefore(ctx, 1)'
    <3>1. ASSUME NEW g \in Slots PROVE Candidate(ctx, g)' < 1 /\ ~(Candidate(ctx, g)' > 0)
      <4>1. Candidate(ctx, g)' = t[g] - s
        BY <2>8 DEF Candidate, s
      <4>2. t[g] \in Nat /\ t[g] <= s
        BY <2>9
      <4> QED
        BY <1>1, <4>1, <4>2
    <3> QED
      BY <3>1 DEF EntriesBefore
  <2>15. Searching(ctx, enc)'
    <3>1. Ahead(enc, enc.anchor, 0)'
      BY <2>5, <2>11 DEF Ahead
    <3>2. mflimitPlusOne' = n - 11
      BY <1>1 DEF mflimitPlusOne, MFLIMIT
    <3>3. /\ enc'.forwardIp \in Nat /\ enc'.anchor < enc'.forwardIp
          /\ enc'.forwardIp <= mflimitPlusOne' /\ enc'.step \in Nat /\ enc'.step >= 1
          /\ enc'.searchMatchNb \in Nat /\ enc'.searchMatchNb >= 64
      BY <1>1, <2>1, <2>4, <2>5, <2>11, <3>2
    <3>4. enc'.forwardIp = 1 /\ enc'.forwardH = h2
      BY <2>5, <2>11
    <3>5. (enc.forwardH = LZ4_hashPosition(enc.forwardIp))'
      BY <2>2, <3>4 DEF LZ4_hashPosition, Four, At
    <3>6. EntriesBefore(ctx, enc.forwardIp)'
      BY <2>14, <3>4 DEF EntriesBefore
    <3> QED
      BY <3>1, <3>3, <3>5, <3>6 DEF Searching
  <2> QED
    BY <2>5, <2>10, <2>11, <2>12, <2>13, <2>15 DEF EncoderAt
<1> QED
  BY <1>6, <1>7

(* LZ4_compress_generic establishes the invariant whatever its arguments.  *)
LEMMA GenericKeeps ==
  ASSUME Hashing, NEW c, CtxOK(c), NEW a, Fits(c, a), LZ4_compress_generic(c, a)
  PROVE  EncoderInv'
<1>1. call' = a
  BY DEF LZ4_compress_generic
<1>2. CallOK'
  BY <1>1 DEF Fits, CallOK, iend, olimit
<1>3. CASE Len(a.src) = 0
  <2>1. /\ ctx' = c
        /\ enc' = IF a.outputDirective # "notLimited" /\ a.dstCapacity <= 0
                  THEN NoLocals
                  ELSE [Emit(NoLocals, << 0 >>) EXCEPT !.result = 1]
    BY <1>3 DEF LZ4_compress_generic
  <2>2. EncoderAt(ctx, enc)'
    BY <1>1, <1>3, <2>1, EmptyCallKeeps
  <2> QED
    BY <1>2, <2>2 DEF EncoderInv
<1>4. CASE Len(a.src) # 0 /\ a.outputDirective = "fillOutput" /\ a.dstCapacity < 1
  <2>1. ctx' = c /\ enc' = [NoLocals EXCEPT !.consumed = Len(a.src)]
    BY <1>4 DEF LZ4_compress_generic
  <2>2. EncoderAt(ctx, enc)'
    BY <1>1, <2>1, NoRoomCallKeeps
  <2> QED
    BY <1>2, <2>2 DEF EncoderInv
<1>5. CASE Len(a.src) # 0 /\ ~(a.outputDirective = "fillOutput" /\ a.dstCapacity < 1)
  <2>1. EncoderAt(ctx, enc)'
    BY <1>1, <1>5, StartKeeps
  <2> QED
    BY <1>2, <2>1 DEF EncoderInv
<1> QED
  BY <1>3, <1>4, <1>5

(* The acceleration that is used is positive.                              *)
LEMMA ClampIs ==
  ASSUME NEW n \in Int
  PROVE  Clamp(n) \in Nat /\ Clamp(n) >= 1
<1>1. PICK low \in Int : low = 1
  OBVIOUS
<1>2. PICK high \in Int : high = 65537
  OBVIOUS
<1> DEFINE m == Max({n, low})
           k == Min({m, high})
<1>3. m \in Int /\ low <= m
  BY MaxOfTwo
<1> HIDE DEF m
<1>4. k \in Int /\ (k = m \/ k = high)
  BY <1>3, MinOfTwo
<1> HIDE DEF k
<1>5. k \in Nat /\ k >= 1
  BY <1>1, <1>2, <1>3, <1>4
<1> QED
  BY <1>1, <1>2, <1>5 DEF Clamp, k, m

(* The arguments of a call fit the table it is given.                      *)
LEMMA ArgumentsFit ==
  ASSUME NEW src \in Seq(Byte), NEW cap \in Nat, NEW limited \in {"limitedOutput", "fillOutput"},
         NEW c, CtxOK(c), NEW acc \in Int, c.currentOffset + Len(src) <= IndexLimit + MFLIMIT - 1
  PROVE  LET a == Arguments(src, cap, limited, c, acc)
         IN  Fits(c, a) /\ a.outputDirective \in {"notLimited", limited}
<1> DEFINE a == Arguments(src, cap, limited, c, acc)
           d == IF cap >= LZ4_compressBound(Len(src)) THEN "notLimited" ELSE limited
           k == Clamp(acc)
           s == c.currentOffset
           small == c.currentOffset # 0
<1>1. k \in Nat /\ k >= 1
  BY ClampIs
<1>2. s \in Nat
  BY DEF CtxOK
<1>3. d \in Directives /\ d \in {"notLimited", limited}
      /\ (d = "notLimited" => cap >= LZ4_compressBound(Len(src)))
  BY DEF Directives
<1>4. a = [src |-> src, dstCapacity |-> cap, outputDirective |-> d, dictSmall |-> small,
           startIndex |-> s, acceleration |-> k, destSize |-> FALSE]
  BY DEF Arguments
<1>5. small \in BOOLEAN /\ (small <=> s # 0)
  OBVIOUS
<1> HIDE DEF d, k, small, a
<1>6. /\ a.src = src /\ a.dstCapacity = cap /\ a.outputDirective = d /\ a.dictSmall = small
      /\ a.startIndex = s /\ a.acceleration = k /\ a.destSize = FALSE
  BY <1>4
<1>7. a \in [src : Seq(Byte), dstCapacity : Nat, outputDirective : Directives,
             dictSmall : BOOLEAN, startIndex : Nat, acceleration : Nat, destSize : BOOLEAN]
  BY <1>1, <1>2, <1>3, <1>4, <1>5
<1>8. Fits(c, a)
  BY <1>1, <1>3, <1>5, <1>6, <1>7 DEF Fits
<1> QED
  BY <1>3, <1>6, <1>8 DEF a

(* A source that LZ4_64Klimit lets through fits behind what is in the      *)
(* table that LZ4_prepareTable leaves.                                     *)
LEMMA PreparedIs ==
  ASSUME NEW n \in Nat, n <= IndexLimit + MFLIMIT - 1, CtxOK(ctx)
  PROVE  LET c == LZ4_prepareTable(ctx, n)
         IN  CtxOK(c) /\ c.currentOffset + n <= IndexLimit + MFLIMIT - 1
<1> DEFINE c == LZ4_prepareTable(ctx, n)
<1>1. IndexLimit \in Nat /\ MFLIMIT = 12 /\ ctx.currentOffset \in Nat
      /\ (ctx.clearedTable => ctx.currentOffset = 0) /\ ctx.clearedTable \in BOOLEAN
  <2>1. ctx.currentOffset \in Nat /\ (ctx.clearedTable => ctx.currentOffset = 0)
        /\ ctx.clearedTable \in BOOLEAN
    BY DEF CtxOK
  <2>2. IndexLimit \in Nat
    BY EncoderAssumption
  <2> QED
    BY <2>1, <2>2 DEF MFLIMIT
<1>2. CASE c = ClearedState
  <2>1. CtxOK(c) /\ c.currentOffset = 0
    BY <1>2, ClearedOK
  <2> HIDE DEF c
  <2> QED
    BY <1>1, <2>1 DEF c
<1>3. CASE c # ClearedState
  <2>1. c = ctx /\ ~(~ctx.clearedTable /\ (ctx.currentOffset + n >= IndexLimit \/ n >= ReuseLimit))
    BY <1>3 DEF LZ4_prepareTable
  <2>2. CASE ctx.clearedTable
    <3>1. ctx.currentOffset + n <= IndexLimit + MFLIMIT - 1
      BY <1>1, <2>2
    <3> HIDE DEF c
    <3> QED
      BY <2>1, <3>1 DEF c
  <2>3. CASE ~ctx.clearedTable
    <3>1. ~(ctx.currentOffset + n >= IndexLimit)
      BY <2>1, <2>3
    <3>2. ctx.currentOffset + n <= IndexLimit + MFLIMIT - 1
      BY <1>1, <3>1
    <3> HIDE DEF c
    <3> QED
      BY <2>1, <3>2 DEF c
  <2> QED
    BY <2>2, <2>3
<1> QED
  BY <1>2, <1>3

(* What a request of the script holds.                                     *)
LEMMA RequestIs ==
  ASSUME script \in Seq(Requests), script # <<>>
  PROVE  LET r == script[1]
         IN  /\ r.src \in Seq(Byte) /\ r.cap \in Nat /\ r.acc \in Int
             /\ Len(r.src) \in Nat /\ Len(r.src) <= IndexLimit + MFLIMIT - 1
             /\ r.fn = "destSize" => r.acc >= 1
             /\ Tail(script) \in Seq(Requests)
<1> DEFINE r == script[1]
<1>1. r \in Requests /\ Tail(script) \in Seq(Requests)
  <2> DEFINE R == Requests
  <2> HIDE DEF R
  <2>1. script \in Seq(R) /\ script # <<>> => script[1] \in R /\ Tail(script) \in Seq(R)
    OBVIOUS
  <2> QED
    BY <2>1 DEF R
<1> HIDE DEF r
<1>2. r.src \in Seq(Byte) /\ r.cap \in Nat /\ r.acc \in Int
      /\ Len(r.src) <= IndexLimit + MFLIMIT - 1 /\ (r.fn = "destSize" => r.acc >= 1)
  BY <1>1 DEF Requests
<1> QED
  BY <1>1, <1>2 DEF r

(* Every length that the model allows fits a cleared table.                *)
LEMMA ClearedFits ==
  ASSUME NEW n \in Nat, n <= IndexLimit + MFLIMIT - 1
  PROVE  ClearedState.currentOffset + n <= IndexLimit + MFLIMIT - 1
<1>1. ClearedState.currentOffset = 0
  BY ClearedOK
<1>2. 0 + n = n
  OBVIOUS
<1> QED
  BY <1>1, <1>2

(* The three entry points establish the invariant.                         *)
LEMMA CallsKeep ==
  ASSUME Hashing, EncoderInv, script \in Seq(Requests),
         CompressFast \/ CompressFastReset \/ CompressDestSize
  PROVE  EncoderInv' /\ script' \in Seq(Requests)
<1> DEFINE src == script[1].src
           cap == script[1].cap
           acc == script[1].acc
<1>1. script # <<>> /\ script' = Tail(script) /\ CtxOK(ctx)
  BY DEF CompressFast, CompressFastReset, CompressDestSize, Request, EncoderInv, EncoderAt
<1>2. /\ src \in Seq(Byte) /\ cap \in Nat /\ acc \in Int
      /\ Len(src) \in Nat /\ Len(src) <= IndexLimit + MFLIMIT - 1
      /\ script[1].fn = "destSize" => acc >= 1
      /\ Tail(script) \in Seq(Requests)
  BY <1>1, RequestIs
<1>3. CASE CompressFast
  <2>1. LZ4_compress_generic(ClearedState,
          Arguments(src, cap, "limitedOutput", ClearedState, acc))
    BY <1>3 DEF CompressFast, LZ4_compress_fast_extState
  <2> HIDE DEF src, cap, acc
  <2>2. Fits(ClearedState, Arguments(src, cap, "limitedOutput", ClearedState, acc))
    BY <1>2, ClearedOK, ClearedFits, ArgumentsFit
  <2> QED
    BY <1>1, <1>2, <2>1, <2>2, ClearedOK, GenericKeeps
<1>4. CASE CompressFastReset
  <2> DEFINE c == LZ4_prepareTable(ctx, Len(src))
  <2>1. LZ4_compress_generic(c, Arguments(src, cap, "limitedOutput", c, acc))
    BY <1>4 DEF CompressFastReset, LZ4_compress_fast_extState_fastReset
  <2> HIDE DEF src, cap, acc
  <2>2. CtxOK(c) /\ c.currentOffset + Len(src) <= IndexLimit + MFLIMIT - 1
    BY <1>1, <1>2, PreparedIs
  <2> HIDE DEF c
  <2>3. Fits(c, Arguments(src, cap, "limitedOutput", c, acc))
    BY <1>2, <2>2, ArgumentsFit
  <2> QED
    BY <1>1, <1>2, <2>1, <2>2, <2>3, GenericKeeps
<1>5. CASE CompressDestSize
  <2> DEFINE a == Arguments(src, cap, "fillOutput", ClearedState, acc)
             k == IF a.outputDirective = "fillOutput" THEN acc ELSE a.acceleration
             b == [a EXCEPT !.destSize = TRUE, !.acceleration = k]
  <2>1. LZ4_compress_generic(ClearedState, b) /\ acc >= 1
    <3>1. LZ4_compress_generic(ClearedState,
            [a EXCEPT !.destSize = TRUE,
                      !.acceleration = IF a.outputDirective = "fillOutput" THEN acc ELSE @])
      BY <1>5 DEF CompressDestSize, LZ4_compress_destSize_extState
    <3>2. [a EXCEPT !.destSize = TRUE,
                    !.acceleration = IF a.outputDirective = "fillOutput" THEN acc ELSE @] = b
      BY DEF Arguments
    <3>3. acc >= 1
      BY <1>2, <1>5 DEF CompressDestSize, Request
    <3> QED
      BY <3>1, <3>2, <3>3
  <2> HIDE DEF src, cap, acc
  <2>2. Fits(ClearedState, a)
    BY <1>2, ClearedOK, ClearedFits, ArgumentsFit
  <2> HIDE DEF a
  <2>3. k \in Nat /\ k >= 1
    BY <1>2, <2>1, <2>2 DEF Fits
  <2> HIDE DEF k
  <2>4. /\ b \in [src : Seq(Byte), dstCapacity : Nat, outputDirective : Directives,
                  dictSmall : BOOLEAN, startIndex : Nat, acceleration : Nat,
                  destSize : BOOLEAN]
        /\ b.src = a.src /\ b.dstCapacity = a.dstCapacity /\ b.dictSmall = a.dictSmall
        /\ b.outputDirective = a.outputDirective /\ b.startIndex = a.startIndex
        /\ b.acceleration = k
    <3>1. a \in [src : Seq(Byte), dstCapacity : Nat, outputDirective : Directives,
                 dictSmall : BOOLEAN, startIndex : Nat, acceleration : Nat,
                 destSize : BOOLEAN]
      BY <2>2 DEF Fits
    <3> QED
      BY <2>3, <3>1
  <2> HIDE DEF b
  <2>5. Fits(ClearedState, b)
    BY <2>2, <2>3, <2>4 DEF Fits
  <2> QED
    BY <1>1, <1>2, <2>1, <2>5, ClearedOK, GenericKeeps
<1> QED
  BY <1>3, <1>4, <1>5

(* Handing the output to the decoder keeps the compressor's invariant.     *)
LEMMA HandOverKeeps ==
  ASSUME EncoderInv, HandOver
  PROVE  EncoderInv' /\ given' \in Seq(Byte)
<1>1. ctx' = ClearedState /\ call' = NoCall /\ enc' = NoLocals /\ given' = enc.dst
  BY DEF HandOver
<1>2. given' \in Seq(Byte)
  BY <1>1 DEF EncoderInv, EncoderAt, EncKept
<1>3. iend' = 0 /\ olimit' = 0 /\ call'.startIndex = 0 /\ call' = NoCall
  BY <1>1, EmptyIs DEF iend, olimit, NoCall
<1>4. CallOK'
  <2>1. NoCall \in [src : Seq(Byte), dstCapacity : Nat, outputDirective : Directives,
                    dictSmall : BOOLEAN, startIndex : Nat, acceleration : Nat,
                    destSize : BOOLEAN]
    BY EmptyIs DEF NoCall, Directives
  <2>2. (call.startIndex + iend <= IndexLimit + MFLIMIT - 1)'
    BY <1>3, EncoderAssumption DEF MFLIMIT
  <2>3. (call.dictSmall <=> call.startIndex # 0)'
    BY <1>3 DEF NoCall
  <2>4. ~(iend > 0)'
    BY <1>3
  <2> QED
    BY <1>3, <2>1, <2>2, <2>3, <2>4 DEF CallOK
<1>5. CtxOK(ctx)'
  BY <1>1, ClearedOK DEF CtxOK
<1>6. EncKept(enc)'
  <2>1. /\ NoLocals.dst \in Seq(Byte) /\ NoLocals.wrote \in Nat /\ NoLocals.wrote <= olimit'
        /\ iend' \in Nat /\ olimit' \in Nat
    BY <1>3, NoLocalsKept, EmptyIs
  <2> QED
    BY <1>1, <2>1, NoLocalsKept, StartedKept
<1>7. (enc.pc = "returned" /\ AtReturn(enc))'
  BY <1>1, <1>3, NoLocalsKept, StoppedAt
<1> QED
  BY <1>2, <1>4, <1>5, <1>6, <1>7, ReturnedAt DEF EncoderInv

(* A step of another part keeps the compressor's invariant.                *)
LEMMA EncoderUnchanged ==
  ASSUME EncoderInv, UNCHANGED encoderVars
  PROVE  EncoderInv'
<1>1. EncoderAt(ctx', enc') /\ call' = call
  BY DEF EncoderInv, encoderVars
<1> QED
  BY <1>1, EncPrime DEF EncoderInv

-----------------------------------------------------------------------------
(* The caller.                                                             *)
LEMMA EntryReadyNext ==
  ASSUME NEW size, NEW partial, NEW src
  PROVE  (JobOK /\ job.outputSize = size /\ src = job.src => Ready(Entry(src, size, partial)))'
<1>1. JobOK /\ job.outputSize = size /\ src = job.src => Ready(Entry(src, size, partial))
  BY EntryReady
<1> QED
  BY <1>1, PTL

(* A call of the decoder establishes its invariant.                        *)
LEMMA DecoderCalled ==
  ASSUME NEW src \in Seq(Byte), NEW size \in Nat, NEW partial \in BOOLEAN,
         job' = [src |-> src, outputSize |-> size, partialDecoding |-> partial],
         dec' = Entry(src, size, partial)
  PROVE  DecoderInv'
<1>1. JobOK' /\ job'.outputSize = size /\ job'.src = src
  BY DEF JobOK
<1>2. Ready(Entry(src, size, partial))'
  BY <1>1, EntryReadyNext
<1>3. Ready(dec)'
  BY <1>2 DEF Ready, Within, Shape, Numbers, oend, inputEnd
<1> QED
  BY <1>1, <1>3 DEF DecoderInv

(* The sizes and the strings that a call is tried with.                    *)
LEMMA SizesForIs ==
  ASSUME NEW bytes
  PROVE  SizesFor(bytes) \subseteq Nat /\ BytesLike(bytes) \subseteq Seq(Byte)
BY DEF SizesFor, BytesLike

(* Both entry points of the decoder establish its invariant.               *)
LEMMA DecodingReady ==
  ASSUME given \in Seq(Byte), Decompress \/ DecompressPartial
  PROVE  DecoderInv'
<1>1. CASE Decompress
  <2>1. PICK size \in SizesFor(given), src \in Seq(Byte) : LZ4_decompress_safe(src, size)
    BY <1>1, SizesForIs DEF Decompress
  <2>2. size \in Nat
    BY SizesForIs
  <2> QED
    BY <2>1, <2>2, DecoderCalled DEF LZ4_decompress_safe
<1>2. CASE DecompressPartial
  <2>1. PICK size \in SizesFor(given), src \in Seq(Byte), cap \in Nat :
          LZ4_decompress_safe_partial(src, size, cap)
    <3>1. given \o Trailing \in Seq(Byte)
      <4>1. Trailing \in Seq(Byte)
        BY LibraryAssumption
      <4> QED
        BY <4>1
    <3>2. \A kept \in SizesFor(given) : kept < Len(given) => SubSeq(given, 1, kept) \in Seq(Byte)
      <4> SUFFICES ASSUME NEW kept \in SizesFor(given), kept < Len(given)
                   PROVE  SubSeq(given, 1, kept) \in Seq(Byte)
        OBVIOUS
      <4>1. kept \in Nat
        BY SizesForIs
      <4>2. 1 \in Int /\ kept \in Int /\ \A i \in 1 .. kept : given[i] \in Byte
        BY <4>1
      <4> QED
        BY <4>2, SubSeqProperties
    <3>3. \A size \in SizesFor(given) : size \in Nat /\ size + 1 \in Nat
      BY SizesForIs
    <3> QED
      BY <1>2, <3>1, <3>2, <3>3 DEF DecompressPartial
  <2>2. size \in Nat
    BY SizesForIs
  <2> DEFINE n == Min({size, cap})
  <2>3. n \in Nat
    <3>1. size \in Int /\ cap \in Int
      BY <2>2
    <3>2. n \in Int /\ (n = size \/ n = cap)
      BY <3>1, MinOfTwo
    <3> HIDE DEF n
    <3> QED
      BY <2>2, <3>1, <3>2
  <2>4. /\ job' = [src |-> src, outputSize |-> n, partialDecoding |-> TRUE]
        /\ dec' = Entry(src, n, TRUE)
    BY <2>1 DEF LZ4_decompress_safe_partial
  <2> HIDE DEF n
  <2> QED
    BY <2>3, <2>4, DecoderCalled
<1> QED
  BY <1>1, <1>2

(* The invariant of the library holds at first.                            *)
LEMMA InitHolds == Init => LibraryInv
<1> SUFFICES ASSUME Init PROVE LibraryInv
  OBVIOUS
<1>1. ctx = ClearedState /\ call = NoCall /\ enc = NoLocals /\ job = NoJob /\ dec = Fresh(0)
  BY DEF Init, EncoderInit, DecoderInit
<1>2. script \in Seq(Requests) /\ given \in Seq(Byte)
  <2> DEFINE R == Requests
  <2>1. Scripts \subseteq Seq(R) /\ Blocks \subseteq Seq(Byte)
    BY LibraryAssumption
  <2> HIDE DEF R
  <2>3. <<>> \in Seq(R)
    OBVIOUS
  <2>2. script \in Seq(R) /\ given \in Seq(Byte)
    BY <2>1, <2>3, EmptyIs DEF Init
  <2> QED
    BY <2>2 DEF R
<1>3. iend = 0 /\ olimit = 0
  BY <1>1, EmptyIs DEF iend, olimit, NoCall
<1>4. CallOK
  <2>1. NoCall \in [src : Seq(Byte), dstCapacity : Nat, outputDirective : Directives,
                    dictSmall : BOOLEAN, startIndex : Nat, acceleration : Nat,
                    destSize : BOOLEAN]
    BY EmptyIs DEF NoCall, Directives
  <2>2. call.startIndex = 0 /\ call.dictSmall = FALSE
    BY <1>1 DEF NoCall
  <2>3. 0 + 0 <= IndexLimit + MFLIMIT - 1
    BY EncoderAssumption DEF MFLIMIT
  <2> QED
    BY <1>1, <1>3, <2>1, <2>2, <2>3 DEF CallOK
<1>5. EncKept(enc)
  <2>1. /\ NoLocals.dst \in Seq(Byte) /\ NoLocals.wrote \in Nat /\ NoLocals.wrote <= olimit
        /\ NoLocals.fetched \in Nat /\ NoLocals.fetched <= iend
    BY <1>3, NoLocalsKept, EmptyIs
  <2>2. enc = [x \in EncFields |-> enc[x]]
    BY <1>1, NoLocalsKept DEF EncShape
  <2> QED
    BY <1>1, <2>1, <2>2 DEF EncKept
<1>6. EncoderInv
  <2>1. AtReturn(enc) /\ enc.pc = "returned"
    BY <1>1, NoLocalsKept DEF AtReturn
  <2> QED
    BY <1>1, <1>4, <1>5, <2>1, ClearedOK DEF EncoderInv, EncoderAt
<1>7. JobOK /\ job.outputSize = 0
  BY <1>1, EmptyIs DEF JobOK, NoJob
<1>8. DecoderInv
  <2>1. Within(Fresh(0)) /\ Fresh(0).pc = "returned"
    BY <1>7, FreshIs
  <2> QED
    BY <1>1, <1>7, <2>1 DEF DecoderInv, Ready
<1> QED
  BY <1>2, <1>6, <1>8 DEF LibraryInv

(* Every step keeps the invariant of the library.                          *)
LEMMA NextKeeps ==
  ASSUME Hashing, LibraryInv, [Next]_vars
  PROVE  LibraryInv'
<1>1. script \in Seq(Requests) /\ given \in Seq(Byte) /\ EncoderInv /\ DecoderInv
  BY DEF LibraryInv
<1>2. CASE CompressFast \/ CompressFastReset \/ CompressDestSize
  <2>1. UNCHANGED decoderVars /\ given' = given
    BY <1>2 DEF CompressFast, CompressFastReset, CompressDestSize, Request
  <2> QED
    BY <1>1, <1>2, <2>1, CallsKeep, ReadyUnchanged DEF LibraryInv
<1>3. CASE Compressing
  <2>1. EncoderStep /\ UNCHANGED decoderVars /\ script' = script /\ given' = given
    BY <1>3 DEF Compressing
  <2> QED
    BY <1>1, <2>1, EncoderStepKeeps, ReadyUnchanged DEF LibraryInv
<1>4. CASE HandOver
  <2>1. UNCHANGED decoderVars /\ script' = script
    BY <1>4 DEF HandOver
  <2> QED
    BY <1>1, <1>4, <2>1, HandOverKeeps, ReadyUnchanged DEF LibraryInv
<1>5. CASE Decompress \/ DecompressPartial
  <2>1. UNCHANGED encoderVars /\ script' = script /\ given' = given
    BY <1>5 DEF Decompress, DecompressPartial
  <2> QED
    BY <1>1, <1>5, <2>1, DecodingReady, EncoderUnchanged DEF LibraryInv
<1>6. CASE Decompressing
  <2>1. DecoderStep /\ UNCHANGED encoderVars /\ script' = script /\ given' = given
    BY <1>6 DEF Decompressing
  <2> QED
    BY <1>1, <2>1, DecoderStepReady, EncoderUnchanged DEF LibraryInv
<1>7. CASE UNCHANGED vars
  <2>1. UNCHANGED encoderVars /\ UNCHANGED decoderVars /\ script' = script /\ given' = given
    BY <1>7 DEF vars
  <2> QED
    BY <1>1, <2>1, EncoderUnchanged, ReadyUnchanged DEF LibraryInv
<1> QED
  BY <1>2, <1>3, <1>4, <1>5, <1>6, <1>7 DEF Next

(* The invariant behind the bounds of the encoder and the decoder, for     *)
(* every hash of four bytes, every source below LZ4_64Klimit, every output *)
(* size and every sequence of calls, and for every input of the decoder.   *)
THEOREM LibraryInvariantHolds ==
  ASSUME Hashing
  PROVE  Spec => []LibraryInv
<1>1. LibraryInv /\ [Next]_vars => LibraryInv'
  BY NextKeeps
<1> QED
  BY <1>1, InitHolds, PTL DEF Spec

(* lz4.h: LZ4_compress_fast, its fast reset and LZ4_compress_destSize      *)
(* never write past dst and never read past source, also where the copies  *)
(* move eight bytes at a time and lengths are stored four at a time.       *)
THEOREM EncoderStaysInBounds ==
  ASSUME Hashing
  PROVE  Spec => []EncoderInBounds
<1>1. LibraryInv => EncoderInBounds
  BY DEF LibraryInv, EncoderInv, EncoderAt, EncKept, EncoderInBounds, olimit
<1> QED
  BY <1>1, LibraryInvariantHolds, PTL

(* After any calls on one state, cut matches included, no entry of the     *)
(* table is at or past the position that is searched next.                 *)
THEOREM TableStaysBehind ==
  ASSUME Hashing
  PROVE  Spec => []TableBehind
<1>1. LibraryInv => TableBehind
  BY DEF LibraryInv, EncoderInv, EncoderAt, Searching, AtNext, EntriesBefore, TableBehind
<1> QED
  BY <1>1, LibraryInvariantHolds, PTL

(* LZ4_compress_destSize leaves source out only when dst is full but for   *)
(* one byte.                                                               *)
THEOREM OutputIsFilled ==
  ASSUME Hashing
  PROVE  Spec => []OutputFilled
<1>1. LibraryInv => OutputFilled
  BY DEF LibraryInv, EncoderInv, EncoderAt, AtReturn, OutputFilled, Compressed, olimit
<1> QED
  BY <1>1, LibraryInvariantHolds, PTL

(* LZ4_decompress_safe and LZ4_decompress_safe_partial stay inside both    *)
(* buffers, whatever bytes they are given.                                 *)
THEOREM DecoderStaysInBounds ==
  ASSUME Hashing
  PROVE  Spec => []DecoderInBounds
<1>1. LibraryInv => DecoderInBounds
  BY DEF LibraryInv, DecoderInv, Ready, Within, DecoderInBounds
<1> QED
  BY <1>1, LibraryInvariantHolds, PTL
====
