------------------------ MODULE LZ4DecompressorProofs ------------------------
(***************************************************************************)
(* Theorems about LZ4Decompressor, for every window size, every set of     *)
(* blocks and any number of blocks and resets.                             *)
(***************************************************************************)
EXTENDS LZ4DecompressorInvariant, SetLemmas, SequenceTheorems

-----------------------------------------------------------------------------
(* The block format: what the recursive definitions of LZ4Stream are.      *)

(* The bytes of one record more are its bytes behind the others.           *)
LEMMA EncodedIs ==
  ASSUME NEW b, Len(b) \in Nat, \A k \in 1 .. Len(b) : EncodeSequence(b[k]) \in Seq(Byte)
  PROVE  /\ EncodedTo(b, 0) = <<>>
         /\ \A k \in 0 .. Len(b) : EncodedTo(b, k) \in Seq(Byte)
         /\ \A k \in 1 .. Len(b) :
              EncodedTo(b, k) = EncodedTo(b, k - 1) \o EncodeSequence(b[k])
<1> DEFINE n == Len(b)
           S == Seq(Byte)
           Step(f, i) == IF i = 0 THEN <<>> ELSE f[i - 1] \o EncodeSequence(b[i])
           Whole(f) == f = [i \in 0 .. n |-> Step(f, i)]
           g == [i \in 1 .. n |-> [s \in S |-> s \o EncodeSequence(b[i])]]
           bytes == CHOOSE f : Whole(f)
<1>1. <<>> \in S
  OBVIOUS
<1>2. g \in [1 .. n -> [S -> S]]
  <2>1. \A i \in 1 .. n : \A s \in S : s \o EncodeSequence(b[i]) \in S
    OBVIOUS
  <2> QED
    BY <2>1
<1>3. \A i \in 1 .. n, s \in S : g[i][s] = s \o EncodeSequence(b[i])
  OBVIOUS
<1> HIDE DEF g, S
<1>4. PICK f : Computed(f, n, S, <<>>, g)
  <2>1. n \in Nat /\ g \in Steps(n, S)
    BY <1>2 DEF Steps
  <2> HIDE DEF n
  <2> QED
    BY <1>1, <2>1, Recursion
<1>5. \A i \in 0 .. n : f[i] = Step(f, i)
  <2> TAKE i \in 0 .. n
  <2>1. CASE i = 0
    BY <1>4, <2>1 DEF Computed
  <2>2. CASE i # 0
    <3>1. i \in 1 .. n /\ i - 1 \in 0 .. n
      BY <2>2
    <3>2. f[i - 1] \in S /\ f[i] = g[i][f[i - 1]]
      BY <1>4, <3>1 DEF Computed
    <3> QED
      BY <1>3, <2>2, <3>1, <3>2
  <2> QED
    BY <2>1, <2>2
<1>6. Whole(f)
  <2>1. f = [i \in 0 .. n |-> f[i]]
    BY <1>4 DEF Computed
  <2> HIDE DEF Step
  <2> QED
    BY <1>5, <2>1
<1>7. Whole(bytes)
  <2> HIDE DEF Whole
  <2> QED
    BY <1>6
<1>8. \A k : EncodedTo(b, k) = bytes[k]
  BY DEF EncodedTo
<1> HIDE DEF bytes
<1>9. \A i \in 0 .. n : bytes[i] = Step(bytes, i)
  BY <1>7
<1>10. bytes[0] = <<>>
  BY <1>9
<1>11. \A k \in 1 .. n : bytes[k] = bytes[k - 1] \o EncodeSequence(b[k])
  <2> TAKE k \in 1 .. n
  <2>1. k \in 0 .. n /\ k # 0
    OBVIOUS
  <2> QED
    BY <1>9, <2>1
<1> DEFINE Good == {k \in Nat : k <= n => bytes[k] \in S}
<1>12. 0 \in Good
  BY <1>1, <1>10
<1>13. ASSUME NEW k \in Good PROVE k + 1 \in Good
  <2> SUFFICES ASSUME k + 1 <= n PROVE bytes[k + 1] \in S
    OBVIOUS
  <2>1. k + 1 \in 1 .. n /\ (k + 1) - 1 = k
    OBVIOUS
  <2>2. bytes[k] \in S
    OBVIOUS
  <2>3. bytes[k + 1] = bytes[k] \o EncodeSequence(b[k + 1])
    BY <1>11, <2>1
  <2> QED
    BY <2>1, <2>2, <2>3 DEF S
<1>14. Good = Nat
  <2> HIDE DEF Good
  <2>1. Good \in SUBSET Nat
    BY DEF Good
  <2> QED
    BY <1>12, <1>13, <2>1, Induction
<1>15. \A k \in 0 .. n : bytes[k] \in S
  BY <1>14
<1> QED
  BY <1>8, <1>10, <1>11, <1>15 DEF S

(* Decoding a block is decoding its records one after the other.           *)
LEMMA DecodedIs ==
  ASSUME NEW b, Len(b) \in Nat
  PROVE  /\ DecodedTo(b, 0) = <<>>
         /\ \A k \in 1 .. Len(b) :
              DecodedTo(b, k) = DecodeSequence(DecodedTo(b, k - 1), b[k])
<1> DEFINE Step(f, i) == IF i = 0 THEN <<>> ELSE DecodeSequence(f[i - 1], b[i])
           Upto(f, n) == \A i \in 0 .. n : f[i] = Step(f, i)
           Good == {n \in Nat : \E f : Upto(f, n)}
           Whole(f) == f = [i \in 0 .. Len(b) |-> Step(f, i)]
           out == CHOOSE f : Whole(f)
<1>1. 0 \in Good
  <2> DEFINE f == [i \in {0} |-> <<>>]
  <2>1. Upto(f, 0)
    OBVIOUS
  <2> QED
    BY <2>1
<1>2. ASSUME NEW n \in Good PROVE n + 1 \in Good
  <2>1. PICK f : Upto(f, n)
    OBVIOUS
  <2> DEFINE g == [i \in 0 .. n + 1 |-> Step(f, i)]
  <2>2. ASSUME NEW i \in 0 .. n + 1 PROVE g[i] = Step(g, i)
    <3>1. CASE i = 0
      BY <3>1
    <3>2. CASE i # 0
      <4>1. i - 1 \in 0 .. n /\ i - 1 \in 0 .. n + 1
        BY <3>2
      <4>2. g[i - 1] = f[i - 1]
        BY <2>1, <4>1
      <4> QED
        BY <3>2, <4>2
    <3> QED
      BY <3>1, <3>2
  <2>3. Upto(g, n + 1)
    BY <2>2
  <2>4. n + 1 \in Nat
    OBVIOUS
  <2> HIDE DEF g, Upto
  <2> QED
    BY <2>3, <2>4
<1>3. Good = Nat
  <2> HIDE DEF Good
  <2>1. Good \in SUBSET Nat
    BY DEF Good
  <2> QED
    BY <1>1, <1>2, <2>1, Induction
<1>4. PICK f : Upto(f, Len(b))
  BY <1>3
<1> DEFINE g == [i \in 0 .. Len(b) |-> Step(f, i)]
<1>5. Whole(g)
  <2>1. ASSUME NEW i \in 0 .. Len(b) PROVE Step(f, i) = Step(g, i)
    <3>1. CASE i = 0
      BY <3>1
    <3>2. CASE i # 0
      <4>1. i - 1 \in 0 .. Len(b)
        BY <3>2
      <4>2. g[i - 1] = f[i - 1]
        BY <1>4, <4>1
      <4> QED
        BY <3>2, <4>2
    <3> QED
      BY <3>1, <3>2
  <2> HIDE DEF Step
  <2> QED
    BY <2>1
<1>6. Whole(out)
  <2> HIDE DEF Whole, g
  <2> QED
    BY <1>5
<1>7. \A k : DecodedTo(b, k) = out[k]
  BY DEF DecodedTo
<1> HIDE DEF out
<1>8. \A i \in 0 .. Len(b) : out[i] = Step(out, i)
  BY <1>6
<1>9. out[0] = <<>>
  BY <1>8
<1>10. ASSUME NEW k \in 1 .. Len(b)
       PROVE out[k] = DecodeSequence(out[k - 1], b[k])
  <2>1. k \in 0 .. Len(b) /\ k # 0
    OBVIOUS
  <2> QED
    BY <1>8, <2>1
<1> QED
  BY <1>7, <1>9, <1>10

(* How many bytes the records of a block stand for, added up.              *)
LEMMA LengthIs ==
  ASSUME NEW b, Len(b) \in Nat,
         \A k \in 1 .. Len(b) : Len(b[k].lits) \in Nat /\ b[k].mlen \in Nat
  PROVE  /\ DecodedLen(b, 0) = 0
         /\ \A k \in 0 .. Len(b) : DecodedLen(b, k) \in Nat
         /\ \A k \in 1 .. Len(b) :
              DecodedLen(b, k) = DecodedLen(b, k - 1) + Len(b[k].lits) + b[k].mlen
<1> DEFINE n == Len(b)
           Step(f, i) == IF i = 0 THEN 0 ELSE f[i - 1] + Len(b[i].lits) + b[i].mlen
           Whole(f) == f = [i \in 0 .. n |-> Step(f, i)]
           g == [i \in 1 .. n |-> [m \in Nat |-> m + Len(b[i].lits) + b[i].mlen]]
           len == CHOOSE f : Whole(f)
<1>1. g \in [1 .. n -> [Nat -> Nat]]
  OBVIOUS
<1>2. \A i \in 1 .. n, m \in Nat : g[i][m] = m + Len(b[i].lits) + b[i].mlen
  OBVIOUS
<1> HIDE DEF g
<1>3. PICK f : Computed(f, n, Nat, 0, g)
  <2>1. n \in Nat /\ 0 \in Nat /\ g \in Steps(n, Nat)
    BY <1>1 DEF Steps
  <2> HIDE DEF n
  <2> QED
    BY <2>1, Recursion
<1>4. \A i \in 0 .. n : f[i] = Step(f, i)
  <2> TAKE i \in 0 .. n
  <2>1. CASE i = 0
    BY <1>3, <2>1 DEF Computed
  <2>2. CASE i # 0
    <3>1. i \in 1 .. n /\ i - 1 \in 0 .. n
      BY <2>2
    <3>2. f[i - 1] \in Nat /\ f[i] = g[i][f[i - 1]]
      BY <1>3, <3>1 DEF Computed
    <3> QED
      BY <1>2, <2>2, <3>1, <3>2
  <2> QED
    BY <2>1, <2>2
<1>5. Whole(f)
  <2>1. f = [i \in 0 .. n |-> f[i]]
    BY <1>3 DEF Computed
  <2> HIDE DEF Step
  <2> QED
    BY <1>4, <2>1
<1>6. Whole(len)
  <2> HIDE DEF Whole
  <2> QED
    BY <1>5
<1>7. \A k : DecodedLen(b, k) = len[k]
  BY DEF DecodedLen
<1> HIDE DEF len
<1>8. \A i \in 0 .. n : len[i] = Step(len, i)
  BY <1>6
<1>9. len[0] = 0
  BY <1>8
<1>10. \A k \in 1 .. n : len[k] = len[k - 1] + Len(b[k].lits) + b[k].mlen
  <2> TAKE k \in 1 .. n
  <2>1. k \in 0 .. n /\ k # 0
    OBVIOUS
  <2> QED
    BY <1>8, <2>1
<1> DEFINE Good == {k \in Nat : k <= n => len[k] \in Nat}
<1>11. 0 \in Good
  BY <1>9
<1>12. ASSUME NEW k \in Good PROVE k + 1 \in Good
  <2> SUFFICES ASSUME k + 1 <= n PROVE len[k + 1] \in Nat
    OBVIOUS
  <2>1. k + 1 \in 1 .. n /\ (k + 1) - 1 = k
    OBVIOUS
  <2>2. len[k] \in Nat
    OBVIOUS
  <2>3. len[k + 1] = len[k] + Len(b[k + 1].lits) + b[k + 1].mlen
    BY <1>10, <2>1
  <2> QED
    BY <2>1, <2>2, <2>3
<1>13. Good = Nat
  <2> HIDE DEF Good
  <2>1. Good \in SUBSET Nat
    BY DEF Good
  <2> QED
    BY <1>11, <1>12, <2>1, Induction
<1>14. \A k \in 0 .. n : len[k] \in Nat
  BY <1>13
<1> QED
  BY <1>7, <1>9, <1>10, <1>14

(* The values of so many bits are the naturals below a bound.              *)
LEMMA BelowIs ==
  ASSUME NEW n \in Nat
  PROVE  \A x : x \in Below(n) <=> x \in Nat /\ x < n
BY DEF Below

(* Two sequences one behind the other.                                     *)
LEMMA Joined ==
  ASSUME NEW S, NEW p \in Seq(S), NEW q \in Seq(S)
  PROVE  /\ p \o q \in Seq(S) /\ Len(p \o q) = Len(p) + Len(q)
         /\ \A i \in 1 .. Len(p) : (p \o q)[i] = p[i]
         /\ \A i \in 1 .. Len(q) : (p \o q)[Len(p) + i] = q[i]
OBVIOUS

(* The bytes behind a token: as many of 255 as go into the length, then    *)
(* one that is smaller, with what is left of it.                           *)
LEMMA ExtensionIs ==
  ASSUME NEW n \in Nat
  PROVE  /\ Extension(n) \in Seq(Byte)
         /\ n < 15 => Len(Extension(n)) = 0
         /\ n >= 15 =>
              /\ (n - 15) \div 255 \in Nat
              /\ Len(Extension(n)) = (n - 15) \div 255 + 1
              /\ \A i \in 1 .. (n - 15) \div 255 : Extension(n)[i] = 255
              /\ Extension(n)[(n - 15) \div 255 + 1] = n - 15 - 255 * ((n - 15) \div 255)
              /\ n - 15 - 255 * ((n - 15) \div 255) \in Below(255)
<1>1. CASE n < 15
  BY <1>1 DEF Extension
<1>2. CASE n >= 15
  <2> DEFINE q == (n - 15) \div 255
             r == (n - 15) % 255
             p == [i \in 1 .. q |-> 255]
  <2>1. q \in Nat /\ r \in Below(255) /\ r = n - 15 - 255 * q
    BY <1>2 DEF Below
  <2>2. Extension(n) = p \o <<r>>
    BY <1>2 DEF Extension
  <2> HIDE DEF q, r
  <2>3. p \in Seq(Byte) /\ Len(p) = q /\ <<r>> \in Seq(Byte)
    BY <2>1 DEF Byte, Below
  <2>4. \A i \in 1 .. q : p[i] = 255
    OBVIOUS
  <2> HIDE DEF p
  <2>5. /\ Extension(n) \in Seq(Byte) /\ Len(Extension(n)) = q + 1
        /\ \A i \in 1 .. q : Extension(n)[i] = 255
        /\ Extension(n)[q + 1] = r
    BY <2>1, <2>2, <2>3, <2>4, Joined
  <2> QED
    BY <1>2, <2>1, <2>5 DEF q
<1> QED
  BY <1>1, <1>2

(* The parts of a record, and where its literals and its offset are among  *)
(* its bytes.                                                              *)
LitsOf(s)   == s.lits
CountOf(s)  == Len(s.lits)
OffsetOf(s) == s.offset
MlenOf(s)   == s.mlen
LitsFrom(s)  == 1 + Len(Extension(CountOf(s)))
MatchFrom(s) == LitsFrom(s) + CountOf(s)

(* The parts of a sequence are a byte string and naturals; a match has at  *)
(* least four bytes.                                                       *)
LEMMA SequenceType ==
  ASSUME NEW s \in LZ4Sequence
  PROVE  /\ LitsOf(s) \in Seq(Byte) /\ CountOf(s) = Len(LitsOf(s)) /\ CountOf(s) \in Nat
         /\ OffsetOf(s) \in Below(65536)
         /\ MlenOf(s) \in Nat /\ (MlenOf(s) > 0 => MlenOf(s) >= 4 /\ MlenOf(s) - 4 \in Nat)
         /\ LitsFrom(s) \in Nat /\ MatchFrom(s) \in Nat
         /\ LitsFrom(s) >= 1 /\ MatchFrom(s) = LitsFrom(s) + CountOf(s)
<1>1. /\ LitsOf(s) \in Seq(Byte) /\ OffsetOf(s) \in Below(65536) /\ MlenOf(s) \in MatchLengths
      /\ CountOf(s) = Len(LitsOf(s))
  BY DEF LZ4Sequence, LitsOf, CountOf, OffsetOf, MlenOf
<1>2. MlenOf(s) \in Nat /\ (MlenOf(s) > 0 => MlenOf(s) >= 4 /\ MlenOf(s) - 4 \in Nat)
  BY <1>1 DEF MatchLengths
<1>3. CountOf(s) \in Nat
  BY <1>1
<1> DEFINE x == Len(Extension(CountOf(s)))
<1>4. x \in Nat
  BY <1>3, ExtensionIs
<1>5. LitsFrom(s) = 1 + x /\ MatchFrom(s) = LitsFrom(s) + CountOf(s)
  BY DEF LitsFrom, MatchFrom
<1> HIDE DEF x
<1>6. LitsFrom(s) \in Nat /\ MatchFrom(s) \in Nat /\ LitsFrom(s) >= 1
  BY <1>3, <1>4, <1>5
<1> QED
  BY <1>1, <1>2, <1>3, <1>5, <1>6

(* The token of a record with a match, and of one without.                 *)
LEMMA TokenIs ==
  ASSUME NEW l \in Nat, NEW m \in Nat
  PROVE  LET token == 16 * Nibble(l) + Nibble(m)
         IN  /\ token \in Byte /\ 16 * Nibble(l) \in Byte
             /\ token \div 16 = Nibble(l) /\ token % 16 = Nibble(m)
             /\ (16 * Nibble(l)) \div 16 = Nibble(l)
             /\ Nibble(l) \in Below(16) /\ Nibble(m) \in Below(16)
<1> DEFINE h == Nibble(l)
           k == Nibble(m)
<1>1. h \in 0 .. 15 /\ k \in 0 .. 15
  BY DEF Nibble
<1> HIDE DEF h, k
<1>2. /\ 16 * h + k \in Byte /\ 16 * h \in Byte
      /\ (16 * h + k) \div 16 = h /\ (16 * h + k) % 16 = k /\ (16 * h) \div 16 = h
      /\ h \in Below(16) /\ k \in Below(16)
  BY <1>1 DEF Byte, Below
<1> QED
  BY <1>2 DEF h, k

(* T holds the bytes of a record: its token, the rest of the length of its *)
(* literals, the literals, the offset and the rest of the match's length.  *)
BytesOf(T, s) ==
  /\ T \in Seq(Byte) /\ T[1] \div 16 = Nibble(CountOf(s))
  /\ \A i \in 1 .. Len(Extension(CountOf(s))) : T[1 + i] = Extension(CountOf(s))[i]
  /\ \A i \in 1 .. CountOf(s) : T[LitsFrom(s) + i] = LitsOf(s)[i]
  /\ MlenOf(s) = 0 => Len(T) = MatchFrom(s)
  /\ MlenOf(s) > 0 =>
       /\ T[1] % 16 = Nibble(MlenOf(s) - 4)
       /\ Len(T) = MatchFrom(s) + 2 + Len(Extension(MlenOf(s) - 4))
       /\ T[MatchFrom(s) + 1] = OffsetOf(s) % 256
       /\ T[MatchFrom(s) + 2] = OffsetOf(s) \div 256
       /\ \A i \in 1 .. Len(Extension(MlenOf(s) - 4)) :
            T[MatchFrom(s) + 2 + i] = Extension(MlenOf(s) - 4)[i]

(* A record is laid out as token, length bytes, literals, offset, length   *)
(* bytes.                                                                  *)
LEMMA SequenceBytes ==
  ASSUME NEW s \in LZ4Sequence
  PROVE  BytesOf(EncodeSequence(s), s)
<1> DEFINE T == EncodeSequence(s)
           lits == LitsOf(s)
           L == CountOf(s)
           M == MlenOf(s)
           E == Extension(L)
           F == Extension(M - 4)
           H == IF M = 0 THEN 16 * Nibble(L) ELSE 16 * Nibble(L) + Nibble(M - 4)
           h == <<H>>
           o == <<OffsetOf(s) % 256, OffsetOf(s) \div 256>>
           A == h \o E
           B == A \o lits
           C == B \o o
<1>1. /\ lits \in Seq(Byte) /\ L = Len(lits) /\ L \in Nat /\ M \in Nat
      /\ (M > 0 => M - 4 \in Nat) /\ OffsetOf(s) \in Below(65536)
  BY SequenceType
<1>2. T = IF M = 0 THEN B ELSE C \o F
  BY DEF EncodeSequence, LitsOf, CountOf, OffsetOf, MlenOf
<1>3. E \in Seq(Byte) /\ Len(E) \in Nat
  BY <1>1, ExtensionIs
<1>4. H \in Byte /\ H \div 16 = Nibble(L) /\ (M > 0 => H % 16 = Nibble(M - 4))
  <2>1. CASE M = 0
    BY <1>1, <2>1, TokenIs
  <2>2. CASE M > 0
    BY <1>1, <2>2, TokenIs
  <2> QED
    BY <1>1, <2>1, <2>2
<1>5. LitsFrom(s) = 1 + Len(E) /\ MatchFrom(s) = LitsFrom(s) + L
  BY DEF LitsFrom, MatchFrom
<1>6. o \in Seq(Byte) /\ Len(o) = 2 /\ o[1] = OffsetOf(s) % 256 /\ o[2] = OffsetOf(s) \div 256
  <2> DEFINE off == OffsetOf(s)
  <2>1. off \in Nat /\ off < 65536
    BY <1>1, BelowIs
  <2> HIDE DEF off
  <2>2. off % 256 \in Nat /\ off % 256 < 256 /\ off \div 256 \in Nat /\ off \div 256 < 256
    BY <2>1
  <2>3. off % 256 \in Byte /\ off \div 256 \in Byte
    BY <2>2, BelowIs DEF Byte
  <2> QED
    BY <2>3 DEF off
<1>7. BytesOf(T, s) = BytesOf(IF M = 0 THEN B ELSE C \o F, s)
  BY <1>2
<1> HIDE DEF E, H, lits, L, M, F
<1>8. h \in Seq(Byte) /\ Len(h) = 1 /\ h[1] = H
  BY <1>4
<1> HIDE DEF h, o
<1>9. /\ A \in Seq(Byte) /\ Len(A) = 1 + Len(E) /\ A[1] = H
      /\ \A i \in 1 .. Len(E) : A[1 + i] = E[i]
  BY <1>3, <1>8, Joined
<1> HIDE DEF A
<1>10. /\ B \in Seq(Byte) /\ Len(B) = Len(A) + L
       /\ \A i \in 1 .. Len(A) : B[i] = A[i]
       /\ \A i \in 1 .. L : B[Len(A) + i] = lits[i]
  <2>1. A \in Seq(Byte) /\ lits \in Seq(Byte) /\ L = Len(lits)
    BY <1>1, <1>9
  <2> QED
    BY <2>1, Joined
<1> HIDE DEF B
<1>11. /\ B[1] = H /\ \A i \in 1 .. Len(E) : B[1 + i] = E[i]
       /\ \A i \in 1 .. L : B[LitsFrom(s) + i] = lits[i]
       /\ Len(B) = MatchFrom(s)
  <2>1. 1 \in 1 .. Len(A) /\ \A i \in 1 .. Len(E) : 1 + i \in 1 .. Len(A)
    BY <1>3, <1>9
  <2> QED
    BY <1>1, <1>5, <1>9, <1>10, <2>1
<1>12. CASE M = 0
  <2>1. ~(M > 0)
    BY <1>12
  <2>2. BytesOf(B, s)
    BY <1>4, <1>10, <1>11, <2>1, Zenon DEF BytesOf, E, L, M, lits
  <2> QED
    BY <1>7, <1>12, <2>2
<1>13. CASE M # 0
  <2> DEFINE D == C \o F
  <2>1. M > 0 /\ M - 4 \in Nat
    BY <1>1, <1>13
  <2>2. F \in Seq(Byte)
    BY <2>1, ExtensionIs DEF F
  <2>3. /\ C \in Seq(Byte) /\ Len(C) = Len(B) + 2
        /\ \A i \in 1 .. Len(B) : C[i] = B[i]
        /\ \A i \in 1 .. 2 : C[Len(B) + i] = o[i]
    <3>1. B \in Seq(Byte) /\ o \in Seq(Byte) /\ Len(o) = 2
      BY <1>6, <1>10
    <3> QED
      BY <3>1, Joined
  <2> HIDE DEF C
  <2>4. /\ D \in Seq(Byte) /\ Len(D) = Len(C) + Len(F)
        /\ \A i \in 1 .. Len(C) : D[i] = C[i]
        /\ \A i \in 1 .. Len(F) : D[Len(C) + i] = F[i]
    <3>1. C \in Seq(Byte)
      BY <2>3
    <3> QED
      BY <2>2, <3>1, Joined
  <2> HIDE DEF D
  <2>5. Len(B) \in Nat /\ Len(C) = MatchFrom(s) + 2
    BY <1>10, <1>11, <2>3
  <2>6. \A i \in 1 .. Len(B) : D[i] = B[i]
    <3>1. \A i \in 1 .. Len(B) : i \in 1 .. Len(C)
      BY <2>3, <2>5
    <3> QED
      BY <2>3, <2>4, <3>1
  <2>7. /\ 1 \in 1 .. Len(B) /\ \A i \in 1 .. Len(E) : 1 + i \in 1 .. Len(B)
        /\ \A i \in 1 .. L : LitsFrom(s) + i \in 1 .. Len(B)
    BY <1>1, <1>3, <1>5, <1>11
  <2>8. D[1] = H /\ (\A i \in 1 .. Len(E) : D[1 + i] = E[i])
        /\ \A i \in 1 .. L : D[LitsFrom(s) + i] = lits[i]
    BY <1>11, <2>6, <2>7
  <2>9. /\ D[MatchFrom(s) + 1] = o[1] /\ D[MatchFrom(s) + 2] = o[2]
    <3>1. \A i \in 1 .. 2 : Len(B) + i \in 1 .. Len(C)
      BY <2>3, <2>5
    <3> QED
      BY <1>11, <2>3, <2>4, <3>1
  <2>10. Len(D) = MatchFrom(s) + 2 + Len(F)
         /\ \A i \in 1 .. Len(F) : D[MatchFrom(s) + 2 + i] = F[i]
    BY <2>4, <2>5
  <2>11. BytesOf(D, s)
    BY <1>4, <1>6, <1>13, <2>4, <2>8, <2>9, <2>10, Zenon DEF BytesOf, E, L, M, lits, F
  <2> QED
    BY <1>7, <1>13, <2>11 DEF D
<1> QED
  BY <1>12, <1>13

-----------------------------------------------------------------------------
(* A whole block.                                                          *)
LEMMA BlockType ==
  ASSUME NEW b \in Seq(LZ4Sequence)
  PROVE  /\ Len(b) \in Nat /\ DOMAIN b = 1 .. Len(b)
         /\ \A k \in 1 .. Len(b) :
              /\ b[k] \in LZ4Sequence
              /\ EncodeSequence(b[k]) \in Seq(Byte)
              /\ CountOf(b[k]) \in Nat /\ MlenOf(b[k]) \in Nat
<1>1. Len(b) \in Nat /\ DOMAIN b = 1 .. Len(b) /\ \A k \in 1 .. Len(b) : b[k] \in LZ4Sequence
  OBVIOUS
<1>2. \A s \in LZ4Sequence : EncodeSequence(s) \in Seq(Byte)
  BY SequenceBytes DEF BytesOf
<1>3. \A s \in LZ4Sequence : CountOf(s) \in Nat /\ MlenOf(s) \in Nat
  BY SequenceType
<1> QED
  BY <1>1, <1>2, <1>3

(* Every record has a token, so that the bytes before a record are fewer   *)
(* than those up to its end, and the bytes of the record stand between.    *)
LEMMA EncodedPlaces ==
  ASSUME NEW b \in Seq(LZ4Sequence)
  PROVE  /\ Encode(b) \in Seq(Byte)
         /\ \A k \in 0 .. Len(b) : Len(EncodedTo(b, k)) \in Nat
         /\ \A k \in 1 .. Len(b) :
              /\ Len(EncodedTo(b, k)) = Len(EncodedTo(b, k - 1)) + Len(EncodeSequence(b[k]))
              /\ Len(EncodedTo(b, k - 1)) < Len(EncodedTo(b, k))
              /\ Len(EncodedTo(b, k)) <= Len(Encode(b))
              /\ k < Len(b) => Len(EncodedTo(b, k)) < Len(Encode(b))
              /\ \A i \in 1 .. Len(EncodeSequence(b[k])) :
                   Encode(b)[Len(EncodedTo(b, k - 1)) + i] = EncodeSequence(b[k])[i]
<1> DEFINE n == Len(b)
           size(k) == Len(EncodedTo(b, k))
           rec(k) == EncodeSequence(b[k])
<1>1. n \in Nat /\ \A k \in 1 .. n : rec(k) \in Seq(Byte)
  BY BlockType
<1>2. /\ \A k \in 0 .. n : EncodedTo(b, k) \in Seq(Byte)
      /\ \A k \in 1 .. n : EncodedTo(b, k) = EncodedTo(b, k - 1) \o rec(k)
  BY <1>1, EncodedIs
<1>3. \A k \in 1 .. n : Len(rec(k)) \in Nat /\ Len(rec(k)) >= 1
  <2> TAKE k \in 1 .. n
  <2> DEFINE s == b[k]
  <2>1. s \in LZ4Sequence
    BY BlockType
  <2> HIDE DEF s
  <2>2. BytesOf(EncodeSequence(s), s) /\ MatchFrom(s) \in Nat /\ MatchFrom(s) >= 1 /\ MlenOf(s) \in Nat
    <3>1. LitsFrom(s) \in Nat /\ LitsFrom(s) >= 1 /\ MatchFrom(s) = LitsFrom(s) + CountOf(s)
          /\ CountOf(s) \in Nat /\ MlenOf(s) \in Nat
      BY <2>1, SequenceType
    <3> QED
      BY <2>1, <3>1, SequenceBytes
  <2>3. CASE MlenOf(s) = 0
    BY <2>2, <2>3 DEF BytesOf, s
  <2>4. CASE MlenOf(s) > 0
    <3>1. Len(Extension(MlenOf(s) - 4)) \in Nat
      <4>1. MlenOf(s) - 4 \in Nat
        BY <2>1, <2>4, SequenceType
      <4> QED
        BY <4>1, ExtensionIs
    <3>2. Len(EncodeSequence(s)) = MatchFrom(s) + 2 + Len(Extension(MlenOf(s) - 4))
      BY <2>2, <2>4 DEF BytesOf
    <3>3. Len(EncodeSequence(s)) \in Nat /\ Len(EncodeSequence(s)) >= 1
      BY <2>2, <3>1, <3>2
    <3> QED
      BY <3>3 DEF s
  <2> QED
    BY <2>2, <2>3, <2>4
<1>4. ASSUME NEW k \in 1 .. n
      PROVE  /\ k - 1 \in 0 .. n /\ size(k) = size(k - 1) + Len(rec(k))
             /\ \A i \in 1 .. size(k - 1) : EncodedTo(b, k)[i] = EncodedTo(b, k - 1)[i]
             /\ \A i \in 1 .. Len(rec(k)) : EncodedTo(b, k)[size(k - 1) + i] = rec(k)[i]
  <2>1. k - 1 \in 0 .. n
    OBVIOUS
  <2>2. EncodedTo(b, k - 1) \in Seq(Byte) /\ rec(k) \in Seq(Byte)
    BY <1>1, <1>2, <2>1
  <2> DEFINE p == EncodedTo(b, k - 1)
             r == rec(k)
             t == EncodedTo(b, k)
  <2>3. t = p \o r
    BY <1>2
  <2>4. /\ Len(t) = Len(p) + Len(r) /\ (\A i \in 1 .. Len(p) : t[i] = p[i])
        /\ \A i \in 1 .. Len(r) : t[Len(p) + i] = r[i]
    <3>1. p \in Seq(Byte) /\ r \in Seq(Byte)
      BY <2>2
    <3> HIDE DEF p, r, t
    <3> QED
      BY <2>3, <3>1, Joined
  <2> QED
    BY <2>1, <2>4
<1>5. \A k \in 0 .. n : size(k) \in Nat
  BY <1>2
(* Once there, a byte stays where it is.                                   *)
<1> DEFINE Kept(k, m) == /\ size(k) <= size(m) /\ (k < m => size(k) < size(m))
                         /\ \A i \in 1 .. size(k) : EncodedTo(b, m)[i] = EncodedTo(b, k)[i]
           Good(k) == {m \in Nat : k <= m /\ m <= n => Kept(k, m)}
<1>6. ASSUME NEW k \in 0 .. n PROVE Good(k) = Nat
  <2>1. ASSUME NEW m \in Nat, m <= k PROVE m \in Good(k)
    <3>1. k <= m => m = k
      BY <2>1
    <3>2. size(k) \in Nat /\ Kept(k, k)
      BY <1>5
    <3> HIDE DEF Kept
    <3> QED
      BY <3>1, <3>2
  <2>2. ASSUME NEW m \in Good(k) PROVE m + 1 \in Good(k)
    <3>1. CASE m + 1 <= k
      BY <2>1, <3>1
    <3>2. CASE ~(m + 1 <= k) /\ ~(m + 1 <= n)
      BY <3>2
    <3>3. CASE ~(m + 1 <= k) /\ m + 1 <= n
      <4>1. /\ m + 1 \in 1 .. n /\ (m + 1) - 1 = m /\ m \in 0 .. n /\ k <= m /\ m <= n
            /\ m \in Nat /\ k \in Nat
        BY <1>1, <3>3
      <4>2. Kept(k, m)
        BY <4>1
      <4>3. /\ size(m + 1) = size(m) + Len(rec(m + 1))
            /\ \A i \in 1 .. size(m) : EncodedTo(b, m + 1)[i] = EncodedTo(b, m)[i]
        BY <1>4, <4>1
      <4>4. Len(rec(m + 1)) \in Nat /\ Len(rec(m + 1)) >= 1 /\ size(m) \in Nat /\ size(k) \in Nat
        BY <1>3, <1>5, <4>1
      <4> DEFINE w == m + 1
      <4> HIDE DEF size, rec, n, w
      <4>5. /\ size(k) < size(w) /\ size(k) <= size(w)
            /\ \A i \in 1 .. size(k) : i \in 1 .. size(m)
        BY <4>2, <4>3, <4>4 DEF w
      <4>6. Kept(k, w)
        <5>1. \A i \in 1 .. size(k) : EncodedTo(b, w)[i] = EncodedTo(b, k)[i]
          BY <4>2, <4>3, <4>5 DEF w
        <5> QED
          BY <4>5, <5>1
      <4> HIDE DEF Kept
      <4>7. w \in Nat
        BY <4>1 DEF w
      <4> QED
        BY <4>6, <4>7 DEF w
    <3> QED
      BY <3>1, <3>2, <3>3
  <2>3. 0 \in Good(k)
    BY <2>1
  <2>4. Good(k) \in SUBSET Nat
    OBVIOUS
  <2> DEFINE G == Good(k)
  <2>5. G \in SUBSET Nat /\ 0 \in G /\ \A m \in G : m + 1 \in G
    BY <2>2, <2>3, <2>4
  <2> HIDE DEF G
  <2>6. G = Nat
    BY <2>5, Induction
  <2> QED
    BY <2>6 DEF G
<1>7. ASSUME NEW k \in 0 .. n PROVE Kept(k, n)
  <2>1. n \in Good(k)
    BY <1>1, <1>6
  <2>2. k <= n
    BY <1>1
  <2> HIDE DEF Kept, n
  <2> QED
    BY <2>1, <2>2
<1>8. Encode(b) = EncodedTo(b, n)
  BY DEF Encode
<1>9. ASSUME NEW k \in 1 .. n
      PROVE  /\ size(k - 1) < size(k)
             /\ size(k) <= size(n) /\ (k < n => size(k) < size(n))
             /\ \A i \in 1 .. Len(rec(k)) : EncodedTo(b, n)[size(k - 1) + i] = rec(k)[i]
  <2>1. k \in 0 .. n /\ k - 1 \in 0 .. n
    BY <1>1
  <2>2. Kept(k, n)
    BY <1>7, <2>1
  <2> DEFINE u == size(k - 1)
             v == size(k)
             l == Len(rec(k))
  <2>3. u \in Nat /\ v \in Nat /\ v = u + l /\ l \in Nat /\ l >= 1
    <3>1. u \in Nat /\ v \in Nat
      BY <1>5, <2>1
    <3>2. v = u + l
      BY <1>4
    <3>3. l \in Nat /\ l >= 1
      BY <1>3
    <3> QED
      BY <3>1, <3>2, <3>3
  <2>4. \A i \in 1 .. Len(rec(k)) : size(k - 1) + i \in 1 .. size(k)
    <3> HIDE DEF u, v, l
    <3>1. \A i \in 1 .. l : u + i \in 1 .. v
      BY <2>3
    <3> QED
      BY <3>1 DEF u, v, l
  <2>5. size(k - 1) < size(k)
    <3> HIDE DEF u, v, l
    <3>1. u < v
      BY <2>3
    <3> QED
      BY <3>1 DEF u, v
  <2> HIDE DEF n
  <2> QED
    BY <1>4, <2>2, <2>4, <2>5
<1>10. n \in 0 .. n
  BY <1>1
<1> QED
  BY <1>2, <1>4, <1>5, <1>8, <1>9, <1>10

-----------------------------------------------------------------------------
(* What a record stands for.                                               *)

(* A remainder below d is known from any sum of it and a multiple of d.    *)
LEMMA SameRemainder ==
  ASSUME NEW d \in Nat, NEW q \in Int, NEW r \in 0 .. d - 1, NEW t \in 0 .. d - 1,
         d * q + r = t
  PROVE  r = t
<1>1. CASE q = 0
  BY <1>1
<1>2. CASE q >= 1
  <2>1. d * q >= d
    BY <1>2
  <2> QED
    BY <2>1
<1>3. CASE q <= -1
  <2>1. d * q <= -d
    BY <1>3
  <2> QED
    BY <2>1
<1> QED
  BY <1>1, <1>2, <1>3

(* One period earlier the remainder is the same.                           *)
LEMMA Periodic ==
  ASSUME NEW a \in Nat, NEW d \in Nat, d > 0
  PROVE  /\ a % d \in 0 .. d - 1 /\ (a < d => a % d = a)
         /\ a >= d => a % d = (a - d) % d
<1>1. a = d * (a \div d) + (a % d) /\ a % d \in 0 .. d - 1 /\ a \div d \in Int
  OBVIOUS
<1>2. a < d => a % d = a
  OBVIOUS
<1>3. ASSUME a >= d PROVE a % d = (a - d) % d
  <2> DEFINE c == a - d
             q == c \div d
             r == c % d
             p == a \div d
             t == a % d
  <2>1. c \in Nat
    BY <1>3
  <2>2. c = d * q + r /\ r \in 0 .. d - 1 /\ q \in Int
    <3> HIDE DEF c
    <3> QED
      BY <2>1
  <2>3. a = d * p + t /\ t \in 0 .. d - 1 /\ p \in Int
    BY <1>1
  <2>4. d * (q + 1 - p) + r = t
    <3>1. a = c + d
      BY <1>3
    <3> HIDE DEF c, q, r, p, t
    <3>2. d * (q + 1 - p) = d * q + d - d * p
      BY <2>2, <2>3
    <3> QED
      BY <2>1, <2>2, <2>3, <3>1, <3>2
  <2>5. q + 1 - p \in Int
    BY <2>2, <2>3
  <2> HIDE DEF c, q, r, p, t
  <2>6. r = t
    <3> DEFINE m == q + 1 - p
    <3> HIDE DEF m
    <3> QED
      BY <2>2, <2>3, <2>4, <2>5, SameRemainder DEF m
  <2> QED
    BY <2>6 DEF c, r, t
<1> QED
  BY <1>1, <1>2, <1>3

(* Behind what was there come the literals and then the match, which       *)
(* repeats the bytes one offset back, also those that it made itself.      *)
LEMMA DecodeSequenceIs ==
  ASSUME NEW out \in Seq(Byte), NEW s \in LZ4Sequence,
         MlenOf(s) > 0 => OffsetOf(s) \in 1 .. Len(out) + CountOf(s)
  PROVE  LET new == DecodeSequence(out, s)
             n   == Len(out) + CountOf(s)
         IN  /\ new \in Seq(Byte) /\ Len(new) = n + MlenOf(s)
             /\ \A i \in 1 .. Len(out) : new[i] = out[i]
             /\ \A i \in 1 .. CountOf(s) : new[Len(out) + i] = LitsOf(s)[i]
             /\ \A i \in 1 .. MlenOf(s) : new[n + i] = new[n + i - OffsetOf(s)]
<1> DEFINE lits == LitsOf(s)
           L == CountOf(s)
           M == MlenOf(s)
           off == OffsetOf(s)
           base == out \o lits
           n == Len(out) + L
           copy == [i \in 1 .. M |-> base[n - off + 1 + ((i - 1) % off)]]
           new == base \o copy
<1>1. lits \in Seq(Byte) /\ L = Len(lits) /\ L \in Nat /\ M \in Nat /\ Len(out) \in Nat
  BY SequenceType
<1>2. /\ base \in Seq(Byte) /\ Len(base) = n
      /\ \A i \in 1 .. Len(out) : base[i] = out[i]
      /\ \A i \in 1 .. L : base[Len(out) + i] = lits[i]
  <2> HIDE DEF lits, L
  <2> QED
    BY <1>1, Joined
<1>3. DecodeSequence(out, s) = new
  <2>1. DecodeSequence(out, s) =
          base \o [i \in 1 .. M |-> base[Len(base) - off + 1 + ((i - 1) % off)]]
    BY DEF DecodeSequence, LitsOf, MlenOf, OffsetOf
  <2> HIDE DEF base, M, off, n
  <2> QED
    BY <1>2, <2>1
<1>4. \A i \in 1 .. M : off \in Nat /\ off > 0 /\ off <= n /\ i - 1 \in Nat
  <2> HIDE DEF L, M, off
  <2> QED
    BY <1>1 DEF L, M, off
<1>5. n \in Nat
  BY <1>1
<1> HIDE DEF lits, L, M, off, base, n
<1>6. \A i \in 1 .. M : (i - 1) % off \in 0 .. off - 1
  BY <1>4, Periodic
<1>7. \A i \in 1 .. M : n - off + 1 + ((i - 1) % off) \in 1 .. n
  <2> TAKE i \in 1 .. M
  <2> DEFINE r == (i - 1) % off
  <2>1. r \in 0 .. off - 1 /\ off \in Nat /\ off > 0 /\ off <= n
    BY <1>4, <1>6
  <2> HIDE DEF r
  <2>2. n - off + 1 + r \in 1 .. n
    BY <1>5, <2>1
  <2> QED
    BY <2>2 DEF r
<1>8. copy \in Seq(Byte) /\ Len(copy) = M /\ \A i \in 1 .. M : copy[i] = base[n - off + 1 + ((i - 1) % off)]
  <2>1. \A i \in 1 .. M : base[n - off + 1 + ((i - 1) % off)] \in Byte
    BY <1>2, <1>7
  <2> QED
    BY <1>1, <2>1
<1> HIDE DEF copy
<1>9. /\ new \in Seq(Byte) /\ Len(new) = n + M
      /\ \A i \in 1 .. n : new[i] = base[i]
      /\ \A i \in 1 .. M : new[n + i] = copy[i]
  <2>1. base \in Seq(Byte) /\ Len(base) = n /\ copy \in Seq(Byte) /\ Len(copy) = M
    BY <1>2, <1>8
  <2>2. /\ new \in Seq(Byte) /\ Len(new) = Len(base) + Len(copy)
        /\ \A i \in 1 .. Len(base) : new[i] = base[i]
        /\ \A i \in 1 .. Len(copy) : new[Len(base) + i] = copy[i]
    <3>1. base \in Seq(Byte) /\ copy \in Seq(Byte)
      BY <2>1
    <3> QED
      BY <3>1, Joined
  <2> HIDE DEF new
  <2> QED
    BY <2>1, <2>2
<1> HIDE DEF new
<1>10. /\ \A i \in 1 .. Len(out) : new[i] = out[i]
       /\ \A i \in 1 .. L : new[Len(out) + i] = lits[i]
  <2>1. /\ \A i \in 1 .. Len(out) : i \in 1 .. n
        /\ \A i \in 1 .. L : Len(out) + i \in 1 .. n
    BY <1>1 DEF n
  <2> QED
    BY <1>2, <1>9, <2>1
<1>11. ASSUME NEW i \in 1 .. M PROVE new[n + i] = new[n + i - off]
  <2> DEFINE r == (i - 1) % off
  <2>1. new[n + i] = base[n - off + 1 + r]
    BY <1>8, <1>9
  <2>2. off \in Nat /\ off > 0 /\ off <= n /\ i - 1 \in Nat /\ i \in Nat /\ n \in Nat
    BY <1>4, <1>5
  <2>3. CASE i - 1 < off
    <3>1. r = i - 1
      BY <2>2, <2>3, Periodic
    <3> HIDE DEF r
    <3>2. n - off + 1 + r = n + i - off /\ n + i - off \in 1 .. n
      BY <2>2, <2>3, <3>1
    <3> QED
      BY <1>9, <2>1, <3>2
  <2>4. CASE i - 1 >= off
    <3> DEFINE j == i - off
    <3>1. j \in 1 .. M /\ n + j = n + i - off /\ j - 1 = (i - 1) - off
      BY <1>1, <2>2, <2>4
    <3>2. (j - 1) % off = r
      <4> DEFINE x == i - 1
      <4>1. x \in Nat /\ off \in Nat /\ off > 0 /\ x >= off
        BY <2>2, <2>4
      <4>2. j - 1 = x - off
        BY <3>1
      <4> HIDE DEF x, j
      <4>3. (x - off) % off = x % off
        BY ONLY <4>1, Periodic
      <4> QED
        BY <4>2, <4>3 DEF x
    <3> HIDE DEF j, r
    <3>3. new[n + j] = base[n - off + 1 + r]
      <4>1. copy[j] = base[n - off + 1 + ((j - 1) % off)]
        BY <1>8, <3>1
      <4>2. new[n + j] = copy[j]
        BY <1>9, <3>1
      <4> QED
        BY <3>2, <4>1, <4>2
    <3> QED
      BY <2>1, <3>1, <3>3
  <2> QED
    BY <2>2, <2>3, <2>4
<1> QED
  BY <1>3, <1>9, <1>10, <1>11 DEF L, M, off, lits, n

(* Every match of b starts inside the output before it.                    *)
LEMMA OffsetsAre ==
  ASSUME NEW b \in Seq(LZ4Sequence), OffsetsInside(b), NEW k \in 1 .. Len(b), MlenOf(b[k]) > 0
  PROVE  OffsetOf(b[k]) \in 1 .. DecodedLen(b, k - 1) + CountOf(b[k])
BY DEF OffsetsInside, MlenOf, OffsetOf, CountOf

(* The decoded length grows by the literals and the match of each sequence.*)
LEMMA LengthsAre ==
  ASSUME NEW b \in Seq(LZ4Sequence)
  PROVE  /\ DecodedLen(b, 0) = 0
         /\ \A k \in 0 .. Len(b) : DecodedLen(b, k) \in Nat
         /\ \A k \in 1 .. Len(b) :
              DecodedLen(b, k) = DecodedLen(b, k - 1) + CountOf(b[k]) + MlenOf(b[k])
<1>1. Len(b) \in Nat /\ \A k \in 1 .. Len(b) : Len(b[k].lits) \in Nat /\ b[k].mlen \in Nat
  BY BlockType DEF CountOf, MlenOf
<1> QED
  BY <1>1, LengthIs DEF CountOf, MlenOf

(* A block's output is as long as its records say, and the literals and    *)
(* the match of each record are in their places in it.                     *)
LEMMA DecodedPlaces ==
  ASSUME NEW b \in Seq(LZ4Sequence), OffsetsInside(b)
  PROVE  /\ Decode(b) \in Seq(Byte) /\ Len(Decode(b)) = DecodedLen(b, Len(b))
         /\ \A k \in 0 .. Len(b) : DecodedLen(b, k) <= Len(Decode(b))
         /\ \A k \in 1 .. Len(b) :
              LET n == DecodedLen(b, k - 1) + CountOf(b[k])
              IN  /\ \A i \in 1 .. CountOf(b[k]) :
                       Decode(b)[DecodedLen(b, k - 1) + i] = LitsOf(b[k])[i]
                  /\ \A i \in 1 .. MlenOf(b[k]) :
                       Decode(b)[n + i] = Decode(b)[n + i - OffsetOf(b[k])]
<1> DEFINE n == Len(b)
           size(k) == DecodedLen(b, k)
           out(k) == DecodedTo(b, k)
           Typed(k) == out(k) \in Seq(Byte) /\ Len(out(k)) = size(k)
<1>1. n \in Nat
  BY BlockType
<1>2. /\ size(0) = 0 /\ (\A k \in 0 .. n : size(k) \in Nat)
      /\ \A k \in 1 .. n : size(k) = size(k - 1) + CountOf(b[k]) + MlenOf(b[k])
  BY LengthsAre
<1>3. out(0) = <<>> /\ \A k \in 1 .. n : out(k) = DecodeSequence(out(k - 1), b[k])
  BY <1>1, DecodedIs
<1>4. ASSUME NEW k \in 1 .. n, Typed(k - 1)
      PROVE  /\ Typed(k)
             /\ \A i \in 1 .. size(k - 1) : out(k)[i] = out(k - 1)[i]
             /\ \A i \in 1 .. CountOf(b[k]) : out(k)[size(k - 1) + i] = LitsOf(b[k])[i]
             /\ \A i \in 1 .. MlenOf(b[k]) :
                  out(k)[size(k - 1) + CountOf(b[k]) + i]
                    = out(k)[size(k - 1) + CountOf(b[k]) + i - OffsetOf(b[k])]
  <2> DEFINE s == b[k]
             o == out(k - 1)
  <2>1. s \in LZ4Sequence
    BY BlockType
  <2>2. MlenOf(s) > 0 => OffsetOf(s) \in 1 .. size(k - 1) + CountOf(s)
    BY OffsetsAre
  <2>3. o \in Seq(Byte) /\ Len(o) = size(k - 1)
    BY <1>4
  <2>4. out(k) = DecodeSequence(o, s) /\ size(k) = size(k - 1) + CountOf(s) + MlenOf(s)
    BY <1>2, <1>3
  <2> HIDE DEF s, o, size, out
  <2>5. MlenOf(s) > 0 => OffsetOf(s) \in 1 .. Len(o) + CountOf(s)
    BY <2>2, <2>3
  <2> DEFINE new == DecodeSequence(o, s)
  <2>6. /\ new \in Seq(Byte) /\ Len(new) = Len(o) + CountOf(s) + MlenOf(s)
        /\ \A i \in 1 .. Len(o) : new[i] = o[i]
        /\ \A i \in 1 .. CountOf(s) : new[Len(o) + i] = LitsOf(s)[i]
        /\ \A i \in 1 .. MlenOf(s) :
             new[Len(o) + CountOf(s) + i] = new[Len(o) + CountOf(s) + i - OffsetOf(s)]
    <3>1. o \in Seq(Byte)
      BY <2>3
    <3> QED
      BY <2>1, <2>5, <3>1, DecodeSequenceIs
  <2> HIDE DEF new
  <2>7. new = out(k)
    BY <2>4 DEF new
  <2> QED
    BY <2>3, <2>4, <2>6, <2>7 DEF s, o
<1> DEFINE Good == {k \in Nat : k <= n => Typed(k)}
<1>5. 0 \in Good
  <2>1. Typed(0)
    <3>1. <<>> \in Seq(Byte) /\ Len(<<>>) = 0
      OBVIOUS
    <3> HIDE DEF size, out
    <3> QED
      BY <1>2, <1>3, <3>1
  <2> HIDE DEF Typed
  <2> QED
    BY <2>1
<1>6. ASSUME NEW k \in Good PROVE k + 1 \in Good
  <2> HIDE DEF Typed
  <2> SUFFICES ASSUME k + 1 <= n PROVE Typed(k + 1)
    OBVIOUS
  <2>1. k + 1 \in 1 .. n /\ (k + 1) - 1 = k /\ Typed(k)
    BY <1>1
  <2> QED
    BY <1>4, <2>1
<1>7. Good = Nat
  <2>1. Good \in SUBSET Nat
    OBVIOUS
  <2> HIDE DEF Good
  <2> QED
    BY <1>5, <1>6, <2>1, Induction
<1>8. \A k \in 0 .. n : Typed(k)
  <2> HIDE DEF Typed
  <2> QED
    BY <1>1, <1>7
(* Once there, a byte stays where it is.                                   *)
<1> DEFINE Kept(k, m) == /\ size(k) <= size(m)
                         /\ \A i \in 1 .. size(k) : out(m)[i] = out(k)[i]
           Stay(k) == {m \in Nat : k <= m /\ m <= n => Kept(k, m)}
<1>9. ASSUME NEW k \in 0 .. n PROVE Stay(k) = Nat
  <2>1. ASSUME NEW m \in Nat, m <= k PROVE m \in Stay(k)
    <3>1. k <= m => m = k
      BY <2>1
    <3>2. Kept(k, k)
      BY <1>2
    <3> HIDE DEF Kept
    <3> QED
      BY <3>1, <3>2
  <2>2. ASSUME NEW m \in Stay(k) PROVE m + 1 \in Stay(k)
    <3>1. CASE m + 1 <= k
      BY <2>1, <3>1
    <3>2. CASE ~(m + 1 <= k) /\ ~(m + 1 <= n)
      BY <3>2
    <3>3. CASE ~(m + 1 <= k) /\ m + 1 <= n
      <4>1. /\ m + 1 \in 1 .. n /\ (m + 1) - 1 = m /\ m \in 0 .. n /\ k <= m /\ m <= n
            /\ m \in Nat /\ k \in Nat
        BY <1>1, <3>3
      <4>2. Kept(k, m)
        BY <4>1
      <4>3. /\ size(m + 1) = size(m) + CountOf(b[m + 1]) + MlenOf(b[m + 1])
            /\ \A i \in 1 .. size(m) : out(m + 1)[i] = out(m)[i]
        BY <1>2, <1>4, <1>8, <4>1
      <4>4. /\ CountOf(b[m + 1]) \in Nat /\ MlenOf(b[m + 1]) \in Nat
            /\ size(m) \in Nat /\ size(k) \in Nat
        BY <1>2, <4>1, BlockType
      <4> DEFINE w == m + 1
      <4> HIDE DEF size, out, n, w
      <4>5. size(k) <= size(w) /\ \A i \in 1 .. size(k) : i \in 1 .. size(m)
        BY <4>2, <4>3, <4>4 DEF w
      <4>6. Kept(k, w)
        <5>1. \A i \in 1 .. size(k) : out(w)[i] = out(k)[i]
          BY <4>2, <4>3, <4>5 DEF w
        <5> QED
          BY <4>5, <5>1
      <4> HIDE DEF Kept
      <4>7. w \in Nat
        BY <4>1 DEF w
      <4> QED
        BY <4>6, <4>7 DEF w
    <3> QED
      BY <3>1, <3>2, <3>3
  <2>3. 0 \in Stay(k)
    BY <2>1
  <2>4. Stay(k) \in SUBSET Nat
    OBVIOUS
  <2> DEFINE G == Stay(k)
  <2>5. G \in SUBSET Nat /\ 0 \in G /\ \A m \in G : m + 1 \in G
    BY <2>2, <2>3, <2>4
  <2> HIDE DEF G
  <2>6. G = Nat
    BY <2>5, Induction
  <2> QED
    BY <2>6 DEF G
<1>10. ASSUME NEW k \in 0 .. n PROVE Kept(k, n)
  <2>1. n \in Stay(k)
    BY <1>1, <1>9
  <2>2. k <= n
    BY <1>1
  <2> HIDE DEF Kept, n
  <2> QED
    BY <2>1, <2>2
<1>11. Decode(b) = out(n) /\ n \in 0 .. n
  BY <1>1 DEF Decode
<1>12. ASSUME NEW k \in 1 .. n
       PROVE  /\ \A i \in 1 .. CountOf(b[k]) : out(n)[size(k - 1) + i] = LitsOf(b[k])[i]
              /\ \A i \in 1 .. MlenOf(b[k]) :
                   out(n)[size(k - 1) + CountOf(b[k]) + i]
                     = out(n)[size(k - 1) + CountOf(b[k]) + i - OffsetOf(b[k])]
  <2> DEFINE L == CountOf(b[k])
             M == MlenOf(b[k])
             off == OffsetOf(b[k])
             d == size(k - 1)
             e == size(k)
  <2>1. k \in 0 .. n /\ k - 1 \in 0 .. n
    BY <1>1
  <2>2. Kept(k, n) /\ Typed(k - 1)
    BY <1>8, <1>10, <2>1
  <2>3. L \in Nat /\ M \in Nat /\ d \in Nat /\ e = d + L + M
    BY <1>2, <2>1, BlockType
  <2>4. M > 0 => off \in 1 .. d + L
    BY OffsetsAre
  <2>5. /\ \A i \in 1 .. L : out(k)[d + i] = LitsOf(b[k])[i]
        /\ \A i \in 1 .. M : out(k)[d + L + i] = out(k)[d + L + i - off]
    BY <1>4, <2>2
  <2>6. \A i \in 1 .. e : out(n)[i] = out(k)[i]
    BY <2>2
  <2> HIDE DEF L, M, off, d, e, out
  <2>7. \A i \in 1 .. L : d + i \in 1 .. e
    BY <2>3
  <2>8. \A i \in 1 .. M : d + L + i \in 1 .. e /\ d + L + i - off \in 1 .. e
    BY <2>3, <2>4
  <2>9. /\ \A i \in 1 .. L : out(n)[d + i] = LitsOf(b[k])[i]
        /\ \A i \in 1 .. M : out(n)[d + L + i] = out(n)[d + L + i - off]
    BY <2>5, <2>6, <2>7, <2>8
  <2> QED
    BY <2>9 DEF L, M, off, d
<1>13. Typed(n) /\ \A k \in 0 .. n : size(k) <= size(n)
  BY <1>8, <1>10, <1>11
<1> QED
  BY <1>11, <1>12, <1>13
-----------------------------------------------------------------------------
(* Types.                                                                  *)

(* The arithmetic of the token and of the offset stays in the width of its *)
(* register.                                                               *)
LEMMA Widths ==
  /\ \A v \in Byte : /\ v \in Nat /\ v < 256
                     /\ v \div 16 \in Below(16) /\ v % 16 \in Below(16)
  /\ \A n \in Below(16) : n + 4 \in Below(65536) /\ n \in Below(65536)
  /\ \A n \in {0} : n \in Below(16) /\ n \in Byte /\ n \in Below(8192) /\ n \in Below(65536)
  /\ \A h, l \in Byte : 256 * h + l \in Below(65536)
<1>1. ASSUME NEW n \in Nat PROVE n % 8192 \in Below(8192) /\ n % 65536 \in Below(65536)
  <2>1. n % 8192 \in Nat /\ n % 8192 < 8192 /\ n % 65536 \in Nat /\ n % 65536 < 65536
    OBVIOUS
  <2> QED
    BY <2>1, BelowIs
<1>2. ASSUME NEW v \in Byte
      PROVE  v \in Nat /\ v < 256 /\ v \div 16 \in Below(16) /\ v % 16 \in Below(16)
  <2>1. v \in Nat /\ v < 256
    BY BelowIs DEF Byte
  <2>2. v \div 16 \in Nat /\ v \div 16 < 16 /\ v % 16 \in Nat /\ v % 16 < 16
    BY <2>1
  <2> QED
    BY <2>1, <2>2, BelowIs
<1>3. ASSUME NEW n \in Below(16) PROVE n + 4 \in Below(65536) /\ n \in Below(65536)
  <2>1. n \in Nat /\ n < 16
    BY BelowIs
  <2>2. n + 4 \in Nat /\ n + 4 < 65536 /\ n < 65536
    BY <2>1
  <2> QED
    BY <2>1, <2>2, BelowIs
<1>4. 0 \in Below(16) /\ 0 \in Byte /\ 0 \in Below(8192) /\ 0 \in Below(65536)
  BY BelowIs DEF Byte
<1>5. ASSUME NEW h \in Byte, NEW l \in Byte PROVE 256 * h + l \in Below(65536)
  <2>1. h \in Nat /\ h < 256 /\ l \in Nat /\ l < 256
    BY <1>2
  <2>2. 256 * h + l \in Nat /\ 256 * h + l < 65536
    BY <2>1
  <2> QED
    BY <2>2, BelowIs
<1> QED
  BY <1>1, <1>2, <1>3, <1>4, <1>5

(* A register set to a value of its width.                                 *)
LEMMA Fields ==
  ASSUME NEW r \in Registers
  PROVE  /\ r.state \in States /\ r.busy \in BOOLEAN /\ r.done \in BOOLEAN /\ r.error_flag \in BOOLEAN
         /\ r.decompressed_bytes \in Nat /\ r.write_ptr \in Nat /\ r.lit_len \in Nat
         /\ r.match_len \in Nat /\ r.match_offset \in Nat
         /\ r.saved_match_token \in Below(16) /\ r.offset_low \in Byte
         /\ r.last_byte_seen \in BOOLEAN /\ r.s_axis_tready \in BOOLEAN
         /\ r.m_axis_tvalid \in BOOLEAN /\ r.m_axis_tdata \in Byte \cup {X}
         /\ r.m_axis_tlast \in BOOLEAN
         /\ r.lit_len \in Below(65536) /\ r.match_len \in Below(65536)
         /\ r.write_ptr < 8192
BY BelowIs DEF Registers

Flags == {"busy", "done", "error_flag", "last_byte_seen", "s_axis_tready", "m_axis_tvalid",
          "m_axis_tlast"}

(* Setting one register leaves a register file (this lemma and the next    *)
(* six).                                                                   *)
LEMMA SetFlag ==
  ASSUME NEW r \in Registers, NEW f \in Flags, NEW v \in BOOLEAN
  PROVE  [r EXCEPT ![f] = v] \in Registers
BY DEF Registers, Flags

(* The write pointer and the byte count, 13 bits wide.                     *)
LEMMA SetPointer ==
  ASSUME NEW r \in Registers, NEW f \in {"write_ptr", "decompressed_bytes"}, NEW v \in Below(8192)
  PROVE  [r EXCEPT ![f] = v] \in Registers
BY DEF Registers

(* The lengths and the offset, 16 bits wide.                               *)
LEMMA SetLength ==
  ASSUME NEW r \in Registers, NEW f \in {"lit_len", "match_len", "match_offset"},
         NEW v \in Below(65536)
  PROVE  [r EXCEPT ![f] = v] \in Registers
BY DEF Registers

(* The nibble that TOKEN keeps for the match.                              *)
LEMMA SetNibble ==
  ASSUME NEW r \in Registers, NEW v \in Below(16)
  PROVE  [r EXCEPT !.saved_match_token = v] \in Registers
BY DEF Registers

(* The low byte of the offset.                                             *)
LEMMA SetByte ==
  ASSUME NEW r \in Registers, NEW v \in Byte
  PROVE  [r EXCEPT !.offset_low = v] \in Registers
BY DEF Registers

(* The byte shown on the output, which may be unknown.                     *)
LEMMA SetData ==
  ASSUME NEW r \in Registers, NEW v \in Byte \cup {X}
  PROVE  [r EXCEPT !.m_axis_tdata = v] \in Registers
BY DEF Registers

(* The state of the machine.                                               *)
LEMMA SetState ==
  ASSUME NEW r \in Registers, NEW v \in States
  PROVE  [r EXCEPT !.state = v] \in Registers
BY DEF Registers

(* What most states do with a byte: a length, and where to go from here.   *)
LiteralsNow(r, v, t, s) == [r EXCEPT !.lit_len = v, !.s_axis_tready = t, !.state = s]

(* A literal length, the ready flag and the state, set together.           *)
LEMMA SetLiterals ==
  ASSUME NEW r \in Registers, NEW v \in Below(65536), NEW t \in BOOLEAN, NEW s \in States
  PROVE  LiteralsNow(r, v, t, s) \in Registers
<1> DEFINE q == [r EXCEPT !.lit_len = v]
           p == [q EXCEPT !.s_axis_tready = t]
<1>1. q \in Registers
  BY SetLength
<1> HIDE DEF q
<1>2. p \in Registers
  BY <1>1, SetFlag DEF Flags
<1> HIDE DEF p
<1>3. [p EXCEPT !.state = s] \in Registers
  BY <1>2, SetState
<1> QED
  BY <1>3 DEF p, q, LiteralsNow

MatchNow(r, v, t, s) == [r EXCEPT !.match_len = v, !.s_axis_tready = t, !.state = s]

(* A match length, the ready flag and the state, set together.             *)
LEMMA SetMatch ==
  ASSUME NEW r \in Registers, NEW v \in Below(65536), NEW t \in BOOLEAN, NEW s \in States
  PROVE  MatchNow(r, v, t, s) \in Registers
<1> DEFINE q == [r EXCEPT !.match_len = v]
           p == [q EXCEPT !.s_axis_tready = t]
<1>1. q \in Registers
  BY SetLength
<1> HIDE DEF q
<1>2. p \in Registers
  BY <1>1, SetFlag DEF Flags
<1> HIDE DEF p
<1>3. [p EXCEPT !.state = s] \in Registers
  BY <1>2, SetState
<1> QED
  BY <1>3 DEF p, q, MatchNow

(* What a register keeps of a sum or a difference fits in it.              *)
LEMMA Wrapped ==
  ASSUME NEW n \in Int
  PROVE  n % 65536 \in Below(65536) /\ n % 8192 \in Below(8192)
<1>1. n % 65536 \in Nat /\ n % 65536 < 65536 /\ n % 8192 \in Nat /\ n % 8192 < 8192
  OBVIOUS
<1> QED
  BY <1>1, BelowIs

(* The producer's side of an edge.                                         *)
LEMMA ProduceTypes ==
  ASSUME TypeOK, Sending, Produce, Accepted \in BOOLEAN
  PROVE  /\ stream' \in Seq(Byte) /\ sent' \in 0 .. Len(stream') /\ offered' \in BOOLEAN
         /\ Sending'
         /\ offered => s_axis_tdata \in Byte
         /\ s_axis_tlast \in BOOLEAN
<1>1. Len(stream) \in Nat /\ sent \in 0 .. Len(stream) /\ stream \in Seq(Byte) /\ offered \in BOOLEAN
  BY DEF TypeOK
<1>2. stream' = stream /\ block' = block
  BY DEF Produce
<1>3. Accepted => offered /\ sent < Len(stream)
  BY DEF Accepted, Sending
<1>4. sent' \in 0 .. Len(stream)
  BY <1>1, <1>3 DEF Produce
<1>5. offered' \in BOOLEAN /\ (offered' => sent' < Len(stream))
  <2>1. CASE offered /\ ~Accepted
    BY <1>1, <2>1 DEF Produce, Sending
  <2>2. CASE ~(offered /\ ~Accepted) /\ sent' = Len(stream)
    BY <2>2 DEF Produce
  <2>3. CASE ~(offered /\ ~Accepted) /\ sent' # Len(stream)
    <3>1. offered' \in IF ProducerGaps THEN BOOLEAN ELSE {TRUE}
      BY <2>3, Zenon DEF Produce
    <3>2. offered' \in BOOLEAN
      BY <3>1
    <3> QED
      BY <1>1, <1>4, <2>3, <3>2
  <2> QED
    BY <2>1, <2>2, <2>3
<1>6. Sending'
  BY <1>2, <1>5 DEF Sending
<1>7. offered => s_axis_tdata \in Byte
  BY <1>1 DEF Sending, s_axis_tdata
<1>8. s_axis_tlast \in BOOLEAN
  BY DEF s_axis_tlast
<1> QED
  BY <1>1, <1>2, <1>4, <1>5, <1>6, <1>7, <1>8

(* The consumer takes bytes.                                               *)
LEMMA ConsumeTypes ==
  ASSUME TypeOK, NEW r, Consume(r)
  PROVE  taken' \in Seq(Byte \cup {X})
<1>1. taken \in Seq(Byte \cup {X}) /\ core.m_axis_tdata \in Byte \cup {X}
  BY Fields DEF TypeOK
<1> DEFINE d == core.m_axis_tdata
<1> HIDE DEF d
<1>2. Append(taken, d) \in Seq(Byte \cup {X})
  BY <1>1 DEF d
<1> QED
  BY <1>1, <1>2 DEF Consume, d

(* Noting the last byte of the stream touches one register only.           *)
LEMMA LatchedTypes ==
  ASSUME TypeOK, Sending
  PROVE  /\ Latched \in Registers /\ Accepted \in BOOLEAN
         /\ Latched = [core EXCEPT !.last_byte_seen = Latched.last_byte_seen]
<1> DEFINE l == core.last_byte_seen \/ (Accepted /\ s_axis_tlast)
<1>1. core \in Registers
  BY DEF TypeOK
<1>2. l \in BOOLEAN
  OBVIOUS
<1> HIDE DEF l
<1>3. Latched = [core EXCEPT !.last_byte_seen = l]
  BY DEF Latched, l
<1>4. [core EXCEPT !.last_byte_seen = l] \in Registers
  BY <1>1, <1>2 DEF Registers
<1>5. Latched.last_byte_seen = l
  BY <1>1, <1>3 DEF Registers
<1>6. Accepted \in BOOLEAN
  BY DEF Accepted
<1> QED
  BY <1>3, <1>4, <1>5, <1>6

(* The environment's variables after an edge in a state of the machine.    *)
LEMMA EdgeTypes ==
  ASSUME TypeOK, Sending, NEW st, NEW r, Edge(st, r),
         core' \in Registers, history_ram' \in [0..(MAX_BLOCK_SIZE - 1) -> Byte \cup {X}]
  PROVE  TypeOK' /\ Sending'
<1>1. Produce /\ Consume(r)
  BY DEF Edge
<1>2. /\ stream' \in Seq(Byte) /\ sent' \in 0 .. Len(stream') /\ offered' \in BOOLEAN
      /\ Sending'
  BY <1>1, ProduceTypes, LatchedTypes
<1>3. taken' \in Seq(Byte \cup {X})
  BY <1>1, ConsumeTypes
<1> QED
  BY <1>2, <1>3 DEF TypeOK

(* Showing a byte, advancing, writing the window and finishing keep the    *)
(* types.                                                                  *)
LEMMA ShownTypes ==
  ASSUME TypeOK, NEW r \in Registers, NEW byte \in Byte \cup {X}
  PROVE  /\ Present(r, byte) \in Registers /\ Advance(r) \in Registers
         /\ Remember(byte) \in [0..(MAX_BLOCK_SIZE - 1) -> Byte \cup {X}]
         /\ \A last \in BOOLEAN, next \in States : Finish(r, last, next) \in Registers
<1>1. Present(r, byte) \in Registers
  <2> DEFINE q == [r EXCEPT !.m_axis_tdata = byte]
             last == core.write_ptr = MAX_BLOCK_SIZE - 1
  <2>1. q \in Registers
    BY SetData
  <2>2. Present(r, byte) = [q EXCEPT !.m_axis_tvalid = TRUE, !.m_axis_tlast = last]
    BY DEF Present
  <2>3. last \in BOOLEAN
    OBVIOUS
  <2> HIDE DEF q, last
  <2>4. "m_axis_tvalid" \in Flags /\ "m_axis_tlast" \in Flags
    BY DEF Flags
  <2> DEFINE p == [q EXCEPT !["m_axis_tvalid"] = TRUE]
  <2>5. p \in Registers
    BY <2>1, <2>4, SetFlag
  <2>6. Present(r, byte) = [p EXCEPT !["m_axis_tlast"] = last]
    BY <2>2
  <2> HIDE DEF p
  <2> QED
    BY <2>3, <2>4, <2>5, <2>6, SetFlag
<1>2. Advance(r) \in Registers
  <2> DEFINE v == (r.write_ptr + 1) % 8192
             w == (r.decompressed_bytes + 1) % 8192
  <2>1. v \in Below(8192) /\ w \in Below(8192)
    <3> DEFINE a == r.write_ptr + 1
               b == r.decompressed_bytes + 1
    <3>1. a \in Nat /\ b \in Nat
      BY Fields
    <3> HIDE DEF a, b
    <3>2. /\ a % 8192 \in Nat /\ a % 8192 < 8192
          /\ b % 8192 \in Nat /\ b % 8192 < 8192
      BY <3>1
    <3>3. a % 8192 \in Below(8192) /\ b % 8192 \in Below(8192)
      BY <3>2, BelowIs
    <3> QED
      BY <3>3 DEF a, b
  <2> DEFINE q == [r EXCEPT !.write_ptr = v]
  <2>2. Advance(r) = [q EXCEPT !.decompressed_bytes = w]
    BY DEF Advance
  <2> HIDE DEF v, w
  <2>3. q \in Registers
    BY <2>1, SetPointer
  <2> HIDE DEF q
  <2>4. [q EXCEPT !.decompressed_bytes = w] \in Registers
    BY <2>1, <2>3, SetPointer
  <2> QED
    BY <2>2, <2>4
<1>3. Remember(byte) \in [0..(MAX_BLOCK_SIZE - 1) -> Byte \cup {X}]
  BY DEF Remember, TypeOK
<1>4. ASSUME NEW last \in BOOLEAN, NEW next \in States PROVE Finish(r, last, next) \in Registers
  <2>1. "DONE" \in States
    BY DEF States
  <2> DEFINE full == core.write_ptr + 1 = MAX_BLOCK_SIZE
             s == IF full \/ last THEN "DONE" ELSE next
             t == ~(full \/ last)
  <2>2. s \in States /\ t \in BOOLEAN
    BY <2>1
  <2> DEFINE q == [r EXCEPT !.s_axis_tready = t]
  <2>3. Finish(r, last, next) = [q EXCEPT !.state = s]
    BY DEF Finish
  <2> HIDE DEF s, t
  <2>4. q \in Registers
    BY <2>2, SetFlag DEF Flags
  <2> HIDE DEF q
  <2>5. [q EXCEPT !.state = s] \in Registers
    BY <2>2, <2>4, SetState
  <2> QED
    BY <2>3, <2>5
<1> QED
  BY <1>1, <1>2, <1>3, <1>4

(* The types hold after reset, with a stream being sent.                   *)
LEMMA InitTypes ==
  ASSUME Init
  PROVE  TypeOK /\ Sending
<1>1. InReset \in Registers
  BY Widths DEF InReset, Registers, States
<1>2. history_ram \in [0..(MAX_BLOCK_SIZE - 1) -> Byte \cup {X}]
  BY DEF Init
<1>3. Encode(<<>>) = <<>>
  BY EncodedIs DEF Encode
<1>4. <<>> \in Seq(Byte) /\ <<>> \in Seq(Byte \cup {X}) /\ Len(<<>>) = 0
  OBVIOUS
<1>5. /\ core = InReset /\ block = <<>> /\ stream = <<>> /\ sent = 0 /\ offered = FALSE
      /\ taken = <<>>
  BY DEF Init
<1>6. sent \in 0 .. Len(stream) /\ stream = Encode(block)
  BY <1>3, <1>4, <1>5
<1>7. block \in BlockSet \cup {<<>>}
  BY <1>5
<1> QED
  BY <1>1, <1>2, <1>4, <1>5, <1>6, <1>7 DEF TypeOK, Sending

(* Every edge of the clock, and the reset, keep the types.                 *)
LEMMA TypesKept ==
  ASSUME TypeOK, Sending, Next
  PROVE  TypeOK' /\ Sending'
<1> DEFINE Rams == [0..(MAX_BLOCK_SIZE - 1) -> Byte \cup {X}]
<1>1. core \in Registers /\ history_ram \in Rams
  BY DEF TypeOK
<1>2. Latched \in Registers /\ Accepted \in BOOLEAN
  BY LatchedTypes
<1>3. Accepted => offered
  BY DEF Accepted
<1>4. {"IDLE", "TOKEN", "EXT_LIT", "LITERAL", "OFFSET_L", "OFFSET_H", "EXT_MATCH", "MATCH_COPY",
       "DONE"} = States
  BY DEF States
<1>5. Produce => (offered => s_axis_tdata \in Byte) /\ s_axis_tlast \in BOOLEAN
  BY <1>2, ProduceTypes
<1> HIDE DEF Rams
<1>6. ASSUME Idle PROVE TypeOK' /\ Sending'
  <2>1. core' \in Registers
    BY <1>1, <1>6, SetFlag DEF Idle, Flags
  <2>2. taken' \in Seq(Byte \cup {X})
    <3>1. PICK r \in Ready : Consume(r)
      BY <1>6 DEF Idle
    <3> QED
      BY <3>1, ConsumeTypes
  <2> QED
    BY <1>6, <2>1, <2>2 DEF Idle, TypeOK, Sending
<1>7. ASSUME NEW b \in BlockSet, Start(b) PROVE TypeOK' /\ Sending'
  <2>1. core' \in Registers
    <3> DEFINE q == [core EXCEPT !.done = FALSE, !.error_flag = FALSE, !.last_byte_seen = FALSE,
                                 !.m_axis_tvalid = FALSE, !.m_axis_tlast = FALSE, !.busy = TRUE]
               p == [q EXCEPT !.write_ptr = 0, !.decompressed_bytes = 0]
    <3>1. q \in Registers
      BY <1>1, SetFlag DEF Flags
    <3>2. core' = [p EXCEPT !.s_axis_tready = TRUE, !.state = "TOKEN"]
      BY <1>7 DEF Start
    <3> HIDE DEF q
    <3>3. p \in Registers
      <4>1. 0 \in Below(8192)
        BY Widths
      <4> DEFINE o == [q EXCEPT !.write_ptr = 0]
      <4>2. o \in Registers
        BY <3>1, <4>1, SetPointer
      <4> HIDE DEF o
      <4>3. [o EXCEPT !.decompressed_bytes = 0] \in Registers
        BY <4>1, <4>2, SetPointer
      <4> QED
        BY <4>3 DEF o
    <3>4. "TOKEN" \in States
      BY <1>4
    <3> HIDE DEF p
    <3> QED
      BY <3>2, <3>3, <3>4, SetFlag, SetState DEF Flags
  <2>2. b \in Seq(LZ4Sequence)
    BY CoreAssumption
  <2>3. Encode(b) \in Seq(Byte)
    BY <2>2, EncodedPlaces
  <2>4. 0 \in 0 .. Len(Encode(b)) /\ 0 < Len(Encode(b))
    <3>1. Len(b) \in Nat /\ Len(b) > 0
      BY <2>2, CoreAssumption
    <3> DEFINE k == Len(b)
    <3>2. k \in 1 .. Len(b)
      BY <3>1
    <3>3. k - 1 \in 0 .. Len(b)
      BY <3>1
    <3> DEFINE p == Len(EncodedTo(b, k - 1))
               q == Len(EncodedTo(b, k))
               n == Len(Encode(b))
    <3>4. p \in Nat /\ q \in Nat
      BY <2>2, <3>2, <3>3, EncodedPlaces
    <3>5. p < q /\ q <= n /\ n \in Nat
      BY <2>2, <2>3, <3>2, EncodedPlaces
    <3> HIDE DEF p, q, n
    <3> QED
      BY <3>4, <3>5 DEF n
  <2>5. offered' \in BOOLEAN
    <3>1. offered' \in IF ProducerGaps THEN BOOLEAN ELSE {TRUE}
      BY <1>7, Zenon DEF Start
    <3> QED
      BY <3>1
  <2>6. <<>> \in Seq(Byte \cup {X})
    OBVIOUS
  <2> QED
    BY <1>7, <2>1, <2>3, <2>4, <2>5, <2>6 DEF Start, TypeOK, Sending
<1>8. ASSUME Token PROVE TypeOK' /\ Sending'
  <2>1. PICK r \in Ready : Edge("TOKEN", r)
    BY <1>8 DEF Token
  <2>2. history_ram' \in Rams
    BY <1>1, <1>8 DEF Token
  <2>3. core' \in Registers
    <3> DEFINE d == s_axis_tdata
               s == CASE d \div 16 = 15 -> "EXT_LIT"
                      [] d \div 16 \in 1..14 -> "LITERAL"
                      [] d \div 16 = 0 -> "OFFSET_L"
    <3>1. CASE ~Accepted
      BY <1>2, <1>8, <3>1, SetFlag DEF Token, Flags
    <3>2. CASE Accepted
      <4>1. d \in Byte
        BY <1>3, <1>5, <2>1, <3>2 DEF Edge
      <4>2. d \div 16 \in Below(65536) /\ d \div 16 \in Below(16) /\ d % 16 \in Below(16)
        BY <4>1, Widths
      <4>3. s \in States
        <5>1. d \div 16 \in Nat /\ d \div 16 < 16
          BY <4>2, BelowIs
        <5> QED
          BY <5>1 DEF States
      <4> DEFINE l == d \div 16
                 m == d % 16
                 q == [Latched EXCEPT !.m_axis_tvalid = FALSE, !.saved_match_token = m, !.lit_len = l]
      <4>4. core' = [q EXCEPT !.s_axis_tready = TRUE, !.state = s]
        BY <1>8, <3>2 DEF Token
      <4> HIDE DEF s, d, l, m
      <4>5. q \in Registers
        <5> DEFINE o == [Latched EXCEPT !.m_axis_tvalid = FALSE]
                   p == [o EXCEPT !.saved_match_token = m]
        <5>1. l \in Below(65536) /\ m \in Below(16)
          BY <4>2 DEF l, m
        <5>2. o \in Registers
          BY <1>2, SetFlag DEF Flags
        <5> HIDE DEF o
        <5>3. p \in Registers
          BY <5>1, <5>2, SetNibble
        <5> HIDE DEF p
        <5>4. [p EXCEPT !.lit_len = l] \in Registers
          BY <5>1, <5>3, SetLength
        <5> QED
          BY <5>4 DEF o, p
      <4> HIDE DEF q
      <4> QED
        BY <4>3, <4>4, <4>5, SetFlag, SetState DEF Flags
    <3> QED
      BY <3>1, <3>2
  <2> QED
    BY <2>1, <2>2, <2>3, EdgeTypes DEF Rams
<1>9. ASSUME ExtLit PROVE TypeOK' /\ Sending'
  <2>1. PICK r \in Ready : Edge("EXT_LIT", r)
    BY <1>9 DEF ExtLit
  <2>2. history_ram' \in Rams
    BY <1>1, <1>9 DEF ExtLit
  <2>3. core' \in Registers
    <3> DEFINE d == s_axis_tdata
               n == (Latched.lit_len + d) % 65536
               t == d # 255 \/ Latched.s_axis_tready
               s == IF d # 255 THEN "LITERAL" ELSE Latched.state
    <3>1. CASE ~Accepted
      BY <1>2, <1>9, <3>1 DEF ExtLit
    <3>2. CASE Accepted
      <4>1. d \in Byte
        BY <1>3, <1>5, <2>1, <3>2 DEF Edge
      <4>2. n \in Below(65536)
        <5>1. Latched.lit_len \in Nat /\ d \in Nat
          BY <1>2, <4>1, Fields, Widths
        <5> DEFINE m == Latched.lit_len + d
        <5> HIDE DEF d
        <5>2. m \in Int
          BY <5>1
        <5> HIDE DEF m
        <5>3. m % 65536 \in Below(65536)
          BY <5>2, Wrapped
        <5> QED
          BY <5>3 DEF m
      <4>3. s \in States /\ t \in BOOLEAN
        BY <1>2, <1>4, Fields
      <4>4. core' = LiteralsNow(Latched, n, t, s)
        BY <1>9, <3>2 DEF ExtLit, LiteralsNow
      <4> HIDE DEF s, n, t
      <4> QED
        BY <1>2, <4>2, <4>3, <4>4, SetLiterals
    <3> QED
      BY <3>1, <3>2
  <2> QED
    BY <2>1, <2>2, <2>3, EdgeTypes DEF Rams
<1>10. ASSUME Literal PROVE TypeOK' /\ Sending'
  <2>1. PICK r \in Ready :
          /\ Edge("LITERAL", r)
          /\ IF ~offered
             THEN core' = Latched /\ UNCHANGED history_ram
             ELSE LET shown == Present(Latched, s_axis_tdata) IN
                  IF ~r
                  THEN /\ core' = [shown EXCEPT !.s_axis_tready = FALSE]
                       /\ UNCHANGED history_ram
                  ELSE /\ core' = IF core.lit_len = 1
                                  THEN Finish(Advance(shown), s_axis_tlast, "OFFSET_L")
                                  ELSE [Advance(shown) EXCEPT
                                          !.lit_len = (@ - 1) % 65536,
                                          !.s_axis_tready = TRUE]
                       /\ history_ram' = Remember(s_axis_tdata)
    BY <1>10 DEF Literal
  <2> DEFINE d == s_axis_tdata
             shown == Present(Latched, d)
             next == Advance(shown)
             n == (next.lit_len - 1) % 65536
             more == [next EXCEPT !.lit_len = (@ - 1) % 65536, !.s_axis_tready = TRUE]
  <2>2. CASE ~offered
    BY <1>1, <1>2, <2>1, <2>2, EdgeTypes DEF Rams
  <2>3. CASE offered
    <3>1. d \in Byte /\ s_axis_tlast \in BOOLEAN
      BY <1>5, <2>1, <2>3 DEF Edge
    <3>2. shown \in Registers /\ Remember(d) \in Rams
      BY <1>2, <3>1, ShownTypes DEF Rams
    <3>3. next \in Registers
      <4> HIDE DEF shown
      <4> QED
        BY <3>2, ShownTypes
    <3>4. [shown EXCEPT !.s_axis_tready = FALSE] \in Registers
      <4> HIDE DEF shown
      <4> QED
        BY <3>2, SetFlag DEF Flags
    <3>5. more \in Registers
      <4>1. n \in Below(65536)
        <5> HIDE DEF next
        <5>1. next.lit_len - 1 \in Int
          BY <3>3, Fields
        <5> DEFINE m == next.lit_len - 1
        <5> HIDE DEF m
        <5>2. m % 65536 \in Below(65536)
          BY <5>1, Wrapped DEF m
        <5> QED
          BY <5>2 DEF m
      <4> DEFINE q == [next EXCEPT !.lit_len = n]
      <4>2. more = [q EXCEPT !.s_axis_tready = TRUE]
        OBVIOUS
      <4> HIDE DEF next, n, more
      <4>3. q \in Registers
        BY <3>3, <4>1, SetLength
      <4> HIDE DEF q
      <4>4. [q EXCEPT !.s_axis_tready = TRUE] \in Registers
        BY <4>3, SetFlag DEF Flags
      <4> QED
        BY <4>2, <4>4
    <3>6. Finish(next, s_axis_tlast, "OFFSET_L") \in Registers
      <4> HIDE DEF next
      <4>1. "OFFSET_L" \in States
        BY <1>4
      <4> QED
        BY <3>1, <3>3, <4>1, ShownTypes
    <3>7. core' \in {[shown EXCEPT !.s_axis_tready = FALSE], more, Finish(next, s_axis_tlast, "OFFSET_L")}
          /\ history_ram' \in {history_ram, Remember(d)}
      <4> HIDE DEF n
      <4> QED
        BY <2>1, <2>3
    <3> HIDE DEF shown, next, more, n, d
    <3>8. core' \in Registers /\ history_ram' \in Rams
      BY <1>1, <3>2, <3>4, <3>5, <3>6, <3>7
    <3> QED
      BY <2>1, <3>8, EdgeTypes DEF Rams
  <2> QED
    BY <1>2, <2>2, <2>3 DEF TypeOK
<1>11. ASSUME OffsetL PROVE TypeOK' /\ Sending'
  <2>1. PICK r \in Ready : Edge("OFFSET_L", r)
    BY <1>11 DEF OffsetL
  <2>2. history_ram' \in Rams
    BY <1>1, <1>11 DEF OffsetL
  <2>3. core' \in Registers
    <3>1. CASE ~Accepted
      BY <1>2, <1>11, <3>1, SetFlag DEF OffsetL, Flags
    <3>2. CASE Accepted
      <4> DEFINE q == [Latched EXCEPT !.m_axis_tvalid = FALSE, !.offset_low = s_axis_tdata]
      <4>1. s_axis_tdata \in Byte
        BY <1>3, <1>5, <2>1, <3>2 DEF Edge
      <4>2. q \in Registers
        BY <1>2, <4>1, SetFlag, SetByte DEF Flags
      <4>3. core' = [q EXCEPT !.s_axis_tready = TRUE, !.state = "OFFSET_H"]
        BY <1>11, <3>2 DEF OffsetL
      <4> HIDE DEF q
      <4>4. "OFFSET_H" \in States
        BY <1>4
      <4> QED
        BY <4>2, <4>3, <4>4, SetFlag, SetState DEF Flags
    <3> QED
      BY <3>1, <3>2
  <2> QED
    BY <2>1, <2>2, <2>3, EdgeTypes DEF Rams
<1>12. ASSUME OffsetH PROVE TypeOK' /\ Sending'
  <2>1. PICK r \in Ready : Edge("OFFSET_H", r)
    BY <1>12 DEF OffsetH
  <2>2. history_ram' \in Rams
    BY <1>1, <1>12 DEF OffsetH
  <2>3. core' \in Registers
    <3> DEFINE o == 256 * s_axis_tdata + core.offset_low
               n == core.saved_match_token + 4
               ext == core.saved_match_token = 15
               s == IF ext THEN "EXT_MATCH" ELSE "MATCH_COPY"
    <3>1. CASE ~Accepted
      BY <1>2, <1>12, <3>1 DEF OffsetH
    <3>2. CASE Accepted
      <4>1. s_axis_tdata \in Byte
        BY <1>3, <1>5, <2>1, <3>2 DEF Edge
      <4>2. o \in Below(65536) /\ n \in Below(65536)
        <5>1. core.offset_low \in Byte /\ core.saved_match_token \in Below(16)
          BY <1>1, Fields
        <5> DEFINE h == s_axis_tdata
                   l == core.offset_low
                   k == core.saved_match_token
        <5>6. h \in Below(256) /\ l \in Below(256) /\ k \in Below(16)
          BY <4>1, <5>1 DEF Byte
        <5> HIDE DEF h, l, k
        <5>2. h \in Nat /\ h < 256 /\ l \in Nat /\ l < 256 /\ k \in Nat /\ k < 16
          BY <5>6, BelowIs
        <5>3. /\ 256 * h + l \in Nat /\ 256 * h + l < 65536
              /\ k + 4 \in Nat /\ k + 4 < 65536
          BY <5>2
        <5>4. 256 * h + l \in Below(65536) /\ k + 4 \in Below(65536)
          BY <5>3, BelowIs
        <5> QED
          BY <5>4 DEF h, l, k
      <4>3. s \in States /\ ext \in BOOLEAN
        BY <1>4
      <4> DEFINE q == [Latched EXCEPT !.match_offset = o]
      <4>4. core' = MatchNow(q, n, ext, s)
        BY <1>12, <3>2 DEF OffsetH, MatchNow
      <4> HIDE DEF o, n, s, ext
      <4>5. q \in Registers
        BY <1>2, <4>2, SetLength
      <4> HIDE DEF q
      <4> QED
        BY <4>2, <4>3, <4>4, <4>5, SetMatch
    <3> QED
      BY <3>1, <3>2
  <2> QED
    BY <2>1, <2>2, <2>3, EdgeTypes DEF Rams
<1>13. ASSUME ExtMatch PROVE TypeOK' /\ Sending'
  <2>1. PICK r \in Ready : Edge("EXT_MATCH", r)
    BY <1>13 DEF ExtMatch
  <2>2. history_ram' \in Rams
    BY <1>1, <1>13 DEF ExtMatch
  <2>3. core' \in Registers
    <3> DEFINE d == s_axis_tdata
               n == (Latched.match_len + d) % 65536
               t == d = 255 /\ Latched.s_axis_tready
               s == IF d # 255 THEN "MATCH_COPY" ELSE Latched.state
    <3>1. CASE ~Accepted
      BY <1>2, <1>13, <3>1 DEF ExtMatch
    <3>2. CASE Accepted
      <4>1. d \in Byte
        BY <1>3, <1>5, <2>1, <3>2 DEF Edge
      <4>2. n \in Below(65536)
        <5>1. Latched.match_len \in Nat /\ d \in Nat
          BY <1>2, <4>1, Fields, Widths
        <5> DEFINE m == Latched.match_len + d
        <5> HIDE DEF d
        <5>2. m \in Int
          BY <5>1
        <5> HIDE DEF m
        <5>3. m % 65536 \in Below(65536)
          BY <5>2, Wrapped
        <5> QED
          BY <5>3 DEF m
      <4>3. s \in States /\ t \in BOOLEAN
        BY <1>2, <1>4, Fields
      <4>4. core' = MatchNow(Latched, n, t, s)
        BY <1>13, <3>2 DEF ExtMatch, MatchNow
      <4> HIDE DEF s, n, t
      <4> QED
        BY <1>2, <4>2, <4>3, <4>4, SetMatch
    <3> QED
      BY <3>1, <3>2
  <2> QED
    BY <2>1, <2>2, <2>3, EdgeTypes DEF Rams
<1>14. ASSUME MatchCopy PROVE TypeOK' /\ Sending'
  <2> DEFINE byte == Window(match_read_addr)
             next == Advance(Copied)
  <2>1. PICK r \in Ready :
          /\ Edge("MATCH_COPY", r)
          /\ IF ~r
             THEN core' = Copied /\ UNCHANGED history_ram
             ELSE /\ core' = IF core.match_len = 1
                             THEN Finish(next, core.last_byte_seen, "TOKEN") ELSE OneLess(next)
                  /\ history_ram' = Remember(byte)
    BY <1>14 DEF MatchCopy
  <2>2. byte \in Byte \cup {X}
    <3>1. match_read_addr \in Nat
      <4>1. core.write_ptr \in Nat /\ core.match_offset \in Nat
        BY <1>1, Fields
      <4> DEFINE diff == core.write_ptr - core.match_offset
      <4>2. diff \in Int
        BY <4>1
      <4> HIDE DEF diff
      <4>3. diff % 4096 \in Nat
        BY <4>2
      <4> QED
        BY <4>3 DEF match_read_addr, diff
    <3>2. \A a \in Nat : a < MAX_BLOCK_SIZE => a \in 0 .. MAX_BLOCK_SIZE - 1
      BY CoreAssumption
    <3> QED
      BY <1>1, <3>1, <3>2 DEF Window, Rams
  <2> HIDE DEF byte
  <2>3. Copied \in Registers /\ Remember(byte) \in Rams
    <3> DEFINE q == [Latched EXCEPT !.s_axis_tready = FALSE]
    <3>1. q \in Registers
      BY <1>2, SetFlag DEF Flags
    <3>2. Copied = Present(q, byte)
      BY DEF Copied, byte
    <3> HIDE DEF q
    <3> QED
      BY <2>2, <3>1, <3>2, ShownTypes DEF Rams
  <2>4. next \in Registers
    BY <2>3, ShownTypes
  <2> HIDE DEF next
  <2>5. OneLess(next) \in Registers
    <3> DEFINE m == next.match_len - 1
               n == m % 65536
    <3>1. m \in Int
      BY <2>4, Fields
    <3>2. OneLess(next) = [next EXCEPT !.match_len = n]
      BY DEF OneLess
    <3> HIDE DEF m
    <3>3. n \in Below(65536)
      BY <3>1, Wrapped
    <3> HIDE DEF n
    <3>4. [next EXCEPT !.match_len = n] \in Registers
      BY <2>4, <3>3, SetLength
    <3> QED
      BY <3>2, <3>4
  <2>6. Finish(next, core.last_byte_seen, "TOKEN") \in Registers
    <3>1. "TOKEN" \in States
      BY <1>4
    <3>2. core.last_byte_seen \in BOOLEAN
      BY <1>1, Fields
    <3> QED
      BY <2>4, <3>1, <3>2, ShownTypes
  <2>7. core' \in Registers /\ history_ram' \in Rams
    BY <1>1, <2>1, <2>3, <2>5, <2>6
  <2> QED
    BY <2>1, <2>7, EdgeTypes DEF Rams
<1>15. ASSUME Done PROVE TypeOK' /\ Sending'
  <2>1. PICK r \in Ready : Edge("DONE", r)
    BY <1>15 DEF Done
  <2>2. core' \in Registers /\ history_ram' \in Rams
    <3> DEFINE q == [Latched EXCEPT !.m_axis_tvalid = FALSE, !.m_axis_tlast = FALSE,
                                    !.s_axis_tready = FALSE, !.done = TRUE, !.busy = FALSE]
    <3>1. q \in Registers
      BY <1>2, SetFlag DEF Flags
    <3>2. core' = [q EXCEPT !.state = "IDLE"] /\ history_ram' = history_ram
      BY <1>15 DEF Done
    <3>3. "IDLE" \in States
      BY <1>4
    <3> HIDE DEF q
    <3> QED
      BY <1>1, <3>1, <3>2, <3>3, SetState
  <2> QED
    BY <2>1, <2>2, EdgeTypes DEF Rams
<1>16. ASSUME Reset PROVE TypeOK' /\ Sending'
  <2>1. InReset \in Registers
    BY <1>4, Widths DEF InReset, Registers
  <2>2. Encode(<<>>) = <<>>
    BY EncodedIs DEF Encode
  <2>3. core' = InReset /\ block' = <<>> /\ stream' = <<>> /\ sent' = 0 /\ offered' = FALSE
        /\ taken' = <<>> /\ history_ram' = history_ram
    BY <1>16 DEF Reset
  <2>4. <<>> \in Seq(Byte) /\ <<>> \in Seq(Byte \cup {X}) /\ Len(<<>>) = 0
    OBVIOUS
  <2>5. block' \in BlockSet \cup {<<>>} /\ stream' = Encode(block') /\ sent' \in 0 .. Len(stream')
    BY <2>2, <2>3, <2>4
  <2>6. core' \in Registers /\ history_ram' \in Rams /\ stream' \in Seq(Byte)
        /\ taken' \in Seq(Byte \cup {X}) /\ offered' = FALSE
    BY <1>1, <2>1, <2>3, <2>4
  <2> QED
    BY <2>5, <2>6 DEF Rams, TypeOK, Sending
<1> QED
  BY <1>6, <1>7, <1>8, <1>9, <1>10, <1>11, <1>12, <1>13, <1>14, <1>15, <1>16 DEF Next, ClockEdge

(* The types hold always.                                                  *)
LEMMA TypesAlways == Spec => [](TypeOK /\ Sending)
<1>1. Init => TypeOK /\ Sending
  BY InitTypes
<1>2. TypeOK /\ Sending /\ [Next]_vars => (TypeOK /\ Sending)'
  <2>1. ASSUME TypeOK, Sending, UNCHANGED vars PROVE TypeOK' /\ Sending'
    BY <2>1 DEF vars, environment, TypeOK, Sending
  <2> QED
    BY <2>1, TypesKept
<1> QED
  BY <1>1, <1>2, PTL DEF Spec

-----------------------------------------------------------------------------
(* A record of the block that is being sent.                               *)

(* Where its parts are, and what follows it.                               *)
Places(k) ==
  /\ k \in 1 .. Len(block) /\ Len(block) \in Nat
  /\ Literals(k) \in Nat /\ Match(k) \in Nat
  /\ TokenAt(k) \in Nat /\ LitsAt(k) \in Nat /\ OffsetAt(k) \in Nat
  /\ OutAt(k) \in Nat /\ CopyAt(k) \in Nat
  /\ LitsAt(k) = TokenAt(k) + 1 + Len(Extension(Literals(k)))
  /\ OffsetAt(k) = LitsAt(k) + Literals(k) /\ CopyAt(k) = OutAt(k) + Literals(k)
  /\ OffsetAt(k) <= Len(stream) /\ CopyAt(k) + Match(k) <= Len(Out)
  /\ Len(stream) \in Nat /\ Len(Out) \in Nat /\ Len(Out) <= MAX_BLOCK_SIZE
  /\ MAX_BLOCK_SIZE \in Nat /\ MAX_BLOCK_SIZE <= 4096

(* The last record may end behind its literals.                            *)
Plain(k) ==
  Match(k) = 0 =>
    /\ Literals(k) > 0 /\ k = Len(block)
    /\ OffsetAt(k) = Len(stream) /\ CopyAt(k) = Len(Out)

Matched(k) ==
  Match(k) > 0 =>
    /\ Match(k) >= 4 /\ Offset(k) \in Nat /\ Offset(k) >= 1 /\ Offset(k) <= CopyAt(k)
    /\ EndAt(k) \in Nat /\ EndAt(k) = OffsetAt(k) + 2 + Len(Extension(Match(k) - 4))
    /\ EndAt(k) <= Len(stream)
    /\ k = Len(block) => EndAt(k) = Len(stream) /\ CopyAt(k) + Match(k) = Len(Out)
    /\ k < Len(block) =>
         /\ k + 1 \in 1 .. Len(block)
         /\ EndAt(k) < Len(stream) /\ CopyAt(k) + Match(k) < Len(Out)
         /\ TokenAt(k + 1) = EndAt(k) /\ OutAt(k + 1) = CopyAt(k) + Match(k)

(* Which bytes of the stream say so.                                       *)
Written(k) ==
  /\ stream[TokenAt(k) + 1] \div 16 = Nibble(Literals(k))
  /\ \A i \in 1 .. Len(Extension(Literals(k))) :
       stream[TokenAt(k) + 1 + i] = Extension(Literals(k))[i]
  /\ \A i \in 1 .. Literals(k) : stream[LitsAt(k) + i] = Out[OutAt(k) + i]
  /\ Match(k) > 0 =>
       /\ stream[TokenAt(k) + 1] % 16 = Nibble(Match(k) - 4)
       /\ stream[OffsetAt(k) + 1] = Offset(k) % 256
       /\ stream[OffsetAt(k) + 2] = Offset(k) \div 256
       /\ \A i \in 1 .. Len(Extension(Match(k) - 4)) :
            stream[OffsetAt(k) + 2 + i] = Extension(Match(k) - 4)[i]

(* What the match repeats.                                                 *)
Repeated(k) ==
  \A i \in 1 .. Match(k) : Out[CopyAt(k) + i] = Out[CopyAt(k) + i - Offset(k)]

(* What a well-formed block is: its offsets reach back inside the output,  *)
(* it fits in a block, and only its last sequence lacks a match.           *)
LEMMA WellFormedIs ==
  ASSUME NEW b \in Seq(LZ4Sequence), WellFormed(b, MAX_BLOCK_SIZE)
  PROVE  /\ OffsetsInside(b) /\ DecodedLen(b, Len(b)) <= MAX_BLOCK_SIZE
         /\ \A k \in 1 .. Len(b) : MlenOf(b[k]) = 0 => k = Len(b) /\ CountOf(b[k]) > 0
<1>1. /\ OffsetsInside(b) /\ DecodedLen(b, Len(b)) <= MAX_BLOCK_SIZE
      /\ \A k \in DOMAIN b : MlenOf(b[k]) = 0 => k = Len(b) /\ LitsOf(b[k]) # <<>>
  BY DEF WellFormed, MlenOf, LitsOf
<1>2. ASSUME NEW k \in 1 .. Len(b), MlenOf(b[k]) = 0 PROVE k = Len(b) /\ CountOf(b[k]) > 0
  <2> DEFINE s == b[k]
             l == LitsOf(s)
  <2>1. k \in DOMAIN b /\ s \in LZ4Sequence
    BY BlockType
  <2>2. l # <<>> /\ k = Len(b)
    BY <1>1, <1>2, <2>1
  <2> HIDE DEF s
  <2>3. l \in Seq(Byte) /\ CountOf(s) = Len(l)
    BY <2>1, SequenceType
  <2> HIDE DEF l
  <2>4. Len(l) > 0
    BY <2>2, <2>3
  <2> QED
    BY <2>2, <2>3, <2>4 DEF s
<1> QED
  BY <1>1, <1>2

(* Where the records of a block that fits lie in the stream, what the      *)
(* stream holds there, and where its bytes fall in the output.             *)
LEMMA Layout ==
  ASSUME block \in Seq(LZ4Sequence), stream = Encode(block), Fits, NEW k \in DOMAIN block
  PROVE  Places(k) /\ Plain(k) /\ Matched(k) /\ Written(k) /\ Repeated(k)
<1> DEFINE s == block[k]
           r == EncodeSequence(s)
           n == Len(block)
           T == TokenAt(k)
           U == Len(EncodedTo(block, k))
           S == Len(stream)
           P == OutAt(k)
           Q == DecodedLen(block, k)
           L == Literals(k)
           M == Match(k)
           x == Len(Extension(L))
           y == Len(Extension(M - 4))
<1>1. n \in Nat /\ k \in 1 .. n /\ s \in LZ4Sequence /\ k - 1 \in 0 .. n /\ k \in 0 .. n
  BY BlockType
<1>2. L = CountOf(s) /\ M = MlenOf(s) /\ Offset(k) = OffsetOf(s)
  BY DEF Literals, Match, Offset, CountOf, MlenOf, OffsetOf
<1>3. L \in Nat /\ M \in Nat /\ (M > 0 => M >= 4 /\ M - 4 \in Nat)
  BY <1>1, <1>2, SequenceType
<1>4. x \in Nat
  BY <1>3, ExtensionIs
<1>5. M > 0 => y \in Nat
  BY <1>3, ExtensionIs
<1>6. /\ OffsetsInside(block) /\ DecodedLen(block, n) <= MAX_BLOCK_SIZE
      /\ (M = 0 => k = n /\ L > 0)
      /\ \A i \in 1 .. n : MlenOf(block[i]) = 0 => CountOf(block[i]) > 0
  BY <1>1, <1>2, WellFormedIs DEF Fits
<1>7. /\ T \in Nat /\ U \in Nat /\ U = T + Len(r) /\ U <= S /\ (k < n => U < S)
      /\ \A i \in 1 .. Len(r) : stream[T + i] = r[i]
  BY <1>1, EncodedPlaces DEF TokenAt
<1>8. S \in Nat /\ (k = n => U = S)
  <2>1. stream \in Seq(Byte)
    BY EncodedPlaces
  <2> QED
    BY <2>1 DEF Encode
<1>9. BytesOf(r, s) /\ LitsFrom(s) = 1 + x /\ MatchFrom(s) = 1 + x + L
  BY <1>1, <1>2, SequenceBytes DEF LitsFrom, MatchFrom
<1>10. /\ P \in Nat /\ Q \in Nat /\ Q = P + L + M
       /\ Len(Out) = DecodedLen(block, n) /\ Out \in Seq(Byte)
       /\ Q <= Len(Out)
       /\ \A i \in 1 .. L : Out[P + i] = LitsOf(s)[i]
       /\ \A i \in 1 .. M : Out[P + L + i] = Out[P + L + i - OffsetOf(s)]
  <2>1. P \in Nat /\ Q \in Nat /\ Q = P + L + M
    BY <1>1, <1>2, LengthsAre DEF OutAt
  <2>2. Len(Out) = DecodedLen(block, n) /\ Out \in Seq(Byte) /\ Q <= Len(Out)
    BY <1>1, <1>6, DecodedPlaces DEF Out
  <2>3. /\ \A i \in 1 .. CountOf(s) : Out[P + i] = LitsOf(s)[i]
        /\ \A i \in 1 .. MlenOf(s) :
             Out[P + CountOf(s) + i] = Out[P + CountOf(s) + i - OffsetOf(s)]
    BY <1>1, <1>6, DecodedPlaces DEF Out, OutAt
  <2> QED
    BY <1>2, <2>1, <2>2, <2>3
<1>11. M > 0 => OffsetOf(s) \in 1 .. P + L
  BY <1>1, <1>2, <1>6, OffsetsAre DEF OutAt
<1>12. k < n => Q < Len(Out)
  <2> SUFFICES ASSUME k < n PROVE Q < Len(Out)
    OBVIOUS
  <2> DEFINE j == k + 1
             a == CountOf(block[j])
             b == MlenOf(block[j])
             R == DecodedLen(block, j)
  <2>1. j \in 1 .. n /\ j - 1 = k /\ j \in 0 .. n
    BY <1>1
  <2> HIDE DEF j
  <2>2. a \in Nat /\ b \in Nat /\ R = Q + a + b
    BY <2>1, BlockType, LengthsAre
  <2>3. R <= Len(Out)
    BY <1>6, <2>1, DecodedPlaces DEF Out
  <2>4. b = 0 => a > 0
    BY <1>6, <2>1
  <2>5. R \in Nat
    BY <2>1, LengthsAre
  <2>6. Len(Out) \in Nat
    BY <1>10
  <2> HIDE DEF a, b, R, Q
  <2> QED
    BY <1>10, <2>2, <2>3, <2>4, <2>5, <2>6
<1>13. /\ Len(r) \in Nat /\ (M = 0 => Len(r) = 1 + x + L) /\ (M > 0 => Len(r) = 1 + x + L + 2 + y)
  BY <1>2, <1>3, <1>4, <1>5, <1>9 DEF BytesOf
<1>14. /\ LitsAt(k) = T + 1 + x /\ OffsetAt(k) = T + 1 + x + L
       /\ CopyAt(k) = P + L
       /\ EndAt(k) = OffsetAt(k) + 2 + y
       /\ TokenAt(k + 1) = U /\ OutAt(k + 1) = Q
  <2>1. (k + 1) - 1 = k
    BY <1>1
  <2> QED
    BY <2>1 DEF LitsAt, OffsetAt, CopyAt, EndAt, TokenAt, OutAt
<1> HIDE DEF r, n, T, U, S, P, Q, L, M, x, y
<1>15. MAX_BLOCK_SIZE \in Nat /\ MAX_BLOCK_SIZE <= 4096
  BY CoreAssumption
<1>16. OffsetAt(k) <= U /\ (M > 0 => EndAt(k) = U) /\ (M = 0 => OffsetAt(k) = U)
  <2>1. T \in Nat /\ U \in Nat /\ U = T + Len(r)
    BY <1>7
  <2>2. CASE M = 0
    <3>1. Len(r) = 1 + x + L
      BY <1>13, <2>2
    <3> QED
      BY <1>3, <1>4, <1>14, <2>1, <2>2, <3>1
  <2>3. CASE M > 0
    <3>1. Len(r) = 1 + x + L + 2 + y /\ y \in Nat
      BY <1>5, <1>13, <2>3
    <3> QED
      BY <1>3, <1>4, <1>14, <2>1, <2>3, <3>1
  <2> QED
    BY <1>3, <2>2, <2>3
<1>17. Places(k)
  <2>1. T \in Nat /\ U \in Nat /\ U <= S
    BY <1>7
  <2>2. P \in Nat /\ Q = P + L + M /\ Q <= Len(Out) /\ Len(Out) = DecodedLen(block, n)
    BY <1>10
  <2>3. Len(Out) \in Nat
    <3>1. Out \in Seq(Byte)
      BY <1>10
    <3> QED
      BY <3>1
  <2>4. OffsetAt(k) <= S /\ CopyAt(k) + M <= Len(Out)
    BY <1>3, <1>4, <1>8, <1>14, <1>16, <2>1, <2>2, <2>3
  <2>5. LitsAt(k) \in Nat /\ OffsetAt(k) \in Nat /\ CopyAt(k) \in Nat
    BY <1>3, <1>4, <1>14, <2>1, <2>2
  <2>6. Len(Out) <= MAX_BLOCK_SIZE
    BY <1>6, <2>2
  <2>7. LitsAt(k) \in Nat /\ OffsetAt(k) \in Nat /\ CopyAt(k) \in Nat /\ Len(Out) \in Nat
        /\ Len(Out) <= MAX_BLOCK_SIZE
    BY <2>3, <2>5, <2>6
  <2>8. OffsetAt(k) = LitsAt(k) + L
    BY <1>3, <1>4, <1>7, <1>14
  <2> QED
    BY <1>1, <1>3, <1>7, <1>8, <1>10, <1>14, <1>15, <2>4, <2>7, <2>8 DEF Places, n, T, S, P, L, M, x
<1>18. Plain(k)
  <2>1. M = 0 => L > 0 /\ k = n /\ OffsetAt(k) = S /\ CopyAt(k) = Len(Out)
    BY <1>3, <1>6, <1>8, <1>10, <1>14, <1>16 DEF n, Q
  <2> QED
    BY <2>1 DEF Plain, n, S, L, M
<1>19. Matched(k)
  <2> SUFFICES ASSUME M > 0 PROVE Matched(k)
    BY DEF Matched, M
  <2>1. M >= 4 /\ Offset(k) \in Nat /\ Offset(k) >= 1 /\ Offset(k) <= CopyAt(k)
    <3>1. Offset(k) \in 1 .. P + L /\ CopyAt(k) = P + L
      BY <1>2, <1>11, <1>14
    <3>2. P \in Nat /\ L \in Nat /\ M >= 4
      BY <1>3, <1>10
    <3> QED
      BY <3>1, <3>2
  <2>2. EndAt(k) = U /\ EndAt(k) \in Nat /\ EndAt(k) = OffsetAt(k) + 2 + y /\ U <= S
    BY <1>7, <1>14, <1>16
  <2>3. CopyAt(k) + M = Q
    BY <1>10, <1>14
  <2>4. k = n => EndAt(k) = S /\ Q = Len(Out)
    BY <1>8, <1>10, <2>2 DEF Q
  <2>5. k < n => k + 1 \in 1 .. n /\ EndAt(k) < S /\ Q < Len(Out)
    BY <1>1, <1>7, <1>12, <2>2
  <2> QED
    BY <1>14, <2>1, <2>2, <2>3, <2>4, <2>5 DEF Matched, n, S, M, y
<1>20. Written(k)
  <2>1. /\ r[1] \div 16 = Nibble(L)
        /\ \A i \in 1 .. x : r[1 + i] = Extension(L)[i]
        /\ \A i \in 1 .. L : r[1 + x + i] = LitsOf(s)[i]
    BY <1>2, <1>9 DEF BytesOf, x
  <2>2. M > 0 =>
          /\ r[1] % 16 = Nibble(M - 4)
          /\ r[1 + x + L + 1] = Offset(k) % 256 /\ r[1 + x + L + 2] = Offset(k) \div 256
          /\ \A i \in 1 .. y : r[1 + x + L + 2 + i] = Extension(M - 4)[i]
    BY <1>2, <1>9 DEF BytesOf, y
  <2>3. /\ 1 \in 1 .. Len(r) /\ (\A i \in 1 .. x : 1 + i \in 1 .. Len(r))
        /\ \A i \in 1 .. L : 1 + x + i \in 1 .. Len(r)
    BY <1>3, <1>4, <1>5, <1>13
  <2>4. M > 0 => /\ 1 + x + L + 1 \in 1 .. Len(r) /\ 1 + x + L + 2 \in 1 .. Len(r)
                 /\ \A i \in 1 .. y : 1 + x + L + 2 + i \in 1 .. Len(r)
    BY <1>3, <1>4, <1>5, <1>13
  <2>5. /\ stream[T + 1] = r[1] /\ (\A i \in 1 .. x : stream[T + (1 + i)] = r[1 + i])
        /\ \A i \in 1 .. L : stream[T + (1 + x + i)] = r[1 + x + i]
    BY <1>7, <2>3
  <2>6. M > 0 => /\ stream[T + (1 + x + L + 1)] = r[1 + x + L + 1]
                 /\ stream[T + (1 + x + L + 2)] = r[1 + x + L + 2]
                 /\ \A i \in 1 .. y : stream[T + (1 + x + L + 2 + i)] = r[1 + x + L + 2 + i]
    BY <1>7, <2>4
  <2>7. /\ (\A i \in 1 .. x : T + (1 + i) = T + 1 + i)
        /\ \A i \in 1 .. L : T + (1 + x + i) = LitsAt(k) + i
    BY <1>3, <1>4, <1>7, <1>14
  <2>8. M > 0 => /\ T + (1 + x + L + 1) = OffsetAt(k) + 1
                 /\ T + (1 + x + L + 2) = OffsetAt(k) + 2
                 /\ \A i \in 1 .. y : T + (1 + x + L + 2 + i) = OffsetAt(k) + 2 + i
    BY <1>3, <1>4, <1>5, <1>7, <1>14
  <2>9. /\ stream[T + 1] \div 16 = Nibble(L)
        /\ (\A i \in 1 .. x : stream[T + 1 + i] = Extension(L)[i])
        /\ \A i \in 1 .. L : stream[LitsAt(k) + i] = Out[P + i]
    BY <1>10, <2>1, <2>5, <2>7
  <2>10. M > 0 =>
           /\ stream[T + 1] % 16 = Nibble(M - 4)
           /\ stream[OffsetAt(k) + 1] = Offset(k) % 256
           /\ stream[OffsetAt(k) + 2] = Offset(k) \div 256
           /\ \A i \in 1 .. y : stream[OffsetAt(k) + 2 + i] = Extension(M - 4)[i]
    BY <2>2, <2>5, <2>6, <2>8
  <2> QED
    BY <2>9, <2>10, Zenon DEF Written, T, L, M, P, x, y
<1>21. Repeated(k)
  BY <1>2, <1>10, <1>14 DEF Repeated, M
<1> QED
  BY <1>17, <1>18, <1>19, <1>20, <1>21
-----------------------------------------------------------------------------
(* The core between the peers of the testbench.                            *)

Testbench == ~ProducerGaps /\ ~ConsumerStalls

(* While the block is the same, so is everything computed from it.         *)
LEMMA SameBlock ==
  ASSUME block' = block, NEW k
  PROVE  /\ Fits' <=> Fits
         /\ Out' = Out
         /\ Literals(k)' = Literals(k) /\ Offset(k)' = Offset(k) /\ Match(k)' = Match(k)
         /\ TokenAt(k)' = TokenAt(k) /\ LitsAt(k)' = LitsAt(k) /\ OffsetAt(k)' = OffsetAt(k)
         /\ EndAt(k)' = EndAt(k) /\ OutAt(k)' = OutAt(k) /\ CopyAt(k)' = CopyAt(k)
BY DEF Fits, Out, Literals, Offset, Match, TokenAt, LitsAt, OffsetAt, EndAt, OutAt, CopyAt

(* What each state says of the record after a step.                        *)
Kept(k) == Match(k) > 0 => core'.saved_match_token = Nibble(Match(k) - 4)

(* What is enough, state by state, to be inside record k after the edge.   *)
LEMMA Arrive ==
  ASSUME block' = block, NEW k
  PROVE  /\ /\ core'.state = "TOKEN"
            /\ sent' = TokenAt(k) /\ core'.write_ptr = OutAt(k)
            => InRecord(k)'
         /\ /\ core'.state = "EXT_LIT" /\ Kept(k)
            /\ Partly(core'.lit_len, Literals(k), sent' - TokenAt(k) - 1)
            /\ core'.write_ptr = OutAt(k)
            => InRecord(k)'
         /\ /\ core'.state = "LITERAL" /\ Kept(k)
            /\ core'.lit_len \in 1 .. Literals(k)
            /\ core'.write_ptr + core'.lit_len = CopyAt(k)
            /\ sent' + core'.lit_len = OffsetAt(k)
            => InRecord(k)'
         /\ /\ core'.state = "OFFSET_L" /\ Kept(k)
            /\ Match(k) > 0 /\ core'.write_ptr = CopyAt(k) /\ sent' = OffsetAt(k)
            => InRecord(k)'
         /\ /\ core'.state = "OFFSET_H" /\ Kept(k)
            /\ Match(k) > 0 /\ core'.write_ptr = CopyAt(k) /\ sent' = OffsetAt(k) + 1
            /\ core'.offset_low = Offset(k) % 256
            => InRecord(k)'
         /\ /\ core'.state = "EXT_MATCH" /\ Kept(k)
            /\ Match(k) > 0 /\ core'.write_ptr = CopyAt(k)
            /\ Partly(core'.match_len - 4, Match(k) - 4, sent' - OffsetAt(k) - 2)
            /\ core'.match_offset = Offset(k)
            => InRecord(k)'
         /\ /\ core'.state = "MATCH_COPY" /\ Kept(k)
            /\ core'.match_len \in 1 .. Match(k)
            /\ core'.write_ptr + core'.match_len = CopyAt(k) + Match(k)
            /\ core'.match_offset = Offset(k) /\ sent' = EndAt(k)
            => InRecord(k)'
<1>1. /\ Literals(k)' = Literals(k) /\ Offset(k)' = Offset(k) /\ Match(k)' = Match(k)
      /\ TokenAt(k)' = TokenAt(k) /\ LitsAt(k)' = LitsAt(k) /\ OffsetAt(k)' = OffsetAt(k)
      /\ EndAt(k)' = EndAt(k) /\ OutAt(k)' = OutAt(k) /\ CopyAt(k)' = CopyAt(k)
  BY SameBlock
<1> QED
  BY <1>1 DEF InRecord, InToken, InExtLit, InLiteral, InOffset, InExtMatch, InMatchCopy,
              TokenKept, Kept, Partly

(* The producer has a byte for every edge until it has sent them all.      *)
LEMMA Fed ==
  ASSUME TypeOK, Sending, Control, Produce, Testbench
  PROVE  /\ block' = block /\ stream' = stream /\ Latched.last_byte_seen \in BOOLEAN
         /\ Len(stream) \in Nat /\ sent \in Nat /\ sent <= Len(stream)
         /\ IF core.state \in Reading /\ sent < Len(stream)
            THEN Accepted /\ offered /\ sent' = sent + 1 ELSE ~Accepted /\ sent' = sent
         /\ (offered' <=> sent' < Len(stream'))
         /\ (Latched.last_byte_seen <=> sent' = Len(stream'))
         /\ (s_axis_tlast <=> sent + 1 = Len(stream))
<1>1. Len(stream) \in Nat /\ sent \in 0 .. Len(stream)
  BY DEF TypeOK
<1>2. stream' = stream /\ block' = block
  BY DEF Produce
<1>3. (offered <=> sent < Len(stream)) /\ (core.s_axis_tready <=> core.state \in Reading)
      /\ (core.last_byte_seen <=> sent = Len(stream))
  BY DEF Control
<1>4. IF core.state \in Reading /\ sent < Len(stream)
      THEN Accepted /\ offered /\ sent' = sent + 1 ELSE ~Accepted /\ sent' = sent
  BY <1>3 DEF Accepted, Produce
<1>5. (offered' <=> sent' < Len(stream'))
  <2>1. sent' \in 0 .. Len(stream)
    BY <1>1, <1>4
  <2>2. CASE offered /\ ~Accepted
    <3>1. offered' = TRUE
      BY <2>2, Zenon DEF Produce
    <3> QED
      BY <1>1, <1>2, <1>3, <1>4, <2>2, <3>1
  <2>3. CASE ~(offered /\ ~Accepted) /\ sent' = Len(stream)
    <3>1. offered' = FALSE
      BY <2>3, Zenon DEF Produce
    <3> QED
      BY <1>1, <1>2, <2>3, <3>1
  <2>4. CASE ~(offered /\ ~Accepted) /\ sent' # Len(stream)
    <3>1. offered' = TRUE
      BY <1>2, <2>4, Zenon DEF Produce, Testbench
    <3> QED
      BY <1>1, <1>2, <2>1, <2>4, <3>1
  <2> QED
    BY <2>2, <2>3, <2>4
<1>6. (s_axis_tlast <=> sent + 1 = Len(stream))
  BY <1>1, <1>3 DEF s_axis_tlast
<1>7. /\ Latched.last_byte_seen \in BOOLEAN
      /\ Latched.last_byte_seen <=> core.last_byte_seen \/ (Accepted /\ s_axis_tlast)
  <2> DEFINE l == core.last_byte_seen \/ (Accepted /\ s_axis_tlast)
  <2>1. core \in Registers
    BY DEF TypeOK
  <2>2. Latched = [core EXCEPT !.last_byte_seen = l]
    BY DEF Latched
  <2>3. l \in BOOLEAN
    OBVIOUS
  <2> HIDE DEF l
  <2>4. Latched.last_byte_seen = l
    BY <2>1, <2>2 DEF Registers
  <2> QED
    BY <2>3, <2>4 DEF l
<1>8. (Latched.last_byte_seen <=> sent' = Len(stream'))
  BY <1>1, <1>2, <1>3, <1>4, <1>6, <1>7
<1> QED
  BY <1>1, <1>2, <1>4, <1>5, <1>6, <1>7, <1>8

(* No byte is shown: the one in the output register is handed over.        *)
LEMMA Quiet ==
  ASSUME TypeOK, TypeOK', Delivery, Consume(TRUE), block' = block, history_ram' = history_ram,
         core'.write_ptr = core.write_ptr, core'.decompressed_bytes = core.decompressed_bytes,
         core'.m_axis_tlast = core.m_axis_tlast, ~core'.m_axis_tvalid
  PROVE  Delivery'
<1> DEFINE wp == core.write_ptr
           d == core.m_axis_tdata
           n == IF core.m_axis_tvalid THEN 1 ELSE 0
<1>1. Out' = Out
  BY SameBlock
<1>2. wp \in Nat /\ n \in Nat /\ taken \in Seq(Byte \cup {X})
  BY Fields DEF TypeOK
<1>3. /\ core.decompressed_bytes = wp /\ wp <= Len(Out) /\ Len(taken) = wp - n
      /\ \A i \in 1 .. wp : history_ram[i - 1] = Out[i]
      /\ \A i \in 1 .. Len(taken) : taken[i] = Out[i]
      /\ core.m_axis_tvalid => d = Out[wp]
      /\ core.m_axis_tlast <=> wp = MAX_BLOCK_SIZE
  BY DEF Delivery
<1>4. taken' = IF core.m_axis_tvalid THEN Append(taken, d) ELSE taken
  BY DEF Consume
<1>5. Len(taken') = wp /\ \A i \in 1 .. Len(taken') : taken'[i] = Out[i]
  <2>1. CASE core.m_axis_tvalid
    <3>1. taken' = Append(taken, d) /\ Len(taken) = wp - 1 /\ d = Out[wp]
      BY <1>3, <1>4, <2>1
    <3> HIDE DEF d, wp
    <3> QED
      BY <1>2, <1>3, <3>1
  <2>2. CASE ~core.m_axis_tvalid
    BY <1>2, <1>3, <1>4, <2>2
  <2> QED
    BY <2>1, <2>2
<1> HIDE DEF d
<1> QED
  BY <1>1, <1>2, <1>3, <1>5 DEF Delivery

(* A function updated at one point, read at any.                           *)
LEMMA Overwrite ==
  ASSUME NEW S, NEW T, NEW f, f \in [S -> T], NEW w, w \in S, NEW v, NEW g,
         g = [f EXCEPT ![w] = v], NEW a, a \in S
  PROVE  g[a] = IF a = w THEN v ELSE f[a]
OBVIOUS

(* The next byte of the output is shown, and written to the window.        *)
LEMMA Shown ==
  ASSUME TypeOK, TypeOK', Delivery, Consume(TRUE), block' = block,
         NEW byte, history_ram' = Remember(byte),
         Len(Out) \in Nat, Len(Out) <= MAX_BLOCK_SIZE, core.write_ptr < Len(Out),
         byte = Out[core.write_ptr + 1],
         core'.write_ptr = core.write_ptr + 1,
         core'.decompressed_bytes = core.decompressed_bytes + 1,
         core'.m_axis_tvalid, core'.m_axis_tdata = byte,
         core'.m_axis_tlast <=> core.write_ptr = MAX_BLOCK_SIZE - 1
  PROVE  Delivery'
<1> DEFINE wp == core.write_ptr
           d == core.m_axis_tdata
           n == IF core.m_axis_tvalid THEN 1 ELSE 0
<1>1. Out' = Out
  BY SameBlock
<1>2. wp \in Nat /\ n \in Nat /\ taken \in Seq(Byte \cup {X})
      /\ MAX_BLOCK_SIZE \in Nat /\ MAX_BLOCK_SIZE <= 4096
  BY Fields, CoreAssumption DEF TypeOK
<1>3. /\ core.decompressed_bytes = wp /\ wp <= Len(Out) /\ Len(taken) = wp - n
      /\ \A i \in 1 .. wp : history_ram[i - 1] = Out[i]
      /\ \A i \in 1 .. Len(taken) : taken[i] = Out[i]
      /\ core.m_axis_tvalid => d = Out[wp]
  BY DEF Delivery
<1>4. taken' = IF core.m_axis_tvalid THEN Append(taken, d) ELSE taken
  BY DEF Consume
<1>5. Len(taken') = wp /\ \A i \in 1 .. Len(taken') : taken'[i] = Out[i]
  <2>1. CASE core.m_axis_tvalid
    <3>1. taken' = Append(taken, d) /\ Len(taken) = wp - 1 /\ d = Out[wp]
      BY <1>3, <1>4, <2>1
    <3> HIDE DEF d, wp
    <3> QED
      BY <1>2, <1>3, <3>1
  <2>2. CASE ~core.m_axis_tvalid
    BY <1>2, <1>3, <1>4, <2>2
  <2> QED
    BY <2>1, <2>2
<1>6. core'.write_ptr = wp + 1 /\ core'.decompressed_bytes = wp + 1
  BY <1>2, <1>3
<1>7. \A i \in 1 .. wp + 1 : history_ram'[i - 1] = Out[i]
  <2> DEFINE Cells == 0 .. (MAX_BLOCK_SIZE - 1)
  <2>1. history_ram \in [Cells -> Byte \cup {X}]
    BY DEF TypeOK
  <2>2. wp \in Cells
    BY <1>2
  <2>3. history_ram' = [history_ram EXCEPT ![wp] = byte]
    BY <1>2 DEF Remember
  <2>4. \A a \in Cells : history_ram'[a] = IF a = wp THEN byte ELSE history_ram[a]
    <3> HIDE DEF Cells, wp
    <3> QED
      BY <2>1, <2>2, <2>3, Overwrite
  <2>5. ASSUME NEW i \in 1 .. wp + 1 PROVE i - 1 \in Cells
    BY <1>2
  <2>6. ASSUME NEW i \in 1 .. wp + 1, i - 1 = wp PROVE byte = Out[i]
    BY <1>2, <2>6
  <2>7. ASSUME NEW i \in 1 .. wp + 1, i - 1 # wp PROVE history_ram[i - 1] = Out[i]
    BY <1>2, <1>3, <2>7
  <2> HIDE DEF wp, Cells
  <2> QED
    BY <2>4, <2>5, <2>6, <2>7
<1> HIDE DEF d
<1>8. core'.m_axis_tdata = Out[core'.write_ptr] /\ core'.write_ptr <= Len(Out)
      /\ (core'.m_axis_tlast <=> core'.write_ptr = MAX_BLOCK_SIZE)
      /\ Len(taken') = core'.write_ptr - 1
  BY <1>2, <1>5, <1>6
<1> QED
  BY <1>1, <1>5, <1>6, <1>7, <1>8 DEF Delivery

(* A nibble of 15 announces length bytes; a lower one is the length.       *)
LEMMA NibbleIs ==
  ASSUME NEW n \in Nat
  PROVE  /\ Nibble(n) \in Nat /\ Nibble(n) <= 15
         /\ Nibble(n) = 15 <=> n >= 15
         /\ n < 15 => Nibble(n) = n
BY DEF Nibble

(* Length bytes follow from 15 on.                                         *)
LEMMA ExtensionLen ==
  ASSUME NEW n \in Nat
  PROVE  Len(Extension(n)) \in Nat /\ (n < 15 <=> Len(Extension(n)) = 0)
<1>1. CASE n < 15
  BY <1>1, ExtensionIs
<1>2. CASE n >= 15
  BY <1>2, ExtensionIs
<1> QED
  BY <1>1, <1>2

(* A block that fits puts every length and place inside the 4096 bytes of  *)
(* the window, so no register wraps.                                       *)
LEMMA InWindow ==
  ASSUME NEW k, Places(k)
  PROVE  /\ Literals(k) <= 4096 /\ Match(k) <= 4096 /\ CopyAt(k) <= 4096
         /\ CopyAt(k) + Match(k) <= MAX_BLOCK_SIZE
<1> DEFINE L == Literals(k)
           M == Match(k)
           C == CopyAt(k)
           P == OutAt(k)
           n == Len(Out)
<1>1. L \in Nat /\ M \in Nat /\ C \in Nat /\ P \in Nat /\ C = P + L
  BY DEF Places
<1>2. C + M <= n /\ n <= MAX_BLOCK_SIZE /\ MAX_BLOCK_SIZE <= 4096
      /\ n \in Nat /\ MAX_BLOCK_SIZE \in Nat
  BY DEF Places
<1> HIDE DEF L, M, C, P, n
<1> QED
  BY <1>1, <1>2 DEF L, M, C

(* The record the core is in.                                              *)
LEMMA Where ==
  ASSUME Sending, Fits, Control, core.state # "DONE"
  PROVE  \E k \in DOMAIN block :
           InRecord(k) /\ Places(k) /\ Plain(k) /\ Matched(k) /\ Written(k) /\ Repeated(k)
<1>1. block \in Seq(LZ4Sequence) /\ stream = Encode(block)
  <2>1. <<>> \in Seq(LZ4Sequence)
    OBVIOUS
  <2>2. block \in BlockSet \cup {<<>>} /\ stream = Encode(block)
    BY DEF Sending
  <2>3. BlockSet \subseteq Seq(LZ4Sequence)
    BY CoreAssumption
  <2> QED
    BY <2>1, <2>2, <2>3
<1>2. PICK k \in DOMAIN block : InRecord(k)
  BY DEF Control
<1> QED
  BY <1>1, <1>2, Layout

(* What is left to say of a step after which the core is in record k.      *)
LEMMA GoOn ==
  ASSUME TypeOK, Sending, Control, Produce, Testbench, NEW k \in DOMAIN block, InRecord(k)',
         core'.state # "DONE", core'.done = core.done,
         core'.last_byte_seen = Latched.last_byte_seen,
         core'.s_axis_tready <=> core'.state \in Reading,
         core'.state \in Silent => ~core'.m_axis_tvalid
  PROVE  Control'
<1>1. /\ block' = block
      /\ offered' <=> sent' < Len(stream')
      /\ core'.last_byte_seen <=> sent' = Len(stream')
  BY Fed
<1>2. ~core'.done
  BY DEF Control
<1>3. \E j \in DOMAIN block' : InRecord(j)'
  BY <1>1
<1> QED
  BY <1>1, <1>2, <1>3 DEF Control, Reading, Silent

(* And of one after which it is done.                                      *)
LEMMA Through ==
  ASSUME TypeOK, Sending, Control, Produce, Testbench,
         core'.state = "DONE", core'.done = core.done,
         core'.last_byte_seen = Latched.last_byte_seen, ~core'.s_axis_tready,
         sent' = Len(stream), core'.write_ptr = Len(Out)
  PROVE  Control'
<1>1. /\ block' = block /\ stream' = stream
      /\ offered' <=> sent' < Len(stream')
      /\ core'.last_byte_seen <=> sent' = Len(stream')
  BY Fed
<1>2. ~core'.done
  BY DEF Control
<1>3. Out' = Out
  BY <1>1, SameBlock
<1>4. core'.state \notin Reading /\ core'.state \notin Silent
  BY DEF Reading, Silent
<1> QED
  BY <1>1, <1>2, <1>3, <1>4 DEF Control, Reading, Silent

(* The registers that a step does not assign.                              *)
LEMMA LatchedIs ==
  ASSUME TypeOK, Sending
  PROVE  /\ Latched \in Registers
         /\ Latched.state = core.state /\ Latched.done = core.done
         /\ Latched.lit_len = core.lit_len /\ Latched.match_len = core.match_len
         /\ Latched.match_offset = core.match_offset /\ Latched.offset_low = core.offset_low
         /\ Latched.saved_match_token = core.saved_match_token
         /\ Latched.write_ptr = core.write_ptr
         /\ Latched.decompressed_bytes = core.decompressed_bytes
         /\ Latched.s_axis_tready = core.s_axis_tready
         /\ Latched.m_axis_tvalid = core.m_axis_tvalid /\ Latched.m_axis_tdata = core.m_axis_tdata
         /\ Latched.m_axis_tlast = core.m_axis_tlast
<1> DEFINE l == Latched.last_byte_seen
<1>1. Latched \in Registers /\ Latched = [core EXCEPT !.last_byte_seen = l]
  BY LatchedTypes
<1>2. core \in Registers
  BY DEF TypeOK
<1> HIDE DEF l
<1> QED
  BY <1>1, <1>2 DEF Registers

(* An edge in a state of the machine, if no peer pauses.                   *)
LEMMA EdgeIs ==
  ASSUME TypeOK, Sending, Control, Testbench, NEW st, NEW r \in Ready, Edge(st, r)
  PROVE  r = TRUE /\ core.state = st /\ Produce /\ Consume(TRUE)
BY DEF Edge, Ready, Testbench

(* TOKEN, on the first byte of a record.                                   *)
LEMMA TokenStep ==
  ASSUME TypeOK, TypeOK', Sending, Fits, Control, Delivery, Testbench, Token
  PROVE  core'.state # "IDLE" /\ Control' /\ Delivery'
<1>1. core.state = "TOKEN" /\ Produce /\ Consume(TRUE) /\ history_ram' = history_ram
  BY EdgeIs DEF Token
<1>2. PICK k \in DOMAIN block :
        InRecord(k) /\ Places(k) /\ Plain(k) /\ Matched(k) /\ Written(k)
  BY <1>1, Where
<1> DEFINE L == Literals(k)
           M == Match(k)
           T == TokenAt(k)
           d == s_axis_tdata
           hi == d \div 16
           lo == d % 16
<1>3. L \in Nat /\ M \in Nat /\ T \in Nat /\ LitsAt(k) \in Nat /\ OffsetAt(k) \in Nat
      /\ LitsAt(k) = T + 1 + Len(Extension(L)) /\ OffsetAt(k) = LitsAt(k) + L
      /\ OffsetAt(k) <= Len(stream) /\ OutAt(k) \in Nat /\ CopyAt(k) = OutAt(k) + L
      /\ (M = 0 => L > 0) /\ (M > 0 => M >= 4)
  <2>1. M = 0 => L > 0
    BY <1>2 DEF Plain
  <2>2. M > 0 => M >= 4
    BY <1>2 DEF Matched
  <2> QED
    BY <1>2, <2>1, <2>2 DEF Places
<1>4. Len(Extension(L)) \in Nat /\ (L < 15 => Len(Extension(L)) = 0)
  BY <1>3, ExtensionLen
<1>5. sent = T /\ core.write_ptr = OutAt(k)
  BY <1>1, <1>2 DEF InRecord, InToken
<1>6. block' = block /\ Accepted /\ offered /\ sent' = T + 1
  <2>1. T < Len(stream) /\ core.state \in Reading
    BY <1>1, <1>3, <1>4 DEF Reading, States
  <2> QED
    BY <1>1, <1>5, <2>1, Fed
<1>7. hi = Nibble(L) /\ (M > 0 => lo = Nibble(M - 4))
  BY <1>2, <1>5 DEF Written, s_axis_tdata
<1>8. /\ hi \in Nat /\ hi <= 15 /\ (hi = 15 <=> L >= 15) /\ (L < 15 => hi = L)
  BY <1>3, <1>7, NibbleIs
<1> DEFINE s == CASE hi = 15 -> "EXT_LIT" [] hi \in 1..14 -> "LITERAL" [] hi = 0 -> "OFFSET_L"
<1>9. s \in {"EXT_LIT", "LITERAL", "OFFSET_L"}
      /\ (s = "EXT_LIT" <=> hi = 15) /\ (s = "OFFSET_L" <=> hi = 0)
  BY <1>8
<1>10. /\ core'.state = s /\ core'.lit_len = hi /\ core'.saved_match_token = lo
       /\ core'.s_axis_tready /\ core'.m_axis_tvalid = FALSE
       /\ core'.done = core.done /\ core'.last_byte_seen = Latched.last_byte_seen
       /\ core'.write_ptr = core.write_ptr
       /\ core'.decompressed_bytes = core.decompressed_bytes
       /\ core'.m_axis_tlast = core.m_axis_tlast
  <2> HIDE DEF s, hi, lo
  <2>1. core' = [Latched EXCEPT !.m_axis_tvalid = FALSE, !.saved_match_token = lo, !.lit_len = hi,
                                !.s_axis_tready = TRUE, !.state = s]
    BY <1>6 DEF Token, s, hi, lo
  <2> QED
    BY <2>1, LatchedIs DEF Registers
<1> HIDE DEF s, hi, lo, d, L, M, T
<1>11. InRecord(k)'
  <2>1. Kept(k)
    BY <1>7, <1>10 DEF Kept, M
  <2>2. CASE s = "EXT_LIT"
    <3>1. hi = 15 /\ L >= 15 /\ sent' - T - 1 = 0
      BY <1>3, <1>6, <1>8, <1>9, <2>2
    <3>2. (L - 15) \div 255 \in Nat
      BY <1>3, <3>1, ExtensionIs
    <3>3. Partly(hi, L, sent' - T - 1)
      BY <3>1, <3>2 DEF Partly
    <3> QED
      BY <1>5, <1>6, <1>10, <2>1, <2>2, <3>3, Arrive DEF L, T
  <2>3. CASE s = "LITERAL"
    <3>1. hi \in 1 .. L /\ core.write_ptr + hi = CopyAt(k) /\ sent' + hi = OffsetAt(k)
      BY <1>3, <1>4, <1>5, <1>6, <1>8, <1>9, <2>3
    <3> QED
      BY <1>6, <1>10, <2>1, <2>3, <3>1, Arrive DEF L
  <2>4. CASE s = "OFFSET_L"
    <3>1. M > 0 /\ core.write_ptr = CopyAt(k) /\ sent' = OffsetAt(k)
      BY <1>3, <1>4, <1>5, <1>6, <1>8, <1>9, <2>4
    <3> QED
      BY <1>6, <1>10, <2>1, <2>4, <3>1, Arrive DEF M
  <2> QED
    BY <1>9, <2>2, <2>3, <2>4
<1>12. core'.state \in Reading /\ core'.state \notin {"DONE", "IDLE"}
  BY <1>9, <1>10 DEF Reading, States
<1>13. Control'
  BY <1>1, <1>10, <1>11, <1>12, GoOn
<1>14. Delivery'
  BY <1>1, <1>6, <1>10, Quiet
<1> QED
  BY <1>12, <1>13, <1>14

(* Inside the length bytes there is at least one more to read.             *)
LEMMA PartlyIs ==
  ASSUME NEW n \in Nat, NEW length, NEW i, Partly(length, n, i)
  PROVE  i \in Nat /\ i + 1 \in 1 .. Len(Extension(n)) /\ n >= 15
<1> DEFINE q == (n - 15) \div 255
<1>1. n >= 15 /\ i \in 0 .. q
  BY DEF Partly
<1>2. q \in Nat /\ Len(Extension(n)) = q + 1
  BY <1>1, ExtensionIs
<1> HIDE DEF q
<1> QED
  BY <1>1, <1>2

(* A byte of a length: 255 that goes on, or the rest.                      *)
LEMMA Lengthened ==
  ASSUME NEW n \in Nat, NEW length, NEW i, Partly(length, n, i), NEW d, d = Extension(n)[i + 1]
  PROVE  /\ length \in Nat /\ d \in Nat /\ length + d <= n
         /\ d = 255 => Partly(length + d, n, i + 1) /\ Len(Extension(n)) > i + 1
         /\ d # 255 => length + d = n /\ Len(Extension(n)) = i + 1
<1> DEFINE q == (n - 15) \div 255
           e == Extension(n)
<1>1. n >= 15 /\ length = 15 + 255 * i /\ i \in 0 .. q
  BY DEF Partly
<1>2. /\ q \in Nat /\ Len(e) = q + 1
      /\ \A j \in 1 .. q : e[j] = 255
      /\ e[q + 1] = n - 15 - 255 * q
      /\ n - 15 - 255 * q \in Below(255)
  BY <1>1, ExtensionIs
<1>3. n - 15 - 255 * q \in Nat /\ n - 15 - 255 * q < 255
  BY <1>2, BelowIs
<1>4. q = (n - 15) \div 255
  OBVIOUS
<1> HIDE DEF q, e
<1>5. length \in Nat
  BY <1>1, <1>2
<1>6. CASE i < q
  <2>1. d = 255
    BY <1>1, <1>2, <1>6 DEF e
  <2>2. length + d = 15 + 255 * (i + 1) /\ i + 1 \in 0 .. q
    BY <1>1, <1>2, <1>6, <2>1
  <2>3. length + d <= n
    BY <1>1, <1>2, <1>3, <2>2
  <2> HIDE DEF e
  <2>4. Len(e) > i + 1
    BY <1>1, <1>2, <1>6
  <2> QED
    BY <1>1, <1>4, <1>5, <2>1, <2>2, <2>3, <2>4 DEF Partly, e
<1>7. CASE i = q
  <2>1. d = n - 15 - 255 * q
    BY <1>2, <1>7 DEF e
  <2>2. length + d = n /\ d \in Nat /\ d < 255 /\ Len(e) = i + 1
    BY <1>1, <1>2, <1>3, <1>7, <2>1
  <2> QED
    BY <1>5, <2>2 DEF e
<1> QED
  BY <1>1, <1>2, <1>6, <1>7

(* EXT_LIT, on a length byte of the literals.                              *)
LEMMA ExtLitStep ==
  ASSUME TypeOK, TypeOK', Sending, Fits, Control, Delivery, Testbench, ExtLit
  PROVE  core'.state # "IDLE" /\ Control' /\ Delivery'
<1>1. core.state = "EXT_LIT" /\ Produce /\ Consume(TRUE) /\ history_ram' = history_ram
  <2>1. (\E r \in Ready : Edge("EXT_LIT", r)) /\ history_ram' = history_ram
    BY DEF ExtLit
  <2> QED
    BY <2>1, EdgeIs
<1>2. PICK k \in DOMAIN block : InRecord(k) /\ Places(k) /\ Written(k)
  BY <1>1, Where
<1> DEFINE L == Literals(k)
           T == TokenAt(k)
           x == Len(Extension(L))
           d == s_axis_tdata
           i == sent - T - 1
           n == (core.lit_len + d) % 65536
<1>3. /\ L \in Nat /\ T \in Nat /\ x \in Nat /\ L <= 4096
      /\ OffsetAt(k) = T + 1 + x + L /\ CopyAt(k) = OutAt(k) + L
      /\ OffsetAt(k) <= Len(stream) /\ Len(stream) \in Nat /\ OutAt(k) \in Nat
  <2>1. L \in Nat
    BY <1>2 DEF Places
  <2>2. x \in Nat
    <3> HIDE DEF L
    <3> QED
      BY <2>1, ExtensionLen
  <2>3. /\ T \in Nat /\ LitsAt(k) = T + 1 + x /\ OffsetAt(k) = LitsAt(k) + L
        /\ CopyAt(k) = OutAt(k) + L /\ OffsetAt(k) <= Len(stream) /\ Len(stream) \in Nat
        /\ OutAt(k) \in Nat /\ LitsAt(k) \in Nat
    BY <1>2 DEF Places
  <2>4. L <= 4096
    BY <1>2, InWindow DEF L
  <2> QED
    BY <2>1, <2>2, <2>3, <2>4
<1>4. sent \in Nat /\ core.write_ptr = OutAt(k) /\ core.lit_len \in Nat
      /\ Partly(core.lit_len, L, i)
  BY <1>1, <1>2, Fields DEF InRecord, InExtLit, TypeOK
<1> HIDE DEF L, T
<1>5. i \in Nat /\ i + 1 \in 1 .. x
  <2> HIDE DEF i
  <2> QED
    BY <1>3, <1>4, PartlyIs
<1> HIDE DEF x
<1>6. sent = T + 1 + i /\ sent < Len(stream)
  BY <1>3, <1>4, <1>5
<1>7. block' = block /\ Accepted /\ offered /\ sent' = sent + 1
  <2>1. core.state \in Reading
    BY <1>1 DEF Reading, States
  <2> QED
    BY <1>1, <1>6, <2>1, Fed
<1>8. d = Extension(L)[i + 1]
  <2>1. stream[T + 1 + (i + 1)] = Extension(L)[i + 1]
    BY <1>2, <1>5 DEF Written, L, T, x
  <2>2. sent + 1 = T + 1 + (i + 1)
    BY <1>3, <1>5, <1>6
  <2> QED
    BY <2>1, <2>2 DEF s_axis_tdata
<1>9. /\ d = 255 => Partly(n, L, i + 1)
      /\ d # 255 => n = L /\ x = i + 1
  <2> DEFINE sum == core.lit_len + d
  <2> HIDE DEF i, d
  <2>1. /\ core.lit_len \in Nat /\ d \in Nat /\ sum <= L
        /\ d = 255 => Partly(sum, L, i + 1)
        /\ d # 255 => sum = L /\ x = i + 1
    BY <1>3, <1>4, <1>8, Lengthened DEF x
  <2>2. n = sum
    <3>1. sum \in Nat /\ sum < 65536
      BY <1>3, <2>1
    <3>2. n = sum % 65536
      OBVIOUS
    <3> HIDE DEF sum, n
    <3> QED
      BY <3>1, <3>2
  <2> HIDE DEF sum, n
  <2> QED
    BY <2>1, <2>2
<1>10. /\ core'.state = IF d # 255 THEN "LITERAL" ELSE "EXT_LIT"
       /\ core'.lit_len = n /\ core'.saved_match_token = core.saved_match_token
       /\ core'.s_axis_tready /\ core'.m_axis_tvalid = core.m_axis_tvalid
       /\ core'.done = core.done /\ core'.last_byte_seen = Latched.last_byte_seen
       /\ core'.write_ptr = core.write_ptr
       /\ core'.decompressed_bytes = core.decompressed_bytes
       /\ core'.m_axis_tlast = core.m_axis_tlast
  <2>1. core.s_axis_tready
    BY <1>7 DEF Accepted
  <2>2. core' = [Latched EXCEPT !.lit_len = (@ + d) % 65536,
                                !.s_axis_tready = d # 255 \/ @,
                                !.state = IF d # 255 THEN "LITERAL" ELSE @]
    BY <1>7 DEF ExtLit
  <2> DEFINE t == d # 255 \/ Latched.s_axis_tready
             s == IF d # 255 THEN "LITERAL" ELSE Latched.state
             m == (Latched.lit_len + d) % 65536
  <2>3. core' = [Latched EXCEPT !.lit_len = m, !.s_axis_tready = t, !.state = s]
    BY <2>2
  <2>4. m = n
    BY LatchedIs
  <2>5. t = TRUE
    BY <2>1, LatchedIs
  <2>6. s = IF d # 255 THEN "LITERAL" ELSE "EXT_LIT"
    BY <1>1, LatchedIs
  <2> HIDE DEF m, t, s, n, d
  <2> QED
    BY <2>3, <2>4, <2>5, <2>6, LatchedIs DEF Registers
<1>11. Kept(k)
  BY <1>1, <1>2, <1>10 DEF InRecord, TokenKept, Kept
<1> HIDE DEF n, d
<1>12. InRecord(k)'
  <2>1. CASE d = 255
    <3>1. Partly(n, L, sent' - T - 1)
      <4>1. sent' - T - 1 = i + 1
        BY <1>3, <1>4, <1>7
      <4> QED
        BY <1>9, <2>1, <4>1
    <3>2. core'.state = "EXT_LIT"
      BY <1>10, <2>1
    <3> QED
      BY <1>4, <1>7, <1>10, <1>11, <3>1, <3>2, Arrive DEF L, T
  <2>2. CASE d # 255
    <3>1. n = L /\ L >= 15 /\ sent' + n = OffsetAt(k)
      BY <1>3, <1>4, <1>6, <1>7, <1>9, <2>2 DEF Partly
    <3>2. n \in 1 .. L /\ core.write_ptr + n = CopyAt(k)
      BY <1>3, <1>4, <3>1
    <3>3. core'.state = "LITERAL"
      BY <1>10, <2>2
    <3> QED
      BY <1>7, <1>10, <1>11, <3>1, <3>2, <3>3, Arrive DEF L
  <2> QED
    BY <2>1, <2>2
<1>13. core'.state \in Reading /\ core'.state \notin {"DONE", "IDLE"} /\ ~core'.m_axis_tvalid
  BY <1>1, <1>10 DEF Reading, States, Control, Silent
<1>14. Control'
  BY <1>1, <1>10, <1>12, <1>13, GoOn
<1>15. Delivery'
  BY <1>1, <1>7, <1>10, <1>13, Quiet
<1> QED
  BY <1>13, <1>14, <1>15

(* The registers when a byte was shown and the pointer moved on.           *)
LEMMA ShownIs ==
  ASSUME TypeOK, NEW r \in Registers, NEW byte \in Byte \cup {X},
         r.write_ptr < 8191, r.decompressed_bytes < 8191, NEW q, q = Advance(Present(r, byte))
  PROVE  /\ q \in Registers
         /\ q.state = r.state /\ q.done = r.done /\ q.last_byte_seen = r.last_byte_seen
         /\ q.lit_len = r.lit_len /\ q.match_len = r.match_len
         /\ q.match_offset = r.match_offset /\ q.saved_match_token = r.saved_match_token
         /\ q.s_axis_tready = r.s_axis_tready
         /\ q.write_ptr = r.write_ptr + 1 /\ q.decompressed_bytes = r.decompressed_bytes + 1
         /\ q.m_axis_tvalid /\ q.m_axis_tdata = byte
         /\ q.m_axis_tlast <=> core.write_ptr = MAX_BLOCK_SIZE - 1
<1> DEFINE p == Present(r, byte)
           last == core.write_ptr = MAX_BLOCK_SIZE - 1
<1>1. p \in Registers
  BY ShownTypes
<1>2. p = [r EXCEPT !.m_axis_tdata = byte, !.m_axis_tvalid = TRUE, !.m_axis_tlast = last]
  BY DEF Present
<1>3. last \in BOOLEAN
  OBVIOUS
<1> HIDE DEF last
<1>4. /\ p.state = r.state /\ p.done = r.done /\ p.last_byte_seen = r.last_byte_seen
      /\ p.lit_len = r.lit_len /\ p.match_len = r.match_len
      /\ p.match_offset = r.match_offset /\ p.saved_match_token = r.saved_match_token
      /\ p.s_axis_tready = r.s_axis_tready
      /\ p.write_ptr = r.write_ptr /\ p.decompressed_bytes = r.decompressed_bytes
      /\ p.m_axis_tvalid = TRUE /\ p.m_axis_tdata = byte /\ p.m_axis_tlast = last
  BY <1>2 DEF Registers
<1> DEFINE v == (p.write_ptr + 1) % 8192
           w == (p.decompressed_bytes + 1) % 8192
<1>5. q = [p EXCEPT !.write_ptr = v, !.decompressed_bytes = w]
  BY DEF Advance
<1>6. q \in Registers
  BY <1>1, ShownTypes
<1>7. v = r.write_ptr + 1 /\ w = r.decompressed_bytes + 1
  <2> DEFINE a == r.write_ptr
             b == r.decompressed_bytes
  <2>1. a \in Nat /\ b \in Nat /\ a < 8191 /\ b < 8191
    BY Fields
  <2>2. p.write_ptr = a /\ p.decompressed_bytes = b
    BY <1>4
  <2> HIDE DEF p, a, b
  <2>3. (a + 1) % 8192 = a + 1 /\ (b + 1) % 8192 = b + 1
    BY <2>1
  <2> QED
    BY <2>2, <2>3 DEF a, b
<1> HIDE DEF v, w, p
<1>8. /\ q.state = p.state /\ q.done = p.done /\ q.last_byte_seen = p.last_byte_seen
      /\ q.lit_len = p.lit_len /\ q.match_len = p.match_len
      /\ q.match_offset = p.match_offset /\ q.saved_match_token = p.saved_match_token
      /\ q.s_axis_tready = p.s_axis_tready
      /\ q.write_ptr = v /\ q.decompressed_bytes = w
      /\ q.m_axis_tvalid = p.m_axis_tvalid /\ q.m_axis_tdata = p.m_axis_tdata
      /\ q.m_axis_tlast = p.m_axis_tlast
  BY <1>1, <1>5 DEF Registers
<1>9. q.m_axis_tlast = last /\ q.m_axis_tvalid /\ q.m_axis_tdata = byte
  BY <1>4, <1>8
<1>10. q.m_axis_tlast <=> core.write_ptr = MAX_BLOCK_SIZE - 1
  <2>1. q.m_axis_tlast <=> last
    BY <1>3, <1>9
  <2> QED
    BY <2>1 DEF last
<1>11. /\ q.state = r.state /\ q.done = r.done /\ q.last_byte_seen = r.last_byte_seen
       /\ q.lit_len = r.lit_len /\ q.match_len = r.match_len
       /\ q.match_offset = r.match_offset /\ q.saved_match_token = r.saved_match_token
       /\ q.s_axis_tready = r.s_axis_tready
  BY <1>4, <1>8
<1>12. q.write_ptr = r.write_ptr + 1 /\ q.decompressed_bytes = r.decompressed_bytes + 1
  BY <1>7, <1>8
<1> QED
  BY <1>6, <1>9, <1>10, <1>11, <1>12

(* A run of literals or a match has ended.                                 *)
LEMMA FinishIs ==
  ASSUME TypeOK, NEW r \in Registers, NEW last \in BOOLEAN, NEW next \in States,
         NEW q, q = Finish(r, last, next)
  PROVE  /\ q.state = IF core.write_ptr + 1 = MAX_BLOCK_SIZE \/ last THEN "DONE" ELSE next
         /\ q.s_axis_tready <=> ~(core.write_ptr + 1 = MAX_BLOCK_SIZE \/ last)
         /\ q.done = r.done /\ q.last_byte_seen = r.last_byte_seen
         /\ q.lit_len = r.lit_len /\ q.match_len = r.match_len
         /\ q.saved_match_token = r.saved_match_token
         /\ q.write_ptr = r.write_ptr /\ q.decompressed_bytes = r.decompressed_bytes
         /\ q.m_axis_tvalid = r.m_axis_tvalid /\ q.m_axis_tdata = r.m_axis_tdata
         /\ q.m_axis_tlast = r.m_axis_tlast
<1> DEFINE full == core.write_ptr + 1 = MAX_BLOCK_SIZE
           t == ~(full \/ last)
           s == IF full \/ last THEN "DONE" ELSE next
<1>1. q = [r EXCEPT !.s_axis_tready = t, !.state = s]
  BY DEF Finish
<1>2. t \in BOOLEAN
  OBVIOUS
<1> HIDE DEF t, s
<1>3. /\ q.state = s /\ q.s_axis_tready = t
      /\ q.done = r.done /\ q.last_byte_seen = r.last_byte_seen
      /\ q.lit_len = r.lit_len /\ q.match_len = r.match_len
      /\ q.saved_match_token = r.saved_match_token
      /\ q.write_ptr = r.write_ptr /\ q.decompressed_bytes = r.decompressed_bytes
      /\ q.m_axis_tvalid = r.m_axis_tvalid /\ q.m_axis_tdata = r.m_axis_tdata
      /\ q.m_axis_tlast = r.m_axis_tlast
  BY <1>1, <1>2 DEF Registers
<1> QED
  BY <1>3 DEF s, t

(* LITERAL, on a literal: it is shown, kept in the window, and counted     *)
(* down.                                                                   *)
LEMMA LiteralStep ==
  ASSUME TypeOK, TypeOK', Sending, Fits, Control, Delivery, Testbench, Literal
  PROVE  core'.state # "IDLE" /\ Control' /\ Delivery'
<1> DEFINE d == s_axis_tdata
           q == Advance(Present(Latched, d))
           c == core.lit_len
           wp == core.write_ptr
<1>1. PICK r \in Ready :
        /\ Edge("LITERAL", r)
        /\ offered /\ r =>
             /\ core' = IF c = 1 THEN Finish(q, s_axis_tlast, "OFFSET_L")
                        ELSE [q EXCEPT !.lit_len = (@ - 1) % 65536, !.s_axis_tready = TRUE]
             /\ history_ram' = Remember(d)
  BY DEF Literal
<1>2. r = TRUE /\ core.state = "LITERAL" /\ Produce /\ Consume(TRUE)
  <2>1. Edge("LITERAL", r)
    BY <1>1
  <2> QED
    BY <2>1, EdgeIs
<1>3. PICK k \in DOMAIN block :
        InRecord(k) /\ Places(k) /\ Plain(k) /\ Matched(k) /\ Written(k)
  BY <1>2, Where
<1> DEFINE L == Literals(k)
           M == Match(k)
           i == L - c + 1
<1>4. /\ L \in Nat /\ M \in Nat /\ LitsAt(k) \in Nat /\ OutAt(k) \in Nat
      /\ OffsetAt(k) = LitsAt(k) + L /\ CopyAt(k) = OutAt(k) + L
      /\ OffsetAt(k) <= Len(stream) /\ Len(stream) \in Nat
      /\ CopyAt(k) + M <= Len(Out) /\ Len(Out) \in Nat /\ Len(Out) <= MAX_BLOCK_SIZE
      /\ MAX_BLOCK_SIZE \in Nat /\ MAX_BLOCK_SIZE <= 4096
  BY <1>3 DEF Places
<1>5. /\ c \in 1 .. L /\ wp + c = CopyAt(k) /\ sent + c = OffsetAt(k)
      /\ (M > 0 => core.saved_match_token = Nibble(M - 4))
  BY <1>2, <1>3 DEF InRecord, InLiteral, TokenKept
<1>6. c \in Nat /\ wp \in Nat /\ sent \in Nat /\ core.decompressed_bytes = wp
  BY Fields DEF TypeOK, Delivery
<1> HIDE DEF L, M, c, wp
<1>7. i \in 1 .. L /\ LitsAt(k) + i = sent + 1 /\ OutAt(k) + i = wp + 1
      /\ sent < Len(stream) /\ wp < Len(Out)
  <2>1. /\ L \in Nat /\ M \in Nat /\ c \in Nat /\ 1 <= c /\ c <= L
        /\ wp \in Nat /\ sent \in Nat /\ Len(stream) \in Nat /\ Len(Out) \in Nat
    BY <1>4, <1>5, <1>6
  <2>2. /\ LitsAt(k) \in Nat /\ OutAt(k) \in Nat
        /\ sent + c = LitsAt(k) + L /\ wp + c = OutAt(k) + L
    BY <1>4, <1>5
  <2>3. sent + c <= Len(stream) /\ wp + c + M <= Len(Out)
    BY <1>4, <1>5
  <2>4. i \in 1 .. L
    BY <2>1
  <2>5. LitsAt(k) + i = sent + 1 /\ OutAt(k) + i = wp + 1
    <3> DEFINE a == LitsAt(k)
               o == OutAt(k)
    <3>1. a \in Nat /\ o \in Nat /\ sent + c = a + L /\ wp + c = o + L /\ i = L - c + 1
      BY <2>2
    <3> HIDE DEF a, o, i
    <3>2. a + i = sent + 1
      BY <2>1, <3>1
    <3>3. o + i = wp + 1
      BY <2>1, <3>1
    <3> QED
      BY <3>2, <3>3 DEF a, o
  <2>6. sent < Len(stream) /\ wp < Len(Out)
    BY <2>1, <2>3
  <2> QED
    BY <2>4, <2>5, <2>6
<1>8. /\ block' = block /\ offered /\ sent' = sent + 1
      /\ (s_axis_tlast <=> sent + 1 = Len(stream))
  <2>1. core.state \in Reading
    BY <1>2 DEF Reading, States
  <2> QED
    BY <1>2, <1>7, <2>1, Fed
<1>9. d = Out[wp + 1]
  <2>1. stream[LitsAt(k) + i] = Out[OutAt(k) + i]
    <3> HIDE DEF i
    <3> QED
      BY <1>3, <1>7 DEF Written, L
  <2> QED
    BY <1>7, <2>1 DEF s_axis_tdata
<1>10. d \in Byte \cup {X} /\ s_axis_tlast \in BOOLEAN /\ Latched \in Registers
  BY <1>2, <1>8, ProduceTypes, LatchedTypes
<1> HIDE DEF d, i
<1>11. /\ q \in Registers
       /\ q.state = core.state /\ q.done = core.done /\ q.last_byte_seen = Latched.last_byte_seen
       /\ q.lit_len = c /\ q.saved_match_token = core.saved_match_token
       /\ q.write_ptr = wp + 1 /\ q.decompressed_bytes = wp + 1
       /\ q.m_axis_tvalid /\ q.m_axis_tdata = d
       /\ q.m_axis_tlast <=> wp = MAX_BLOCK_SIZE - 1
  <2>1. Latched.write_ptr = wp /\ Latched.decompressed_bytes = wp /\ wp < 8191
    <3>1. Latched.write_ptr = core.write_ptr /\ Latched.decompressed_bytes = core.decompressed_bytes
      BY LatchedIs
    <3> DEFINE o == Len(Out)
    <3>2. o \in Nat /\ wp \in Nat /\ wp < o /\ o <= MAX_BLOCK_SIZE /\ MAX_BLOCK_SIZE \in Nat
          /\ MAX_BLOCK_SIZE <= 4096
      BY <1>4, <1>6, <1>7
    <3> HIDE DEF o
    <3>3. wp < 8191
      BY <3>2
    <3> QED
      BY <1>6, <3>1, <3>3 DEF wp
  <2>2. /\ q \in Registers
        /\ q.state = Latched.state /\ q.done = Latched.done
        /\ q.last_byte_seen = Latched.last_byte_seen
        /\ q.lit_len = Latched.lit_len /\ q.saved_match_token = Latched.saved_match_token
        /\ q.write_ptr = Latched.write_ptr + 1
        /\ q.decompressed_bytes = Latched.decompressed_bytes + 1
        /\ q.m_axis_tvalid /\ q.m_axis_tdata = d
        /\ q.m_axis_tlast <=> core.write_ptr = MAX_BLOCK_SIZE - 1
    <3>1. q = Advance(Present(Latched, d))
      OBVIOUS
    <3>2. Latched.write_ptr < 8191 /\ Latched.decompressed_bytes < 8191
      BY <2>1
    <3> HIDE DEF q
    <3> QED
      BY <1>10, <3>1, <3>2, ShownIs
  <2> QED
    BY <2>1, <2>2, LatchedIs DEF c, wp
<1> HIDE DEF q
<1>13. history_ram' = Remember(d)
  BY <1>1, <1>2, <1>8
<1>14. CASE c = 1
  <2>1. core' = Finish(q, s_axis_tlast, "OFFSET_L")
    BY <1>1, <1>2, <1>8, <1>14
  <2>2. "OFFSET_L" \in States
    BY DEF States
  <2> DEFINE end == core.write_ptr + 1 = MAX_BLOCK_SIZE \/ s_axis_tlast
  <2>3. /\ core'.state = IF end THEN "DONE" ELSE "OFFSET_L"
        /\ core'.s_axis_tready <=> ~end
        /\ core'.done = core.done /\ core'.last_byte_seen = Latched.last_byte_seen
        /\ core'.saved_match_token = core.saved_match_token
        /\ core'.write_ptr = wp + 1 /\ core'.decompressed_bytes = wp + 1
        /\ core'.m_axis_tvalid /\ core'.m_axis_tdata = d
        /\ core'.m_axis_tlast <=> wp = MAX_BLOCK_SIZE - 1
    <3>1. q \in Registers /\ s_axis_tlast \in BOOLEAN
      BY <1>10, <1>11
    <3>2. /\ core'.state = IF end THEN "DONE" ELSE "OFFSET_L"
          /\ core'.s_axis_tready <=> ~end
          /\ core'.done = q.done /\ core'.last_byte_seen = q.last_byte_seen
          /\ core'.saved_match_token = q.saved_match_token
          /\ core'.write_ptr = q.write_ptr /\ core'.decompressed_bytes = q.decompressed_bytes
          /\ core'.m_axis_tvalid = q.m_axis_tvalid /\ core'.m_axis_tdata = q.m_axis_tdata
          /\ core'.m_axis_tlast = q.m_axis_tlast
      BY <2>1, <2>2, <3>1, FinishIs
    <3> HIDE DEF end
    <3> QED
      BY <1>11, <3>2
  <2>4. Delivery'
    <3>1. /\ TypeOK /\ TypeOK' /\ Delivery /\ Consume(TRUE) /\ block' = block
          /\ history_ram' = Remember(d)
      BY <1>2, <1>8, <1>13
    <3>2. /\ Len(Out) \in Nat /\ Len(Out) <= MAX_BLOCK_SIZE /\ core.write_ptr < Len(Out)
          /\ d = Out[core.write_ptr + 1]
      BY <1>4, <1>7, <1>9 DEF wp
    <3>3. /\ core'.write_ptr = core.write_ptr + 1
          /\ core'.decompressed_bytes = core.decompressed_bytes + 1
          /\ core'.m_axis_tvalid /\ core'.m_axis_tdata = d
          /\ core'.m_axis_tlast <=> core.write_ptr = MAX_BLOCK_SIZE - 1
      BY <1>6, <2>3 DEF wp
    <3> QED
      BY ONLY <3>1, <3>2, <3>3, Shown
  <2>5. CASE M = 0
    <3>1. OffsetAt(k) = Len(stream) /\ CopyAt(k) = Len(Out)
      BY <1>3, <2>5 DEF Plain, M
    <3>2. sent + 1 = Len(stream) /\ wp + 1 = Len(Out)
      BY <1>5, <1>14, <3>1
    <3>3. end
      BY <1>8, <3>2
    <3>4. core'.state = "DONE" /\ ~core'.s_axis_tready
      BY <2>3, <3>3
    <3>5. Control'
      BY <1>2, <1>8, <2>3, <3>2, <3>4, Through
    <3> QED
      BY <2>4, <3>4, <3>5
  <2>6. CASE M > 0
    <3>1. EndAt(k) \in Nat /\ EndAt(k) <= Len(stream) /\ EndAt(k) >= OffsetAt(k) + 2
      <4>1. M \in Nat /\ M >= 4 /\ EndAt(k) \in Nat /\ EndAt(k) <= Len(stream)
            /\ EndAt(k) = OffsetAt(k) + 2 + Len(Extension(M - 4))
        BY <1>3, <1>4, <2>6 DEF Matched, M
      <4>2. M - 4 \in Nat
        BY <4>1
      <4> DEFINE m == M - 4
      <4> HIDE DEF m
      <4>3. Len(Extension(m)) \in Nat
        BY <4>2, ExtensionLen DEF m
      <4> DEFINE y == Len(Extension(m))
                 u == EndAt(k)
                 v == OffsetAt(k)
      <4>4. u = v + 2 + y /\ v \in Nat /\ y \in Nat
        BY <1>4, <4>1, <4>3 DEF m
      <4> HIDE DEF y, u, v
      <4>5. u >= v + 2
        BY <4>4
      <4> QED
        BY <4>1, <4>5 DEF u, v
    <3>2. ~end
      <4> DEFINE S == Len(stream)
                 u == EndAt(k)
                 o == Len(Out)
      <4>1. /\ S \in Nat /\ sent \in Nat /\ u \in Nat /\ u <= S /\ u >= sent + 3
            /\ s_axis_tlast <=> sent + 1 = S
        BY <1>4, <1>5, <1>6, <1>8, <1>14, <3>1
      <4>2. /\ o \in Nat /\ wp \in Nat /\ M \in Nat /\ wp + 1 + M <= o /\ o <= MAX_BLOCK_SIZE
            /\ MAX_BLOCK_SIZE \in Nat
        BY <1>4, <1>5, <1>6, <1>14
      <4> HIDE DEF S, u, o
      <4>3. ~s_axis_tlast
        BY <4>1
      <4>4. wp + 1 # MAX_BLOCK_SIZE
        BY <2>6, <4>2
      <4> QED
        BY <4>3, <4>4 DEF wp
    <3>3. core'.state = "OFFSET_L" /\ core'.s_axis_tready
      BY <2>3, <3>2
    <3>4. core'.write_ptr = CopyAt(k) /\ sent' = OffsetAt(k)
      BY <1>5, <1>8, <1>14, <2>3
    <3>5. InRecord(k)'
      BY <1>5, <1>8, <2>3, <2>6, <3>3, <3>4, Arrive DEF Kept, M
    <3>6. Control'
      BY <1>2, <2>3, <3>3, <3>5, GoOn DEF Reading, States, Silent
    <3> QED
      BY <2>4, <3>3, <3>6
  <2> QED
    BY <1>4, <2>5, <2>6
<1>15. CASE c # 1
  <2> DEFINE l == (q.lit_len - 1) % 65536
  <2>1. core' = [q EXCEPT !.lit_len = l, !.s_axis_tready = TRUE]
    BY <1>1, <1>2, <1>8, <1>15
  <2>2. l = c - 1
    <3>1. L <= 4096
      BY <1>3, InWindow DEF L
    <3>2. c - 1 \in Nat /\ c - 1 < 65536
      BY <1>4, <1>5, <1>6, <3>1
    <3> QED
      BY <1>11, <3>2
  <2> HIDE DEF l
  <2>3. /\ core'.state = core.state /\ core'.s_axis_tready /\ core'.lit_len = l
        /\ core'.done = core.done /\ core'.last_byte_seen = Latched.last_byte_seen
        /\ core'.saved_match_token = core.saved_match_token
        /\ core'.write_ptr = wp + 1 /\ core'.decompressed_bytes = wp + 1
        /\ core'.m_axis_tvalid /\ core'.m_axis_tdata = d
        /\ core'.m_axis_tlast <=> wp = MAX_BLOCK_SIZE - 1
    <3>1. /\ core'.state = q.state /\ core'.s_axis_tready = TRUE /\ core'.lit_len = l
          /\ core'.done = q.done /\ core'.last_byte_seen = q.last_byte_seen
          /\ core'.saved_match_token = q.saved_match_token
          /\ core'.write_ptr = q.write_ptr /\ core'.decompressed_bytes = q.decompressed_bytes
          /\ core'.m_axis_tvalid = q.m_axis_tvalid /\ core'.m_axis_tdata = q.m_axis_tdata
          /\ core'.m_axis_tlast = q.m_axis_tlast
      <4>1. q \in Registers
        BY <1>11
      <4>2. /\ core'.state = q.state /\ core'.s_axis_tready = TRUE /\ core'.lit_len = l
            /\ core'.done = q.done /\ core'.last_byte_seen = q.last_byte_seen
            /\ core'.saved_match_token = q.saved_match_token
        BY <2>1, <4>1, SMTT(30) DEF Registers
      <4>3. /\ core'.write_ptr = q.write_ptr /\ core'.decompressed_bytes = q.decompressed_bytes
            /\ core'.m_axis_tvalid = q.m_axis_tvalid /\ core'.m_axis_tdata = q.m_axis_tdata
            /\ core'.m_axis_tlast = q.m_axis_tlast
        BY <2>1, <4>1, SMTT(30) DEF Registers
      <4> QED
        BY <4>2, <4>3
    <3> QED
      BY <1>11, <3>1
  <2>4. Delivery'
    <3>1. /\ TypeOK /\ TypeOK' /\ Delivery /\ Consume(TRUE) /\ block' = block
          /\ history_ram' = Remember(d)
      BY <1>2, <1>8, <1>13
    <3>2. /\ Len(Out) \in Nat /\ Len(Out) <= MAX_BLOCK_SIZE /\ core.write_ptr < Len(Out)
          /\ d = Out[core.write_ptr + 1]
      BY <1>4, <1>7, <1>9 DEF wp
    <3>3. /\ core'.write_ptr = core.write_ptr + 1
          /\ core'.decompressed_bytes = core.decompressed_bytes + 1
          /\ core'.m_axis_tvalid /\ core'.m_axis_tdata = d
          /\ core'.m_axis_tlast <=> core.write_ptr = MAX_BLOCK_SIZE - 1
      BY <1>6, <2>3 DEF wp
    <3> QED
      BY ONLY <3>1, <3>2, <3>3, Shown
  <2>5. l \in 1 .. L /\ core'.write_ptr + l = CopyAt(k) /\ sent' + l = OffsetAt(k)
    <3>1. core'.write_ptr = wp + 1
      BY <2>3
    <3> QED
      BY <1>4, <1>5, <1>6, <1>8, <1>15, <2>2, <3>1
  <2>6. InRecord(k)'
    BY <1>2, <1>5, <1>8, <2>3, <2>5, Arrive DEF Kept, L, M
  <2>7. Control'
    BY <1>2, <2>3, <2>6, GoOn DEF Reading, States, Silent
  <2> QED
    BY <1>2, <2>3, <2>4, <2>7
<1> QED
  BY <1>14, <1>15

(* The places of a record that has a match are naturals inside the stream  *)
(* and the window.                                                         *)
LEMMA MatchPlaces ==
  ASSUME NEW k, Places(k), Matched(k), Match(k) > 0
  PROVE  /\ Match(k) \in Nat /\ Match(k) - 4 \in Nat /\ Match(k) <= 4096
         /\ Offset(k) \in Nat /\ Offset(k) >= 1 /\ Offset(k) <= CopyAt(k)
         /\ OffsetAt(k) \in Nat /\ CopyAt(k) \in Nat /\ EndAt(k) \in Nat
         /\ Len(Extension(Match(k) - 4)) \in Nat
         /\ EndAt(k) = OffsetAt(k) + 2 + Len(Extension(Match(k) - 4))
         /\ EndAt(k) <= Len(stream) /\ Len(stream) \in Nat
         /\ CopyAt(k) <= 4096 /\ CopyAt(k) + Match(k) <= Len(Out) /\ Len(Out) \in Nat
<1> DEFINE M == Match(k)
           m == M - 4
<1>1. M \in Nat /\ OffsetAt(k) \in Nat /\ CopyAt(k) \in Nat /\ Len(stream) \in Nat
      /\ CopyAt(k) + M <= Len(Out) /\ Len(Out) \in Nat
  BY DEF Places
<1>2. /\ M >= 4 /\ Offset(k) \in Nat /\ Offset(k) >= 1 /\ Offset(k) <= CopyAt(k)
      /\ EndAt(k) \in Nat /\ EndAt(k) = OffsetAt(k) + 2 + Len(Extension(m))
      /\ EndAt(k) <= Len(stream)
  BY SMTT(30) DEF Matched
<1>3. M <= 4096 /\ CopyAt(k) <= 4096
  BY InWindow
<1>4. m \in Nat
  BY <1>1, <1>2
<1> HIDE DEF m
<1>5. Len(Extension(m)) \in Nat
  BY <1>4, ExtensionLen
<1> QED
  BY <1>1, <1>2, <1>3, <1>4, <1>5 DEF m

(* OFFSET_L, on the low byte of the offset.                                *)
LEMMA OffsetLStep ==
  ASSUME TypeOK, TypeOK', Sending, Fits, Control, Delivery, Testbench, OffsetL
  PROVE  core'.state # "IDLE" /\ Control' /\ Delivery'
<1>1. core.state = "OFFSET_L" /\ Produce /\ Consume(TRUE) /\ history_ram' = history_ram
  <2>1. (\E r \in Ready : Edge("OFFSET_L", r)) /\ history_ram' = history_ram
    BY DEF OffsetL
  <2> QED
    BY <2>1, EdgeIs
<1>2. PICK k \in DOMAIN block : InRecord(k) /\ Places(k) /\ Matched(k) /\ Written(k)
  BY <1>1, Where
<1> DEFINE M == Match(k)
           d == s_axis_tdata
<1>3. M > 0 /\ core.write_ptr = CopyAt(k) /\ sent = OffsetAt(k)
      /\ core.saved_match_token = Nibble(M - 4)
  BY <1>1, <1>2 DEF InRecord, InOffset, TokenKept
<1>4. /\ OffsetAt(k) \in Nat /\ EndAt(k) \in Nat /\ Len(Extension(M - 4)) \in Nat
      /\ EndAt(k) = OffsetAt(k) + 2 + Len(Extension(M - 4))
      /\ EndAt(k) <= Len(stream) /\ Len(stream) \in Nat
  BY <1>2, <1>3, MatchPlaces
<1>5. block' = block /\ Accepted /\ offered /\ sent' = OffsetAt(k) + 1
  <2>1. sent < Len(stream)
    BY <1>3, <1>4
  <2>2. core.state \in Reading
    BY <1>1 DEF Reading, States
  <2> QED
    BY <1>1, <1>3, <2>1, <2>2, Fed
<1>6. d = Offset(k) % 256
  BY <1>2, <1>3 DEF Written, s_axis_tdata
<1>7. /\ core'.state = "OFFSET_H" /\ core'.offset_low = d
      /\ core'.saved_match_token = core.saved_match_token
      /\ core'.s_axis_tready /\ ~core'.m_axis_tvalid
      /\ core'.done = core.done /\ core'.last_byte_seen = Latched.last_byte_seen
      /\ core'.write_ptr = core.write_ptr
      /\ core'.decompressed_bytes = core.decompressed_bytes
      /\ core'.m_axis_tlast = core.m_axis_tlast
  <2>1. core' = [Latched EXCEPT !.m_axis_tvalid = FALSE, !.offset_low = d,
                                !.s_axis_tready = TRUE, !.state = "OFFSET_H"]
    BY <1>5 DEF OffsetL
  <2> HIDE DEF d
  <2> QED
    BY <2>1, LatchedIs DEF Registers
<1> HIDE DEF d, M
<1>8. InRecord(k)'
  BY <1>3, <1>5, <1>6, <1>7, Arrive DEF Kept, M
<1>9. core'.state \in Reading /\ core'.state \notin {"DONE", "IDLE"}
  BY <1>7 DEF Reading, States
<1>10. Control'
  BY <1>1, <1>7, <1>8, <1>9, GoOn
<1>11. Delivery'
  BY <1>1, <1>5, <1>7, Quiet
<1> QED
  BY <1>9, <1>10, <1>11

(* OFFSET_H, on the high byte: a length below 15 goes straight to the copy.*)
LEMMA OffsetHStep ==
  ASSUME TypeOK, TypeOK', Sending, Fits, Control, Delivery, Testbench, OffsetH
  PROVE  core'.state # "IDLE" /\ Control' /\ Delivery'
<1>1. core.state = "OFFSET_H" /\ Produce /\ Consume(TRUE) /\ history_ram' = history_ram
  <2>1. (\E r \in Ready : Edge("OFFSET_H", r)) /\ history_ram' = history_ram
    BY DEF OffsetH
  <2> QED
    BY <2>1, EdgeIs
<1>2. PICK k \in DOMAIN block : InRecord(k) /\ Places(k) /\ Matched(k) /\ Written(k)
  BY <1>1, Where
<1> DEFINE M == Match(k)
           m == M - 4
           d == s_axis_tdata
           saved == core.saved_match_token
<1>3. M > 0 /\ core.write_ptr = CopyAt(k) /\ sent = OffsetAt(k) + 1
      /\ saved = Nibble(m) /\ core.offset_low = Offset(k) % 256
  BY <1>1, <1>2 DEF InRecord, InOffset, TokenKept
<1>4. /\ OffsetAt(k) \in Nat /\ EndAt(k) \in Nat /\ Len(Extension(m)) \in Nat
      /\ EndAt(k) = OffsetAt(k) + 2 + Len(Extension(m))
      /\ EndAt(k) <= Len(stream) /\ Len(stream) \in Nat
      /\ M \in Nat /\ m \in Nat /\ Offset(k) \in Nat
  BY <1>2, <1>3, MatchPlaces
<1>5. block' = block /\ Accepted /\ offered /\ sent' = OffsetAt(k) + 2
  <2>1. sent < Len(stream)
    BY <1>3, <1>4
  <2>2. core.state \in Reading
    BY <1>1 DEF Reading, States
  <2>3. sent + 1 = OffsetAt(k) + 2
    BY <1>3, <1>4
  <2> QED
    BY <1>1, <2>1, <2>2, <2>3, Fed
<1>6. d = Offset(k) \div 256
  <2>1. stream[OffsetAt(k) + 2] = Offset(k) \div 256
    BY <1>2, <1>3 DEF Written
  <2>2. sent + 1 = OffsetAt(k) + 2
    BY <1>3, <1>4
  <2> QED
    BY <2>1, <2>2 DEF s_axis_tdata
<1> DEFINE ext == saved = 15
           s == IF ext THEN "EXT_MATCH" ELSE "MATCH_COPY"
           o == 256 * d + core.offset_low
           n == saved + 4
<1>7. o = Offset(k)
  <2> DEFINE f == Offset(k)
  <2>1. f \in Nat
    BY <1>4
  <2> HIDE DEF f
  <2>2. 256 * (f \div 256) + (f % 256) = f
    BY <2>1
  <2> QED
    BY <1>3, <1>6, <2>2 DEF f
<1>8. /\ core'.state = s /\ core'.match_offset = o /\ core'.match_len = n
      /\ core'.saved_match_token = saved /\ (core'.s_axis_tready <=> ext)
      /\ core'.m_axis_tvalid = core.m_axis_tvalid
      /\ core'.done = core.done /\ core'.last_byte_seen = Latched.last_byte_seen
      /\ core'.write_ptr = core.write_ptr
      /\ core'.decompressed_bytes = core.decompressed_bytes
      /\ core'.m_axis_tlast = core.m_axis_tlast
  <2> DEFINE t == saved = 15
  <2>1. core' = [Latched EXCEPT !.match_offset = o, !.match_len = n, !.s_axis_tready = t, !.state = s]
    BY <1>5 DEF OffsetH
  <2>2. t \in BOOLEAN
    OBVIOUS
  <2> HIDE DEF t, s, o, n
  <2>3. /\ core'.state = s /\ core'.match_offset = o /\ core'.match_len = n
        /\ core'.saved_match_token = saved /\ core'.s_axis_tready = t
        /\ core'.m_axis_tvalid = core.m_axis_tvalid
        /\ core'.done = core.done /\ core'.last_byte_seen = Latched.last_byte_seen
        /\ core'.write_ptr = core.write_ptr
        /\ core'.decompressed_bytes = core.decompressed_bytes
        /\ core'.m_axis_tlast = core.m_axis_tlast
    <3> DEFINE p == Latched
    <3>1. p \in Registers
      BY LatchedIs
    <3>2. core' = [p EXCEPT !.match_offset = o, !.match_len = n, !.s_axis_tready = t, !.state = s]
      BY <2>1
    <3> HIDE DEF p
    <3>3. /\ core'.state = s /\ core'.match_offset = o /\ core'.match_len = n
          /\ core'.s_axis_tready = t /\ core'.saved_match_token = p.saved_match_token
      BY <3>1, <3>2, SMTT(30) DEF Registers
    <3>4. /\ core'.m_axis_tvalid = p.m_axis_tvalid /\ core'.m_axis_tlast = p.m_axis_tlast
          /\ core'.done = p.done /\ core'.last_byte_seen = p.last_byte_seen
      BY <3>1, <3>2, SMTT(30) DEF Registers
    <3>5. core'.write_ptr = p.write_ptr /\ core'.decompressed_bytes = p.decompressed_bytes
      BY <3>1, <3>2, SMTT(30) DEF Registers
    <3> QED
      BY <3>3, <3>4, <3>5, LatchedIs DEF p
  <2>4. core'.s_axis_tready <=> t
    BY <2>2, <2>3
  <2> QED
    BY <2>3, <2>4 DEF t
<1>9. ~core.m_axis_tvalid
  BY <1>1 DEF Control, Silent
<1>10. /\ saved \in Nat /\ saved <= 15 /\ (ext <=> m >= 15) /\ (m < 15 => saved = m)
  <2> HIDE DEF m
  <2> QED
    BY <1>3, <1>4, NibbleIs
<1> HIDE DEF d, o, saved
<1>11. CASE ext
  <2>1. n - 4 = 15 /\ m >= 15 /\ sent' - OffsetAt(k) - 2 = 0
    BY <1>4, <1>5, <1>10, <1>11
  <2>2. Partly(n - 4, m, sent' - OffsetAt(k) - 2)
    <3> HIDE DEF m, n
    <3>1. (m - 15) \div 255 \in Nat
      BY <1>4, <2>1, ExtensionIs
    <3> QED
      BY <2>1, <3>1 DEF Partly
  <2> HIDE DEF n
  <2>3. core'.state = "EXT_MATCH" /\ core'.s_axis_tready
    BY <1>8, <1>11
  <2>4. InRecord(k)'
    <3>1. Kept(k) /\ block' = block /\ core'.state = "EXT_MATCH"
          /\ Match(k) > 0 /\ core'.write_ptr = CopyAt(k) /\ core'.match_offset = Offset(k)
      BY <1>3, <1>5, <1>7, <1>8, <2>3 DEF Kept
    <3>2. Partly(core'.match_len - 4, Match(k) - 4, sent' - OffsetAt(k) - 2)
      BY <1>8, <2>2
    <3> QED
      BY ONLY <3>1, <3>2, Arrive
  <2>5. core'.state \in Reading /\ core'.state \notin {"DONE", "IDLE"}
    BY <2>3 DEF Reading, States
  <2>6. Control'
    BY <1>1, <1>8, <1>9, <2>3, <2>4, <2>5, GoOn
  <2>7. Delivery'
    BY <1>1, <1>5, <1>8, <1>9, Quiet
  <2> QED
    BY <2>5, <2>6, <2>7
<1>12. CASE ~ext
  <2>1. n = M /\ M \in 1 .. M /\ m < 15
    BY <1>3, <1>4, <1>10, <1>12
  <2>2. sent' = EndAt(k)
    <3> HIDE DEF m
    <3>1. Len(Extension(m)) = 0
      BY <1>4, <2>1, ExtensionLen
    <3> QED
      BY <1>4, <1>5, <3>1
  <2>3. core'.state = "MATCH_COPY" /\ ~core'.s_axis_tready
    BY <1>8, <1>12
  <2> HIDE DEF n
  <2>4. InRecord(k)'
    BY <1>3, <1>5, <1>7, <1>8, <2>1, <2>2, <2>3, Arrive DEF Kept
  <2>5. core'.state \notin Reading /\ core'.state \notin {"DONE", "IDLE"}
    BY <2>3 DEF Reading, States
  <2>6. Control'
    BY <1>1, <1>8, <1>9, <2>3, <2>4, <2>5, GoOn
  <2>7. Delivery'
    BY <1>1, <1>5, <1>8, <1>9, Quiet
  <2> QED
    BY <2>5, <2>6, <2>7
<1> QED
  BY <1>11, <1>12

(* EXT_MATCH, on a length byte of the match.                               *)
LEMMA ExtMatchStep ==
  ASSUME TypeOK, TypeOK', Sending, Fits, Control, Delivery, Testbench, ExtMatch
  PROVE  core'.state # "IDLE" /\ Control' /\ Delivery'
<1>1. core.state = "EXT_MATCH" /\ Produce /\ Consume(TRUE) /\ history_ram' = history_ram
  <2>1. (\E r \in Ready : Edge("EXT_MATCH", r)) /\ history_ram' = history_ram
    BY DEF ExtMatch
  <2> QED
    BY <2>1, EdgeIs
<1>2. PICK k \in DOMAIN block : InRecord(k) /\ Places(k) /\ Matched(k) /\ Written(k)
  BY <1>1, Where
<1> DEFINE M == Match(k)
           m == M - 4
           U == OffsetAt(k)
           y == Len(Extension(m))
           d == s_axis_tdata
           c == core.match_len
           i == sent - U - 2
           n == (c + d) % 65536
<1>3. M > 0 /\ core.write_ptr = CopyAt(k) /\ Partly(c - 4, m, i)
      /\ core.match_offset = Offset(k) /\ core.saved_match_token = Nibble(m)
  BY <1>1, <1>2 DEF InRecord, InExtMatch, TokenKept
<1>4. /\ M \in Nat /\ m \in Nat /\ M <= 4096 /\ U \in Nat /\ y \in Nat
      /\ EndAt(k) = U + 2 + y /\ EndAt(k) <= Len(stream) /\ Len(stream) \in Nat
  BY <1>2, <1>3, MatchPlaces
<1>5. sent \in Nat /\ c \in Nat
  BY Fields DEF TypeOK
<1>6. \A j \in 1 .. y : stream[U + 2 + j] = Extension(m)[j]
  BY <1>2, <1>3 DEF Written
<1> HIDE DEF m, U
<1>7. i \in Nat /\ i + 1 \in 1 .. y
  <2> DEFINE l == c - 4
  <2> HIDE DEF i, l
  <2>1. Partly(l, m, i)
    BY <1>3 DEF l
  <2> QED
    BY <1>4, <2>1, PartlyIs
<1> HIDE DEF y
<1>8. sent = U + 2 + i /\ sent < Len(stream)
  BY <1>4, <1>5, <1>7
<1>9. block' = block /\ Accepted /\ offered /\ sent' = sent + 1
  <2>1. core.state \in Reading
    BY <1>1 DEF Reading, States
  <2> QED
    BY <1>1, <1>8, <2>1, Fed
<1>10. d = Extension(m)[i + 1]
  <2>1. stream[U + 2 + (i + 1)] = Extension(m)[i + 1]
    BY <1>6, <1>7
  <2>2. sent + 1 = U + 2 + (i + 1)
    BY <1>4, <1>7, <1>8
  <2> QED
    BY <2>1, <2>2 DEF s_axis_tdata
<1>11. /\ d = 255 => Partly(n - 4, m, i + 1)
       /\ d # 255 => n - 4 = m /\ n = M /\ y = i + 1
  <2> DEFINE l == c - 4
  <2> HIDE DEF i, d, l
  <2>1. /\ l \in Nat /\ d \in Nat /\ l + d <= m
        /\ d = 255 => Partly(l + d, m, i + 1)
        /\ d # 255 => l + d = m /\ y = i + 1
    <3>1. Partly(l, m, i)
      BY <1>3 DEF l
    <3> QED
      BY <1>4, <1>10, <3>1, Lengthened DEF y
  <2>2. n = c + d /\ n - 4 = l + d
    <3> DEFINE sum == c + d
    <3>1. sum \in Nat /\ sum < 65536 /\ sum - 4 = l + d
      <4>1. c \in Nat /\ d \in Nat /\ m \in Nat /\ l + d <= m
        BY <1>4, <1>5, <2>1
      <4>2. m <= 4096
        <5>1. M \in Nat /\ M <= 4096
          BY <1>4
        <5> HIDE DEF M
        <5> QED
          BY <5>1 DEF m
      <4>3. l = c - 4
        BY DEF l
      <4> HIDE DEF c, M
      <4> QED
        BY ONLY <4>1, <4>2, <4>3
    <3>2. n = sum % 65536
      OBVIOUS
    <3> HIDE DEF sum, n
    <3>3. n = sum
      BY <3>1, <3>2
    <3> QED
      BY <3>1, <3>3 DEF sum
  <2> HIDE DEF n
  <2>3. d # 255 => n = M
    <3>1. d # 255 => l + d = M - 4
      BY <2>1 DEF m
    <3>2. M \in Nat /\ n = c + d /\ c \in Nat /\ d \in Nat /\ l = c - 4
      BY <1>4, <1>5, <2>1, <2>2 DEF l
    <3> HIDE DEF M, c
    <3> QED
      BY ONLY <3>1, <3>2
  <2> QED
    BY <2>1, <2>2, <2>3
<1> DEFINE s == IF d # 255 THEN "MATCH_COPY" ELSE "EXT_MATCH"
<1>12. /\ core'.state = s /\ core'.match_len = n /\ (core'.s_axis_tready <=> d = 255)
       /\ core'.saved_match_token = core.saved_match_token
       /\ core'.match_offset = core.match_offset
       /\ core'.m_axis_tvalid = core.m_axis_tvalid
       /\ core'.done = core.done /\ core'.last_byte_seen = Latched.last_byte_seen
       /\ core'.write_ptr = core.write_ptr
       /\ core'.decompressed_bytes = core.decompressed_bytes
       /\ core'.m_axis_tlast = core.m_axis_tlast
  <2>1. core.s_axis_tready
    BY <1>9 DEF Accepted
  <2> DEFINE t == d = 255 /\ Latched.s_axis_tready
             q == IF d # 255 THEN "MATCH_COPY" ELSE Latched.state
             l == (Latched.match_len + d) % 65536
  <2>2. core' = [Latched EXCEPT !.match_len = l, !.s_axis_tready = t, !.state = q]
    BY <1>9 DEF ExtMatch
  <2>3. l = n
    BY LatchedIs
  <2>4. t \in BOOLEAN /\ (t <=> d = 255)
    BY <2>1, LatchedIs
  <2>5. q = s
    BY <1>1, LatchedIs
  <2> HIDE DEF l, t, q, s, n, d
  <2>6. /\ core'.state = q /\ core'.match_len = l /\ core'.s_axis_tready = t
        /\ core'.saved_match_token = core.saved_match_token
        /\ core'.match_offset = core.match_offset
        /\ core'.m_axis_tvalid = core.m_axis_tvalid
        /\ core'.done = core.done /\ core'.last_byte_seen = Latched.last_byte_seen
        /\ core'.write_ptr = core.write_ptr
        /\ core'.decompressed_bytes = core.decompressed_bytes
        /\ core'.m_axis_tlast = core.m_axis_tlast
    BY <2>2, <2>4, LatchedIs DEF Registers
  <2>7. core'.s_axis_tready <=> d = 255
    BY <2>4, <2>6
  <2> QED
    BY <2>3, <2>5, <2>6, <2>7
<1>13. Kept(k) /\ ~core'.m_axis_tvalid
  BY <1>1, <1>3, <1>12 DEF Kept, Control, Silent, m
<1> HIDE DEF n, d
<1>14. InRecord(k)'
  <2>1. CASE d = 255
    <3>1. Partly(n - 4, m, sent' - U - 2)
      <4>1. sent' - U - 2 = i + 1
        BY <1>4, <1>5, <1>9
      <4> QED
        BY <1>11, <2>1, <4>1
    <3>2. core'.state = "EXT_MATCH"
      BY <1>12, <2>1
    <3> QED
      BY <1>3, <1>9, <1>12, <1>13, <3>1, <3>2, Arrive DEF m, U
  <2>2. CASE d # 255
    <3>1. n = M /\ M \in 1 .. M
      BY <1>3, <1>4, <1>11, <2>2
    <3>2. sent' = EndAt(k)
      BY <1>4, <1>5, <1>8, <1>9, <1>11, <2>2
    <3>3. core'.state = "MATCH_COPY"
      BY <1>12, <2>2
    <3> QED
      BY <1>3, <1>9, <1>12, <1>13, <3>1, <3>2, <3>3, Arrive
  <2> QED
    BY <2>1, <2>2
<1>15. core'.state \notin {"DONE", "IDLE"} /\ (core'.s_axis_tready <=> core'.state \in Reading)
  BY <1>12 DEF Reading, States
<1>16. Control'
  BY <1>1, <1>12, <1>13, <1>14, <1>15, GoOn
<1>17. Delivery'
  BY <1>1, <1>9, <1>12, <1>13, Quiet
<1> QED
  BY <1>15, <1>16, <1>17

(* A match reads what the output has at its distance, in this block: the   *)
(* byte that its own output goes on with.                                  *)
LEMMA ReadsOutput ==
  ASSUME TypeOK, Delivery, NEW k, Places(k), Matched(k), Repeated(k), InMatchCopy(k),
         core.state = "MATCH_COPY", Match(k) > 0
  PROVE  /\ Window(match_read_addr) = Out[core.write_ptr + 1]
         /\ Window(match_read_addr) \in Byte \cup {X}
         /\ core.write_ptr < Len(Out)
<1> DEFINE wp == core.write_ptr
           off == core.match_offset
           M == Match(k)
           C == CopyAt(k)
           i == wp + 1 - C
           a == wp - off
<1>1. core.match_len \in 1 .. M /\ wp + core.match_len = C + M /\ off = Offset(k)
  BY DEF InMatchCopy
<1>2. /\ M \in Nat /\ Offset(k) \in Nat /\ Offset(k) >= 1 /\ Offset(k) <= C /\ C \in Nat
      /\ C <= 4096 /\ C + M <= Len(Out) /\ Len(Out) \in Nat
  BY MatchPlaces
<1>3. MAX_BLOCK_SIZE \in Nat /\ MAX_BLOCK_SIZE <= 4096 /\ Len(Out) <= MAX_BLOCK_SIZE
  BY DEF Places
<1>4. wp \in Nat /\ core.match_len \in Nat /\ off \in Nat
  BY Fields DEF TypeOK
<1> HIDE DEF wp, off, M, C
<1>5. /\ wp < Len(Out) /\ wp >= C /\ i \in 1 .. M /\ C + i = wp + 1
      /\ a \in Nat /\ a < wp /\ a + 1 \in 1 .. wp /\ C + i - Offset(k) = a + 1
      /\ off < 8192 /\ a < 4096 /\ wp >= off
  <2> DEFINE c == core.match_len
  <2>1. c \in Nat /\ c >= 1 /\ c <= M /\ wp + c = C + M
    <3> HIDE DEF c
    <3>1. c \in 1 .. M /\ c \in Nat
      BY <1>1, <1>4 DEF c
    <3>2. wp + c = C + M
      BY <1>1 DEF c
    <3> QED
      BY <1>2, <3>1, <3>2
  <2>2. off \in Nat /\ off >= 1 /\ off <= C /\ Offset(k) = off
    BY <1>1, <1>2, <1>4
  <2> HIDE DEF c
  <2>3. wp < Len(Out) /\ wp >= C /\ i \in 1 .. M /\ C + i = wp + 1
    BY <1>2, <1>4, <2>1
  <2>4. a \in Nat /\ a < wp /\ a + 1 \in 1 .. wp /\ wp >= off /\ off < 8192 /\ a < 4096
    BY <1>2, <1>3, <1>4, <2>2, <2>3
  <2>5. C + i - off = a + 1
    BY <1>2, <1>4, <2>2
  <2> QED
    BY <2>2, <2>3, <2>4, <2>5
<1>6. match_read_addr = a
  <2>1. off % 8192 = off
    BY <1>4, <1>5
  <2>2. a % 4096 = a
    <3> HIDE DEF a
    <3> QED
      BY <1>5
  <2>3. match_read_addr = IF wp >= off % 8192 THEN a % 4096 ELSE 0
    BY DEF match_read_addr, wp, off
  <2> HIDE DEF a
  <2> QED
    BY <1>5, <2>1, <2>2, <2>3
<1>7. a \in 0 .. (MAX_BLOCK_SIZE - 1) /\ a < MAX_BLOCK_SIZE
  BY <1>2, <1>3, <1>4, <1>5
<1>8. history_ram[a] = Out[a + 1]
  <2>1. \A j \in 1 .. wp : history_ram[j - 1] = Out[j]
    BY DEF Delivery, wp
  <2>2. (a + 1) - 1 = a
    BY <1>5
  <2> HIDE DEF a
  <2> QED
    BY <1>5, <2>1, <2>2
<1>9. Out[C + i] = Out[C + i - Offset(k)]
  <2> HIDE DEF i
  <2> QED
    BY <1>5 DEF Repeated, C, M
<1>10. history_ram[a] \in Byte \cup {X}
  <2> HIDE DEF a
  <2> QED
    BY <1>7 DEF TypeOK
<1>11. Window(match_read_addr) = history_ram[a]
  <2> HIDE DEF a
  <2> QED
    BY <1>6, <1>7 DEF Window
<1>12. history_ram[a] = Out[wp + 1]
  BY <1>5, <1>8, <1>9
<1> QED
  BY <1>5, <1>10, <1>11, <1>12 DEF wp

(* MATCH_COPY, one byte at a time: what it reads from the window is what   *)
(* the format repeats.                                                     *)
LEMMA MatchCopyStep ==
  ASSUME TypeOK, TypeOK', Sending, Fits, Control, Delivery, Testbench, MatchCopy
  PROVE  core'.state # "IDLE" /\ Control' /\ Delivery'
<1> DEFINE d == Window(match_read_addr)
           r0 == [Latched EXCEPT !.s_axis_tready = FALSE]
           q == Advance(Copied)
           c == core.match_len
           wp == core.write_ptr
<1>1. PICK r \in Ready :
        /\ Edge("MATCH_COPY", r)
        /\ r =>
             /\ core' = IF c = 1 THEN Finish(q, core.last_byte_seen, "TOKEN") ELSE OneLess(q)
             /\ history_ram' = Remember(d)
  BY DEF MatchCopy
<1>2. r = TRUE /\ core.state = "MATCH_COPY" /\ Produce /\ Consume(TRUE)
  <2>1. Edge("MATCH_COPY", r)
    BY <1>1
  <2> QED
    BY <2>1, EdgeIs
<1>3. PICK k \in DOMAIN block :
        InRecord(k) /\ Places(k) /\ Matched(k) /\ Repeated(k)
  BY <1>2, Where
<1> DEFINE M == Match(k)
           C == CopyAt(k)
           U == EndAt(k)
<1>4. /\ InMatchCopy(k) /\ c \in 1 .. M /\ wp + c = C + M /\ core.match_offset = Offset(k)
      /\ sent = U
      /\ (M > 0 => core.saved_match_token = Nibble(M - 4))
  BY <1>2, <1>3 DEF InRecord, InMatchCopy, TokenKept
<1>5. c \in Nat /\ wp \in Nat /\ core.decompressed_bytes = wp /\ core.last_byte_seen \in BOOLEAN
      /\ core \in Registers
  BY Fields DEF TypeOK, Delivery
<1>6. M > 0
  <2>1. M \in Nat
    BY <1>3 DEF Places
  <2> HIDE DEF M, c
  <2> QED
    BY <1>4, <1>5, <2>1
<1>7. /\ M \in Nat /\ M <= 4096 /\ C \in Nat /\ U \in Nat
      /\ U <= Len(stream) /\ Len(stream) \in Nat
      /\ C + M <= Len(Out) /\ Len(Out) \in Nat
      /\ Len(Out) <= MAX_BLOCK_SIZE /\ MAX_BLOCK_SIZE \in Nat /\ MAX_BLOCK_SIZE <= 4096
  BY <1>3, <1>6, MatchPlaces DEF Places
<1>8. d = Out[wp + 1] /\ d \in Byte \cup {X} /\ wp < Len(Out)
  BY <1>2, <1>3, <1>4, <1>6, ReadsOutput
<1>9. block' = block /\ stream' = stream /\ sent' = sent
  <2>1. core.state \notin Reading
    BY <1>2 DEF Reading
  <2> QED
    BY <1>2, <2>1, Fed
<1> HIDE DEF d, M, C, U, c, wp
<1>10. /\ q \in Registers
       /\ q.state = core.state /\ q.done = core.done /\ q.last_byte_seen = Latched.last_byte_seen
       /\ q.match_len = c /\ q.match_offset = core.match_offset
       /\ q.saved_match_token = core.saved_match_token /\ ~q.s_axis_tready
       /\ q.write_ptr = wp + 1 /\ q.decompressed_bytes = wp + 1
       /\ q.m_axis_tvalid /\ q.m_axis_tdata = d
       /\ q.m_axis_tlast <=> wp = MAX_BLOCK_SIZE - 1
  <2>1. Latched \in Registers
    BY LatchedIs
  <2>2. r0 \in Registers
    BY <2>1, SetFlag DEF Flags
  <2>3. /\ r0.state = core.state /\ r0.done = core.done /\ r0.last_byte_seen = Latched.last_byte_seen
        /\ r0.match_len = c /\ r0.match_offset = core.match_offset
        /\ r0.saved_match_token = core.saved_match_token /\ ~r0.s_axis_tready
        /\ r0.write_ptr = wp /\ r0.decompressed_bytes = wp
    BY <1>5, <2>1, LatchedIs DEF Registers, c, wp
  <2>4. q = Advance(Present(r0, d))
    BY DEF Copied, d
  <2>5. r0.write_ptr < 8191 /\ r0.decompressed_bytes < 8191
    BY <1>5, <1>7, <1>8, <2>3
  <2> HIDE DEF r0, q
  <2>6. /\ q \in Registers
        /\ q.state = r0.state /\ q.done = r0.done /\ q.last_byte_seen = r0.last_byte_seen
        /\ q.match_len = r0.match_len /\ q.match_offset = r0.match_offset
        /\ q.saved_match_token = r0.saved_match_token
        /\ q.s_axis_tready = r0.s_axis_tready
        /\ q.write_ptr = r0.write_ptr + 1 /\ q.decompressed_bytes = r0.decompressed_bytes + 1
        /\ q.m_axis_tvalid /\ q.m_axis_tdata = d
        /\ q.m_axis_tlast <=> core.write_ptr = MAX_BLOCK_SIZE - 1
    BY <1>8, <2>2, <2>4, <2>5, ShownIs
  <2> QED
    BY <2>3, <2>6 DEF wp
<1> HIDE DEF q
<1>11. history_ram' = Remember(d)
  BY <1>1, <1>2
<1>12. CASE c = 1
  <2>1. core' = Finish(q, core.last_byte_seen, "TOKEN")
    BY <1>1, <1>2, <1>12
  <2>2. "TOKEN" \in States
    BY DEF States
  <2> DEFINE end == core.write_ptr + 1 = MAX_BLOCK_SIZE \/ core.last_byte_seen
  <2>3. /\ core'.state = IF end THEN "DONE" ELSE "TOKEN"
        /\ core'.s_axis_tready <=> ~end
        /\ core'.done = core.done /\ core'.last_byte_seen = Latched.last_byte_seen
        /\ core'.saved_match_token = core.saved_match_token
        /\ core'.write_ptr = wp + 1 /\ core'.decompressed_bytes = wp + 1
        /\ core'.m_axis_tvalid /\ core'.m_axis_tdata = d
        /\ core'.m_axis_tlast <=> wp = MAX_BLOCK_SIZE - 1
    BY <1>5, <1>10, <2>1, <2>2, FinishIs DEF wp
  <2>4. Delivery'
    BY <1>2, <1>5, <1>7, <1>8, <1>9, <1>11, <2>3, Shown DEF wp
  <2>5. wp + 1 = C + M
    BY <1>4, <1>5, <1>7, <1>12
  <2>6. core.last_byte_seen <=> sent = Len(stream)
    BY DEF Control
  <2>7. CASE k = Len(block)
    <3>1. U = Len(stream) /\ C + M = Len(Out)
      BY <1>3, <1>6, <2>7 DEF Matched, U, C, M
    <3>2. end /\ sent' = Len(stream)
      BY <1>4, <1>9, <2>6, <3>1
    <3>3. core'.state = "DONE" /\ ~core'.s_axis_tready /\ core'.write_ptr = Len(Out)
      BY <2>3, <2>5, <3>1, <3>2
    <3>4. Control'
      BY <1>2, <2>3, <3>2, <3>3, Through
    <3> QED
      BY <2>4, <3>3, <3>4
  <2>8. CASE k # Len(block)
    <3> DEFINE j == k + 1
    <3>1. k < Len(block) /\ DOMAIN block = 1 .. Len(block)
      <4>1. k \in 1 .. Len(block) /\ Len(block) \in Nat
        BY <1>3 DEF Places
      <4>2. block \in Seq(LZ4Sequence)
        <5>1. <<>> \in Seq(LZ4Sequence)
          OBVIOUS
        <5>2. block \in BlockSet \cup {<<>>}
          BY DEF Sending
        <5>3. BlockSet \subseteq Seq(LZ4Sequence)
          BY CoreAssumption
        <5> QED
          BY <5>1, <5>2, <5>3
      <4>3. DOMAIN block = 1 .. Len(block)
        BY <4>2, BlockType
      <4> QED
        BY <2>8, <4>1, <4>3
    <3>2. /\ j \in 1 .. Len(block) /\ U < Len(stream) /\ C + M < Len(Out)
          /\ TokenAt(j) = U /\ OutAt(j) = C + M
      BY <1>3, <1>6, <3>1 DEF Matched, U, C, M
    <3> HIDE DEF j
    <3>3. wp + 1 # MAX_BLOCK_SIZE
      BY <1>5, <1>7, <2>5, <3>2
    <3>4. ~end
      BY <1>4, <1>7, <2>6, <3>2, <3>3 DEF wp
    <3>5. core'.state = "TOKEN" /\ core'.s_axis_tready
      BY <2>3, <3>4
    <3>6. InRecord(j)'
      BY <1>4, <1>9, <2>3, <2>5, <3>2, <3>5, Arrive
    <3>7. core'.state \in Reading /\ core'.state \notin Silent \cup {"DONE", "IDLE"}
      BY <3>5 DEF Reading, States, Silent
    <3>8. j \in DOMAIN block
      BY <3>1, <3>2
    <3>9. Control'
      BY <1>2, <2>3, <3>5, <3>6, <3>7, <3>8, GoOn
    <3> QED
      BY <2>4, <3>7, <3>9
  <2> QED
    BY <2>7, <2>8
<1>13. CASE c # 1
  <2> DEFINE l == (q.match_len - 1) % 65536
  <2>1. core' = [q EXCEPT !.match_len = l]
    BY <1>1, <1>2, <1>13 DEF OneLess
  <2>2. l = c - 1
    <3>1. c - 1 \in Nat /\ c - 1 < 65536
      BY <1>4, <1>5, <1>7
    <3> QED
      BY <1>10, <3>1
  <2> HIDE DEF l
  <2>3. /\ core'.state = q.state /\ core'.s_axis_tready = q.s_axis_tready /\ core'.match_len = l
        /\ core'.done = q.done /\ core'.last_byte_seen = q.last_byte_seen
        /\ core'.match_offset = q.match_offset
        /\ core'.saved_match_token = q.saved_match_token
        /\ core'.write_ptr = q.write_ptr /\ core'.decompressed_bytes = q.decompressed_bytes
        /\ core'.m_axis_tvalid = q.m_axis_tvalid /\ core'.m_axis_tdata = q.m_axis_tdata
        /\ core'.m_axis_tlast = q.m_axis_tlast
    <3>1. q \in Registers
      BY <1>10
    <3> QED
      BY <2>1, <3>1 DEF Registers
  <2>4. /\ core'.state = "MATCH_COPY" /\ ~core'.s_axis_tready /\ core'.match_len = l
        /\ core'.done = core.done /\ core'.last_byte_seen = Latched.last_byte_seen
        /\ core'.match_offset = Offset(k)
        /\ core'.saved_match_token = core.saved_match_token
        /\ core'.write_ptr = wp + 1 /\ core'.decompressed_bytes = wp + 1
        /\ core'.m_axis_tvalid /\ core'.m_axis_tdata = d
        /\ core'.m_axis_tlast <=> wp = MAX_BLOCK_SIZE - 1
    BY <1>2, <1>4, <1>10, <2>3
  <2>5. Delivery'
    BY <1>2, <1>5, <1>7, <1>8, <1>9, <1>11, <2>4, Shown DEF wp
  <2>6. l \in 1 .. M /\ core'.write_ptr + l = C + M
    <3>1. core'.write_ptr = wp + 1
      BY <2>4
    <3> QED
      BY <1>4, <1>5, <1>7, <1>13, <2>2, <3>1
  <2>7. InRecord(k)'
    BY <1>4, <1>9, <2>4, <2>6, Arrive DEF Kept, M, C, U
  <2>8. core'.state \notin Reading /\ core'.state \notin Silent \cup {"DONE", "IDLE"}
    BY <2>4 DEF Reading, States, Silent
  <2>9. Control'
    BY <1>2, <2>4, <2>7, <2>8, GoOn
  <2> QED
    BY <2>5, <2>8, <2>9
<1> QED
  BY <1>12, <1>13

(* DONE goes back to IDLE with the block delivered.                        *)
LEMMA DoneStep ==
  ASSUME TypeOK, TypeOK', Sending, Fits, Control, Delivery, Testbench, Done
  PROVE  core'.state = "IDLE" /\ Finished'
<1>1. core.state = "DONE" /\ Produce /\ Consume(TRUE) /\ history_ram' = history_ram
  <2>1. (\E r \in Ready : Edge("DONE", r)) /\ history_ram' = history_ram
    BY DEF Done
  <2> QED
    BY <2>1, EdgeIs
<1>2. sent = Len(stream) /\ core.write_ptr = Len(Out)
  BY <1>1 DEF Control
<1>3. /\ block' = block /\ stream' = stream /\ sent' = sent
      /\ ~offered' /\ Len(stream) \in Nat
  <2>1. core.state \notin Reading
    BY <1>1 DEF Reading
  <2> QED
    BY <1>1, <1>2, <2>1, Fed
<1>4. /\ core'.state = "IDLE" /\ ~core'.busy /\ ~core'.m_axis_tvalid
      /\ core'.decompressed_bytes = core.decompressed_bytes
  <2>1. core' = [Latched EXCEPT !.m_axis_tvalid = FALSE, !.m_axis_tlast = FALSE,
                                !.s_axis_tready = FALSE, !.done = TRUE,
                                !.busy = FALSE, !.state = "IDLE"]
    BY DEF Done
  <2>2. Latched \in Registers /\ Latched.decompressed_bytes = core.decompressed_bytes
    BY LatchedIs
  <2> QED
    BY <2>1, <2>2 DEF Registers
<1> DEFINE d == core.m_axis_tdata
           wp == core.write_ptr
<1>5. /\ wp \in Nat /\ core.decompressed_bytes = wp
      /\ Len(taken) = wp - (IF core.m_axis_tvalid THEN 1 ELSE 0)
      /\ \A i \in 1 .. Len(taken) : taken[i] = Out[i]
      /\ core.m_axis_tvalid => d = Out[wp]
      /\ taken \in Seq(Byte \cup {X})
  BY Fields DEF TypeOK, Delivery
<1>6. taken' = IF core.m_axis_tvalid THEN Append(taken, d) ELSE taken
  BY <1>1 DEF Consume
<1>7. Len(taken') = wp /\ \A i \in 1 .. wp : taken'[i] = Out[i]
  <2>1. CASE core.m_axis_tvalid
    <3>1. taken' = Append(taken, d) /\ Len(taken) = wp - 1 /\ d = Out[wp]
      BY <1>5, <1>6, <2>1
    <3> HIDE DEF d, wp
    <3> QED
      BY <1>5, <3>1
  <2>2. CASE ~core.m_axis_tvalid
    BY <1>5, <1>6, <2>2
  <2> QED
    BY <2>1, <2>2
<1>8. taken' = Out
  <2>1. Out \in Seq(Byte)
    <3>1. block \in Seq(LZ4Sequence)
      <4>1. <<>> \in Seq(LZ4Sequence)
        OBVIOUS
      <4>2. block \in BlockSet \cup {<<>>}
        BY DEF Sending
      <4>3. BlockSet \subseteq Seq(LZ4Sequence)
        BY CoreAssumption
      <4> QED
        BY <4>1, <4>2, <4>3
    <3> QED
      BY <3>1, WellFormedIs, DecodedPlaces DEF Out, Fits
  <2>2. taken' \in Seq(Byte \cup {X})
    BY DEF TypeOK
  <2>3. Len(taken') = Len(Out) /\ \A i \in 1 .. Len(Out) : taken'[i] = Out[i]
    BY <1>2, <1>7
  <2> QED
    BY <2>1, <2>2, <2>3
<1>9. Out' = Out
  BY <1>3, SameBlock
<1> QED
  BY <1>2, <1>3, <1>4, <1>5, <1>8, <1>9 DEF Finished

(* IDLE stays finished until a reset.                                      *)
LEMMA IdleStep ==
  ASSUME TypeOK, Finished, Idle
  PROVE  core'.state = "IDLE" /\ Finished'
<1>1. core.state = "IDLE" /\ UNCHANGED <<block, stream, sent, offered>>
      /\ \E r \in Ready : Consume(r)
  BY DEF Idle
<1>2. taken' = taken
  BY <1>1 DEF Consume, Finished
<1>3. /\ core'.state = core.state /\ ~core'.busy /\ ~core'.m_axis_tvalid
      /\ core'.decompressed_bytes = core.decompressed_bytes
  BY DEF Idle, TypeOK, Registers
<1>4. Out' = Out
  BY <1>1, SameBlock
<1> QED
  BY <1>1, <1>2, <1>3, <1>4 DEF Finished

(* The first record of a block is the one a start begins with.             *)
LEMMA StartStep ==
  ASSUME TypeOK, TypeOK', Testbench, NEW b \in BlockSet, Start(b), Fits'
  PROVE  core'.state # "IDLE" /\ Control' /\ Delivery'
<1>1. b \in Seq(LZ4Sequence) /\ b # <<>>
  BY CoreAssumption
<1>2. block' = b /\ stream' = Encode(b) /\ sent' = 0 /\ taken' = <<>>
  BY DEF Start
<1>3. Len(b) \in Nat /\ DOMAIN b = 1 .. Len(b) /\ 1 \in DOMAIN b /\ Len(b) > 0
  BY <1>1, BlockType
<1>4. EncodedTo(b, 0) = <<>> /\ DecodedLen(b, 0) = 0
  <2>1. \A k \in 1 .. Len(b) : EncodeSequence(b[k]) \in Seq(Byte)
    BY <1>1, BlockType
  <2> QED
    BY <1>1, <1>3, <2>1, EncodedIs, LengthsAre
<1>5. Len(stream') \in Nat /\ Len(stream') > 0
  <2> DEFINE p == Len(EncodedTo(b, 0))
             q == Len(EncodedTo(b, 1))
             n == Len(Encode(b))
  <2>1. p \in Nat /\ q \in Nat /\ n \in Nat
    <3>1. 0 \in 0 .. Len(b) /\ 1 \in 0 .. Len(b) /\ Encode(b) \in Seq(Byte)
      BY <1>1, <1>3, EncodedPlaces
    <3> QED
      BY <1>1, <3>1, EncodedPlaces
  <2>2. p < q /\ q <= n
    <3>1. 1 \in 1 .. Len(b) /\ 1 - 1 = 0
      BY <1>3
    <3>2. Len(EncodedTo(b, 1 - 1)) < q /\ q <= n
      BY <1>1, <3>1, EncodedPlaces
    <3> QED
      BY <3>1, <3>2
  <2> HIDE DEF p, q, n
  <2>3. n > 0
    BY <2>1, <2>2
  <2> QED
    BY <1>2, <2>1, <2>3 DEF n
<1>6. offered' = TRUE
  BY Zenon DEF Start, Testbench
<1>7. /\ core'.state = "TOKEN" /\ core'.s_axis_tready /\ ~core'.done /\ ~core'.last_byte_seen
      /\ ~core'.m_axis_tvalid /\ ~core'.m_axis_tlast
      /\ core'.write_ptr = 0 /\ core'.decompressed_bytes = 0
  <2>1. core' = [core EXCEPT !.done = FALSE, !.error_flag = FALSE, !.last_byte_seen = FALSE,
                             !.m_axis_tvalid = FALSE, !.m_axis_tlast = FALSE, !.busy = TRUE,
                             !.write_ptr = 0, !.decompressed_bytes = 0, !.s_axis_tready = TRUE,
                             !.state = "TOKEN"]
    BY DEF Start
  <2>2. core \in Registers
    BY DEF TypeOK
  <2> QED
    BY <2>1, <2>2 DEF Registers
<1>8. Len(Out') \in Nat
  <2>1. Out' = Decode(b) /\ WellFormed(b, MAX_BLOCK_SIZE)
    BY <1>2 DEF Out, Fits
  <2>2. Decode(b) \in Seq(Byte)
    BY <1>1, <2>1, WellFormedIs, DecodedPlaces
  <2> QED
    BY <2>1, <2>2
<1>9. Control'
  <2>1. TokenAt(1)' = 0 /\ OutAt(1)' = 0
    BY <1>2, <1>4 DEF TokenAt, OutAt
  <2>2. InRecord(1)'
    BY <1>2, <1>7, <2>1 DEF InRecord, InToken, InExtLit, InLiteral, InOffset, InExtMatch,
                             InMatchCopy, TokenKept
  <2>3. \E k \in DOMAIN block' : InRecord(k)'
    BY <1>2, <1>3, <2>2
  <2>4. core'.state \in Reading /\ core'.state \notin Silent
    BY <1>7 DEF Reading, States, Silent
  <2>5. (offered' <=> sent' < Len(stream')) /\ (core'.last_byte_seen <=> sent' = Len(stream'))
    BY <1>2, <1>5, <1>6, <1>7
  <2> QED
    BY <1>7, <2>3, <2>4, <2>5 DEF Control, Reading, Silent
<1>10. Delivery'
  <2>1. Len(taken') = 0
    BY <1>2
  <2>2. MAX_BLOCK_SIZE \in Nat /\ MAX_BLOCK_SIZE > 0
    BY CoreAssumption
  <2>3. core'.write_ptr <= Len(Out')
    BY <1>7, <1>8
  <2>5. Len(taken') = core'.write_ptr - (IF core'.m_axis_tvalid THEN 1 ELSE 0)
    <3> DEFINE shown == IF core'.m_axis_tvalid THEN 1 ELSE 0
               length == Len(taken')
               place == core'.write_ptr
    <3>1. shown = 0 /\ length = 0 /\ place = 0
      BY <1>7, <2>1
    <3> HIDE DEF shown, length, place
    <3>2. length = place - shown
      BY <3>1
    <3> QED
      BY <3>2 DEF shown, length, place
  <2>6. core'.m_axis_tlast <=> core'.write_ptr = MAX_BLOCK_SIZE
    <3>1. core'.write_ptr = 0 /\ ~core'.m_axis_tlast
      BY <1>7
    <3>2. MAX_BLOCK_SIZE # 0
      BY <2>2
    <3> QED
      BY <3>1, <3>2
  <2>4. /\ \A i \in 1 .. core'.write_ptr : history_ram'[i - 1] = Out'[i]
        /\ \A i \in 1 .. Len(taken') : taken'[i] = Out'[i]
    <3>1. \A i \in 1 .. 0 : FALSE
      OBVIOUS
    <3> QED
      BY <1>7, <2>1, <3>1
  <2> QED
    BY <1>7, <2>3, <2>4, <2>5, <2>6 DEF Delivery
<1> QED
  BY <1>7, <1>9, <1>10

(* Every step keeps the invariant of the core.                             *)
LEMMA CoreInvKept ==
  ASSUME TypeOK, TypeOK', Sending', CoreInv, Testbench, Next
  PROVE  CoreInv'
<1> SUFFICES ASSUME Fits'
             PROVE  IF core'.state = "IDLE" THEN Finished' ELSE Control' /\ Delivery'
  BY DEF CoreInv
<1>1. Sending /\ (Fits => IF core.state = "IDLE" THEN Finished ELSE Control /\ Delivery)
  BY DEF CoreInv
<1>2. ASSUME NEW b \in BlockSet, Start(b)
      PROVE  core'.state # "IDLE" /\ Control' /\ Delivery'
  BY <1>2, StartStep
<1>3. ~Reset
  <2>1. ASSUME Reset PROVE FALSE
    <3>1. block' = <<>>
      BY <2>1 DEF Reset
    <3> QED
      BY <3>1 DEF Fits, WellFormed
  <2> QED
    BY <2>1
<1>4. ASSUME Idle PROVE core'.state = "IDLE" /\ Finished'
  <2>1. core.state = "IDLE" /\ block' = block
    BY <1>4 DEF Idle
  <2>2. Fits
    BY <2>1, SameBlock
  <2> QED
    BY <1>1, <1>4, <2>1, <2>2, IdleStep
<1>5. ASSUME NEW st \in States \ {"IDLE"}, NEW r, Edge(st, r) PROVE Fits /\ Control /\ Delivery
  <2>1. core.state = st /\ block' = block
    BY <1>5 DEF Edge, Produce
  <2>2. Fits
    BY <2>1, SameBlock
  <2> QED
    BY <1>1, <2>1, <2>2
<1>6. {"TOKEN", "EXT_LIT", "LITERAL", "OFFSET_L", "OFFSET_H", "EXT_MATCH", "MATCH_COPY", "DONE"}
        = States \ {"IDLE"}
  BY DEF States
<1>7. CASE Token
  <2>1. PICK r : Edge("TOKEN", r)
    BY <1>7 DEF Token
  <2>2. Fits /\ Control /\ Delivery
    BY <1>5, <1>6, <2>1
  <2> QED
    BY <1>1, <1>7, <2>2, TokenStep
<1>8. CASE ExtLit
  <2>1. PICK r : Edge("EXT_LIT", r)
    BY <1>8 DEF ExtLit
  <2>2. Fits /\ Control /\ Delivery
    BY <1>5, <1>6, <2>1
  <2> QED
    BY <1>1, <1>8, <2>2, ExtLitStep
<1>9. CASE Literal
  <2>1. PICK r : Edge("LITERAL", r)
    BY <1>9 DEF Literal
  <2>2. Fits /\ Control /\ Delivery
    BY <1>5, <1>6, <2>1
  <2> QED
    BY <1>1, <1>9, <2>2, LiteralStep
<1>10. CASE OffsetL
  <2>1. PICK r : Edge("OFFSET_L", r)
    BY <1>10 DEF OffsetL
  <2>2. Fits /\ Control /\ Delivery
    BY <1>5, <1>6, <2>1
  <2> QED
    BY <1>1, <1>10, <2>2, OffsetLStep
<1>11. CASE OffsetH
  <2>1. PICK r : Edge("OFFSET_H", r)
    BY <1>11 DEF OffsetH
  <2>2. Fits /\ Control /\ Delivery
    BY <1>5, <1>6, <2>1
  <2> QED
    BY <1>1, <1>11, <2>2, OffsetHStep
<1>12. CASE ExtMatch
  <2>1. PICK r : Edge("EXT_MATCH", r)
    BY <1>12 DEF ExtMatch
  <2>2. Fits /\ Control /\ Delivery
    BY <1>5, <1>6, <2>1
  <2> QED
    BY <1>1, <1>12, <2>2, ExtMatchStep
<1>13. CASE MatchCopy
  <2>1. PICK r : Edge("MATCH_COPY", r)
    BY <1>13 DEF MatchCopy
  <2>2. Fits /\ Control /\ Delivery
    BY <1>5, <1>6, <2>1
  <2> QED
    BY <1>1, <1>13, <2>2, MatchCopyStep
<1>14. CASE Done
  <2>1. PICK r : Edge("DONE", r)
    BY <1>14 DEF Done
  <2>2. Fits /\ Control /\ Delivery
    BY <1>5, <1>6, <2>1
  <2> QED
    BY <1>1, <1>14, <2>2, DoneStep
<1> QED
  BY <1>2, <1>3, <1>4, <1>7, <1>8, <1>9, <1>10, <1>11, <1>12, <1>13, <1>14 DEF Next, ClockEdge

(* Between peers that do not pause, the core is always at a place of the   *)
(* block it has decompressed up to there.                                  *)
THEOREM CoreInvariantHolds ==
  ASSUME ~ProducerGaps, ~ConsumerStalls
  PROVE  Spec => []CoreInv
<1>1. Testbench
  BY DEF Testbench
<1>2. Init => CoreInv
  <2> SUFFICES ASSUME Init PROVE CoreInv
    OBVIOUS
  <2>1. Sending
    BY InitTypes
  <2>2. ~Fits
    BY DEF Init, Fits, WellFormed
  <2> QED
    BY <2>1, <2>2 DEF CoreInv
<1>3. TypeOK /\ TypeOK' /\ Sending' /\ CoreInv /\ [Next]_vars => CoreInv'
  <2>1. ASSUME CoreInv, UNCHANGED vars PROVE CoreInv'
    <3>1. UNCHANGED <<core, history_ram, block, stream, sent, offered, taken>>
      BY <2>1 DEF vars, environment
    <3>2. Sending' /\ (Fits' <=> Fits) /\ (Finished' <=> Finished)
          /\ (Control' <=> Control) /\ (Delivery' <=> Delivery)
      <4>1. Out' = Out /\ (Fits' <=> Fits)
        BY <3>1, SameBlock
      <4>2. \A k : InRecord(k)' <=> InRecord(k)
        BY <3>1 DEF InRecord, InToken, InExtLit, InLiteral, InOffset, InExtMatch, InMatchCopy,
                    TokenKept, Partly, Literals, Offset, Match, TokenAt, LitsAt, OffsetAt,
                    EndAt, OutAt, CopyAt
      <4>3. Control' <=> Control
        BY <3>1, <4>1, <4>2 DEF Control, Reading, Silent
      <4>4. (Finished' <=> Finished) /\ (Delivery' <=> Delivery) /\ Sending'
        BY <2>1, <3>1, <4>1 DEF Finished, Delivery, Sending, CoreInv
      <4> QED
        BY <4>1, <4>3, <4>4
    <3> QED
      BY <2>1, <3>1, <3>2 DEF CoreInv
  <2> QED
    BY <1>1, <2>1, CoreInvKept
<1>4. Spec => [](TypeOK /\ Sending)
  BY TypesAlways
<1> QED
  BY <1>2, <1>3, <1>4, PTL DEF Spec
-----------------------------------------------------------------------------
(* What the invariant says of a block that fits the window.                *)
LEMMA OutputType ==
  ASSUME TypeOK, CoreInv, Fits
  PROVE  Out \in Seq(Byte) /\ Len(Out) \in Nat
<1>1. block \in BlockSet
  <2>1. block # <<>>
    BY DEF Fits, WellFormed
  <2> QED
    BY <2>1 DEF CoreInv, Sending
<1>2. block \in Seq(LZ4Sequence) /\ block # <<>>
  BY <1>1, CoreAssumption
<1>3. Out \in Seq(Byte)
  BY <1>2, WellFormedIs, DecodedPlaces DEF Fits, Out
<1> QED
  BY <1>3

(* A sequence whose elements are those of a longer one is a prefix of it.  *)
LEMMA PrefixOf ==
  ASSUME NEW S, NEW s \in Seq(S), NEW T, NEW t \in Seq(T), Len(s) <= Len(t),
         \A i \in 1 .. Len(s) : s[i] = t[i]
  PROVE  IsPrefix(s, t)
<1> DEFINE n == Len(s)
<1>1. n \in Nat /\ Len(t) \in Nat /\ n <= Len(t)
  OBVIOUS
<1>2. SubSeq(s, 1, n) = [i \in 1 .. n |-> s[i]]
  OBVIOUS
<1>3. SubSeq(t, 1, n) = [i \in 1 .. n |-> t[i]]
  BY <1>1
<1>4. SubSeq(s, 1, n) = SubSeq(t, 1, n)
  BY <1>2, <1>3
<1> QED
  BY <1>1, <1>4 DEF IsPrefix

(* The pointer and the counter are numbers.                                *)
LEMMA CountersAre ==
  ASSUME TypeOK
  PROVE  core.write_ptr \in Nat /\ core.decompressed_bytes \in Nat
<1>1. core \in Registers
  BY DEF TypeOK
<1>2. core.write_ptr \in Below(8192) /\ core.decompressed_bytes \in Below(8192)
  BY <1>1 DEF Registers
<1>3. Below(8192) \subseteq Nat
  BY DEF Below
<1> QED
  BY <1>2, <1>3

(* The invariant implies the safety properties of the run.                 *)
LEMMA WindowFollows ==
  ASSUME TypeOK, CoreInv, Fits, core.busy
  PROVE  /\ core.write_ptr <= Len(Out)
         /\ \A i \in 1 .. core.write_ptr : history_ram[i - 1] = Out[i]
<1>1. core.state # "IDLE"
  BY DEF CoreInv, Finished
<1>2. Delivery
  BY <1>1 DEF CoreInv
<1> QED
  BY <1>2 DEF Delivery

(* The invariant gives the deliveries: a prefix at every moment, all of it *)
(* at the end, and tlast on no byte but the 4096th.                        *)
LEMMA DeliveryFollows ==
  ASSUME TypeOK, CoreInv, Fits
  PROVE  /\ IsPrefix(taken, Out)
         /\ core.done => taken = Out /\ sent = Len(stream)
         /\ core.m_axis_tvalid /\ core.m_axis_tlast => Len(taken) + 1 = MAX_BLOCK_SIZE
<1>1. Out \in Seq(Byte) /\ Len(Out) \in Nat
  BY OutputType
<1>2. taken \in Seq(Byte \cup {X}) /\ Len(taken) \in Nat
  BY DEF TypeOK
<1>3. CASE core.state = "IDLE"
  <2>1. Finished
    BY <1>3 DEF CoreInv
  <2>2. taken = Out /\ sent = Len(stream) /\ ~core.m_axis_tvalid
    BY <2>1 DEF Finished
  <2>3. IsPrefix(taken, Out)
    BY <1>1, <2>2, PrefixOf
  <2> QED
    BY <2>2, <2>3
<1>4. CASE core.state # "IDLE"
  <2>1. Control /\ Delivery
    BY <1>4 DEF CoreInv
  <2> DEFINE shown == IF core.m_axis_tvalid THEN 1 ELSE 0
             length == Len(taken)
             place == core.write_ptr
             whole == Len(Out)
  <2>2. shown \in Nat /\ length \in Nat /\ place \in Nat /\ whole \in Nat
    BY <1>1, <1>2, CountersAre
  <2>3. length = place - shown /\ place <= whole
    BY <2>1 DEF Delivery
  <2>4. core.m_axis_tvalid => shown = 1
    OBVIOUS
  <2>5. core.m_axis_tlast => place = MAX_BLOCK_SIZE
    BY <2>1 DEF Delivery
  <2>6. ~core.done
    BY <2>1 DEF Control
  <2>7. \A i \in 1 .. Len(taken) : taken[i] = Out[i]
    BY <2>1 DEF Delivery
  <2> HIDE DEF shown, length, place, whole
  <2>8. length <= whole
    BY <2>2, <2>3
  <2>9. IsPrefix(taken, Out)
    BY <1>1, <1>2, <2>7, <2>8, PrefixOf DEF length, whole
  <2>10. core.m_axis_tvalid /\ core.m_axis_tlast => length + 1 = MAX_BLOCK_SIZE
    BY <2>2, <2>3, <2>4, <2>5
  <2> QED
    BY <2>6, <2>9, <2>10 DEF length
<1> QED
  BY <1>3, <1>4

(* While the core is busy, the window below the write pointer is the       *)
(* output of the block being decompressed: a match reaches nothing that an *)
(* earlier block or a reset left in history_ram.                           *)
THEOREM WindowIsThisBlocks ==
  ASSUME ~ProducerGaps, ~ConsumerStalls
  PROVE  Spec => []WindowHoldsOutput
<1>1. TypeOK /\ CoreInv => WindowHoldsOutput
  BY WindowFollows DEF WindowHoldsOutput, Fits, Out
<1> QED
  BY <1>1, TypesAlways, CoreInvariantHolds, PTL

(* The consumer receives what the block decodes to, in order and complete  *)
(* when done is raised, and no byte of the stream is left over.            *)
THEOREM BlockIsDelivered ==
  ASSUME ~ProducerGaps, ~ConsumerStalls
  PROVE  Spec => []BlockDelivered
<1>1. TypeOK /\ CoreInv => BlockDelivered
  BY DeliveryFollows DEF BlockDelivered, Fits, Out
<1> QED
  BY <1>1, TypesAlways, CoreInvariantHolds, PTL
=============================================================================
