------------------------------ MODULE SetLemmas ------------------------------
(***************************************************************************)
(* Facts about sets of naturals, finite sets and sums over finite sets     *)
(* that the proofs about several components use.  Induction is over a set, *)
(* the set of the things of which the claim is true.                       *)
(***************************************************************************)
EXTENDS Integers, FiniteSetsExt, FiniteSetTheorems, TLAPS

(* A non-empty set of naturals has a least element.                        *)
LEMMA LeastNatural ==
  ASSUME NEW S \in SUBSET Nat, S # {}
  PROVE  \E m \in S : \A y \in S : m <= y
<1> DEFINE R == {ss \in Nat \X Nat : ss[1] < ss[2]}
<1>1. IsWellFoundedOn(R, Nat)
  BY NatLessThanWellFounded DEF OpToRel
<1>2. PICK m \in S : \A y \in S : ~(<<y, m>> \in R)
  <2> HIDE DEF R
  <2> QED
    BY <1>1, WFMin
<1>3. \A y \in S : y < m => <<y, m>> \in R
  OBVIOUS
<1>4. \A y \in S : ~(y < m)
  BY <1>2, <1>3
<1> HIDE DEF R
<1> QED
  BY <1>4

(* A non-empty set of naturals with an upper bound has a greatest element. *)
LEMMA GreatestNatural ==
  ASSUME NEW n \in Nat, NEW S \in SUBSET (0 .. n), S # {}
  PROVE  \E m \in S : \A y \in S : y <= m
<1> DEFINE T == {n - x : x \in S}
<1>1. T \in SUBSET Nat
  OBVIOUS
<1>2. T # {}
  OBVIOUS
<1>3. PICK t \in T : \A y \in T : t <= y
  BY <1>1, <1>2, LeastNatural
<1>4. PICK m \in S : t = n - m
  OBVIOUS
<1>5. \A y \in S : y <= m
  BY <1>3, <1>4
<1> QED
  BY <1>5

(* A set of naturals that holds 0 and every successor is all of them.      *)
LEMMA Induction ==
  ASSUME NEW G \in SUBSET Nat, 0 \in G, \A n \in G : n + 1 \in G
  PROVE  G = Nat
<1> SUFFICES ASSUME Nat \ G # {} PROVE FALSE
  OBVIOUS
<1>1. PICK m \in Nat \ G : \A y \in Nat \ G : m <= y
  BY LeastNatural
<1>2. m # 0 /\ m - 1 \in Nat /\ ~(m <= m - 1)
  OBVIOUS
<1>3. m - 1 \in G
  BY <1>1, <1>2
<1>4. (m - 1) + 1 \in G
  BY <1>3
<1> QED
  BY <1>4

(* n steps from one value in S to the next, and what they make of a.       *)
Steps(n, S) == [1 .. n -> [S -> S]]
Computed(f, n, S, a, g) ==
  f \in [0 .. n -> S] /\ f[0] = a /\ \A i \in 1 .. n : f[i] = g[i][f[i - 1]]

(* Values that are computed one from the other exist, as a function.       *)
LEMMA Recursion ==
  ASSUME NEW n \in Nat, NEW S, NEW a \in S, NEW g \in Steps(n, S)
  PROVE  \E f : Computed(f, n, S, a, g)
<1> USE DEF Steps
<1> DEFINE Upto(f, k) == f[0] = a /\ \A i \in 1 .. k : f[i] = g[i][f[i - 1]]
           Good == {k \in Nat : k <= n => \E f \in [0 .. k -> S] : Upto(f, k)}
<1>1. 0 \in Good
  <2> DEFINE f == [i \in 0 .. 0 |-> a]
  <2>1. f \in [0 .. 0 -> S] /\ Upto(f, 0)
    OBVIOUS
  <2> QED
    BY <2>1
<1>2. ASSUME NEW k \in Good PROVE k + 1 \in Good
  <2> HIDE DEF Upto
  <2> SUFFICES ASSUME k + 1 <= n PROVE \E h \in [0 .. k + 1 -> S] : Upto(h, k + 1)
    OBVIOUS
  <2> USE DEF Upto
  <2>1. PICK f \in [0 .. k -> S] : Upto(f, k)
    OBVIOUS
  <2>2. g[k + 1][f[k]] \in S
    OBVIOUS
  <2> DEFINE h == [i \in 0 .. k + 1 |-> IF i = k + 1 THEN g[k + 1][f[k]] ELSE f[i]]
  <2>3. h \in [0 .. k + 1 -> S]
    BY <2>2
  <2>4. ASSUME NEW i \in 1 .. k + 1 PROVE h[i] = g[i][h[i - 1]]
    <3>1. CASE i = k + 1
      <4>1. h[i - 1] = f[k]
        BY <3>1
      <4> QED
        BY <3>1, <4>1
    <3>2. CASE i # k + 1
      <4>1. i \in 1 .. k /\ h[i] = f[i] /\ h[i - 1] = f[i - 1]
        BY <3>2
      <4> QED
        BY <2>1, <4>1
    <3> QED
      BY <3>1, <3>2
  <2>5. h[0] = a
    BY <2>1
  <2> HIDE DEF h
  <2> QED
    BY <2>3, <2>4, <2>5
<1>3. Good = Nat
  <2> HIDE DEF Good
  <2>1. Good \in SUBSET Nat
    BY DEF Good
  <2> QED
    BY <1>1, <1>2, <2>1, Induction
<1>4. PICK f \in [0 .. n -> S] : Upto(f, n)
  BY <1>3
<1>5. Computed(f, n, S, a, g)
  BY <1>4 DEF Computed
<1> QED
  BY <1>5

-----------------------------------------------------------------------------
Picked(s) == CHOOSE x \in s : TRUE

(* A claim that a set inherits from the set without the element picked     *)
(* from it is true of every finite set.                                    *)
LEMMA SubsetInduction ==
  ASSUME NEW S, IsFiniteSet(S), NEW Q \in SUBSET SUBSET S, {} \in Q,
         \A s \in SUBSET S : s # {} /\ s \ {Picked(s)} \in Q => s \in Q
  PROVE  Q = SUBSET S
<1> DEFINE Bad == {s \in SUBSET S : s \notin Q}
           Sizes == {Cardinality(s) : s \in Bad}
<1>1. \A s \in SUBSET S : IsFiniteSet(s) /\ Cardinality(s) \in Nat
  BY FS_Subset, FS_CardinalityType
<1>2. SUFFICES ASSUME Bad # {} PROVE FALSE
  OBVIOUS
<1>3. Sizes \in SUBSET Nat /\ Sizes # {}
  BY <1>1, <1>2
<1>4. PICK m \in Sizes : \A y \in Sizes : m <= y
  BY <1>3, LeastNatural
<1>5. PICK s \in Bad : m = Cardinality(s)
  BY <1>4
<1>6. s # {} /\ s \in SUBSET S /\ s \notin Q
  OBVIOUS
<1> DEFINE x == Picked(s)
           r == s \ {x}
<1>7. x \in s
  BY <1>6 DEF Picked
<1> HIDE DEF x
<1>8. r \in SUBSET S /\ Cardinality(r) = Cardinality(s) - 1
  BY <1>1, <1>6, <1>7, FS_RemoveElement
<1>9. r \notin Q
  BY <1>6 DEF x
<1>10. Cardinality(r) \in Sizes
  BY <1>8, <1>9
<1>11. Cardinality(s) <= Cardinality(r)
  BY <1>4, <1>5, <1>10
<1> QED
  BY <1>1, <1>6, <1>8, <1>11

(* The sum of the values of f on S.                                        *)
SumOf(f, S) == MapThenSumSet(LAMBDA x : f[x], S)

(* h maps every subset of S to the sum of f over it.                       *)
Sums(h, f, S) ==
  h = [s \in SUBSET S |-> IF s = {} THEN 0 ELSE f[Picked(s)] + h[s \ {Picked(s)}]]

(* A sum over a set is its total.                                          *)
LEMMA SumOfIs ==
  ASSUME NEW f, NEW S
  PROVE  SumOf(f, S) = (CHOOSE h : Sums(h, f, S))[S]
BY DEF SumOf, MapThenSumSet, MapThenFoldSet, Sums, Picked

(* The recursion is well founded on a finite set: such an h exists.        *)
LEMMA SumsExist ==
  ASSUME NEW f, NEW S, IsFiniteSet(S)
  PROVE  \E h : Sums(h, f, S)
<1> DEFINE Small(n) == {s \in SUBSET S : Cardinality(s) <= n}
           Next(h, s) == IF s = {} THEN 0 ELSE f[Picked(s)] + h[s \ {Picked(s)}]
           Partial(h, n) == \A s \in Small(n) : h[s] = Next(h, s)
           Good == {n \in Nat : \E h : Partial(h, n)}
<1>1. \A s \in SUBSET S : IsFiniteSet(s) /\ Cardinality(s) \in Nat
  BY FS_Subset, FS_CardinalityType
<1>2. ASSUME NEW s \in SUBSET S, s # {}
      PROVE  s \ {Picked(s)} \in SUBSET S /\ Cardinality(s \ {Picked(s)}) = Cardinality(s) - 1
  <2> DEFINE x == Picked(s)
  <2>1. x \in s
    BY <1>2 DEF Picked
  <2> HIDE DEF x
  <2>2. Cardinality(s \ {x}) = Cardinality(s) - 1
    BY <1>1, <2>1, FS_RemoveElement
  <2> QED
    BY <2>2 DEF x
<1>3. 0 \in Good
  <2> DEFINE h == [s \in SUBSET S |-> 0]
  <2>1. ASSUME NEW s \in Small(0) PROVE h[s] = Next(h, s)
    <3>1. Cardinality(s) = 0 /\ IsFiniteSet(s)
      BY <1>1
    <3>2. s = {}
      BY <3>1, FS_EmptySet
    <3> QED
      BY <3>2
  <2> QED
    BY <2>1
<1>4. ASSUME NEW n \in Good PROVE n + 1 \in Good
  <2>1. PICK h : Partial(h, n)
    OBVIOUS
  <2> DEFINE g == [s \in SUBSET S |-> Next(h, s)]
  <2>2. ASSUME NEW s \in Small(n + 1) PROVE g[s] = Next(g, s)
    <3>1. CASE s = {}
      BY <3>1
    <3>2. CASE s # {}
      <4> DEFINE r == s \ {Picked(s)}
      <4>1. r \in SUBSET S /\ Cardinality(r) = Cardinality(s) - 1
        BY <1>2, <3>2
      <4>2. r \in Small(n)
        BY <1>1, <4>1
      <4>3. h[r] = Next(h, r)
        BY <2>1, <4>2
      <4>4. g[r] = Next(h, r)
        BY <4>1
      <4>5. g[s] = f[Picked(s)] + h[r] /\ Next(g, s) = f[Picked(s)] + g[r]
        BY <3>2
      <4> QED
        BY <4>3, <4>4, <4>5
    <3> QED
      BY <3>1, <3>2
  <2>3. n + 1 \in Nat
    OBVIOUS
  <2> HIDE DEF g, Small, Next
  <2>4. Partial(g, n + 1)
    BY <2>2
  <2> HIDE DEF Partial
  <2> QED
    BY <2>3, <2>4
<1>5. Good = Nat
  <2> HIDE DEF Good
  <2>1. SUFFICES ASSUME Nat \ Good # {} PROVE FALSE
    BY DEF Good
  <2>2. PICK m \in Nat \ Good : \A y \in Nat \ Good : m <= y
    BY <2>1, LeastNatural
  <2>3. m # 0 /\ m \in Nat
    BY <1>3, <2>2
  <2>4. m - 1 \in Good
    <3>1. m - 1 \in Nat /\ ~(m <= m - 1)
      BY <2>3
    <3> QED
      BY <2>2, <3>1
  <2> DEFINE k == m - 1
  <2>5. k + 1 \in Good
    <3>1. k \in Good
      BY <2>4
    <3> HIDE DEF k
    <3> QED
      BY <1>4, <3>1
  <2>6. k + 1 = m
    BY <2>3
  <2> QED
    BY <2>2, <2>5, <2>6
<1>6. Cardinality(S) \in Good
  BY <1>1, <1>5
<1>7. PICK h : Partial(h, Cardinality(S))
  BY <1>6
<1>8. \A s \in SUBSET S : s \in Small(Cardinality(S))
  BY FS_Subset
<1> DEFINE g == [s \in SUBSET S |-> Next(h, s)]
<1>9. ASSUME NEW s \in SUBSET S PROVE g[s] = Next(g, s)
  <2>1. CASE s = {}
    BY <2>1
  <2>2. CASE s # {}
    <3> DEFINE r == s \ {Picked(s)}
    <3>1. r \in SUBSET S
      OBVIOUS
    <3>2. h[r] = Next(h, r)
      BY <1>7, <1>8, <3>1
    <3>3. g[r] = Next(h, r)
      BY <3>1
    <3>4. g[s] = f[Picked(s)] + h[r] /\ Next(g, s) = f[Picked(s)] + g[r]
      BY <2>2
    <3> QED
      BY <3>2, <3>3, <3>4
  <2> QED
    BY <2>1, <2>2
<1>10. g = [s \in SUBSET S |-> Next(g, s)]
  <2>1. g = [s \in SUBSET S |-> g[s]]
    OBVIOUS
  <2> HIDE DEF g
  <2> QED
    BY <1>9, <2>1
<1> QED
  BY <1>10 DEF Sums

(* The sums over the subsets of S, when f has integer values.              *)
Totals(f, S) == CHOOSE h : Sums(h, f, S)

AddUp(h, f, S) ==
  /\ SumOf(f, S) = h[S] /\ h[{}] = 0
  /\ \A s \in SUBSET S : s # {} =>
       /\ Picked(s) \in s /\ s \ {Picked(s)} \in SUBSET S
       /\ h[s] = f[Picked(s)] + h[s \ {Picked(s)}]
  /\ \A s \in SUBSET S : h[s] \in Int

(* The totals over the subsets add up, one picked element at a time.       *)
LEMMA TotalsIs ==
  ASSUME NEW S, IsFiniteSet(S), NEW f \in [S -> Int]
  PROVE  AddUp(Totals(f, S), f, S)
<1> DEFINE h == Totals(f, S)
<1>1. Sums(h, f, S)
  BY SumsExist DEF Totals
<1>2. h = [s \in SUBSET S |-> IF s = {} THEN 0 ELSE f[Picked(s)] + h[s \ {Picked(s)}]]
  BY <1>1 DEF Sums
<1>3. SumOf(f, S) = h[S]
  BY SumOfIs DEF Totals
<1> HIDE DEF h
<1>4. \A s \in SUBSET S : h[s] = IF s = {} THEN 0 ELSE f[Picked(s)] + h[s \ {Picked(s)}]
  BY <1>2
<1>5. \A s \in SUBSET S : s # {} => Picked(s) \in s /\ s \ {Picked(s)} \in SUBSET S
  BY DEF Picked
<1> DEFINE Q == {s \in SUBSET S : h[s] \in Int}
<1>6. {} \in Q
  <2>1. h[{}] = 0
    BY <1>4
  <2> QED
    BY <2>1
<1>7. ASSUME NEW s \in SUBSET S, s # {}, s \ {Picked(s)} \in Q PROVE s \in Q
  <2> DEFINE x == Picked(s)
             r == s \ {x}
  <2>1. x \in S /\ h[s] = f[x] + h[r] /\ h[r] \in Int
    BY <1>4, <1>5, <1>7
  <2> HIDE DEF x, r
  <2>2. f[x] \in Int
    BY <2>1
  <2> QED
    BY <2>1, <2>2
<1>8. Q = SUBSET S
  <2> HIDE DEF Q
  <2>1. Q \in SUBSET SUBSET S
    BY DEF Q
  <2> QED
    BY <1>6, <1>7, <2>1, SubsetInduction
<1> QED
  <2>1. h[{}] = 0
    BY <1>4
  <2>2. \A s \in SUBSET S : s # {} => h[s] = f[Picked(s)] + h[s \ {Picked(s)}]
    BY <1>4
  <2> QED
    BY <1>3, <1>5, <1>8, <2>1, <2>2 DEF h, AddUp

(* A sum of integers is an integer, of naturals a natural, of zeros zero.  *)
LEMMA SumType ==
  ASSUME NEW S, IsFiniteSet(S)
  PROVE  /\ \A f \in [S -> Int] : SumOf(f, S) \in Int
         /\ \A f \in [S -> Nat] : SumOf(f, S) \in Nat
         /\ \A f \in [S -> {0}] : SumOf(f, S) = 0
<1>1. ASSUME NEW f \in [S -> Int] PROVE SumOf(f, S) \in Int
  <2>1. AddUp(Totals(f, S), f, S)
    BY TotalsIs
  <2> QED
    BY <2>1 DEF AddUp
<1>2. ASSUME NEW f \in [S -> Nat] PROVE SumOf(f, S) \in Nat
  <2> DEFINE h == Totals(f, S)
             Q == {s \in SUBSET S : h[s] >= 0}
  <2>1. f \in [S -> Int]
    OBVIOUS
  <2>6. AddUp(h, f, S)
    BY <2>1, TotalsIs
  <2> HIDE DEF h
  <2>2. /\ SumOf(f, S) = h[S] /\ h[{}] = 0
        /\ \A s \in SUBSET S : s # {} =>
              /\ Picked(s) \in s /\ s \ {Picked(s)} \in SUBSET S
              /\ h[s] = f[Picked(s)] + h[s \ {Picked(s)}]
        /\ \A s \in SUBSET S : h[s] \in Int
    BY <2>6 DEF AddUp
  <2>3. {} \in Q
    BY <2>2
  <2>4. ASSUME NEW s \in SUBSET S, s # {}, s \ {Picked(s)} \in Q PROVE s \in Q
    <3> DEFINE x == Picked(s)
               r == s \ {x}
    <3>1. x \in S /\ h[s] = f[x] + h[r] /\ h[r] >= 0 /\ h[r] \in Int
      BY <2>2, <2>4
    <3> HIDE DEF x, r
    <3>2. f[x] \in Nat
      BY <3>1
    <3> QED
      BY <3>1, <3>2
  <2>5. Q = SUBSET S
    <3> HIDE DEF Q
    <3>1. Q \in SUBSET SUBSET S
      BY DEF Q
    <3> QED
      BY <2>3, <2>4, <3>1, SubsetInduction
  <2> QED
    BY <2>2, <2>5
<1>3. ASSUME NEW f \in [S -> {0}] PROVE SumOf(f, S) = 0
  <2> DEFINE h == Totals(f, S)
             Q == {s \in SUBSET S : h[s] = 0}
  <2>1. f \in [S -> Int]
    OBVIOUS
  <2>6. AddUp(h, f, S)
    BY <2>1, TotalsIs
  <2> HIDE DEF h
  <2>2. /\ SumOf(f, S) = h[S] /\ h[{}] = 0
        /\ \A s \in SUBSET S : s # {} =>
              /\ Picked(s) \in s /\ s \ {Picked(s)} \in SUBSET S
              /\ h[s] = f[Picked(s)] + h[s \ {Picked(s)}]
    BY <2>6 DEF AddUp
  <2>3. {} \in Q
    BY <2>2
  <2>4. ASSUME NEW s \in SUBSET S, s # {}, s \ {Picked(s)} \in Q PROVE s \in Q
    <3> DEFINE x == Picked(s)
               r == s \ {x}
    <3>1. x \in S /\ h[s] = f[x] + h[r] /\ h[r] = 0
      BY <2>2, <2>4
    <3> HIDE DEF x, r
    <3>2. f[x] = 0
      BY <3>1
    <3> QED
      BY <3>1, <3>2
  <2>5. Q = SUBSET S
    <3> HIDE DEF Q
    <3>1. Q \in SUBSET SUBSET S
      BY DEF Q
    <3> QED
      BY <2>3, <2>4, <3>1, SubsetInduction
  <2> QED
    BY <2>2, <2>5
<1> QED
  BY <1>1, <1>2, <1>3

(* Changing one value changes the sum by the difference.                   *)
LEMMA SumUpdate ==
  ASSUME NEW S, IsFiniteSet(S), NEW f \in [S -> Int], NEW g \in [S -> Int], NEW a \in S,
         \A x \in S : x # a => g[x] = f[x]
  PROVE  SumOf(g, S) = SumOf(f, S) + g[a] - f[a]
<1> DEFINE h == Totals(f, S)
           k == Totals(g, S)
           y == g[a]
           d == y - f[a]
           Q == {s \in SUBSET S : k[s] = h[s] + IF a \in s THEN d ELSE 0}
<1>1. g[a] = y /\ y \in Int /\ \A x \in S : x # a => g[x] = f[x]
  OBVIOUS
<1> HIDE DEF y
<1>9. AddUp(h, f, S) /\ AddUp(k, g, S)
  BY <1>1, TotalsIs
<1> HIDE DEF h, k
<1>2. /\ SumOf(f, S) = h[S] /\ h[{}] = 0
      /\ \A s \in SUBSET S : s # {} =>
              /\ Picked(s) \in s /\ s \ {Picked(s)} \in SUBSET S
              /\ h[s] = f[Picked(s)] + h[s \ {Picked(s)}]
      /\ \A s \in SUBSET S : h[s] \in Int
  BY <1>9 DEF AddUp
<1>3. /\ SumOf(g, S) = k[S] /\ k[{}] = 0
      /\ \A s \in SUBSET S : s # {} => k[s] = g[Picked(s)] + k[s \ {Picked(s)}]
      /\ \A s \in SUBSET S : k[s] \in Int
  BY <1>9 DEF AddUp
<1>4. {} \in Q
  BY <1>2, <1>3
<1>5. ASSUME NEW s \in SUBSET S, s # {}, s \ {Picked(s)} \in Q PROVE s \in Q
  <2> DEFINE x == Picked(s)
             r == s \ {x}
  <2>1. /\ x \in s /\ h[s] = f[x] + h[r] /\ k[s] = g[x] + k[r]
        /\ k[r] = h[r] + IF a \in r THEN d ELSE 0
        /\ h[r] \in Int
    BY <1>2, <1>3, <1>5
  <2> HIDE DEF x
  <2>2. f[x] \in Int /\ f[a] \in Int
    BY <2>1
  <2>5. y \in Int
    BY <1>1
  <2> HIDE DEF r
  <2>3. CASE x = a
    <3>1. a \notin r /\ a \in s /\ g[x] = y
      BY <1>1, <2>1, <2>3 DEF r
    <3>2. k[r] = h[r]
      BY <2>1, <3>1
    <3>3. k[s] = h[s] + d
      BY <2>1, <2>2, <2>3, <2>5, <3>1, <3>2
    <3> QED
      BY <3>1, <3>3
  <2>4. CASE x # a
    <3>1. a \in r <=> a \in s
      BY <2>4 DEF r
    <3>2. g[x] = f[x]
      BY <1>1, <2>1, <2>4
    <3>3. d \in Int
      BY <2>2, <2>5
    <3> HIDE DEF d
    <3>4. k[s] = h[s] + IF a \in s THEN d ELSE 0
      BY <2>1, <2>2, <3>1, <3>2, <3>3
    <3> QED
      BY <3>4
  <2> QED
    BY <2>3, <2>4
<1>6. Q = SUBSET S
  <2> HIDE DEF Q
  <2>1. Q \in SUBSET SUBSET S
    BY DEF Q
  <2> QED
    BY <1>4, <1>5, <2>1, SubsetInduction
<1>7. k[S] = h[S] + d
  BY <1>6
<1>8. f[a] \in Int /\ h[S] \in Int
  BY <1>2
<1> QED
  BY <1>1, <1>2, <1>3, <1>7, <1>8
=============================================================================
