------------------------------ MODULE DataLemmas ------------------------------
(***************************************************************************)
(* Induction for proofs about data, stated with sets where the library's   *)
(* theorems take an operator, and what the proofs need of the sum of a     *)
(* function over a finite set.                                             *)
(***************************************************************************)
EXTENDS Integers, FiniteSets, FiniteSetsExt, FiniteSetTheorems, WellFoundedInduction, TLAPS

\* A set of naturals that holds 0 and the successor of each of its members
\* holds them all: the least one missing would have a predecessor.
LEMMA NaturalsByOne ==
  ASSUME NEW P \in SUBSET Nat, 0 \in P, \A n \in P : n + 1 \in P
  PROVE  P = Nat
<1> SUFFICES ASSUME NEW m \in Nat, m \notin P PROVE FALSE
  OBVIOUS
<1> DEFINE Bad == Nat \ P
           R == OpToRel(<, Nat)
<1>1. IsWellFoundedOn(R, Nat)
  BY NatLessThanWellFounded
<1>2. Bad \subseteq Nat /\ Bad # {}
  OBVIOUS
<1>3. \A x, y \in Nat : y < x => <<y, x>> \in R
  BY DEF OpToRel
<1>4. \A x \in Bad : x \in Nat /\ x \notin P
  OBVIOUS
<1>5. \A x \in Nat : x \notin P => x \in Bad
  OBVIOUS
<1> HIDE DEF Bad, R
<1>6. \E x \in Bad : \A y \in Bad : ~ (<<y, x>> \in R)
  BY <1>1, <1>2, WFMin
<1>7. PICK x \in Bad : \A y \in Bad : ~ (<<y, x>> \in R)
  BY <1>6
<1>8. x # 0 /\ x - 1 \in Nat /\ x - 1 < x /\ (x - 1) + 1 = x
  BY <1>4
<1>9. x - 1 \in Bad
  BY <1>4, <1>5, <1>8
<1>10. QED
  BY <1>3, <1>4, <1>7, <1>8, <1>9

\* The element a fold takes from s first.
Elem(s) == CHOOSE x \in s : TRUE

\* The same for a set of subsets, built up in the order a fold takes them apart.
LEMMA SubsetInduction ==
  ASSUME NEW S, IsFiniteSet(S), NEW P \in SUBSET (SUBSET S), {} \in P,
         \A s \in SUBSET S : s # {} /\ s \ {Elem(s)} \in P => s \in P
  PROVE  P = SUBSET S
<1> SUFFICES ASSUME NEW b \in SUBSET S, b \notin P PROVE FALSE
  OBVIOUS
<1> DEFINE Bad == {s \in SUBSET S : s \notin P}
           R == StrictSubsetOrdering(S)
           F == FiniteSubsetsOf(S)
<1>1. Bad \subseteq F /\ Bad # {}
  BY FS_FiniteSubsetsOfFinite
<1>2. IsWellFoundedOn(R, F)
  BY FS_StrictSubsetOrderingWellFounded
<1>3. \A s, u \in SUBSET S : u \subseteq s /\ u # s => <<u, s>> \in R
  BY DEF StrictSubsetOrdering
<1>4. \A s \in Bad : s \in SUBSET S /\ s \notin P
  OBVIOUS
<1>5. \A s \in SUBSET S : s \notin P => s \in Bad
  OBVIOUS
<1> HIDE DEF Bad, R, F
<1>6. \E s \in Bad : \A u \in Bad : ~ (<<u, s>> \in R)
  BY <1>1, <1>2, WFMin
<1>7. PICK s \in Bad : \A u \in Bad : ~ (<<u, s>> \in R)
  BY <1>6
<1> DEFINE e == Elem(s)
<1>8. s # {} /\ s \in SUBSET S
  BY <1>4
<1>9. e \in s
  BY <1>8 DEF Elem
<1>10. s \ {e} \in SUBSET S /\ s \ {e} \subseteq s /\ s \ {e} # s
  BY <1>8, <1>9
<1>11. s \ {e} \in Bad
  BY <1>4, <1>5, <1>8, <1>10
<1> HIDE DEF e
<1>12. QED
  BY <1>3, <1>7, <1>8, <1>10, <1>11

-----------------------------------------------------------------------------
\* The sum of f over S, as SEApi writes it, and the function it iterates.
Sum(f, S) == FoldSet(LAMBDA t, n : n + f[t], 0, S)

SumEq(f, g, s) == g[s] = IF s = {} THEN 0 ELSE g[s \ {Elem(s)}] + f[Elem(s)]
Iterates(f, S, g) ==
  g = [s \in SUBSET S |-> IF s = {} THEN 0 ELSE g[s \ {Elem(s)}] + f[Elem(s)]]

\* On a finite set the recursion of the fold has a solution.
LEMMA SumExists ==
  ASSUME NEW S, IsFiniteSet(S), NEW f
  PROVE  \E g : Iterates(f, S, g)
<1> DEFINE P == {n \in Nat : \E g : \A s \in SUBSET S : Cardinality(s) <= n => SumEq(f, g, s)}
<1>0. \A s \in SUBSET S : /\ Cardinality(s) \in Nat
                          /\ Cardinality(s) = 0 => s = {}
                          /\ s # {} => /\ s \ {Elem(s)} \in SUBSET S
                                       /\ Cardinality(s \ {Elem(s)}) = Cardinality(s) - 1
  <2> SUFFICES ASSUME NEW s \in SUBSET S
               PROVE  /\ Cardinality(s) \in Nat
                      /\ Cardinality(s) = 0 => s = {}
                      /\ s # {} => /\ s \ {Elem(s)} \in SUBSET S
                                   /\ Cardinality(s \ {Elem(s)}) = Cardinality(s) - 1
    OBVIOUS
  <2>1. IsFiniteSet(s)
    BY FS_Subset
  <2>2. s # {} => Elem(s) \in s
    BY DEF Elem
  <2>3. QED
    BY <2>1, <2>2, FS_CardinalityType, FS_EmptySet, FS_RemoveElement
<1>1. 0 \in P
  <2> DEFINE g0 == [s \in SUBSET S |-> 0]
  <2>1. ASSUME NEW s \in SUBSET S, Cardinality(s) <= 0 PROVE SumEq(f, g0, s)
    <3>0. Cardinality(s) \in Nat
      BY <1>0
    <3>1. Cardinality(s) = 0
      BY <2>1, <3>0
    <3>2. s = {} /\ g0[s] = 0
      BY <1>0, <3>1
    <3>3. QED
      BY <3>2 DEF SumEq
  <2>2. QED
    BY <2>1
<1>2. ASSUME NEW n \in P PROVE n + 1 \in P
  <2>1. PICK g : \A s \in SUBSET S : Cardinality(s) <= n => SumEq(f, g, s)
    OBVIOUS
  <2> DEFINE h == [s \in SUBSET S |-> IF Cardinality(s) <= n THEN g[s]
                                      ELSE g[s \ {Elem(s)}] + f[Elem(s)]]
  <2>2. ASSUME NEW s \in SUBSET S, Cardinality(s) <= n + 1 PROVE SumEq(f, h, s)
    <3>1. CASE Cardinality(s) <= n
      <4>1. CASE s = {}
        BY <2>1, <3>1, <4>1 DEF SumEq
      <4>2. CASE s # {}
        <5>1. h[s] = g[s] /\ h[s \ {Elem(s)}] = g[s \ {Elem(s)}]
          BY <1>0, <3>1, <4>2
        <5>2. QED
          BY <2>1, <3>1, <4>2, <5>1 DEF SumEq
      <4>3. QED
        BY <4>1, <4>2
    <3>2. CASE ~(Cardinality(s) <= n)
      <4>1. s # {}
        BY <1>0, <3>2, FS_EmptySet
      <4>2. Cardinality(s \ {Elem(s)}) <= n
        BY <1>0, <2>2, <4>1
      <4>3. h[s \ {Elem(s)}] = g[s \ {Elem(s)}] /\ h[s] = g[s \ {Elem(s)}] + f[Elem(s)]
        BY <1>0, <3>2, <4>1, <4>2
      <4>4. QED
        BY <4>1, <4>3 DEF SumEq
    <3>3. QED
      BY <3>1, <3>2
  <2>3. \E k : \A s \in SUBSET S : Cardinality(s) <= n + 1 => SumEq(f, k, s)
    BY <2>2
  <2>4. n + 1 \in Nat
    OBVIOUS
  <2>5. QED
    BY <2>3, <2>4
<1>3. P = Nat
  BY <1>1, <1>2, NaturalsByOne
<1>4. PICK g : \A s \in SUBSET S : Cardinality(s) <= Cardinality(S) => SumEq(f, g, s)
  BY <1>0, <1>3
<1> DEFINE h == [s \in SUBSET S |-> g[s]]
<1>5. \A s \in SUBSET S : SumEq(f, g, s)
  BY <1>0, <1>4, FS_Subset
<1>6. Iterates(f, S, h)
  <2>1. \A s \in SUBSET S : h[s] = IF s = {} THEN 0 ELSE h[s \ {Elem(s)}] + f[Elem(s)]
    BY <1>0, <1>5 DEF SumEq
  <2>2. QED
    BY <2>1 DEF Iterates
<1>7. QED
  BY <1>6

\* The sum is the value of one.
LEMMA SumIterates ==
  ASSUME NEW S, IsFiniteSet(S), NEW f
  PROVE  \E g : Iterates(f, S, g) /\ Sum(f, S) = g[S]
<1> DEFINE g == CHOOSE g : Iterates(f, S, g)
<1>1. Sum(f, S) = g[S]
  BY DEF Sum, FoldSet, MapThenFoldSet, Iterates, Elem
<1>2. Iterates(f, S, g)
  BY SumExists
<1>3. QED
  BY <1>1, <1>2

\* What a solution says of the empty set, and of one element more.
LEMMA IteratesStep ==
  ASSUME NEW S, NEW f, NEW g, Iterates(f, S, g)
  PROVE  /\ g[{}] = 0
         /\ \A s \in SUBSET S : s # {} =>
              /\ Elem(s) \in s
              /\ s \ {Elem(s)} \in SUBSET S
              /\ g[s] = g[s \ {Elem(s)}] + f[Elem(s)]
<1>1. g[{}] = 0
  BY DEF Iterates
<1>2. ASSUME NEW s \in SUBSET S, s # {} PROVE Elem(s) \in s
  BY <1>2 DEF Elem
<1>3. ASSUME NEW s \in SUBSET S, s # {} PROVE g[s] = g[s \ {Elem(s)}] + f[Elem(s)]
  BY <1>3 DEF Iterates
<1>4. QED
  BY <1>1, <1>2, <1>3

\* Nothing adds up to nothing.
LEMMA SumOfZeros ==
  ASSUME NEW S, IsFiniteSet(S), NEW f, \A t \in S : f[t] = 0
  PROVE  Sum(f, S) = 0
<1>1. PICK g : Iterates(f, S, g) /\ Sum(f, S) = g[S]
  BY SumIterates
<1> DEFINE P == {s \in SUBSET S : g[s] = 0}
<1>2. {} \in P
  BY <1>1, IteratesStep
<1>3. ASSUME NEW s \in SUBSET S, s # {}, s \ {Elem(s)} \in P PROVE s \in P
  <2>1. g[s] = g[s \ {Elem(s)}] + f[Elem(s)] /\ Elem(s) \in s
    BY <1>1, <1>3, IteratesStep
  <2>2. g[s] = 0 + 0
    BY <1>3, <2>1
  <2>3. QED
    BY <2>2
<1>4. P \in SUBSET (SUBSET S) /\ (P = SUBSET S => g[S] = 0)
  OBVIOUS
<1> HIDE DEF P
<1>5. P = SUBSET S
  BY <1>2, <1>3, <1>4, SubsetInduction
<1>6. QED
  BY <1>1, <1>4, <1>5

\* Changing f at one element changes the sum by the difference.
LEMMA SumChange ==
  ASSUME NEW S, IsFiniteSet(S), NEW f \in [S -> Int], NEW t \in S, NEW v \in Int
  PROVE  /\ Sum(f, S) \in Int
         /\ Sum([f EXCEPT ![t] = v], S) = Sum(f, S) + v - f[t]
<1> DEFINE e == [f EXCEPT ![t] = v]
<1>1. PICK g : Iterates(f, S, g) /\ Sum(f, S) = g[S]
  BY SumIterates
<1> HIDE DEF e
<1>2. PICK h : Iterates(e, S, h) /\ Sum(e, S) = h[S]
  BY SumIterates
<1>8. \A s \in SUBSET S : s # {} => h[s] = h[s \ {Elem(s)}] + e[Elem(s)]
  BY <1>2, IteratesStep
<1> DEFINE P == {s \in SUBSET S : g[s] \in Int /\ h[s] = IF t \in s THEN g[s] + v - f[t] ELSE g[s]}
<1>3. {} \in P
  <2>1. g[{}] = 0 /\ h[{}] = 0
    BY <1>1, <1>2, IteratesStep
  <2>2. QED
    BY <2>1
<1>4. ASSUME NEW s \in SUBSET S, s # {}, s \ {Elem(s)} \in P PROVE s \in P
  <2> DEFINE x == Elem(s)
             u == s \ {x}
  <2>1. g[s] = g[u] + f[x] /\ x \in s
    BY <1>1, <1>4, IteratesStep
  <2>2. h[s] = h[u] + e[x]
    BY <1>4, <1>8
  <2>3. g[u] \in Int /\ h[u] = IF t \in u THEN g[u] + v - f[t] ELSE g[u]
    BY <1>4
  <2>4. f[x] \in Int /\ f[t] \in Int /\ e[x] = IF x = t THEN v ELSE f[x]
    BY <2>1 DEF e
  <2>5. (t \in u <=> t \in s /\ x # t)
    OBVIOUS
  <2> HIDE DEF x, u
  <2>6. g[s] \in Int /\ h[s] = IF t \in s THEN g[s] + v - f[t] ELSE g[s]
    <3>1. CASE x = t
      BY <2>1, <2>2, <2>3, <2>4, <2>5, <3>1
    <3>2. CASE x # t
      BY <2>1, <2>2, <2>3, <2>4, <2>5, <3>2
    <3>3. QED
      BY <3>1, <3>2
  <2>7. QED
    BY <2>6
<1>5. /\ P \in SUBSET (SUBSET S)
      /\ S \in P => g[S] \in Int /\ h[S] = g[S] + v - f[t]
  OBVIOUS
<1> HIDE DEF P
<1>6. P = SUBSET S
  BY <1>3, <1>4, <1>5, SubsetInduction
<1>7. QED
  BY <1>1, <1>2, <1>5, <1>6 DEF e

\* A sum of naturals is at least each of them, and at least any two.
LEMMA SumCovers ==
  ASSUME NEW S, IsFiniteSet(S), NEW f \in [S -> Nat], NEW t \in S, NEW u \in S
  PROVE  /\ Sum(f, S) >= f[t]
         /\ t # u => Sum(f, S) >= f[t] + f[u]
<1>1. PICK g : Iterates(f, S, g) /\ Sum(f, S) = g[S]
  BY SumIterates
<1> DEFINE Part(s, x) == IF x \in s THEN f[x] ELSE 0
           P == {s \in SUBSET S : /\ g[s] \in Nat
                                  /\ g[s] >= Part(s, t)
                                  /\ t # u => g[s] >= Part(s, t) + Part(s, u)}
<1>2. {} \in P
  <2>1. g[{}] = 0
    BY <1>1, IteratesStep
  <2>2. QED
    BY <2>1
<1>3. ASSUME NEW s \in SUBSET S, s # {}, s \ {Elem(s)} \in P PROVE s \in P
  <2> DEFINE x == Elem(s)
             r == s \ {x}
  <2>1. g[s] = g[r] + f[x] /\ x \in s
    BY <1>1, <1>3, IteratesStep
  <2>2. g[r] \in Nat /\ g[r] >= Part(r, t) /\ (t # u => g[r] >= Part(r, t) + Part(r, u))
    BY <1>3
  <2>3. f[x] \in Nat /\ f[t] \in Nat /\ f[u] \in Nat
    BY <2>1
  <2>4. \A y \in {t, u} : Part(s, y) = IF x = y THEN f[x] ELSE Part(r, y)
    BY <2>1
  <2>5. \A y \in {t, u} : Part(r, y) \in Nat /\ (x = y => Part(r, y) = 0)
    BY <2>3
  <2> HIDE DEF x, r, Part
  <2>6. g[s] \in Nat /\ g[s] >= Part(s, t) /\ (t # u => g[s] >= Part(s, t) + Part(s, u))
    <3>1. CASE x = t
      BY <2>1, <2>2, <2>3, <2>4, <2>5, <3>1
    <3>2. CASE x # t /\ x = u
      BY <2>1, <2>2, <2>3, <2>4, <2>5, <3>2
    <3>3. CASE x # t /\ x # u
      BY <2>1, <2>2, <2>3, <2>4, <2>5, <3>3
    <3>4. QED
      BY <3>1, <3>2, <3>3
  <2>7. QED
    BY <2>6 DEF x
<1>4. /\ P \in SUBSET (SUBSET S)
      /\ S \in P => g[S] >= f[t] /\ (t # u => g[S] >= f[t] + f[u])
  OBVIOUS
<1> HIDE DEF P
<1>5. P = SUBSET S
  BY <1>2, <1>3, <1>4, SubsetInduction
<1>6. QED
  BY <1>1, <1>4, <1>5

\* What holds between functions at every point holds between their sums.
LEMMA SumBound ==
  ASSUME NEW S, IsFiniteSet(S), NEW f, NEW f1, NEW f2,
         \A x \in S : f[x] \in Nat /\ f1[x] \in Nat /\ f2[x] \in Nat /\ f[x] <= f1[x] + f2[x]
  PROVE  /\ Sum(f, S) \in Nat /\ Sum(f1, S) \in Nat /\ Sum(f2, S) \in Nat
         /\ Sum(f, S) <= Sum(f1, S) + Sum(f2, S)
<1>1. PICK F : Iterates(f, S, F) /\ Sum(f, S) = F[S]
  BY SumIterates
<1>2. PICK G : Iterates(f1, S, G) /\ Sum(f1, S) = G[S]
  BY SumIterates
<1>3. PICK H : Iterates(f2, S, H) /\ Sum(f2, S) = H[S]
  BY SumIterates
<1>4. \A s \in SUBSET S : s # {} =>
        /\ Elem(s) \in s
        /\ F[s] = F[s \ {Elem(s)}] + f[Elem(s)]
  BY ONLY <1>1, IteratesStep
<1>5. \A s \in SUBSET S : s # {} =>
        /\ Elem(s) \in s
        /\ G[s] = G[s \ {Elem(s)}] + f1[Elem(s)]
  BY ONLY <1>2, IteratesStep
<1>6. \A s \in SUBSET S : s # {} =>
        /\ Elem(s) \in s
        /\ H[s] = H[s \ {Elem(s)}] + f2[Elem(s)]
  BY ONLY <1>3, IteratesStep
<1> DEFINE P == {s \in SUBSET S : /\ F[s] \in Nat /\ G[s] \in Nat /\ H[s] \in Nat
                                  /\ F[s] <= G[s] + H[s]}
<1>7. {} \in P
  <2>1. F[{}] = 0 /\ G[{}] = 0 /\ H[{}] = 0
    BY <1>1, <1>2, <1>3, IteratesStep
  <2>2. QED
    BY <2>1
<1>8. ASSUME NEW s \in SUBSET S, s # {}, s \ {Elem(s)} \in P PROVE s \in P
  <2> DEFINE x == Elem(s)
             u == s \ {x}
  <2>1. F[s] = F[u] + f[x] /\ x \in s
    BY <1>8, <1>4
  <2>2. G[s] = G[u] + f1[x]
    BY <1>8, <1>5
  <2>3. H[s] = H[u] + f2[x]
    BY <1>8, <1>6
  <2>4. F[u] \in Nat /\ G[u] \in Nat /\ H[u] \in Nat /\ F[u] <= G[u] + H[u]
    BY <1>8
  <2>5. f[x] \in Nat /\ f1[x] \in Nat /\ f2[x] \in Nat /\ f[x] <= f1[x] + f2[x]
    BY <2>1
  <2> HIDE DEF x, u
  <2>6. F[s] \in Nat /\ G[s] \in Nat /\ H[s] \in Nat /\ F[s] <= G[s] + H[s]
    BY <2>1, <2>2, <2>3, <2>4, <2>5
  <2>7. QED
    BY <2>6
<1>9. /\ P \in SUBSET (SUBSET S)
      /\ S \in P => F[S] \in Nat /\ G[S] \in Nat /\ H[S] \in Nat /\ F[S] <= G[S] + H[S]
  OBVIOUS
<1> HIDE DEF P
<1>10. P = SUBSET S
  BY <1>7, <1>8, <1>9, SubsetInduction
<1>11. QED
  BY <1>1, <1>2, <1>3, <1>9, <1>10
=============================================================================
