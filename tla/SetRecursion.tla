----------------------------- MODULE SetRecursion -----------------------------
(***************************************************************************)
(* What the folds over sets and sequences that the models use compute      *)
(* (SUM and SUB of LemonDB, the tickets of the lottery, the counters of    *)
(* Homework 4).  The community modules define them by a function on the    *)
(* subsets of a set, chosen by its recursion: that one exists has to be    *)
(* proved, by induction on the size of the subsets, and the induction is   *)
(* that a set of numbers has a least one.                                  *)
(***************************************************************************)
EXTENDS Integers, FiniteSetsExt, SequencesExt, FiniteSetTheorems,
        SequenceTheorems, WellFoundedInduction, TLAPS

\* Every set of numbers has a least one.
LEMMA LeastNat ==
  ASSUME NEW T \in SUBSET Nat, T # {}
  PROVE  \E x \in T : \A y \in T : x <= y
<1> DEFINE R == {ss \in Nat \X Nat : ss[1] < ss[2]}
<1>1. IsWellFoundedOn(R, Nat)
  BY NatLessThanWellFounded, Zenon DEF OpToRel
<1> HIDE DEF R
<1>2. PICK x \in T : \A y \in T : ~(<<y, x>> \in R)
  BY <1>1, WFMin
<1>3. \A y \in T : ~(y < x)
  BY <1>2 DEF R
<1> QED BY <1>3

LEMMA MinIsLeast ==
  ASSUME NEW T \in SUBSET Nat, T # {}
  PROVE  Min(T) \in T /\ \A y \in T : Min(T) <= y
BY LeastNat DEF Min

LEMMA MaxIsGreatest ==
  ASSUME NEW N \in Nat, NEW T \in SUBSET (1..N), T # {}
  PROVE  Max(T) \in T /\ \A y \in T : y <= Max(T)
<1> DEFINE below == {N - i : i \in T}
<1>1. \A i \in T : i \in Nat /\ i <= N /\ N - i \in Nat
  OBVIOUS
<1>2. below \in SUBSET Nat /\ below # {}
  BY <1>1
<1>3. PICK d \in below : \A e \in below : d <= e
  BY <1>2, LeastNat
<1>4. PICK i \in T : d = N - i
  BY <1>3
<1>5. ASSUME NEW j \in T PROVE j <= i /\ i >= j
  <2>1. N - j \in below
    OBVIOUS
  <2>2. N - i <= N - j
    BY <1>3, <1>4, <2>1
  <2> QED BY <1>1, <2>2
<1>6. Max(T) \in T /\ \A y \in T : Max(T) >= y
  BY <1>5, Zenon DEF Max
<1>7. ASSUME NEW y \in T PROVE y <= Max(T)
  BY <1>1, <1>6
<1> QED BY <1>6, <1>7

\* All subsets of S are good if each is whose subsets with one element less are.
LEMMA SubsetInduction ==
  ASSUME NEW S, IsFiniteSet(S), NEW Good,
         \A s \in SUBSET S : (\A x \in s : s \ {x} \in Good) => s \in Good
  PROVE  \A s \in SUBSET S : s \in Good
<1> DEFINE sizes == {Cardinality(s) : s \in (SUBSET S) \ Good}
<1>1. \A s \in SUBSET S : IsFiniteSet(s) /\ Cardinality(s) \in Nat
  BY FS_Subset, FS_CardinalityType
<1> SUFFICES ASSUME NEW s0 \in SUBSET S, s0 \notin Good PROVE FALSE
  OBVIOUS
<1>2. sizes \in SUBSET Nat /\ sizes # {}
  BY <1>1
<1>3. PICK n \in sizes : \A m \in sizes : n <= m
  BY <1>2, LeastNat
<1>4. PICK s \in (SUBSET S) \ Good : n = Cardinality(s)
  BY <1>3
<1>5. ASSUME NEW x \in s PROVE s \ {x} \in Good
  <2>1. Cardinality(s \ {x}) = n - 1 /\ n \in Nat
    BY <1>1, <1>4, FS_RemoveElement
  <2>2. ~(n <= n - 1)
    BY <2>1
  <2> QED BY <1>3, <1>4, <2>1, <2>2
<1> QED BY <1>4, <1>5

Recurses(h, S, base, pick, step) ==
  \A s \in SUBSET S :
    h[s] = IF s = {} THEN base ELSE step[<<s, h[s \ {pick[s]}]>>]

\* There is a function on the subsets of S whose value at a set is that of one
\* step from its value without the element that was picked.
LEMMA RecursionExists ==
  ASSUME NEW S, IsFiniteSet(S), NEW V, NEW base \in V,
         NEW pick, \A s \in SUBSET S : s # {} => pick[s] \in s,
         NEW step \in [(SUBSET S) \X V -> V]
  PROVE  \E h \in [SUBSET S -> V] : Recurses(h, S, base, pick, step)
<1> DEFINE Upto(n) == {s \in SUBSET S : Cardinality(s) <= n}
           Solves(h, n) == /\ h \in [Upto(n) -> V]
                           /\ \A s \in Upto(n) :
                                h[s] = IF s = {} THEN base
                                       ELSE step[<<s, h[s \ {pick[s]}]>>]
           unsolved == {n \in Nat : ~ \E h : Solves(h, n)}
<1>1. \A s \in SUBSET S : /\ IsFiniteSet(s) /\ Cardinality(s) \in Nat
                          /\ Cardinality(s) <= Cardinality(S)
                          /\ s = {} <=> Cardinality(s) = 0
  BY FS_Subset, FS_CardinalityType, FS_EmptySet
<1>2. ASSUME NEW s \in SUBSET S, s # {}
      PROVE  /\ s \ {pick[s]} \in SUBSET S
             /\ Cardinality(s \ {pick[s]}) = Cardinality(s) - 1
  BY <1>1, <1>2, FS_RemoveElement
<1>3. \E h : Solves(h, 0)
  <2>1. \A s \in Upto(0) : s = {}
    BY <1>1
  <2>2. Solves([s \in Upto(0) |-> base], 0)
    BY <2>1
  <2> QED BY <2>2
<1>4. ASSUME NEW n \in Nat, NEW h, Solves(h, n) PROVE \E g : Solves(g, n + 1)
  <2> DEFINE g == [s \in Upto(n + 1) |->
                     IF Cardinality(s) <= n THEN h[s]
                     ELSE step[<<s, h[s \ {pick[s]}]>>]]
  <2>1. ASSUME NEW s \in Upto(n + 1), s # {}
        PROVE  /\ s \ {pick[s]} \in Upto(n)
               /\ s \ {pick[s]} \in Upto(n + 1)
               /\ g[s \ {pick[s]}] = h[s \ {pick[s]}]
               /\ h[s \ {pick[s]}] \in V
    <3>1. Cardinality(s \ {pick[s]}) <= n
      BY <1>1, <1>2, <2>1
    <3>2. s \ {pick[s]} \in Upto(n) /\ s \ {pick[s]} \in Upto(n + 1)
      BY <1>1, <1>2, <2>1, <3>1
    <3>3. h[s \ {pick[s]}] \in V
      BY <1>4, <3>2
    <3> QED BY <3>1, <3>2, <3>3
  <2>2. ASSUME NEW s \in Upto(n + 1)
        PROVE  /\ g[s] \in V
               /\ g[s] = IF s = {} THEN base ELSE step[<<s, g[s \ {pick[s]}]>>]
    <3>1. CASE Cardinality(s) <= n
      <4>1. s \in Upto(n) /\ g[s] = h[s]
        BY <3>1
      <4> QED BY <1>4, <2>1, <4>1
    <3>2. CASE ~(Cardinality(s) <= n)
      <4>1. s # {}
        BY <1>1, <3>2
      <4>2. g[s] = step[<<s, h[s \ {pick[s]}]>>]
        BY <3>2
      <4> QED BY <2>1, <4>1, <4>2
    <3> QED BY <3>1, <3>2
  <2> HIDE DEF g
  <2>3. g \in [Upto(n + 1) -> V]
    BY <2>2 DEF g
  <2>4. Solves(g, n + 1)
    BY <2>2, <2>3
  <2> QED BY <2>4
<1> HIDE DEF Solves
<1>5. unsolved = {}
  <2> SUFFICES ASSUME unsolved # {} PROVE FALSE
    OBVIOUS
  <2>1. PICK n \in unsolved : \A m \in unsolved : n <= m
    BY LeastNat
  <2>2. n \in Nat /\ n # 0
    BY <1>3, <2>1
  <2>3. n - 1 \in Nat /\ n - 1 \notin unsolved
    BY <2>1, <2>2
  <2>4. PICK h : Solves(h, n - 1)
    BY <2>3
  <2>5. \E g : Solves(g, n - 1 + 1)
    BY <1>4, <2>3, <2>4
  <2>6. n - 1 + 1 = n
    BY <2>2
  <2> QED BY <2>1, <2>5, <2>6
<1>6. PICK h : Solves(h, Cardinality(S))
  BY <1>1, <1>5
<1>7. Upto(Cardinality(S)) = SUBSET S
  BY <1>1
<1> QED BY <1>6, <1>7 DEF Solves, Recurses
-----------------------------------------------------------------------------
\* Sums.  MapThenSumSet adds up in an order it does not tell: it is the sum.
SumOf(v, S) == MapThenSumSet(LAMBDA x : v[x], S)
Picked(s) == CHOOSE x \in s : TRUE

\* The function that MapThenSumSet chooses.
Sums(v, S) ==
  CHOOSE iter : iter = [s \in SUBSET S |->
                          IF s = {} THEN 0
                          ELSE v[Picked(s)] + iter[s \ {Picked(s)}]]

LEMMA SumsOfSubsets ==
  ASSUME NEW S, IsFiniteSet(S), NEW v, \A x \in S : v[x] \in Int
  PROVE  /\ SumOf(v, S) = Sums(v, S)[S]
         /\ \A s \in SUBSET S :
              /\ Sums(v, S)[s] = IF s = {} THEN 0
                                 ELSE v[Picked(s)] + Sums(v, S)[s \ {Picked(s)}]
              /\ Sums(v, S)[s] \in Int
<1>1. SumOf(v, S) = Sums(v, S)[S]
  BY Zenon DEF SumOf, MapThenSumSet, MapThenFoldSet, Sums, Picked
<1> DEFINE pick == [s \in SUBSET S |-> Picked(s)]
           Added(sn) == IF sn[1] = {} THEN 0 ELSE v[Picked(sn[1])] + sn[2]
           step == [sn \in (SUBSET S) \X Int |-> Added(sn)]
<1>2. \A s \in SUBSET S : s # {} => Picked(s) \in s /\ pick[s] = Picked(s)
  BY DEF Picked
<1>3. step \in [(SUBSET S) \X Int -> Int]
  <2>1. ASSUME NEW sn \in (SUBSET S) \X Int PROVE Added(sn) \in Int
    <3>1. sn[1] \in SUBSET S /\ sn[2] \in Int
      OBVIOUS
    <3>2. sn[1] # {} => v[Picked(sn[1])] \in Int
      BY <1>2, <3>1
    <3> QED BY <3>1, <3>2
  <2> HIDE DEF Added
  <2> QED BY <2>1
<1>4. \A s \in SUBSET S : \A n \in Int : s # {} => step[<<s, n>>] = v[Picked(s)] + n
  OBVIOUS
<1> HIDE DEF pick, step
<1>5. PICK h \in [SUBSET S -> Int] : Recurses(h, S, 0, pick, step)
  <2>1. 0 \in Int /\ \A s \in SUBSET S : s # {} => pick[s] \in s
    BY <1>2
  <2> QED BY <1>3, <2>1, RecursionExists, Zenon
<1>6. h = [s \in SUBSET S |-> IF s = {} THEN 0
                              ELSE v[Picked(s)] + h[s \ {Picked(s)}]]
  <2>1. ASSUME NEW s \in SUBSET S
        PROVE  h[s] = IF s = {} THEN 0 ELSE v[Picked(s)] + h[s \ {Picked(s)}]
    <3>1. s \ {Picked(s)} \in SUBSET S /\ h[s \ {Picked(s)}] \in Int
      OBVIOUS
    <3> QED BY <1>2, <1>4, <1>5, <3>1 DEF Recurses
  <2> QED BY <2>1
<1>7. Sums(v, S) = [s \in SUBSET S |-> IF s = {} THEN 0
                       ELSE v[Picked(s)] + Sums(v, S)[s \ {Picked(s)}]]
  BY <1>6, Zenon DEF Sums
<1>8. \A s \in SUBSET S :
        Sums(v, S)[s] = IF s = {} THEN 0
                        ELSE v[Picked(s)] + Sums(v, S)[s \ {Picked(s)}]
  BY <1>7, Zenon
<1>9. \A s \in SUBSET S : Sums(v, S)[s] \in Int
  <2> DEFINE Good == {s \in SUBSET S : Sums(v, S)[s] \in Int}
  <2>1. ASSUME NEW s \in SUBSET S, \A x \in s : s \ {x} \in Good
        PROVE  s \in Good
    <3>1. CASE s = {}
      <4>1. Sums(v, S)[s] = 0
        BY <1>8, <3>1, Zenon
      <4> QED BY <4>1
    <3>2. CASE s # {}
      <4>1. Picked(s) \in s /\ v[Picked(s)] \in Int
        BY <1>2, <3>2
      <4>2. Sums(v, S)[s \ {Picked(s)}] \in Int
        BY <2>1, <4>1
      <4>3. Sums(v, S)[s] = v[Picked(s)] + Sums(v, S)[s \ {Picked(s)}]
        BY <1>8, <3>2, Zenon
      <4> QED BY <4>1, <4>2, <4>3
    <3> QED BY <3>1, <3>2
  <2> HIDE DEF Good
  <2>2. \A s \in SUBSET S : s \in Good
    BY <2>1, SubsetInduction
  <2> QED BY <2>2 DEF Good
<1> QED BY <1>1, <1>8, <1>9

LEMMA SumIsInt ==
  ASSUME NEW S, IsFiniteSet(S), NEW v, \A x \in S : v[x] \in Int
  PROVE  SumOf(v, S) \in Int
<1>1. SumOf(v, S) = Sums(v, S)[S] /\ S \in SUBSET S
  BY SumsOfSubsets
<1>2. Sums(v, S)[S] \in Int
  BY SumsOfSubsets
<1> QED BY <1>1, <1>2

LEMMA SumsUnfold ==
  ASSUME NEW S, IsFiniteSet(S), NEW v, \A x \in S : v[x] \in Int
  PROVE  \A s \in SUBSET S :
           Sums(v, S)[s] = IF s = {} THEN 0
                           ELSE v[Picked(s)] + Sums(v, S)[s \ {Picked(s)}]
<1>1. ASSUME NEW s \in SUBSET S
      PROVE  Sums(v, S)[s] = IF s = {} THEN 0
                             ELSE v[Picked(s)] + Sums(v, S)[s \ {Picked(s)}]
  BY SumsOfSubsets
<1> QED BY <1>1

\* Two functions that agree on S have one sum.
LEMMA SumsAgree ==
  ASSUME NEW S, IsFiniteSet(S), NEW v, \A x \in S : v[x] \in Int,
         NEW R \in SUBSET S, NEW w, \A x \in R : w[x] = v[x]
  PROVE  Sums(v, S)[R] = SumOf(w, R)
<1>1. IsFiniteSet(R) /\ \A x \in R : w[x] \in Int
  BY FS_Subset
<1>2. SumOf(w, R) = Sums(w, R)[R]
  BY <1>1, SumsOfSubsets
<1> DEFINE Good == {s \in SUBSET R : Sums(v, S)[s] = Sums(w, R)[s]}
<1>3. \A s \in SUBSET S :
        Sums(v, S)[s] = IF s = {} THEN 0
                        ELSE v[Picked(s)] + Sums(v, S)[s \ {Picked(s)}]
  BY SumsUnfold
<1>4. \A s \in SUBSET R :
        Sums(w, R)[s] = IF s = {} THEN 0
                        ELSE w[Picked(s)] + Sums(w, R)[s \ {Picked(s)}]
  BY <1>1, SumsUnfold
<1>5. ASSUME NEW s \in SUBSET R, \A x \in s : s \ {x} \in Good
      PROVE  s \in Good
  <2>1. CASE s = {}
    BY <1>3, <1>4, <2>1
  <2>2. CASE s # {}
    <3>1. Picked(s) \in s
      BY <2>2 DEF Picked
    <3>2. Sums(v, S)[s \ {Picked(s)}] = Sums(w, R)[s \ {Picked(s)}]
      BY <1>5, <3>1
    <3> QED BY <1>3, <1>4, <2>2, <3>1, <3>2
  <2> QED BY <2>1, <2>2
<1> HIDE DEF Good
<1>6. \A s \in SUBSET R : s \in Good
  BY <1>1, <1>5, SubsetInduction
<1> QED BY <1>2, <1>6 DEF Good

LEMMA SumOfNothing == ASSUME NEW v PROVE SumOf(v, {}) = 0
BY SumsOfSubsets, FS_EmptySet

LEMMA SameSum ==
  ASSUME NEW S, IsFiniteSet(S), NEW v, \A x \in S : v[x] \in Int,
         NEW w, \A x \in S : w[x] = v[x]
  PROVE  SumOf(w, S) = SumOf(v, S)
BY SumsAgree, SumsOfSubsets

LEMMA SumWithoutPicked ==
  ASSUME NEW S, IsFiniteSet(S), S # {}, NEW v, \A x \in S : v[x] \in Int
  PROVE  SumOf(v, S) = v[Picked(S)] + SumOf(v, S \ {Picked(S)})
<1>1. Sums(v, S)[S] = v[Picked(S)] + Sums(v, S)[S \ {Picked(S)}]
  BY SumsOfSubsets
<1>2. Sums(v, S)[S \ {Picked(S)}] = SumOf(v, S \ {Picked(S)})
  BY SumsAgree
<1> QED BY <1>1, <1>2, SumsOfSubsets

\* Any element can be added last.
LEMMA SumWithout ==
  ASSUME NEW S, IsFiniteSet(S), NEW v, \A x \in S : v[x] \in Int, NEW e \in S
  PROVE  SumOf(v, S) = v[e] + SumOf(v, S \ {e})
<1> DEFINE Good == {s \in SUBSET S :
                      \A x \in s : SumOf(v, s) = v[x] + SumOf(v, s \ {x})}
<1>1. ASSUME NEW s \in SUBSET S, \A x \in s : s \ {x} \in Good
      PROVE  s \in Good
  <2> SUFFICES ASSUME NEW x \in s PROVE SumOf(v, s) = v[x] + SumOf(v, s \ {x})
    OBVIOUS
  <2> DEFINE c == Picked(s)
  <2>1. c \in s
    BY DEF Picked
  <2>2. IsFiniteSet(s) /\ IsFiniteSet(s \ {c, x})
    BY FS_Subset
  <2>3. SumOf(v, s) = v[c] + SumOf(v, s \ {c})
    BY <2>2, SumWithoutPicked
  <2> HIDE DEF c
  <2>4. CASE c = x
    BY <2>3, <2>4
  <2>5. CASE c # x
    <3>1. SumOf(v, s \ {c}) = v[x] + SumOf(v, (s \ {c}) \ {x})
      BY <1>1, <2>1, <2>5
    <3>2. SumOf(v, s \ {x}) = v[c] + SumOf(v, (s \ {x}) \ {c})
      BY <1>1, <2>1, <2>5
    <3>3. (s \ {c}) \ {x} = s \ {c, x} /\ (s \ {x}) \ {c} = s \ {c, x}
      OBVIOUS
    <3>4. SumOf(v, s \ {c, x}) \in Int /\ v[c] \in Int /\ v[x] \in Int
      BY <2>1, <2>2, SumIsInt
    <3>5. /\ SumOf(v, s \ {c}) = v[x] + SumOf(v, s \ {c, x})
          /\ SumOf(v, s \ {x}) = v[c] + SumOf(v, s \ {c, x})
      BY <3>1, <3>2, <3>3, Zenon
    <3> QED BY <2>3, <3>4, <3>5
  <2> QED BY <2>4, <2>5
<1> HIDE DEF Good
<1>2. \A s \in SUBSET S : s \in Good
  BY <1>1, SubsetInduction
<1> QED BY <1>2 DEF Good

LEMMA SumWith ==
  ASSUME NEW S, IsFiniteSet(S), NEW v, \A x \in S : v[x] \in Int,
         NEW e, e \notin S, v[e] \in Int
  PROVE  SumOf(v, S \cup {e}) = v[e] + SumOf(v, S)
<1>1. IsFiniteSet(S \cup {e}) /\ (S \cup {e}) \ {e} = S
  BY FS_AddElement
<1>2. SumOf(v, S \cup {e}) = v[e] + SumOf(v, (S \cup {e}) \ {e})
  BY <1>1, SumWithout
<1> QED BY <1>1, <1>2

\* A sum of zeros, and a sum of which one number changes.
LEMMA SumOfZeros ==
  ASSUME NEW S, IsFiniteSet(S), NEW v, \A x \in S : v[x] = 0
  PROVE  SumOf(v, S) = 0
<1> DEFINE Good == {s \in SUBSET S : SumOf(v, s) = 0}
<1>1. ASSUME NEW s \in SUBSET S, \A x \in s : s \ {x} \in Good
      PROVE  s \in Good
  <2>1. CASE s = {}
    BY <2>1, SumOfNothing
  <2>2. CASE s # {}
    <3>1. PICK x \in s : x = x
      BY <2>2
    <3>2. IsFiniteSet(s) /\ v[x] = 0 /\ SumOf(v, s \ {x}) = 0
      BY <1>1, <3>1, FS_Subset
    <3>3. SumOf(v, s) = v[x] + SumOf(v, s \ {x})
      BY <3>1, <3>2, SumWithout
    <3> QED BY <3>2, <3>3
  <2> QED BY <2>1, <2>2
<1> HIDE DEF Good
<1>2. \A s \in SUBSET S : s \in Good
  BY <1>1, SubsetInduction
<1> QED BY <1>2 DEF Good

LEMMA SumMoves ==
  ASSUME NEW S, IsFiniteSet(S), NEW v, \A x \in S : v[x] \in Int,
         NEW w, NEW e \in S, NEW d \in Int, w[e] = v[e] + d,
         \A x \in S \ {e} : w[x] = v[x]
  PROVE  SumOf(w, S) = SumOf(v, S) + d
<1>1. IsFiniteSet(S \ {e}) /\ \A x \in S : w[x] \in Int
  BY FS_Subset
<1>2. SumOf(w, S) = w[e] + SumOf(w, S \ {e})
  BY <1>1, SumWithout
<1>3. SumOf(v, S) = v[e] + SumOf(v, S \ {e})
  BY SumWithout
<1>4. SumOf(w, S \ {e}) = SumOf(v, S \ {e})
  BY <1>1, SameSum
<1>5. SumOf(v, S \ {e}) \in Int
  BY <1>1, SumIsInt
<1> QED BY <1>2, <1>3, <1>4, <1>5

LEMMA SumIsNat ==
  ASSUME NEW S, IsFiniteSet(S), NEW v, \A x \in S : v[x] \in Nat
  PROVE  SumOf(v, S) \in Nat
<1> DEFINE Good == {s \in SUBSET S : SumOf(v, s) \in Nat}
<1>1. ASSUME NEW s \in SUBSET S, \A x \in s : s \ {x} \in Good
      PROVE  s \in Good
  <2>1. CASE s = {}
    BY <2>1, SumOfNothing
  <2>2. CASE s # {}
    <3>1. PICK x \in s : x = x
      BY <2>2
    <3>2. /\ IsFiniteSet(s) /\ v[x] \in Nat /\ SumOf(v, s \ {x}) \in Nat
          /\ \A y \in s : v[y] \in Int
      BY <1>1, <3>1, FS_Subset
    <3>3. SumOf(v, s) = v[x] + SumOf(v, s \ {x})
      BY <3>1, <3>2, SumWithout
    <3> QED BY <3>2, <3>3
  <2> QED BY <2>1, <2>2
<1> HIDE DEF Good
<1>2. \A s \in SUBSET S : s \in Good
  BY <1>1, SubsetInduction
<1> QED BY <1>2 DEF Good

LEMMA FewerElements ==
  ASSUME NEW B, IsFiniteSet(B), NEW A \in SUBSET B, NEW b \in B, b \notin A
  PROVE  Cardinality(A) < Cardinality(B)
<1>1. A \in SUBSET (B \ {b})
  OBVIOUS
<1>2. IsFiniteSet(B \ {b}) /\ Cardinality(B \ {b}) = Cardinality(B) - 1
  BY FS_RemoveElement
<1>3. Cardinality(A) <= Cardinality(B \ {b})
  BY <1>1, <1>2, FS_Subset
<1>4. Cardinality(A) \in Nat /\ Cardinality(B) \in Nat
  BY FS_Subset, FS_CardinalityType
<1> QED BY <1>2, <1>3, <1>4

\* What a list is whose elements are each made from the one before.
Continues(h, n, first, step) ==
  h[1] = first /\ \A i \in 2..n : h[i] = step[<<i, h[i - 1]>>]

\* There is a list whose first element is given, and each other by the one before.
LEMMA ListRecursion ==
  ASSUME NEW n \in Nat, n # 0, NEW V, NEW first \in V, NEW step \in [(1..n) \X V -> V]
  PROVE  \E h \in [1..n -> V] : Continues(h, n, first, step)
<1> DEFINE Solves(h, m) == /\ h \in [1..m -> V] /\ h[1] = first
                           /\ \A i \in 2..m : h[i] = step[<<i, h[i - 1]>>]
           unsolved == {m \in 1..n : ~\E h : Solves(h, m)}
<1>1. \E h : Solves(h, 1)
  <2>1. Solves([i \in 1..1 |-> first], 1)
    OBVIOUS
  <2> QED BY <2>1
<1>2. ASSUME NEW m \in 2..n, NEW h, Solves(h, m - 1) PROVE \E g : Solves(g, m)
  <2> DEFINE g == [i \in 1..m |-> IF i = m THEN step[<<m, h[m - 1]>>] ELSE h[i]]
  <2>1. m - 1 \in 1..(m - 1) /\ m \in 1..n /\ 1 \in 1..(m - 1)
    OBVIOUS
  <2>2. h[m - 1] \in V /\ h \in [1..(m - 1) -> V]
    BY <1>2, <2>1
  <2>3. step[<<m, h[m - 1]>>] \in V
    BY <2>1, <2>2
  <2>4. \A i \in 1..(m - 1) : g[i] = h[i] /\ i \in 1..m
    OBVIOUS
  <2>5. g[m] = step[<<m, h[m - 1]>>]
    OBVIOUS
  <2>6. g \in [1..m -> V]
    BY <2>2, <2>3
  <2> HIDE DEF g
  <2>7. g[1] = first
    BY <1>2, <2>1, <2>4
  <2>8. ASSUME NEW i \in 2..m PROVE g[i] = step[<<i, g[i - 1]>>]
    <3>1. i - 1 \in 1..(m - 1) /\ (i = m \/ i \in 2..(m - 1))
      OBVIOUS
    <3>2. g[i - 1] = h[i - 1]
      BY <2>4, <3>1
    <3>3. CASE i = m
      BY <2>5, <3>2, <3>3
    <3>4. CASE i \in 2..(m - 1)
      <4>1. h[i] = step[<<i, h[i - 1]>>] /\ i \in 1..(m - 1)
        BY <1>2, <3>4
      <4> QED BY <2>4, <3>2, <4>1
    <3> QED BY <3>1, <3>3, <3>4
  <2> QED BY <2>6, <2>7, <2>8
<1> HIDE DEF Solves
<1>3. unsolved = {}
  <2> SUFFICES ASSUME unsolved # {} PROVE FALSE
    OBVIOUS
  <2>0. unsolved \in SUBSET Nat
    OBVIOUS
  <2>1. PICK m \in unsolved : \A k \in unsolved : m <= k
    BY <2>0, LeastNat
  <2>2. m \in 2..n
    BY <1>1, <2>1
  <2>3. m - 1 \in 1..n /\ ~(m <= m - 1)
    BY <2>2
  <2>4. \E h : Solves(h, m - 1)
    BY <2>1, <2>3
  <2> QED BY <1>2, <2>1, <2>2, <2>4
<1>4. PICK h : Solves(h, n)
  BY <1>3
<1> QED BY <1>4 DEF Solves, Continues

\* FlattenSeq appends one sequence after the other.
LEMMA FlattenAppends ==
  ASSUME NEW S, NEW seqs \in Seq(Seq(S)), Len(seqs) # 0
  PROVE  \E f \in [1..Len(seqs) -> Seq(S)] :
           /\ FlattenSeq(seqs) = f[Len(seqs)] /\ f[1] = seqs[1]
           /\ \A i \in 2..Len(seqs) : f[i] = f[i - 1] \o seqs[i]
<1> DEFINE n == Len(seqs)
           V == Seq(S)
           step == [iv \in (1..n) \X V |-> iv[2] \o seqs[iv[1]]]
           f == CHOOSE f : f = [i \in 1..n |-> IF i = 1 THEN seqs[i] ELSE f[i - 1] \o seqs[i]]
<1>1. n \in Nat /\ seqs \in [1..n -> V]
  OBVIOUS
<1>2. FlattenSeq(seqs) = f[n]
  BY DEF FlattenSeq
<1>3. seqs[1] \in V
  BY <1>1
<1>4. step \in [(1..n) \X V -> V]
  <2>1. ASSUME NEW i \in 1..n, NEW v \in V PROVE v \o seqs[i] \in V
    <3>1. seqs[i] \in V
      BY <1>1
    <3> QED BY <3>1, ConcatProperties
  <2> HIDE DEF n, V
  <2> QED BY <2>1
<1>5. \A i \in 1..n : \A v \in V : step[<<i, v>>] = v \o seqs[i]
  OBVIOUS
<1> HIDE DEF step, n, V, f
<1>6. n # 0
  BY DEF n
<1>7. PICK h \in [1..n -> V] : Continues(h, n, seqs[1], step)
  BY <1>1, <1>3, <1>4, <1>6, ListRecursion, Zenon
<1>8. \A i \in 2..n : h[i] = h[i - 1] \o seqs[i]
  <2>1. ASSUME NEW i \in 2..n PROVE h[i] = h[i - 1] \o seqs[i]
    <3>1. i - 1 \in 1..n /\ i \in 1..n
      BY <1>1
    <3> QED BY <1>5, <1>7, <3>1 DEF Continues
  <2> QED BY <2>1
<1>9. h = [i \in 1..n |-> IF i = 1 THEN seqs[i] ELSE h[i - 1] \o seqs[i]]
  <2>1. ASSUME NEW i \in 1..n PROVE h[i] = IF i = 1 THEN seqs[i] ELSE h[i - 1] \o seqs[i]
    <3>1. i = 1 \/ i \in 2..n
      BY <1>1
    <3>2. i \in 2..n => i # 1
      BY <1>1
    <3> QED BY <1>7, <1>8, <3>1, <3>2 DEF Continues
  <2> QED BY <1>7, <2>1
<1>10. f = [i \in 1..n |-> IF i = 1 THEN seqs[i] ELSE f[i - 1] \o seqs[i]]
  BY <1>9, Zenon DEF f
<1>11. \A i \in 1..n : f[i] = IF i = 1 THEN seqs[i] ELSE f[i - 1] \o seqs[i]
  BY <1>10, Zenon
<1>12. f[1] = seqs[1] /\ \A i \in 2..n : f[i] = f[i - 1] \o seqs[i]
  <2>1. 1 \in 1..n /\ \A i \in 2..n : i \in 1..n /\ i # 1
    BY <1>1, <1>6
  <2> QED BY <1>11, <2>1
<1>13. \A i \in 1..n : f[i] \in V
  <2> DEFINE bad == {i \in 1..n : f[i] \notin V}
  <2> SUFFICES ASSUME bad # {} PROVE FALSE
    OBVIOUS
  <2>1. bad \in SUBSET Nat
    BY <1>1
  <2>2. PICK i \in bad : \A j \in bad : i <= j
    BY <2>1, LeastNat
  <2>3. i \in 2..n
    BY <1>1, <1>3, <1>12, <2>2
  <2>4. i - 1 \in 1..n /\ ~(i <= i - 1) /\ i \in 1..n
    BY <1>1, <2>3
  <2>5. f[i - 1] \in V
    BY <2>2, <2>4
  <2>6. seqs[i] \in V
    BY <1>1, <2>4
  <2>7. f[i - 1] \o seqs[i] \in V
    BY <2>5, <2>6, ConcatProperties DEF V
  <2> QED BY <1>12, <2>2, <2>3, <2>7
<1>14. f \in [1..n -> V]
  BY <1>10, <1>13
<1> QED BY <1>2, <1>12, <1>14 DEF n, V
-----------------------------------------------------------------------------
\* A function that is what F makes of it: there is one if F looks, at each point,
\* only at points of lower rank.
LooksBelow(F, D, V, rank) ==
  \A g, h \in [D -> V] : \A x \in D :
    (\A y \in D : rank[y] < rank[x] => g[y] = h[y]) => F[g][x] = F[h][x]

Recursion(F, D, V, rank, bound) ==
  /\ V # {} /\ bound \in Nat /\ \A x \in D : rank[x] \in 0..bound
  /\ F \in [[D -> V] -> [D -> V]] /\ LooksBelow(F, D, V, rank)

FixedBy(F, D, V, h) == h \in [D -> V] /\ F[h] = h

LEMMA RankRecursion ==
  ASSUME NEW D, NEW V, NEW rank, NEW bound, NEW F, Recursion(F, D, V, rank, bound)
  PROVE  \E h : FixedBy(F, D, V, h)
<1>a. /\ V # {} /\ bound \in Nat /\ \A x \in D : rank[x] \in 0..bound
      /\ F \in [[D -> V] -> [D -> V]] /\ LooksBelow(F, D, V, rank)
  BY DEF Recursion
<1> DEFINE n == bound + 3
           W == [D -> V]
           step == [iw \in (1..n) \X W |-> F[iw[2]]]
<1>1. PICK v \in V : v = v
  BY <1>a
<1>2. [x \in D |-> v] \in W
  OBVIOUS
<1>3. step \in [(1..n) \X W -> W]
  <2> HIDE DEF n, W
  <2>1. F \in [W -> W]
    BY <1>a DEF W
  <2> QED BY <2>1
<1>4. \A i \in 1..n : \A w \in W : step[<<i, w>>] = F[w]
  OBVIOUS
<1>5. n \in Nat /\ n # 0
  BY <1>a
<1> HIDE DEF step, W, n
<1>6. PICK it \in [1..n -> W] : Continues(it, n, [x \in D |-> v], step)
  BY <1>2, <1>3, <1>5, ListRecursion, Zenon
<1>7. \A i \in 2..n : it[i] = F[it[i - 1]] /\ it[i] \in W /\ it[i - 1] \in W
  <2>1. ASSUME NEW i \in 2..n PROVE it[i] = F[it[i - 1]] /\ it[i] \in W /\ it[i - 1] \in W
    <3>1. i \in 1..n /\ i - 1 \in 1..n
      BY <1>5
    <3> QED BY <1>4, <1>6, <3>1 DEF Continues
  <2> QED BY <2>1
<1> DEFINE Settled(i) == \A x \in D : rank[x] + 2 <= i => it[i + 1][x] = it[i][x]
           unsettled == {i \in 1..(n - 1) : ~Settled(i)}
<1>8. bound \in Nat /\ \A x \in D : rank[x] \in 0..bound
  BY <1>a
<1>9. unsettled = {}
  <2> SUFFICES ASSUME unsettled # {} PROVE FALSE
    OBVIOUS
  <2>1. unsettled \in SUBSET Nat
    BY <1>5
  <2>2. PICK i \in unsettled : \A j \in unsettled : i <= j
    BY <2>1, LeastNat
  <2>3. PICK x \in D : rank[x] + 2 <= i /\ it[i + 1][x] # it[i][x]
    BY <2>2
  <2>4. i \in 2..n /\ i + 1 \in 2..n /\ i + 1 - 1 = i /\ i - 1 \in 1..(n - 1) /\ ~(i <= i - 1)
    BY <1>5, <1>8, <2>2, <2>3
  <2>5. Settled(i - 1)
    <3> HIDE DEF Settled
    <3> QED BY <2>2, <2>4
  <2>6. \A y \in D : rank[y] < rank[x] => it[i][y] = it[i - 1][y]
    <3>1. ASSUME NEW y \in D, rank[y] < rank[x] PROVE it[i][y] = it[i - 1][y]
      <4>1. rank[y] + 2 <= i - 1 /\ i - 1 + 1 = i
        BY <1>8, <2>3, <2>4, <3>1
      <4> QED BY <2>5, <4>1
    <3> QED BY <3>1
  <2>7. it[i] \in W /\ it[i - 1] \in W /\ it[i + 1] = F[it[i]] /\ it[i] = F[it[i - 1]]
    BY <1>7, <2>4
  <2>8. F[it[i]][x] = F[it[i - 1]][x]
    BY <1>a, <2>6, <2>7 DEF LooksBelow, W
  <2> QED BY <2>3, <2>7, <2>8
<1>10. n - 1 \in 1..(n - 1) /\ n \in 2..n /\ n - 1 + 1 = n /\ \A x \in D : rank[x] + 2 <= n - 1
  BY <1>8 DEF n
<1>11. Settled(n - 1)
  <2> HIDE DEF Settled
  <2> QED BY <1>9, <1>10
<1>12. \A x \in D : it[n][x] = it[n - 1][x]
  BY <1>10, <1>11
<1>13. it[n] = F[it[n - 1]] /\ it[n] \in W /\ it[n - 1] \in W
  BY <1>7, <1>10
<1>14. it[n] = it[n - 1]
  BY <1>12, <1>13 DEF W
<1> QED BY <1>13, <1>14 DEF W, FixedBy
-----------------------------------------------------------------------------
\* 2^(w - 1) counts the subsets of a set, and there is one.
LEMMA PowerPositive == ASSUME NEW w \in Nat \ {0} PROVE 2^(w - 1) \in Nat \ {0}
<1> DEFINE bits == 1..(w - 1)
<1>1. IsFiniteSet(bits) /\ Cardinality(bits) = w - 1
  BY FS_Interval
<1>2. IsFiniteSet(SUBSET bits) /\ Cardinality(SUBSET bits) = 2^(w - 1)
  BY <1>1, FS_SUBSET
<1>3. SUBSET bits # {}
  OBVIOUS
<1> HIDE DEF bits
<1>4. Cardinality(SUBSET bits) \in Nat /\ Cardinality(SUBSET bits) # 0
  BY <1>2, <1>3, FS_CardinalityType, FS_EmptySet
<1> QED BY <1>2, <1>4
=============================================================================
