--------------------------- MODULE ShellParser_proofs --------------------------
(***************************************************************************)
(* Proofs about ShellParser, for any lines of any length.                  *)
(*                                                                         *)
(* What is run is what the line says (ShellRunsTheLine).  The language is  *)
(* stated on the tokens of the line the user typed; the code works on      *)
(* another line, with blanks put in, which it cuts at the pipes first and  *)
(* at the blanks then.  Three arguments bring them together.  The blanks   *)
(* come between tokens only: every token of the line is found again, whole *)
(* and in order (Placed).  What lies between the pipes of the new line is  *)
(* the tokens between two pipes of the old one (Pieces).  And after each   *)
(* token of a part the fold knows of what came before it exactly the       *)
(* words, the files and the operator that waits for its file, or that a    *)
(* token was refused (Understood).  So a line is accepted part by part     *)
(* exactly if it is well formed (LineMeans), and between two turns of the  *)
(* loop the stages are those of the parts cut off so far (Midway).         *)
(***************************************************************************)
EXTENDS ShellParser, SetRecursion

-----------------------------------------------------------------------------
(***************************************************************************)
(* The buffer of preprocess is large enough.                               *)
(***************************************************************************)

Text == Seq(Chars)
Stage == [argv : Seq(Text), infile : Text, outfile : Text, append : BOOLEAN]

LEMMA Around ==
  ASSUME NEW a \in Text, NEW b \in Text, NEW c \in Chars
  PROVE  a \o <<c>> \o b \in Text /\ Len(a \o <<c>> \o b) = Len(a) + 1 + Len(b)
<1>1. <<c>> \in Seq(Chars) /\ Len(<<c>>) = 1
  OBVIOUS
<1>2. a \o <<c>> \in Seq(Chars) /\ Len(a \o <<c>>) = Len(a) + 1
  BY <1>1, ConcatProperties DEF Text
<1> QED BY <1>2, ConcatProperties DEF Text

\* What preprocess makes of one character.
Room(text, u) == Len(Spread(text, u))

LEMMA SpreadRoom ==
  ASSUME NEW text \in Text, NEW u \in 1..Len(text)
  PROVE  /\ Spread(text, u) \in Text /\ Room(text, u) \in 1..3
         /\ Room(text, u) # 1 => Redirection(text[u])
         /\ Room(text, u) = 3 => /\ u > 1 /\ u < Len(text)
                                 /\ ~Redirection(text[u - 1])
                                 /\ ~Redirection(text[u + 1])
<1> DEFINE blankBefore == u > 1 /\ ~is_special_char(text[u - 1])
           blankAfter == /\ ~is_special_char(CharAt(text, u + 1))
                         /\ u = 1 \/ u < Len(text)
           c == text[u]
<1>1. text \in Seq(Chars) /\ Len(text) \in Nat /\ DOMAIN text = 1..Len(text) /\ c \in Chars
  BY DEF Text
<1>2. Spread(text, u) =
        IF ~Redirection(c) THEN <<c>>
        ELSE (IF blankBefore THEN <<"b">> ELSE << >>) \o <<c>>
               \o (IF blankAfter THEN <<"b">> ELSE << >>)
  BY DEF Spread
<1>3. Redirection(c) => c \in {">", "<"}
  BY DEF Redirection
<1>4. blankBefore /\ blankAfter => /\ u > 1 /\ u < Len(text)
                                   /\ ~Redirection(text[u - 1])
                                   /\ ~Redirection(text[u + 1])
  BY <1>1 DEF Redirection, is_special_char, CharAt
<1>5. "b" \in Chars
  BY DEF Chars
<1> HIDE DEF c, blankBefore, blankAfter
<1>6. CASE ~Redirection(c)
  <2>1. Spread(text, u) = <<c>>
    BY <1>2, <1>6
  <2> QED BY <1>1, <1>6, <2>1 DEF Text, Room, c
<1>7. CASE Redirection(c)
  <2>1. PICK before, after :
          /\ before = IF blankBefore THEN <<"b">> ELSE << >>
          /\ after = IF blankAfter THEN <<"b">> ELSE << >>
    OBVIOUS
  <2>2. before \in Text /\ Len(before) = IF blankBefore THEN 1 ELSE 0
    BY <1>5, <2>1 DEF Text
  <2>3. after \in Text /\ Len(after) = IF blankAfter THEN 1 ELSE 0
    BY <1>5, <2>1 DEF Text
  <2>4. Spread(text, u) = before \o <<c>> \o after
    BY <1>2, <1>7, <2>1
  <2>5. Spread(text, u) \in Text /\ Room(text, u) = Len(before) + 1 + Len(after)
    <3>1. c \in Chars /\ before \in Text /\ after \in Text
      BY <1>1, <2>2, <2>3
    <3>2. /\ before \o <<c>> \o after \in Text
          /\ Len(before \o <<c>> \o after) = Len(before) + 1 + Len(after)
      BY <3>1, Around
    <3> QED BY <2>4, <3>2, Zenon DEF Room
  <2>6. Room(text, u) \in 1..3 /\ (Room(text, u) = 3 => blankBefore /\ blankAfter)
    BY <2>2, <2>3, <2>5
  <2> QED BY <1>4, <1>7, <2>5, <2>6 DEF c
<1> QED BY <1>6, <1>7

\* A character that takes three places has neighbours that take one.
LEMMA PreprocessRoom ==
  ASSUME NEW text \in Text
  PROVE  /\ preprocess(text) \in Text
         /\ Len(preprocess(text)) <= 2 * Len(text)
<1> DEFINE n == Len(text)
           seqs == [u \in DOMAIN text |-> Spread(text, u)]
<1>1. n \in Nat /\ DOMAIN text = 1..n
  BY DEF Text
<1>2. seqs \in Seq(Text) /\ Len(seqs) = n /\ \A u \in 1..n : seqs[u] = Spread(text, u)
  <2>1. \A u \in 1..n : Spread(text, u) \in Text
    BY SpreadRoom
  <2>2. seqs \in [1..n -> Text]
    BY <1>1, <2>1
  <2>3. seqs \in Seq(Text)
    BY <1>1, <2>2, SeqDef
  <2> QED BY <1>1, <2>2, <2>3, LenProperties
<1>3. preprocess(text) = FlattenSeq(seqs)
  BY DEF preprocess
<1> HIDE DEF seqs, n
<1>4. CASE n = 0
  <2>1. preprocess(text) = seqs /\ Len(seqs) = 0
    BY <1>2, <1>3, <1>4 DEF FlattenSeq
  <2>2. seqs = << >>
    BY <1>2, <2>1
  <2> QED BY <1>1, <1>4, <2>1, <2>2 DEF Text, n
<1>5. CASE n # 0
  <2>1. PICK f \in [1..n -> Text] :
          /\ preprocess(text) = f[n] /\ f[1] = seqs[1]
          /\ \A u \in 2..n : f[u] = f[u - 1] \o seqs[u]
    <3>1. seqs \in Seq(Seq(Chars)) /\ Len(seqs) = n /\ Len(seqs) # 0
      BY <1>2, <1>5 DEF Text
    <3>2. \E f \in [1..Len(seqs) -> Seq(Chars)] :
             /\ FlattenSeq(seqs) = f[Len(seqs)] /\ f[1] = seqs[1]
             /\ \A u \in 2..Len(seqs) : f[u] = f[u - 1] \o seqs[u]
      BY <3>1, FlattenAppends
    <3> QED BY <1>3, <3>1, <3>2 DEF Text
  <2> DEFINE d(u) == Room(text, u)
             Fits(u) == Len(f[u]) <= 2 * u + (IF d(u) = 3 THEN 1 ELSE 0)
             bad == {u \in 1..n : ~Fits(u)}
  <2>2. \A u \in 1..n : /\ d(u) \in 1..3 /\ d(u) = Len(seqs[u]) /\ seqs[u] \in Text
                        /\ Len(f[u]) \in Nat
    BY <1>2, <2>1, SpreadRoom DEF Room, Text, n
  <2>3. \A u \in 1..n : d(u) = 3 => u > 1 /\ u < n
    BY SpreadRoom DEF n
  <2>4. \A u \in 2..n : /\ d(u) = 3 => d(u - 1) = 1
                        /\ d(u - 1) = 3 => d(u) = 1
    <3>1. ASSUME NEW u \in 2..n
          PROVE  /\ d(u) = 3 => d(u - 1) = 1
                 /\ d(u - 1) = 3 => d(u) = 1
      <4>1. u \in 1..n /\ u - 1 \in 1..n /\ u - 1 + 1 = u
        BY <1>1
      <4>2. /\ d(u) # 1 => Redirection(text[u])
            /\ d(u) = 3 => ~Redirection(text[u - 1])
        BY <4>1, SpreadRoom DEF n
      <4>3. /\ d(u - 1) # 1 => Redirection(text[u - 1])
            /\ d(u - 1) = 3 => ~Redirection(text[u])
        BY <4>1, SpreadRoom DEF n
      <4> QED BY <4>2, <4>3
    <3> QED BY <3>1
  <2> HIDE DEF d
  <2>5. Fits(1)
    <3>1. 1 \in 1..n
      BY <1>1, <1>5
    <3>2. Len(f[1]) = d(1) /\ d(1) \in 1..3 /\ d(1) # 3
      BY <2>1, <2>2, <2>3, <3>1
    <3> QED BY <3>2
  <2>6. ASSUME NEW u \in 2..n, Fits(u - 1) PROVE Fits(u)
    <3>1. u \in 1..n /\ u - 1 \in 1..n
      BY <1>1
    <3>2. Len(f[u]) = Len(f[u - 1]) + d(u)
      <4>1. f[u - 1] \in Text /\ seqs[u] \in Text /\ f[u] = f[u - 1] \o seqs[u]
        BY <2>1, <2>2, <3>1
      <4>2. Len(f[u - 1] \o seqs[u]) = Len(f[u - 1]) + Len(seqs[u])
        BY <4>1, ConcatProperties DEF Text
      <4> QED BY <2>2, <3>1, <4>1, <4>2
    <3>3. d(u) \in 1..3 /\ d(u - 1) \in 1..3 /\ Len(f[u - 1]) \in Nat
      BY <2>2, <3>1
    <3> QED BY <2>4, <2>6, <3>2, <3>3
  <2> HIDE DEF Fits
  <2>7. bad = {}
    <3> SUFFICES ASSUME bad # {} PROVE FALSE
      OBVIOUS
    <3>1. bad \in SUBSET Nat
      OBVIOUS
    <3>2. PICK u \in bad : \A j \in bad : u <= j
      BY <3>1, LeastNat
    <3>3. u \in 2..n
      BY <1>1, <2>5, <3>2
    <3>4. u - 1 \in 1..n /\ ~(u <= u - 1)
      BY <1>1, <3>3
    <3> QED BY <2>6, <3>2, <3>3, <3>4
  <2>8. n \in 1..n
    BY <1>1, <1>5
  <2>9. Fits(n) /\ d(n) # 3
    BY <1>1, <2>3, <2>7, <2>8
  <2>10. Len(f[n]) <= 2 * n
    BY <1>1, <2>9 DEF Fits
  <2> QED BY <2>1, <2>8, <2>10 DEF n
<1> QED BY <1>4, <1>5

-----------------------------------------------------------------------------
(***************************************************************************)
(* Runs and tokens: what Ascending, Runs and strtok are.                   *)
(***************************************************************************)

\* What numbers in ascending order are.
Ascends(a, n) == \A i, j \in 1..n : i < j => a[i] < a[j]
Ordered(a, n, S) ==
  n \in Nat /\ a \in [1..n -> S] /\ Ascends(a, n) /\ \A u \in S : \E i \in 1..n : a[i] = u

LEMMA AscendingIs ==
  ASSUME NEW S \in SUBSET Nat, NEW n \in Nat, NEW a, Ordered(a, n, S)
  PROVE  Cardinality(S) = n /\ Ascending(S) = a
<1> DEFINE upto(u) == {j \in S : j <= u}
<1>1. /\ a \in [1..n -> S] /\ \A u \in S : u \in Nat /\ \E i \in 1..n : a[i] = u
      /\ \A i, j \in 1..n : i < j => a[i] < a[j]
  BY DEF Ordered, Ascends
<1>2. ASSUME NEW m \in 1..n PROVE Cardinality(upto(a[m])) = m
  <2> DEFINE b == [i \in 1..m |-> a[i]]
  <2>1. \A i \in 1..m : i \in 1..n
    OBVIOUS
  <2>2. \A i \in 1..m : a[i] \in upto(a[m])
    <3>1. ASSUME NEW i \in 1..m PROVE a[i] <= a[m]
      <4>1. i = m \/ i < m
        OBVIOUS
      <4>2. a[i] \in Nat /\ a[m] \in Nat
        BY <1>1, <2>1
      <4> QED BY <1>1, <2>1, <4>1, <4>2
    <3> QED BY <1>1, <2>1, <3>1
  <2>3. \A u \in upto(a[m]) : \E i \in 1..m : b[i] = u
    <3>1. ASSUME NEW u \in S, u <= a[m] PROVE \E i \in 1..m : b[i] = u
      <4>1. PICK i \in 1..n : a[i] = u
        BY <1>1
      <4>2. ~(m < i)
        <5>1. a[m] \in Nat /\ u \in Nat
          BY <1>1
        <5> QED BY <1>1, <3>1, <4>1, <5>1
      <4> QED BY <4>1, <4>2
    <3> QED BY <3>1
  <2>4. b \in Bijection(1..m, upto(a[m]))
    <3>1. b \in [1..m -> upto(a[m])]
      BY <2>2
    <3>2. \A i, j \in 1..m : b[i] = b[j] => i = j
      <4>1. ASSUME NEW i \in 1..m, NEW j \in 1..m, i < j PROVE b[i] # b[j]
        <5>1. a[i] < a[j] /\ a[i] \in Nat /\ a[j] \in Nat
          BY <1>1, <2>1, <4>1
        <5> QED BY <5>1
      <4>2. ASSUME NEW i \in 1..m, NEW j \in 1..m, b[i] = b[j] PROVE i = j
        <5>1. ~(i < j) /\ ~(j < i)
          BY <4>1, <4>2
        <5> QED BY <5>1
      <4> QED BY <4>2
    <3> HIDE DEF b, upto
    <3> QED BY <2>3, <3>1, <3>2, Zenon DEF Bijection, Injection, Surjection, IsInjective
  <2>5. ExistsBijection(1..m, upto(a[m]))
    BY <2>4 DEF ExistsBijection
  <2> QED BY <2>5, FS_CountingElements
<1>3. Cardinality(S) = n
  <2>1. \A i, j \in 1..n : a[i] = a[j] => i = j
    <3>1. ASSUME NEW i \in 1..n, NEW j \in 1..n, a[i] = a[j] PROVE i = j
      <4>1. a[i] \in Nat /\ a[j] \in Nat
        BY <1>1
      <4>2. ~(i < j)
        BY <1>1, <3>1, <4>1
      <4>3. ~(j < i)
        BY <1>1, <3>1, <4>1
      <4> QED BY <4>2, <4>3
    <3> QED BY <3>1
  <2>2. a \in Bijection(1..n, S)
    BY <1>1, <2>1, Zenon DEF Bijection, Injection, Surjection, IsInjective
  <2>3. ExistsBijection(1..n, S)
    BY <2>2 DEF ExistsBijection
  <2> QED BY <2>3, FS_CountingElements
<1> DEFINE chosen(m) == CHOOSE u \in S : Cardinality(upto(u)) = m
<1>4. ASSUME NEW m \in 1..n PROVE chosen(m) = a[m]
  <2>1. a[m] \in S /\ Cardinality(upto(a[m])) = m
    BY <1>1, <1>2
  <2>2. ASSUME NEW u \in S, Cardinality(upto(u)) = m PROVE u = a[m]
    <3>1. PICK i \in 1..n : a[i] = u
      BY <1>1
    <3>2. Cardinality(upto(a[i])) = i
      BY <1>2
    <3> QED BY <2>2, <3>1, <3>2
  <2> HIDE DEF upto
  <2> QED BY <2>1, <2>2
<1>5. Ascending(S) = [m \in 1..Cardinality(S) |-> chosen(m)]
  BY DEF Ascending
<1> HIDE DEF chosen
<1>6. Ascending(S) = [m \in 1..n |-> a[m]]
  BY <1>3, <1>4, <1>5
<1> QED BY <1>1, <1>3, <1>6

\* There is such an order of every finite set: that of its ranks.
LEMMA AscendingOrders ==
  ASSUME NEW S \in SUBSET Nat, IsFiniteSet(S)
  PROVE  Ordered(Ascending(S), Cardinality(S), S)
<1> DEFINE upto(u) == {j \in S : j <= u}
           rank == [u \in S |-> Cardinality(upto(u))]
           n == Cardinality(S)
           a == Ascending(S)
<1>1. n \in Nat
  BY FS_CardinalityType
<1>2. ASSUME NEW u \in S
      PROVE  IsFiniteSet(upto(u)) /\ rank[u] = Cardinality(upto(u)) /\ rank[u] \in 1..n
  <2>1. upto(u) \subseteq S /\ upto(u) # {}
    OBVIOUS
  <2>2. IsFiniteSet(upto(u)) /\ Cardinality(upto(u)) <= n
    BY <2>1, FS_Subset
  <2>3. Cardinality(upto(u)) \in Nat /\ Cardinality(upto(u)) # 0
    BY <2>1, <2>2, FS_CardinalityType, FS_EmptySet
  <2> QED BY <1>1, <2>2, <2>3
<1>3. ASSUME NEW u \in S, NEW v \in S, u < v PROVE rank[u] < rank[v]
  <2>1. upto(u) \in SUBSET upto(v)
    <3>1. ASSUME NEW j \in S, j <= u PROVE j <= v
      <4>1. j \in Nat /\ u \in Nat /\ v \in Nat
        OBVIOUS
      <4> QED BY <1>3, <3>1, <4>1
    <3> QED BY <3>1
  <2>2. v \in upto(v) /\ v \notin upto(u) /\ IsFiniteSet(upto(v))
    BY <1>2, <1>3
  <2>3. Cardinality(upto(u)) < Cardinality(upto(v))
    <3> HIDE DEF upto
    <3> QED BY <2>1, <2>2, FewerElements
  <2> QED BY <1>2, <2>3
<1>4. rank \in Injection(S, 1..n)
  <2>1. rank \in [S -> 1..n]
    BY <1>2
  <2>2. \A u, v \in S : rank[u] = rank[v] => u = v
    <3>1. ASSUME NEW u \in S, NEW v \in S, rank[u] = rank[v] PROVE u = v
      <4>1. ~(u < v) /\ ~(v < u) /\ u \in Nat /\ v \in Nat
        <5>1. rank[u] \in 1..n /\ rank[v] \in 1..n
          BY <1>2
        <5> HIDE DEF rank, n
        <5> QED BY <1>3, <3>1, <5>1
      <4> QED BY <4>1
    <3> QED BY <3>1
  <2> HIDE DEF rank, n
  <2> QED BY <2>1, <2>2 DEF Injection, IsInjective
<1>5. IsFiniteSet(1..n) /\ Cardinality(1..n) = n
  BY <1>1, FS_Interval
<1>6. rank \in Surjection(S, 1..n)
  BY <1>4, <1>5, FS_Injection
<1> DEFINE chosen(m) == CHOOSE u \in S : Cardinality(upto(u)) = m
<1>7. ASSUME NEW m \in 1..n PROVE chosen(m) \in S /\ rank[chosen(m)] = m
  <2>1. PICK u \in S : rank[u] = m
    BY <1>6 DEF Surjection
  <2>2. Cardinality(upto(u)) = m
    BY <1>2, <2>1
  <2>3. chosen(m) \in S /\ Cardinality(upto(chosen(m))) = m
    <3> HIDE DEF upto
    <3> QED BY <2>2
  <2> HIDE DEF chosen
  <2> QED BY <1>2, <2>3
<1>8. a = [m \in 1..n |-> chosen(m)]
  BY DEF Ascending
<1> HIDE DEF chosen, a, upto
<1>9. a \in [1..n -> S] /\ \A m \in 1..n : rank[a[m]] = m
  BY <1>7, <1>8
<1> HIDE DEF rank
<1>10. ASSUME NEW i \in 1..n, NEW j \in 1..n, i < j PROVE a[i] < a[j]
  <2>1. a[i] \in S /\ a[j] \in S /\ rank[a[i]] = i /\ rank[a[j]] = j
    BY <1>9
  <2>2. a[i] # a[j]
    BY <1>10, <2>1
  <2>3. PICK u \in S, v \in S : u = a[i] /\ v = a[j]
    BY <2>1
  <2>4. ~(v < u)
    <3>1. v < u => j < i
      BY <1>3, <2>1, <2>3
    <3> QED BY <1>10, <3>1
  <2>5. u \in Nat /\ v \in Nat
    OBVIOUS
  <2> QED BY <2>2, <2>3, <2>4, <2>5
<1>11. ASSUME NEW u \in S PROVE \E i \in 1..n : a[i] = u
  <2>1. rank[u] \in 1..n /\ a[rank[u]] \in S /\ rank[a[rank[u]]] = rank[u]
    BY <1>2, <1>9
  <2> QED BY <1>4, <2>1 DEF Injection, IsInjective
<1> HIDE DEF n
<1>12. Ordered(a, n, S)
  BY <1>1, <1>9, <1>10, <1>11 DEF Ordered, Ascends
<1> QED BY <1>12 DEF a, n

\* The runs of a line: run n is from a[n] to e[n].
RunAt(kind, N, dropped, x, y) ==
  /\ x \in 1..N /\ y \in 1..N /\ x <= y /\ kind[x] # dropped
  /\ \A k \in x..y : kind[k] = kind[x]
  /\ x = 1 \/ kind[x - 1] # kind[x]
  /\ y = N \/ kind[y + 1] # kind[x]
Covered(kind, N, dropped, a, e, m) ==
  \A i \in 1..N : kind[i] # dropped => \E n \in 1..m : a[n] <= i /\ i <= e[n]
IsRuns(kind, N, dropped, a, e, m) ==
  /\ m \in Nat /\ a \in [1..m -> 1..N] /\ e \in [1..m -> 1..N]
  /\ \A n \in 1..m : RunAt(kind, N, dropped, a[n], e[n])
  /\ \A n, o \in 1..m : n < o => e[n] < a[o]
  /\ Covered(kind, N, dropped, a, e, m)

LEMMA RunEndIs ==
  ASSUME NEW N \in Nat, NEW kind, Len(kind) = N, NEW dropped, NEW x, NEW y,
         RunAt(kind, N, dropped, x, y)
  PROVE  RunEnd(kind, x) = y
<1> DEFINE Ends(j) == /\ \A k \in x..j : kind[k] = kind[x]
                      /\ j = N \/ kind[j + 1] # kind[x]
<1>1. x \in 1..N /\ y \in x..N /\ Ends(y)
  BY DEF RunAt
<1>2. ASSUME NEW j \in x..N, Ends(j) PROVE j = y
  <2>1. ASSUME NEW u \in x..N, NEW v \in x..N, Ends(u), Ends(v) PROVE ~(u < v)
    <3>1. u < v => u + 1 \in x..v /\ u # N
      BY <1>1
    <3> QED BY <2>1, <3>1
  <2>2. ~(j < y) /\ ~(y < j)
    <3> HIDE DEF Ends
    <3> QED BY <1>1, <1>2, <2>1
  <2>3. j \in Int /\ y \in Int
    BY <1>1
  <2> QED BY <2>2, <2>3
<1>3. RunEnd(kind, x) = CHOOSE j \in x..N : Ends(j)
  BY DEF RunEnd
<1> HIDE DEF Ends
<1> QED BY <1>1, <1>2, <1>3

LEMMA RunsAre ==
  ASSUME NEW N \in Nat, NEW kind, Len(kind) = N, DOMAIN kind = 1..N, NEW dropped, NEW line,
         NEW m, NEW a, NEW e, IsRuns(kind, N, dropped, a, e, m)
  PROVE  Runs(line, kind, dropped) = [n \in 1..m |-> SubSeq(line, a[n], e[n])]
<1> DEFINE S == RunStarts(kind, dropped)
<1>1. /\ m \in Nat /\ a \in [1..m -> 1..N] /\ e \in [1..m -> 1..N]
      /\ \A n \in 1..m : RunAt(kind, N, dropped, a[n], e[n])
      /\ \A n, o \in 1..m : n < o => e[n] < a[o]
      /\ Covered(kind, N, dropped, a, e, m)
  BY DEF IsRuns
<1>2. \A n \in 1..m : a[n] \in S
  BY <1>1 DEF RunAt, RunStarts
<1>3. S \in SUBSET Nat /\ \A u \in S : u \in 1..N
  BY DEF RunStarts
<1>4. ASSUME NEW u \in S PROVE \E n \in 1..m : a[n] = u
  <2>1. u \in 1..N /\ kind[u] # dropped /\ (u = 1 \/ kind[u - 1] # kind[u])
    BY DEF RunStarts
  <2>2. PICK n \in 1..m : a[n] <= u /\ u <= e[n]
    BY <1>1, <2>1 DEF Covered
  <2>3. a[n] \in 1..N /\ e[n] \in 1..N /\ \A k \in a[n]..e[n] : kind[k] = kind[a[n]]
    BY <1>1 DEF RunAt
  <2>4. a[n] # u => u - 1 \in a[n]..e[n] /\ u \in a[n]..e[n] /\ u # 1
    BY <2>1, <2>2, <2>3
  <2> QED BY <2>1, <2>3, <2>4
<1>5. ASSUME NEW n \in 1..m, NEW o \in 1..m, n < o PROVE a[n] < a[o]
  <2>1. a[n] <= e[n]
    BY <1>1 DEF RunAt
  <2>2. e[n] < a[o]
    BY <1>1, <1>5
  <2>3. a[n] \in 1..N /\ e[n] \in 1..N /\ a[o] \in 1..N
    BY <1>1
  <2> QED BY <2>1, <2>2, <2>3
<1>6. Ordered(a, m, S)
  <2>1. a \in [1..m -> S]
    BY <1>1, <1>2
  <2> HIDE DEF S
  <2> QED BY <1>1, <1>4, <1>5, <2>1 DEF Ordered, Ascends
<1>7. Ascending(S) = a
  BY <1>1, <1>3, <1>6, AscendingIs
<1>8. \A n \in 1..m : RunEnd(kind, a[n]) = e[n]
  BY <1>1, RunEndIs
<1>9. DOMAIN a = 1..m
  BY <1>1
<1>10. Runs(line, kind, dropped) = [n \in DOMAIN a |-> SubSeq(line, a[n], RunEnd(kind, a[n]))]
  <2> HIDE DEF S
  <2> QED BY <1>7, Zenon DEF Runs, S
<1> QED BY <1>8, <1>9, <1>10

LEMMA RunsExist ==
  ASSUME NEW N \in Nat, NEW kind, Len(kind) = N, DOMAIN kind = 1..N, NEW dropped
  PROVE  \E m, a, e : IsRuns(kind, N, dropped, a, e, m)
<1> DEFINE S == RunStarts(kind, dropped)
           m == Cardinality(S)
           a == Ascending(S)
           e == [n \in 1..m |-> RunEnd(kind, a[n])]
<1>1. S \in SUBSET (1..N) /\ S \in SUBSET Nat
  BY DEF RunStarts
<1>2. IsFiniteSet(S)
  <2>1. IsFiniteSet(1..N)
    BY FS_Interval
  <2> HIDE DEF S
  <2> QED BY <1>1, <2>1, FS_Subset
<1>3. Ordered(a, m, S)
  <2> HIDE DEF S
  <2> QED BY <1>1, <1>2, AscendingOrders
<1> HIDE DEF a, m
<1>4. /\ m \in Nat /\ a \in [1..m -> S] /\ \A n, o \in 1..m : n < o => a[n] < a[o]
      /\ \A u \in S : \E n \in 1..m : a[n] = u
  BY <1>3 DEF Ordered, Ascends
<1>5. ASSUME NEW u \in S PROVE \E y : RunAt(kind, N, dropped, u, y)
  <2>1. u \in 1..N /\ kind[u] # dropped /\ (u = 1 \/ kind[u - 1] # kind[u])
    BY DEF RunStarts
  <2> DEFINE stops == {j \in u..N : j = N \/ kind[j + 1] # kind[u]}
  <2>2. stops \in SUBSET Nat /\ N \in stops
    BY <2>1
  <2>3. PICK y \in stops : \A j \in stops : y <= j
    BY <2>2, LeastNat
  <2>a. y \in u..N /\ (y = N \/ kind[y + 1] # kind[u])
    OBVIOUS
  <2>4. ASSUME NEW k \in u..y PROVE kind[k] = kind[u]
    <3>1. CASE k = u
      BY <3>1
    <3>2. CASE k # u
      <4>1. k - 1 \in u..N /\ ~(y <= k - 1) /\ k - 1 + 1 = k
        <5> HIDE DEF stops
        <5> QED BY <2>1, <2>a, <3>2
      <4>2. k - 1 \notin stops
        BY <2>3, <4>1
      <4> QED BY <4>1, <4>2
    <3> QED BY <3>1, <3>2
  <2> HIDE DEF stops
  <2>5. y \in 1..N /\ u <= y
    BY <2>1, <2>a
  <2> QED BY <2>1, <2>a, <2>4, <2>5 DEF RunAt
<1>6. ASSUME NEW u \in S PROVE RunAt(kind, N, dropped, u, RunEnd(kind, u))
  <2>1. PICK y : RunAt(kind, N, dropped, u, y)
    BY <1>5
  <2>2. RunEnd(kind, u) = y
    BY <2>1, RunEndIs
  <2> QED BY <2>1, <2>2
<1>7. \A n \in 1..m : RunAt(kind, N, dropped, a[n], e[n])
  BY <1>4, <1>6
<1>8. a \in [1..m -> 1..N] /\ e \in [1..m -> 1..N]
  <2>1. \A n \in 1..m : e[n] \in 1..N
    BY <1>7 DEF RunAt
  <2> QED BY <1>1, <1>4, <2>1
<1> HIDE DEF e
<1>9. ASSUME NEW n \in 1..m, NEW o \in 1..m, n < o PROVE e[n] < a[o]
  <2>1. PICK x, y, z : x = a[n] /\ y = e[n] /\ z = a[o]
    OBVIOUS
  <2>2. x < z /\ x \in 1..N /\ z \in 1..N /\ z \in S /\ RunAt(kind, N, dropped, x, y)
    BY <1>4, <1>7, <1>8, <1>9, <2>1
  <2>3. z = 1 \/ kind[z - 1] # kind[z]
    BY <2>2 DEF RunStarts
  <2>4. y \in 1..N /\ \A k \in x..y : kind[k] = kind[x]
    BY <2>2 DEF RunAt
  <2>5. z <= y => z - 1 \in x..y /\ z \in x..y /\ z # 1
    BY <2>2, <2>4
  <2>6. ~(z <= y)
    BY <2>3, <2>4, <2>5
  <2> QED BY <2>1, <2>2, <2>4, <2>6
<1>10. Covered(kind, N, dropped, a, e, m)
  <2> SUFFICES ASSUME NEW i \in 1..N, kind[i] # dropped
               PROVE  \E n \in 1..m : a[n] <= i /\ i <= e[n]
    BY DEF Covered
  <2> DEFINE same == {x \in 1..i : \A k \in x..i : kind[k] = kind[i]}
  <2>1. same \in SUBSET Nat /\ i \in same
    OBVIOUS
  <2>2. PICK x \in same : \A j \in same : x <= j
    BY <2>1, LeastNat
  <2>3. x \in 1..i /\ \A k \in x..i : kind[k] = kind[i]
    OBVIOUS
  <2>4. x = 1 \/ kind[x - 1] # kind[x]
    <3> SUFFICES ASSUME x # 1, kind[x - 1] = kind[x] PROVE FALSE
      OBVIOUS
    <3>1. x - 1 \in 1..i /\ ~(x <= x - 1)
      BY <2>3
    <3>2. x \in x..i
      BY <2>3
    <3>3. ASSUME NEW k \in (x - 1)..i PROVE kind[k] = kind[i]
      <4>1. k = x - 1 \/ k \in x..i
        BY <2>3
      <4> QED BY <2>3, <3>2, <4>1
    <3>4. x - 1 \in same
      BY <3>1, <3>3
    <3> QED BY <2>2, <3>1, <3>4
  <2> HIDE DEF same
  <2>5. x \in S
    <3>1. x \in x..i /\ x \in 1..N
      BY <2>3
    <3>2. kind[x] # dropped
      BY <2>3, <3>1
    <3> QED BY <2>4, <3>1, <3>2 DEF RunStarts
  <2>6. PICK n \in 1..m : a[n] = x
    BY <1>4, <2>5
  <2>7. PICK y : y = e[n]
    OBVIOUS
  <2>8. RunAt(kind, N, dropped, x, y)
    BY <1>7, <2>6, <2>7
  <2>9. y \in 1..N /\ x <= y /\ (y = N \/ kind[y + 1] # kind[x])
    BY <2>8 DEF RunAt
  <2>10. y < i => y + 1 \in x..i /\ x \in x..i /\ y # N
    BY <2>3, <2>9
  <2>11. ~(y < i)
    BY <2>3, <2>9, <2>10
  <2>12. x <= i /\ i <= y
    BY <2>3, <2>9, <2>11
  <2> QED BY <2>6, <2>7, <2>12
<1>11. IsRuns(kind, N, dropped, a, e, m)
  BY <1>4, <1>7, <1>8, <1>9, <1>10 DEF IsRuns
<1> QED BY <1>11

\* What strtok_r cuts off is text, and what tokenize makes of it is a stage.
LEMMA TokensAreTexts ==
  ASSUME NEW text \in Text, NEW delimiters
  PROVE  strtok(text, delimiters) \in Seq(Text)
<1>1. PICK N, kind : N = Len(text) /\ kind = Cuts(text, delimiters)
  OBVIOUS
<1>2. N \in Nat /\ DOMAIN text = 1..N /\ \A i \in 1..N : text[i] \in Chars
  BY <1>1 DEF Text
<1>3. Len(kind) = N /\ DOMAIN kind = 1..N
  BY <1>1, <1>2 DEF Cuts
<1>4. PICK m, a, e : IsRuns(kind, N, "gap", a, e, m)
  BY <1>2, <1>3, RunsExist
<1>5. Runs(text, kind, "gap") = [n \in 1..m |-> SubSeq(text, a[n], e[n])]
  BY <1>2, <1>3, <1>4, RunsAre
<1>6. /\ m \in Nat /\ a \in [1..m -> 1..N] /\ e \in [1..m -> 1..N]
      /\ \A n \in 1..m : RunAt(kind, N, "gap", a[n], e[n])
  BY <1>4 DEF IsRuns
<1>7. ASSUME NEW n \in 1..m PROVE SubSeq(text, a[n], e[n]) \in Text
  <2>1. a[n] \in 1..N /\ e[n] \in 1..N
    BY <1>6
  <2>2. \A i \in a[n]..e[n] : text[i] \in Chars
    BY <1>2, <2>1
  <2> QED BY <2>1, <2>2, SubSeqProperties DEF Text
<1>8. [n \in 1..m |-> SubSeq(text, a[n], e[n])] \in Seq(Text)
  BY <1>6, <1>7
<1> QED BY <1>1, <1>5, <1>8 DEF strtok

-----------------------------------------------------------------------------
(***************************************************************************)
(* All that is allocated is freed.                                         *)
(***************************************************************************)

\* The strings of the first stages, added up.
StringsOf(stages, n) == [k \in 1..n |-> Strings(stages[k])]

LEMMA StringsAreCounted ==
  ASSUME NEW st \in Stage PROVE Strings(st) \in Nat
<1>1. Len(st.argv) \in Nat
  BY DEF Stage
<1>2. PICK a, b : /\ a = IF st.infile = NoFile THEN 0 ELSE 1
                  /\ b = IF st.outfile = NoFile THEN 0 ELSE 1
  OBVIOUS
<1>3. a \in Nat /\ b \in Nat
  BY <1>2
<1>4. Strings(st) = Len(st.argv) + a + b
  BY <1>2, Zenon DEF Strings
<1> QED BY <1>1, <1>3, <1>4

LEMMA StringsAddUp ==
  ASSUME NEW stages \in Seq(Stage), NEW n \in 0..Len(stages)
  PROVE  SumStrings(stages, n) = SumOf(StringsOf(stages, n), 1..n)
<1> DEFINE s == SubSeq(stages, 1, n)
           S == DOMAIN s
           v == StringsOf(stages, n)
           iter == CHOOSE h : h = [r \in SUBSET S |->
                                     IF r = {} THEN 0
                                     ELSE h[r \ {Max(r)}] + Strings(s[Max(r)])]
           g == [r \in SUBSET S |-> SumOf(v, r)]
<1>1. SumStrings(stages, n) = iter[S]
  BY Zenon DEF SumStrings, FoldLeft, MapThenFoldSet
<1>2. n \in Nat /\ S = 1..n /\ \A k \in 1..n : s[k] = stages[k] /\ stages[k] \in Stage
  <2>1. n \in Nat /\ \A k \in 1..n : stages[k] \in Stage
    OBVIOUS
  <2>2. s \in Seq(Stage) /\ Len(s) = n /\ \A k \in 1..n : s[k] = stages[k]
    <3>1. SubSeq(stages, 1, n) \in Seq(Stage) /\ Len(SubSeq(stages, 1, n)) = n
      BY <2>1, SubSeqProperties
    <3>2. \A k \in 1..n : SubSeq(stages, 1, n)[k] = stages[k]
      BY <2>1, SubSeqProperties
    <3> QED BY <3>1, <3>2
  <2> HIDE DEF s
  <2> QED BY <2>1, <2>2
<1>3. \A k \in 1..n : v[k] = Strings(s[k]) /\ v[k] \in Int
  BY <1>2, StringsAreCounted DEF StringsOf
<1>4. IsFiniteSet(S) /\ S \in SUBSET S
  BY <1>2, FS_Interval
<1> HIDE DEF s, S, v
<1>5. \A r \in SUBSET S : r # {} => Max(r) \in r
  BY <1>2, MaxIsGreatest
<1>6. ASSUME NEW r \in SUBSET S, r # {}
      PROVE  SumOf(v, r) = SumOf(v, r \ {Max(r)}) + Strings(s[Max(r)])
  <2>1. IsFiniteSet(r) /\ Max(r) \in r /\ \A k \in r : v[k] \in Int
    BY <1>2, <1>3, <1>4, <1>5, <1>6, FS_Subset
  <2>2. SumOf(v, r) = v[Max(r)] + SumOf(v, r \ {Max(r)})
    BY <2>1, SumWithout
  <2>3. SumOf(v, r \ {Max(r)}) \in Int /\ v[Max(r)] \in Int
    BY <2>1, FS_Subset, SumIsInt
  <2>4. v[Max(r)] = Strings(s[Max(r)])
    BY <1>2, <1>3, <2>1
  <2> QED BY <2>2, <2>3, <2>4
<1>7. g = [r \in SUBSET S |->
             IF r = {} THEN 0 ELSE g[r \ {Max(r)}] + Strings(s[Max(r)])]
  <2>1. ASSUME NEW r \in SUBSET S
        PROVE  SumOf(v, r) = IF r = {} THEN 0
                             ELSE g[r \ {Max(r)}] + Strings(s[Max(r)])
    <3>1. r \ {Max(r)} \in SUBSET S
      OBVIOUS
    <3> QED BY <1>6, <3>1, SumOfNothing
  <2> QED BY <2>1
<1>8. iter = [r \in SUBSET S |->
                IF r = {} THEN 0 ELSE iter[r \ {Max(r)}] + Strings(s[Max(r)])]
  <2> HIDE DEF g
  <2> QED BY <1>7, Zenon
<1> HIDE DEF iter, g
<1>9. \A r \in SUBSET S :
        iter[r] = IF r = {} THEN 0 ELSE iter[r \ {Max(r)}] + Strings(s[Max(r)])
  BY <1>8, Zenon
<1> DEFINE Good == {r \in SUBSET S : iter[r] = SumOf(v, r)}
<1>10. ASSUME NEW r \in SUBSET S, \A x \in r : r \ {x} \in Good PROVE r \in Good
  <2>1. CASE r = {}
    BY <1>9, <2>1, SumOfNothing
  <2>2. CASE r # {}
    <3>1. iter[r \ {Max(r)}] = SumOf(v, r \ {Max(r)})
      BY <1>5, <1>10, <2>2
    <3>2. iter[r] = iter[r \ {Max(r)}] + Strings(s[Max(r)])
      BY <1>9, <2>2, Zenon
    <3> QED BY <1>6, <2>2, <3>1, <3>2
  <2> QED BY <2>1, <2>2
<1> HIDE DEF Good
<1>11. \A r \in SUBSET S : r \in Good
  BY <1>4, <1>10, SubsetInduction
<1>12. iter[S] = SumOf(v, S)
  BY <1>4, <1>11 DEF Good
<1> QED BY <1>1, <1>2, <1>12 DEF v

\* What the parts of a sum of strings have to do with one another.
LEMMA SumStringsFacts ==
  ASSUME NEW stages \in Seq(Stage), NEW n \in 0..Len(stages)
  PROVE  /\ SumStrings(stages, n) \in Nat
         /\ n = 0 => SumStrings(stages, n) = 0
         /\ n > 0 => SumStrings(stages, n) = SumStrings(stages, n - 1) + Strings(stages[n])
<1> DEFINE v == StringsOf(stages, n)
<1>1. n \in Nat /\ IsFiniteSet(1..n) /\ \A k \in 1..n : stages[k] \in Stage
  BY FS_Interval
<1>2. \A k \in 1..n : v[k] = Strings(stages[k]) /\ v[k] \in Nat
  BY <1>1, StringsAreCounted DEF StringsOf
<1>3. SumStrings(stages, n) = SumOf(v, 1..n)
  BY StringsAddUp
<1> HIDE DEF v
<1>4. SumOf(v, 1..n) \in Nat
  BY <1>1, <1>2, SumIsNat
<1>5. n = 0 => SumOf(v, 1..n) = 0
  BY SumOfNothing
<1>6. ASSUME n > 0
      PROVE  SumStrings(stages, n) = SumStrings(stages, n - 1) + Strings(stages[n])
  <2>1. n \in 1..n /\ (1..n) \ {n} = 1..(n - 1) /\ n - 1 \in 0..Len(stages)
    BY <1>1, <1>6
  <2>2. SumOf(v, 1..n) = v[n] + SumOf(v, 1..(n - 1))
    BY <1>1, <1>2, <2>1, SumWithout
  <2> DEFINE w == StringsOf(stages, n - 1)
  <2>3. \A k \in 1..(n - 1) : w[k] = v[k] /\ v[k] \in Int
    BY <1>1, <1>2 DEF StringsOf
  <2>4. SumStrings(stages, n - 1) = SumOf(w, 1..(n - 1))
    BY <2>1, StringsAddUp
  <2> HIDE DEF w
  <2>5. IsFiniteSet(1..(n - 1))
    BY <1>1, FS_Interval
  <2>6. SumOf(w, 1..(n - 1)) = SumOf(v, 1..(n - 1)) /\ SumOf(v, 1..(n - 1)) \in Int
    BY <2>3, <2>5, SameSum, SumIsInt
  <2>7. v[n] = Strings(stages[n]) /\ v[n] \in Nat
    BY <1>2, <2>1
  <2> QED BY <1>3, <2>2, <2>4, <2>6, <2>7
<1> QED BY <1>3, <1>4, <1>5, <1>6

Tokenized ==
  [stage : Stage, wants : {"word", "in", "out", "append"}, ok : BOOLEAN]

LEMMA EmptyStageTyped == EmptyStage \in Stage /\ Strings(EmptyStage) = 0
<1>1. EmptyStage \in Stage
  BY DEF EmptyStage, NoFile, Stage, Text
<1>2. Len(<< >>) = 0
  OBVIOUS
<1> QED BY <1>1, <1>2 DEF EmptyStage, Strings

LEMMA FailTyped ==
  ASSUME NEW t \in Tokenized PROVE Fail(t) \in Tokenized
<1>1. t.stage \in Stage /\ << >> \in Seq(Text)
  BY DEF Tokenized
<1>2. [t.stage EXCEPT !.argv = << >>] \in Stage
  BY <1>1 DEF Stage
<1>3. Fail(t) = [t EXCEPT !.ok = FALSE, !.stage = [t.stage EXCEPT !.argv = << >>]]
  BY DEF Fail, Tokenized
<1> QED BY <1>2, <1>3 DEF Tokenized

LEMMA TokenTyped ==
  ASSUME NEW t \in Tokenized, NEW tok \in Text PROVE Token(t, tok) \in Tokenized
<1>1. t.stage \in Stage /\ Fail(t) \in Tokenized
  BY FailTyped DEF Tokenized
<1>2. [t EXCEPT !.stage.infile = tok, !.wants = "word"] \in Tokenized
  <2>1. [t.stage EXCEPT !.infile = tok] \in Stage
    BY <1>1 DEF Stage
  <2> QED BY <2>1 DEF Tokenized
<1>3. [t EXCEPT !.stage.outfile = tok, !.wants = "word",
                !.stage.append = (t.wants = "append")] \in Tokenized
  <2>1. [t.stage EXCEPT !.outfile = tok, !.append = (t.wants = "append")] \in Stage
    BY <1>1 DEF Stage
  <2> QED BY <2>1 DEF Tokenized
<1>4. [t EXCEPT !.stage.argv = Append(@, tok)] \in Tokenized
  <2>1. Append(t.stage.argv, tok) \in Seq(Text)
    <3>1. t.stage.argv \in Seq(Text)
      BY <1>1 DEF Stage
    <3> QED BY <3>1, AppendProperties
  <2>2. [t.stage EXCEPT !.argv = Append(t.stage.argv, tok)] \in Stage
    BY <1>1, <2>1 DEF Stage
  <2> QED BY <2>2 DEF Tokenized
<1>5. /\ [t EXCEPT !.wants = "in"] \in Tokenized
      /\ [t EXCEPT !.wants = IF Len(tok) = 2 THEN "append" ELSE "out"] \in Tokenized
  BY DEF Tokenized
<1>6. \/ Token(t, tok) = t
      \/ Token(t, tok) = Fail(t)
      \/ Token(t, tok) = [t EXCEPT !.stage.infile = tok, !.wants = "word"]
      \/ Token(t, tok) = [t EXCEPT !.stage.outfile = tok, !.wants = "word",
                                   !.stage.append = (t.wants = "append")]
      \/ Token(t, tok) = [t EXCEPT !.wants = "in"]
      \/ Token(t, tok) = [t EXCEPT !.wants = IF Len(tok) = 2 THEN "append" ELSE "out"]
      \/ Token(t, tok) = [t EXCEPT !.stage.argv = Append(@, tok)]
  BY Zenon DEF Token
<1> QED BY <1>1, <1>2, <1>3, <1>4, <1>5, <1>6

\* tokenize folds Token over the tokens, from the first to the last.
FoldsTo(s, f) ==
  /\ f \in [0..Len(s) -> Tokenized] /\ f[0] = Begun
  /\ \A i \in 0..Len(s) : \A j \in 1..Len(s) : j = i + 1 => f[j] = Token(f[i], s[j])
  /\ FoldLeft(Token, Begun, s) = f[Len(s)]

LEMMA FoldSteps ==
  ASSUME NEW s \in Seq(Text)
  PROVE  \E f : FoldsTo(s, f)
<1> DEFINE S == DOMAIN s
           iter == CHOOSE h : h = [r \in SUBSET S |->
                                     IF r = {} THEN Begun
                                     ELSE Token(h[r \ {Max(r)}], s[Max(r)])]
           pick == [r \in SUBSET S |-> Max(r)]
           Read(rt) == IF rt[1] = {} THEN Begun ELSE Token(rt[2], s[Max(rt[1])])
           step == [rt \in (SUBSET S) \X Tokenized |-> Read(rt)]
<1>1. FoldLeft(Token, Begun, s) = iter[S]
  BY Zenon DEF FoldLeft, MapThenFoldSet
<1>2. S = 1..Len(s) /\ Len(s) \in Nat
  BY LenProperties
<1>3. IsFiniteSet(S) /\ S \in SUBSET S
  BY <1>2, FS_Interval
<1> HIDE DEF S
<1>4. \A r \in SUBSET S : r # {} => Max(r) \in r /\ pick[r] = Max(r)
  BY <1>2, MaxIsGreatest
<1>5. ASSUME NEW r \in SUBSET S, r # {}, NEW t \in Tokenized
      PROVE  Token(t, s[Max(r)]) \in Tokenized
  <2>1. Max(r) \in 1..Len(s)
    BY <1>2, <1>4, <1>5
  <2>2. s[Max(r)] \in Text
    BY <2>1
  <2> QED BY <2>2, TokenTyped
<1>6. Begun \in Tokenized
  BY EmptyStageTyped DEF Begun, Tokenized
<1>7. step \in [(SUBSET S) \X Tokenized -> Tokenized]
  <2>1. ASSUME NEW rt \in (SUBSET S) \X Tokenized PROVE Read(rt) \in Tokenized
    <3>1. rt[1] \in SUBSET S /\ rt[2] \in Tokenized
      OBVIOUS
    <3> QED BY <1>5, <1>6, <3>1, Zenon
  <2> HIDE DEF Read
  <2> QED BY <2>1
<1>8. \A r \in SUBSET S : \A t \in Tokenized :
        r # {} => step[<<r, t>>] = Token(t, s[Max(r)])
  OBVIOUS
<1> HIDE DEF pick, step
<1>9. PICK h \in [SUBSET S -> Tokenized] : Recurses(h, S, Begun, pick, step)
  <2>1. \A r \in SUBSET S : r # {} => pick[r] \in r
    BY <1>4
  <2> QED BY <1>3, <1>6, <1>7, <2>1, RecursionExists, Zenon
<1>10. h = [r \in SUBSET S |->
              IF r = {} THEN Begun ELSE Token(h[r \ {Max(r)}], s[Max(r)])]
  <2>1. ASSUME NEW r \in SUBSET S
        PROVE  h[r] = IF r = {} THEN Begun
                      ELSE Token(h[r \ {Max(r)}], s[Max(r)])
    <3>1. r \ {Max(r)} \in SUBSET S /\ h[r \ {Max(r)}] \in Tokenized
      OBVIOUS
    <3> QED BY <1>4, <1>8, <1>9, <3>1 DEF Recurses
  <2> QED BY <2>1
<1>11. iter = [r \in SUBSET S |->
                 IF r = {} THEN Begun
                 ELSE Token(iter[r \ {Max(r)}], s[Max(r)])]
  BY <1>10, Zenon
<1> HIDE DEF iter
<1>12. \A r \in SUBSET S :
         iter[r] = IF r = {} THEN Begun
                   ELSE Token(iter[r \ {Max(r)}], s[Max(r)])
  BY <1>11, Zenon
<1> DEFINE Good == {r \in SUBSET S : iter[r] \in Tokenized}
<1>13. ASSUME NEW r \in SUBSET S, \A x \in r : r \ {x} \in Good PROVE r \in Good
  <2>1. CASE r = {}
    BY <1>6, <1>12, <2>1
  <2>2. CASE r # {}
    <3>1. iter[r \ {Max(r)}] \in Tokenized
      BY <1>4, <1>13, <2>2
    <3>2. iter[r] = Token(iter[r \ {Max(r)}], s[Max(r)])
      BY <1>12, <2>2, Zenon
    <3> QED BY <1>5, <2>2, <3>1, <3>2
  <2> QED BY <2>1, <2>2
<1> HIDE DEF Good
<1>14. \A r \in SUBSET S : r \in Good
  BY <1>3, <1>13, SubsetInduction
<1>15. \A r \in SUBSET S : iter[r] \in Tokenized
  BY <1>3, <1>14 DEF Good
<1> DEFINE L == Len(s)
           f == [j \in 0..L |-> iter[1..j]]
<1>16. \A j \in 0..L : 1..j \in SUBSET S /\ f[j] = iter[1..j] /\ j \in Nat
  BY <1>2
<1>17. f \in [0..L -> Tokenized]
  BY <1>15, <1>16
<1>18. f[0] = Begun /\ f[L] = iter[S] /\ 0 \in 0..L /\ L \in 0..L
  <2>1. 0 \in 0..L /\ L \in 0..L /\ 1..0 = {} /\ 1..L = S
    BY <1>2
  <2>2. iter[{}] = Begun
    BY <1>12
  <2>3. f[0] = iter[1..0] /\ f[L] = iter[1..L]
    BY <1>16, <2>1
  <2> QED BY <2>1, <2>2, <2>3
<1> HIDE DEF f
<1>19. ASSUME NEW i \in 0..L, NEW j \in 1..L, j = i + 1 PROVE f[j] = Token(f[i], s[j])
  <2>1. j \in 0..L /\ j \in Nat /\ j \in 1..j /\ (1..j) \ {j} = 1..i
    BY <1>2, <1>19
  <2>2. PICK r : r = 1..j
    OBVIOUS
  <2>3. r \in SUBSET S /\ r # {} /\ f[j] = iter[r] /\ f[i] = iter[r \ {j}]
    BY <1>16, <2>1, <2>2
  <2>4. Max(r) = j
    <3>1. Max(r) \in 1..j /\ j <= Max(r)
      BY <2>1, <2>2, <2>3, MaxIsGreatest
    <3> QED BY <2>1, <3>1
  <2>5. iter[r] = Token(iter[r \ {Max(r)}], s[Max(r)])
    BY <1>12, <2>3, Zenon
  <2> QED BY <2>3, <2>4, <2>5
<1>20. FoldLeft(Token, Begun, s) = f[L]
  BY <1>1, <1>18 DEF S
<1>21. FoldsTo(s, f)
  BY <1>17, <1>18, <1>19, <1>20 DEF FoldsTo
<1> QED BY <1>21

LEMMA FoldTyped ==
  ASSUME NEW s \in Seq(Text) PROVE FoldLeft(Token, Begun, s) \in Tokenized
<1>1. PICK f : FoldsTo(s, f)
  BY FoldSteps
<1>2. Len(s) \in 0..Len(s)
  OBVIOUS
<1> QED BY <1>1, <1>2 DEF FoldsTo

LEMMA TokenizeTyped ==
  ASSUME NEW part \in Text PROVE tokenize(part) \in Tokenized
<1>1. FoldLeft(Token, Begun, strtok(part, {"b", "n"})) \in Tokenized
  BY TokensAreTexts, FoldTyped
<1> QED BY <1>1, FailTyped DEF tokenize

\* run_command the stages.
Owned(stages) == SumStrings(stages, Len(stages))

ParserInv ==
  /\ sLine \in Text /\ sAt \in {"read", "part", "run", "done"}
  /\ sParts \in Seq(Text) /\ sStages \in Seq(Stage) /\ sCount \in Nat
  /\ sAt = "read" => sStages = << >> /\ sCount = 0 /\ sLive = 0
  /\ sAt = "part" => sCount = Len(sStages) /\ sLive = 1 + Owned(sStages)
  /\ sAt = "run" => /\ sLive = Owned(sStages)
                    /\ sResult = << >> \/ Len(sResult) = Len(sStages)
  /\ sAt = "done" => sLive = 0

LEMMA OwnedByNone == Owned(<< >>) = 0
<1>1. << >> \in Seq(Stage) /\ Len(<< >>) = 0 /\ 0 \in 0..Len(<< >>)
  OBVIOUS
<1> QED BY <1>1, SumStringsFacts DEF Owned

LEMMA OwnedWithOneMore ==
  ASSUME NEW stages \in Seq(Stage), NEW st \in Stage
  PROVE  /\ Append(stages, st) \in Seq(Stage)
         /\ Len(Append(stages, st)) = Len(stages) + 1
         /\ SumStrings(Append(stages, st), Len(stages)) = Owned(stages)
         /\ Owned(Append(stages, st)) = Owned(stages) + Strings(st)
         /\ Owned(stages) \in Nat
<1> DEFINE n == Len(stages)
<1>1. PICK more : more = Append(stages, st)
  OBVIOUS
<1>2. /\ more \in Seq(Stage) /\ Len(more) = n + 1 /\ n \in Nat
      /\ more[n + 1] = st /\ \A k \in 1..n : more[k] = stages[k]
  BY <1>1, AppendProperties
<1>3. n \in 0..n /\ n \in 0..Len(more) /\ n + 1 \in 0..Len(more) /\ n + 1 > 0 /\ n + 1 - 1 = n
  BY <1>2
<1>4. StringsOf(more, n) = StringsOf(stages, n)
  BY <1>2 DEF StringsOf
<1>5. SumStrings(more, n) = SumStrings(stages, n)
  BY <1>2, <1>3, <1>4, StringsAddUp
<1>6. SumStrings(more, n + 1) = SumStrings(more, n) + Strings(st)
  BY <1>2, <1>3, SumStringsFacts
<1>7. SumStrings(stages, n) \in Nat
  BY <1>3, SumStringsFacts
<1> QED BY <1>1, <1>2, <1>5, <1>6, <1>7 DEF Owned

\* Freeing the first n of the stages leaves the strings of the others.
Freed(stages, n) == [k \in DOMAIN stages |-> IF k <= n THEN EmptyStage ELSE stages[k]]

LEMMA OwnedOnceFreed ==
  ASSUME NEW stages \in Seq(Stage), NEW n \in Nat, Len(stages) \in {n, n + 1}
  PROVE  /\ Freed(stages, n) \in Seq(Stage)
         /\ Owned(Freed(stages, n)) = Owned(stages) - SumStrings(stages, n)
<1> DEFINE l == Len(stages)
<1>1. PICK rest : rest = Freed(stages, n)
  OBVIOUS
<1>2. l \in Nat /\ DOMAIN stages = 1..l /\ \A k \in 1..l : stages[k] \in Stage
  BY LenProperties
<1>3. /\ rest \in Seq(Stage) /\ Len(rest) = l
      /\ \A k \in 1..l : rest[k] = IF k <= n THEN EmptyStage ELSE stages[k]
  <2>1. /\ rest \in [1..l -> Stage]
        /\ \A k \in 1..l : rest[k] = IF k <= n THEN EmptyStage ELSE stages[k]
    BY <1>1, <1>2, EmptyStageTyped DEF Freed
  <2>2. rest \in Seq(Stage)
    BY <1>2, <2>1, SeqDef
  <2>3. DOMAIN rest = 1..l
    BY <2>1
  <2>4. Len(rest) = l
    <3>1. Len(rest) \in Nat /\ 1..Len(rest) = 1..l /\ l \in Nat
      BY <1>2, <2>2, <2>3, LenProperties
    <3> HIDE DEF l
    <3>2. l \in 1..l => l \in 1..Len(rest)
      BY <3>1
    <3>3. Len(rest) \in 1..Len(rest) => Len(rest) \in 1..l
      BY <3>1
    <3> QED BY <3>1, <3>2, <3>3
  <2> QED BY <2>1, <2>2, <2>4
<1>4. l = n \/ l = n + 1
  OBVIOUS
<1> HIDE DEF l
<1>9. n \in 0..l /\ l \in 0..l /\ n \in 0..Len(rest)
  BY <1>2, <1>3, <1>4
<1>5. SumStrings(rest, n) = 0
  <2>1. \A k \in 1..n : StringsOf(rest, n)[k] = 0
    <3>1. ASSUME NEW k \in 1..n PROVE StringsOf(rest, n)[k] = 0
      <4>1. k \in 1..l /\ k <= n
        BY <1>2, <1>9
      <4>2. rest[k] = EmptyStage
        BY <1>3, <4>1
      <4> QED BY <4>2, EmptyStageTyped DEF StringsOf
    <3> QED BY <3>1
  <2>2. IsFiniteSet(1..n)
    BY FS_Interval
  <2>3. SumOf(StringsOf(rest, n), 1..n) = 0
    BY <2>1, <2>2, SumOfZeros
  <2> QED BY <1>3, <1>9, <2>3, StringsAddUp
<1>6. SumStrings(stages, n) \in Nat
  BY <1>9, SumStringsFacts DEF l
<1>7. CASE l = n
  <2>1. Owned(rest) = SumStrings(rest, n) /\ Owned(stages) = SumStrings(stages, n)
    BY <1>3, <1>7, Zenon DEF Owned, l
  <2> QED BY <1>1, <1>3, <1>5, <1>6, <2>1
<1>8. CASE l = n + 1
  <2>1. n + 1 \in 0..l /\ n + 1 > 0 /\ n + 1 - 1 = n /\ n + 1 \in 1..l /\ ~(n + 1 <= n)
    BY <1>2, <1>8
  <2>2. SumStrings(rest, n + 1) = SumStrings(rest, n) + Strings(rest[n + 1])
    <3>1. rest \in Seq(Stage) /\ n + 1 \in 0..Len(rest)
      BY <1>3, <2>1
    <3> QED BY <2>1, <3>1, SumStringsFacts
  <2>3. SumStrings(stages, n + 1) = SumStrings(stages, n) + Strings(stages[n + 1])
    BY <2>1, SumStringsFacts DEF l
  <2>4. rest[n + 1] = stages[n + 1] /\ Strings(stages[n + 1]) \in Nat
    BY <1>2, <1>3, <2>1, StringsAreCounted
  <2>5. Owned(rest) = SumStrings(rest, n + 1) /\ Owned(stages) = SumStrings(stages, n + 1)
    BY <1>3, <1>8, Zenon DEF Owned, l
  <2> QED BY <1>1, <1>3, <1>5, <1>6, <2>2, <2>3, <2>4, <2>5
<1> QED BY <1>4, <1>7, <1>8

LEMMA ParserInvInit == ShellInit => ParserInv
<1> SUFFICES ASSUME ShellInit PROVE ParserInv
  OBVIOUS
<1>1. sLine \in Text /\ << >> \in Seq(Text) /\ << >> \in Seq(Stage)
  BY ShellAssumption DEF ShellInit, Text
<1> QED BY <1>1 DEF ShellInit, ParserInv

LEMMA ReturnFrees ==
  ASSUME NEW stages \in Seq(Stage), NEW n \in Nat, Len(stages) \in {n, n + 1},
         ParserInv, Return(stages, n, 1 + Owned(stages))
  PROVE  ParserInv'
<1>1. /\ sStages' = Freed(stages, n) /\ sAt' = "run" /\ sResult' = << >>
      /\ sLive' = (1 + Owned(stages)) - SumStrings(stages, n) - 1
      /\ sLine' = sLine /\ sParts' = sParts /\ sCount' = sCount
  <2>1. sAt' = "run" /\ sResult' = << >> /\ UNCHANGED <<sLine, sParts, sCount>>
    BY DEF Return
  <2>3. sLive' = (1 + Owned(stages)) - SumStrings(stages, n) - 1
    BY Zenon DEF Return
  <2>2. sStages' = Freed(stages, n)
    BY Zenon DEF Return, Freed
  <2> QED BY <2>1, <2>2, <2>3
<1>2. PICK own, part : own = Owned(stages) /\ part = SumStrings(stages, n)
  OBVIOUS
<1>3. own \in Nat /\ part \in Nat
  <2>1. Len(stages) \in Nat /\ n \in 0..Len(stages) /\ Len(stages) \in 0..Len(stages)
    OBVIOUS
  <2> QED BY <1>2, <2>1, SumStringsFacts DEF Owned
<1>4. sStages' \in Seq(Stage) /\ Owned(sStages') = own - part
  BY <1>1, <1>2, OwnedOnceFreed
<1>5. sLive' = Owned(sStages')
  BY <1>1, <1>2, <1>3, <1>4
<1>6. Owned(sStages)' = Owned(sStages')
  BY DEF Owned
<1> QED BY <1>1, <1>4, <1>5, <1>6 DEF ParserInv

LEMMA ParserInvStep == ParserInv /\ [ShellNext]_sVars => ParserInv'
<1> SUFFICES ASSUME ParserInv, [ShellNext]_sVars PROVE ParserInv'
  OBVIOUS
<1>1. CASE BeginPipeline
  <2>1. /\ sAt = "read" /\ sLine' = sLine /\ sStages' = sStages /\ sCount' = sCount
        /\ sStages = << >> /\ sCount = 0 /\ sLive = 0 /\ Owned(sStages) = 0
    BY <1>1, OwnedByNone DEF BeginPipeline, ParserInv
  <2>2. Owned(sStages)' = 0
    BY <2>1 DEF Owned
  <2>3. strtok(preprocess(sLine), {"|"}) \in Seq(Text)
    BY PreprocessRoom, TokensAreTexts DEF ParserInv
  <2>4. \/ sAt' = "part" /\ sParts' \in Seq(Text) /\ sLive' = 1
        \/ sAt' = "run" /\ sResult' = << >> /\ sParts' = sParts /\ sLive' = 0
    BY <1>1, <2>1, <2>3 DEF BeginPipeline
  <2>5. Len(<< >>) = 0
    OBVIOUS
  <2> QED BY <2>1, <2>2, <2>4, <2>5 DEF ParserInv
<1>2. CASE ParseStage
  <2>1. PICK part, t, stages, live :
          /\ part = Head(sParts) /\ t = tokenize(part)
          /\ stages = Append(sStages, t.stage) /\ live = sLive + Strings(t.stage)
    OBVIOUS
  <2>2. /\ sAt = "part" /\ sParts # << >>
        /\ \/ Return(sStages, sCount, sLive)
           \/ Return(stages, sCount, live)
           \/ Return(stages, sCount + 1, live)
           \/ /\ sStages' = stages /\ sCount' = sCount + 1 /\ sLive' = live
              /\ sParts' = Tail(sParts) /\ UNCHANGED <<sLine, sAt, sResult>>
    BY <1>2, <2>1, Zenon DEF ParseStage
  <2>3. part \in Text /\ Tail(sParts) \in Seq(Text)
    BY <2>1, <2>2, HeadTailProperties DEF ParserInv
  <2>4. t.stage \in Stage
    BY <2>1, <2>3, TokenizeTyped DEF Tokenized
  <2>5. /\ sStages \in Seq(Stage) /\ sCount \in Nat /\ sCount = Len(sStages)
        /\ sLive = 1 + Owned(sStages)
    BY <2>2 DEF ParserInv
  <2>6. /\ stages \in Seq(Stage) /\ Len(stages) = sCount + 1
        /\ Owned(stages) = Owned(sStages) + Strings(t.stage) /\ Owned(sStages) \in Nat
    BY <2>1, <2>4, <2>5, OwnedWithOneMore
  <2>7. live = 1 + Owned(stages)
    BY <2>1, <2>4, <2>5, <2>6, StringsAreCounted
  <2>8. CASE Return(sStages, sCount, sLive)
    BY <2>5, <2>8, ReturnFrees
  <2>9. CASE Return(stages, sCount, live)
    BY <2>5, <2>6, <2>7, <2>9, ReturnFrees
  <2>10. CASE Return(stages, sCount + 1, live)
    <3>1. sCount + 1 \in Nat
      BY <2>5
    <3> QED BY <2>6, <2>7, <2>10, <3>1, ReturnFrees
  <2>11. CASE /\ sStages' = stages /\ sCount' = sCount + 1 /\ sLive' = live
              /\ sParts' = Tail(sParts) /\ UNCHANGED <<sLine, sAt, sResult>>
    <3>1. Owned(sStages)' = Owned(stages)
      BY <2>11 DEF Owned
    <3> QED BY <2>2, <2>3, <2>5, <2>6, <2>7, <2>11, <3>1 DEF ParserInv
  <2> QED BY <2>2, <2>8, <2>9, <2>10, <2>11
<1>3. CASE EndPipeline
  <2>1. /\ sStages \in Seq(Stage) /\ sCount \in Nat /\ sCount = Len(sStages)
        /\ sLive = 1 + Owned(sStages)
    BY <1>3 DEF EndPipeline, ParserInv
  <2>2. CASE Return(sStages, sCount, sLive)
    BY <2>1, <2>2, ReturnFrees
  <2>3. CASE /\ sAt' = "run" /\ sResult' = SubSeq(sStages, 1, sCount)
             /\ sLive' = sLive - 1
             /\ UNCHANGED <<sLine, sParts, sStages, sCount>>
    <3>1. Owned(sStages)' = Owned(sStages)
      BY <2>3 DEF Owned
    <3>2. Len(SubSeq(sStages, 1, sCount)) = sCount
      BY <2>1
    <3>3. Owned(sStages) \in Nat
      <4>1. sCount \in 0..Len(sStages)
        BY <2>1
      <4> QED BY <2>1, <4>1, SumStringsFacts DEF Owned
    <3> QED BY <2>1, <2>3, <3>1, <3>2, <3>3 DEF ParserInv
  <2> QED BY <1>3, <2>2, <2>3 DEF EndPipeline
<1>4. CASE FreeStages
  <2>1. /\ sStages \in Seq(Stage) /\ sLive = Owned(sStages)
        /\ sResult = << >> \/ Len(sResult) = Len(sStages)
        /\ sAt' = "done" /\ sStages' = << >>
        /\ sLine' = sLine /\ sParts' = sParts /\ sCount' = sCount
        /\ sLive' = sLive - SumStrings(sStages, freedStages(sResult, sStages))
    BY <1>4 DEF FreeStages, ParserInv
  <2>2. freedStages(sResult, sStages) = Len(sStages)
    BY <2>1 DEF freedStages
  <2>3. Owned(sStages) \in Nat
    <3>1. Len(sStages) \in 0..Len(sStages)
      BY <2>1
    <3> QED BY <2>1, <3>1, SumStringsFacts DEF Owned
  <2>4. sLive' = 0
    BY <2>1, <2>2, <2>3 DEF Owned
  <2>5. << >> \in Seq(Stage)
    OBVIOUS
  <2> QED BY <2>1, <2>4, <2>5 DEF ParserInv
<1>5. CASE UNCHANGED sVars
  BY <1>5 DEF sVars, ParserInv, Owned
<1> QED BY <1>1, <1>2, <1>3, <1>4, <1>5 DEF ShellNext

LEMMA ParserInvariant == ShellSpec => []ParserInv
BY ParserInvInit, ParserInvStep, PTL DEF ShellSpec

\* Whatever the user types, the buffer of preprocess is large enough
\* (parser.c:11-59).
THEOREM PreprocessAlwaysFits == ShellSpec => []PreprocessFits
<1>1. ParserInv => PreprocessFits
  BY PreprocessRoom DEF ParserInv, PreprocessFits
<1> QED BY ParserInvariant, <1>1, PTL

\* Whatever the user types and however parse_pipeline is left, all that it
\* allocated is freed once by the time the prompt returns.
THEOREM AllIsFreed == ShellSpec => []AllFreedAtThePrompt
<1>1. ParserInv => AllFreedAtThePrompt
  <2> SUFFICES ASSUME ParserInv PROVE sLive >= 0 /\ (sAt = "done" => sLive = 0)
    BY DEF AllFreedAtThePrompt
  <2>1. Owned(sStages) \in Nat
    <3>1. sStages \in Seq(Stage) /\ Len(sStages) \in 0..Len(sStages)
      BY DEF ParserInv
    <3> QED BY <3>1, SumStringsFacts DEF Owned
  <2> QED BY <2>1 DEF ParserInv
<1> QED BY ParserInvariant, <1>1, PTL

-----------------------------------------------------------------------------
(***************************************************************************)
(* What preprocess makes of a line: the characters of the line in their    *)
(* order, with blanks between them, so that its tokens stay (TokensStay).  *)
(***************************************************************************)

\* Where the sequences are in the one that FlattenSeq makes of them: sequence i
\* after place L[i - 1].
Places(seqs, flat, n, L) ==
  /\ L \in [0..n -> Nat] /\ L[0] = 0 /\ L[n] = Len(flat)
  /\ \A i \in 1..n : /\ L[i] = L[i - 1] + Len(seqs[i])
                     /\ \A j \in 1..Len(seqs[i]) : flat[L[i - 1] + j] = seqs[i][j]

LEMMA FlattenPlaces ==
  ASSUME NEW S, NEW seqs \in Seq(Seq(S)), NEW n, n = Len(seqs)
  PROVE  \E L : Places(seqs, FlattenSeq(seqs), n, L)
<1>1. n \in Nat /\ DOMAIN seqs = 1..n
  OBVIOUS
<1>2. CASE n = 0
  <2>1. FlattenSeq(seqs) = seqs
    BY <1>2 DEF FlattenSeq
  <2> DEFINE L == [i \in 0..n |-> 0]
  <2>2. L \in [0..n -> Nat] /\ L[0] = 0 /\ L[n] = Len(seqs)
    BY <1>2
  <2>3. \A i \in 1..n : FALSE
    BY <1>2
  <2> HIDE DEF L
  <2>4. Places(seqs, FlattenSeq(seqs), n, L)
    BY <2>1, <2>2, <2>3 DEF Places
  <2> QED BY <2>4
<1>3. CASE n # 0
  <2>1. PICK f \in [1..n -> Seq(S)] :
          /\ FlattenSeq(seqs) = f[n] /\ f[1] = seqs[1]
          /\ \A i \in 2..n : f[i] = f[i - 1] \o seqs[i]
    BY <1>3, FlattenAppends
  <2> DEFINE L == [i \in 0..n |-> IF i = 0 THEN 0 ELSE Len(f[i])]
             Holds(u, i) == \A j \in 1..Len(seqs[i]) : f[u][L[i - 1] + j] = seqs[i][j]
             Good(u) == \A i \in 1..u : L[i] <= L[u] /\ Holds(u, i)
  <2>2. L \in [0..n -> Nat] /\ L[0] = 0 /\ L[n] = Len(f[n])
    <3>1. \A i \in 1..n : Len(f[i]) \in Nat
      BY <2>1
    <3>2. \A i \in 0..n : i # 0 => i \in 1..n
      BY <1>1
    <3>3. \A i \in 0..n : L[i] \in Nat
      BY <3>1, <3>2
    <3>4. L \in [0..n -> Nat]
      BY <3>3
    <3> QED BY <1>1, <1>3, <3>4
  <2>3. \A i \in 1..n : L[i] = Len(f[i]) /\ f[i] \in Seq(S) /\ seqs[i] \in Seq(S)
    <3>1. \A i \in 1..n : i \in 0..n /\ i # 0
      BY <1>1
    <3>2. \A i \in 1..n : L[i] = Len(f[i])
      BY <3>1
    <3>3. \A i \in 1..n : seqs[i] \in Seq(S)
      BY <1>1
    <3> QED BY <3>2, <3>3
  <2> HIDE DEF L
  <2>4. ASSUME NEW u \in 2..n
        PROVE  /\ L[u] = L[u - 1] + Len(seqs[u]) /\ Holds(u, u)
               /\ \A q \in 1..L[u - 1] : f[u][q] = f[u - 1][q]
    <3>1. PICK o \in 1..n : o = u - 1 /\ u \in 1..n
      BY <1>1
    <3>2. f[o] \in Seq(S) /\ seqs[u] \in Seq(S) /\ L[o] = Len(f[o]) /\ f[u] = f[o] \o seqs[u]
      BY <2>1, <2>3, <3>1
    <3>3. PICK x, y, z : x = f[o] /\ y = seqs[u] /\ z = f[u]
      OBVIOUS
    <3>4. /\ Len(z) = Len(x) + Len(y)
          /\ \A q \in 1..(Len(x) + Len(y)) : z[q] = IF q <= Len(x) THEN x[q] ELSE y[q - Len(x)]
      BY <3>2, <3>3, ConcatProperties
    <3>5. Len(x) \in Nat /\ Len(y) \in Nat
      BY <3>2, <3>3
    <3>6. ASSUME NEW j \in 1..Len(y) PROVE z[Len(x) + j] = y[j]
      <4>1. /\ Len(x) + j \in 1..(Len(x) + Len(y)) /\ ~(Len(x) + j <= Len(x))
            /\ Len(x) + j - Len(x) = j
        BY <3>5
      <4> QED BY <3>4, <4>1
    <3>7. \A q \in 1..Len(x) : z[q] = x[q]
      BY <3>4, <3>5
    <3>8. L[u] = Len(z) /\ L[o] = Len(x)
      BY <2>3, <3>1, <3>3
    <3> QED BY <3>1, <3>3, <3>4, <3>6, <3>7, <3>8
  <2>5. L[1] = L[0] + Len(seqs[1]) /\ Good(1)
    <3>1. 1 \in 1..n /\ \A i \in 1..1 : i = 1
      BY <1>1, <1>3
    <3>2. L[1] = Len(seqs[1]) /\ Len(seqs[1]) \in Nat
      BY <2>1, <2>3, <3>1
    <3>3. Holds(1, 1)
      BY <2>1, <2>2, <3>2
    <3> HIDE DEF Holds
    <3> QED BY <2>2, <3>1, <3>2, <3>3
  <2>6. ASSUME NEW u \in 2..n, Good(u - 1) PROVE Good(u)
    <3> SUFFICES ASSUME NEW i \in 1..u PROVE L[i] <= L[u] /\ Holds(u, i)
      OBVIOUS
    <3>1. PICK o \in 1..n : o = u - 1 /\ u \in 1..n
      BY <1>1
    <3>2. L[u] = L[o] + Len(seqs[u]) /\ L[o] \in Nat /\ L[u] \in Nat /\ Len(seqs[u]) \in Nat
      BY <2>2, <2>3, <2>4, <3>1
    <3>3. CASE i = u
      BY <2>4, <3>2, <3>3, SMTT(30)
    <3>4. CASE i # u
      <4>1. i \in 1..o
        BY <3>1, <3>4
      <4>2. L[i] <= L[o] /\ Holds(o, i)
        BY <2>6, <3>1, <4>1
      <4>3. PICK h \in 0..n : h = i - 1 /\ i \in 1..n
        BY <3>1, <4>1
      <4>4. L[i] = L[h] + Len(seqs[i]) /\ L[h] \in Nat /\ L[i] \in Nat /\ Len(seqs[i]) \in Nat
        <5>1. i = 1 \/ i \in 2..n
          BY <4>3
        <5>2. CASE i = 1
          BY <2>2, <2>3, <2>5, <4>3, <5>2
        <5>3. CASE i \in 2..n
          <6>1. L[i] = L[i - 1] + Len(seqs[i])
            BY <2>4, <5>3
          <6>2. L[i] \in Nat /\ L[h] \in Nat /\ Len(seqs[i]) \in Nat /\ L[h] = L[i - 1]
            <7>1. L[i] \in Nat /\ L[h] \in Nat
              <8>1. i \in 0..n
                BY <4>3
              <8> QED BY <2>2, <8>1
            <7>2. Len(seqs[i]) \in Nat
              <8>1. seqs[i] \in Seq(S)
                BY <2>3, <4>3
              <8> QED BY <8>1
            <7>3. L[h] = L[i - 1]
              BY <4>3
            <7> QED BY <7>1, <7>2, <7>3
          <6> QED BY <6>1, <6>2
        <5> QED BY <5>1, <5>2, <5>3
      <4>5. ASSUME NEW j \in 1..Len(seqs[i]) PROVE f[u][L[i - 1] + j] = seqs[i][j]
        <5>1. L[h] + j \in 1..L[o]
          <6>1. PICK x, y, z, w : x = L[h] /\ y = L[o] /\ z = L[i] /\ w = Len(seqs[i])
            OBVIOUS
          <6>2. x \in Nat /\ y \in Nat /\ w \in Nat /\ z = x + w /\ z <= y /\ j \in 1..w
            BY <3>2, <4>2, <4>4, <6>1
          <6>3. x + j \in 1..y
            BY <6>2
          <6> QED BY <6>1, <6>3
        <5>2. f[u][L[h] + j] = f[o][L[h] + j]
          BY <2>4, <3>1, <5>1
        <5>3. f[o][L[h] + j] = seqs[i][j]
          BY <4>2, <4>3
        <5> QED BY <4>3, <5>2, <5>3
      <4>6. L[i] <= L[u]
        BY <3>2, <4>2, <4>4, SMTT(30)
      <4> QED BY <4>5, <4>6
    <3> QED BY <3>3, <3>4
  <2> HIDE DEF Good
  <2> DEFINE bad == {u \in 1..n : ~Good(u)}
  <2>7. bad = {}
    <3> SUFFICES ASSUME bad # {} PROVE FALSE
      OBVIOUS
    <3>1. bad \in SUBSET Nat
      OBVIOUS
    <3>2. PICK u \in bad : \A o \in bad : u <= o
      BY <3>1, LeastNat
    <3>3. u \in 2..n
      BY <1>1, <2>5, <3>2
    <3>4. u - 1 \in 1..n /\ ~(u <= u - 1)
      BY <1>1, <3>3
    <3> QED BY <2>6, <3>2, <3>3, <3>4
  <2>8. Good(n)
    BY <1>1, <1>3, <2>7
  <2>9. \A i \in 1..n : L[i] = L[i - 1] + Len(seqs[i])
    <3>1. \A i \in 1..n : i = 1 \/ i \in 2..n
      BY <1>1
    <3> QED BY <2>4, <2>5, <3>1
  <2>10. Places(seqs, f[n], n, L)
    BY <2>2, <2>8, <2>9 DEF Places, Good
  <2> QED BY <2>1, <2>10
<1> QED BY <1>2, <1>3

\* What preprocess makes of one character: the character with b blanks before and
\* c blanks after it.
Shape(text, s, i, b, c) ==
  /\ b \in 0..1 /\ c \in 0..1 /\ Len(s) = b + 1 + c /\ s[b + 1] = text[i]
  /\ \A j \in 1..(b + 1 + c) : j = b + 1 \/ s[j] = "b"
  /\ b = 1 <=> Redirection(text[i]) /\ i > 1 /\ ~is_special_char(text[i - 1])
  /\ c = 1 <=> /\ Redirection(text[i]) /\ ~is_special_char(CharAt(text, i + 1))
               /\ i = 1 \/ i < Len(text)

LEMMA SpreadShape ==
  ASSUME NEW text \in Text, NEW i \in 1..Len(text)
  PROVE  \E b, c : Shape(text, Spread(text, i), i, b, c)
<1>1. PICK x, f, g, b, c, before, after :
        /\ x = text[i]
        /\ f = (i > 1 /\ ~is_special_char(text[i - 1]))
        /\ g = (/\ ~is_special_char(CharAt(text, i + 1))
                /\ i = 1 \/ i < Len(text))
        /\ b = (IF Redirection(x) /\ f THEN 1 ELSE 0)
        /\ c = (IF Redirection(x) /\ g THEN 1 ELSE 0)
        /\ before = (IF f THEN <<"b">> ELSE << >>)
        /\ after = (IF g THEN <<"b">> ELSE << >>)
  OBVIOUS
<1>2. b \in 0..1 /\ c \in 0..1
  BY <1>1
<1>3. CASE ~Redirection(x)
  <2>1. Spread(text, i) = <<x>> /\ b = 0 /\ c = 0
    BY <1>1, <1>3, Zenon DEF Spread
  <2>2. Shape(text, <<x>>, i, 0, 0)
    BY <1>1, <1>3 DEF Shape
  <2> QED BY <2>1, <2>2
<1>4. CASE Redirection(x)
  <2>1. Spread(text, i) = before \o <<x>> \o after
    BY <1>1, <1>4, Zenon DEF Spread
  <2>2. PICK s : s = Spread(text, i)
    OBVIOUS
  <2>3. \/ f /\ g /\ s = <<"b">> \o <<x>> \o <<"b">>
        \/ f /\ ~g /\ s = <<"b">> \o <<x>> \o << >>
        \/ ~f /\ g /\ s = << >> \o <<x>> \o <<"b">>
        \/ ~f /\ ~g /\ s = << >> \o <<x>> \o << >>
    BY <1>1, <2>1, <2>2, Zenon
  <2>4. \/ f /\ g /\ s = <<"b", x, "b">>
        \/ f /\ ~g /\ s = <<"b", x>>
        \/ ~f /\ g /\ s = <<x, "b">>
        \/ ~f /\ ~g /\ s = <<x>>
    BY <2>3
  <2>5. /\ Len(s) = b + 1 + c /\ s[b + 1] = x
        /\ \A j \in 1..(b + 1 + c) : j = b + 1 \/ s[j] = "b"
    <3>1. CASE f /\ g
      <4>1. b = 1 /\ c = 1 /\ s = <<"b", x, "b">>
        BY <1>1, <1>4, <2>4, <3>1
      <4> QED BY <4>1
    <3>2. CASE f /\ ~g
      <4>1. b = 1 /\ c = 0 /\ s = <<"b", x>>
        BY <1>1, <1>4, <2>4, <3>2
      <4> QED BY <4>1
    <3>3. CASE ~f /\ g
      <4>1. b = 0 /\ c = 1 /\ s = <<x, "b">>
        BY <1>1, <1>4, <2>4, <3>3
      <4> QED BY <4>1
    <3>4. CASE ~f /\ ~g
      <4>1. b = 0 /\ c = 0 /\ s = <<x>>
        BY <1>1, <1>4, <2>4, <3>4
      <4> QED BY <4>1
    <3> QED BY <3>1, <3>2, <3>3, <3>4
  <2>6. b = 1 <=> Redirection(text[i]) /\ i > 1 /\ ~is_special_char(text[i - 1])
    <3>1. b = 1 <=> f
      BY <1>1, <1>4
    <3> QED BY <1>1, <1>4, <3>1, Zenon
  <2>7. c = 1 <=> /\ Redirection(text[i]) /\ ~is_special_char(CharAt(text, i + 1))
                  /\ i = 1 \/ i < Len(text)
    <3>1. c = 1 <=> g
      BY <1>1, <1>4
    <3> QED BY <1>1, <1>4, <3>1, Zenon
  <2> QED BY <1>1, <1>2, <2>2, <2>5, <2>6, <2>7 DEF Shape
<1> QED BY <1>3, <1>4

\* How the line is in what preprocess makes of it: character i is at place F[i], all
\* else is blanks, and those are between characters of different lexemes.
Embeds(F, line, N, proc, P) ==
  /\ F \in [1..N -> 1..P] /\ \A i \in 1..N : proc[F[i]] = line[i]
  /\ \A i, j \in 1..N : i < j => F[i] < F[j]
  /\ \A i \in 2..N : F[i] = F[i - 1] + 1 \/ Lexeme(line[i]) # Lexeme(line[i - 1])
  /\ \A q \in 1..P : proc[q] = "b" \/ \E i \in 1..N : F[i] = q

\* A redirection has only redirections and blanks around it.
Spaced(proc, P) ==
  \A q, r \in 1..P : r = q + 1 =>
    /\ Redirection(proc[q]) => Redirection(proc[r]) \/ proc[r] \in {"b", "n"}
    /\ Redirection(proc[r]) => Redirection(proc[q]) \/ proc[q] \in {"b", "n"}
SameEnds(line, N, proc, P) ==
  /\ N = 0 <=> P = 0
  /\ N # 0 => proc[1] = line[1] /\ (proc[P] = "|" <=> line[N] = "|")

LEMMA PreprocessEmbeds ==
  ASSUME NEW line \in Text, NEW N, N = Len(line),
         NEW proc, proc = preprocess(line), NEW P, P = Len(proc)
  PROVE  /\ N \in Nat /\ P \in Nat /\ proc \in Text
         /\ \E F : Embeds(F, line, N, proc, P)
         /\ Spaced(proc, P) /\ SameEnds(line, N, proc, P)
<1> DEFINE seqs == [u \in DOMAIN line |-> Spread(line, u)]
<1>1. N \in Nat /\ DOMAIN line = 1..N /\ \A i \in 1..N : line[i] \in Chars
  BY DEF Text
<1>2. seqs \in Seq(Seq(Chars)) /\ Len(seqs) = N /\ \A u \in 1..N : seqs[u] = Spread(line, u)
  <2>1. \A u \in 1..N : Spread(line, u) \in Text
    BY SpreadRoom
  <2>2. seqs \in [1..N -> Text]
    BY <1>1, <2>1
  <2>3. seqs \in Seq(Text)
    BY <1>1, <2>2, SeqDef
  <2> QED BY <1>1, <2>2, <2>3, LenProperties DEF Text
<1>3. proc = FlattenSeq(seqs) /\ proc \in Text
  BY PreprocessRoom DEF preprocess
<1> HIDE DEF seqs
<1>5. P \in Nat
  BY <1>3 DEF Text
<1>6. PICK L : Places(seqs, proc, N, L)
  BY <1>2, <1>3, FlattenPlaces
<1> DEFINE B(i) == CHOOSE b : \E c : Shape(line, seqs[i], i, b, c)
           b == [i \in 1..N |-> B(i)]
           C(i) == CHOOSE c : Shape(line, seqs[i], i, B(i), c)
           c == [i \in 1..N |-> C(i)]
           F == [i \in 1..N |-> L[i - 1] + b[i] + 1]
<1>7. ASSUME NEW i \in 1..N PROVE Shape(line, seqs[i], i, b[i], c[i])
  <2>1. \E x, y : Shape(line, seqs[i], i, x, y)
    BY <1>2, SpreadShape
  <2>2. \E y : Shape(line, seqs[i], i, B(i), y)
    BY <2>1, Zenon
  <2>3. Shape(line, seqs[i], i, B(i), C(i))
    BY <2>2, Zenon
  <2> HIDE DEF B, C
  <2> QED BY <2>3
<1> HIDE DEF b, c
<1>8. ASSUME NEW i \in 1..N
      PROVE  /\ b[i] \in 0..1 /\ c[i] \in 0..1 /\ L[i - 1] \in Nat /\ L[i] \in Nat
             /\ F[i] = L[i - 1] + b[i] + 1 /\ L[i] = F[i] + c[i]
             /\ proc[F[i]] = line[i]
             /\ \A q \in (L[i - 1] + 1)..L[i] : q = F[i] \/ proc[q] = "b"
  <2>1. PICK x, y, l, h : x = b[i] /\ y = c[i] /\ l = L[i - 1] /\ h = L[i]
    OBVIOUS
  <2>2. PICK s : s = seqs[i]
    OBVIOUS
  <2>3. x \in 0..1 /\ y \in 0..1 /\ Len(s) = x + 1 + y /\ s[x + 1] = line[i]
        /\ \A j \in 1..(x + 1 + y) : j = x + 1 \/ s[j] = "b"
    BY <1>7, <2>1, <2>2 DEF Shape
  <2>4. i - 1 \in 0..N /\ i \in 0..N
    BY <1>1
  <2>5. l \in Nat /\ h = l + (x + 1 + y) /\ \A j \in 1..(x + 1 + y) : proc[l + j] = s[j]
    BY <1>6, <2>1, <2>2, <2>3, <2>4 DEF Places
  <2>6. F[i] = l + x + 1 /\ l + x + 1 = l + (x + 1) /\ x + 1 \in 1..(x + 1 + y)
    <3>1. F[i] = L[i - 1] + b[i] + 1
      OBVIOUS
    <3> HIDE DEF F
    <3>2. F[i] = l + x + 1
      BY <2>1, <3>1
    <3>3. l + x + 1 = l + (x + 1) /\ x + 1 \in 1..(x + 1 + y)
      BY <2>3, <2>5
    <3> QED BY <3>2, <3>3
  <2>7. ASSUME NEW q \in (l + 1)..h PROVE q = l + x + 1 \/ proc[q] = "b"
    <3>1. q - l \in 1..(x + 1 + y) /\ l + (q - l) = q
      BY <2>3, <2>5
    <3>2. q - l = x + 1 => q = l + x + 1
      BY <2>3, <2>5
    <3> QED BY <2>3, <2>5, <3>1, <3>2
  <2>8. proc[F[i]] = line[i]
    BY <2>3, <2>5, <2>6
  <2>9. h \in Nat /\ h = l + x + 1 + y
    BY <2>3, <2>5
  <2> QED BY <2>1, <2>3, <2>5, <2>6, <2>7, <2>8, <2>9
<1>9. DOMAIN F = 1..N
  OBVIOUS
<1> HIDE DEF F
<1>10. L[0] = 0 /\ L[N] = P
  BY <1>6 DEF Places
<1>11. ASSUME NEW i \in 1..N PROVE L[i - 1] < F[i] /\ F[i] <= L[i]
  <2>1. PICK x, y, l, h, f : x = b[i] /\ y = c[i] /\ l = L[i - 1] /\ h = L[i] /\ f = F[i]
    OBVIOUS
  <2>2. x \in 0..1 /\ y \in 0..1 /\ l \in Nat /\ f = l + x + 1 /\ h = f + y
    BY <1>8, <2>1
  <2>3. l < f /\ f <= h
    BY <2>2
  <2> QED BY <2>1, <2>3
<1>12. \A i, j \in 0..N : i <= j => L[i] <= L[j]
  <2> DEFINE bad == {j \in 0..N : \E i \in 0..j : ~(L[i] <= L[j])}
  <2>1. bad = {}
    <3> SUFFICES ASSUME bad # {} PROVE FALSE
      OBVIOUS
    <3>1. bad \in SUBSET Nat
      OBVIOUS
    <3>2. PICK j \in bad : \A o \in bad : j <= o
      BY <3>1, LeastNat
    <3>3. PICK i \in 0..j : ~(L[i] <= L[j])
      OBVIOUS
    <3>4. \A o \in 0..N : L[o] \in Nat
      BY <1>6 DEF Places
    <3>5. i # j /\ j \in 1..N
      BY <1>1, <3>3, <3>4
    <3>6. PICK o \in 0..N : o = j - 1 /\ i \in 0..o /\ ~(j <= o)
      BY <3>5
    <3>7. L[i] <= L[o]
      BY <3>2, <3>6
    <3>8. L[o] < F[j] /\ F[j] <= L[j] /\ F[j] \in Int
      <4>1. F[j] = L[o] + b[j] + 1 /\ b[j] \in 0..1 /\ L[o] \in Nat
        BY <1>8, <3>5, <3>6
      <4>2. F[j] \in Int
        BY <4>1
      <4> QED BY <1>11, <3>5, <3>6, <4>2
    <3>9. L[o] \in Nat /\ L[j] \in Nat /\ L[i] \in Nat
      BY <3>4, <3>5, <3>6
    <3> QED BY <3>3, <3>7, <3>8, <3>9
  <2> QED BY <2>1
<1>13. \A i \in 1..N : F[i] \in 1..P
  <2>1. ASSUME NEW i \in 1..N PROVE F[i] \in 1..P
    <3>1. i \in 0..N /\ N \in 0..N /\ i <= N
      BY <1>1
    <3>2. L[i] <= P
      BY <1>10, <1>12, <3>1
    <3>3. PICK x, y, l, h, f : x = b[i] /\ y = c[i] /\ l = L[i - 1] /\ h = L[i] /\ f = F[i]
      OBVIOUS
    <3>4. x \in 0..1 /\ y \in 0..1 /\ l \in Nat /\ f = l + x + 1 /\ h = f + y /\ h <= P
      BY <1>8, <3>2, <3>3
    <3>5. f \in 1..P
      BY <1>5, <3>4
    <3> QED BY <3>3, <3>5
  <2> QED BY <2>1
<1>14. ASSUME NEW i \in 1..N, NEW j \in 1..N, i < j PROVE F[i] < F[j]
  <2>1. PICK o \in 0..N : o = j - 1 /\ i <= o /\ i \in 0..N
    BY <1>1, <1>14
  <2>2. L[i] <= L[o] /\ F[i] <= L[i] /\ L[o] < F[j]
    BY <1>11, <1>12, <2>1
  <2>3. F[i] \in Int /\ F[j] \in Int /\ L[i] \in Int /\ L[o] \in Int
    BY <1>8, <1>13, <2>1
  <2> QED BY <2>2, <2>3
<1>15. ASSUME NEW q \in 1..P PROVE \E i \in 1..N : L[i - 1] < q /\ q <= L[i]
  <2> DEFINE upto == {i \in 0..N : q <= L[i]}
  <2>1. upto \in SUBSET Nat /\ N \in upto
    BY <1>1, <1>10
  <2>2. PICK i \in upto : \A j \in upto : i <= j
    BY <2>1, LeastNat
  <2>3. i \in 1..N /\ q <= L[i]
    BY <1>1, <1>10, <2>2
  <2>4. i - 1 \in 0..N /\ ~(i <= i - 1)
    BY <2>3
  <2>5. ~(q <= L[i - 1]) /\ L[i - 1] \in Nat
    BY <1>8, <2>2, <2>3, <2>4
  <2>6. L[i - 1] < q
    BY <2>5
  <2> QED BY <2>3, <2>6
<1>16. ASSUME NEW q \in 1..P PROVE proc[q] = "b" \/ \E i \in 1..N : F[i] = q
  <2>1. PICK i \in 1..N : L[i - 1] < q /\ q <= L[i]
    BY <1>15
  <2>2. q \in (L[i - 1] + 1)..L[i]
    BY <1>8, <2>1
  <2> QED BY <1>8, <2>2
<1>17. ASSUME NEW i \in 2..N
       PROVE  /\ F[i] = F[i - 1] + 1 + c[i - 1] + b[i]
              /\ b[i] \in 0..1 /\ c[i - 1] \in 0..1 /\ i - 1 \in 1..N
              /\ b[i] = 1 <=> Redirection(line[i]) /\ ~is_special_char(line[i - 1])
              /\ c[i - 1] = 1 <=> Redirection(line[i - 1]) /\ ~is_special_char(line[i])
  <2>1. PICK o \in 1..N : o = i - 1 /\ o + 1 = i /\ i \in 1..N /\ i > 1 /\ (o = 1 \/ o < N)
    BY <1>1
  <2>2. CharAt(line, o + 1) = line[i]
    BY <1>1, <2>1 DEF CharAt
  <2>3. Shape(line, seqs[i], i, b[i], c[i]) /\ Shape(line, seqs[o], o, b[o], c[o])
    BY <1>7, <2>1
  <2>4. b[i] = 1 <=> Redirection(line[i]) /\ ~is_special_char(line[i - 1])
    BY <2>1, <2>3 DEF Shape
  <2>5. c[o] = 1 <=> Redirection(line[o]) /\ ~is_special_char(line[i])
    BY <2>1, <2>2, <2>3 DEF Shape
  <2>6. F[i] = L[o] + b[i] + 1 /\ L[o] = F[o] + c[o] /\ b[i] \in 0..1 /\ c[o] \in 0..1
    BY <1>8, <2>1
  <2>7. F[o] \in Int
    BY <1>13
  <2> QED BY <2>1, <2>4, <2>5, <2>6, <2>7
<1>18. ASSUME NEW i \in 2..N
       PROVE  F[i] = F[i - 1] + 1 \/ Lexeme(line[i]) # Lexeme(line[i - 1])
  <2>1. PICK o \in 1..N : o = i - 1 /\ i \in 1..N
    BY <1>1
  <2>2. F[o] \in Int /\ F[i] \in Int
    BY <1>13, <2>1
  <2>3. b[i] = 0 /\ c[o] = 0 => F[i] = F[o] + 1
    BY <1>17, <2>1, <2>2
  <2>4. \/ b[i] = 0 /\ c[o] = 0
        \/ Redirection(line[i]) /\ ~is_special_char(line[o])
        \/ Redirection(line[o]) /\ ~is_special_char(line[i])
    BY <1>17, <2>1
  <2>5. line[i] \in Chars /\ line[o] \in Chars
    BY <1>1, <2>1
  <2>6. ASSUME NEW x \in Chars, NEW y \in Chars, Redirection(x), ~is_special_char(y)
        PROVE  Lexeme(x) = "redirection" /\ Lexeme(y) # "redirection"
    BY <2>6 DEF Lexeme, Redirection, is_special_char, Chars
  <2>7. \/ b[i] = 0 /\ c[o] = 0 
        \/ Lexeme(line[i]) # Lexeme(line[o])
    BY <2>4, <2>5, <2>6, Zenon
  <2> QED BY <2>1, <2>3, <2>7
<1>19. Embeds(F, line, N, proc, P)
  <2>1. F \in [1..N -> 1..P]
    <3>1. F = [i \in 1..N |-> F[i]]
      BY DEF F
    <3> QED BY <1>13, <3>1
  <2>2. \A i \in 1..N : proc[F[i]] = line[i]
    BY <1>8
  <2> QED BY <1>14, <1>16, <1>18, <2>1, <2>2, Zenon DEF Embeds
<1>20. Spaced(proc, P)
  <2> SUFFICES ASSUME NEW q \in 1..P, NEW r \in 1..P, r = q + 1
               PROVE  /\ Redirection(proc[q]) => Redirection(proc[r]) \/ proc[r] \in {"b", "n"}
                      /\ Redirection(proc[r]) => Redirection(proc[q]) \/ proc[q] \in {"b", "n"}
    BY DEF Spaced
  <2>1. CASE proc[q] = "b" \/ proc[r] = "b"
    BY <2>1 DEF Redirection
  <2>2. CASE ~(proc[q] = "b" \/ proc[r] = "b")
    <3>1. PICK i \in 1..N, j \in 1..N : F[i] = q /\ F[j] = r
      BY <1>16, <2>2
    <3>2. i < j
      <4>1. ~(j < i) /\ i # j
        BY <1>14, <3>1
      <4> QED BY <4>1
    <3>3. j = i + 1
      <4> SUFFICES ASSUME j # i + 1 PROVE FALSE
        OBVIOUS
      <4>1. i + 1 \in 1..N /\ i < i + 1 /\ i + 1 < j
        BY <3>2
      <4>2. F[i] < F[i + 1] /\ F[i + 1] < F[j] /\ F[i + 1] \in Int
        BY <1>13, <1>14, <4>1
      <4> QED BY <3>1, <4>2
    <3>4. j \in 2..N /\ i = j - 1
      BY <3>3
    <3>5. b[j] = 0 /\ c[i] = 0
      <4>1. F[j] = F[i] + 1 + c[i] + b[j] /\ b[j] \in 0..1 /\ c[i] \in 0..1
        BY <1>17, <3>4
      <4> QED BY <3>1, <4>1
    <3>6. /\ Redirection(line[j]) => is_special_char(line[i])
          /\ Redirection(line[i]) => is_special_char(line[j])
      BY <1>17, <3>4, <3>5
    <3>7. line[i] = proc[q] /\ line[j] = proc[r]
      BY <1>8, <3>1
    <3> QED BY <3>6, <3>7 DEF is_special_char, Redirection
  <2> QED BY <2>1, <2>2
<1>21. SameEnds(line, N, proc, P)
  <2>1. CASE N = 0
    <3>1. P = 0
      BY <1>10, <2>1
    <3> QED BY <2>1, <3>1 DEF SameEnds
  <2>2. CASE N # 0
    <3>1. 1 \in 1..N /\ N \in 1..N
      BY <1>1, <2>2
    <3>2. b[1] = 0
      <4>1. b[1] \in 0..1 /\ b[1] # 1
        BY <1>7, <3>1 DEF Shape
      <4> QED BY <4>1
    <3>3. F[1] = 1 /\ proc[1] = line[1]
      <4>1. F[1] = L[1 - 1] + b[1] + 1 /\ proc[F[1]] = line[1]
        BY <1>8, <3>1
      <4>2. 1 - 1 = 0
        OBVIOUS
      <4> QED BY <1>10, <3>2, <4>1, <4>2
    <3>4. P = F[N] + c[N] /\ c[N] \in 0..1 /\ F[N] \in 1..P /\ proc[F[N]] = line[N]
      BY <1>8, <1>10, <1>13, <3>1
    <3>5. c[N] = 1 => Redirection(line[N]) /\ proc[P] = "b"
      <4>1. c[N] = 1 => Redirection(line[N])
        BY <1>7, <3>1 DEF Shape
      <4>2. P \in (L[N - 1] + 1)..L[N]
        <5>1. L[N - 1] \in Nat /\ L[N - 1] < F[N] /\ L[N] = P
          BY <1>8, <1>10, <1>11, <3>1
        <5> QED BY <3>4, <5>1
      <4>3. P = F[N] \/ proc[P] = "b"
        BY <1>8, <3>1, <4>2
      <4>4. c[N] = 1 => P # F[N]
        BY <3>4
      <4> QED BY <4>1, <4>3, <4>4
    <3>6. c[N] = 0 => P = F[N]
      BY <3>4
    <3>7. proc[P] = "|" <=> line[N] = "|"
      <4>1. CASE c[N] = 0
        BY <3>4, <3>6, <4>1
      <4>2. CASE c[N] = 1
        BY <3>5, <4>2 DEF Redirection
      <4> QED BY <3>4, <4>1, <4>2
    <3>8. P # 0
      BY <3>4
    <3> QED BY <2>2, <3>3, <3>7, <3>8 DEF SameEnds
  <2> QED BY <2>1, <2>2
<1> QED BY <1>1, <1>3, <1>5, <1>19, <1>20, <1>21

SameAt(s, x, y, t, u, v) ==
  /\ s \in Seq(Chars) /\ t \in Seq(Chars)
  /\ x \in 1..Len(s) /\ y \in x..Len(s) /\ u \in 1..Len(t) /\ v \in u..Len(t)
  /\ y - x = v - u /\ \A d \in 0..(y - x) : s[x + d] = t[u + d]

Cut(s, x, y) == SubSeq(s, x, y)

LEMMA SameCut ==
  ASSUME NEW s, NEW t, NEW x, NEW y, NEW u, NEW v, SameAt(s, x, y, t, u, v)
  PROVE  Cut(s, x, y) = Cut(t, u, v)
<1> DEFINE S == Chars
<1>a. /\ s \in Seq(S) /\ t \in Seq(S)
      /\ x \in 1..Len(s) /\ y \in x..Len(s) /\ u \in 1..Len(t) /\ v \in u..Len(t)
      /\ y - x = v - u /\ \A d \in 0..(y - x) : s[x + d] = t[u + d]
  BY DEF SameAt
<1>1. x \in Int /\ y \in Int /\ u \in Int /\ v \in Int /\ x <= y /\ u <= v /\ y - x = v - u
  BY <1>a
<1>2. \A i \in x..y : s[i] \in S
  <2>1. \A i \in x..y : i \in 1..Len(s)
    BY <1>a
  <2> QED BY <1>a, <2>1
<1>3. \A i \in u..v : t[i] \in S
  <2>1. \A i \in u..v : i \in 1..Len(t)
    BY <1>a
  <2> QED BY <1>a, <2>1
<1>4. PICK p, q : p = SubSeq(s, x, y) /\ q = SubSeq(t, u, v)
  OBVIOUS
<1>5. p \in Seq(S) /\ Len(p) = y - x + 1 /\ \A i \in 1..(y - x + 1) : p[i] = s[x + i - 1]
  BY <1>1, <1>2, <1>4, SubSeqProperties
<1>6. q \in Seq(S) /\ Len(q) = v - u + 1 /\ \A i \in 1..(v - u + 1) : q[i] = t[u + i - 1]
  BY <1>1, <1>3, <1>4, SubSeqProperties
<1>7. ASSUME NEW i \in 1..(y - x + 1) PROVE p[i] = q[i]
  <2>1. i - 1 \in 0..(y - x) /\ x + (i - 1) = x + i - 1 /\ u + (i - 1) = u + i - 1
        /\ i \in 1..(v - u + 1)
    BY <1>1
  <2>2. s[x + i - 1] = t[u + i - 1]
    BY <1>a, <2>1
  <2> QED BY <1>5, <1>6, <2>1, <2>2
<1>8. Len(p) = Len(q)
  BY <1>1, <1>5, <1>6
<1>9. p = q
  BY <1>5, <1>6, <1>7, <1>8, SeqEqual
<1> QED BY <1>4, <1>9 DEF Cut

\* The tokens of a line, where they are in a text.
Placed(T, text, P, a, e, m) ==
  /\ IsRuns(Lexemes(text), P, "blank", a, e, m)
  /\ T = [n \in 1..m |-> SubSeq(text, a[n], e[n])]

LEMMA TokensPlaced ==
  ASSUME NEW text \in Text, NEW P, P = Len(text)
  PROVE  \E a, e, m : Placed(Tokens(text), text, P, a, e, m)
<1>1. P \in Nat /\ Len(Lexemes(text)) = P /\ DOMAIN Lexemes(text) = 1..P
  BY DEF Text, Lexemes
<1>2. PICK m, a, e : IsRuns(Lexemes(text), P, "blank", a, e, m)
  BY <1>1, RunsExist
<1>3. Tokens(text) = [n \in 1..m |-> SubSeq(text, a[n], e[n])]
  <2>1. Runs(text, Lexemes(text), "blank") = [n \in 1..m |-> SubSeq(text, a[n], e[n])]
    BY <1>1, <1>2, RunsAre
  <2> QED BY <2>1 DEF Tokens
<1>4. Placed(Tokens(text), text, P, a, e, m)
  BY <1>2, <1>3 DEF Placed
<1> QED BY <1>4

\* preprocess changes no token.
LEMMA TokensStay ==
  ASSUME NEW line \in Text, NEW N, N = Len(line), NEW proc \in Text, NEW P, P = Len(proc),
         NEW F, Embeds(F, line, N, proc, P), SameEnds(line, N, proc, P)
  PROVE  \E a, e, m : Placed(Tokens(line), proc, P, a, e, m)
<1>1. PICK a, e, m : Placed(Tokens(line), line, N, a, e, m)
  BY TokensPlaced
<1>2. PICK k, l : k = Lexemes(line) /\ l = Lexemes(proc)
  OBVIOUS
<1>3. /\ N \in Nat /\ \A i \in 1..N : k[i] = Lexeme(line[i])
      /\ P \in Nat /\ \A i \in 1..P : l[i] = Lexeme(proc[i])
  BY <1>2 DEF Text, Lexemes
<1>4. /\ m \in Nat /\ a \in [1..m -> 1..N] /\ e \in [1..m -> 1..N]
      /\ \A n \in 1..m : RunAt(k, N, "blank", a[n], e[n])
      /\ \A n, o \in 1..m : n < o => e[n] < a[o]
      /\ Covered(k, N, "blank", a, e, m)
  BY <1>1, <1>2 DEF Placed, IsRuns
<1>5. /\ F \in [1..N -> 1..P] /\ \A i, j \in 1..N : i < j => F[i] < F[j]
      /\ \A i \in 2..N : F[i] = F[i - 1] + 1 \/ k[i] # k[i - 1]
  <2>1. \A i \in 2..N : i \in 1..N /\ i - 1 \in 1..N
    BY <1>3
  <2> QED BY <1>3, <2>1 DEF Embeds
<1>a. \A i \in 1..N : F[i] \in 1..P /\ F[i] \in Int
  BY <1>5
<1>6. /\ \A i \in 1..N : proc[F[i]] = line[i] /\ l[F[i]] = k[i]
      /\ \A q \in 1..P : l[q] = "blank" \/ \E i \in 1..N : F[i] = q
  <2>1. \A i \in 1..N : proc[F[i]] = line[i] /\ F[i] \in 1..P
    BY DEF Embeds
  <2>2. \A q \in 1..P : proc[q] = "b" \/ \E i \in 1..N : F[i] = q
    BY DEF Embeds
  <2>3. Lexeme("b") = "blank"
    BY DEF Lexeme, Redirection
  <2> QED BY <1>3, <2>1, <2>2, <2>3
<1> DEFINE A == [n \in 1..m |-> F[a[n]]]
           E == [n \in 1..m |-> F[e[n]]]
<1>7. ASSUME NEW x \in 1..N, NEW y \in x..N, \A i \in x..y : k[i] = k[x]
      PROVE  \A i \in x..y : F[i] = F[x] + (i - x)
  <2> DEFINE bad == {i \in x..y : ~(F[i] = F[x] + (i - x))}
  <2> SUFFICES ASSUME bad # {} PROVE FALSE
    OBVIOUS
  <2>1. bad \in SUBSET Nat
    BY <1>3
  <2>2. PICK i \in bad : \A j \in bad : i <= j
    BY <2>1, LeastNat
  <2>3. i \in x..y /\ F[i] # F[x] + (i - x)
    OBVIOUS
  <2>4. F[x] \in Int
    BY <1>5, SMTT(30)
  <2>5. i # x
    BY <2>3, <2>4
  <2>6. PICK o \in 1..N : o = i - 1 /\ i \in 2..N /\ o \in x..y /\ ~(i <= o)
    BY <1>3, <2>3, <2>5
  <2>7. F[o] = F[x] + (o - x)
    BY <2>2, <2>6
  <2>8. F[i] = F[o] + 1
    BY <1>5, <1>7, <2>3, <2>6
  <2>9. F[x] + (o - x) + 1 = F[x] + (i - x)
    BY <2>4, <2>6
  <2> QED BY <2>3, <2>7, <2>8, <2>9
<1>8. \A i, j \in 1..N : i <= j => F[i] <= F[j]
  <2>1. ASSUME NEW i \in 1..N, NEW j \in 1..N, i <= j PROVE F[i] <= F[j]
    <3>1. F[i] \in Int /\ F[j] \in Int
      BY <1>5
    <3>2. i = j \/ i < j
      BY <2>1
    <3> QED BY <1>5, <3>1, <3>2
  <2> QED BY <2>1
<1>9. ASSUME NEW n \in 1..m
      PROVE  /\ RunAt(l, P, "blank", A[n], E[n])
             /\ SubSeq(line, a[n], e[n]) = SubSeq(proc, A[n], E[n])
  <2>1. PICK x \in 1..N, y \in 1..N, u \in 1..P, v \in 1..P :
          x = a[n] /\ y = e[n] /\ u = F[x] /\ v = F[y] /\ A[n] = u /\ E[n] = v
    BY <1>4, <1>5
  <2>2. /\ x <= y /\ k[x] # "blank" /\ \A i \in x..y : k[i] = k[x]
        /\ x = 1 \/ k[x - 1] # k[x]
        /\ y = N \/ k[y + 1] # k[x]
    BY <1>4, <2>1 DEF RunAt
  <2>3. \A i \in x..y : F[i] = u + (i - x)
    <3>1. y \in x..N
      BY <2>2
    <3>2. \A i \in x..y : F[i] = F[x] + (i - x)
      BY <1>7, <2>2, <3>1
    <3> QED BY <2>1, <3>2
  <2>4. v = u + (y - x) /\ u <= v
    <3>1. y \in x..y
      BY <2>2
    <3>2. v = u + (y - x)
      BY <2>1, <2>3, <3>1
    <3> QED BY <2>2, <3>2
  <2>5. l[u] = k[x] /\ l[u] # "blank"
    BY <1>6, <2>1, <2>2
  <2>6. ASSUME NEW q \in u..v PROVE l[q] = l[u]
    <3>1. PICK i \in x..y : i = x + (q - u)
      BY <2>4
    <3>2. i \in 1..N /\ u + (i - x) = q
      BY <3>1
    <3>3. l[F[i]] = k[i] /\ F[i] = q
      BY <1>6, <2>3, <3>2
    <3> QED BY <2>2, <2>5, <3>3
  <2>7. u = 1 \/ l[u - 1] # l[u]
    <3> SUFFICES ASSUME u # 1, l[u - 1] = l[u] PROVE FALSE
      OBVIOUS
    <3>1. u - 1 \in 1..P
      OBVIOUS
    <3>2. PICK j \in 1..N : F[j] = u - 1
      BY <1>6, <2>5, <3>1
    <3>3. j < x
      <4>1. ~(x <= j)
        BY <1>8, <2>1, <3>2
      <4> QED BY <4>1
    <3>4. x - 1 \in 1..N /\ j <= x - 1 /\ x - 1 < x
      BY <3>3
    <3>5. F[j] <= F[x - 1] /\ F[x - 1] < F[x] /\ F[x - 1] \in Int
      BY <1>5, <1>8, <3>4
    <3>6. F[x - 1] = u - 1
      BY <2>1, <3>2, <3>5
    <3>7. l[u - 1] = k[x - 1]
      BY <1>6, <3>4, <3>6
    <3> QED BY <2>2, <2>5, <3>3, <3>7
  <2>8. v = P \/ l[v + 1] # l[u]
    <3> SUFFICES ASSUME v # P, l[v + 1] = l[u] PROVE FALSE
      OBVIOUS
    <3>1. v + 1 \in 1..P
      BY <1>3
    <3>2. PICK j \in 1..N : F[j] = v + 1
      BY <1>6, <2>5, <3>1
    <3>3. y < j
      <4>1. ~(j <= y)
        BY <1>8, <2>1, <3>2
      <4> QED BY <4>1
    <3>4. y + 1 \in 1..N /\ y + 1 <= j /\ y < y + 1
      BY <3>3
    <3>a. PICK z \in 1..N : z = y + 1
      BY <3>4
    <3>b. y < z /\ z <= j
      BY <3>4, <3>a
    <3>c. F[z] <= F[j]
      BY <1>8, <3>b
    <3>d. F[y] < F[z]
      BY <1>5, <3>b
    <3>e. F[z] \in Int
      BY <1>a
    <3>5. F[z] <= F[j] /\ F[y] < F[z] /\ F[z] \in Int
      BY <3>c, <3>d, <3>e
    <3>6. F[z] = v + 1
      BY <2>1, <3>2, <3>5
    <3>7. l[v + 1] = k[y + 1]
      BY <1>6, <3>6, <3>a
    <3> QED BY <2>2, <2>5, <3>3, <3>7
  <2>9. SubSeq(line, x, y) = SubSeq(proc, u, v)
    <3>1. ASSUME NEW d \in 0..(y - x) PROVE line[x + d] = proc[u + d]
      <4>1. PICK i \in x..y : i = x + d
        BY <2>2
      <4>2. i \in 1..N /\ u + (i - x) = u + d
        BY <4>1
      <4>3. F[i] = u + d /\ proc[F[i]] = line[i]
        BY <1>6, <2>3, <4>2
      <4> QED BY <4>1, <4>3
    <3>2. y - x = v - u /\ y \in x..N /\ v \in u..P
      BY <2>2, <2>4
    <3>3. line \in Seq(Chars) /\ proc \in Seq(Chars)
      BY DEF Text
    <3>4. x \in 1..Len(line) /\ y \in x..Len(line) /\ u \in 1..Len(proc) /\ v \in u..Len(proc)
      BY <2>1, <3>2
    <3>5. \A d \in 0..(y - x) : line[x + d] = proc[u + d]
      BY <3>1
    <3>6. SameAt(line, x, y, proc, u, v)
      BY <3>2, <3>3, <3>4, <3>5 DEF SameAt
    <3>7. Cut(line, x, y) = Cut(proc, u, v)
      BY <3>6, SameCut
    <3> QED BY <3>7 DEF Cut
  <2>10. RunAt(l, P, "blank", u, v)
    BY <2>4, <2>5, <2>6, <2>7, <2>8 DEF RunAt
  <2> QED BY <2>1, <2>9, <2>10
<1>10. A \in [1..m -> 1..P] /\ E \in [1..m -> 1..P]
  BY <1>4, <1>5
<1>11. \A n, o \in 1..m : n < o => E[n] < A[o]
  BY <1>4, <1>5
<1>12. Covered(l, P, "blank", A, E, m)
  <2> SUFFICES ASSUME NEW q \in 1..P, l[q] # "blank"
               PROVE  \E n \in 1..m : A[n] <= q /\ q <= E[n]
    BY DEF Covered
  <2>1. PICK i \in 1..N : F[i] = q
    BY <1>6
  <2>2. PICK n \in 1..m : a[n] <= i /\ i <= e[n]
    BY <1>4, <1>6, <2>1 DEF Covered
  <2>3. F[a[n]] <= q /\ q <= F[e[n]]
    BY <1>4, <1>8, <2>1, <2>2
  <2> QED BY <2>3
<1>13. Tokens(line) = [n \in 1..m |-> SubSeq(proc, A[n], E[n])]
  <2>1. Tokens(line) = [n \in 1..m |-> SubSeq(line, a[n], e[n])]
    BY <1>1 DEF Placed
  <2> HIDE DEF A, E
  <2> QED BY <1>9, <2>1
<1> HIDE DEF A, E
<1>14. IsRuns(l, P, "blank", A, E, m)
  BY <1>4, <1>9, <1>10, <1>11, <1>12 DEF IsRuns
<1>15. Placed(Tokens(line), proc, P, A, E, m)
  BY <1>2, <1>13, <1>14 DEF Placed
<1> QED BY <1>15

-----------------------------------------------------------------------------
(***************************************************************************)
(* Cutting the line at its pipes and then at its blanks gives its tokens   *)
(* between two pipes, pipe by pipe (PiecesExist).                          *)
(***************************************************************************)

LEMMA LexemeIs ==
  ASSUME NEW c \in Chars
  PROVE  /\ Lexeme(c) = "blank" <=> c \in {"b", "n"}
         /\ Lexeme(c) = "pipe" <=> c = "|"
         /\ Lexeme(c) = "redirection" <=> Redirection(c)
         /\ Lexeme(c) \in {"blank", "pipe", "redirection", "word"}
BY DEF Lexeme, Redirection, Chars

\* A token, where it is in its text: its characters are of one lexeme.
LEMMA TokenAt ==
  ASSUME NEW text \in Text, NEW P, P = Len(text), NEW T, NEW a, NEW e, NEW m,
         Placed(T, text, P, a, e, m), NEW n \in 1..m
  PROVE  /\ a[n] \in 1..P /\ e[n] \in 1..P /\ a[n] <= e[n]
         /\ T[n] = Cut(text, a[n], e[n]) /\ T[n] \in Text /\ T[n] # << >>
         /\ T[n][1] = text[a[n]]
         /\ \A i \in a[n]..e[n] : i \in 1..P /\ Lexeme(text[i]) = Lexeme(text[a[n]])
         /\ Lexeme(text[a[n]]) # "blank"
         /\ a[n] = 1 \/ Lexeme(text[a[n] - 1]) # Lexeme(text[a[n]])
         /\ e[n] = P \/ Lexeme(text[e[n] + 1]) # Lexeme(text[a[n]])
<1>1. P \in Nat /\ \A i \in 1..P : Lexemes(text)[i] = Lexeme(text[i]) /\ text[i] \in Chars
  BY DEF Text, Lexemes
<1>2. RunAt(Lexemes(text), P, "blank", a[n], e[n])
  BY DEF Placed, IsRuns
<1>3. PICK x, y : x = a[n] /\ y = e[n]
  OBVIOUS
<1>4. /\ x \in 1..P /\ y \in 1..P /\ x <= y /\ \A i \in x..y : i \in 1..P
      /\ \A i \in x..y : Lexemes(text)[i] = Lexemes(text)[x]
      /\ Lexemes(text)[x] # "blank"
      /\ x = 1 \/ Lexemes(text)[x - 1] # Lexemes(text)[x]
      /\ y = P \/ Lexemes(text)[y + 1] # Lexemes(text)[x]
  BY <1>1, <1>2, <1>3 DEF RunAt
<1>5. \A i \in x..y : i \in 1..P /\ Lexeme(text[i]) = Lexeme(text[x])
  BY <1>1, <1>4
<1>6. x = 1 \/ Lexeme(text[x - 1]) # Lexeme(text[x])
  <2>1. x # 1 => x - 1 \in 1..P
    BY <1>4
  <2> QED BY <1>1, <1>4, <2>1
<1>7. y = P \/ Lexeme(text[y + 1]) # Lexeme(text[x])
  <2>1. y # P => y + 1 \in 1..P
    BY <1>1, <1>4
  <2> QED BY <1>1, <1>4, <2>1
<1>8. PICK t : t = SubSeq(text, x, y)
  OBVIOUS
<1>9. t \in Seq(Chars) /\ Len(t) = y - x + 1 /\ \A i \in 1..(y - x + 1) : t[i] = text[x + i - 1]
  <2>1. \A i \in x..y : text[i] \in Chars
    BY <1>1, <1>4
  <2>2. x \in Int /\ y \in Int /\ x <= y
    BY <1>4
  <2> QED BY <1>8, <2>1, <2>2, SubSeqProperties
<1>10. t \in Text /\ t # << >> /\ t[1] = text[x]
  <2>1. 1 \in 1..(y - x + 1) /\ x + 1 - 1 = x /\ Len(t) # 0
    BY <1>4, <1>9
  <2>2. t[1] = text[x + 1 - 1]
    BY <1>9, <2>1
  <2> QED BY <1>9, <2>1, <2>2 DEF Text
<1>11. T[n] = t
  <2>1. T = [o \in 1..m |-> SubSeq(text, a[o], e[o])]
    BY DEF Placed
  <2> QED BY <1>3, <1>8, <2>1
<1>12. Lexeme(text[x]) # "blank"
  BY <1>1, <1>4
<1>13. T[n] = Cut(text, x, y)
  BY <1>8, <1>11 DEF Cut
<1> QED BY <1>3, <1>4, <1>5, <1>6, <1>7, <1>10, <1>11, <1>12, <1>13

\* The tokens between two places of the text.
Between(a, m, u, v, l, h) ==
  /\ l \in 1..(m + 1) /\ h \in 0..m /\ l <= h + 1
  /\ \A n \in 1..m : (a[n] < u <=> n < l) /\ (a[n] <= v <=> n <= h)

\* A part of the text between pipes.
IsPart(text, P, u, v) ==
  /\ u \in 1..P /\ v \in 1..P /\ u <= v /\ \A i \in u..v : text[i] # "|"
  /\ u = 1 \/ text[u - 1] = "|"
  /\ v = P \/ text[v + 1] = "|"

Inside(text, u, v, x, y) ==
  /\ u <= x /\ x <= y /\ y <= v /\ \A i \in x..y : text[i] \notin {"b", "n"}
  /\ x = u \/ text[x - 1] \in {"b", "n"}
  /\ y = v \/ text[y + 1] \in {"b", "n"}

LEMMA TokenInside ==
  ASSUME NEW text \in Text, NEW P, P = Len(text), Spaced(text, P), NEW T, NEW a, NEW e, NEW m,
         Placed(T, text, P, a, e, m), NEW u, NEW v, IsPart(text, P, u, v),
         NEW n \in 1..m, u <= a[n], a[n] <= v
  PROVE  Inside(text, u, v, a[n], e[n])
<1>1. P \in Nat /\ \A i \in 1..P : text[i] \in Chars
  BY DEF Text
<1>2. PICK x, y : x = a[n] /\ y = e[n]
  OBVIOUS
<1>3. /\ x \in 1..P /\ y \in 1..P /\ x <= y
      /\ \A i \in x..y : i \in 1..P /\ Lexeme(text[i]) = Lexeme(text[x])
      /\ Lexeme(text[x]) # "blank"
      /\ x = 1 \/ Lexeme(text[x - 1]) # Lexeme(text[x])
      /\ y = P \/ Lexeme(text[y + 1]) # Lexeme(text[x])
  BY <1>2, TokenAt, SMTT(30)
<1>4. u \in 1..P /\ v \in 1..P /\ u <= x /\ x <= v /\ \A i \in u..v : i \in 1..P /\ text[i] # "|"
  BY <1>2, <1>3 DEF IsPart
<1>5. \A i \in x..y : text[i] \notin {"b", "n"} /\ text[i] # "|"
  <2>1. x \in u..v
    <3>1. u \in Int /\ v \in Int /\ x \in Int
      BY <1>1, <1>3, <1>4
    <3> QED BY <1>4, <3>1
  <2>a. text[x] # "|" /\ text[x] \in Chars
    BY <1>1, <1>3, <1>4, <2>1
  <2>2. Lexeme(text[x]) # "pipe"
    BY <2>a, LexemeIs
  <2> QED BY <1>1, <1>3, <2>2, LexemeIs
<1>6. y <= v
  <2>a. y \in Int /\ v \in Int
    <3>1. y \in 1..P /\ v \in 1..P
      BY <1>3, <1>4, Zenon
    <3> QED BY <1>1, <3>1
  <2> SUFFICES ASSUME v < y PROVE FALSE
    BY <2>a
  <2>1. v + 1 \in x..y /\ v # P
    <3>1. x \in Int /\ y <= P /\ x <= v
      BY <1>1, <1>3, <1>4
    <3> QED BY <1>1, <2>a, <3>1
  <2>2. text[v + 1] = "|"
    BY <2>1 DEF IsPart
  <2> QED BY <1>5, <2>1, <2>2
\* Two neighbours of different lexemes, neither a pipe: one is a blank.
<1>7. ASSUME NEW q \in 1..P, NEW r \in 1..P, r = q + 1, text[q] # "|", text[r] # "|",
             Lexeme(text[q]) # Lexeme(text[r])
      PROVE  text[q] \in {"b", "n"} \/ text[r] \in {"b", "n"}
  <2>1. text[q] \in Chars /\ text[r] \in Chars
    BY <1>1
  <2>2. /\ Redirection(text[q]) => Redirection(text[r]) \/ text[r] \in {"b", "n"}
        /\ Redirection(text[r]) => Redirection(text[q]) \/ text[q] \in {"b", "n"}
    BY <1>7 DEF Spaced
  <2>3. PICK c \in Chars, d \in Chars : c = text[q] /\ d = text[r]
    BY <2>1
  <2>4. /\ c # "|" /\ d # "|" /\ Lexeme(c) # Lexeme(d)
        /\ Redirection(c) => Redirection(d) \/ d \in {"b", "n"}
        /\ Redirection(d) => Redirection(c) \/ c \in {"b", "n"}
    BY <1>7, <2>2, <2>3
  <2>5. c \in {"b", "n"} \/ d \in {"b", "n"}
    BY <2>4, LexemeIs
  <2> QED BY <2>3, <2>5
<1>8. x = u \/ text[x - 1] \in {"b", "n"}
  <2> SUFFICES ASSUME x # u PROVE text[x - 1] \in {"b", "n"}
    OBVIOUS
  <2>1. PICK w \in u..v : w = x - 1 /\ x = w + 1 /\ x # 1 /\ x \in x..y
    BY <1>3, <1>4
  <2>2. text[w] # "|" /\ text[x] # "|" /\ text[x] \notin {"b", "n"} /\ w \in 1..P
    BY <1>4, <1>5, <2>1
  <2>3. Lexeme(text[w]) # Lexeme(text[x])
    BY <1>3, <2>1
  <2> QED BY <1>3, <1>7, <2>1, <2>2, <2>3
<1>9. y = v \/ text[y + 1] \in {"b", "n"}
  <2> SUFFICES ASSUME y # v PROVE text[y + 1] \in {"b", "n"}
    OBVIOUS
  <2>1. PICK w \in u..v : w = y + 1 /\ y # P /\ y \in x..y
    BY <1>3, <1>4, <1>6
  <2>2. text[w] # "|" /\ text[y] # "|" /\ text[y] \notin {"b", "n"} /\ w \in 1..P
    BY <1>4, <1>5, <2>1
  <2>3. Lexeme(text[y]) # Lexeme(text[w])
    BY <1>3, <2>1
  <2> QED BY <1>3, <1>7, <2>1, <2>2, <2>3
<1> QED BY <1>2, <1>3, <1>4, <1>5, <1>6, <1>8, <1>9 DEF Inside

\* The tokens of a part are the tokens of the line between its ends.
LEMMA PartTokens ==
  ASSUME NEW text \in Text, NEW P, P = Len(text), Spaced(text, P), NEW T, NEW a, NEW e, NEW m,
         Placed(T, text, P, a, e, m), NEW u, NEW v, IsPart(text, P, u, v),
         NEW l, NEW h, Between(a, m, u, v, l, h)
  PROVE  strtok(SubSeq(text, u, v), {"b", "n"}) = SubSeq(T, l, h)
<1>1. P \in Nat /\ text \in Seq(Chars) /\ \A i \in 1..P : text[i] \in Chars
  BY DEF Text
<1>2. u \in 1..P /\ v \in 1..P /\ u <= v
  BY DEF IsPart
<1>3. m \in Nat /\ a \in [1..m -> 1..P] /\ e \in [1..m -> 1..P]
      /\ \A n, o \in 1..m : n < o => e[n] < a[o]
  BY DEF Placed, IsRuns
<1>4. PICK q, Q, M : q = SubSeq(text, u, v) /\ Q = v - u + 1 /\ M = h - l + 1
  OBVIOUS
<1>5. q \in Seq(Chars) /\ Len(q) = Q /\ Q \in Nat /\ \A i \in 1..Q : q[i] = text[u + i - 1]
  <2>1. \A i \in u..v : text[i] \in Chars
    BY <1>1, <1>2
  <2>2. u \in Int /\ v \in Int /\ u <= v
    BY <1>2
  <2> QED BY <1>4, <2>1, <2>2, SubSeqProperties
<1>6. l \in 1..(m + 1) /\ h \in 0..m /\ M \in Nat
      /\ \A j \in 1..M : l + j - 1 \in 1..m /\ l <= l + j - 1 /\ l + j - 1 <= h
  <2>1. l \in 1..(m + 1) /\ h \in 0..m /\ l <= h + 1
    BY DEF Between
  <2> QED BY <1>3, <1>4, <2>1
<1>7. \A n \in 1..m : (a[n] < u <=> n < l) /\ (a[n] <= v <=> n <= h)
  BY DEF Between
<1> DEFINE A == [j \in 1..M |-> a[l + j - 1] - u + 1]
           E == [j \in 1..M |-> e[l + j - 1] - u + 1]
           kind == Cuts(q, {"b", "n"})
<1>8. /\ Len(kind) = Q /\ DOMAIN kind = 1..Q
      /\ \A i \in 1..Q : kind[i] = IF text[u + i - 1] \in {"b", "n"} THEN "gap" ELSE "token"
  BY <1>5 DEF Cuts
<1> HIDE DEF kind
<1>9. ASSUME NEW j \in 1..M
      PROVE  \E n \in 1..m, x \in 1..P, y \in 1..P :
               /\ n = l + j - 1 /\ x = a[n] /\ y = e[n] /\ A[j] = x - u + 1 /\ E[j] = y - u + 1
               /\ Inside(text, u, v, x, y)
  <2>1. PICK n \in 1..m : n = l + j - 1 /\ l <= n /\ n <= h
    BY <1>6
  <2>2. PICK x \in 1..P, y \in 1..P : x = a[n] /\ y = e[n]
    BY <1>3
  <2>3. u <= x /\ x <= v
    <3>1. ~(x < u) /\ x <= v
      BY <1>6, <1>7, <2>1, <2>2
    <3> QED BY <1>2, <3>1
  <2>4. Inside(text, u, v, a[n], e[n])
    BY <2>2, <2>3, TokenInside
  <2>5. A[j] = x - u + 1 /\ E[j] = y - u + 1
    BY <2>1, <2>2
  <2> QED BY <2>1, <2>2, <2>4, <2>5
<1>10. DOMAIN A = 1..M /\ DOMAIN E = 1..M /\ A = [j \in 1..M |-> A[j]] /\ E = [j \in 1..M |-> E[j]]
  OBVIOUS
<1> HIDE DEF A, E
<1>11. ASSUME NEW j \in 1..M
       PROVE  RunAt(kind, Q, "gap", A[j], E[j])
  <2>1. PICK n \in 1..m, x \in 1..P, y \in 1..P :
          /\ n = l + j - 1 /\ x = a[n] /\ y = e[n] /\ A[j] = x - u + 1 /\ E[j] = y - u + 1
          /\ Inside(text, u, v, x, y)
    BY <1>9
  <2>2. PICK f, g : f = x - u + 1 /\ g = y - u + 1
    OBVIOUS
  <2>3. /\ u <= x /\ x <= y /\ y <= v /\ \A i \in x..y : text[i] \notin {"b", "n"}
        /\ x = u \/ text[x - 1] \in {"b", "n"}
        /\ y = v \/ text[y + 1] \in {"b", "n"}
    BY <2>1 DEF Inside
  <2>4. f \in 1..Q /\ g \in 1..Q /\ f <= g
    BY <1>2, <1>4, <2>2, <2>3
  <2>5. \A i \in f..g : kind[i] = "token"
    <3>1. ASSUME NEW i \in f..g PROVE kind[i] = "token"
      <4>1. i \in 1..Q
        BY <1>5, <2>4
      <4>2. u + i - 1 \in x..y
        BY <1>2, <2>2, <2>3
      <4> QED BY <1>8, <2>3, <4>1, <4>2
    <3> QED BY <3>1
  <2>6. f = 1 \/ kind[f - 1] = "gap"
    <3> SUFFICES ASSUME f # 1 PROVE kind[f - 1] = "gap"
      OBVIOUS
    <3>1. f - 1 \in 1..Q
      BY <1>5, <2>4
    <3>2. x # u /\ u + (f - 1) - 1 = x - 1
      BY <1>1, <1>2, <2>2
    <3> QED BY <1>8, <2>3, <3>1, <3>2
  <2>7. g = Q \/ kind[g + 1] = "gap"
    <3> SUFFICES ASSUME g # Q PROVE kind[g + 1] = "gap"
      OBVIOUS
    <3>1. g + 1 \in 1..Q /\ y # v /\ u + (g + 1) - 1 = y + 1
      BY <1>2, <1>4, <2>2, <2>4
    <3> QED BY <1>8, <2>3, <3>1
  <2>8. f \in f..g
    BY <2>4
  <2>9. kind[f] = "token" /\ "token" # "gap"
    BY <2>5, <2>8
  <2>10. RunAt(kind, Q, "gap", f, g)
    BY <2>4, <2>5, <2>6, <2>7, <2>9 DEF RunAt
  <2> QED BY <2>1, <2>2, <2>10
<1>12. A \in [1..M -> 1..Q] /\ E \in [1..M -> 1..Q]
  <2>1. \A j \in 1..M : A[j] \in 1..Q /\ E[j] \in 1..Q
    BY <1>11 DEF RunAt
  <2> QED BY <1>10, <2>1
<1>13. ASSUME NEW i \in 1..M, NEW j \in 1..M, i < j PROVE E[i] < A[j]
  <2>1. PICK n \in 1..m, y \in 1..P : n = l + i - 1 /\ y = e[n] /\ E[i] = y - u + 1
    BY <1>9
  <2>2. PICK o \in 1..m, x \in 1..P : o = l + j - 1 /\ x = a[o] /\ A[j] = x - u + 1
    BY <1>9
  <2>3. n < o
    BY <1>6, <1>13, <2>1, <2>2
  <2>4. y < x
    BY <1>3, <2>1, <2>2, <2>3
  <2>5. y - u + 1 < x - u + 1
    BY <1>1, <1>2, <2>4
  <2> QED BY <2>1, <2>2, <2>5
<1>14. Covered(kind, Q, "gap", A, E, M)
  <2> SUFFICES ASSUME NEW i \in 1..Q, kind[i] # "gap"
               PROVE  \E j \in 1..M : A[j] <= i /\ i <= E[j]
    BY DEF Covered
  <2>1. PICK r \in 1..P : r = u + i - 1 /\ u <= r /\ r <= v
    BY <1>1, <1>2, <1>4
  <2>2. text[r] \in Chars /\ text[r] \notin {"b", "n"}
    BY <1>1, <1>8, <2>1
  <2>3. Lexemes(text)[r] # "blank"
    <3>1. Lexemes(text)[r] = Lexeme(text[r])
      BY <1>1 DEF Lexemes
    <3>2. Lexeme(text[r]) # "blank"
      BY <2>2, LexemeIs
    <3> QED BY <3>1, <3>2
  <2>4. PICK n \in 1..m : a[n] <= r /\ r <= e[n]
    BY <2>3 DEF Placed, IsRuns, Covered
  <2>5. PICK x \in 1..P, y \in 1..P : x = a[n] /\ y = e[n]
    BY <1>3
  <2>6. n <= h
    BY <1>2, <1>7, <2>1, <2>4, <2>5
  <2>7. ~(x < u)
    <3> SUFFICES ASSUME x < u PROVE FALSE
      OBVIOUS
    <3>1. u # 1 /\ u - 1 \in x..y /\ r \in x..y
      BY <1>2, <2>1, <2>4, <2>5
    <3>2. text[u - 1] = "|"
      BY <3>1 DEF IsPart
    <3>3. Lexeme(text[u - 1]) = Lexeme(text[r])
      BY <2>5, <3>1, TokenAt
    <3>4. text[r] # "|" /\ "|" \in Chars
      BY <1>2, <2>1 DEF IsPart, Chars
    <3>5. Lexeme("|") = "pipe" /\ Lexeme(text[r]) # "pipe"
      BY <2>2, <3>4, LexemeIs
    <3> QED BY <3>2, <3>3, <3>5
  <2>8. ~(n < l)
    BY <1>7, <2>5, <2>7
  <2>9. PICK j \in 1..M : j = n - l + 1 /\ n = l + j - 1
    BY <1>3, <1>4, <1>6, <2>6, <2>8
  <2>10. PICK o \in 1..m, f \in 1..P, g \in 1..P :
           o = l + j - 1 /\ f = a[o] /\ g = e[o] /\ A[j] = f - u + 1 /\ E[j] = g - u + 1
    BY <1>9
  <2>11. f = x /\ g = y
    BY <2>5, <2>9, <2>10
  <2>12. A[j] <= i /\ i <= E[j]
    <3>1. x <= r /\ r <= y
      BY <2>4, <2>5
    <3>2. x - u + 1 <= i /\ i <= y - u + 1
      BY <1>2, <2>1, <3>1
    <3> QED BY <2>10, <2>11, <3>2
  <2> QED BY <2>12
<1>15. IsRuns(kind, Q, "gap", A, E, M)
  BY <1>6, <1>11, <1>12, <1>13, <1>14 DEF IsRuns
<1>16. strtok(q, {"b", "n"}) = [j \in 1..M |-> SubSeq(q, A[j], E[j])]
  <2>1. Runs(q, kind, "gap") = [j \in 1..M |-> SubSeq(q, A[j], E[j])]
    BY <1>5, <1>8, <1>15, RunsAre
  <2> QED BY <2>1 DEF strtok, kind
<1>17. ASSUME NEW j \in 1..M PROVE SubSeq(q, A[j], E[j]) = T[l + j - 1]
  <2>1. PICK n \in 1..m, x \in 1..P, y \in 1..P :
          /\ n = l + j - 1 /\ x = a[n] /\ y = e[n] /\ A[j] = x - u + 1 /\ E[j] = y - u + 1
          /\ Inside(text, u, v, x, y)
    BY <1>9
  <2>2. PICK f, g : f = x - u + 1 /\ g = y - u + 1
    OBVIOUS
  <2>3. u <= x /\ x <= y /\ y <= v
    BY <2>1 DEF Inside
  <2>4. /\ f \in 1..Q /\ g \in f..Q /\ x \in 1..P /\ y \in x..P /\ g - f = y - x
        /\ \A d \in 0..(g - f) : f + d \in 1..Q /\ u + (f + d) - 1 = x + d
    BY <1>2, <1>4, <2>2, <2>3
  <2>5. \A d \in 0..(g - f) : q[f + d] = text[x + d]
    BY <1>5, <2>4
  <2>6. SameAt(q, f, g, text, x, y)
    BY <1>1, <1>5, <2>4, <2>5 DEF SameAt
  <2>7. Cut(q, f, g) = Cut(text, x, y)
    BY <2>6, SameCut
  <2>8. T[n] = Cut(text, x, y)
    BY <2>1, TokenAt
  <2>9. Cut(q, f, g) = T[l + j - 1]
    BY <2>1, <2>7, <2>8
  <2> QED BY <2>1, <2>2, <2>9 DEF Cut
<1>18. strtok(q, {"b", "n"}) = [j \in 1..M |-> T[l + j - 1]]
  BY <1>16, <1>17
<1>19. SubSeq(T, l, h) = [j \in 1..M |-> T[l + j - 1]]
  <2>1. PICK t : t = SubSeq(T, l, h)
    OBVIOUS
  <2>2. \A i \in l..h : T[i] \in Text
    <3>1. \A i \in l..h : i \in 1..m
      BY <1>3, <1>6
    <3> QED BY <3>1, TokenAt
  <2>3. l \in Int /\ h \in Int /\ (l <= h => M = h - l + 1) /\ (~(l <= h) => M = 0)
    BY <1>4, <1>6
  <2>4. t \in Seq(Text) /\ Len(t) = M /\ \A i \in 1..(h - l + 1) : t[i] = T[l + i - 1]
    BY <2>1, <2>2, <2>3, SubSeqProperties
  <2>5. t = [j \in 1..M |-> T[l + j - 1]]
    BY <1>4, <2>4
  <2> QED BY <2>1, <2>5
<1> QED BY <1>4, <1>18, <1>19

\* How many tokens start at a place or before it.
UpTo(a, m, x, c) == c \in 0..m /\ \A n \in 1..m : a[n] <= x <=> n <= c

LEMMA UpToExists ==
  ASSUME NEW P \in Nat, NEW m \in Nat, NEW a \in [1..m -> 1..P],
         \A i, j \in 1..m : i < j => a[i] < a[j], NEW x \in Int
  PROVE  \E c : UpTo(a, m, x, c)
<1> DEFINE S == {c \in 0..m : \A n \in 1..m : a[n] <= x => n <= c}
<1>1. S \in SUBSET Nat /\ m \in S
  OBVIOUS
<1>2. PICK c \in S : \A d \in S : c <= d
  BY <1>1, LeastNat
<1>3. c \in 0..m /\ \A n \in 1..m : a[n] <= x => n <= c
  OBVIOUS
<1>4. ASSUME NEW n \in 1..m, n <= c PROVE a[n] <= x
  <2>1. PICK d : d = c - 1 /\ d \in 0..m /\ ~(c <= d) /\ c \in 1..m
    BY <1>3, <1>4
  <2>2. d \notin S
    BY <1>2, <2>1
  <2>3. PICK o \in 1..m : a[o] <= x /\ ~(o <= d)
    BY <2>1, <2>2
  <2>4. o = c
    BY <1>3, <2>1, <2>3
  <2>5. PICK y, z : y = a[n] /\ z = a[c] /\ y \in 1..P /\ z \in 1..P
    BY <2>1
  <2>6. y <= z
    <3>1. n < c => y < z
      BY <2>1, <2>5
    <3>2. n = c \/ n < c
      BY <1>4, <2>1
    <3> QED BY <2>5, <3>1, <3>2
  <2>7. z <= x
    BY <2>3, <2>4, <2>5
  <2> QED BY <2>5, <2>6, <2>7
<1>5. UpTo(a, m, x, c)
  BY <1>3, <1>4 DEF UpTo
<1> QED BY <1>5

\* The tokens are in order.
LEMMA TokensOrdered ==
  ASSUME NEW text \in Text, NEW P, P = Len(text), NEW T, NEW a, NEW e, NEW m,
         Placed(T, text, P, a, e, m)
  PROVE  /\ P \in Nat /\ m \in Nat /\ a \in [1..m -> 1..P] /\ e \in [1..m -> 1..P]
         /\ \A n, o \in 1..m : n < o => e[n] < a[o]
         /\ \A n, o \in 1..m : n < o => a[n] < a[o]
<1>1. /\ P \in Nat /\ m \in Nat /\ a \in [1..m -> 1..P] /\ e \in [1..m -> 1..P]
      /\ \A n, o \in 1..m : n < o => e[n] < a[o]
  BY DEF Placed, IsRuns, Text
<1>2. ASSUME NEW n \in 1..m, NEW o \in 1..m, n < o PROVE a[n] < a[o]
  <2>1. PICK x \in 1..P, y \in 1..P, z \in 1..P : x = a[n] /\ y = e[n] /\ z = a[o]
    BY <1>1
  <2>2. x <= y
    BY <2>1, TokenAt
  <2>3. y < z
    BY <1>1, <1>2, <2>1
  <2> QED BY <1>1, <2>1, <2>2, <2>3
<1> QED BY <1>1, <1>2

LEMMA BetweenExists ==
  ASSUME NEW text \in Text, NEW P, P = Len(text), NEW T, NEW a, NEW e, NEW m,
         Placed(T, text, P, a, e, m), NEW u \in 1..P, NEW v \in 1..P, u <= v
  PROVE  \E l, h : Between(a, m, u, v, l, h)
<1>1. /\ P \in Nat /\ m \in Nat /\ a \in [1..m -> 1..P]
      /\ \A n, o \in 1..m : n < o => a[n] < a[o]
  BY TokensOrdered
<1>2. u - 1 \in Int /\ v \in Int /\ u \in Int
  BY <1>1
<1>3. PICK c : UpTo(a, m, u - 1, c)
  BY <1>1, <1>2, UpToExists
<1>4. PICK h : UpTo(a, m, v, h)
  BY <1>1, <1>2, UpToExists
<1>5. c \in 0..m /\ h \in 0..m
  BY <1>3, <1>4 DEF UpTo
<1>a. \A n \in 1..m : a[n] <= u - 1 <=> n <= c
  BY <1>3 DEF UpTo
<1>b. \A n \in 1..m : a[n] <= v <=> n <= h
  BY <1>4 DEF UpTo
<1>6. PICK l : l = c + 1
  OBVIOUS
<1>7. l \in 1..(m + 1) /\ h \in 0..m
  BY <1>1, <1>5, <1>6
<1>8. l <= h + 1
  <2> SUFFICES ASSUME h < c PROVE FALSE
    BY <1>5, <1>6, <1>1
  <2>1. c \in 1..m /\ c <= c
    BY <1>1, <1>5
  <2>2. PICK x \in 1..P : x = a[c]
    BY <1>1, <2>1
  <2>3. x <= u - 1
    BY <1>a, <2>1, <2>2
  <2>4. x <= v
    BY <1>1, <2>3
  <2>5. c <= h
    BY <1>b, <2>1, <2>2, <2>4
  <2> QED BY <1>1, <1>5, <2>5
<1>9. ASSUME NEW n \in 1..m PROVE (a[n] < u <=> n < l) /\ (a[n] <= v <=> n <= h)
  <2>1. PICK x \in 1..P : x = a[n]
    BY <1>1
  <2>2. x <= u - 1 <=> x < u
    BY <1>1
  <2>3. n <= c <=> n < l
    BY <1>1, <1>5, <1>6
  <2> QED BY <1>a, <1>b, <2>1, <2>2, <2>3
<1>10. Between(a, m, u, v, l, h)
  BY <1>7, <1>8, <1>9 DEF Between
<1> QED BY <1>10

\* The pipes between two parts are one token.
Gap(text, P, x, y) ==
  /\ x \in 1..P /\ y \in 1..P /\ x <= y /\ \A i \in x..y : text[i] = "|"
  /\ x = 1 \/ text[x - 1] # "|"
  /\ y = P \/ text[y + 1] # "|"

LEMMA GapToken ==
  ASSUME NEW text \in Text, NEW P, P = Len(text), NEW T, NEW a, NEW e, NEW m,
         Placed(T, text, P, a, e, m), NEW x, NEW y, Gap(text, P, x, y)
  PROVE  \E n \in 1..m : a[n] = x /\ e[n] = y /\ IsPipe(T[n])
<1>1. P \in Nat /\ \A i \in 1..P : text[i] \in Chars /\ Lexemes(text)[i] = Lexeme(text[i])
  BY DEF Text, Lexemes
<1>2. x \in 1..P /\ y \in 1..P /\ x <= y /\ \A i \in x..y : text[i] = "|"
  BY DEF Gap
<1>3. x \in x..y /\ y \in x..y
  BY <1>1, <1>2
<1>4. Lexeme("|") = "pipe" /\ \A c \in Chars : Lexeme(c) = "pipe" => c = "|"
  <2>1. "|" \in Chars
    BY DEF Chars
  <2> QED BY <2>1, LexemeIs
<1>5. PICK n \in 1..m : a[n] <= x /\ x <= e[n]
  <2>1. Lexemes(text)[x] # "blank"
    BY <1>1, <1>2, <1>3, <1>4
  <2> QED BY <1>2, <2>1 DEF Placed, IsRuns, Covered
<1>6. PICK f, g : f = a[n] /\ g = e[n]
  OBVIOUS
<1>7. /\ f \in 1..P /\ g \in 1..P /\ f <= g /\ T[n][1] = text[f]
      /\ \A i \in f..g : i \in 1..P /\ Lexeme(text[i]) = Lexeme(text[f])
      /\ g = P \/ Lexeme(text[g + 1]) # Lexeme(text[f])
  BY <1>6, TokenAt
<1>8. f <= x /\ x <= g /\ f \in Int /\ g \in Int /\ x \in Int /\ y \in Int
  BY <1>1, <1>2, <1>5, <1>6, <1>7
<1>9. Lexeme(text[f]) = "pipe"
  <2>1. x \in f..g
    BY <1>8
  <2> QED BY <1>2, <1>3, <1>4, <1>7, <2>1
<1>10. \A i \in f..g : text[i] = "|"
  BY <1>1, <1>4, <1>7, <1>9
<1>11. f = x
  <2> SUFFICES ASSUME f < x PROVE FALSE
    BY <1>8
  <2>1. x - 1 \in f..g /\ x # 1
    BY <1>7, <1>8
  <2> QED BY <1>10, <2>1 DEF Gap
<1>12. ~(g < y)
  <2> SUFFICES ASSUME g < y PROVE FALSE
    OBVIOUS
  <2>1. g + 1 \in x..y /\ g # P
    BY <1>1, <1>2, <1>8
  <2>2. text[g + 1] = "|"
    BY <1>2, <2>1
  <2> QED BY <1>4, <1>7, <1>9, <2>1, <2>2
<1>13. ~(y < g)
  <2> SUFFICES ASSUME y < g PROVE FALSE
    OBVIOUS
  <2>1. y + 1 \in f..g /\ y # P
    BY <1>1, <1>2, <1>7, <1>8
  <2> QED BY <1>10, <2>1 DEF Gap
<1>14. g = y
  BY <1>8, <1>12, <1>13
<1>15. IsPipe(T[n])
  BY <1>2, <1>3, <1>7, <1>11 DEF IsPipe
<1> QED BY <1>6, <1>11, <1>14, <1>15

\* Which one it is.
LEMMA GapIndex ==
  ASSUME NEW text \in Text, NEW P, P = Len(text), NEW T, NEW a, NEW e, NEW m,
         Placed(T, text, P, a, e, m), NEW n \in 1..m, NEW u, NEW v, NEW l, NEW h,
         NEW w, NEW z, NEW g, NEW k, u \in 1..P, z \in 1..P,
         Between(a, m, w, z, g, h), Between(a, m, u, v, l, k),
         a[n] = z + 1, e[n] = u - 1
  PROVE  n = h + 1 /\ l = h + 2
<1>1. /\ P \in Nat /\ m \in Nat /\ a \in [1..m -> 1..P] /\ e \in [1..m -> 1..P]
      /\ \A i, j \in 1..m : i < j => e[i] < a[j]
  BY TokensOrdered
<1>2. h \in 0..m /\ l \in 1..(m + 1) /\ \A i \in 1..m : (a[i] <= z <=> i <= h) /\ (a[i] < u <=> i < l)
  BY DEF Between
<1>3. n > h
  BY <1>1, <1>2
<1>4. ~(n > h + 1)
  <2> SUFFICES ASSUME n > h + 1 PROVE FALSE
    OBVIOUS
  <2>1. PICK i \in 1..m : i = h + 1 /\ i < n
    BY <1>1, <1>2
  <2>2. PICK x \in 1..P, y \in 1..P : x = a[i] /\ y = e[i] /\ x <= y
    BY <2>1, TokenAt
  <2>3. y < z + 1
    BY <1>1, <2>1, <2>2
  <2>4. x <= z
    BY <1>1, <2>2, <2>3
  <2>5. i <= h
    BY <1>2, <2>2, <2>4
  <2> QED BY <1>1, <1>2, <2>1, <2>5
<1>5. n < l
  <2>1. PICK x \in 1..P, y \in 1..P : x = a[n] /\ y = e[n] /\ x <= y
    BY TokenAt
  <2>2. x < u
    BY <1>1, <2>1
  <2> QED BY <1>2, <2>1, <2>2
<1>6. ~(n + 1 < l)
  <2> SUFFICES ASSUME n + 1 < l PROVE FALSE
    OBVIOUS
  <2>1. PICK i \in 1..m : i = n + 1 /\ n < i /\ i < l
    BY <1>1, <1>2
  <2>2. PICK x \in 1..P : x = a[i]
    BY <1>1
  <2>3. u - 1 < x
    BY <1>1, <2>1, <2>2
  <2>4. x < u
    BY <1>2, <2>1, <2>2
  <2> QED BY <1>1, <2>3, <2>4
<1> QED BY <1>1, <1>2, <1>3, <1>4, <1>5, <1>6

\* A line that is cut at its pipes: part k has the tokens from lo[k] to hi[k].
Pieces(text, P, T, m, lo, hi, K) ==
  /\ K \in Nat /\ m \in Nat /\ lo \in [1..K -> 1..(m + 1)] /\ hi \in [1..K -> 0..m]
  /\ \A k \in 1..K : lo[k] <= hi[k] + 1
  /\ \A k \in 1..K : \A n \in lo[k]..hi[k] : ~IsPipe(T[n])
  /\ \A k, o \in 1..K : o = k + 1 => lo[o] = hi[k] + 2 /\ IsPipe(T[hi[k] + 1])
  /\ K > 0 => IF text[1] = "|" THEN lo[1] = 2 /\ IsPipe(T[1]) ELSE lo[1] = 1
  /\ P > 0 /\ text[P] # "|" => K > 0 /\ hi[K] = m
  /\ P > 0 /\ text[P] = "|" => m > 0 /\ IsPipe(T[m])
  /\ P = 0 => m = 0 /\ K = 0

Parted(parts, T, lo, hi, K) ==
  /\ parts \in [1..K -> Text] /\ Len(parts) = K
  /\ \A k \in 1..K : strtok(parts[k], {"b", "n"}) = SubSeq(T, lo[k], hi[k])

\* The parts between the pipes of a text.
LEMMA PartsAre ==
  ASSUME NEW text \in Text, NEW P, P = Len(text), NEW K, NEW u, NEW v,
         IsRuns(Cuts(text, {"|"}), P, "gap", u, v, K)
  PROVE  /\ P \in Nat /\ K \in Nat /\ u \in [1..K -> 1..P] /\ v \in [1..K -> 1..P]
         /\ \A k \in 1..K : IsPart(text, P, u[k], v[k])
         /\ \A k, o \in 1..K : k < o => v[k] < u[o]
         /\ \A i \in 1..P : text[i] # "|" => \E k \in 1..K : u[k] <= i /\ i <= v[k]
         /\ strtok(text, {"|"}) = [k \in 1..K |-> SubSeq(text, u[k], v[k])]
<1> DEFINE c == Cuts(text, {"|"})
<1>1. /\ P \in Nat /\ Len(c) = P /\ DOMAIN c = 1..P
      /\ \A i \in 1..P : (c[i] = "gap" <=> text[i] = "|") /\ c[i] \in {"gap", "token"}
  BY DEF Text, Cuts
<1> HIDE DEF c
<1>2. IsRuns(c, P, "gap", u, v, K)
  BY DEF c
<1>3. /\ K \in Nat /\ u \in [1..K -> 1..P] /\ v \in [1..K -> 1..P]
      /\ \A k, o \in 1..K : k < o => v[k] < u[o]
  BY <1>2 DEF IsRuns
<1>4. ASSUME NEW k \in 1..K PROVE IsPart(text, P, u[k], v[k])
  <2>1. PICK x \in 1..P, y \in 1..P : x = u[k] /\ y = v[k]
    BY <1>3
  <2>2. /\ x <= y /\ c[x] # "gap" /\ \A i \in x..y : c[i] = c[x]
        /\ x = 1 \/ c[x - 1] # c[x]
        /\ y = P \/ c[y + 1] # c[x]
    BY <1>2, <2>1 DEF IsRuns, RunAt
  <2>3. c[x] = "token"
    BY <1>1, <2>2
  <2>4. \A i \in x..y : text[i] # "|"
    <3>1. \A i \in x..y : i \in 1..P
      BY <1>1, <2>1
    <3> QED BY <1>1, <2>2, <3>1
  <2>5. x = 1 \/ text[x - 1] = "|"
    <3>1. x # 1 => x - 1 \in 1..P
      BY <1>1, <2>1
    <3> QED BY <1>1, <2>2, <2>3, <3>1
  <2>6. y = P \/ text[y + 1] = "|"
    <3>1. y # P => y + 1 \in 1..P
      BY <1>1, <2>1
    <3> QED BY <1>1, <2>2, <2>3, <3>1
  <2> QED BY <2>1, <2>2, <2>4, <2>5, <2>6 DEF IsPart
<1>5. \A i \in 1..P : text[i] # "|" => \E k \in 1..K : u[k] <= i /\ i <= v[k]
  <2>1. \A i \in 1..P : c[i] # "gap" => \E k \in 1..K : u[k] <= i /\ i <= v[k]
    BY <1>2 DEF IsRuns, Covered
  <2> QED BY <1>1, <2>1
<1>6. strtok(text, {"|"}) = [k \in 1..K |-> SubSeq(text, u[k], v[k])]
  <2>1. Runs(text, c, "gap") = [k \in 1..K |-> SubSeq(text, u[k], v[k])]
    BY <1>1, <1>2, RunsAre
  <2> QED BY <2>1 DEF strtok, c
<1> QED BY <1>1, <1>3, <1>4, <1>5, <1>6

\* The pipes between neighbouring parts, before the first and after the last.
LEMMA GapsAre ==
  ASSUME NEW text \in Text, NEW P, P = Len(text), NEW K, NEW u, NEW v,
         IsRuns(Cuts(text, {"|"}), P, "gap", u, v, K)
  PROVE  /\ \A k, o \in 1..K : o = k + 1 => Gap(text, P, v[k] + 1, u[o] - 1)
         /\ K > 0 => u[1] = 1 \/ Gap(text, P, 1, u[1] - 1)
         /\ P > 0 /\ text[P] # "|" => K > 0 /\ v[K] = P
<1>1. /\ P \in Nat /\ K \in Nat /\ u \in [1..K -> 1..P] /\ v \in [1..K -> 1..P]
      /\ \A k, o \in 1..K : k < o => v[k] < u[o]
      /\ \A i \in 1..P : text[i] # "|" => \E k \in 1..K : u[k] <= i /\ i <= v[k]
  BY PartsAre
<1>a. \A k \in 1..K : IsPart(text, P, u[k], v[k])
  BY PartsAre
<1>2. ASSUME NEW k \in 1..K, NEW o \in 1..K, o = k + 1
      PROVE  Gap(text, P, v[k] + 1, u[o] - 1)
  <2>1. PICK x, y, f, g : x = v[k] + 1 /\ y = u[o] - 1 /\ f = v[k] /\ g = u[o]
    OBVIOUS
  <2>2. f \in 1..P /\ g \in 1..P /\ f < g
    BY <1>1, <1>2, <2>1
  <2>3. f # P /\ g # 1
    BY <1>1, <2>2
  <2>4. text[f + 1] = "|" /\ text[g - 1] = "|" /\ text[f] # "|" /\ text[g] # "|"
    <3>1. IsPart(text, P, u[k], f) /\ IsPart(text, P, g, v[o])
      BY <1>a, <2>1
    <3>2. u[k] \in 1..P /\ v[o] \in 1..P /\ u[k] <= f /\ g <= v[o]
      BY <1>1, <3>1 DEF IsPart
    <3>3. f \in u[k]..f /\ g \in g..v[o]
      <4>1. PICK q, r : q = u[k] /\ r = v[o] /\ q \in 1..P /\ r \in 1..P /\ q <= f /\ g <= r
        BY <3>2
      <4>2. f \in q..f /\ g \in g..r
        BY <1>1, <2>2, <4>1
      <4> QED BY <4>1, <4>2
    <3> QED BY <2>3, <3>1, <3>3 DEF IsPart
  <2>5. f + 1 # g
    BY <2>4
  <2>6. x \in 1..P /\ y \in 1..P /\ x <= y /\ x - 1 = f /\ y + 1 = g
    BY <1>1, <2>1, <2>2, <2>5
  <2>7. ASSUME NEW i \in x..y PROVE text[i] = "|"
    <3> SUFFICES ASSUME text[i] # "|" PROVE FALSE
      OBVIOUS
    <3>1. i \in 1..P /\ f < i /\ i < g
      BY <1>1, <2>6
    <3>2. PICK q \in 1..K : u[q] <= i /\ i <= v[q]
      BY <1>1, <3>1
    <3>3. PICK r \in 1..P, s \in 1..P : r = u[q] /\ s = v[q]
      BY <1>1
    <3>4. q < k \/ q = k \/ q = o \/ o < q
      BY <1>1, <1>2
    <3>5. CASE q < k
      <4>1. PICK z \in 1..P : z = u[k] /\ z <= f
        BY <1>1, <1>a, <2>1 DEF IsPart
      <4>2. s < z
        BY <1>1, <3>3, <3>5, <4>1
      <4> QED BY <1>1, <2>2, <3>1, <3>2, <3>3, <4>1, <4>2
    <3>6. CASE q = k
      BY <1>1, <2>1, <2>2, <3>1, <3>2, <3>6
    <3>7. CASE q = o
      BY <1>1, <2>1, <2>2, <3>1, <3>2, <3>7
    <3>8. CASE o < q
      <4>1. PICK z \in 1..P : z = v[o] /\ g <= z
        BY <1>1, <1>a, <2>1 DEF IsPart
      <4>2. z < r
        BY <1>1, <3>3, <3>8, <4>1
      <4> QED BY <1>1, <2>2, <3>1, <3>2, <3>3, <4>1, <4>2
    <3> QED BY <3>4, <3>5, <3>6, <3>7, <3>8
  <2>8. Gap(text, P, x, y)
    BY <2>4, <2>6, <2>7 DEF Gap
  <2> QED BY <2>1, <2>8
<1>3. ASSUME K > 0, u[1] # 1 PROVE Gap(text, P, 1, u[1] - 1)
  <2>1. 1 \in 1..K
    BY <1>1, <1>3
  <2>2. PICK y, g : y = u[1] - 1 /\ g = u[1]
    OBVIOUS
  <2>3. g \in 1..P /\ g # 1
    BY <1>1, <1>3, <2>1, <2>2
  <2>4. 1 \in 1..P /\ y \in 1..P /\ 1 <= y /\ y + 1 = g
    BY <1>1, <2>2, <2>3
  <2>5. text[g] # "|"
    <3>1. IsPart(text, P, g, v[1])
      BY <1>a, <2>1, <2>2
    <3>2. PICK r \in 1..P : r = v[1] /\ g <= r
      BY <1>1, <2>1, <3>1 DEF IsPart
    <3>3. g \in g..r
      BY <1>1, <2>3, <3>2
    <3> QED BY <3>1, <3>2, <3>3 DEF IsPart
  <2>6. ASSUME NEW i \in 1..y PROVE text[i] = "|"
    <3> SUFFICES ASSUME text[i] # "|" PROVE FALSE
      OBVIOUS
    <3>1. i \in 1..P /\ i < g
      BY <1>1, <2>4
    <3>2. PICK q \in 1..K : u[q] <= i /\ i <= v[q]
      BY <1>1, <3>1
    <3>3. PICK r \in 1..P, s \in 1..P : r = u[q] /\ s = v[q]
      BY <1>1
    <3>4. q = 1 \/ 1 < q
      BY <1>1
    <3>5. CASE q = 1
      BY <1>1, <2>2, <2>3, <3>1, <3>2, <3>5
    <3>6. CASE 1 < q
      <4>1. PICK z \in 1..P : z = v[1] /\ g <= z
        BY <1>1, <1>a, <2>1, <2>2 DEF IsPart
      <4>2. z < r
        BY <1>1, <2>1, <3>3, <3>6, <4>1
      <4> QED BY <1>1, <2>3, <3>1, <3>2, <3>3, <4>1, <4>2
    <3> QED BY <3>4, <3>5, <3>6
  <2>7. Gap(text, P, 1, y)
    BY <2>4, <2>5, <2>6 DEF Gap
  <2> QED BY <2>2, <2>7
<1>4. ASSUME P > 0, text[P] # "|" PROVE K > 0 /\ v[K] = P
  <2>1. P \in 1..P
    BY <1>1, <1>4
  <2>2. PICK q \in 1..K : u[q] <= P /\ P <= v[q]
    BY <1>1, <1>4, <2>1
  <2>3. PICK s \in 1..P : s = v[q] /\ s = P
    BY <1>1, <2>2
  <2>4. q = K
    <3> SUFFICES ASSUME q < K PROVE FALSE
      BY <1>1
    <3>1. K \in 1..K
      BY <1>1
    <3>2. PICK z \in 1..P : z = u[K]
      BY <1>1, <3>1
    <3>3. s < z
      BY <1>1, <2>3, <3>1, <3>2
    <3> QED BY <1>1, <2>3, <3>2, <3>3
  <2>5. K > 0
    BY <1>1, <2>2
  <2> QED BY <2>3, <2>4, <2>5
<1> QED BY <1>2, <1>3, <1>4

\* The tokens between two places, chosen.
LoOf(a, m, x, y) == CHOOSE l : \E h : Between(a, m, x, y, l, h)
HiOf(a, m, x, y) == CHOOSE h : Between(a, m, x, y, LoOf(a, m, x, y), h)

LEMMA PiecesExist ==
  ASSUME NEW text \in Text, NEW P, P = Len(text), Spaced(text, P), NEW T, NEW a, NEW e, NEW m,
         Placed(T, text, P, a, e, m)
  PROVE  \E K, lo, hi : /\ Pieces(text, P, T, m, lo, hi, K)
                        /\ Parted(strtok(text, {"|"}), T, lo, hi, K)
<1>1. /\ P \in Nat /\ m \in Nat /\ a \in [1..m -> 1..P] /\ e \in [1..m -> 1..P]
      /\ \A n, o \in 1..m : n < o => e[n] < a[o]
      /\ \A n, o \in 1..m : n < o => a[n] < a[o]
  BY TokensOrdered
<1>2. PICK K, u, v : IsRuns(Cuts(text, {"|"}), P, "gap", u, v, K)
  <2>1. Len(Cuts(text, {"|"})) = P /\ DOMAIN Cuts(text, {"|"}) = 1..P
    BY <1>1 DEF Cuts, Text
  <2> QED BY <1>1, <2>1, RunsExist
<1>3. /\ K \in Nat /\ u \in [1..K -> 1..P] /\ v \in [1..K -> 1..P]
      /\ strtok(text, {"|"}) = [k \in 1..K |-> SubSeq(text, u[k], v[k])]
  BY <1>2, PartsAre
<1>4. \A k \in 1..K : IsPart(text, P, u[k], v[k])
  BY <1>2, PartsAre
<1>5. \A k, o \in 1..K : o = k + 1 => Gap(text, P, v[k] + 1, u[o] - 1)
  BY <1>2, GapsAre
<1>6. K > 0 => u[1] = 1 \/ Gap(text, P, 1, u[1] - 1)
  BY <1>2, GapsAre
<1>7. P > 0 /\ text[P] # "|" => K > 0 /\ v[K] = P
  BY <1>2, GapsAre
<1> DEFINE Ends(k, l, h) == Between(a, m, u[k], v[k], l, h)
           lo == [k \in 1..K |-> LoOf(a, m, u[k], v[k])]
           hi == [k \in 1..K |-> HiOf(a, m, u[k], v[k])]
<1>8. \A k \in 1..K : Ends(k, lo[k], hi[k])
  <2>1. ASSUME NEW k \in 1..K PROVE Ends(k, lo[k], hi[k])
    <3>1. u[k] \in 1..P /\ v[k] \in 1..P /\ u[k] <= v[k]
      BY <1>3, <1>4 DEF IsPart
    <3>2. PICK x, y : x = u[k] /\ y = v[k]
      OBVIOUS
    <3>3. \E l, h : Between(a, m, x, y, l, h)
      BY <3>1, <3>2, BetweenExists
    <3>4. \E h : Between(a, m, x, y, LoOf(a, m, x, y), h)
      BY <3>3, Zenon DEF LoOf
    <3>5. Between(a, m, x, y, LoOf(a, m, x, y), HiOf(a, m, x, y))
      BY <3>4, Zenon DEF HiOf
    <3> QED BY <3>2, <3>5
  <2> QED BY <2>1
<1>9. lo = [k \in 1..K |-> lo[k]] /\ hi = [k \in 1..K |-> hi[k]]
  OBVIOUS
<1> HIDE DEF lo, hi
<1>10. \A k \in 1..K : /\ lo[k] \in 1..(m + 1) /\ hi[k] \in 0..m /\ lo[k] <= hi[k] + 1
                       /\ \A n \in 1..m : (a[n] < u[k] <=> n < lo[k]) /\ (a[n] <= v[k] <=> n <= hi[k])
  BY <1>8 DEF Between
<1> HIDE DEF Ends
<1>11. lo \in [1..K -> 1..(m + 1)] /\ hi \in [1..K -> 0..m]
  BY <1>9, <1>10
<1>12. ASSUME NEW k \in 1..K, NEW n \in lo[k]..hi[k] PROVE ~IsPipe(T[n])
  <2>1. PICK l, h : l = lo[k] /\ h = hi[k] /\ l \in 1..(m + 1) /\ h \in 0..m
    BY <1>10
  <2>2. n \in 1..m /\ l <= n /\ n <= h
    BY <1>1, <2>1
  <2>3. PICK x, f, g : x = a[n] /\ f = u[k] /\ g = v[k] /\ x \in 1..P /\ f \in 1..P /\ g \in 1..P
    BY <1>1, <1>3, <2>2
  <2>4. ~(x < f) /\ x <= g
    BY <1>10, <2>1, <2>2, <2>3
  <2>5. x \in f..g
    BY <1>1, <2>3, <2>4
  <2>6. text[x] # "|"
    BY <1>4, <2>3, <2>5 DEF IsPart
  <2>7. T[n][1] = text[x]
    BY <2>2, <2>3, TokenAt
  <2> QED BY <2>6, <2>7 DEF IsPipe
<1>13. ASSUME NEW k \in 1..K, NEW o \in 1..K, o = k + 1
       PROVE  lo[o] = hi[k] + 2 /\ IsPipe(T[hi[k] + 1])
  <2>1. Gap(text, P, v[k] + 1, u[o] - 1)
    BY <1>5, <1>13
  <2>2. PICK n \in 1..m : a[n] = v[k] + 1 /\ e[n] = u[o] - 1 /\ IsPipe(T[n])
    BY <2>1, GapToken
  <2>3. Between(a, m, u[k], v[k], lo[k], hi[k]) /\ Between(a, m, u[o], v[o], lo[o], hi[o])
    BY <1>8 DEF Ends
  <2>4. u[o] \in 1..P /\ v[k] \in 1..P
    BY <1>3
  <2>5. n = hi[k] + 1 /\ lo[o] = hi[k] + 2
    BY <2>2, <2>3, <2>4, GapIndex
  <2> QED BY <2>2, <2>5
<1>14. ASSUME K > 0
       PROVE  IF text[1] = "|" THEN lo[1] = 2 /\ IsPipe(T[1]) ELSE lo[1] = 1
  <2>1. 1 \in 1..K
    BY <1>3, <1>14
  <2>2. PICK l, f : l = lo[1] /\ f = u[1] /\ l \in 1..(m + 1) /\ f \in 1..P
    BY <1>3, <1>10, <2>1
  <2>3. \A n \in 1..m : a[n] < f <=> n < l
    BY <1>10, <2>1, <2>2
  <2>4. text[f] # "|"
    <3>1. PICK g \in 1..P : g = v[1] /\ f <= g
      BY <1>3, <1>4, <2>1, <2>2 DEF IsPart
    <3>2. f \in f..g
      BY <1>1, <2>2, <3>1
    <3> QED BY <1>4, <2>1, <2>2, <3>1, <3>2 DEF IsPart
  <2>5. CASE f = 1
    <3>1. ~(1 < l)
      <4> SUFFICES ASSUME 1 < l PROVE FALSE
        OBVIOUS
      <4>1. 1 \in 1..m
        BY <1>1, <2>2
      <4>2. PICK x \in 1..P : x = a[1] /\ x < f
        BY <1>1, <2>3, <4>1
      <4> QED BY <1>1, <2>5, <4>2
    <3>2. l = 1
      BY <1>1, <2>2, <3>1
    <3> QED BY <2>2, <2>4, <2>5, <3>2
  <2>6. CASE f # 1
    <3>1. Gap(text, P, 1, f - 1)
      BY <1>6, <1>14, <2>2, <2>6
    <3>2. PICK n \in 1..m : a[n] = 1 /\ e[n] = f - 1 /\ IsPipe(T[n])
      BY <3>1, GapToken
    <3>3. n = 1
      <4> SUFFICES ASSUME 1 < n PROVE FALSE
        BY <1>1
      <4>1. 1 \in 1..m
        BY <1>1
      <4>2. PICK x \in 1..P : x = a[1]
        BY <1>1, <4>1
      <4>3. x < 1
        BY <1>1, <3>2, <4>1, <4>2
      <4> QED BY <1>1, <4>2, <4>3
    <3>4. 1 < l
      <4>1. 1 < f
        BY <1>1, <2>2, <2>6
      <4> QED BY <2>3, <3>2, <3>3, <4>1
    <3>5. ~(2 < l)
      <4> SUFFICES ASSUME 2 < l PROVE FALSE
        OBVIOUS
      <4>1. 2 \in 1..m /\ 1 \in 1..m /\ 1 < 2
        BY <1>1, <2>2
      <4>2. PICK x \in 1..P : x = a[2] /\ x < f
        BY <1>1, <2>3, <4>1
      <4>3. f - 1 < x
        BY <1>1, <3>2, <3>3, <4>1, <4>2
      <4> QED BY <1>1, <2>2, <4>2, <4>3
    <3>6. l = 2
      BY <1>1, <2>2, <3>4, <3>5
    <3>7. text[1] = "|"
      <4>1. 1 \in 1..(f - 1)
        BY <1>1, <2>2, <2>6
      <4> QED BY <3>1, <4>1 DEF Gap
    <3> QED BY <2>2, <3>2, <3>3, <3>6, <3>7
  <2> QED BY <2>5, <2>6
<1>15. ASSUME P > 0, text[P] # "|" PROVE K > 0 /\ hi[K] = m
  <2>1. K > 0 /\ K \in 1..K /\ v[K] = P
    BY <1>3, <1>7, <1>15
  <2>2. PICK h : h = hi[K] /\ h \in 0..m
    BY <1>10, <2>1
  <2>3. m \in 1..m => m <= h
    <3> SUFFICES ASSUME m \in 1..m PROVE m <= h
      OBVIOUS
    <3>1. PICK x \in 1..P : x = a[m] /\ x <= P
      BY <1>1
    <3> QED BY <1>10, <2>1, <2>2, <3>1
  <2>4. h = m
    BY <1>1, <2>2, <2>3
  <2> QED BY <2>1, <2>2, <2>4
<1>16. ASSUME P > 0, text[P] = "|" PROVE m > 0 /\ IsPipe(T[m])
  <2>1. P \in 1..P /\ "|" \in Chars /\ P \in DOMAIN text
    BY <1>1, <1>16 DEF Chars, Text
  <2>2. Lexemes(text)[P] = "pipe" /\ Lexeme("|") = "pipe"
    <3>1. Lexeme("|") = "pipe"
      BY <2>1, LexemeIs
    <3> QED BY <1>16, <2>1, <3>1 DEF Lexemes
  <2>3. PICK n \in 1..m : a[n] <= P /\ P <= e[n]
    <3>1. Lexemes(text)[P] # "blank"
      BY <2>2
    <3> QED BY <2>1, <3>1 DEF Placed, IsRuns, Covered
  <2>4. PICK x \in 1..P, y \in 1..P : x = a[n] /\ y = e[n] /\ y = P
    BY <1>1, <2>3
  <2>5. n = m
    <3> SUFFICES ASSUME n < m PROVE FALSE
      BY <1>1
    <3>1. m \in 1..m
      BY <1>1
    <3>2. PICK z \in 1..P : z = a[m] /\ y < z
      BY <1>1, <2>4, <3>1
    <3> QED BY <1>1, <2>4, <3>2
  <2>6. Lexeme(text[x]) = "pipe" /\ T[n][1] = text[x] /\ text[x] \in Chars
    <3>a. \A i \in a[n]..e[n] : Lexeme(text[i]) = Lexeme(text[a[n]])
      BY TokenAt
    <3>b. T[n][1] = text[a[n]]
      BY TokenAt
    <3>1. /\ \A i \in x..y : Lexeme(text[i]) = Lexeme(text[x])
          /\ T[n][1] = text[x]
      BY <2>4, <3>a, <3>b
    <3>2. y \in x..y
      <4>1. x <= y
        BY <2>4, TokenAt
      <4> QED BY <1>1, <2>4, <4>1
    <3>3. text[x] \in Chars
      BY DEF Text
    <3> QED BY <1>16, <2>2, <2>4, <3>1, <3>2, <3>3
  <2>7. text[x] = "|"
    BY <2>6, LexemeIs
  <2>8. m > 0
    BY <1>1, <2>3
  <2> QED BY <2>5, <2>6, <2>7, <2>8 DEF IsPipe
<1>17. ASSUME P = 0 PROVE m = 0 /\ K = 0
  <2>1. 1..P = {}
    BY <1>17
  <2>2. m # 0 => a[1] \in 1..P
    BY <1>1
  <2>3. K # 0 => u[1] \in 1..P
    BY <1>3
  <2> QED BY <2>1, <2>2, <2>3
<1>18. Pieces(text, P, T, m, lo, hi, K)
  <2>1. \A k \in 1..K : lo[k] <= hi[k] + 1
    BY <1>10
  <2> QED BY <1>1, <1>3, <1>11, <1>12, <1>13, <1>14, <1>15, <1>16, <1>17, <2>1 DEF Pieces
<1>19. Parted(strtok(text, {"|"}), T, lo, hi, K)
  <2>a. PICK parts : parts = strtok(text, {"|"})
    OBVIOUS
  <2>b. parts = [k \in 1..K |-> SubSeq(text, u[k], v[k])]
    BY <1>3, <2>a
  <2>1. \A k \in 1..K : parts[k] = SubSeq(text, u[k], v[k])
    BY <2>b
  <2>2. ASSUME NEW k \in 1..K
        PROVE  parts[k] \in Text /\ strtok(parts[k], {"b", "n"}) = SubSeq(T, lo[k], hi[k])
    <3>1. PICK f, g : f = u[k] /\ g = v[k] /\ IsPart(text, P, f, g)
      BY <1>4
    <3>2. parts[k] = SubSeq(text, f, g) /\ f \in 1..P /\ g \in 1..P
      BY <2>1, <3>1 DEF IsPart
    <3>3. SubSeq(text, f, g) \in Seq(Chars)
      <4>1. \A i \in f..g : text[i] \in Chars
        <5>1. \A i \in f..g : i \in 1..P
          BY <1>1, <3>2
        <5> QED BY <5>1 DEF Text
      <4>2. f \in Int /\ g \in Int
        BY <1>1, <3>2
      <4> QED BY <4>1, <4>2, SubSeqProperties
    <3>4. Between(a, m, f, g, lo[k], hi[k])
      BY <1>8, <3>1 DEF Ends
    <3>5. strtok(SubSeq(text, f, g), {"b", "n"}) = SubSeq(T, lo[k], hi[k])
      BY <3>1, <3>4, PartTokens
    <3> QED BY <3>2, <3>3, <3>5 DEF Text
  <2>3. Len(parts) = K /\ DOMAIN parts = 1..K /\ parts = [k \in 1..K |-> parts[k]]
    <3>1. DOMAIN parts = 1..K /\ parts = [k \in 1..K |-> parts[k]]
      BY <2>b
    <3> QED BY <1>3, <3>1
  <2>4. parts \in [1..K -> Text]
    BY <2>2, <2>3
  <2>5. Parted(parts, T, lo, hi, K)
    BY <2>2, <2>3, <2>4 DEF Parted
  <2> QED BY <2>a, <2>5
<1> QED BY <1>18, <1>19

-----------------------------------------------------------------------------
(***************************************************************************)
(* check_syntax: no redirection before a pipe (SyntaxIsClean).             *)
(***************************************************************************)

\* No redirection is followed by a pipe, looked for in the tokens.
Clean(T, m) ==
  \A n, o \in 1..m : o = n + 1 => ~(Redirection(T[n][1]) /\ IsPipe(T[o]))

LEMMA SyntaxIsClean ==
  ASSUME NEW text \in Text, NEW P, P = Len(text), NEW T, NEW a, NEW e, NEW m,
         Placed(T, text, P, a, e, m)
  PROVE  check_syntax(text) <=> Clean(T, m)
<1>1. /\ P \in Nat /\ m \in Nat /\ a \in [1..m -> 1..P] /\ e \in [1..m -> 1..P]
      /\ \A n, o \in 1..m : n < o => e[n] < a[o]
      /\ \A n, o \in 1..m : n < o => a[n] < a[o]
  BY TokensOrdered
<1>2. DOMAIN text = 1..P /\ \A i \in 1..P : text[i] \in Chars /\ Lexemes(text)[i] = Lexeme(text[i])
  BY DEF Text, Lexemes
<1>3. \A c \in Chars : /\ Lexeme(c) = "pipe" <=> c = "|"
                       /\ Lexeme(c) = "blank" <=> c \in {"b", "n"}
                       /\ Lexeme(c) = "redirection" <=> Redirection(c)
  BY LexemeIs
<1>4. \A i \in 1..P : text[i] \notin {"b", "n"} => \E n \in 1..m : a[n] <= i /\ i <= e[n]
  <2>1. \A i \in 1..P : Lexemes(text)[i] # "blank" => \E n \in 1..m : a[n] <= i /\ i <= e[n]
    BY DEF Placed, IsRuns, Covered
  <2> QED BY <1>2, <1>3, <2>1
<1>5. ASSUME NEW i \in 1..P, NEW j \in 1..P, i < j, Redirection(text[i]), text[j] = "|",
             \A k \in (i + 1)..(j - 1) : text[k] \in {"b", "n"}
      PROVE  ~Clean(T, m)
  <2>1. /\ text[i] \notin {"b", "n"} /\ text[j] \notin {"b", "n"}
        /\ Lexeme(text[i]) = "redirection" /\ Lexeme(text[j]) = "pipe"
    BY <1>2, <1>3, <1>5 DEF Redirection
  <2>2. PICK n \in 1..m : a[n] <= i /\ i <= e[n]
    BY <1>4, <2>1
  <2>3. PICK o \in 1..m : a[o] <= j /\ j <= e[o]
    BY <1>4, <2>1
  <2>4. PICK x \in 1..P, y \in 1..P : x = a[n] /\ y = e[n] /\ x <= i /\ i <= y
    BY <1>1, <2>2
  <2>5. PICK f \in 1..P, g \in 1..P : f = a[o] /\ g = e[o] /\ f <= j /\ j <= g
    BY <1>1, <2>3
  <2>6. \A k \in x..y : k \in 1..P /\ Lexeme(text[k]) = "redirection"
    <3>1. \A k \in a[n]..e[n] : k \in 1..P /\ Lexeme(text[k]) = Lexeme(text[a[n]])
      BY TokenAt
    <3>2. i \in x..y
      BY <1>1, <2>4
    <3> QED BY <2>1, <2>4, <3>1, <3>2
  <2>7. \A k \in f..g : k \in 1..P /\ Lexeme(text[k]) = "pipe"
    <3>1. \A k \in a[o]..e[o] : k \in 1..P /\ Lexeme(text[k]) = Lexeme(text[a[o]])
      BY TokenAt
    <3>2. j \in f..g
      BY <1>1, <2>5
    <3> QED BY <2>1, <2>5, <3>1, <3>2
  <2>8. ~(i < y)
    <3> SUFFICES ASSUME i < y PROVE FALSE
      OBVIOUS
    <3>1. i + 1 \in x..y
      BY <1>1, <2>4
    <3>2. i + 1 = j \/ i + 1 \in (i + 1)..(j - 1)
      BY <1>1, <1>5
    <3>3. Lexeme(text[i + 1]) = "redirection"
      BY <2>6, <3>1
    <3>4. CASE i + 1 = j
      BY <2>1, <3>3, <3>4
    <3>5. CASE i + 1 \in (i + 1)..(j - 1)
      <4>1. text[i + 1] \in {"b", "n"} /\ text[i + 1] \in Chars
        BY <1>2, <1>5, <2>6, <3>1, <3>5
      <4> QED BY <1>3, <3>3, <4>1
    <3> QED BY <3>2, <3>4, <3>5
  <2>9. ~(f < j)
    <3> SUFFICES ASSUME f < j PROVE FALSE
      OBVIOUS
    <3>1. j - 1 \in f..g
      BY <1>1, <2>5
    <3>2. j - 1 = i \/ j - 1 \in (i + 1)..(j - 1)
      BY <1>1, <1>5
    <3>3. Lexeme(text[j - 1]) = "pipe"
      BY <2>7, <3>1
    <3>4. CASE j - 1 = i
      BY <2>1, <3>3, <3>4
    <3>5. CASE j - 1 \in (i + 1)..(j - 1)
      <4>1. text[j - 1] \in {"b", "n"} /\ text[j - 1] \in Chars
        BY <1>2, <1>5, <2>7, <3>1, <3>5
      <4> QED BY <1>3, <3>3, <4>1
    <3> QED BY <3>2, <3>4, <3>5
  <2>10. y = i /\ f = j
    BY <1>1, <2>4, <2>5, <2>8, <2>9
  <2>11. n < o
    <3>1. n # o
      <4> SUFFICES ASSUME n = o PROVE FALSE
        OBVIOUS
      <4>1. x = j
        BY <2>4, <2>5, <2>10
      <4> QED BY <1>1, <1>5, <2>4, <4>1
    <3>2. ~(o < n)
      <4> SUFFICES ASSUME o < n PROVE FALSE
        OBVIOUS
      <4>1. g < x
        BY <1>1, <2>4, <2>5
      <4> QED BY <1>1, <1>5, <2>4, <2>5, <4>1
    <3> QED BY <1>1, <3>1, <3>2
  <2>12. o = n + 1
    <3> SUFFICES ASSUME n + 1 < o PROVE FALSE
      BY <1>1, <2>11
    <3>1. PICK q \in 1..m : q = n + 1 /\ n < q /\ q < o
      BY <1>1
    <3>2. PICK r \in 1..P, s \in 1..P : r = a[q] /\ s = e[q]
      BY <1>1
    <3>3. y < r /\ r < f
      BY <1>1, <2>4, <2>5, <3>1, <3>2
    <3>4. r \in (i + 1)..(j - 1)
      BY <1>1, <2>10, <3>3
    <3>5. Lexeme(text[r]) # "blank"
      BY <3>2, TokenAt
    <3> QED BY <1>2, <1>3, <1>5, <3>4, <3>5
  <2>13. Redirection(T[n][1])
    <3>1. T[n][1] = text[a[n]]
      BY TokenAt
    <3>2. x \in x..y
      BY <1>1, <2>4
    <3> QED BY <1>2, <1>3, <2>4, <2>6, <3>1, <3>2
  <2>14. IsPipe(T[o])
    <3>1. T[o][1] = text[a[o]]
      BY TokenAt
    <3> QED BY <1>5, <2>5, <2>10, <3>1 DEF IsPipe
  <2> QED BY <2>12, <2>13, <2>14 DEF Clean
<1>6. ASSUME NEW n \in 1..m, NEW o \in 1..m, o = n + 1, Redirection(T[n][1]), IsPipe(T[o])
      PROVE  ~check_syntax(text)
  <2>1. PICK x \in 1..P, i \in 1..P : x = a[n] /\ i = e[n]
    BY <1>1
  <2>2. PICK j \in 1..P : j = a[o]
    BY <1>1
  <2>3. n < o
    BY <1>1, <1>6
  <2>4. i < j
    BY <1>1, <2>1, <2>2, <2>3
  <2>5. Redirection(text[i])
    <3>1. T[n][1] = text[a[n]] /\ a[n] <= e[n]
      BY TokenAt
    <3>2. \A k \in a[n]..e[n] : Lexeme(text[k]) = Lexeme(text[a[n]])
      BY TokenAt
    <3>3. i \in x..i
      BY <1>1, <2>1, <3>1
    <3>4. Lexeme(text[i]) = "redirection"
      BY <1>2, <1>3, <1>6, <2>1, <3>1, <3>2, <3>3
    <3> QED BY <1>2, <1>3, <3>4
  <2>6. text[j] = "|"
    <3>1. T[o][1] = text[a[o]]
      BY TokenAt
    <3> QED BY <1>6, <2>2, <3>1 DEF IsPipe
  <2>7. ASSUME NEW k \in (i + 1)..(j - 1) PROVE text[k] \in {"b", "n"}
    <3> SUFFICES ASSUME text[k] \notin {"b", "n"} PROVE FALSE
      OBVIOUS
    <3>1. k \in 1..P /\ i < k /\ k < j
      BY <1>1
    <3>2. PICK q \in 1..m : a[q] <= k /\ k <= e[q]
      BY <1>4, <3>1
    <3>3. PICK r \in 1..P, s \in 1..P : r = a[q] /\ s = e[q]
      BY <1>1
    <3>4. q < n \/ q = n \/ q = o \/ o < q
      BY <1>1, <1>6
    <3>5. CASE q < n
      <4>1. s < x /\ x <= i
        BY <1>1, <2>1, <3>3, <3>5, TokenAt
      <4> QED BY <1>1, <2>1, <3>1, <3>2, <3>3, <4>1
    <3>6. CASE q = n
      BY <1>1, <2>1, <3>1, <3>2, <3>3, <3>6
    <3>7. CASE q = o
      BY <1>1, <2>2, <3>1, <3>2, <3>3, <3>7
    <3>8. CASE o < q
      <4>1. j < r
        BY <1>1, <2>2, <3>3, <3>8
      <4> QED BY <1>1, <2>2, <3>1, <3>2, <3>3, <4>1
    <3> QED BY <3>4, <3>5, <3>6, <3>7, <3>8
  <2>8. i \in DOMAIN text /\ j \in DOMAIN text
    BY <1>2
  <2> QED BY <2>4, <2>5, <2>6, <2>7, <2>8 DEF check_syntax
<1>7. ASSUME ~check_syntax(text) PROVE ~Clean(T, m)
  BY <1>2, <1>5, <1>7 DEF check_syntax
<1>8. ASSUME ~Clean(T, m) PROVE ~check_syntax(text)
  BY <1>6, <1>8 DEF Clean
<1> QED BY <1>7, <1>8

-----------------------------------------------------------------------------
(***************************************************************************)
(* What tokenize makes of the tokens of one part (TokenizeUnderstood).     *)
(***************************************************************************)

\* What one token does to what was read before it.
Became(u, wants, argv, infile, outfile, append) ==
  /\ u.ok = TRUE /\ u.wants = wants /\ u.stage.argv = argv
  /\ u.stage.infile = infile /\ u.stage.outfile = outfile /\ u.stage.append = append

LEMMA TokenNamesInput ==
  ASSUME NEW t \in Tokenized, NEW tok \in Text, t.ok, t.wants = "in", ~IsOperator(tok)
  PROVE  Became(Token(t, tok), "word", t.stage.argv, tok, t.stage.outfile, t.stage.append)
<1>1. Token(t, tok) = [t EXCEPT !.stage.infile = tok, !.wants = "word"]
  BY Zenon DEF Token, IsOperator
<1>2. PICK u : u = Token(t, tok)
  OBVIOUS
<1>3. u.ok = t.ok /\ u.wants = "word" /\ u.stage = [t.stage EXCEPT !.infile = tok]
  BY <1>1, <1>2 DEF Tokenized
<1>4. /\ u.stage.argv = t.stage.argv /\ u.stage.infile = tok
      /\ u.stage.outfile = t.stage.outfile /\ u.stage.append = t.stage.append
  BY <1>3 DEF Tokenized, Stage
<1>5. u.ok = TRUE
  BY <1>3 DEF Tokenized
<1> QED BY <1>2, <1>3, <1>4, <1>5 DEF Became

LEMMA TokenNamesOutput ==
  ASSUME NEW t \in Tokenized, NEW tok \in Text, t.ok, t.wants \in {"out", "append"},
         ~IsOperator(tok)
  PROVE  Became(Token(t, tok), "word", t.stage.argv, t.stage.infile, tok, t.wants = "append")
<1>1. Token(t, tok) = [t EXCEPT !.stage.outfile = tok, !.wants = "word",
                                !.stage.append = (t.wants = "append")]
  <2>1. t.wants # "word" /\ t.wants # "in"
    OBVIOUS
  <2> QED BY <2>1, Zenon DEF Token, IsOperator
<1>2. PICK u, w : u = Token(t, tok) /\ w = (t.wants = "append")
  OBVIOUS
<1>3. /\ u.ok = t.ok /\ u.wants = "word"
      /\ u.stage = [t.stage EXCEPT !.outfile = tok, !.append = w]
  BY <1>1, <1>2 DEF Tokenized
<1>4. /\ u.stage.argv = t.stage.argv /\ u.stage.infile = t.stage.infile
      /\ u.stage.outfile = tok /\ u.stage.append = w
  BY <1>3 DEF Tokenized, Stage
<1>5. u.ok = TRUE
  BY <1>3 DEF Tokenized
<1> QED BY <1>2, <1>3, <1>4, <1>5 DEF Became

\* The redirection that a token asks for.
Wanted(tok) == IF tok = <<"<">> THEN "in" ELSE IF Len(tok) = 2 THEN "append" ELSE "out"

LEMMA TokenIsOperator ==
  ASSUME NEW t \in Tokenized, NEW tok \in Text, t.ok, t.wants = "word",
         \/ tok \in Input /\ t.stage.infile = NoFile
         \/ tok \in Output /\ t.stage.outfile = NoFile
  PROVE  Became(Token(t, tok), Wanted(tok), t.stage.argv, t.stage.infile, t.stage.outfile,
                t.stage.append)
<1>1. Token(t, tok) = [t EXCEPT !.wants = Wanted(tok)]
  <2>1. CASE tok \in Input /\ t.stage.infile = NoFile
    <3>1. tok = <<"<">>
      BY <2>1 DEF Input
    <3> QED BY <2>1, <3>1, Zenon DEF Token, Wanted
  <2>2. CASE tok \in Output /\ t.stage.outfile = NoFile
    <3>1. tok # <<"<">> /\ tok \in Redirections \ {<<"<">>}
      BY <2>2 DEF Output, Input
    <3> QED BY <2>2, <3>1, Zenon DEF Token, Wanted
  <2> QED BY <2>1, <2>2
<1>2. PICK u, w : u = Token(t, tok) /\ w = Wanted(tok)
  OBVIOUS
<1>3. u.ok = t.ok /\ u.wants = w /\ u.stage = t.stage
  BY <1>1, <1>2 DEF Tokenized
<1>4. u.ok = TRUE
  BY <1>3 DEF Tokenized
<1> QED BY <1>2, <1>3, <1>4 DEF Became

LEMMA TokenIsWord ==
  ASSUME NEW t \in Tokenized, NEW tok \in Text, t.ok, t.wants = "word", ~IsOperator(tok)
  PROVE  Became(Token(t, tok), "word", Append(t.stage.argv, tok), t.stage.infile,
                t.stage.outfile, t.stage.append)
<1>1. Token(t, tok) = [t EXCEPT !.stage.argv = Append(@, tok)]
  <2>1. tok \notin Redirections /\ tok # <<"<">> /\ tok \notin Redirections \ {<<"<">>}
    BY DEF IsOperator, Redirections
  <2> QED BY <2>1, Zenon DEF Token
<1>2. PICK u, w : u = Token(t, tok) /\ w = Append(t.stage.argv, tok)
  OBVIOUS
<1>3. u.ok = t.ok /\ u.wants = t.wants /\ u.stage = [t.stage EXCEPT !.argv = w]
  BY <1>1, <1>2 DEF Tokenized
<1>4. /\ u.stage.argv = w /\ u.stage.infile = t.stage.infile
      /\ u.stage.outfile = t.stage.outfile /\ u.stage.append = t.stage.append
  BY <1>3 DEF Tokenized, Stage
<1>5. u.ok = TRUE
  BY <1>3 DEF Tokenized
<1> QED BY <1>2, <1>3, <1>4, <1>5 DEF Became

LEMMA TokenFails ==
  ASSUME NEW t \in Tokenized, NEW tok \in Text, t.ok,
         \/ t.wants # "word" /\ IsOperator(tok)
         \/ t.wants = "word" /\ tok \in Input /\ t.stage.infile # NoFile
         \/ t.wants = "word" /\ tok \in Output /\ t.stage.outfile # NoFile
  PROVE  ~Token(t, tok).ok
<1>1. Token(t, tok) = Fail(t)
  <2>1. CASE t.wants # "word" /\ IsOperator(tok)
    BY <2>1, Zenon DEF Token, IsOperator
  <2>2. CASE t.wants = "word" /\ tok \in Input /\ t.stage.infile # NoFile
    <3>1. tok = <<"<">>
      BY <2>2 DEF Input
    <3> QED BY <2>2, <3>1, Zenon DEF Token
  <2>3. CASE t.wants = "word" /\ tok \in Output /\ t.stage.outfile # NoFile
    <3>1. tok # <<"<">> /\ tok \in Redirections \ {<<"<">>}
      BY <2>3 DEF Output, Input
    <3> QED BY <2>3, <3>1, Zenon DEF Token
  <2> QED BY <2>1, <2>2, <2>3
<1>2. Fail(t).ok = FALSE
  BY DEF Fail, Tokenized
<1> QED BY <1>1, <1>2

LEMMA TokenAfterFailure ==
  ASSUME NEW t \in Tokenized, NEW tok \in Text, ~t.ok
  PROVE  Token(t, tok) = t
BY Zenon DEF Token

\* The operators are >, >> and <.
LEMMA OperatorsAre ==
  ASSUME NEW tok
  PROVE  /\ IsOperator(tok) <=> tok \in Input \/ tok \in Output
         /\ ~(tok \in Input /\ tok \in Output)
         /\ tok \in Input => Wanted(tok) = "in"
         /\ tok = <<">", ">">> => tok \in Output
         /\ tok \in Output => Wanted(tok) = IF tok = <<">", ">">> THEN "append" ELSE "out"
         /\ IsOperator(tok) => Redirection(tok[1]) /\ ~IsPipe(tok) /\ Wanted(tok) # "word"
<1>1. /\ <<">">> # <<"<">> /\ <<">", ">">> # <<"<">> /\ <<">", ">">> # <<">">>
      /\ Len(<<">">>) = 1 /\ Len(<<">", ">">>) = 2
      /\ <<">">>[1] = ">" /\ <<">", ">">>[1] = ">" /\ <<"<">>[1] = "<"
  OBVIOUS
<1>2. Input = {<<"<">>} /\ Output = {<<">">>, <<">", ">">>}
  BY <1>1 DEF Input, Output, Redirections
<1>3. IsOperator(tok) <=> tok \in {<<">">>, <<">", ">">>, <<"<">>}
  BY DEF IsOperator, Redirections
<1> QED BY <1>1, <1>2, <1>3 DEF Wanted, Redirection, IsPipe

\* What tokenize makes of the first j tokens of a stage.
AtMostOne(s, j, ops) == \A i, k \in 1..j : s[i] \in ops /\ s[k] \in ops => i = k
Apart(s, j) == \A i, k \in 1..j : k = i + 1 => ~(IsOperator(s[i]) /\ IsOperator(s[k]))
Allowed(s, j) == Apart(s, j) /\ AtMostOne(s, j, Input) /\ AtMostOne(s, j, Output)

Followed(s, j, ops) == \E i, k \in 1..j : k = i + 1 /\ s[i] \in ops
FileIs(s, j, ops, file) ==
  \/ \E i, k \in 1..j : k = i + 1 /\ s[i] \in ops /\ file = s[k]
  \/ ~Followed(s, j, ops) /\ file = NoFile
Asks(s, j, wants) ==
  IF j \in 1..Len(s) /\ IsOperator(s[j]) THEN wants = Wanted(s[j]) ELSE wants = "word"
Words(s, j) == {i \in 1..j : IsWord(s, i)}
Argv(s, j, argv) ==
  \E a, c : Ordered(a, c, Words(s, j)) /\ argv = [n \in 1..c |-> s[a[n]]]
Reads(s, j, t) ==
  /\ Asks(s, j, t.wants) /\ Argv(s, j, t.stage.argv)
  /\ FileIs(s, j, Input, t.stage.infile) /\ FileIs(s, j, Output, t.stage.outfile)
  /\ t.stage.append <=> Followed(s, j, {<<">", ">">>})

\* The tokens of one stage.
StageTokens(s) == s \in Seq(Text) /\ \A i \in 1..Len(s) : s[i] # << >> /\ ~IsPipe(s[i])

LEMMA AllowedShrinks ==
  ASSUME NEW s, NEW k \in Nat, NEW j \in 0..k, Allowed(s, k) PROVE Allowed(s, j)
<1>1. \A i \in 1..j : i \in 1..k
  OBVIOUS
<1> QED BY <1>1 DEF Allowed, Apart, AtMostOne

\* The next token is no operator: what is allowed, who follows whom.
LEMMA AllowedBesides ==
  ASSUME NEW s, NEW j \in Nat, NEW k, k = j + 1, Allowed(s, j), ~IsOperator(s[k])
  PROVE  Allowed(s, k)
<1>1. \A i \in 1..k : i \in 1..j \/ i = k
  OBVIOUS
<1>2. s[k] \notin Input /\ s[k] \notin Output
  BY OperatorsAre
<1>3. Apart(s, k)
  BY <1>1 DEF Allowed, Apart
<1>4. AtMostOne(s, k, Input)
  <2>1. ASSUME NEW i \in 1..k, NEW o \in 1..k, s[i] \in Input, s[o] \in Input PROVE i = o
    <3>1. i \in 1..j /\ o \in 1..j
      BY <1>1, <1>2, <2>1
    <3> QED BY <2>1, <3>1 DEF Allowed, AtMostOne
  <2> QED BY <2>1 DEF AtMostOne
<1>5. AtMostOne(s, k, Output)
  <2>1. ASSUME NEW i \in 1..k, NEW o \in 1..k, s[i] \in Output, s[o] \in Output PROVE i = o
    <3>1. i \in 1..j /\ o \in 1..j
      BY <1>1, <1>2, <2>1
    <3> QED BY <2>1, <3>1 DEF Allowed, AtMostOne
  <2> QED BY <2>1 DEF AtMostOne
<1> QED BY <1>3, <1>4, <1>5 DEF Allowed

\* Nothing new follows an operator of these when the last token is none of them.
LEMMA FollowedStays ==
  ASSUME NEW s, NEW j \in Nat, NEW k, k = j + 1, NEW ops, j \in 1..j => s[j] \notin ops
  PROVE  /\ Followed(s, k, ops) <=> Followed(s, j, ops)
         /\ \A file : FileIs(s, j, ops, file) => FileIs(s, k, ops, file)
<1>1. \A i, o \in 1..k : o = i + 1 /\ s[i] \in ops => i \in 1..j /\ o \in 1..j
  <2>1. ASSUME NEW i \in 1..k, NEW o \in 1..k, o = i + 1, s[i] \in ops
        PROVE  i \in 1..j /\ o \in 1..j
    <3>1. i \in 1..j /\ (o = k => i = j)
      BY <2>1
    <3> QED BY <2>1, <3>1
  <2> QED BY <2>1
<1>2. \A i \in 1..j : i \in 1..k
  OBVIOUS
<1>3. Followed(s, k, ops) <=> Followed(s, j, ops)
  BY <1>1, <1>2 DEF Followed
<1>4. ASSUME NEW file, FileIs(s, j, ops, file) PROVE FileIs(s, k, ops, file)
  <2>1. CASE \E i, o \in 1..j : o = i + 1 /\ s[i] \in ops /\ file = s[o]
    BY <1>2, <2>1 DEF FileIs
  <2>2. CASE ~Followed(s, j, ops) /\ file = NoFile
    BY <1>3, <2>2 DEF FileIs
  <2> QED BY <1>4, <2>1, <2>2 DEF FileIs
<1> QED BY <1>3, <1>4

\* The words of a longer stage.
LEMMA WordsGrow ==
  ASSUME NEW s, NEW j \in Nat, NEW k, k = j + 1, NEW argv, Argv(s, j, argv),
         \A i \in 1..j : s[i] \in Text
  PROVE  /\ ~IsWord(s, k) => Argv(s, k, argv)
         /\ IsWord(s, k) => Argv(s, k, Append(argv, s[k]))
<1>1. k \in Nat /\ \A i : i \in 1..k <=> i \in 1..j \/ i = k
  OBVIOUS
<1>2. PICK a, c : Ordered(a, c, Words(s, j)) /\ argv = [n \in 1..c |-> s[a[n]]]
  BY DEF Argv
<1>3. Words(s, j) \in SUBSET (1..j)
  BY DEF Words
<1>4. c \in Nat /\ a \in [1..c -> Words(s, j)] /\ Ascends(a, c)
      /\ \A w \in Words(s, j) : \E i \in 1..c : a[i] = w
  BY <1>2 DEF Ordered
<1>5. ASSUME ~IsWord(s, k) PROVE Argv(s, k, argv)
  <2>1. Words(s, k) = Words(s, j)
    BY <1>1, <1>5 DEF Words
  <2> QED BY <1>2, <2>1 DEF Argv
<1>6. ASSUME IsWord(s, k) PROVE Argv(s, k, Append(argv, s[k]))
  <2> DEFINE d == c + 1
             b == [n \in 1..d |-> IF n = d THEN k ELSE a[n]]
  <2>1. \A w : w \in Words(s, k) <=> w \in Words(s, j) \/ w = k
    BY <1>1, <1>6 DEF Words
  <2>2. \A n \in 1..c : n \in 1..d /\ n # d /\ b[n] = a[n] /\ a[n] \in Words(s, j)
    BY <1>4
  <2>3. d \in 1..d /\ b[d] = k /\ d \in Nat
    BY <1>4
  <2>4. \A n \in 1..d : n \in 1..c \/ n = d
    BY <1>4
  <2>5. DOMAIN b = 1..d /\ b = [n \in 1..d |-> b[n]]
    OBVIOUS
  <2> HIDE DEF b
  <2>6. b \in [1..d -> Words(s, k)]
    BY <2>1, <2>2, <2>3, <2>4, <2>5
  <2>7. Ascends(b, d)
    <3>1. ASSUME NEW n \in 1..d, NEW o \in 1..d, n < o PROVE b[n] < b[o]
      <4>1. n \in 1..c
        BY <1>4, <3>1
      <4>2. CASE o \in 1..c
        BY <1>4, <2>2, <3>1, <4>1, <4>2 DEF Ascends
      <4>3. CASE o = d
        <5>1. b[n] \in 1..j
          BY <1>3, <2>2, <4>1
        <5> QED BY <2>3, <4>3, <5>1
      <4> QED BY <2>4, <4>2, <4>3
    <3> QED BY <3>1 DEF Ascends
  <2>8. \A w \in Words(s, k) : \E i \in 1..d : b[i] = w
    <3>1. ASSUME NEW w \in Words(s, k) PROVE \E i \in 1..d : b[i] = w
      <4>1. CASE w = k
        BY <2>3, <4>1
      <4>2. CASE w \in Words(s, j)
        <5>1. PICK i \in 1..c : a[i] = w
          BY <1>4, <4>2
        <5> QED BY <2>2, <5>1
      <4> QED BY <2>1, <4>1, <4>2
    <3> QED BY <3>1
  <2>9. Ordered(b, d, Words(s, k))
    BY <2>3, <2>6, <2>7, <2>8 DEF Ordered
  <2>10. Append(argv, s[k]) = [n \in 1..d |-> s[b[n]]]
    <3>1. argv \in Seq(Text) /\ Len(argv) = c
      <4>1. \A n \in 1..c : s[a[n]] \in Text
        BY <1>3, <1>4
      <4> QED BY <1>2, <1>4, <4>1
    <3>2. PICK r : r = Append(argv, s[k])
      OBVIOUS
    <3>3. r = [n \in 1..d |-> IF n = d THEN s[k] ELSE argv[n]]
      BY <1>4, <3>1, <3>2
    <3>4. \A n \in 1..d : (IF n = d THEN s[k] ELSE argv[n]) = s[b[n]]
      BY <1>2, <2>2, <2>3, <2>4
    <3> QED BY <3>2, <3>3, <3>4
  <2> QED BY <2>9, <2>10 DEF Argv
<1> QED BY <1>5, <1>6

Understood(s, j, t) == (t.ok <=> Allowed(s, j)) /\ (t.ok => Reads(s, j, t))

LEMMA TokenUnderstood ==
  ASSUME NEW s, StageTokens(s), NEW j \in 0..Len(s), NEW k \in 1..Len(s), k = j + 1,
         NEW t \in Tokenized, Understood(s, j, t)
  PROVE  Understood(s, k, Token(t, s[k]))
<1> DEFINE tok == s[k]
           u == Token(t, tok)
<1>1. /\ s \in Seq(Text) /\ Len(s) \in Nat /\ j \in Nat /\ k \in Nat /\ tok \in Text /\ tok # << >>
      /\ k \in 1..k /\ j \in 0..k /\ ~IsPipe(tok)
      /\ \A i \in 1..j : s[i] \in Text /\ s[i] # << >> /\ i \in 1..k
  BY DEF StageTokens
<1>2. j \in 1..j <=> j \in 1..Len(s)
  BY <1>1
<1>3. u \in Tokenized
  BY <1>1, TokenTyped
<1> HIDE DEF tok, u
<1>4. CASE ~t.ok
  <2>1. u = t
    BY <1>1, <1>4, TokenAfterFailure DEF u
  <2>2. ~Allowed(s, k)
    BY <1>1, <1>4, AllowedShrinks DEF Understood
  <2> QED BY <1>4, <2>1, <2>2 DEF Understood, u, tok
<1>5. CASE t.ok
  <2>1. Allowed(s, j) /\ Reads(s, j, t)
    BY <1>5 DEF Understood
  <2>2. /\ Asks(s, j, t.wants) /\ Argv(s, j, t.stage.argv)
        /\ FileIs(s, j, Input, t.stage.infile) /\ FileIs(s, j, Output, t.stage.outfile)
    BY <2>1 DEF Reads
  <2>a. t.stage.append <=> Followed(s, j, {<<">", ">">>})
    BY <2>1 DEF Reads
  <2>3. k \in 1..Len(s) /\ s[k] = tok
    BY DEF tok
  \* The file that a redirection asked for.
  <2>4. CASE t.wants # "word" /\ ~IsOperator(tok)
    <3>1. j \in 1..j /\ IsOperator(s[j]) /\ t.wants = Wanted(s[j])
      BY <1>2, <2>2, <2>4 DEF Asks
    <3>2. Allowed(s, k)
      BY <1>1, <2>1, <2>3, <2>4, AllowedBesides
    <3>3. ~IsWord(s, k)
      <4>1. k > 1 /\ k - 1 = j
        BY <1>1, <3>1
      <4> QED BY <3>1, <4>1 DEF IsWord, IsFile
    <3>4. Argv(s, k, t.stage.argv)
      BY <1>1, <2>2, <3>3, WordsGrow
    <3>5. Asks(s, k, "word")
      BY <2>3, <2>4 DEF Asks
    <3>6. CASE s[j] \in Input
      <4>1. t.wants = "in" /\ s[j] \notin Output /\ s[j] # <<">", ">">>
        BY <3>1, <3>6, OperatorsAre
      <4>2. Became(u, "word", t.stage.argv, tok, t.stage.outfile, t.stage.append)
        BY <1>1, <1>5, <2>4, <4>1, TokenNamesInput DEF u
      <4>3. FileIs(s, k, Input, tok)
        BY <1>1, <2>3, <3>1, <3>6 DEF FileIs
      <4>4. FileIs(s, k, Output, t.stage.outfile)
        BY <1>1, <2>2, <4>1, FollowedStays
      <4>5. Followed(s, k, {<<">", ">">>}) <=> Followed(s, j, {<<">", ">">>})
        BY <1>1, <4>1, FollowedStays
      <4>6. Reads(s, k, u) /\ u.ok
        BY <2>a, <3>4, <3>5, <4>2, <4>3, <4>4, <4>5 DEF Reads, Became
      <4> QED BY <3>2, <4>6 DEF Understood, u, tok
    <3>7. CASE s[j] \in Output
      <4>1. /\ t.wants \in {"out", "append"} /\ s[j] \notin Input
            /\ t.wants = "append" <=> s[j] = <<">", ">">>
        BY <3>1, <3>7, OperatorsAre
      <4>2. Became(u, "word", t.stage.argv, t.stage.infile, tok, t.wants = "append")
        BY <1>1, <1>5, <2>4, <4>1, TokenNamesOutput DEF u
      <4>3. FileIs(s, k, Output, tok)
        BY <1>1, <2>3, <3>1, <3>7 DEF FileIs
      <4>4. FileIs(s, k, Input, t.stage.infile)
        BY <1>1, <2>2, <4>1, FollowedStays
      <4>5. Followed(s, k, {<<">", ">">>}) <=> s[j] = <<">", ">">>
        <5>1. ASSUME Followed(s, k, {<<">", ">">>}) PROVE s[j] = <<">", ">">>
          <6>1. PICK i \in 1..k, o \in 1..k : o = i + 1 /\ s[i] = <<">", ">">>
            BY <5>1 DEF Followed
          <6>2. i \in 1..j /\ s[i] \in Output
            BY <1>1, <6>1, OperatorsAre
          <6>3. i = j
            BY <2>1, <3>1, <3>7, <6>2 DEF Allowed, AtMostOne
          <6> QED BY <6>1, <6>3
        <5>2. ASSUME s[j] = <<">", ">">> PROVE Followed(s, k, {<<">", ">">>})
          BY <1>1, <3>1, <5>2 DEF Followed
        <5> QED BY <5>1, <5>2
      <4>6. Reads(s, k, u) /\ u.ok
        BY <3>4, <3>5, <4>1, <4>2, <4>3, <4>4, <4>5 DEF Reads, Became
      <4> QED BY <3>2, <4>6 DEF Understood, u, tok
    <3> QED BY <3>1, <3>6, <3>7, OperatorsAre
  <2>5. CASE t.wants # "word" /\ IsOperator(tok)
    <3>1. j \in 1..k /\ IsOperator(s[j])
      BY <1>1, <1>2, <2>2, <2>5 DEF Asks
    <3>2. ~Allowed(s, k)
      BY <1>1, <2>3, <2>5, <3>1 DEF Allowed, Apart
    <3>3. ~u.ok
      BY <1>1, <1>5, <2>5, TokenFails DEF u
    <3> QED BY <3>2, <3>3 DEF Understood, u, tok
  <2>6. ASSUME t.wants = "word" PROVE j \in 1..j => ~IsOperator(s[j])
    BY <1>2, <2>2, <2>6, OperatorsAre DEF Asks
  \* A redirection: the second of its kind is refused.
  <2>7. ASSUME t.wants = "word", IsOperator(tok), NEW ops \in {Input, Output}, tok \in ops,
               NEW file, FileIs(s, j, ops, file)
        PROVE  file # NoFile <=> ~AtMostOne(s, k, ops)
    <3>1. j \in 1..j => s[j] \notin ops
      BY <2>6, <2>7, OperatorsAre
    <3>2. ASSUME file # NoFile PROVE ~AtMostOne(s, k, ops)
      <4>1. PICK i \in 1..j, o \in 1..j : o = i + 1 /\ s[i] \in ops
        BY <2>7, <3>2 DEF FileIs
      <4>2. i \in 1..k /\ i # k
        BY <1>1
      <4> QED BY <1>1, <2>3, <2>7, <4>1, <4>2 DEF AtMostOne
    <3>3. ASSUME ~AtMostOne(s, k, ops) PROVE file # NoFile
      <4>1. PICK i \in 1..k, o \in 1..k : s[i] \in ops /\ s[o] \in ops /\ i # o
        BY <3>3 DEF AtMostOne
      <4>2. AtMostOne(s, j, ops)
        BY <2>1, <2>7 DEF Allowed
      <4>3. PICK q \in 1..j : s[q] \in ops
        BY <1>1, <4>1
      <4>4. q # j
        BY <3>1, <4>3
      <4>5. PICK r \in 1..j : r = q + 1
        BY <1>1, <4>4
      <4>6. Followed(s, j, ops)
        BY <4>3, <4>5 DEF Followed
      <4>7. PICK f \in 1..j : file = s[f]
        BY <2>7, <4>6 DEF FileIs
      <4> QED BY <1>1, <4>7 DEF NoFile
    <3> QED BY <3>2, <3>3
  <2>8. ASSUME t.wants = "word", IsOperator(tok) PROVE Apart(s, k)
    <3>1. ASSUME NEW i \in 1..k, NEW o \in 1..k, o = i + 1, IsOperator(s[i]), IsOperator(s[o])
          PROVE  FALSE
      <4>1. CASE o = k
        <5>1. i = j /\ j \in 1..j
          BY <1>1, <3>1, <4>1
        <5> QED BY <2>6, <2>8, <3>1, <5>1
      <4>2. CASE o # k
        <5>1. i \in 1..j /\ o \in 1..j
          BY <1>1, <3>1, <4>2
        <5> QED BY <2>1, <3>1, <5>1 DEF Allowed, Apart
      <4> QED BY <4>1, <4>2
    <3> QED BY <3>1 DEF Apart
  <2>9. ASSUME NEW ops, tok \notin ops, AtMostOne(s, j, ops) PROVE AtMostOne(s, k, ops)
    <3>1. \A i \in 1..k : s[i] \in ops => i \in 1..j
      BY <1>1, <2>3, <2>9
    <3> QED BY <2>9, <3>1 DEF AtMostOne
  \* What a redirection leaves as it was.
  <2>10. ASSUME t.wants = "word", IsOperator(tok),
                Became(u, Wanted(tok), t.stage.argv, t.stage.infile, t.stage.outfile,
                       t.stage.append)
         PROVE  Reads(s, k, u) /\ u.ok
    <3>1. ~IsWord(s, k)
      BY <2>3, <2>10 DEF IsWord
    <3>2. Argv(s, k, t.stage.argv)
      BY <1>1, <2>2, <3>1, WordsGrow
    <3>3. Asks(s, k, Wanted(tok))
      BY <2>3, <2>10 DEF Asks
    <3>4. j \in 1..j => s[j] \notin Input /\ s[j] \notin Output /\ s[j] \notin {<<">", ">">>}
      BY <2>6, <2>10, OperatorsAre
    <3>5. FileIs(s, k, Input, t.stage.infile) /\ FileIs(s, k, Output, t.stage.outfile)
      BY <1>1, <2>2, <3>4, FollowedStays
    <3>6. Followed(s, k, {<<">", ">">>}) <=> Followed(s, j, {<<">", ">">>})
      BY <1>1, <3>4, FollowedStays
    <3> QED BY <2>a, <2>10, <3>2, <3>3, <3>5, <3>6 DEF Reads, Became
  <2>11. CASE t.wants = "word" /\ IsOperator(tok) /\ tok \in Input
    <3>1. tok \notin Output /\ AtMostOne(s, k, Output)
      BY <2>1, <2>9, <2>11, OperatorsAre DEF Allowed
    <3>2. t.stage.infile # NoFile <=> ~AtMostOne(s, k, Input)
      BY <2>2, <2>7, <2>11
    <3>3. Allowed(s, k) <=> t.stage.infile = NoFile
      BY <2>8, <2>11, <3>1, <3>2 DEF Allowed
    <3>4. CASE t.stage.infile = NoFile
      <4>1. Became(u, Wanted(tok), t.stage.argv, t.stage.infile, t.stage.outfile,
                   t.stage.append)
        BY <1>1, <1>5, <2>11, <3>4, TokenIsOperator DEF u
      <4> QED BY <2>10, <2>11, <3>3, <3>4, <4>1 DEF Understood, u, tok
    <3>5. CASE t.stage.infile # NoFile
      <4>1. ~u.ok
        BY <1>1, <1>5, <2>11, <3>5, TokenFails DEF u
      <4> QED BY <3>3, <3>5, <4>1 DEF Understood, u, tok
    <3> QED BY <3>4, <3>5
  <2>12. CASE t.wants = "word" /\ IsOperator(tok) /\ tok \in Output
    <3>1. tok \notin Input /\ AtMostOne(s, k, Input)
      BY <2>1, <2>9, <2>12, OperatorsAre DEF Allowed
    <3>2. t.stage.outfile # NoFile <=> ~AtMostOne(s, k, Output)
      BY <2>2, <2>7, <2>12
    <3>3. Allowed(s, k) <=> t.stage.outfile = NoFile
      BY <2>8, <2>12, <3>1, <3>2 DEF Allowed
    <3>4. CASE t.stage.outfile = NoFile
      <4>1. Became(u, Wanted(tok), t.stage.argv, t.stage.infile, t.stage.outfile,
                   t.stage.append)
        BY <1>1, <1>5, <2>12, <3>4, TokenIsOperator DEF u
      <4> QED BY <2>10, <2>12, <3>3, <3>4, <4>1 DEF Understood, u, tok
    <3>5. CASE t.stage.outfile # NoFile
      <4>1. ~u.ok
        BY <1>1, <1>5, <2>12, <3>5, TokenFails DEF u
      <4> QED BY <3>3, <3>5, <4>1 DEF Understood, u, tok
    <3> QED BY <3>4, <3>5
  <2>13. CASE t.wants = "word" /\ ~IsOperator(tok)
    <3>1. Became(u, "word", Append(t.stage.argv, tok), t.stage.infile, t.stage.outfile,
                 t.stage.append)
      BY <1>1, <1>5, <2>13, TokenIsWord DEF u
    <3>2. Allowed(s, k)
      BY <1>1, <2>1, <2>3, <2>13, AllowedBesides
    <3>3. IsWord(s, k)
      <4>1. k > 1 => j \in 1..j /\ k - 1 = j
        BY <1>1
      <4> QED BY <1>1, <2>3, <2>6, <2>13, <4>1 DEF IsWord, IsFile
    <3>4. Argv(s, k, Append(t.stage.argv, tok))
      BY <1>1, <2>2, <2>3, <3>3, WordsGrow
    <3>5. Asks(s, k, "word")
      BY <2>3, <2>13 DEF Asks
    <3>6. j \in 1..j => s[j] \notin Input /\ s[j] \notin Output /\ s[j] \notin {<<">", ">">>}
      BY <2>6, <2>13, OperatorsAre
    <3>7. FileIs(s, k, Input, t.stage.infile) /\ FileIs(s, k, Output, t.stage.outfile)
      BY <1>1, <2>2, <3>6, FollowedStays
    <3>8. Followed(s, k, {<<">", ">">>}) <=> Followed(s, j, {<<">", ">">>})
      BY <1>1, <3>6, FollowedStays
    <3>9. Reads(s, k, u) /\ u.ok
      BY <2>a, <3>1, <3>4, <3>5, <3>7, <3>8 DEF Reads, Became
    <3> QED BY <3>2, <3>9 DEF Understood, u, tok
  <2> QED BY <2>4, <2>5, <2>11, <2>12, <2>13, OperatorsAre
<1> QED BY <1>4, <1>5

\* All the tokens of a stage.
Complete(s, L) == /\ Allowed(s, L) /\ (L \in 1..L => ~IsOperator(s[L]))
                  /\ \E i \in 1..L : IsWord(s, i)
StageIs(s, L, st) ==
  /\ Argv(s, L, st.argv)
  /\ FileIs(s, L, Input, st.infile) /\ FileIs(s, L, Output, st.outfile)
  /\ st.append <=> Followed(s, L, {<<">", ">">>})

LEMMA FoldUnderstood ==
  ASSUME NEW s, StageTokens(s)
  PROVE  /\ FoldLeft(Token, Begun, s) \in Tokenized
         /\ Understood(s, Len(s), FoldLeft(Token, Begun, s))
<1> DEFINE L == Len(s)
<1>1. s \in Seq(Text) /\ L \in Nat
  BY DEF StageTokens
<1>2. PICK f : FoldsTo(s, f)
  BY <1>1, FoldSteps
<1>3. /\ f \in [0..L -> Tokenized] /\ f[0] = Begun /\ FoldLeft(Token, Begun, s) = f[L]
      /\ \A i \in 0..L : \A j \in 1..L : j = i + 1 => f[j] = Token(f[i], s[j])
  BY <1>2 DEF FoldsTo
<1> HIDE DEF L
<1>4. Understood(s, 0, f[0])
  <2>1. Begun.ok = TRUE /\ Begun.wants = "word" /\ Begun.stage = EmptyStage
    BY DEF Begun
  <2>2. /\ EmptyStage.argv = << >> /\ EmptyStage.infile = NoFile
        /\ EmptyStage.outfile = NoFile /\ EmptyStage.append = FALSE
    BY DEF EmptyStage
  <2>3. 1..0 = {} /\ 0 \notin 1..Len(s)
    OBVIOUS
  <2>4. Allowed(s, 0)
    BY <2>3 DEF Allowed, Apart, AtMostOne
  <2>5. Argv(s, 0, << >>)
    <3>1. PICK a : a = << >>
      OBVIOUS
    <3>2. a \in [1..0 -> Words(s, 0)] /\ Words(s, 0) = {}
      BY <2>3, <3>1 DEF Words
    <3>3. Ordered(a, 0, Words(s, 0))
      BY <2>3, <3>2 DEF Ordered, Ascends
    <3>4. << >> = [n \in 1..0 |-> s[a[n]]]
      BY <2>3
    <3> QED BY <3>3, <3>4 DEF Argv
  <2>6. Asks(s, 0, "word")
    BY <2>3 DEF Asks
  <2>7. \A ops : ~Followed(s, 0, ops) /\ FileIs(s, 0, ops, NoFile)
    BY <2>3 DEF Followed, FileIs
  <2>8. Reads(s, 0, Begun)
    BY <2>1, <2>2, <2>5, <2>6, <2>7 DEF Reads
  <2> QED BY <1>3, <2>1, <2>4, <2>8 DEF Understood
<1> DEFINE Bad == {j \in 0..L : ~Understood(s, j, f[j])}
<1>5. Bad = {}
  <2> SUFFICES ASSUME Bad # {} PROVE FALSE
    OBVIOUS
  <2>1. Bad \in SUBSET Nat
    BY <1>1
  <2>2. PICK k \in Bad : \A j \in Bad : k <= j
    BY <2>1, LeastNat
  <2>3. k \in 0..L /\ ~Understood(s, k, f[k])
    BY <2>2
  <2>4. k # 0
    BY <1>4, <2>3
  <2>5. PICK j \in 0..L : k = j + 1 /\ k \in 1..L /\ ~(k <= j)
    BY <1>1, <2>3, <2>4
  <2>6. Understood(s, j, f[j])
    BY <2>2, <2>5
  <2>7. f[j] \in Tokenized /\ f[k] = Token(f[j], s[k])
    BY <1>3, <2>5
  <2>8. Understood(s, k, Token(f[j], s[k]))
    BY <2>5, <2>6, <2>7, TokenUnderstood DEF L
  <2> QED BY <2>3, <2>7, <2>8
<1>6. L \in 0..L
  BY <1>1
<1>7. Understood(s, L, f[L])
  BY <1>5, <1>6
<1> QED BY <1>3, <1>6, <1>7 DEF L

LEMMA TokenizeUnderstood ==
  ASSUME NEW part, NEW s, s = strtok(part, {"b", "n"}), StageTokens(s), NEW L, L = Len(s)
  PROVE  /\ tokenize(part) \in Tokenized
         /\ tokenize(part).ok <=> Complete(s, L)
         /\ tokenize(part).ok => StageIs(s, L, tokenize(part).stage)
<1>1. PICK t : t = FoldLeft(Token, Begun, s)
  OBVIOUS
<1>2. t \in Tokenized /\ Understood(s, L, t) /\ L \in Nat
  BY <1>1, FoldUnderstood DEF StageTokens
<1>3. tokenize(part) = IF t.wants # "word" \/ t.stage.argv = << >> THEN Fail(t) ELSE t
  BY <1>1, Zenon DEF tokenize
<1>4. Fail(t) \in Tokenized /\ ~Fail(t).ok
  <2>1. Fail(t).ok = FALSE
    BY <1>2 DEF Fail, Tokenized
  <2> QED BY <1>2, <2>1, FailTyped
<1>5. (t.ok <=> Allowed(s, L)) /\ (t.ok => Reads(s, L, t))
  BY <1>2 DEF Understood
<1>6. ASSUME t.ok
      PROVE  /\ t.wants = "word" <=> (L \in 1..L => ~IsOperator(s[L]))
             /\ t.stage.argv = << >> <=> ~\E i \in 1..L : IsWord(s, i)
             /\ StageIs(s, L, t.stage)
  <2>1. Reads(s, L, t)
    BY <1>5, <1>6
  <2>2. Asks(s, L, t.wants)
    BY <2>1 DEF Reads
  <2>3. t.wants = "word" <=> (L \in 1..L => ~IsOperator(s[L]))
    BY <2>2, OperatorsAre DEF Asks
  <2>4. PICK a, c : Ordered(a, c, Words(s, L)) /\ t.stage.argv = [n \in 1..c |-> s[a[n]]]
    BY <2>1 DEF Reads, Argv
  <2>5. c \in Nat /\ a \in [1..c -> Words(s, L)] /\ \A w \in Words(s, L) : \E i \in 1..c : a[i] = w
    BY <2>4 DEF Ordered
  <2>6. t.stage.argv = << >> <=> c = 0
    BY <2>4, <2>5
  <2>7. c = 0 <=> Words(s, L) = {}
    <3>1. c = 0 => Words(s, L) = {}
      BY <2>5
    <3>2. c # 0 => 1 \in 1..c
      BY <2>5
    <3> QED BY <2>5, <3>1, <3>2
  <2>8. Words(s, L) = {} <=> ~\E i \in 1..L : IsWord(s, i)
    BY DEF Words
  <2>9. StageIs(s, L, t.stage)
    BY <2>1 DEF Reads, StageIs
  <2> QED BY <2>3, <2>6, <2>7, <2>8, <2>9
<1>7. CASE t.wants # "word" \/ t.stage.argv = << >>
  <2>1. tokenize(part) = Fail(t)
    BY <1>3, <1>7
  <2>2. ~Complete(s, L)
    BY <1>5, <1>6, <1>7 DEF Complete
  <2> QED BY <1>4, <2>1, <2>2
<1>8. CASE ~(t.wants # "word" \/ t.stage.argv = << >>)
  <2>1. tokenize(part) = t
    BY <1>3, <1>8
  <2>2. t.ok <=> Complete(s, L)
    BY <1>5, <1>6, <1>8 DEF Complete
  <2> QED BY <1>2, <1>6, <2>1, <2>2
<1> QED BY <1>7, <1>8

-----------------------------------------------------------------------------
(***************************************************************************)
(* The parts are the stages of the line, each understood as it is meant    *)
(* (StageMeant), and all accepted if the line is well formed               *)
(* (WholeIsAccepted).                                                      *)
(***************************************************************************)

\* A line whose first part has a token and whose last one ends it: its parts are
\* the stages of the tokens.
Whole(T, m, lo, hi, K) ==
  /\ m \in Nat /\ K \in Nat /\ K > 0 /\ m = Len(T)
  /\ lo \in [1..K -> 1..(m + 1)] /\ hi \in [1..K -> 0..m]
  /\ \A k \in 1..K : lo[k] <= hi[k] + 1
  /\ \A k \in 1..K : \A n \in lo[k]..hi[k] : ~IsPipe(T[n])
  /\ \A k, o \in 1..K : o = k + 1 => lo[o] = hi[k] + 2 /\ IsPipe(T[hi[k] + 1])
  /\ lo[1] = 1 \/ (lo[1] = 2 /\ IsPipe(T[1]))
  /\ hi[1] >= 1 /\ hi[K] = m

PipesTo(T, n) == {q \in 2..n : IsPipe(T[q])}

LEMMA StageGrows ==
  ASSUME NEW T, NEW q \in Nat, q >= 1, NEW n \in Nat, q < n, IsPipe(T[q + 1]),
         \A i \in (q + 2)..n : ~IsPipe(T[i])
  PROVE  StageOf(T, n) = StageOf(T, q) + 1
<1>1. IsFiniteSet(PipesTo(T, q)) /\ q + 1 \notin PipesTo(T, q)
  <2>1. IsFiniteSet(2..q)
    BY FS_Interval
  <2>2. PipesTo(T, q) \in SUBSET (2..q)
    BY DEF PipesTo
  <2>3. IsFiniteSet(PipesTo(T, q))
    BY <2>1, <2>2, FS_Subset
  <2> QED BY <2>3 DEF PipesTo
<1>2. PipesTo(T, n) = PipesTo(T, q) \cup {q + 1}
  <2>1. \A i \in 2..n : i \in 2..q \/ i = q + 1 \/ i \in (q + 2)..n
    OBVIOUS
  <2>2. q + 1 \in 2..n /\ \A i \in 2..q : i \in 2..n
    OBVIOUS
  <2> QED BY <2>1, <2>2 DEF PipesTo
<1>3. Cardinality(PipesTo(T, n)) = Cardinality(PipesTo(T, q)) + 1
  BY <1>1, <1>2, FS_AddElement
<1>4. Cardinality(PipesTo(T, q)) \in Nat
  BY <1>1, FS_CardinalityType
<1> QED BY <1>3, <1>4 DEF StageOf, PipesTo

LEMMA StagesAre ==
  ASSUME NEW T, NEW m, NEW lo, NEW hi, NEW K, Whole(T, m, lo, hi, K)
  PROVE  \A k \in 1..K : /\ hi[k] >= 1
                         /\ \A n \in 1..m : lo[k] - 1 <= n /\ n <= hi[k] => StageOf(T, n) = k
<1>1. m \in Nat /\ K \in Nat /\ 1 \in 1..K /\ lo \in [1..K -> 1..(m + 1)] /\ hi \in [1..K -> 0..m]
  BY DEF Whole
<1>2. \A k \in 1..K : \A n \in lo[k]..hi[k] : ~IsPipe(T[n])
  BY DEF Whole
<1> DEFINE Right(k) == /\ hi[k] >= 1
                       /\ \A n \in 1..m : lo[k] - 1 <= n /\ n <= hi[k] => StageOf(T, n) = k
           Bad == {k \in 1..K : ~Right(k)}
<1>3. Right(1)
  <2>1. hi[1] >= 1 /\ lo[1] <= 2
    BY DEF Whole
  <2>2. ASSUME NEW n \in 1..m, n <= hi[1] PROVE StageOf(T, n) = 1
    <3>1. PICK l, h : l = lo[1] /\ h = hi[1] /\ l \in 1..(m + 1) /\ h \in 0..m
      BY <1>1
    <3>2. \A i \in 2..n : i \in l..h
      BY <1>1, <2>1, <2>2, <3>1
    <3>3. PipesTo(T, n) = {}
      BY <1>1, <1>2, <3>1, <3>2 DEF PipesTo
    <3>4. Cardinality(PipesTo(T, n)) = 0
      BY <3>3, FS_EmptySet
    <3> QED BY <3>4 DEF StageOf, PipesTo
  <2> QED BY <2>1, <2>2
<1>4. Bad = {}
  <2> SUFFICES ASSUME Bad # {} PROVE FALSE
    OBVIOUS
  <2>1. Bad \in SUBSET Nat
    BY <1>1
  <2> HIDE DEF Right
  <2>2. PICK o \in Bad : \A k \in Bad : o <= k
    BY <2>1, LeastNat
  <2>3. o \in 1..K /\ ~Right(o) /\ o # 1
    BY <1>3, <2>2
  <2>4. PICK k \in 1..K : o = k + 1 /\ ~(o <= k)
    BY <1>1, <2>3
  <2>5. Right(k)
    BY <2>2, <2>4
  <2>6. PICK l, h, q, r : l = lo[o] /\ h = hi[o] /\ q = hi[k] /\ r = lo[k]
    OBVIOUS
  <2>7. /\ l \in 1..(m + 1) /\ h \in 0..m /\ q \in 0..m /\ r \in 1..(m + 1)
        /\ l <= h + 1 /\ r <= q + 1
    BY <1>1, <2>3, <2>6 DEF Whole
  <2>8. l = q + 2 /\ IsPipe(T[q + 1])
    BY <2>3, <2>4, <2>6 DEF Whole
  <2>9. q >= 1 /\ StageOf(T, q) = k
    <3>1. q >= 1 /\ \A n \in 1..m : r - 1 <= n /\ n <= q => StageOf(T, n) = k
      BY <2>5, <2>6 DEF Right
    <3>2. q \in 1..m /\ r - 1 <= q /\ q <= q
      BY <1>1, <2>7, <3>1
    <3> QED BY <3>1, <3>2
  <2>10. ASSUME NEW n \in 1..m, l - 1 <= n, n <= h PROVE StageOf(T, n) = o
    <3>1. q \in Nat /\ n \in Nat /\ q < n
      BY <1>1, <2>7, <2>8, <2>10
    <3>2. \A i \in (q + 2)..n : i \in l..h
      BY <1>1, <2>7, <2>8, <2>10
    <3>3. \A i \in (q + 2)..n : ~IsPipe(T[i])
      BY <1>2, <2>3, <2>6, <3>2
    <3> QED BY <2>4, <2>8, <2>9, <3>1, <3>3, StageGrows
  <2>11. h >= 1
    BY <1>1, <2>7, <2>8, <2>9
  <2>12. Right(o)
    BY <2>6, <2>10, <2>11 DEF Right
  <2> QED BY <2>3, <2>12
<1> QED BY <1>4

LEMMA StagesCover ==
  ASSUME NEW T, NEW m, NEW lo, NEW hi, NEW K, Whole(T, m, lo, hi, K), NEW n \in 1..m
  PROVE  \E k \in 1..K : lo[k] - 1 <= n /\ n <= hi[k]
<1>1. m \in Nat /\ K \in Nat /\ 1 \in 1..K /\ lo \in [1..K -> 1..(m + 1)] /\ hi \in [1..K -> 0..m]
  BY DEF Whole
<1> DEFINE S == {k \in 1..K : n <= hi[k]}
<1>2. S \in SUBSET Nat /\ K \in S
  <2>1. K \in 1..K /\ hi[K] = m
    BY DEF Whole
  <2> QED BY <1>1, <2>1
<1>3. PICK k \in S : \A o \in S : k <= o
  BY <1>2, LeastNat
<1>4. k \in 1..K /\ n <= hi[k]
  OBVIOUS
<1>5. lo[k] - 1 <= n
  <2>1. CASE k = 1
    <3>1. lo[1] <= 2
      BY DEF Whole
    <3> QED BY <1>1, <2>1, <3>1
  <2>2. CASE k # 1
    <3>1. PICK o \in 1..K : k = o + 1 /\ ~(k <= o)
      BY <1>1, <1>4, <2>2
    <3>2. ~(n <= hi[o])
      BY <1>3, <3>1
    <3>3. lo[k] = hi[o] + 2
      BY <1>4, <3>1 DEF Whole
    <3>4. hi[o] \in 0..m
      BY <1>1
    <3> QED BY <1>1, <3>2, <3>3, <3>4
  <2> QED BY <2>1, <2>2
<1> QED BY <1>4, <1>5

LEMMA PipeBefore ==
  ASSUME NEW T, NEW m, NEW lo, NEW hi, NEW K, Whole(T, m, lo, hi, K), NEW k \in 1..K,
         NEW n \in 1..m, n = lo[k] - 1
  PROVE  IsPipe(T[n])
<1>1. m \in Nat /\ K \in Nat /\ 1 \in 1..K /\ lo \in [1..K -> 1..(m + 1)] /\ hi \in [1..K -> 0..m]
  BY DEF Whole
<1>2. CASE k = 1
  <2>1. lo[1] = 2 /\ IsPipe(T[1])
    BY <1>2 DEF Whole
  <2> QED BY <1>2, <2>1
<1>3. CASE k # 1
  <2>1. PICK o \in 1..K : k = o + 1
    BY <1>1, <1>3
  <2>2. lo[k] = hi[o] + 2 /\ IsPipe(T[hi[o] + 1])
    BY <2>1 DEF Whole
  <2>3. n = hi[o] + 1
    <3>1. hi[o] \in 0..m
      BY <1>1
    <3> QED BY <1>1, <2>2, <3>1
  <2> QED BY <2>2, <2>3
<1> QED BY <1>2, <1>3

\* A token that is no pipe is of the stage whose part it is in.
LEMMA StageHas ==
  ASSUME NEW T, NEW m, NEW lo, NEW hi, NEW K, Whole(T, m, lo, hi, K)
  PROVE  /\ m \in 1..m /\ StageOf(T, m) = K
         /\ \A k \in 1..K, n \in 1..m :
              ~IsPipe(T[n]) => (StageOf(T, n) = k <=> lo[k] <= n /\ n <= hi[k])
<1>1. m \in Nat /\ K \in Nat /\ 1 \in 1..K /\ lo \in [1..K -> 1..(m + 1)] /\ hi \in [1..K -> 0..m]
  BY DEF Whole
<1>2. m \in 1..m /\ StageOf(T, m) = K
  <2>1. K \in 1..K /\ hi[K] = m /\ hi[K] >= 1 /\ lo[K] <= hi[K] + 1
    BY <1>1, StagesAre DEF Whole
  <2>2. m \in 1..m
    BY <1>1, <2>1
  <2>3. lo[K] - 1 <= m /\ m <= hi[K]
    BY <1>1, <2>1
  <2> QED BY <2>1, <2>2, <2>3, StagesAre
<1>3. ASSUME NEW k \in 1..K, NEW n \in 1..m, ~IsPipe(T[n])
      PROVE  StageOf(T, n) = k <=> lo[k] <= n /\ n <= hi[k]
  <2>1. ASSUME lo[k] <= n, n <= hi[k] PROVE StageOf(T, n) = k
    <3>1. lo[k] - 1 <= n
      BY <1>1, <2>1
    <3> QED BY <2>1, <3>1, StagesAre
  <2>2. ASSUME StageOf(T, n) = k PROVE lo[k] <= n /\ n <= hi[k]
    <3>1. PICK o \in 1..K : lo[o] - 1 <= n /\ n <= hi[o]
      BY StagesCover
    <3>2. StageOf(T, n) = o
      BY <3>1, StagesAre
    <3>3. o = k
      BY <2>2, <3>2
    <3>4. n # lo[k] - 1
      BY <1>3, PipeBefore
    <3>5. lo[k] \in 1..(m + 1) /\ hi[k] \in 0..m
      BY <1>1
    <3> QED BY <1>1, <3>1, <3>3, <3>4, <3>5
  <2> QED BY <2>1, <2>2
<1> QED BY <1>2, <1>3

\* The tokens of part k are those of the line, d further on.
PartAt(T, m, s, L, d) ==
  /\ L \in Nat /\ d \in Nat /\ d + L <= m /\ m \in Nat /\ Len(s) = L /\ StageTokens(s)
  /\ \A i \in 1..L : s[i] = T[d + i]
TokenSeq(T, m) == T \in Seq(Text) /\ m = Len(T) /\ \A n \in 1..m : T[n] # << >>

LEMMA PartIs ==
  ASSUME NEW T, NEW m, TokenSeq(T, m), NEW l \in 1..(m + 1), NEW h \in 0..m, l <= h + 1,
         \A n \in l..h : ~IsPipe(T[n]), NEW s, s = SubSeq(T, l, h)
  PROVE  PartAt(T, m, s, Len(s), l - 1) /\ Len(s) = h - l + 1
<1>1. m \in Nat /\ T \in Seq(Text) /\ \A n \in 1..m : T[n] \in Text /\ T[n] # << >>
  BY DEF TokenSeq
<1>2. PICK d, L : d = l - 1 /\ L = h - l + 1
  OBVIOUS
<1>3. d \in Nat /\ L \in Nat /\ d + L = h /\ d + L <= m
  BY <1>1, <1>2
<1>4. s \in Seq(Text) /\ Len(s) = L /\ \A i \in 1..(h - l + 1) : s[i] = T[l + i - 1]
  <2>1. \A n \in l..h : T[n] \in Text
    BY <1>1
  <2>2. l \in Int /\ h \in Int /\ (l <= h => L = h - l + 1) /\ (~(l <= h) => L = 0)
    BY <1>1, <1>2
  <2> QED BY <2>1, <2>2, SubSeqProperties
<1>5. ASSUME NEW i \in 1..L
      PROVE  s[i] = T[d + i] /\ d + i \in 1..m /\ d + i \in l..h
  <2>1. d + i = l + i - 1 /\ d + i \in 1..m /\ d + i \in l..h
    BY <1>1, <1>2, <1>3
  <2> QED BY <1>2, <1>4, <2>1
<1>6. StageTokens(s)
  BY <1>1, <1>4, <1>5 DEF StageTokens
<1>7. PartAt(T, m, s, L, d)
  BY <1>1, <1>3, <1>4, <1>5, <1>6 DEF PartAt
<1> QED BY <1>2, <1>4, <1>7

\* Part k is stage k: its words and its operators are those of the stage.
IsStage(T, m, s, L, d, k) ==
  /\ PartAt(T, m, s, L, d) /\ TokenSeq(T, m)
  /\ d \in 1..m => IsPipe(T[d])
  /\ \A n \in 1..m : ~IsPipe(T[n]) => (StageOf(T, n) = k <=> \E i \in 1..L : n = d + i)

LEMMA StageIsPart ==
  ASSUME NEW T, NEW m, TokenSeq(T, m), NEW lo, NEW hi, NEW K, Whole(T, m, lo, hi, K),
         NEW k \in 1..K, NEW s, s = SubSeq(T, lo[k], hi[k])
  PROVE  IsStage(T, m, s, Len(s), lo[k] - 1, k)
<1>1. PICK l, h : l = lo[k] /\ h = hi[k]
  OBVIOUS
<1>2. /\ m \in Nat /\ l \in 1..(m + 1) /\ h \in 0..m /\ l <= h + 1
      /\ \A n \in l..h : ~IsPipe(T[n])
  BY <1>1 DEF Whole
<1>3. PartAt(T, m, s, Len(s), l - 1) /\ Len(s) = h - l + 1
  BY <1>1, <1>2, PartIs
<1>4. ASSUME l - 1 \in 1..m PROVE IsPipe(T[l - 1])
  BY <1>1, <1>4, PipeBefore
<1>5. ASSUME NEW n \in 1..m, ~IsPipe(T[n])
      PROVE  StageOf(T, n) = k <=> \E i \in 1..Len(s) : n = (l - 1) + i
  <2>1. StageOf(T, n) = k <=> l <= n /\ n <= h
    BY <1>1, <1>5, StageHas
  <2>2. (l <= n /\ n <= h) => \E i \in 1..Len(s) : n = (l - 1) + i
    <3> SUFFICES ASSUME l <= n, n <= h PROVE \E i \in 1..Len(s) : n = (l - 1) + i
      OBVIOUS
    <3>1. n - l + 1 \in 1..Len(s) /\ n = (l - 1) + (n - l + 1)
      BY <1>2, <1>3
    <3> QED BY <3>1
  <2>3. ASSUME NEW i \in 1..Len(s), n = (l - 1) + i PROVE l <= n /\ n <= h
    BY <1>2, <1>3, <2>3
  <2> QED BY <2>1, <2>2, <2>3
<1> QED BY <1>1, <1>3, <1>4, <1>5 DEF IsStage

LEMMA StageWords ==
  ASSUME NEW T, NEW m, NEW s, NEW L, NEW d, NEW k, IsStage(T, m, s, L, d, k)
  PROVE  /\ \A i \in 1..L : IsWord(s, i) <=> IsWord(T, d + i)
         /\ \A n \in DOMAIN T : IsWord(T, n) /\ StageOf(T, n) = k
                                  <=> \E i \in 1..L : n = d + i /\ IsWord(s, i)
<1>1. /\ L \in Nat /\ d \in Nat /\ d + L <= m /\ m \in Nat
      /\ \A i \in 1..L : s[i] = T[d + i] /\ d + i \in 1..m
  BY DEF IsStage, PartAt
<1>2. DOMAIN T = 1..m
  BY DEF IsStage, TokenSeq
<1>3. ASSUME NEW i \in 1..L PROVE IsWord(s, i) <=> IsWord(T, d + i)
  <2>a. IsFile(s, i) <=> i > 1 /\ IsOperator(s[i - 1])
    BY DEF IsFile
  <2>b. IsFile(T, d + i) <=> d + i > 1 /\ IsOperator(T[d + i - 1])
    <3>1. d + i - 1 = (d + i) - 1
      BY <1>1
    <3> QED BY <3>1 DEF IsFile
  <2>1. IsFile(s, i) <=> IsFile(T, d + i)
    <3>1. CASE i = 1
      <4>1. ~IsFile(s, i)
        BY <2>a, <3>1
      <4>2. ASSUME d + i > 1 PROVE ~IsOperator(T[d + i - 1])
        <5>1. d \in 1..m /\ d + i - 1 = d
          BY <1>1, <3>1, <4>2
        <5>2. IsPipe(T[d])
          BY <5>1 DEF IsStage
        <5> QED BY <5>1, <5>2, OperatorsAre
      <4> QED BY <2>b, <4>1, <4>2
    <3>2. CASE i # 1
      <4>1. PICK j \in 1..L : j = i - 1 /\ d + j = d + i - 1 /\ i > 1 /\ d + i > 1
        BY <1>1, <3>2
      <4>2. s[i - 1] = T[d + i - 1]
        BY <1>1, <4>1
      <4>3. i > 1 /\ d + i > 1
        BY <4>1
      <4> QED BY <2>a, <2>b, <4>2, <4>3
    <3> QED BY <3>1, <3>2
  <2>2. s[i] = T[d + i]
    BY <1>1
  <2> QED BY <2>1, <2>2 DEF IsWord
<1>4. ASSUME NEW n \in 1..m
      PROVE  IsWord(T, n) /\ StageOf(T, n) = k <=> \E i \in 1..L : n = d + i /\ IsWord(s, i)
  <2>1. IsWord(T, n) => ~IsPipe(T[n])
    BY DEF IsWord
  <2>2. ~IsPipe(T[n]) => (StageOf(T, n) = k <=> \E i \in 1..L : n = d + i)
    BY DEF IsStage
  <2>3. ASSUME IsWord(T, n), StageOf(T, n) = k PROVE \E i \in 1..L : n = d + i /\ IsWord(s, i)
    BY <1>3, <2>1, <2>2, <2>3
  <2>4. ASSUME NEW i \in 1..L, n = d + i, IsWord(s, i) PROVE IsWord(T, n) /\ StageOf(T, n) = k
    BY <1>3, <2>1, <2>2, <2>4
  <2> QED BY <2>3, <2>4
<1> QED BY <1>2, <1>3, <1>4

LEMMA StageOperators ==
  ASSUME NEW T, NEW m, NEW s, NEW L, NEW d, NEW k, IsStage(T, m, s, L, d, k),
         NEW ops, \A tok \in ops : IsOperator(tok)
  PROVE  \A n : n \in Operators(T, k, ops) <=> \E i \in 1..L : n = d + i /\ s[i] \in ops
<1>1. /\ L \in Nat /\ d \in Nat /\ d + L <= m /\ m \in Nat
      /\ \A i \in 1..L : s[i] = T[d + i] /\ d + i \in 1..m
  BY DEF IsStage, PartAt
<1>2. DOMAIN T = 1..m
  BY DEF IsStage, TokenSeq
<1>3. ASSUME NEW n \in 1..m, T[n] \in ops
      PROVE  StageOf(T, n) = k <=> \E i \in 1..L : n = d + i
  <2>1. ~IsPipe(T[n])
    BY <1>3, OperatorsAre
  <2> QED BY <2>1 DEF IsStage
<1>4. ASSUME NEW n, n \in Operators(T, k, ops) PROVE \E i \in 1..L : n = d + i /\ s[i] \in ops
  <2>1. n \in 1..m /\ T[n] \in ops /\ StageOf(T, n) = k
    BY <1>2, <1>4 DEF Operators
  <2> QED BY <1>1, <1>3, <2>1
<1>5. ASSUME NEW i \in 1..L, s[i] \in ops PROVE d + i \in Operators(T, k, ops)
  <2>1. d + i \in 1..m /\ T[d + i] \in ops
    BY <1>1, <1>5
  <2>2. StageOf(T, d + i) = k
    BY <1>3, <2>1
  <2> QED BY <1>2, <2>1, <2>2 DEF Operators
<1> QED BY <1>4, <1>5

\* Their number says whether there are two, and whether there is one.
LEMMA StageCounts ==
  ASSUME NEW T, NEW m, NEW s, NEW L, NEW d, NEW k, IsStage(T, m, s, L, d, k),
         NEW ops, \A tok \in ops : IsOperator(tok)
  PROVE  /\ Cardinality(Operators(T, k, ops)) \in Nat
         /\ Cardinality(Operators(T, k, ops)) <= 1 <=> AtMostOne(s, L, ops)
         /\ Cardinality(Operators(T, k, ops)) <= 0 <=> ~\E i \in 1..L : s[i] \in ops
<1> DEFINE S == Operators(T, k, ops)
<1>1. \A n : n \in S <=> \E i \in 1..L : n = d + i /\ s[i] \in ops
  BY StageOperators
<1>2. L \in Nat /\ d \in Nat /\ m \in Nat /\ IsFiniteSet(S)
  <2>1. L \in Nat /\ d \in Nat /\ m \in Nat /\ DOMAIN T = 1..m
    BY DEF IsStage, PartAt, TokenSeq
  <2>2. S \in SUBSET (1..m) /\ IsFiniteSet(1..m)
    BY <2>1, FS_Interval DEF Operators
  <2> HIDE DEF S
  <2> QED BY <2>1, <2>2, FS_Subset
<1> HIDE DEF S
<1>3. Cardinality(S) \in Nat
  BY <1>2, FS_CardinalityType
<1>4. Cardinality(S) <= 0 <=> ~\E i \in 1..L : s[i] \in ops
  <2>1. Cardinality(S) = 0 <=> S = {}
    BY <1>2, FS_EmptySet
  <2>2. S = {} <=> ~\E i \in 1..L : s[i] \in ops
    BY <1>1
  <2> QED BY <1>3, <2>1, <2>2
<1>5. ASSUME AtMostOne(s, L, ops) PROVE Cardinality(S) <= 1
  <2>1. CASE S = {}
    <3>1. Cardinality(S) = 0
      BY <2>1, FS_EmptySet
    <3> QED BY <3>1
  <2>2. CASE S # {}
    <3>1. PICK x : x \in S
      BY <2>2
    <3>2. PICK i \in 1..L : x = d + i /\ s[i] \in ops
      BY <1>1, <3>1
    <3>3. \A y \in S : y = x
      BY <1>1, <1>5, <3>2 DEF AtMostOne
    <3>4. S = {x}
      BY <3>1, <3>3
    <3>5. Cardinality(S) = 1
      BY <3>4, FS_Singleton
    <3> QED BY <3>5
  <2> QED BY <2>1, <2>2
<1>6. ASSUME Cardinality(S) <= 1 PROVE AtMostOne(s, L, ops)
  <2>1. ASSUME NEW i \in 1..L, NEW j \in 1..L, s[i] \in ops, s[j] \in ops, i # j PROVE FALSE
    <3>1. PICK x, y : x = d + i /\ y = d + j
      OBVIOUS
    <3>2. x \in S /\ y \in S /\ x # y
      BY <1>1, <1>2, <2>1, <3>1
    <3>3. IsFiniteSet(S \ {x}) /\ Cardinality(S \ {x}) = Cardinality(S) - 1
      BY <1>2, <3>2, FS_RemoveElement
    <3>4. Cardinality(S \ {x}) = 0
      BY <1>3, <1>6, <3>3, FS_CardinalityType
    <3>5. S \ {x} = {}
      BY <3>3, <3>4, FS_EmptySet
    <3> QED BY <3>2, <3>5
  <2> QED BY <2>1 DEF AtMostOne
<1> QED BY <1>3, <1>4, <1>5, <1>6 DEF S

LEMMA StageFile ==
  ASSUME NEW T, NEW m, NEW s, NEW L, NEW d, NEW k, IsStage(T, m, s, L, d, k),
         NEW ops, \A tok \in ops : IsOperator(tok), AtMostOne(s, L, ops),
         L \in 1..L => ~IsOperator(s[L]), NEW file, FileIs(s, L, ops, file)
  PROVE  /\ file = FileOf(T, k, ops)
         /\ file = NoFile <=> ~\E i \in 1..L : s[i] \in ops
         /\ Followed(s, L, ops) <=> \E i \in 1..L : s[i] \in ops
<1>1. /\ L \in Nat /\ d \in Nat /\ d + L <= m /\ m \in Nat
      /\ \A i \in 1..L : s[i] = T[d + i] /\ d + i \in 1..m /\ s[i] # << >>
  BY DEF IsStage, PartAt, StageTokens
<1> DEFINE S == Operators(T, k, ops)
<1>2. \A n : n \in S <=> \E i \in 1..L : n = d + i /\ s[i] \in ops
  BY StageOperators
<1>3. FileOf(T, k, ops) = IF S = {} THEN NoFile ELSE T[1 + (CHOOSE n \in S : TRUE)]
  BY Zenon DEF FileOf
<1> HIDE DEF S
<1>4. CASE ~\E i \in 1..L : s[i] \in ops
  <2>1. S = {}
    BY <1>2, <1>4
  <2>2. file = NoFile /\ ~Followed(s, L, ops)
    BY <1>4 DEF FileIs, Followed
  <2> QED BY <1>3, <1>4, <2>1, <2>2
<1>5. CASE \E i \in 1..L : s[i] \in ops
  <2>1. PICK i \in 1..L : s[i] \in ops
    BY <1>5
  <2>2. PICK j \in 1..L : j = i + 1
    <3>1. i # L
      BY <1>1, <2>1
    <3> QED BY <1>1, <3>1
  <2>3. \A n : n \in S => n = d + i
    BY <1>2, <2>1 DEF AtMostOne
  <2>4. d + i \in S
    BY <1>2, <2>1
  <2>5. PICK c : c = CHOOSE n \in S : TRUE
    OBVIOUS
  <2>6. c = d + i
    BY <2>3, <2>4, <2>5
  <2>7. T[1 + c] = s[j]
    <3>1. 1 + c = d + j
      BY <1>1, <2>2, <2>6
    <3> QED BY <1>1, <3>1
  <2>8. FileOf(T, k, ops) = s[j]
    BY <1>3, <2>4, <2>5, <2>7
  <2>9. Followed(s, L, ops)
    BY <2>1, <2>2 DEF Followed
  <2>10. PICK f, g \in 1..L : g = f + 1 /\ s[f] \in ops /\ file = s[g]
    BY <2>9 DEF FileIs
  <2>11. f = i
    BY <2>1, <2>10 DEF AtMostOne
  <2>12. file = s[j] /\ s[j] # << >>
    BY <1>1, <2>2, <2>10, <2>11
  <2> QED BY <1>5, <2>8, <2>9, <2>12 DEF NoFile
<1> QED BY <1>4, <1>5

LEMMA StageArgv ==
  ASSUME NEW T, NEW m, NEW s, NEW L, NEW d, NEW k, IsStage(T, m, s, L, d, k),
         NEW argv, Argv(s, L, argv), NEW words,
         words = Ascending({n \in DOMAIN T : IsWord(T, n) /\ StageOf(T, n) = k})
  PROVE  argv = [n \in DOMAIN words |-> T[words[n]]]
<1>1. /\ L \in Nat /\ d \in Nat /\ d + L <= m /\ m \in Nat
      /\ \A i \in 1..L : s[i] = T[d + i] /\ d + i \in 1..m
  BY DEF IsStage, PartAt
<1>2. DOMAIN T = 1..m
  BY DEF IsStage, TokenSeq
<1> DEFINE S == {n \in DOMAIN T : IsWord(T, n) /\ StageOf(T, n) = k}
<1>3. \A n : n \in S <=> \E i \in 1..L : n = d + i /\ IsWord(s, i)
  <2>1. ASSUME NEW n \in DOMAIN T PROVE n \in S <=> \E i \in 1..L : n = d + i /\ IsWord(s, i)
    BY StageWords
  <2>2. ASSUME NEW i \in 1..L PROVE d + i \in DOMAIN T
    BY <1>1, <1>2
  <2> QED BY <2>1, <2>2
<1>4. words = Ascending(S)
  OBVIOUS
<1> HIDE DEF S
<1>5. PICK a, c : Ordered(a, c, Words(s, L)) /\ argv = [n \in 1..c |-> s[a[n]]]
  BY DEF Argv
<1>6. c \in Nat /\ a \in [1..c -> Words(s, L)] /\ Ascends(a, c)
      /\ \A w \in Words(s, L) : \E i \in 1..c : a[i] = w
  BY <1>5 DEF Ordered
<1>7. \A w : w \in Words(s, L) <=> w \in 1..L /\ IsWord(s, w)
  BY DEF Words
<1> DEFINE b == [n \in 1..c |-> d + a[n]]
<1>8. \A n \in 1..c : b[n] = d + a[n] /\ a[n] \in 1..L /\ b[n] \in S
  BY <1>3, <1>6, <1>7
<1>9. DOMAIN b = 1..c /\ b = [n \in 1..c |-> b[n]]
  OBVIOUS
<1> HIDE DEF b
<1>10. Ordered(b, c, S)
  <2>1. b \in [1..c -> S]
    BY <1>8, <1>9
  <2>2. Ascends(b, c)
    <3>1. ASSUME NEW i \in 1..c, NEW j \in 1..c, i < j PROVE b[i] < b[j]
      <4>1. PICK x \in 1..L, y \in 1..L : x = a[i] /\ y = a[j]
        BY <1>8
      <4>2. x < y
        BY <1>6, <3>1, <4>1 DEF Ascends
      <4>3. d + x < d + y
        BY <1>1, <4>2
      <4> QED BY <1>8, <4>1, <4>3
    <3> QED BY <3>1 DEF Ascends
  <2>3. \A n \in S : \E i \in 1..c : b[i] = n
    <3>1. ASSUME NEW n \in S PROVE \E i \in 1..c : b[i] = n
      <4>1. PICK i \in 1..L : n = d + i /\ IsWord(s, i)
        BY <1>3
      <4>2. PICK o \in 1..c : a[o] = i
        BY <1>6, <1>7, <4>1
      <4> QED BY <1>8, <4>1, <4>2
    <3> QED BY <3>1
  <2> QED BY <1>6, <2>1, <2>2, <2>3 DEF Ordered
<1>11. words = b
  <2>1. S \in SUBSET Nat
    BY <1>1, <1>3
  <2> QED BY <1>4, <1>6, <1>10, <2>1, AscendingIs
<1>12. \A n \in 1..c : s[a[n]] = T[b[n]]
  BY <1>1, <1>8
<1> QED BY <1>5, <1>9, <1>11, <1>12

LEMMA StageMeant ==
  ASSUME NEW T, NEW m, NEW s, NEW L, NEW d, NEW k, IsStage(T, m, s, L, d, k),
         Complete(s, L), NEW st \in Stage, StageIs(s, L, st)
  PROVE  /\ st = Meant(T, k)
         /\ st.infile = NoFile <=> ~\E i \in 1..L : s[i] \in Input
         /\ st.outfile = NoFile <=> ~\E i \in 1..L : s[i] \in Output
<1>1. /\ AtMostOne(s, L, Input) /\ AtMostOne(s, L, Output)
      /\ L \in 1..L => ~IsOperator(s[L])
  BY DEF Complete, Allowed
<1>2. /\ FileIs(s, L, Input, st.infile) /\ FileIs(s, L, Output, st.outfile)
      /\ Argv(s, L, st.argv)
  BY DEF StageIs
<1>3. st.append <=> Followed(s, L, {<<">", ">">>})
  BY DEF StageIs
<1>4. /\ \A tok \in Input : IsOperator(tok)
      /\ \A tok \in Output : IsOperator(tok)
      /\ \A tok \in {<<">", ">">>} : IsOperator(tok)
  BY OperatorsAre
<1>5. /\ st.infile = FileOf(T, k, Input)
      /\ st.infile = NoFile <=> ~\E i \in 1..L : s[i] \in Input
  BY <1>1, <1>2, <1>4, StageFile
<1>6. /\ st.outfile = FileOf(T, k, Output)
      /\ st.outfile = NoFile <=> ~\E i \in 1..L : s[i] \in Output
  BY <1>1, <1>2, <1>4, StageFile
<1>7. PICK words :
        words = Ascending({n \in DOMAIN T : IsWord(T, n) /\ StageOf(T, n) = k})
  OBVIOUS
<1>8. st.argv = [n \in DOMAIN words |-> T[words[n]]]
  BY <1>2, <1>7, StageArgv
<1>9. st.append <=> Operators(T, k, {<<">", ">">>}) # {}
  <2> DEFINE S == Operators(T, k, {<<">", ">">>})
  <2>1. \A n : n \in S <=> \E i \in 1..L : n = d + i /\ s[i] \in {<<">", ">">>}
    BY <1>4, StageOperators
  <2> HIDE DEF S
  <2>2. L \in Nat
    BY DEF IsStage, PartAt
  <2>3. Followed(s, L, {<<">", ">">>}) <=> \E i \in 1..L : s[i] \in {<<">", ">">>}
    <3>1. ASSUME NEW i \in 1..L, s[i] \in {<<">", ">">>}
          PROVE  Followed(s, L, {<<">", ">">>})
      <4>1. IsOperator(s[i])
        BY <1>4, <3>1
      <4>2. i # L
        BY <1>1, <4>1
      <4>3. i + 1 \in 1..L
        BY <2>2, <4>2
      <4> QED BY <3>1, <4>3 DEF Followed
    <3> QED BY <3>1 DEF Followed
  <2>4. S # {} <=> \E i \in 1..L : s[i] \in {<<">", ">">>}
    BY <2>1
  <2> QED BY <1>3, <2>3, <2>4 DEF S
<1>10. PICK mt, ap : /\ ap = (Operators(T, k, {<<">", ">">>}) # {})
                     /\ mt = [argv |-> [n \in DOMAIN words |-> T[words[n]]],
                              infile |-> FileOf(T, k, Input), outfile |-> FileOf(T, k, Output),
                              append |-> ap]
  OBVIOUS
<1>11. Meant(T, k) = mt
  BY <1>7, <1>10, Zenon DEF Meant
<1>12. st.append = ap /\ st.append \in BOOLEAN
  BY <1>9, <1>10 DEF Stage
<1>13. st = [argv |-> st.argv, infile |-> st.infile, outfile |-> st.outfile, append |-> st.append]
  BY DEF Stage
<1>14. st = mt
  BY <1>5, <1>6, <1>8, <1>10, <1>12, <1>13
<1> QED BY <1>5, <1>6, <1>11, <1>14

\* What WellFormed asks of a stage, and what the code does.
StageAllowed(T, st, last) ==
  /\ \E n \in DOMAIN T : StageOf(T, n) = st /\ IsWord(T, n)
  /\ Cardinality(Operators(T, st, Input)) <= (IF st = 1 THEN 1 ELSE 0)
  /\ Cardinality(Operators(T, st, Output)) <= (IF st = last THEN 1 ELSE 0)
Ends(s, L) == L \in 1..L => ~IsOperator(s[L])
Stagewise(s, L, k, K) ==
  /\ Complete(s, L)
  /\ k = 1 \/ ~\E i \in 1..L : s[i] \in Input
  /\ k = K \/ ~\E i \in 1..L : s[i] \in Output
Fine(part, k, K) ==
  /\ tokenize(part).ok
  /\ k = 1 \/ tokenize(part).stage.infile = NoFile
  /\ k = K \/ tokenize(part).stage.outfile = NoFile

LEMMA StageIsAllowed ==
  ASSUME NEW T, NEW m, NEW s, NEW L, NEW d, NEW k, IsStage(T, m, s, L, d, k), NEW K
  PROVE  Stagewise(s, L, k, K) <=> StageAllowed(T, k, K) /\ Apart(s, L) /\ Ends(s, L)
<1>1. /\ \A tok \in Input : IsOperator(tok)
      /\ \A tok \in Output : IsOperator(tok)
  BY OperatorsAre
<1>2. PICK x, y : x = Cardinality(Operators(T, k, Input)) /\ y = Cardinality(Operators(T, k, Output))
  OBVIOUS
<1>3. /\ x \in Nat
      /\ x <= 1 <=> AtMostOne(s, L, Input)
      /\ x <= 0 <=> ~\E i \in 1..L : s[i] \in Input
  BY <1>1, <1>2, StageCounts
<1>4. /\ y \in Nat
      /\ y <= 1 <=> AtMostOne(s, L, Output)
      /\ y <= 0 <=> ~\E i \in 1..L : s[i] \in Output
  BY <1>1, <1>2, StageCounts
<1>5. (\E n \in DOMAIN T : StageOf(T, n) = k /\ IsWord(T, n)) <=> \E i \in 1..L : IsWord(s, i)
  <2>1. \A n \in DOMAIN T : IsWord(T, n) /\ StageOf(T, n) = k
                              <=> \E i \in 1..L : n = d + i /\ IsWord(s, i)
    BY StageWords
  <2>2. \A i \in 1..L : d + i \in DOMAIN T
    BY DEF IsStage, PartAt, TokenSeq
  <2> QED BY <2>1, <2>2
<1>6. x <= (IF k = 1 THEN 1 ELSE 0)
        <=> AtMostOne(s, L, Input) /\ (k = 1 \/ ~\E i \in 1..L : s[i] \in Input)
  <2>1. x <= 0 => x <= 1
    BY <1>3
  <2> QED BY <1>3, <2>1
<1>7. y <= (IF k = K THEN 1 ELSE 0)
        <=> AtMostOne(s, L, Output) /\ (k = K \/ ~\E i \in 1..L : s[i] \in Output)
  <2>1. y <= 0 => y <= 1
    BY <1>4
  <2> QED BY <1>4, <2>1
<1> QED BY <1>2, <1>5, <1>6, <1>7, Zenon DEF Stagewise, Complete, Allowed, StageAllowed, Ends

LEMMA PartIsFine ==
  ASSUME NEW T, NEW m, NEW s, NEW L, NEW d, NEW k, IsStage(T, m, s, L, d, k), NEW K,
         NEW part, s = strtok(part, {"b", "n"})
  PROVE  /\ Fine(part, k, K) <=> Stagewise(s, L, k, K)
         /\ Fine(part, k, K) => tokenize(part).stage = Meant(T, k)
<1>1. StageTokens(s) /\ L = Len(s)
  BY DEF IsStage, PartAt
<1>2. PICK t : t = tokenize(part)
  OBVIOUS
<1>3. /\ t.ok <=> Complete(s, L)
      /\ t.ok => StageIs(s, L, t.stage)
  BY <1>1, <1>2, TokenizeUnderstood
<1>4. t \in Tokenized
  BY <1>1, <1>2, TokenizeUnderstood
<1>5. t.stage \in Stage
  BY <1>4 DEF Tokenized
<1>6. ASSUME t.ok
      PROVE  /\ t.stage = Meant(T, k)
             /\ t.stage.infile = NoFile <=> ~\E i \in 1..L : s[i] \in Input
             /\ t.stage.outfile = NoFile <=> ~\E i \in 1..L : s[i] \in Output
  <2>1. Complete(s, L) /\ StageIs(s, L, t.stage)
    BY <1>3, <1>6
  <2> QED BY <1>5, <2>1, StageMeant
<1>7. Fine(part, k, K) <=>
        /\ t.ok
        /\ k = 1 \/ t.stage.infile = NoFile
        /\ k = K \/ t.stage.outfile = NoFile
  BY <1>2 DEF Fine
<1>8. Fine(part, k, K) <=> Stagewise(s, L, k, K)
  BY <1>3, <1>6, <1>7, Zenon DEF Stagewise
<1> QED BY <1>2, <1>6, <1>7, <1>8

\* What WellFormed asks of neighbouring tokens.
Neighbours(T, m) ==
  \A n \in 1..(m - 1) :
    /\ IsPipe(T[n]) => ~IsPipe(T[n + 1])
    /\ Redirection(T[n][1]) => ~IsPipe(T[n + 1])
    /\ IsOperator(T[n]) => ~IsOperator(T[n + 1])

LEMMA NeighboursInPart ==
  ASSUME NEW T, NEW m, TokenSeq(T, m), NEW lo, NEW hi, NEW K, Whole(T, m, lo, hi, K),
         NEW k \in 1..K, NEW s, NEW L, NEW d, PartAt(T, m, s, L, d), d = lo[k] - 1,
         L = hi[k] - lo[k] + 1, Neighbours(T, m), ~IsOperator(T[m])
  PROVE  Apart(s, L) /\ Ends(s, L)
<1>1. /\ L \in Nat /\ d \in Nat /\ d + L <= m /\ m \in Nat
      /\ \A i \in 1..L : s[i] = T[d + i]
  BY DEF PartAt
<1>2. PICK l, h : l = lo[k] /\ h = hi[k] /\ l \in 1..(m + 1) /\ h \in 0..m /\ K \in Nat
  BY DEF Whole
<1>3. Apart(s, L)
  <2>1. ASSUME NEW i \in 1..L, NEW j \in 1..L, j = i + 1, IsOperator(s[i]), IsOperator(s[j])
        PROVE  FALSE
    <3>1. PICK n \in 1..(m - 1) : n = d + i /\ n + 1 = d + j
      BY <1>1, <2>1
    <3>2. IsOperator(T[n]) /\ IsOperator(T[n + 1])
      BY <1>1, <2>1, <3>1
    <3> QED BY <3>2 DEF Neighbours
  <2> QED BY <2>1 DEF Apart
<1>4. Ends(s, L)
  <2> SUFFICES ASSUME L \in 1..L PROVE ~IsOperator(s[L])
    BY DEF Ends
  <2>1. d + L = h /\ s[L] = T[h] /\ h \in 1..m
    <3>1. d + L = h
      BY <1>1, <1>2
    <3> QED BY <1>1, <1>2, <3>1
  <2>2. CASE k = K
    <3>1. h = m
      BY <1>2, <2>2 DEF Whole
    <3> QED BY <2>1, <3>1
  <2>3. CASE k # K
    <3>1. PICK o \in 1..K : o = k + 1
      BY <1>2, <2>3
    <3>2. IsPipe(T[h + 1]) /\ lo[o] = h + 2 /\ lo[o] \in 1..(m + 1)
      BY <1>2, <3>1 DEF Whole
    <3>3. h \in 1..(m - 1)
      BY <1>1, <2>1, <3>2
    <3>4. ~Redirection(T[h][1])
      BY <3>2, <3>3 DEF Neighbours
    <3> QED BY <2>1, <3>4, OperatorsAre
  <2> QED BY <2>2, <2>3
<1> QED BY <1>3, <1>4

LEMMA PartsMakeNeighbours ==
  ASSUME NEW T, NEW m, TokenSeq(T, m), NEW lo, NEW hi, NEW K, Whole(T, m, lo, hi, K),
         Clean(T, m),
         \A k \in 1..K : \E s, L : /\ PartAt(T, m, s, L, lo[k] - 1) /\ L = hi[k] - lo[k] + 1
                                   /\ L > 0 /\ Apart(s, L) /\ Ends(s, L)
  PROVE  Neighbours(T, m) /\ ~IsPipe(T[m]) /\ ~IsOperator(T[m])
<1>1. /\ m \in Nat /\ K \in Nat /\ K \in 1..K /\ hi[K] = m
      /\ lo \in [1..K -> 1..(m + 1)] /\ hi \in [1..K -> 0..m]
  BY DEF Whole
<1>2. ASSUME NEW k \in 1..K
      PROVE  /\ lo[k] <= hi[k]
             /\ \A n \in lo[k]..hi[k] : ~IsPipe(T[n])
             /\ \A n \in lo[k]..(hi[k] - 1) : IsOperator(T[n]) => ~IsOperator(T[n + 1])
             /\ ~IsOperator(T[hi[k]])
  <2>1. PICK s, L : /\ PartAt(T, m, s, L, lo[k] - 1) /\ L = hi[k] - lo[k] + 1
                    /\ L > 0 /\ Apart(s, L) /\ Ends(s, L)
    OBVIOUS
  <2>2. PICK l, h, d : l = lo[k] /\ h = hi[k] /\ d = l - 1 /\ l \in 1..(m + 1) /\ h \in 0..m
    BY <1>1
  <2>3. L \in Nat /\ \A i \in 1..L : s[i] = T[d + i]
    BY <2>1, <2>2 DEF PartAt
  <2>4. l <= h /\ L = h - l + 1
    BY <1>1, <2>1, <2>2
  <2>a. /\ l \in Int /\ h \in Int /\ d \in Int /\ L \in Int /\ L > 0
        /\ d = l - 1 /\ L = h - l + 1
    BY <1>1, <2>1, <2>2, <2>3, <2>4
  <2>5. \A n \in lo[k]..hi[k] : ~IsPipe(T[n])
    BY DEF Whole
  <2>6. ASSUME NEW n \in l..(h - 1), IsOperator(T[n]) PROVE ~IsOperator(T[n + 1])
    <3>1. PICK i \in 1..L, j \in 1..L : j = i + 1 /\ n = d + i /\ n + 1 = d + j
      <4>1. /\ n - d \in 1..L /\ n - d + 1 \in 1..L
            /\ n = d + (n - d) /\ n + 1 = d + (n - d + 1)
        BY <2>a
      <4> QED BY <4>1
    <3>2. s[i] = T[n] /\ s[j] = T[n + 1]
      BY <2>3, <3>1
    <3> QED BY <2>1, <2>6, <3>1, <3>2 DEF Apart
  <2>7. ~IsOperator(T[h])
    <3>1. L \in 1..L /\ d + L = h
      BY <2>a
    <3>2. s[L] = T[h]
      BY <2>3, <3>1
    <3> QED BY <2>1, <3>1, <3>2 DEF Ends
  <2> QED BY <2>2, <2>4, <2>5, <2>6, <2>7
<1>3. ~IsPipe(T[m]) /\ ~IsOperator(T[m])
  <2>1. lo[K] <= m /\ lo[K] \in 1..(m + 1)
    BY <1>1, <1>2
  <2>2. m \in lo[K]..hi[K]
    BY <1>1, <2>1
  <2> QED BY <1>1, <1>2, <2>2
<1>4. ASSUME NEW n \in 1..(m - 1)
      PROVE  /\ IsPipe(T[n]) => ~IsPipe(T[n + 1])
             /\ Redirection(T[n][1]) => ~IsPipe(T[n + 1])
             /\ IsOperator(T[n]) => ~IsOperator(T[n + 1])
  <2>1. n \in 1..m /\ n + 1 \in 1..m
    BY <1>1
  <2>2. Redirection(T[n][1]) => ~IsPipe(T[n + 1])
    BY <2>1 DEF Clean
  <2>3. PICK k \in 1..K : lo[k] - 1 <= n /\ n <= hi[k]
    BY <2>1, StagesCover
  <2>4. PICK l, h : l = lo[k] /\ h = hi[k] /\ l \in 1..(m + 1) /\ h \in 0..m
    BY <1>1
  <2>5. l <= h
    BY <1>2, <2>4
  <2>a. l \in Int /\ h \in Int /\ l - 1 <= n /\ n <= h /\ n \in Int
    BY <1>1, <2>1, <2>3, <2>4
  <2>6. CASE n = l - 1
    <3>1. IsPipe(T[n])
      BY <2>1, <2>4, <2>6, PipeBefore
    <3>2. n + 1 \in l..h
      BY <2>a, <2>5, <2>6
    <3>3. ~IsPipe(T[n + 1])
      BY <1>2, <2>4, <3>2
    <3>4. ~IsOperator(T[n])
      BY <3>1, OperatorsAre
    <3> QED BY <2>2, <3>3, <3>4
  <2>7. CASE n # l - 1
    <3>1. n \in l..h
      BY <2>a, <2>7
    <3>2. ~IsPipe(T[n])
      BY <1>2, <2>4, <3>1
    <3>3. IsOperator(T[n]) => ~IsOperator(T[n + 1])
      <4>1. CASE n = h
        BY <1>2, <2>4, <4>1
      <4>2. CASE n # h
        <5>1. n \in l..(h - 1)
          BY <1>1, <2>4, <3>1, <4>2
        <5> QED BY <1>2, <2>4, <5>1
      <4> QED BY <4>1, <4>2
    <3> QED BY <2>2, <3>2, <3>3
  <2> QED BY <2>6, <2>7
<1> QED BY <1>3, <1>4 DEF Neighbours

PartsFine(T, m, parts, K) == Clean(T, m) /\ \A k \in 1..K : Fine(parts[k], k, K)
TokensFine(T, m, K) ==
  /\ Neighbours(T, m) /\ ~IsPipe(T[m]) /\ ~IsOperator(T[m])
  /\ \A k \in 1..K : StageAllowed(T, k, K)

LEMMA WholeIsAccepted ==
  ASSUME NEW T, NEW m, TokenSeq(T, m), NEW lo, NEW hi, NEW K, Whole(T, m, lo, hi, K),
         NEW parts, Parted(parts, T, lo, hi, K)
  PROVE  /\ PartsFine(T, m, parts, K) <=> TokensFine(T, m, K)
         /\ \A k \in 1..K : Fine(parts[k], k, K) => tokenize(parts[k]).stage = Meant(T, k)
<1>1. /\ m \in Nat /\ K \in Nat /\ lo \in [1..K -> 1..(m + 1)] /\ hi \in [1..K -> 0..m]
      /\ \A k \in 1..K : lo[k] <= hi[k] + 1
  BY DEF Whole
<1>2. ASSUME NEW k \in 1..K
      PROVE  \E s, L, d : /\ s = strtok(parts[k], {"b", "n"}) /\ L = hi[k] - lo[k] + 1
                          /\ d = lo[k] - 1 /\ IsStage(T, m, s, L, d, k)
  <2>1. PICK s : s = SubSeq(T, lo[k], hi[k])
    OBVIOUS
  <2>2. s = strtok(parts[k], {"b", "n"})
    BY <2>1 DEF Parted
  <2>3. IsStage(T, m, s, Len(s), lo[k] - 1, k)
    BY <2>1, StageIsPart
  <2>4. Len(s) = hi[k] - lo[k] + 1
    <3>1. PICK l, h : l = lo[k] /\ h = hi[k]
      OBVIOUS
    <3>2. l \in 1..(m + 1) /\ h \in 0..m /\ l <= h + 1 /\ \A n \in l..h : ~IsPipe(T[n])
      BY <1>1, <3>1 DEF Whole
    <3>3. Len(s) = h - l + 1
      BY <2>1, <3>1, <3>2, PartIs
    <3> QED BY <3>1, <3>3
  <2> QED BY <2>2, <2>3, <2>4
<1>3. ASSUME NEW k \in 1..K
      PROVE  \E s, L, d : /\ L = hi[k] - lo[k] + 1 /\ d = lo[k] - 1 /\ IsStage(T, m, s, L, d, k)
                          /\ Fine(parts[k], k, K) <=> Stagewise(s, L, k, K)
                          /\ Stagewise(s, L, k, K) <=>
                               StageAllowed(T, k, K) /\ Apart(s, L) /\ Ends(s, L)
  <2>1. PICK s, L, d : /\ s = strtok(parts[k], {"b", "n"}) /\ L = hi[k] - lo[k] + 1
                       /\ d = lo[k] - 1 /\ IsStage(T, m, s, L, d, k)
    BY <1>2
  <2>2. Fine(parts[k], k, K) <=> Stagewise(s, L, k, K)
    BY <2>1, PartIsFine
  <2>3. Stagewise(s, L, k, K) <=> StageAllowed(T, k, K) /\ Apart(s, L) /\ Ends(s, L)
    BY <2>1, StageIsAllowed
  <2> QED BY <2>1, <2>2, <2>3
<1>4. ASSUME NEW k \in 1..K, Fine(parts[k], k, K)
      PROVE  tokenize(parts[k]).stage = Meant(T, k)
  <2>1. PICK s, L, d : s = strtok(parts[k], {"b", "n"}) /\ IsStage(T, m, s, L, d, k)
    BY <1>2
  <2> QED BY <1>4, <2>1, PartIsFine
<1>5. ASSUME TokensFine(T, m, K) PROVE PartsFine(T, m, parts, K)
  <2>a. /\ Neighbours(T, m) /\ ~IsPipe(T[m]) /\ ~IsOperator(T[m])
        /\ \A k \in 1..K : StageAllowed(T, k, K)
    BY <1>5 DEF TokensFine
  <2>1. Clean(T, m)
    <3>1. ASSUME NEW n \in 1..m, NEW o \in 1..m, o = n + 1
          PROVE  ~(Redirection(T[n][1]) /\ IsPipe(T[o]))
      <4>1. n \in 1..(m - 1)
        BY <1>1, <3>1
      <4> QED BY <2>a, <3>1, <4>1 DEF Neighbours
    <3> QED BY <3>1 DEF Clean
  <2>2. ASSUME NEW k \in 1..K PROVE Fine(parts[k], k, K)
    <3>1. PICK s, L, d : /\ L = hi[k] - lo[k] + 1 /\ d = lo[k] - 1 /\ IsStage(T, m, s, L, d, k)
                         /\ Fine(parts[k], k, K) <=> Stagewise(s, L, k, K)
                         /\ Stagewise(s, L, k, K) <=>
                              StageAllowed(T, k, K) /\ Apart(s, L) /\ Ends(s, L)
      BY <1>3
    <3>2. PartAt(T, m, s, L, d)
      BY <3>1 DEF IsStage
    <3>3. Apart(s, L) /\ Ends(s, L)
      BY <2>a, <3>1, <3>2, NeighboursInPart
    <3> QED BY <2>a, <3>1, <3>3
  <2> QED BY <2>1, <2>2 DEF PartsFine
<1>6. ASSUME PartsFine(T, m, parts, K) PROVE TokensFine(T, m, K)
  <2>a. Clean(T, m) /\ \A k \in 1..K : Fine(parts[k], k, K)
    BY <1>6 DEF PartsFine
  <2>1. ASSUME NEW k \in 1..K
        PROVE  /\ StageAllowed(T, k, K)
               /\ \E s, L : /\ PartAt(T, m, s, L, lo[k] - 1) /\ L = hi[k] - lo[k] + 1
                            /\ L > 0 /\ Apart(s, L) /\ Ends(s, L)
    <3>1. PICK s, L, d : /\ L = hi[k] - lo[k] + 1 /\ d = lo[k] - 1 /\ IsStage(T, m, s, L, d, k)
                         /\ Fine(parts[k], k, K) <=> Stagewise(s, L, k, K)
                         /\ Stagewise(s, L, k, K) <=>
                              StageAllowed(T, k, K) /\ Apart(s, L) /\ Ends(s, L)
      BY <1>3
    <3>2. PartAt(T, m, s, L, d)
      BY <3>1 DEF IsStage
    <3>3. StageAllowed(T, k, K) /\ Apart(s, L) /\ Ends(s, L) /\ Stagewise(s, L, k, K)
      BY <2>a, <3>1
    <3>4. L > 0
      <4>1. \E i \in 1..L : IsWord(s, i)
        BY <3>3 DEF Stagewise, Complete
      <4>2. L \in Nat
        BY <3>2 DEF PartAt
      <4> QED BY <4>1, <4>2
    <3> QED BY <3>1, <3>2, <3>3, <3>4
  <2>2. Neighbours(T, m) /\ ~IsPipe(T[m]) /\ ~IsOperator(T[m])
    BY <2>a, <2>1, PartsMakeNeighbours
  <2> QED BY <2>1, <2>2 DEF TokensFine
<1> QED BY <1>4, <1>5, <1>6

LEMMA PiecesMeet ==
  ASSUME NEW text, NEW P \in Nat, NEW T, NEW m, TokenSeq(T, m), NEW lo, NEW hi, NEW K,
         Pieces(text, P, T, m, lo, hi, K), P > 0, text[P] # "|", hi[1] >= 1
  PROVE  /\ Whole(T, m, lo, hi, K) /\ m \in 1..m
         /\ IsPipe(T[1]) => text[1] = "|"
<1>1. /\ K \in Nat /\ m \in Nat /\ lo \in [1..K -> 1..(m + 1)] /\ hi \in [1..K -> 0..m]
      /\ K > 0 /\ hi[K] = m
      /\ IF text[1] = "|" THEN lo[1] = 2 /\ IsPipe(T[1]) ELSE lo[1] = 1
      /\ \A k \in 1..K : \A n \in lo[k]..hi[k] : ~IsPipe(T[n])
  BY DEF Pieces
<1>2. Whole(T, m, lo, hi, K)
  <2>1. m = Len(T)
    BY DEF TokenSeq
  <2> QED BY <1>1, <2>1 DEF Pieces, Whole
<1>3. m \in 1..m
  <2>1. 1 \in 1..K
    BY <1>1
  <2>2. hi[1] \in 0..m
    BY <1>1, <2>1
  <2> QED BY <1>1, <2>2
<1>4. IsPipe(T[1]) => text[1] = "|"
  <2> SUFFICES ASSUME text[1] # "|" PROVE ~IsPipe(T[1])
    OBVIOUS
  <2>1. lo[1] = 1 /\ 1 \in 1..K
    BY <1>1
  <2>2. hi[1] \in 0..m
    BY <1>1, <2>1
  <2>3. 1 \in lo[1]..hi[1]
    BY <1>1, <2>1, <2>2
  <2> QED BY <1>1, <2>1, <2>3
<1> QED BY <1>2, <1>3, <1>4

-----------------------------------------------------------------------------
(***************************************************************************)
(* What parse_pipeline returns is what the line means.                     *)
(***************************************************************************)

\* What parse_pipeline makes of a line.
Accepted(line, parts) ==
  /\ check_syntax(preprocess(line)) /\ CharAt(line, Len(line)) # "|"
  /\ \A k \in 1..Len(parts) : Fine(parts[k], k, Len(parts))
Outcome(line, parts) ==
  IF Accepted(line, parts) THEN [k \in 1..Len(parts) |-> tokenize(parts[k]).stage] ELSE << >>

LEMMA LineMeans ==
  ASSUME NEW line \in Text, NEW parts, parts = strtok(preprocess(line), {"|"})
  PROVE  parts \in Seq(Text) /\ Meaning(line) = Outcome(line, parts)
<1>1. PICK N, proc, P, T : N = Len(line) /\ proc = preprocess(line) /\ P = Len(proc) /\ T = Tokens(line)
  OBVIOUS
<1>2. /\ N \in Nat /\ P \in Nat /\ proc \in Text /\ Spaced(proc, P)
      /\ SameEnds(line, N, proc, P)
  BY <1>1, PreprocessEmbeds
<1>3. PICK a, e, m : Placed(T, proc, P, a, e, m)
  <2>1. PICK F : Embeds(F, line, N, proc, P)
    BY <1>1, PreprocessEmbeds
  <2> QED BY <1>1, <1>2, <2>1, TokensStay
<1>4. PICK K, lo, hi : Pieces(proc, P, T, m, lo, hi, K) /\ Parted(parts, T, lo, hi, K)
  <2>1. parts = strtok(proc, {"|"})
    BY <1>1
  <2> QED BY <1>1, <1>2, <1>3, <2>1, PiecesExist
<1>5. TokenSeq(T, m) /\ m \in Nat
  <2>1. m \in Nat
    BY <1>1, <1>2, <1>3, TokensOrdered
  <2>2. \A n \in 1..m : T[n] \in Text /\ T[n] # << >>
    BY <1>1, <1>2, <1>3, TokenAt
  <2>3. DOMAIN T = 1..m /\ T = [n \in 1..m |-> T[n]]
    BY <1>3 DEF Placed
  <2>4. T \in Seq(Text) /\ m = Len(T)
    BY <2>1, <2>2, <2>3
  <2> QED BY <2>1, <2>2, <2>4 DEF TokenSeq
<1>6. check_syntax(proc) <=> Clean(T, m)
  BY <1>1, <1>2, <1>3, SyntaxIsClean
<1>7. K \in Nat /\ Len(parts) = K /\ parts \in [1..K -> Text]
  BY <1>4 DEF Pieces, Parted
<1>8. parts \in Seq(Text)
  BY <1>7
<1>9. PICK last, meant : /\ last = StageOf(T, Len(T))
                         /\ meant = [st \in 1..last |-> Meant(T, st)]
  OBVIOUS
<1>10. Meaning(line) = IF WellFormed(line, T, last) THEN meant ELSE << >>
  BY <1>1, <1>9, Zenon DEF Meaning
<1>11. PICK run : run = [k \in 1..K |-> tokenize(parts[k]).stage]
  OBVIOUS
<1>12. Outcome(line, parts) = IF Accepted(line, parts) THEN run ELSE << >>
  BY <1>7, <1>11 DEF Outcome
<1>13. Accepted(line, parts) <=>
         /\ Clean(T, m) /\ CharAt(line, N) # "|"
         /\ \A k \in 1..K : Fine(parts[k], k, K)
  BY <1>1, <1>6, <1>7 DEF Accepted
<1>14. m = Len(T) /\ (m # 0 => Last(T) = T[m]) /\ (T = << >> <=> m = 0)
  BY <1>5 DEF TokenSeq, Last
<1>15. CASE P = 0
  <2>1. m = 0 /\ K = 0
    BY <1>4, <1>15 DEF Pieces
  <2>2. ~WellFormed(line, T, last)
    BY <1>14, <2>1 DEF WellFormed
  <2>3. run = << >>
    BY <1>11, <2>1
  <2> QED BY <1>8, <1>10, <1>12, <2>2, <2>3
<1>16. CASE P # 0
  <2>1. P > 0 /\ 1 \in 1..N /\ N \in 1..N /\ DOMAIN line = 1..N
    BY <1>1, <1>2, <1>16 DEF SameEnds, Text
  <2>2. /\ Leads(line) <=> proc[1] = "|"
        /\ CharAt(line, N) = "|" <=> proc[P] = "|"
    <3>1. CharAt(line, 1) = line[1] /\ CharAt(line, N) = line[N]
      BY <2>1 DEF CharAt
    <3>2. proc[1] = line[1] /\ (proc[P] = "|" <=> line[N] = "|")
      BY <1>2, <2>1 DEF SameEnds
    <3> QED BY <3>1, <3>2 DEF Leads
  <2>3. WellFormed(line, T, last) <=>
          /\ m # 0 /\ ~IsPipe(T[m]) /\ ~IsOperator(T[m])
          /\ IsPipe(T[1]) => Leads(line)
          /\ Neighbours(T, m)
          /\ \A k \in 1..last : StageAllowed(T, k, last)
    <3>1. WellFormed(line, T, last) <=>
            /\ T # << >> /\ ~IsPipe(Last(T)) /\ ~IsOperator(Last(T))
            /\ IsPipe(T[1]) => Leads(line)
            /\ Neighbours(T, Len(T))
            /\ \A k \in 1..last : StageAllowed(T, k, last)
      BY Zenon DEF WellFormed, Neighbours, StageAllowed
    <3> QED BY <1>14, <3>1
  <2>4. ASSUME proc[P] # "|", hi[1] >= 1
        PROVE  /\ WellFormed(line, T, last) <=> Accepted(line, parts)
               /\ Accepted(line, parts) => run = meant
    <3>1. Whole(T, m, lo, hi, K) /\ m \in 1..m /\ (IsPipe(T[1]) => proc[1] = "|")
      BY <1>2, <1>4, <1>5, <2>1, <2>4, PiecesMeet
    <3>2. last = K
      BY <1>9, <1>14, <3>1, StageHas
    <3>3. PartsFine(T, m, parts, K) <=> TokensFine(T, m, K)
      BY <1>4, <1>5, <3>1, WholeIsAccepted
    <3>4. Accepted(line, parts) <=> PartsFine(T, m, parts, K)
      BY <1>13, <2>2, <2>4, Zenon DEF PartsFine
    <3>5. m # 0
      BY <3>1
    <3>6. WellFormed(line, T, last) <=> TokensFine(T, m, K)
      BY <2>2, <2>3, <3>1, <3>2, <3>5, Zenon DEF TokensFine
    <3>7. ASSUME Accepted(line, parts) PROVE run = meant
      <4>1. \A k \in 1..K : Fine(parts[k], k, K)
        BY <1>13, <3>7
      <4>2. \A k \in 1..K : tokenize(parts[k]).stage = Meant(T, k)
        BY <1>4, <1>5, <3>1, <4>1, WholeIsAccepted
      <4> QED BY <1>9, <1>11, <3>2, <4>2
    <3> QED BY <3>3, <3>4, <3>6, <3>7
  <2>5. ASSUME Accepted(line, parts) PROVE proc[P] # "|" /\ hi[1] >= 1
    <3>1. proc[P] # "|"
      BY <1>13, <2>2, <2>5
    <3>2. K > 0 /\ 1 \in 1..K
      BY <1>4, <1>7, <2>1, <3>1 DEF Pieces
    <3>3. Fine(parts[1], 1, K)
      BY <1>13, <2>5, <3>2
    <3>4. PICK l, h : l = lo[1] /\ h = hi[1]
      OBVIOUS
    <3>5. l \in 1..(m + 1) /\ h \in 0..m /\ l <= h + 1 /\ \A n \in l..h : ~IsPipe(T[n])
      BY <1>4, <3>2, <3>4 DEF Pieces
    <3>6. PICK s : s = SubSeq(T, l, h)
      OBVIOUS
    <3>7. s = strtok(parts[1], {"b", "n"})
      BY <1>4, <3>2, <3>4, <3>6 DEF Parted
    <3>8. StageTokens(s) /\ Len(s) = h - l + 1
      <4>1. PartAt(T, m, s, Len(s), l - 1) /\ Len(s) = h - l + 1
        BY <1>5, <3>5, <3>6, PartIs
      <4> QED BY <4>1 DEF PartAt
    <3>9. Complete(s, Len(s))
      <4>1. tokenize(parts[1]).ok
        BY <3>3 DEF Fine
      <4> QED BY <3>7, <3>8, <4>1, TokenizeUnderstood
    <3>10. h >= l
      <4>1. \E i \in 1..Len(s) : IsWord(s, i)
        BY <3>9 DEF Complete
      <4> QED BY <1>5, <3>5, <3>8, <4>1
    <3> QED BY <1>5, <3>1, <3>4, <3>5, <3>10
  <2>6. ASSUME WellFormed(line, T, last) PROVE proc[P] # "|" /\ hi[1] >= 1
    <3>1. m # 0 /\ ~IsPipe(T[m]) /\ (IsPipe(T[1]) => Leads(line))
      BY <2>3, <2>6
    <3>2. proc[P] # "|"
      BY <1>4, <2>1, <3>1 DEF Pieces
    <3>3. /\ K > 0 /\ hi[K] = m /\ 1 \in 1..K
          /\ IF proc[1] = "|" THEN lo[1] = 2 /\ IsPipe(T[1]) ELSE lo[1] = 1
      BY <1>4, <1>7, <2>1, <3>2 DEF Pieces
    <3>4. PICK l, h : l = lo[1] /\ h = hi[1] /\ l \in 1..(m + 1) /\ h \in 0..m /\ l <= h + 1
      BY <1>4, <3>3 DEF Pieces
    <3>5. h # 0
      <4> SUFFICES ASSUME h = 0 PROVE FALSE
        OBVIOUS
      <4>1. l = 1 /\ proc[1] # "|"
        BY <1>5, <3>3, <3>4
      <4>2. K # 1
        BY <3>1, <3>3, <3>4
      <4>3. 2 \in 1..K /\ 2 = 1 + 1
        BY <1>7, <3>3, <4>2
      <4>4. IsPipe(T[hi[1] + 1])
        BY <1>4, <3>3, <4>3 DEF Pieces
      <4>5. IsPipe(T[1])
        BY <3>4, <4>4
      <4> QED BY <2>2, <3>1, <4>1, <4>5
    <3> QED BY <1>5, <3>2, <3>4, <3>5
  <2> QED BY <1>8, <1>10, <1>12, <2>4, <2>5, <2>6
<1> QED BY <1>2, <1>15, <1>16

\* A part of blanks has no token, so that tokenize refuses it too.
LEMMA BlankFails ==
  ASSUME NEW part \in Text, Blank(part) PROVE ~tokenize(part).ok
<1> DEFINE N == Len(part)
           kind == Cuts(part, {"b", "n"})
           s == strtok(part, {"b", "n"})
<1>1. N \in Nat /\ DOMAIN part = 1..N /\ Len(kind) = N /\ DOMAIN kind = 1..N
      /\ \A i \in 1..N : kind[i] = "gap"
  BY DEF Text, Cuts, Blank
<1> HIDE DEF kind, N
<1>2. PICK a : a = << >>
  OBVIOUS
<1>3. a \in [1..0 -> 1..N] /\ 1..0 = {}
  BY <1>2
<1>4. IsRuns(kind, N, "gap", a, a, 0)
  BY <1>1, <1>3 DEF IsRuns, Covered
<1>5. s = [n \in 1..0 |-> SubSeq(part, a[n], a[n])]
  <2>1. Runs(part, kind, "gap") = [n \in 1..0 |-> SubSeq(part, a[n], a[n])]
    BY <1>1, <1>4, RunsAre
  <2> QED BY <2>1 DEF strtok, kind
<1>6. s = << >>
  BY <1>3, <1>5
<1> HIDE DEF s
<1>7. StageTokens(s) /\ Len(s) = 0
  BY <1>3, <1>6 DEF StageTokens
<1>8. ~Complete(s, 0)
  BY <1>3 DEF Complete
<1> QED BY <1>7, <1>8, TokenizeUnderstood DEF s

\* Between two turns of parse_pipeline's loop: the stages are those of the parts
\* that were cut off, and none of them was refused.
Parts(line) == strtok(preprocess(line), {"|"})
Midway(line, left, stages, count) ==
  /\ check_syntax(preprocess(line)) /\ stages \in Seq(Stage)
  /\ count \in Nat /\ Len(stages) = count /\ left \in Seq(Text)
  /\ Len(Parts(line)) = count + Len(left)
  /\ \A i \in 1..Len(left) : left[i] = Parts(line)[count + i]
  /\ \A k \in 1..count : stages[k] = tokenize(Parts(line)[k]).stage
  /\ CharAt(line, Len(line)) # "|"
       => \A k \in 1..count : Fine(Parts(line)[k], k, Len(Parts(line)))
ParsedInv ==
  /\ sLine \in Text /\ sAt \in {"read", "part", "run", "done"}
  /\ sAt = "read" => sStages = << >> /\ sCount = 0
  /\ sAt = "part" => Midway(sLine, sParts, sStages, sCount)
  /\ sAt \in {"run", "done"} => sResult = Outcome(sLine, Parts(sLine))

LEMMA PartsTyped ==
  ASSUME NEW line \in Text PROVE Parts(line) \in Seq(Text)
BY LineMeans DEF Parts

LEMMA RefusedLine ==
  ASSUME NEW line,
         \/ ~check_syntax(preprocess(line))
         \/ CharAt(line, Len(line)) = "|"
         \/ \E k \in 1..Len(Parts(line)) : ~Fine(Parts(line)[k], k, Len(Parts(line)))
  PROVE  Outcome(line, Parts(line)) = << >>
<1>1. ~Accepted(line, Parts(line))
  BY DEF Accepted
<1> QED BY <1>1 DEF Outcome

LEMMA BeginParses ==
  ASSUME ParsedInv, BeginPipeline PROVE ParsedInv'
<1>1. /\ sLine \in Text /\ sLine' = sLine /\ sStages' = << >> /\ sCount' = 0
  BY DEF ParsedInv, BeginPipeline
<1>2. CASE check_syntax(preprocess(sLine))
  <2>1. sAt' = "part" /\ sParts' = Parts(sLine)
    BY <1>2, Zenon DEF BeginPipeline, Parts
  <2>2. Parts(sLine) \in Seq(Text)
    BY <1>1, PartsTyped
  <2>3. Midway(sLine, Parts(sLine), << >>, 0)
    <3>1. PICK parts : parts = Parts(sLine)
      OBVIOUS
    <3>2. /\ Len(parts) \in Nat /\ Len(parts) = 0 + Len(parts) /\ << >> \in Seq(Stage)
          /\ Len(<< >>) = 0 /\ 1..0 = {}
          /\ \A i \in 1..Len(parts) : parts[i] = parts[0 + i]
      BY <2>2, <3>1
    <3> QED BY <1>2, <2>2, <3>1, <3>2 DEF Midway
  <2> QED BY <1>1, <2>1, <2>3 DEF ParsedInv
<1>3. CASE ~check_syntax(preprocess(sLine))
  <2>1. sAt' = "run" /\ sResult' = << >>
    BY <1>3, Zenon DEF BeginPipeline
  <2>2. Outcome(sLine, Parts(sLine)) = << >>
    BY <1>3, RefusedLine
  <2> QED BY <1>1, <2>1, <2>2 DEF ParsedInv
<1> QED BY <1>2, <1>3

LEMMA TurnParses ==
  ASSUME ParsedInv, ParseStage PROVE ParsedInv'
<1>1. sLine \in Text /\ Midway(sLine, sParts, sStages, sCount) /\ sParts # << >>
  BY DEF ParsedInv, ParseStage
<1>2. PICK parts, K, c, part, t, k, more :
        /\ parts = Parts(sLine) /\ K = Len(parts) /\ c = sCount /\ k = c + 1
        /\ part = Head(sParts) /\ t = tokenize(part)
        /\ more = (\/ Len(sParts) > 1
                   \/ /\ CharAt(sLine, Len(sLine)) = "|"
                      /\ CharAt(sLine, Len(sLine) - 1) = "|")
  OBVIOUS
<1>3. /\ check_syntax(preprocess(sLine)) /\ sStages \in Seq(Stage)
      /\ c \in Nat /\ Len(sStages) = c /\ sParts \in Seq(Text)
      /\ K = c + Len(sParts)
      /\ \A i \in 1..Len(sParts) : sParts[i] = parts[c + i]
      /\ \A i \in 1..c : sStages[i] = tokenize(parts[i]).stage
  BY <1>1, <1>2 DEF Midway
<1>4. CharAt(sLine, Len(sLine)) # "|" => \A i \in 1..c : Fine(parts[i], i, K)
  BY <1>1, <1>2 DEF Midway
<1>5. /\ Len(sParts) \in Nat /\ Len(sParts) # 0 /\ 1 \in 1..Len(sParts) /\ k \in 1..K
      /\ part = parts[k] /\ part \in Text /\ K \in Nat
  <2>1. Len(sParts) \in Nat /\ Len(sParts) # 0
    BY <1>1, <1>3
  <2>2. 1 \in 1..Len(sParts) /\ k \in 1..K /\ K \in Nat
    BY <1>2, <1>3, <2>1
  <2>3. part = sParts[1]
    BY <1>1, <1>2, <1>3
  <2> QED BY <1>2, <1>3, <2>1, <2>2, <2>3
<1>6. sLine' = sLine
  BY Zenon DEF ParseStage, Return
\* The line is refused.
<1>7. ASSUME sAt' = "run", sResult' = << >>,
             ~Fine(part, k, K) \/ CharAt(sLine, Len(sLine)) = "|"
      PROVE  ParsedInv'
  <2>1. Outcome(sLine, Parts(sLine)) = << >>
    BY <1>2, <1>5, <1>7, RefusedLine
  <2> QED BY <1>1, <1>6, <1>7, <2>1 DEF ParsedInv
<1>8. Fine(part, k, K) <=>
        /\ t.ok
        /\ k = 1 \/ t.stage.infile = NoFile
        /\ k = K \/ t.stage.outfile = NoFile
  BY <1>2, Zenon DEF Fine
<1>9. CASE Blank(part)
  <2>1. ~t.ok
    BY <1>2, <1>5, <1>9, BlankFails
  <2>2. sAt' = "run" /\ sResult' = << >>
    BY <1>2, <1>9, Zenon DEF ParseStage, Return
  <2> QED BY <1>7, <1>8, <2>1, <2>2
<1>10. CASE ~Blank(part) /\ ~t.ok
  <2>1. sAt' = "run" /\ sResult' = << >>
    BY <1>2, <1>10, Zenon DEF ParseStage, Return
  <2> QED BY <1>7, <1>8, <1>10, <2>1
<1>11. CASE /\ ~Blank(part) /\ t.ok
            /\ (c > 0 /\ t.stage.infile # NoFile) \/ (more /\ t.stage.outfile # NoFile)
  <2>1. \/ sAt' = "run" /\ sResult' = << >>
        \/ /\ sCount = 0 \/ t.stage.infile = NoFile
           /\ ~more \/ t.stage.outfile = NoFile
    BY <1>2, <1>11, Zenon DEF ParseStage, Return
  <2>2. ~Fine(part, k, K) \/ CharAt(sLine, Len(sLine)) = "|"
    BY <1>2, <1>3, <1>5, <1>8, <1>11
  <2>3. c > 0 => sCount # 0
    BY <1>2, <1>3
  <2>4. sAt' = "run" /\ sResult' = << >>
    BY <1>11, <2>1, <2>3, Zenon
  <2> QED BY <1>7, <2>2, <2>4
<1>12. CASE /\ ~Blank(part) /\ t.ok
            /\ ~(c > 0 /\ t.stage.infile # NoFile)
            /\ ~(more /\ t.stage.outfile # NoFile)
  <2>1. /\ sStages' = Append(sStages, t.stage) /\ sCount' = sCount + 1
        /\ sParts' = Tail(sParts) /\ sAt' = "part"
    BY <1>2, <1>12, Zenon DEF ParseStage
  <2>2. t.stage \in Stage
    BY <1>2, <1>5, TokenizeTyped DEF Tokenized
  <2>3. PICK left, stages : left = Tail(sParts) /\ stages = Append(sStages, t.stage)
    OBVIOUS
  <2>4. /\ left \in Seq(Text) /\ Len(left) = Len(sParts) - 1
        /\ \A i \in 1..Len(left) : left[i] = sParts[i + 1]
    BY <1>1, <1>3, <1>5, <2>3
  <2>5. /\ stages \in Seq(Stage) /\ Len(stages) = k /\ stages[k] = t.stage
        /\ \A i \in 1..c : stages[i] = sStages[i]
    BY <1>2, <1>3, <2>2, <2>3
  <2>6. ASSUME NEW i \in 1..Len(left) PROVE left[i] = parts[k + i]
    <3>1. i + 1 \in 1..Len(sParts) /\ c + (i + 1) = k + i
      BY <1>2, <1>3, <1>5, <2>4
    <3> QED BY <1>3, <2>4, <3>1
  <2>7. \A i \in 1..k : i \in 1..c \/ i = k
    BY <1>2, <1>3
  <2>8. \A i \in 1..k : stages[i] = tokenize(parts[i]).stage
    BY <1>2, <1>3, <1>5, <2>5, <2>7
  <2>9. CharAt(sLine, Len(sLine)) # "|" => \A i \in 1..k : Fine(parts[i], i, K)
    <3>1. CASE CharAt(sLine, Len(sLine)) # "|"
      <4>1. ~more => Len(sParts) = 1
        <5>1. more \/ ~(Len(sParts) > 1)
          BY <1>2, Zenon
        <5>2. Len(sParts) > 1 \/ Len(sParts) = 1
          <6>1. PICK l : l = Len(sParts)
            OBVIOUS
          <6>2. l \in Nat /\ l # 0
            BY <1>5, <6>1
          <6>3. l > 1 \/ l = 1
            BY <6>2
          <6> QED BY <6>1, <6>3
        <5> QED BY <5>1, <5>2, Zenon
      <4>2. k = 1 \/ t.stage.infile = NoFile
        BY <1>2, <1>3, <1>12
      <4>3. k = K \/ t.stage.outfile = NoFile
        BY <1>2, <1>3, <1>12, <4>1
      <4>4. Fine(part, k, K)
        BY <1>8, <1>12, <4>2, <4>3, Zenon
      <4> QED BY <1>4, <1>5, <2>7, <3>1, <4>4
    <3> QED BY <3>1
  <2>10. k \in Nat /\ K = k + Len(left)
    <3>1. k = c + 1 /\ c \in Nat /\ K = c + Len(sParts)
      BY <1>2, <1>3
    <3>2. Len(sParts) \in Nat /\ Len(left) = Len(sParts) - 1
      BY <1>5, <2>4
    <3> QED BY <3>1, <3>2
  <2>11. Midway(sLine, left, stages, k)
    BY <1>2, <1>3, <2>4, <2>5, <2>6, <2>8, <2>9, <2>10 DEF Midway
  <2> QED BY <1>1, <1>2, <1>6, <2>1, <2>3, <2>11 DEF ParsedInv
<1> QED BY <1>9, <1>10, <1>11, <1>12

LEMMA EndParses ==
  ASSUME ParsedInv, EndPipeline PROVE ParsedInv'
<1>1. sLine \in Text /\ Midway(sLine, sParts, sStages, sCount) /\ sParts = << >>
  BY DEF ParsedInv, EndPipeline
<1>2. sLine' = sLine
  BY Zenon DEF EndPipeline, Return
<1>3. PICK parts, K, c : parts = Parts(sLine) /\ K = Len(parts) /\ c = sCount
  OBVIOUS
<1>4. /\ check_syntax(preprocess(sLine)) /\ sStages \in Seq(Stage)
      /\ c \in Nat /\ Len(sStages) = c /\ K = c + Len(sParts)
      /\ \A i \in 1..c : sStages[i] = tokenize(parts[i]).stage
  BY <1>1, <1>3 DEF Midway
<1>5. CharAt(sLine, Len(sLine)) # "|" => \A i \in 1..c : Fine(parts[i], i, K)
  BY <1>1, <1>3 DEF Midway
<1>6. K = c
  BY <1>1, <1>4
<1>7. CASE CharAt(sLine, Len(sLine)) = "|"
  <2>1. sAt' = "run" /\ sResult' = << >>
    BY <1>7, Zenon DEF EndPipeline, Return
  <2>2. Outcome(sLine, Parts(sLine)) = << >>
    BY <1>7, RefusedLine
  <2> QED BY <1>1, <1>2, <2>1, <2>2 DEF ParsedInv
<1>8. CASE CharAt(sLine, Len(sLine)) # "|"
  <2>1. sAt' = "run" /\ sResult' = SubSeq(sStages, 1, sCount)
    BY <1>8, Zenon DEF EndPipeline
  <2>2. Accepted(sLine, parts)
    BY <1>3, <1>4, <1>5, <1>6, <1>8 DEF Accepted
  <2>3. SubSeq(sStages, 1, c) = sStages
    BY <1>4
  <2>4. sStages = [k \in 1..K |-> tokenize(parts[k]).stage]
    <3>1. DOMAIN sStages = 1..c /\ sStages = [k \in 1..c |-> sStages[k]]
      BY <1>4
    <3> QED BY <1>4, <1>6, <3>1
  <2>5. Outcome(sLine, parts) = sStages
    BY <1>3, <2>2, <2>4 DEF Outcome
  <2> QED BY <1>1, <1>2, <1>3, <2>1, <2>3, <2>5 DEF ParsedInv
<1> QED BY <1>7, <1>8

LEMMA ParsedInvStep == ParsedInv /\ [ShellNext]_sVars => ParsedInv'
<1>1. SUFFICES ASSUME ParsedInv, [ShellNext]_sVars PROVE ParsedInv'
  OBVIOUS
<1>2. CASE BeginPipeline
  BY <1>1, <1>2, BeginParses
<1>3. CASE ParseStage
  BY <1>1, <1>3, TurnParses
<1>4. CASE EndPipeline
  BY <1>1, <1>4, EndParses
<1>5. CASE FreeStages
  <2>1. sAt = "run" /\ sAt' = "done" /\ sResult' = sResult /\ sLine' = sLine
    BY <1>5 DEF FreeStages
  <2> QED BY <1>1, <2>1 DEF ParsedInv
<1>6. CASE UNCHANGED sVars
  BY <1>1, <1>6 DEF ParsedInv, sVars
<1> QED BY <1>1, <1>2, <1>3, <1>4, <1>5, <1>6 DEF ShellNext

\* Every line, however its redirections and pipes stand to one another, to blanks
\* and to its ends, is run as its tokens say, or refused if they say nothing
\* (parser.c:23-58, 149-191; utility.c:18-32).
THEOREM ShellRunsTheLine == ShellSpec => []ShellRunsWhatTheLineSays
<1>1. ShellInit => ParsedInv
  BY ShellAssumption DEF ShellInit, ParsedInv, Text
<1>2. ParsedInv => ShellRunsWhatTheLineSays
  <2>1. SUFFICES ASSUME ParsedInv, sAt = "done" PROVE sResult = Meaning(sLine)
    BY DEF ShellRunsWhatTheLineSays
  <2>2. sLine \in Text /\ sResult = Outcome(sLine, Parts(sLine))
    BY <2>1 DEF ParsedInv
  <2>3. Meaning(sLine) = Outcome(sLine, Parts(sLine))
    BY <2>2, LineMeans DEF Parts
  <2> QED BY <2>2, <2>3
<1> QED BY <1>1, <1>2, ParsedInvStep, PTL DEF ShellSpec
=============================================================================
