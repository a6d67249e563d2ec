-------------------------- MODULE QueryParser_proofs --------------------------
(***************************************************************************)
(* Proofs about QueryParser for any lines and any queries that they may be *)
(* meant to contain.  That a line is the text of a query is first said     *)
(* position by position (Says): where FROM stands, what stands before and  *)
(* after it, and what each of the five tokens of a condition is.  A line   *)
(* says one query at most, because no operand is a closing parenthesis.    *)
(* The invariant (Parsed) says how much of the line each builder and each  *)
(* clause has found to be so when the line comes to it.                    *)
(***************************************************************************)
EXTENDS QueryParser, SetRecursion

\* Lines are compared position by position.  The provers do not know that the
\* literals of the parser are strings.
Word == STRING \cup {"FROM", "WHERE", "(", ")"} \cup DOMAIN Management
          \cup DataKinds \cup NopKinds
Triple == Word \X Word \X Word

LEMMA Words ==
  /\ STRING \subseteq Word /\ "FROM" \in Word /\ "WHERE" \in Word
  /\ "(" \in Word /\ ")" \in Word
  /\ DOMAIN Management \subseteq Word /\ DataKinds \cup NopKinds \subseteq Word
BY Zenon DEF Word

Joined(a, b, c) ==
  /\ c \in Seq(Word) /\ Len(c) = Len(a) + Len(b) /\ Len(a) \in Nat /\ Len(b) \in Nat
  /\ \A i \in 1..Len(a) : c[i] = a[i]
  /\ \A i \in 1..Len(b) : c[Len(a) + i] = b[i]

LEMMA Appended ==
  ASSUME NEW a \in Seq(Word), NEW b \in Seq(Word), NEW c, c = a \o b PROVE Joined(a, b, c)
<1>1. /\ c \in Seq(Word) /\ Len(c) = Len(a) + Len(b)
      /\ \A i \in 1..(Len(a) + Len(b)) : c[i] = IF i <= Len(a) THEN a[i] ELSE b[i - Len(a)]
  BY ConcatProperties
<1>2. Len(a) \in Nat /\ Len(b) \in Nat
  OBVIOUS
<1>3. ASSUME NEW i \in 1..Len(a) PROVE c[i] = a[i]
  <2>1. i \in 1..(Len(a) + Len(b)) /\ i <= Len(a)
    BY <1>2
  <2> QED BY <1>1, <2>1
<1>4. ASSUME NEW i \in 1..Len(b) PROVE c[Len(a) + i] = b[i]
  <2>1. Len(a) + i \in 1..(Len(a) + Len(b)) /\ ~(Len(a) + i <= Len(a)) /\ Len(a) + i - Len(a) = i
    BY <1>2
  <2> QED BY <1>1, <2>1
<1> QED BY <1>1, <1>2, <1>3, <1>4 DEF Joined

\* What the line holds from a position on.
HoldsAt(line, n, s) == \A i \in 1..Len(s) : line[n - 1 + i] = s[i]

\* Where the operands end: FROM stands at n.
OpsAt(line, operands, n) ==
  \/ operands = << >> /\ n = 2
  \/ /\ n = Len(operands) + 4 /\ line[2] = "(" /\ line[n - 1] = ")"
     /\ HoldsAt(line, 3, operands)
ConditionAt(line, n, c) ==
  /\ line[n] = "(" /\ line[n + 1] = c[1] /\ line[n + 2] = c[2] /\ line[n + 3] = c[3]
  /\ line[n + 4] = ")"
ConditionsAt(line, n, where) ==
  \A i \in 1..Len(where) : ConditionAt(line, n + 5 * i - 5, where[i])
WhereAt(line, where, n) ==
  \/ where = << >> /\ Len(line) = n - 1
  \/ Len(line) = n + 5 * Len(where) /\ line[n] = "WHERE" /\ ConditionsAt(line, n + 1, where)
SaysFrom(line, kind, table, operands, where, n) ==
  /\ n + 1 <= Len(line) /\ line[1] = kind /\ OpsAt(line, operands, n)
  /\ line[n] = "FROM" /\ line[n + 1] = table /\ WhereAt(line, where, n + 2)
Says(line, kind, table, operands, where) ==
  \E n \in Nat : SaysFrom(line, kind, table, operands, where, n)

\* The text of conditions holds five tokens for each of them.
ConditionText(where) == [i \in DOMAIN where |-> <<"(">> \o where[i] \o <<")">>]
Bracketed(s, c) ==
  /\ s \in Seq(Word) /\ Len(s) = 5
  /\ s[1] = "(" /\ s[2] = c[1] /\ s[3] = c[2] /\ s[4] = c[3] /\ s[5] = ")"

LEMMA TripleIs ==
  ASSUME NEW c \in Triple
  PROVE  /\ c = <<c[1], c[2], c[3]>> /\ c \in Seq(Word) /\ Len(c) = 3
         /\ c[1] \in Word /\ c[2] \in Word /\ c[3] \in Word
<1>1. PICK x \in Word, y \in Word, z \in Word : c = <<x, y, z>>
  BY DEF Triple
<1>2. <<x, y, z>> \in Seq(Word) /\ Len(<<x, y, z>>) = 3
  OBVIOUS
<1> QED BY <1>1, <1>2

LEMMA BracketedIs ==
  ASSUME NEW c \in Triple PROVE Bracketed(<<"(">> \o c \o <<")">>, c)
<1>1. PICK p, r : p = <<"(">> /\ r = <<")">>
  OBVIOUS
<1>a. /\ p \in Seq(Word) /\ Len(p) = 1 /\ p[1] = "("
      /\ r \in Seq(Word) /\ Len(r) = 1 /\ r[1] = ")"
  BY <1>1, Words
<1>2. c \in Seq(Word) /\ Len(c) = 3
  BY TripleIs
<1>3. PICK d, e : d = p \o c /\ e = d \o r
  OBVIOUS
<1>4. /\ d \in Seq(Word) /\ Len(d) = 4 /\ d[1] = "("
      /\ d[2] = c[1] /\ d[3] = c[2] /\ d[4] = c[3]
  <2>1. /\ d \in Seq(Word) /\ Len(d) = 1 + 3
        /\ \A i \in 1..1 : d[i] = p[i]
        /\ \A i \in 1..3 : d[1 + i] = c[i]
    <3>1. Joined(p, c, d)
      BY <1>a, <1>2, <1>3, Appended, Zenon
    <3> QED BY <1>a, <1>2, <3>1 DEF Joined
  <2>2. d[1] = "("
    BY <1>a, <2>1
  <2>3. d[1 + 1] = c[1] /\ d[1 + 2] = c[2] /\ d[1 + 3] = c[3]
    BY <2>1
  <2> QED BY <2>1, <2>2, <2>3
<1>5. /\ e \in Seq(Word) /\ Len(e) = 5 /\ e[5] = ")"
      /\ e[1] = d[1] /\ e[2] = d[2] /\ e[3] = d[3] /\ e[4] = d[4]
  <2>1. /\ e \in Seq(Word) /\ Len(e) = 4 + 1
        /\ \A i \in 1..4 : e[i] = d[i]
        /\ \A i \in 1..1 : e[4 + i] = r[i]
    <3>1. Joined(d, r, e)
      BY <1>a, <1>3, <1>4, Appended, Zenon
    <3> QED BY <1>a, <1>4, <3>1 DEF Joined
  <2>2. e[4 + 1] = ")"
    BY <1>a, <2>1
  <2> QED BY <2>1, <2>2
<1> QED BY <1>1, <1>3, <1>4, <1>5 DEF Bracketed

LEMMA ConditionTextIs ==
  ASSUME NEW where \in Seq(Triple), where # << >>, NEW s, s = FlattenSeq(ConditionText(where))
  PROVE  /\ s \in Seq(Word) /\ Len(s) = 5 * Len(where) /\ ConditionsAt(s, 1, where)
<1> DEFINE seqs == ConditionText(where)
           n == Len(where)
<1>1. n \in Nat /\ n # 0 /\ DOMAIN where = 1..n /\ \A i \in 1..n : where[i] \in Triple
  OBVIOUS
<1>2. \A i \in 1..n : Bracketed(seqs[i], where[i])
  BY <1>1, BracketedIs DEF ConditionText
<1>3. seqs \in Seq(Seq(Word)) /\ Len(seqs) = n
  <2>1. DOMAIN seqs = 1..n /\ \A i \in 1..n : seqs[i] \in Seq(Word)
    BY <1>1, <1>2 DEF Bracketed, ConditionText
  <2>2. seqs = [i \in 1..n |-> seqs[i]]
    BY <1>1 DEF ConditionText
  <2> HIDE DEF seqs
  <2> QED BY <1>1, <2>1, <2>2
<1> HIDE DEF seqs
<1>4. PICK f \in [1..n -> Seq(Word)] :
        s = f[n] /\ f[1] = seqs[1] /\ \A i \in 2..n : f[i] = f[i - 1] \o seqs[i]
  <2>1. PICK f \in [1..Len(seqs) -> Seq(Word)] :
          /\ FlattenSeq(seqs) = f[Len(seqs)] /\ f[1] = seqs[1]
          /\ \A i \in 2..Len(seqs) : f[i] = f[i - 1] \o seqs[i]
    <3>1. Len(seqs) # 0
      BY <1>1, <1>3
    <3> QED BY <1>3, <3>1, FlattenAppends
  <2>2. s = FlattenSeq(seqs)
    BY DEF seqs
  <2> QED BY <1>3, <2>1, <2>2
<1> DEFINE Upto(i) == /\ Len(f[i]) = 5 * i
                      /\ \A k \in 1..i : ConditionAt(f[i], 5 * k - 4, where[k])
           bad == {i \in 1..n : ~Upto(i)}
<1> HIDE DEF n
<1>5. Upto(1)
  BY <1>1, <1>2, <1>4 DEF Bracketed, ConditionAt
<1>6. ASSUME NEW i \in 2..n, Upto(i - 1) PROVE Upto(i)
  <2>1. i \in 1..n /\ i - 1 \in 1..n
    BY <1>1
  <2>2. PICK a, b, c : a = f[i - 1] /\ b = seqs[i] /\ c = f[i]
    OBVIOUS
  <2>3. /\ a \in Seq(Word) /\ b \in Seq(Word) /\ c = a \o b /\ Bracketed(b, where[i])
        /\ Len(a) = 5 * (i - 1) /\ \A k \in 1..(i - 1) : ConditionAt(a, 5 * k - 4, where[k])
    BY <1>2, <1>4, <1>6, <2>1, <2>2 DEF Bracketed
  <2>4. /\ Len(c) = Len(a) + Len(b) /\ \A j \in 1..Len(a) : c[j] = a[j]
        /\ \A j \in 1..Len(b) : c[Len(a) + j] = b[j]
    <3>1. a \in Seq(Word) /\ b \in Seq(Word) /\ c = a \o b
      BY <2>3
    <3> QED BY <3>1, Appended DEF Joined
  <2>5. Len(b) = 5
    BY <2>3 DEF Bracketed
  <2>6. Len(c) = 5 * i
    BY <2>3, <2>4, <2>5
  <2>7. ASSUME NEW k \in 1..i PROVE ConditionAt(c, 5 * k - 4, where[k])
    <3>1. CASE k = i
      <4>1. /\ c[5 * (i - 1) + 1] = b[1] /\ c[5 * (i - 1) + 2] = b[2] /\ c[5 * (i - 1) + 3] = b[3]
            /\ c[5 * (i - 1) + 4] = b[4] /\ c[5 * (i - 1) + 5] = b[5]
        <5>1. Len(a) = 5 * (i - 1) /\ \A j \in 1..5 : c[Len(a) + j] = b[j]
          BY <2>3, <2>4, <2>5
        <5> QED BY <5>1
      <4>2. /\ 5 * (i - 1) + 1 = 5 * i - 4 /\ 5 * (i - 1) + 2 = 5 * i - 4 + 1
            /\ 5 * (i - 1) + 3 = 5 * i - 4 + 2 /\ 5 * (i - 1) + 4 = 5 * i - 4 + 3
            /\ 5 * (i - 1) + 5 = 5 * i - 4 + 4
        OBVIOUS
      <4> QED BY <2>3, <3>1, <4>1, <4>2 DEF Bracketed, ConditionAt
    <3>2. CASE k # i
      <4>1. k \in 1..(i - 1)
        BY <3>2
      <4>2. /\ 5 * k - 4 \in 1..Len(a) /\ 5 * k - 4 + 1 \in 1..Len(a) /\ 5 * k - 4 + 2 \in 1..Len(a)
            /\ 5 * k - 4 + 3 \in 1..Len(a) /\ 5 * k - 4 + 4 \in 1..Len(a)
        BY <2>3, <4>1
      <4>3. ConditionAt(a, 5 * k - 4, where[k])
        BY <2>3, <4>1
      <4> QED BY <2>4, <4>2, <4>3 DEF ConditionAt
    <3> QED BY <3>1, <3>2
  <2> QED BY <2>2, <2>6, <2>7
<1> HIDE DEF Upto
<1>7. bad = {}
  <2> SUFFICES ASSUME bad # {} PROVE FALSE
    OBVIOUS
  <2>1. bad \in SUBSET Nat
    BY <1>1
  <2>2. PICK i \in bad : \A j \in bad : i <= j
    BY <2>1, LeastNat
  <2>3. i \in 2..n /\ i - 1 \in 1..n /\ ~(i <= i - 1)
    BY <1>1, <1>5, <2>2
  <2> QED BY <1>6, <2>2, <2>3
<1>8. Upto(n)
  BY <1>1, <1>7
<1>9. \A k \in 1..n : 1 + 5 * k - 5 = 5 * k - 4
  BY <1>1
<1> QED BY <1>1, <1>4, <1>8, <1>9 DEF Upto, ConditionsAt, n

LEMMA OperandTextIs ==
  ASSUME NEW operands \in Seq(Word), NEW p, p = <<"(">> \o operands \o <<")">>
  PROVE  /\ p \in Seq(Word) /\ Len(p) = Len(operands) + 2 /\ Len(operands) \in Nat
         /\ p[1] = "(" /\ p[Len(operands) + 2] = ")"
         /\ \A i \in 1..Len(operands) : p[i + 1] = operands[i]
<1>1. PICK l, r : l = <<"(">> /\ r = <<")">>
  OBVIOUS
<1>2. /\ l \in Seq(Word) /\ Len(l) = 1 /\ l[1] = "("
      /\ r \in Seq(Word) /\ Len(r) = 1 /\ r[1] = ")"
  BY <1>1, Words
<1>3. PICK d : d = l \o operands
  OBVIOUS
<1>4. Joined(l, operands, d)
  BY <1>2, <1>3, Appended, Zenon
<1>5. Joined(d, r, p)
  <2>1. d \in Seq(Word) /\ p = d \o r
    BY <1>1, <1>3, <1>4 DEF Joined
  <2> QED BY <1>2, <2>1, Appended, Zenon
<1>6. Len(operands) \in Nat /\ Len(d) = 1 + Len(operands) /\ d[1] = "("
      /\ \A i \in 1..Len(operands) : d[1 + i] = operands[i]
  BY <1>2, <1>4 DEF Joined
<1>7. /\ p \in Seq(Word) /\ Len(p) = Len(d) + 1 /\ p[Len(d) + 1] = ")"
      /\ \A i \in 1..Len(d) : p[i] = d[i]
  BY <1>2, <1>5 DEF Joined
<1>8. \A i \in 1..Len(operands) : p[i + 1] = operands[i]
  <2>1. ASSUME NEW i \in 1..Len(operands) PROVE p[i + 1] = operands[i]
    <3>1. 1 + i = i + 1 /\ i + 1 \in 1..Len(d)
      BY <1>6
    <3> QED BY <1>6, <1>7, <3>1
  <2> QED BY <2>1
<1>9. p[1] = "("
  BY <1>6, <1>7
<1>10. Len(d) + 1 = Len(operands) + 2
  BY <1>6
<1> QED BY <1>6, <1>7, <1>8, <1>9, <1>10

LEMMA OperandTexts ==
  ASSUME NEW operands \in Seq(Word), NEW ops \in OperandText(operands)
  PROVE  ops \in Seq(Word)
BY OperandTextIs DEF OperandText

LEMMA OpsTextAt ==
  ASSUME NEW line \in Seq(Word), NEW operands \in Seq(Word), NEW n \in Nat
  PROVE  OpsAt(line, operands, n) <=>
           \E ops \in OperandText(operands) : Len(ops) = n - 2 /\ HoldsAt(line, 2, ops)
<1> DEFINE Good(ops) == Len(ops) = n - 2 /\ HoldsAt(line, 2, ops)
<1>1. PICK p : p = <<"(">> \o operands \o <<")">>
  OBVIOUS
<1>2. /\ p \in Seq(Word) /\ Len(p) = Len(operands) + 2 /\ Len(operands) \in Nat
      /\ p[1] = "(" /\ p[Len(operands) + 2] = ")"
      /\ \A i \in 1..Len(operands) : p[i + 1] = operands[i]
  BY <1>1, OperandTextIs
<1>3. Good(p) <=> /\ n = Len(operands) + 4 /\ line[2] = "(" /\ line[n - 1] = ")"
                  /\ HoldsAt(line, 3, operands)
  <2>1. ASSUME Good(p)
        PROVE  /\ n = Len(operands) + 4 /\ line[2] = "(" /\ line[n - 1] = ")"
               /\ HoldsAt(line, 3, operands)
    <3>1. n = Len(operands) + 4 /\ n - 1 = Len(operands) + 3
      BY <1>2, <2>1
    <3>2. \A i \in 1..(Len(operands) + 2) : line[2 - 1 + i] = p[i]
      BY <1>2, <2>1 DEF HoldsAt
    <3>3. line[2 - 1 + 1] = p[1] /\ line[2 - 1 + (Len(operands) + 2)] = p[Len(operands) + 2]
      BY <1>2, <3>2
    <3>4. 2 - 1 + 1 = 2 /\ 2 - 1 + (Len(operands) + 2) = n - 1
      BY <1>2, <3>1
    <3>5. ASSUME NEW i \in 1..Len(operands) PROVE line[3 - 1 + i] = operands[i]
      <4>1. i + 1 \in 1..(Len(operands) + 2) /\ 2 - 1 + (i + 1) = 3 - 1 + i
        BY <1>2
      <4> QED BY <1>2, <3>2, <4>1
    <3> QED BY <1>2, <3>1, <3>3, <3>4, <3>5 DEF HoldsAt
  <2>2. ASSUME n = Len(operands) + 4, line[2] = "(", line[n - 1] = ")",
               HoldsAt(line, 3, operands)
        PROVE  Good(p)
    <3>1. ASSUME NEW i \in 1..Len(p) PROVE line[2 - 1 + i] = p[i]
      <4>1. CASE i = 1
        BY <1>2, <2>2, <4>1
      <4>2. CASE i = Len(operands) + 2
        <5>1. 2 - 1 + i = n - 1
          BY <1>2, <2>2, <4>2
        <5> QED BY <1>2, <2>2, <4>2, <5>1
      <4>3. CASE i # 1 /\ i # Len(operands) + 2
        <5>1. i - 1 \in 1..Len(operands) /\ 3 - 1 + (i - 1) = 2 - 1 + i /\ i - 1 + 1 = i
          BY <1>2, <4>3
        <5> QED BY <1>2, <2>2, <5>1 DEF HoldsAt
      <4> QED BY <4>1, <4>2, <4>3
    <3>2. Len(p) = n - 2
      BY <1>2, <2>2
    <3> QED BY <3>1, <3>2 DEF HoldsAt
  <2> QED BY <2>1, <2>2
<1>4. Good(<< >>) <=> n = 2
  BY DEF HoldsAt
<1> HIDE DEF Good
<1>5. CASE operands = << >>
  <2>1. OperandText(operands) = {p, << >>}
    BY <1>1, <1>5 DEF OperandText
  <2>2. (\E ops \in OperandText(operands) : Good(ops)) <=> Good(p) \/ Good(<< >>)
    BY <2>1
  <2> QED BY <1>3, <1>4, <1>5, <2>2 DEF OpsAt, Good
<1>6. CASE operands # << >>
  <2>1. OperandText(operands) = {p}
    BY <1>1, <1>6 DEF OperandText
  <2>2. (\E ops \in OperandText(operands) : Good(ops)) <=> Good(p)
    BY <2>1
  <2> QED BY <1>3, <1>6, <2>2 DEF OpsAt, Good
<1> QED BY <1>5, <1>6

LEMMA ConditionsHeld ==
  ASSUME NEW where \in Seq(Triple), NEW s \in Seq(Word), Len(s) = 5 * Len(where),
         ConditionsAt(s, 1, where), NEW line \in Seq(Word), NEW n \in Nat
  PROVE  HoldsAt(line, n, s) <=> ConditionsAt(line, n, where)
<1>1. Len(where) \in Nat
  OBVIOUS
<1>2. ASSUME NEW i \in 1..Len(where)
      PROVE  ConditionAt(s, 5 * i - 4, where[i])
  <2>1. 1 + 5 * i - 5 = 5 * i - 4
    OBVIOUS
  <2> QED BY <2>1 DEF ConditionsAt
<1>3. ASSUME HoldsAt(line, n, s), NEW i \in 1..Len(where)
      PROVE  ConditionAt(line, n + 5 * i - 5, where[i])
  <2>1. PICK j \in 1..Len(s) : /\ j = 5 * i - 4 /\ j + 1 \in 1..Len(s) /\ j + 2 \in 1..Len(s)
                               /\ j + 3 \in 1..Len(s) /\ j + 4 \in 1..Len(s)
    <3>1. /\ 5 * i - 4 \in 1..Len(s) /\ 5 * i - 4 + 1 \in 1..Len(s) /\ 5 * i - 4 + 2 \in 1..Len(s)
          /\ 5 * i - 4 + 3 \in 1..Len(s) /\ 5 * i - 4 + 4 \in 1..Len(s)
      BY <1>1
    <3> QED BY <3>1
  <2>2. PICK m \in Int : m = n + 5 * i - 5
    OBVIOUS
  <2>3. /\ n - 1 + j = m /\ n - 1 + (j + 1) = m + 1 /\ n - 1 + (j + 2) = m + 2
        /\ n - 1 + (j + 3) = m + 3 /\ n - 1 + (j + 4) = m + 4
    BY <2>1, <2>2
  <2>4. /\ line[m] = s[j] /\ line[m + 1] = s[j + 1] /\ line[m + 2] = s[j + 2]
        /\ line[m + 3] = s[j + 3] /\ line[m + 4] = s[j + 4]
    BY <1>3, <2>1, <2>3 DEF HoldsAt
  <2> QED BY <1>2, <2>1, <2>2, <2>4 DEF ConditionAt
<1>4. ASSUME ConditionsAt(line, n, where), NEW j \in 1..Len(s)
      PROVE  line[n - 1 + j] = s[j]
  <2>1. PICK i \in 1..Len(where), r \in 0..4 : j = 5 * i - 4 + r
    <3>1. PICK L \in Nat : L = Len(where) /\ j \in 1..(5 * L)
      BY <1>1
    <3>2. PICK d \in Int : d = (j - 1) \div 5
      OBVIOUS
    <3>3. 5 * d <= j - 1 /\ j - 1 < 5 * d + 5
      BY <3>1, <3>2
    <3>4. d + 1 \in 1..Len(where) /\ j - 1 - 5 * d \in 0..4 /\ j = 5 * (d + 1) - 4 + (j - 1 - 5 * d)
      BY <3>1, <3>3
    <3> QED BY <3>4
  <2>2. PICK m \in Int, k \in Int : m = n + 5 * i - 5 /\ k = 5 * i - 4
    OBVIOUS
  <2>3. ConditionAt(line, m, where[i]) /\ ConditionAt(s, k, where[i])
    BY <1>2, <1>4, <2>2 DEF ConditionsAt
  <2>4. /\ line[m] = s[k] /\ line[m + 1] = s[k + 1] /\ line[m + 2] = s[k + 2]
        /\ line[m + 3] = s[k + 3] /\ line[m + 4] = s[k + 4]
    BY <2>3 DEF ConditionAt
  <2>5. n - 1 + j = m + r /\ j = k + r /\ m + 0 = m /\ k + 0 = k
    BY <2>1, <2>2
  <2>6. r = 0 \/ r = 1 \/ r = 2 \/ r = 3 \/ r = 4
    OBVIOUS
  <2>7. line[m + r] = s[k + r]
    BY <2>4, <2>5, <2>6
  <2> QED BY <2>5, <2>7
<1> QED BY <1>3, <1>4 DEF HoldsAt, ConditionsAt

LEMMA WhereTexts ==
  ASSUME NEW where \in Seq(Triple), where # << >>
  PROVE  \E s \in Seq(Word), w \in Seq(Word) :
           /\ Len(s) = 5 * Len(where) /\ ConditionsAt(s, 1, where)
           /\ WhereText(where) = {w} /\ Len(w) = 1 + Len(s) /\ w[1] = "WHERE"
           /\ \A i \in 1..Len(s) : w[1 + i] = s[i]
<1>1. PICK s, w, l : s = FlattenSeq(ConditionText(where)) /\ l = <<"WHERE">> /\ w = l \o s
  OBVIOUS
<1>2. s \in Seq(Word) /\ Len(s) = 5 * Len(where) /\ ConditionsAt(s, 1, where)
  BY <1>1, ConditionTextIs
<1>3. l \in Seq(Word) /\ Len(l) = 1 /\ l[1] = "WHERE"
  BY <1>1, Words
<1>4. Joined(l, s, w)
  BY <1>1, <1>2, <1>3, Appended, Zenon
<1>5. WhereText(where) = {w}
  BY <1>1, Zenon DEF WhereText, ConditionText
<1>6. w \in Seq(Word) /\ Len(w) = 1 + Len(s) /\ w[1] = "WHERE" /\ \A i \in 1..Len(s) : w[1 + i] = s[i]
  BY <1>3, <1>4 DEF Joined
<1> QED BY <1>2, <1>5, <1>6

LEMMA WhereTextAt ==
  ASSUME NEW line \in Seq(Word), NEW where \in Seq(Triple), NEW n \in Nat
  PROVE  WhereAt(line, where, n) <=>
           \E w \in WhereText(where) : Len(line) = n - 1 + Len(w) /\ HoldsAt(line, n, w)
<1> DEFINE Good(w) == Len(line) = n - 1 + Len(w) /\ HoldsAt(line, n, w)
<1>0. Len(where) \in Nat /\ Len(line) \in Nat
  OBVIOUS
<1>1. CASE where = << >>
  <2>1. WhereText(where) = {<< >>, <<"WHERE">>}
    BY <1>1 DEF WhereText
  <2>2. Good(<< >>) <=> Len(line) = n - 1
    BY <1>0 DEF HoldsAt
  <2>3. Good(<<"WHERE">>) <=> Len(line) = n /\ line[n] = "WHERE"
    <3>1. PICK w : w = <<"WHERE">>
      OBVIOUS
    <3>2. Len(w) = 1 /\ w[1] = "WHERE" /\ n - 1 + 1 = n
      BY <3>1
    <3>3. HoldsAt(line, n, w) <=> line[n] = "WHERE"
      BY <3>2 DEF HoldsAt
    <3> QED BY <3>1, <3>2, <3>3
  <2>4. ConditionsAt(line, n + 1, where) /\ 5 * Len(where) = 0
    BY <1>1 DEF ConditionsAt
  <2> HIDE DEF Good
  <2>5. (\E w \in WhereText(where) : Good(w)) <=> Good(<< >>) \/ Good(<<"WHERE">>)
    BY <2>1
  <2> QED BY <1>0, <1>1, <2>2, <2>3, <2>4, <2>5 DEF WhereAt, Good
<1>2. CASE where # << >>
  <2>1. PICK s \in Seq(Word), w \in Seq(Word) :
           /\ Len(s) = 5 * Len(where) /\ ConditionsAt(s, 1, where)
           /\ WhereText(where) = {w} /\ Len(w) = 1 + Len(s) /\ w[1] = "WHERE"
           /\ \A i \in 1..Len(s) : w[1 + i] = s[i]
    BY <1>2, WhereTexts
  <2>2. HoldsAt(line, n + 1, s) <=> ConditionsAt(line, n + 1, where)
    <3>1. n + 1 \in Nat
      OBVIOUS
    <3> QED BY <2>1, <3>1, ConditionsHeld
  <2>3. HoldsAt(line, n, w) <=> line[n] = "WHERE" /\ HoldsAt(line, n + 1, s)
    <3>0. Len(s) \in Nat /\ n - 1 + 1 = n
      OBVIOUS
    <3>1. ASSUME HoldsAt(line, n, w) PROVE line[n] = "WHERE" /\ HoldsAt(line, n + 1, s)
      <4>1. line[n - 1 + 1] = w[1]
        BY <2>1, <3>0, <3>1 DEF HoldsAt
      <4>2. ASSUME NEW i \in 1..Len(s) PROVE line[n + 1 - 1 + i] = s[i]
        <5>1. 1 + i \in 1..Len(w) /\ n - 1 + (1 + i) = n + 1 - 1 + i
          BY <2>1, <3>0
        <5> QED BY <2>1, <3>1, <5>1 DEF HoldsAt
      <4> QED BY <2>1, <3>0, <4>1, <4>2 DEF HoldsAt
    <3>2. ASSUME line[n] = "WHERE", HoldsAt(line, n + 1, s) PROVE HoldsAt(line, n, w)
      <4>1. ASSUME NEW i \in 1..Len(w) PROVE line[n - 1 + i] = w[i]
        <5>1. CASE i = 1
          BY <2>1, <3>0, <3>2, <5>1
        <5>2. CASE i # 1
          <6>1. i - 1 \in 1..Len(s) /\ n + 1 - 1 + (i - 1) = n - 1 + i /\ 1 + (i - 1) = i
            BY <2>1, <3>0, <5>2
          <6>2. line[n + 1 - 1 + (i - 1)] = s[i - 1] /\ w[1 + (i - 1)] = s[i - 1]
            BY <2>1, <3>2, <6>1 DEF HoldsAt
          <6> QED BY <6>1, <6>2
        <5> QED BY <5>1, <5>2
      <4> QED BY <4>1 DEF HoldsAt
    <3> QED BY <3>1, <3>2
  <2>4. Len(line) = n - 1 + Len(w) <=> Len(line) = n + 5 * Len(where)
    <3>1. Len(w) = 1 + 5 * Len(where)
      BY <2>1
    <3>2. n - 1 + Len(w) = n + 5 * Len(where)
      BY <1>0, <3>1
    <3> QED BY <3>2
  <2>5. Good(w) <=> WhereAt(line, where, n)
    BY <1>2, <2>2, <2>3, <2>4 DEF WhereAt
  <2> HIDE DEF Good
  <2>6. (\E v \in WhereText(where) : Good(v)) <=> Good(w)
    BY <2>1
  <2> QED BY <2>5, <2>6 DEF Good
<1> QED BY <1>1, <1>2

SpelledOut(line, kind, ops, table, w, n) ==
  /\ n = Len(ops) + 2 /\ line[1] = kind /\ HoldsAt(line, 2, ops)
  /\ line[n] = "FROM" /\ line[n + 1] = table
  /\ Len(line) = n + 1 + Len(w) /\ HoldsAt(line, n + 2, w)

LEMMA TextIs ==
  ASSUME NEW kind \in Word, NEW table \in Word, NEW ops \in Seq(Word), NEW w \in Seq(Word),
         NEW n \in Nat, n = Len(ops) + 2, NEW t, t = <<kind>> \o ops \o <<"FROM", table>> \o w
  PROVE  t \in Seq(Word) /\ SpelledOut(t, kind, ops, table, w, n)
<1>1. PICK l, f : l = <<kind>> /\ f = <<"FROM", table>>
  OBVIOUS
<1>2. /\ l \in Seq(Word) /\ Len(l) = 1 /\ l[1] = kind
      /\ f \in Seq(Word) /\ Len(f) = 2 /\ f[1] = "FROM" /\ f[2] = table
  BY <1>1, Words
<1>3. PICK d : d = l \o ops
  OBVIOUS
<1>4. Joined(l, ops, d)
  BY <1>2, <1>3, Appended, Zenon
<1>5. PICK e : e = d \o f
  OBVIOUS
<1>6. Joined(d, f, e)
  <2>1. d \in Seq(Word)
    BY <1>4 DEF Joined
  <2> QED BY <1>2, <1>5, <2>1, Appended, Zenon
<1>7. Joined(e, w, t)
  <2>1. t = e \o w /\ e \in Seq(Word)
    BY <1>1, <1>3, <1>5, <1>6 DEF Joined
  <2> QED BY <2>1, Appended, Zenon
<1>8. Len(ops) \in Nat /\ Len(d) = 1 + Len(ops) /\ d[1] = kind
      /\ \A i \in 1..Len(ops) : d[1 + i] = ops[i]
  BY <1>2, <1>4 DEF Joined
<1>9. /\ Len(e) = Len(ops) + 3 /\ Len(e) \in Nat
      /\ \A i \in 1..Len(d) : e[i] = d[i]
      /\ e[Len(d) + 1] = "FROM" /\ e[Len(d) + 2] = table
  BY <1>2, <1>6, <1>8 DEF Joined
<1>10. /\ t \in Seq(Word) /\ Len(t) = Len(ops) + 3 + Len(w) /\ Len(w) \in Nat
       /\ \A i \in 1..Len(e) : t[i] = e[i]
       /\ \A i \in 1..Len(w) : t[Len(e) + i] = w[i]
  BY <1>7, <1>9 DEF Joined
<1>11. t[1] = kind
  BY <1>8, <1>9, <1>10
<1>12. HoldsAt(t, 2, ops)
  <2>1. ASSUME NEW i \in 1..Len(ops) PROVE t[2 - 1 + i] = ops[i]
    <3>1. 1 + i \in 1..Len(d) /\ 1 + i \in 1..Len(e) /\ 2 - 1 + i = 1 + i
      BY <1>8, <1>9
    <3> QED BY <1>8, <1>9, <1>10, <3>1
  <2> QED BY <2>1 DEF HoldsAt
<1>13. t[n] = "FROM" /\ t[n + 1] = table
  <2>1. n = Len(d) + 1 /\ n + 1 = Len(d) + 2 /\ n \in 1..Len(e) /\ n + 1 \in 1..Len(e)
    BY <1>8, <1>9
  <2> QED BY <1>9, <1>10, <2>1
<1>14. HoldsAt(t, n + 2, w)
  <2>1. ASSUME NEW i \in 1..Len(w) PROVE t[n + 2 - 1 + i] = w[i]
    <3>1. n + 2 - 1 + i = Len(e) + i
      BY <1>9
    <3> QED BY <1>10, <3>1
  <2> QED BY <2>1 DEF HoldsAt
<1>15. Len(t) = n + 1 + Len(w)
  BY <1>8, <1>10
<1> QED BY <1>10, <1>11, <1>12, <1>13, <1>14, <1>15 DEF SpelledOut

\* A line that holds all this holds nothing else.
LEMMA SpelledOutIsText ==
  ASSUME NEW line \in Seq(Word), NEW t \in Seq(Word), NEW kind, NEW table,
         NEW ops \in Seq(Word), NEW w \in Seq(Word), NEW n \in Nat,
         SpelledOut(line, kind, ops, table, w, n), SpelledOut(t, kind, ops, table, w, n)
  PROVE  line = t
<1>1. Len(ops) \in Nat /\ Len(w) \in Nat /\ n = Len(ops) + 2
      /\ Len(line) = n + 1 + Len(w) /\ Len(t) = n + 1 + Len(w)
  BY DEF SpelledOut
<1>2. ASSUME NEW i \in 1..(n + 1 + Len(w)) PROVE line[i] = t[i]
  <2>1. CASE i = 1 \/ i = n \/ i = n + 1
    BY <2>1 DEF SpelledOut
  <2>2. CASE i # 1 /\ i < n
    <3>1. PICK j \in 1..Len(ops) : 2 - 1 + j = i
      <4>1. i - 1 \in 1..Len(ops) /\ 2 - 1 + (i - 1) = i
        BY <1>1, <2>2
      <4> QED BY <4>1
    <3>2. line[2 - 1 + j] = ops[j] /\ t[2 - 1 + j] = ops[j]
      BY DEF SpelledOut, HoldsAt
    <3> QED BY <3>1, <3>2
  <2>3. CASE i > n + 1
    <3>1. PICK j \in 1..Len(w) : n + 2 - 1 + j = i
      <4>1. i - (n + 1) \in 1..Len(w) /\ n + 2 - 1 + (i - (n + 1)) = i
        BY <1>1, <2>3
      <4> QED BY <4>1
    <3>2. line[n + 2 - 1 + j] = w[j] /\ t[n + 2 - 1 + j] = w[j]
      BY DEF SpelledOut, HoldsAt
    <3> QED BY <3>1, <3>2
  <2> QED BY <1>1, <2>1, <2>2, <2>3
<1>3. line = [i \in 1..(n + 1 + Len(w)) |-> line[i]] /\ t = [i \in 1..(n + 1 + Len(w)) |-> t[i]]
  BY <1>1
<1> QED BY <1>2, <1>3

IsText(line, kind, table, operands, where) ==
  \E ops \in OperandText(operands), w \in WhereText(where) :
    line = <<kind>> \o ops \o <<"FROM", table>> \o w

TextsOf(kind, table, operands, where) ==
  {<<kind>> \o ops \o <<"FROM", table>> \o w :
     ops \in OperandText(operands), w \in WhereText(where)}

LEMMA TextsOfIs ==
  ASSUME NEW line, NEW kind, NEW table, NEW operands, NEW where
  PROVE  line \in TextsOf(kind, table, operands, where) <=>
           IsText(line, kind, table, operands, where)
<1> DEFINE text(ops, w) == <<kind>> \o ops \o <<"FROM", table>> \o w
<1>1. TextsOf(kind, table, operands, where) =
        {text(ops, w) : ops \in OperandText(operands), w \in WhereText(where)}
  BY DEF TextsOf
<1>2. IsText(line, kind, table, operands, where) <=>
        \E ops \in OperandText(operands), w \in WhereText(where) : line = text(ops, w)
  BY Zenon DEF IsText
<1> HIDE DEF text
<1> QED BY <1>1, <1>2

LEMMA WhereTextsAre ==
  ASSUME NEW where \in Seq(Triple), NEW w \in WhereText(where) PROVE w \in Seq(Word)
<1>1. CASE where = << >>
  <2>1. w = << >> \/ w = <<"WHERE">>
    BY <1>1 DEF WhereText
  <2>2. << >> \in Seq(Word)
    OBVIOUS
  <2>3. <<"WHERE">> \in Seq(Word)
    BY Words
  <2> QED BY <2>1, <2>2, <2>3, Zenon
<1>2. CASE where # << >>
  BY <1>2, WhereTexts
<1> QED BY <1>1, <1>2

LEMMA TextSays ==
  ASSUME NEW line \in Seq(Word), NEW kind \in Word, NEW table \in Word,
         NEW operands \in Seq(Word), NEW where \in Seq(Triple)
  PROVE  IsText(line, kind, table, operands, where) <=> Says(line, kind, table, operands, where)
<1>1. ASSUME IsText(line, kind, table, operands, where)
      PROVE  Says(line, kind, table, operands, where)
  <2>1. PICK ops \in OperandText(operands), w \in WhereText(where) :
          line = <<kind>> \o ops \o <<"FROM", table>> \o w
    BY <1>1 DEF IsText
  <2>2. ops \in Seq(Word) /\ w \in Seq(Word)
    BY OperandTexts, WhereTextsAre
  <2>3. PICK n \in Nat : n = Len(ops) + 2
    BY <2>2
  <2>4. SpelledOut(line, kind, ops, table, w, n)
    BY <2>1, <2>2, <2>3, TextIs
  <2>5. OpsAt(line, operands, n)
    <3>1. Len(ops) = n - 2 /\ HoldsAt(line, 2, ops)
      BY <2>2, <2>3, <2>4 DEF SpelledOut
    <3> QED BY <3>1, OpsTextAt
  <2>6. WhereAt(line, where, n + 2)
    <3>1. PICK m \in Nat : m = n + 2
      OBVIOUS
    <3>2. Len(line) = m - 1 + Len(w) /\ HoldsAt(line, m, w)
      BY <2>2, <2>4, <3>1 DEF SpelledOut
    <3>3. WhereAt(line, where, m)
      BY <3>2, WhereTextAt
    <3> QED BY <3>1, <3>3
  <2>7. n + 1 <= Len(line)
    BY <2>2, <2>4 DEF SpelledOut
  <2> QED BY <2>4, <2>5, <2>6, <2>7 DEF Says, SaysFrom, SpelledOut
<1>2. ASSUME Says(line, kind, table, operands, where)
      PROVE  IsText(line, kind, table, operands, where)
  <2>1. PICK n \in Nat : SaysFrom(line, kind, table, operands, where, n)
    BY <1>2 DEF Says
  <2>2. PICK ops \in OperandText(operands) : Len(ops) = n - 2 /\ HoldsAt(line, 2, ops)
    BY <2>1, OpsTextAt DEF SaysFrom
  <2>3. PICK w \in WhereText(where) :
          Len(line) = n + 2 - 1 + Len(w) /\ HoldsAt(line, n + 2, w)
    <3>1. PICK m \in Nat : m = n + 2
      OBVIOUS
    <3>2. WhereAt(line, where, m)
      BY <2>1, <3>1 DEF SaysFrom
    <3>3. PICK w \in WhereText(where) : Len(line) = m - 1 + Len(w) /\ HoldsAt(line, m, w)
      BY <3>2, WhereTextAt
    <3> QED BY <3>1, <3>3
  <2>4. ops \in Seq(Word) /\ w \in Seq(Word)
    BY OperandTexts, WhereTextsAre
  <2>5. n = Len(ops) + 2
    BY <2>2, <2>4
  <2>6. SpelledOut(line, kind, ops, table, w, n)
    <3>1. Len(line) = n + 1 + Len(w)
      BY <2>3, <2>4
    <3> QED BY <2>1, <2>2, <2>3, <2>5, <3>1 DEF SpelledOut, SaysFrom
  <2>7. PICK t : t = <<kind>> \o ops \o <<"FROM", table>> \o w
    OBVIOUS
  <2>8. t \in Seq(Word) /\ SpelledOut(t, kind, ops, table, w, n)
    BY <2>4, <2>5, <2>7, TextIs
  <2>9. line = t
    BY <2>4, <2>6, <2>8, SpelledOutIsText
  <2> QED BY <2>7, <2>9 DEF IsText
<1> QED BY <1>1, <1>2
-----------------------------------------------------------------------------
\* A line says one thing only: the first closing parenthesis ends the operands.
Plain(operands) == operands \in Seq(Word) /\ \A i \in 1..Len(operands) : operands[i] # ")"

LEMMA OneFrom ==
  ASSUME NEW line, NEW o1, NEW o2, NEW n1 \in Nat, NEW n2 \in Nat, Plain(o1), Plain(o2),
         OpsAt(line, o1, n1), OpsAt(line, o2, n2), line[n1] = "FROM", line[n2] = "FROM"
  PROVE  n1 = n2 /\ o1 = o2
<1>1. Len(o1) \in Nat /\ Len(o2) \in Nat
  BY DEF Plain
<1>2. "FROM" # "("
  OBVIOUS
<1>3. ASSUME NEW p, NEW q, NEW i \in Nat, NEW j \in Nat, Plain(p), Plain(q), i < j,
             OpsAt(line, p, i), OpsAt(line, q, j), line[i] = "FROM"
      PROVE  FALSE
  <2>1. Len(p) \in Nat /\ Len(q) \in Nat
    BY <1>3 DEF Plain
  <2>2. j = Len(q) + 4 /\ line[2] = "(" /\ HoldsAt(line, 3, q)
    <3>1. ~(j = 2)
      <4>1. i = 2 \/ i = Len(p) + 4
        BY <1>3 DEF OpsAt
      <4> QED BY <1>3, <2>1, <4>1
    <3> QED BY <1>3, <3>1 DEF OpsAt
  <2>3. i = Len(p) + 4 /\ line[i - 1] = ")"
    BY <1>2, <1>3, <2>2 DEF OpsAt
  <2>4. i - 3 \in 1..Len(q) /\ 3 - 1 + (i - 3) = i - 1
    BY <1>3, <2>1, <2>2, <2>3
  <2>5. line[i - 1] = q[i - 3]
    BY <2>2, <2>4 DEF HoldsAt
  <2> QED BY <1>3, <2>3, <2>4, <2>5 DEF Plain
<1>4. n1 = n2
  <2>1. n1 < n2 \/ n2 < n1 \/ n1 = n2
    OBVIOUS
  <2> QED BY <1>3, <2>1
<1>5. CASE n1 = 2
  <2>1. o1 = << >> /\ o2 = << >>
    BY <1>1, <1>4, <1>5 DEF OpsAt
  <2> QED BY <1>4, <2>1
<1>6. CASE n1 # 2
  <2>1. /\ n1 = Len(o1) + 4 /\ HoldsAt(line, 3, o1)
        /\ n2 = Len(o2) + 4 /\ HoldsAt(line, 3, o2)
    BY <1>4, <1>6 DEF OpsAt
  <2>2. Len(o1) = Len(o2)
    <3>1. Len(o1) + 4 = Len(o2) + 4
      BY <1>4, <2>1
    <3> QED BY <1>1, <3>1
  <2>3. \A i \in 1..Len(o1) : o1[i] = o2[i]
    BY <2>1, <2>2 DEF HoldsAt
  <2>4. o1 = [i \in 1..Len(o1) |-> o1[i]] /\ o2 = [i \in 1..Len(o2) |-> o2[i]]
    BY DEF Plain
  <2> QED BY <1>4, <2>2, <2>3, <2>4
<1> QED BY <1>5, <1>6

LEMMA OneWhere ==
  ASSUME NEW line \in Seq(Word), NEW n \in Nat, NEW w1 \in Seq(Triple), NEW w2 \in Seq(Triple),
         WhereAt(line, w1, n), WhereAt(line, w2, n)
  PROVE  w1 = w2
<1>1. Len(w1) \in Nat /\ Len(w2) \in Nat /\ Len(line) \in Nat
  OBVIOUS
<1>2. CASE w1 = << >> \/ w2 = << >>
  <2>1. Len(<< >>) = 0
    OBVIOUS
  <2>2. Len(w1) = 0 /\ Len(w2) = 0
    BY <1>1, <1>2, <2>1 DEF WhereAt
  <2> QED BY <2>2
<1>3. CASE w1 # << >> /\ w2 # << >>
  <2>1. Len(w1) = Len(w2) /\ ConditionsAt(line, n + 1, w1) /\ ConditionsAt(line, n + 1, w2)
    <3>1. Len(line) = n + 5 * Len(w1) /\ Len(line) = n + 5 * Len(w2)
      BY <1>3 DEF WhereAt
    <3>2. Len(w1) = Len(w2)
      BY <1>1, <3>1
    <3> QED BY <1>3, <3>2 DEF WhereAt
  <2>2. ASSUME NEW i \in 1..Len(w1) PROVE w1[i] = w2[i]
    <3>1. ConditionAt(line, n + 1 + 5 * i - 5, w1[i]) /\ ConditionAt(line, n + 1 + 5 * i - 5, w2[i])
      BY <2>1 DEF ConditionsAt
    <3>2. w1[i] \in Triple /\ w2[i] \in Triple
      BY <2>1
    <3>3. /\ w1[i] = <<w1[i][1], w1[i][2], w1[i][3]>>
          /\ w2[i] = <<w2[i][1], w2[i][2], w2[i][3]>>
      BY <3>2, TripleIs
    <3>4. w1[i][1] = w2[i][1] /\ w1[i][2] = w2[i][2] /\ w1[i][3] = w2[i][3]
      BY <3>1 DEF ConditionAt
    <3> QED BY <3>3, <3>4
  <2>3. w1 = [i \in 1..Len(w1) |-> w1[i]] /\ w2 = [i \in 1..Len(w2) |-> w2[i]]
    OBVIOUS
  <2> QED BY <2>1, <2>2, <2>3
<1> QED BY <1>2, <1>3
-----------------------------------------------------------------------------
\* What a query of QueryForms is, and what the lines say.
Fits(line) == line[1] \in DOMAIN Management /\ Len(line) = Management[line[1]] + 1
Said(line) == {q \in QueryForms : line \in Texts(q)}
Right(line, b, result) ==
  CASE result.kind = "NOP" ->
         /\ \A q \in Said(line) : q.kind \in NopKinds
         /\ line \in Texts(Built(line[1], <<b.targetTable>>, b.operandToken, b.conditionToken))
    [] result.kind = "failed" -> Said(line) = {}
    [] OTHER -> line \in Texts(result) /\ Said(line) \subseteq {result}

LEMMA Kinds ==
  /\ DOMAIN Management = {"LIST", "QUIT", "SHOWTABLE", "LOAD", "DROP", "TRUNCATE", "DUMP",
                          "COPYTABLE"}
  /\ DOMAIN Management \cap (DataKinds \cup NopKinds) = {}
  /\ DebugKinds \subseteq DOMAIN Management
  /\ "NOP" \notin DOMAIN Management /\ "failed" \notin DOMAIN Management
  /\ "NOP" \notin DataKinds /\ "failed" \notin DataKinds /\ DataKinds \cap NopKinds = {}
<1>1. DOMAIN Management = {"LIST", "QUIT", "SHOWTABLE", "LOAD", "DROP", "TRUNCATE", "DUMP",
                           "COPYTABLE"}
  BY DEF Management
<1> QED BY <1>1 DEF DataKinds, NopKinds, DebugKinds

LEMMA BuiltIs ==
  ASSUME NEW kind, NEW names, NEW operands, NEW where, NEW r, r = Built(kind, names, operands, where)
  PROVE  r.kind = kind /\ r.names = names /\ r.operands = operands /\ r.where = where
BY DEF Built

LEMMA SeqOfMore == ASSUME NEW S, NEW T, S \subseteq T, NEW s \in Seq(S) PROVE s \in Seq(T)
<1>1. s \in [1..Len(s) -> S] /\ Len(s) \in Nat
  OBVIOUS
<1>2. s \in [1..Len(s) -> T]
  BY <1>1
<1> QED BY <1>1, <1>2

LEMMA FormIs ==
  ASSUME NEW q \in QueryForms
  PROVE  /\ q = Built(q.kind, q.names, q.operands, q.where)
         /\ q.names \in Seq(Word) /\ Plain(q.operands) /\ q.where \in Seq(Triple)
         /\ q.kind \in DOMAIN Management =>
              /\ Len(q.names) = Management[q.kind]
              /\ q.operands = << >> /\ q.where = << >>
         /\ q.kind \notin DOMAIN Management => q.kind \in DataKinds \cup NopKinds /\ Len(q.names) = 1
<1>1. IsForm(q)
  BY QueryAssumption
<1>2. q.names \in Seq(Word)
  <2>1. STRING \subseteq Word
    BY Words
  <2>2. q.names \in Seq(STRING)
    BY <1>1 DEF IsForm
  <2> QED BY <2>1, <2>2, SeqOfMore, Zenon
<1>3. Plain(q.operands)
  <2>1. STRING \subseteq Word
    BY Words
  <2>2. PICK o : o = q.operands /\ o \in Seq(STRING \ {")"})
    BY <1>1 DEF IsForm
  <2>3. \A i \in 1..Len(o) : o[i] \in STRING /\ o[i] # ")"
    BY <2>2
  <2>4. o \in Seq(Word)
    <3>1. STRING \ {")"} \subseteq Word
      BY <2>1
    <3> QED BY <2>2, <3>1, SeqOfMore, Zenon
  <2> QED BY <2>2, <2>3, <2>4 DEF Plain
<1>4. q.where \in Seq(Triple)
  <2>1. STRING \X STRING \X STRING \subseteq Triple
    BY Words DEF Triple
  <2>2. PICK w : w = q.where /\ w \in Seq(STRING \X STRING \X STRING)
    BY <1>1 DEF IsForm
  <2>3. w \in Seq(Triple)
    BY <2>1, <2>2, SeqOfMore, Zenon
  <2> QED BY <2>2, <2>3
<1> QED BY <1>1, <1>2, <1>3, <1>4, Zenon DEF IsForm

\* The text of a management query.
LEMMA NamesOf ==
  ASSUME NEW line \in Seq(Word), NEW kind \in Word, NEW names \in Seq(Word)
  PROVE  line = <<kind>> \o names <=> line # << >> /\ line[1] = kind /\ Tail(line) = names
<1>1. PICK l : l = <<kind>>
  OBVIOUS
<1>2. l \in Seq(Word) /\ Len(l) = 1 /\ l[1] = kind
  BY <1>1
<1>3. PICK t : t = l \o names
  OBVIOUS
<1>4. Joined(l, names, t)
  BY <1>2, <1>3, Appended, Zenon
<1>5. /\ t \in Seq(Word) /\ Len(t) = 1 + Len(names) /\ Len(names) \in Nat /\ t[1] = kind
      /\ \A i \in 1..Len(names) : t[1 + i] = names[i]
  BY <1>2, <1>4 DEF Joined
<1>6. ASSUME NEW s \in Seq(Word), s # << >>
      PROVE  /\ Tail(s) \in Seq(Word) /\ Len(Tail(s)) = Len(s) - 1 /\ Len(s) \in Nat /\ Len(s) # 0
             /\ \A i \in 1..(Len(s) - 1) : Tail(s)[i] = s[i + 1]
  BY <1>6, HeadTailProperties
<1>7. t # << >> /\ Tail(t) = names
  <2>1. t # << >>
    BY <1>5
  <2>2. \A i \in 1..Len(names) : 1 + i = i + 1
    BY <1>5
  <2>3. /\ Tail(t) \in Seq(Word) /\ Len(Tail(t)) = Len(names)
        /\ \A i \in 1..Len(names) : Tail(t)[i] = names[i]
    <3>1. Len(t) - 1 = Len(names)
      BY <1>5
    <3> QED BY <1>5, <1>6, <2>1, <2>2, <3>1
  <2>4. PICK u \in Seq(Word) : u = Tail(t)
    BY <2>3
  <2>5. Len(u) = Len(names) /\ \A i \in 1..Len(names) : u[i] = names[i]
    BY <2>3, <2>4
  <2>6. u = [i \in 1..Len(names) |-> u[i]] /\ names = [i \in 1..Len(names) |-> names[i]]
    BY <2>5
  <2> QED BY <2>1, <2>4, <2>5, <2>6
<1>8. ASSUME line # << >>, line[1] = kind, Tail(line) = names PROVE line = t
  <2>1. /\ Len(line) = Len(t) /\ Len(t) = 1 + Len(names)
        /\ \A i \in 1..Len(names) : names[i] = line[i + 1]
    <3>1. /\ Len(names) = Len(line) - 1 /\ Len(line) \in Nat
          /\ \A i \in 1..(Len(line) - 1) : names[i] = line[i + 1]
      BY <1>6, <1>8
    <3> QED BY <1>5, <3>1
  <2>2. ASSUME NEW i \in 1..Len(t) PROVE line[i] = t[i]
    <3>1. CASE i = 1
      BY <1>5, <1>8, <3>1
    <3>2. CASE i # 1
      <4>1. PICK j \in 1..Len(names) : i = 1 + j /\ i = j + 1
        <5>1. i - 1 \in 1..Len(names) /\ i = 1 + (i - 1) /\ i = (i - 1) + 1
          BY <1>5, <2>1, <3>2
        <5> QED BY <5>1
      <4> QED BY <1>5, <2>1, <4>1
    <3> QED BY <3>1, <3>2
  <2>3. line = [i \in 1..Len(t) |-> line[i]] /\ t = [i \in 1..Len(t) |-> t[i]]
    BY <1>5, <2>1
  <2> QED BY <2>2, <2>3
<1> QED BY <1>1, <1>3, <1>5, <1>7, <1>8

LEMMA ManagedSays ==
  ASSUME NEW line \in Seq(Word), NEW q \in Said(line), q.kind \in DOMAIN Management
  PROVE  line # << >> /\ Fits(line) /\ q = Built(line[1], Tail(line), << >>, << >>)
<1>1. /\ q \in QueryForms /\ q.names \in Seq(Word) /\ q.kind \in Word
      /\ Len(q.names) = Management[q.kind]
      /\ q = Built(q.kind, q.names, << >>, << >>)
  <2>1. q \in QueryForms
    BY DEF Said
  <2> QED BY <2>1, FormIs, Words
<1>2. line = <<q.kind>> \o q.names
  BY DEF Said, Texts
<1>3. line # << >> /\ line[1] = q.kind /\ Tail(line) = q.names
  BY <1>1, <1>2, NamesOf
<1>4. Len(line) = Management[line[1]] + 1
  <2>1. Len(q.names) = Len(line) - 1 /\ Len(line) \in Nat
    BY <1>3, HeadTailProperties
  <2> QED BY <1>1, <1>3, <2>1
<1> QED BY <1>1, <1>3, <1>4 DEF Fits

LEMMA DataSays ==
  ASSUME NEW line \in Seq(Word), NEW q \in Said(line), q.kind \notin DOMAIN Management
  PROVE  /\ q.kind \in DataKinds \cup NopKinds /\ q.names[1] \in Word
         /\ Plain(q.operands) /\ q.where \in Seq(Triple)
         /\ Says(line, q.kind, q.names[1], q.operands, q.where) /\ line[1] = q.kind
         /\ q = Built(q.kind, <<q.names[1]>>, q.operands, q.where)
<1>1. /\ q \in QueryForms /\ q.names \in Seq(Word) /\ Len(q.names) = 1
      /\ q.kind \in DataKinds \cup NopKinds /\ q.kind \in Word
      /\ Plain(q.operands) /\ q.where \in Seq(Triple)
      /\ q = Built(q.kind, q.names, q.operands, q.where)
  <2>1. q \in QueryForms
    BY DEF Said
  <2>2. q.kind \in DataKinds \cup NopKinds
    BY <2>1, FormIs
  <2>3. q.kind \in Word
    BY <2>2, Words
  <2> QED BY <2>1, <2>2, <2>3, FormIs
<1>2. q.names[1] \in Word /\ q.names = <<q.names[1]>>
  BY <1>1
<1>3. q.operands \in Seq(Word)
  BY <1>1 DEF Plain
<1>4. IsText(line, q.kind, q.names[1], q.operands, q.where)
  <2>1. line \in Texts(q)
    BY DEF Said
  <2>2. Texts(q) = TextsOf(q.kind, q.names[1], q.operands, q.where)
    BY DEF Texts, TextsOf
  <2> QED BY <2>1, <2>2, TextsOfIs, Zenon
<1>5. Says(line, q.kind, q.names[1], q.operands, q.where)
  BY <1>1, <1>2, <1>3, <1>4, TextSays
<1>6. line[1] = q.kind
  BY <1>5 DEF Says, SaysFrom
<1> QED BY <1>1, <1>2, <1>5, <1>6

\* What the three ways to end with a result come to.
LEMMA RefusedIsRight ==
  ASSUME NEW line, NEW b, Said(line) = {} PROVE Right(line, b, Failed)
BY DEF Right, Failed, Built

LEMMA ManagedIsRight ==
  ASSUME NEW line \in Seq(Word), NEW b, line # << >>, Fits(line)
  PROVE  Right(line, b, Built(line[1], Tail(line), << >>, << >>))
<1>1. PICK r : r = Built(line[1], Tail(line), << >>, << >>)
  OBVIOUS
<1>2. r.kind = line[1] /\ r.names = Tail(line)
  BY <1>1 DEF Built
<1>3. r.kind # "NOP" /\ r.kind # "failed" /\ r.kind \in DOMAIN Management
  BY <1>2, Kinds DEF Fits
<1>4. line \in Texts(r)
  <2>1. line[1] \in Word /\ Tail(line) \in Seq(Word)
    BY HeadTailProperties, Words DEF Fits
  <2>2. line = <<line[1]>> \o Tail(line)
    BY <2>1, NamesOf
  <2>3. Texts(r) = {<<r.kind>> \o r.names}
    BY <1>3 DEF Texts
  <2> QED BY <1>2, <2>2, <2>3
<1>5. ASSUME NEW q \in Said(line) PROVE q = r
  <2>1. CASE q.kind \in DOMAIN Management
    BY <1>1, <2>1, ManagedSays
  <2>2. CASE q.kind \notin DOMAIN Management
    BY <2>2, DataSays DEF Fits
  <2> QED BY <2>1, <2>2
<1>6. line \in Texts(r) /\ Said(line) \subseteq {r}
  BY <1>4, <1>5
<1> QED BY <1>1, <1>3, <1>6, Zenon DEF Right

LEMMA SaidIsData ==
  ASSUME NEW line \in Seq(Word), ~Fits(line), NEW q \in Said(line)
  PROVE  q.kind \notin DOMAIN Management
BY ManagedSays

LEMMA SaysUnique ==
  ASSUME NEW line \in Seq(Word), NEW k1, NEW k2, NEW t1, NEW t2, NEW o1, NEW o2,
         NEW w1 \in Seq(Triple), NEW w2 \in Seq(Triple), Plain(o1), Plain(o2),
         Says(line, k1, t1, o1, w1), Says(line, k2, t2, o2, w2)
  PROVE  k1 = k2 /\ t1 = t2 /\ o1 = o2 /\ w1 = w2
<1>1. PICK n1 \in Nat : SaysFrom(line, k1, t1, o1, w1, n1)
  BY DEF Says
<1>2. PICK n2 \in Nat : SaysFrom(line, k2, t2, o2, w2, n2)
  BY DEF Says
<1>3. n1 = n2 /\ o1 = o2
  BY <1>1, <1>2, OneFrom DEF SaysFrom
<1>4. PICK m \in Nat : m = n1 + 2
  OBVIOUS
<1>5. WhereAt(line, w1, m) /\ WhereAt(line, w2, m)
  BY <1>1, <1>2, <1>3, <1>4 DEF SaysFrom
<1>6. w1 = w2
  BY <1>5, OneWhere
<1> QED BY <1>1, <1>2, <1>3, <1>6 DEF SaysFrom

LEMMA ExtractedIsRight ==
  ASSUME NEW line \in Seq(Word), ~Fits(line), NEW b,
         Plain(b.operandToken), b.conditionToken \in Seq(Triple), b.targetTable \in Word,
         line[1] \in Word,
         Says(line, line[1], b.targetTable, b.operandToken, b.conditionToken),
         NEW result,
         result = CASE line[1] \in DataKinds ->
                         Built(line[1], <<b.targetTable>>, b.operandToken, b.conditionToken)
                    [] line[1] \in NopKinds -> Built("NOP", << >>, << >>, << >>)
                    [] OTHER -> Failed
  PROVE  Right(line, b, result)
<1>1. PICK r : r = Built(line[1], <<b.targetTable>>, b.operandToken, b.conditionToken)
  OBVIOUS
<1>2. /\ r.kind = line[1] /\ r.names = <<b.targetTable>> /\ r.names[1] = b.targetTable
      /\ r.operands = b.operandToken /\ r.where = b.conditionToken
  <2>1. /\ r.kind = line[1] /\ r.names = <<b.targetTable>>
        /\ r.operands = b.operandToken /\ r.where = b.conditionToken
    BY <1>1 DEF Built
  <2> QED BY <2>1
<1>3. ASSUME NEW q \in Said(line)
      PROVE  q = r /\ q.kind = line[1] /\ q.kind \in DataKinds \cup NopKinds
  <2>1. q.kind \notin DOMAIN Management
    BY SaidIsData
  <2>2. /\ q.kind \in DataKinds \cup NopKinds /\ line[1] = q.kind
        /\ Plain(q.operands) /\ q.where \in Seq(Triple)
        /\ Says(line, q.kind, q.names[1], q.operands, q.where)
        /\ q = Built(q.kind, <<q.names[1]>>, q.operands, q.where)
    BY <2>1, DataSays
  <2>3. q.names[1] = b.targetTable /\ q.operands = b.operandToken /\ q.where = b.conditionToken
    BY <2>2, SaysUnique
  <2> QED BY <1>1, <2>2, <2>3
<1>4. ASSUME line[1] \in DataKinds \cup NopKinds PROVE line \in Texts(r)
  <2>1. r.kind \notin DOMAIN Management
    BY <1>2, <1>4, Kinds
  <2>2. Texts(r) = TextsOf(line[1], b.targetTable, b.operandToken, b.conditionToken)
    BY <1>2, <2>1 DEF Texts, TextsOf
  <2>3. IsText(line, line[1], b.targetTable, b.operandToken, b.conditionToken)
    BY TextSays DEF Plain
  <2> QED BY <2>2, <2>3, TextsOfIs
<1>5. CASE line[1] \in DataKinds
  <2>1. result = r
    BY <1>1, <1>5, Kinds
  <2>2. r.kind # "NOP" /\ r.kind # "failed"
    BY <1>2, <1>5, Kinds
  <2>3. line \in Texts(r) /\ Said(line) \subseteq {r}
    BY <1>3, <1>4, <1>5
  <2> QED BY <2>1, <2>2, <2>3, Zenon DEF Right
<1>6. CASE line[1] \in NopKinds
  <2>1. result = Built("NOP", << >>, << >>, << >>)
    BY <1>6, Kinds
  <2>2. result.kind = "NOP"
    BY <2>1, BuiltIs
  <2>3. (\A q \in Said(line) : q.kind \in NopKinds) /\ line \in Texts(r)
    BY <1>3, <1>4, <1>6
  <2>4. "NOP" # "failed"
    OBVIOUS
  <2> QED BY <1>1, <2>2, <2>3, <2>4, Zenon DEF Right
<1>7. CASE line[1] \notin DataKinds \cup NopKinds
  <2>1. result = Failed
    BY <1>7
  <2>2. Said(line) = {}
    BY <1>3, <1>7
  <2> QED BY <2>1, <2>2, RefusedIsRight
<1> QED BY <1>5, <1>6, <1>7

\* A line that says nothing is said by none.
LEMMA NothingSaid ==
  ASSUME NEW line \in Seq(Word), ~Fits(line),
         ASSUME NEW table, NEW operands, NEW where \in Seq(Triple), NEW n \in Nat,
                Plain(operands), SaysFrom(line, line[1], table, operands, where, n)
         PROVE  FALSE
  PROVE  Said(line) = {}
<1>1. ASSUME NEW q \in Said(line) PROVE FALSE
  <2>1. q.kind \notin DOMAIN Management
    BY SaidIsData
  <2>2. /\ line[1] = q.kind /\ Plain(q.operands) /\ q.where \in Seq(Triple)
        /\ Says(line, q.kind, q.names[1], q.operands, q.where)
    BY <2>1, DataSays
  <2>3. PICK n \in Nat : SaysFrom(line, line[1], q.names[1], q.operands, q.where, n)
    BY <2>2 DEF Says
  <2> QED BY <2>2, <2>3
<1> QED BY <1>1

-----------------------------------------------------------------------------
\* What the builders know of the line when it comes to each of them.
Places == {"idle", "debug", "manage", "operand", "from", "where", "condition", "extract"}
Typed(line, at, pos, b, count) ==
  /\ line \in Seq(Word) /\ at \in Places /\ pos \in Nat /\ count \in Nat
  /\ at # "idle" => line # << >>
  /\ b = [targetTable |-> b.targetTable, operandToken |-> b.operandToken,
          conditionToken |-> b.conditionToken]
  /\ b.operandToken \in Seq(Word) /\ b.conditionToken \in Seq(Triple)
FromAt(line, b, n) ==
  /\ n \in Nat /\ n <= Len(line) /\ Plain(b.operandToken)
  /\ OpsAt(line, b.operandToken, n) /\ line[n] = "FROM"
TableAt(line, b, n) ==
  FromAt(line, b, n) /\ n + 1 <= Len(line) /\ line[n + 1] = b.targetTable
Parsed(line, at, pos, b) ==
  \/ at = "idle"
  \/ at = "debug" /\ b = Fresh
  \/ /\ at = "manage" /\ b = Fresh
     /\ ~(line[1] \in DebugKinds /\ Len(line) = Management[line[1]] + 1)
  \/ at = "operand" /\ b = Fresh /\ ~Fits(line) /\ pos = 2
  \/ at = "from" /\ ~Fits(line) /\ FromAt(line, b, pos) /\ b.conditionToken = << >>
  \/ /\ at = "where" /\ ~Fits(line) /\ pos <= Len(line) /\ b.conditionToken = << >>
     /\ \E n \in Nat : pos = n + 2 /\ TableAt(line, b, n)
  \/ /\ at = "condition" /\ ~Fits(line) /\ pos <= Len(line) + 1
     /\ \E n \in Nat : /\ TableAt(line, b, n) /\ line[n + 2] = "WHERE"
                       /\ pos = n + 3 + 5 * Len(b.conditionToken)
                       /\ ConditionsAt(line, n + 3, b.conditionToken)
  \/ /\ at = "extract" /\ ~Fits(line) /\ Plain(b.operandToken)
     /\ Says(line, line[1], b.targetTable, b.operandToken, b.conditionToken)
QueryInv ==
  /\ Typed(qLine, qAt, qPos, qBuilder, qCount)
  /\ Parsed(qLine, qAt, qPos, qBuilder)
  /\ qAt = "idle" /\ qCount > 0 => Right(qLine, qBuilder, qResult)


\* Every step ends in another place or in a result.
LEMMA Went ==
  ASSUME QueryInv, qAt # "idle", NEW at \in Places, at # "idle", NEW pos \in Nat, Goto(at, pos),
         Typed(qLine, at, pos, qBuilder', qCount), Parsed(qLine, at, pos, qBuilder')
  PROVE  QueryInv'
BY Zenon DEF QueryInv, Goto

LEMMA Ended ==
  ASSUME QueryInv, qAt # "idle", NEW r, qAt' = "idle", qResult' = r, qLine' = qLine,
         qPos' = qPos, qCount' = qCount, Typed(qLine, "idle", qPos, qBuilder', qCount),
         Right(qLine, qBuilder', r)
  PROVE  QueryInv'
BY Zenon DEF QueryInv, Parsed

LEMMA Ends ==
  ASSUME QueryInv, qAt # "idle", NEW r, Build(r), Right(qLine, qBuilder, r)
  PROVE  QueryInv'
<1>1. Typed(qLine, "idle", qPos, qBuilder', qCount)
  <2>1. "idle" \in Places
    BY DEF Places
  <2> QED BY <2>1 DEF QueryInv, Build, Typed
<1>2. /\ qAt' = "idle" /\ qResult' = r /\ qLine' = qLine /\ qPos' = qPos /\ qCount' = qCount
      /\ qBuilder' = qBuilder
  BY DEF Build
<1> QED BY <1>1, <1>2, Ended, Zenon

LEMMA FreshTyped ==
  ASSUME NEW line \in Seq(Word), line # << >>, NEW at \in Places, NEW pos \in Nat, NEW count \in Nat
  PROVE  Typed(line, at, pos, Fresh, count)
BY DEF Typed, Fresh

LEMMA ParseLineStep ==
  ASSUME QueryInv, NEW line \in QueryLines, parseLine(line) PROVE QueryInv'
<1>1. line \in Seq(Word)
  <2>1. line \in Seq(STRING) /\ STRING \subseteq Word
    BY QueryAssumption, Words
  <2> QED BY <2>1, SeqOfMore, Zenon
<1>2. /\ qLine' = line /\ qPos' = 1 /\ qCount' = qCount + 1 /\ qCount' \in Nat
  BY DEF parseLine, QueryInv, Typed
<1>3. CASE line = << >>
  <2>1. qAt' = "idle" /\ qBuilder' = qBuilder /\ qResult' = Failed
    BY <1>3 DEF parseLine
  <2>2. Said(line) = {}
    <3>1. ASSUME NEW q \in Said(line) PROVE FALSE
      <4>1. q.kind \notin DOMAIN Management
        BY <1>1, <1>3, ManagedSays
      <4>2. Says(line, q.kind, q.names[1], q.operands, q.where)
        BY <1>1, <4>1, DataSays
      <4>3. PICK n \in Nat : n + 1 <= Len(line)
        BY <4>2 DEF Says, SaysFrom
      <4> QED BY <1>3, <4>3
    <3> QED BY <3>1
  <2>3. Right(line, qBuilder, Failed)
    BY <2>2, RefusedIsRight
  <2>4. Typed(line, "idle", 1, qBuilder, qCount')
    <3>1. "idle" \in Places /\ 1 \in Nat
      BY DEF Places
    <3> QED BY <1>1, <1>2, <3>1, Zenon DEF QueryInv, Typed
  <2> QED BY <1>2, <2>1, <2>3, <2>4, Zenon DEF QueryInv, Parsed
<1>4. CASE line # << >>
  <2>1. qAt' = "debug" /\ qBuilder' = Fresh
    BY <1>4 DEF parseLine, clear
  <2>2. Typed(line, "debug", 1, Fresh, qCount')
    <3>1. "debug" \in Places /\ 1 \in Nat
      BY DEF Places
    <3> QED BY <1>1, <1>2, <1>4, <3>1, FreshTyped
  <2>3. "debug" # "idle"
    OBVIOUS
  <2> QED BY <1>2, <2>1, <2>2, <2>3, Zenon DEF QueryInv, Parsed
<1> QED BY <1>3, <1>4

LEMMA DebugStep == ASSUME QueryInv, DebugQueryBuilder PROVE QueryInv'
<1>1. /\ qLine \in Seq(Word) /\ qLine # << >> /\ qPos \in Nat /\ qCount \in Nat
      /\ qAt = "debug" /\ qBuilder = Fresh
  BY DEF QueryInv, Typed, Parsed, DebugQueryBuilder
<1>2. CASE Matches(DebugKinds)
  <2>1. Fits(qLine)
    BY <1>2, Kinds DEF Matches, Fits
  <2>2. Build(Built(qLine[1], Tail(qLine), << >>, << >>))
    BY <1>2 DEF DebugQueryBuilder
  <2>3. Right(qLine, qBuilder, Built(qLine[1], Tail(qLine), << >>, << >>))
    BY <1>1, <2>1, ManagedIsRight
  <2>4. qAt # "idle"
    BY <1>1
  <2> QED BY <2>2, <2>3, <2>4, Ends, Zenon
<1>3. CASE ~Matches(DebugKinds)
  <2>1. Goto("manage", qPos) /\ qBuilder' = Fresh
    BY <1>1, <1>3 DEF DebugQueryBuilder
  <2>2. "manage" \in Places /\ "manage" # "idle" /\ qAt # "idle"
    BY <1>1 DEF Places
  <2>3. Parsed(qLine, "manage", qPos, Fresh)
    BY <1>3 DEF Parsed, Matches
  <2>4. Typed(qLine, "manage", qPos, Fresh, qCount)
    BY <1>1, <2>2, FreshTyped
  <2> QED BY <1>1, <2>1, <2>2, <2>3, <2>4, Went, Zenon
<1> QED BY <1>2, <1>3

LEMMA ManageStep == ASSUME QueryInv, ManageTableQueryBuilder PROVE QueryInv'
<1>1. /\ qLine \in Seq(Word) /\ qLine # << >> /\ qPos \in Nat /\ qCount \in Nat
      /\ qAt = "manage" /\ qBuilder = Fresh
      /\ ~(qLine[1] \in DebugKinds /\ Len(qLine) = Management[qLine[1]] + 1)
  BY DEF QueryInv, Typed, Parsed, ManageTableQueryBuilder
<1>2. CASE Matches(DOMAIN Management \ DebugKinds)
  <2>1. Fits(qLine)
    BY <1>2 DEF Matches, Fits
  <2>2. Build(Built(qLine[1], Tail(qLine), << >>, << >>))
    BY <1>2 DEF ManageTableQueryBuilder
  <2>3. Right(qLine, qBuilder, Built(qLine[1], Tail(qLine), << >>, << >>))
    BY <1>1, <2>1, ManagedIsRight
  <2>4. qAt # "idle"
    BY <1>1
  <2> QED BY <2>2, <2>3, <2>4, Ends, Zenon
<1>3. CASE ~Matches(DOMAIN Management \ DebugKinds)
  <2>1. Goto("operand", 2) /\ qBuilder' = Fresh
    BY <1>1, <1>3 DEF ManageTableQueryBuilder
  <2>2. "operand" \in Places /\ "operand" # "idle" /\ qAt # "idle" /\ 2 \in Nat
    BY <1>1 DEF Places
  <2>3. ~Fits(qLine)
    BY <1>1, <1>3 DEF Matches, Fits
  <2>4. Parsed(qLine, "operand", 2, Fresh)
    BY <2>3 DEF Parsed
  <2>5. Typed(qLine, "operand", 2, Fresh, qCount)
    BY <1>1, <2>2, FreshTyped
  <2> QED BY <1>1, <2>1, <2>2, <2>4, <2>5, Went, Zenon
<1> QED BY <1>2, <1>3


LEMMA TokIs ==
  ASSUME QueryInv, NEW n \in Nat, n >= 1
  PROVE  /\ Tok(n) # "end" => n <= Len(qLine)
         /\ n <= Len(qLine) => Tok(n) = qLine[n] /\ qLine[n] \in Word
BY DEF Tok, QueryInv, Typed

LEMMA ParseOperandStep == ASSUME QueryInv, parseOperand PROVE QueryInv'
<1>1. /\ qLine \in Seq(Word) /\ qLine # << >> /\ qPos = 2 /\ qCount \in Nat /\ Len(qLine) \in Nat
      /\ qAt = "operand" /\ qBuilder = Fresh /\ ~Fits(qLine) /\ qAt # "idle"
  BY DEF QueryInv, Typed, Parsed, parseOperand
<1>2. CASE AtEnd \/ Tok(qPos) \notin {"FROM", "("}
  <2>1. Build(Failed)
    <3>1. ~(qPos <= Len(qLine) /\ (Tok(qPos) = "FROM" \/ Tok(qPos) = "("))
      BY <1>1, <1>2 DEF AtEnd
    <3>2. CASE Build(Failed)
      BY <3>2
    <3>3. CASE Tok(qPos) = "FROM" \/ Tok(qPos) = "("
      <4>1. "FROM" # "end" /\ "(" # "end"
        OBVIOUS
      <4> QED BY <1>1, <3>1, <3>3, <4>1, TokIs
    <3> QED BY <3>2, <3>3 DEF parseOperand
  <2>2. Said(qLine) = {}
    <3>1. ASSUME NEW table, NEW operands, NEW where \in Seq(Triple), NEW n \in Nat,
                 Plain(operands), SaysFrom(qLine, qLine[1], table, operands, where, n)
          PROVE  FALSE
      <4>1. Len(operands) \in Nat /\ n + 1 <= Len(qLine)
        BY <3>1 DEF Plain, SaysFrom
      <4>2. 2 <= Len(qLine) /\ (qLine[2] = "FROM" \/ qLine[2] = "(")
        BY <1>1, <3>1, <4>1 DEF SaysFrom, OpsAt
      <4> QED BY <1>1, <1>2, <4>2, TokIs DEF AtEnd
    <3> QED BY <1>1, <3>1, NothingSaid
  <2> QED BY <1>1, <2>1, <2>2, RefusedIsRight, Ends
<1>3. CASE ~AtEnd /\ Tok(qPos) = "FROM"
  <2>1. Goto("from", 2) /\ qBuilder' = Fresh
    <3>1. "FROM" # "("
      OBVIOUS
    <3> QED BY <1>1, <1>3, <3>1 DEF parseOperand
  <2>2. 2 <= Len(qLine) /\ qLine[2] = "FROM"
    BY <1>1, <1>3, TokIs DEF AtEnd
  <2>3. FromAt(qLine, Fresh, 2) /\ Fresh.conditionToken = << >>
    BY <2>2 DEF FromAt, Fresh, Plain, OpsAt
  <2>4. "from" \in Places /\ "from" # "idle" /\ 2 \in Nat
    BY DEF Places
  <2>5. Typed(qLine, "from", 2, Fresh, qCount)
    BY <1>1, <2>4, FreshTyped
  <2>6. Parsed(qLine, "from", 2, Fresh)
    BY <1>1, <2>3 DEF Parsed
  <2> QED BY <1>1, <2>1, <2>4, <2>5, <2>6, Went, Zenon
<1>4. CASE ~AtEnd /\ Tok(qPos) = "("
  <2> DEFINE closing == {n \in 3..Len(qLine) : Closes(n)}
             end == IF closing = {} THEN Len(qLine) + 1 ELSE CHOOSE n \in closing : TRUE
             operands == qBuilder.operandToken \o SubSeq(qLine, 3, end - 1)
             b == [qBuilder EXCEPT !.operandToken = operands]
  <2>1. /\ qBuilder' = b
        /\ IF Tok(end + 1) = "FROM" THEN Goto("from", end + 1)
           ELSE /\ qAt' = "idle" /\ qResult' = Failed
                /\ UNCHANGED <<qLine, qPos, qCount>>
    <3>1. "FROM" # "("
      OBVIOUS
    <3> QED BY <1>1, <1>4, <3>1 DEF parseOperand, AtEnd
  <2>2. 2 <= Len(qLine) /\ qLine[2] = "("
    BY <1>1, <1>4, TokIs DEF AtEnd
  <2>3. end \in 3..(Len(qLine) + 1) /\ (end <= Len(qLine) => Closes(end))
    BY <1>1, <2>2
  <2>4. ASSUME NEW n \in 3..Len(qLine), Closes(n) PROVE end = n
    <3>1. n \in closing /\ end \in closing
      BY <2>4
    <3>2. end \in 3..Len(qLine) /\ Closes(end)
      BY <3>1
    <3>3. Tok(n) = ")" /\ (\A m \in 3..(n - 1) : Tok(m) # ")")
      BY <2>4 DEF Closes
    <3>4. Tok(end) = ")" /\ (\A m \in 3..(end - 1) : Tok(m) # ")")
      BY <3>2 DEF Closes
    <3> HIDE DEF end
    <3> QED BY <1>1, <3>2, <3>3, <3>4
  <2> HIDE DEF end
  <2>5. PICK s : s = SubSeq(qLine, 3, end - 1)
    OBVIOUS
  <2>6. /\ s \in Seq(Word) /\ Len(s) = end - 3 /\ \A i \in 1..Len(s) : s[i] = qLine[2 + i]
    <3>1. 3 \in 1..(Len(qLine) + 1) /\ end - 1 \in 3 - 1..Len(qLine)
      BY <1>1, <2>2, <2>3
    <3> QED BY <1>1, <2>3, <2>5, <3>1
  <2>7. operands = s /\ b.operandToken = s /\ b.targetTable = "" /\ b.conditionToken = << >>
        /\ b = [targetTable |-> "", operandToken |-> s, conditionToken |-> << >>]
    <3>1. << >> \o s = s
      BY <2>6
    <3>2. operands = s
      BY <1>1, <2>5, <3>1 DEF Fresh
    <3> HIDE DEF operands
    <3>3. b = [Fresh EXCEPT !.operandToken = s]
      BY <1>1, <3>2
    <3> HIDE DEF b
    <3>4. b = [targetTable |-> "", operandToken |-> s, conditionToken |-> << >>]
      BY <3>3 DEF Fresh
    <3> QED BY <3>2, <3>4
  <2>8. ASSUME NEW at \in Places, NEW pos \in Nat PROVE Typed(qLine, at, pos, b, qCount)
    <3>1. << >> \in Seq(Triple)
      OBVIOUS
    <3> HIDE DEF b
    <3> QED BY <1>1, <2>6, <2>7, <3>1 DEF Typed
  <2> HIDE DEF b, operands, closing
  <2>9. CASE Tok(end + 1) = "FROM"
    <3>1. end + 1 \in Nat /\ end + 1 <= Len(qLine) /\ qLine[end + 1] = "FROM"
      <4>1. end + 1 \in Nat /\ end + 1 >= 1 /\ Tok(end + 1) # "end"
        BY <2>3, <2>9
      <4> QED BY <2>9, <4>1, TokIs
    <3>2. Closes(end)
      BY <1>1, <2>3, <3>1
    <3>3. ASSUME NEW m \in 3..end PROVE Tok(m) = qLine[m]
      <4>1. m \in Nat /\ m >= 1 /\ m <= Len(qLine)
        BY <1>1, <2>3, <3>1
      <4> QED BY <4>1, TokIs
    <3>4. qLine[end] = ")" /\ \A m \in 3..(end - 1) : qLine[m] # ")"
      BY <2>3, <3>2, <3>3 DEF Closes
    <3>5. Plain(s)
      <4>1. ASSUME NEW i \in 1..Len(s) PROVE s[i] # ")"
        <5>1. 2 + i \in 3..(end - 1)
          BY <2>3, <2>6
        <5> QED BY <2>6, <3>4, <5>1
      <4> QED BY <2>6, <4>1 DEF Plain
    <3>6. OpsAt(qLine, s, end + 1)
      <4>1. PICK n \in Nat : n = end + 1 /\ n = Len(s) + 4 /\ n - 1 = end
        BY <2>3, <2>6
      <4>2. HoldsAt(qLine, 3, s)
        <5>1. \A i \in 1..Len(s) : 3 - 1 + i = 2 + i
          OBVIOUS
        <5> QED BY <2>6, <5>1 DEF HoldsAt
      <4>3. OpsAt(qLine, s, n)
        BY <2>2, <3>4, <4>1, <4>2 DEF OpsAt
      <4> QED BY <4>1, <4>3
    <3>7. FromAt(qLine, b, end + 1)
      BY <2>7, <3>1, <3>5, <3>6 DEF FromAt
    <3>8. "from" \in Places /\ "from" # "idle"
      BY DEF Places
    <3>9. Parsed(qLine, "from", end + 1, b)
      BY <1>1, <2>7, <3>7 DEF Parsed
    <3>10. Goto("from", end + 1) /\ qBuilder' = b
      BY <2>1, <2>9
    <3>11. Typed(qLine, "from", end + 1, b, qCount)
      BY <2>8, <3>1, <3>8
    <3> QED BY <1>1, <3>1, <3>8, <3>9, <3>10, <3>11, Went, Zenon
  <2>10. CASE Tok(end + 1) # "FROM"
    <3>1. Said(qLine) = {}
      <4>1. ASSUME NEW table, NEW ops, NEW where \in Seq(Triple), NEW n \in Nat,
                   Plain(ops), SaysFrom(qLine, qLine[1], table, ops, where, n)
            PROVE  FALSE
        <5>1. Len(ops) \in Nat /\ n + 1 <= Len(qLine) /\ qLine[n] = "FROM" /\ OpsAt(qLine, ops, n)
          BY <4>1 DEF Plain, SaysFrom
        <5>2. n = Len(ops) + 4 /\ qLine[n - 1] = ")" /\ HoldsAt(qLine, 3, ops)
          <6>1. "FROM" # "("
            OBVIOUS
          <6> QED BY <2>2, <5>1, <6>1 DEF OpsAt
        <5>3. n - 1 \in 3..Len(qLine) /\ n - 1 + 1 = n
          BY <1>1, <5>1, <5>2
        <5>4. Closes(n - 1)
          <6>1. Tok(n - 1) = ")"
            <7>1. n - 1 \in Nat /\ n - 1 >= 1 /\ n - 1 <= Len(qLine)
              BY <5>3
            <7> QED BY <5>2, <7>1, TokIs
          <6>2. ASSUME NEW m \in 3..(n - 1 - 1) PROVE Tok(m) # ")"
            <7>1. m \in Nat /\ m >= 1 /\ m <= Len(qLine)
              BY <1>1, <5>3
            <7>2. PICK i \in 1..Len(ops) : 3 - 1 + i = m
              <8>1. m - 2 \in 1..Len(ops) /\ 3 - 1 + (m - 2) = m
                BY <5>1, <5>2
              <8> QED BY <8>1
            <7>3. qLine[m] = ops[i] /\ ops[i] # ")"
              BY <4>1, <5>2, <7>2 DEF HoldsAt, Plain
            <7> QED BY <7>1, <7>3, TokIs
          <6> QED BY <6>1, <6>2 DEF Closes
        <5>5. end = n - 1
          BY <2>4, <5>3, <5>4
        <5>6. Tok(n) = "FROM"
          <6>1. n >= 1 /\ n <= Len(qLine)
            BY <1>1, <5>1, <5>2
          <6> QED BY <5>1, <6>1, TokIs
        <5> QED BY <2>10, <5>3, <5>5, <5>6
      <4> QED BY <1>1, <4>1, NothingSaid
    <3>2. Right(qLine, b, Failed)
      BY <3>1, RefusedIsRight
    <3>3. /\ qAt' = "idle" /\ qResult' = Failed /\ qLine' = qLine /\ qPos' = qPos
          /\ qCount' = qCount /\ qBuilder' = b
      BY <2>1, <2>10
    <3>4. "idle" \in Places /\ qPos \in Nat
      BY <1>1 DEF Places
    <3>5. Typed(qLine, "idle", qPos, b, qCount)
      BY <2>8, <3>4
    <3> QED BY <1>1, <3>2, <3>3, <3>5, Ended, Zenon
  <2> QED BY <2>9, <2>10
<1> QED BY <1>2, <1>3, <1>4


LEMMA TheFrom ==
  ASSUME NEW line, NEW b, NEW p, FromAt(line, b, p),
         NEW kind, NEW table, NEW operands, NEW where, NEW n \in Nat, Plain(operands),
         SaysFrom(line, kind, table, operands, where, n)
  PROVE  n = p
<1>1. /\ p \in Nat /\ Plain(b.operandToken) /\ OpsAt(line, b.operandToken, p)
      /\ line[p] = "FROM"
  BY DEF FromAt
<1>2. OpsAt(line, operands, n) /\ line[n] = "FROM"
  BY DEF SaysFrom
<1> QED BY <1>1, <1>2, OneFrom

LEMMA ParseFromStep == ASSUME QueryInv, parseFromClause PROVE QueryInv'
<1>1. /\ qLine \in Seq(Word) /\ qLine # << >> /\ qPos \in Nat /\ qCount \in Nat
      /\ Len(qLine) \in Nat /\ qAt = "from" /\ ~Fits(qLine) /\ qAt # "idle"
      /\ FromAt(qLine, qBuilder, qPos) /\ qBuilder.conditionToken = << >>
  BY DEF QueryInv, Typed, Parsed, parseFromClause
<1>2. CASE qPos + 1 > Len(qLine)
  <2>1. Build(Failed)
    BY <1>2 DEF parseFromClause
  <2>2. Said(qLine) = {}
    <3>1. ASSUME NEW table, NEW operands, NEW where \in Seq(Triple), NEW n \in Nat,
                 Plain(operands), SaysFrom(qLine, qLine[1], table, operands, where, n)
          PROVE  FALSE
      <4>1. n = qPos
        BY <1>1, <3>1, TheFrom
      <4>2. n + 1 <= Len(qLine)
        BY <3>1 DEF SaysFrom
      <4> QED BY <1>1, <1>2, <4>1, <4>2
    <3> QED BY <1>1, <3>1, NothingSaid
  <2> QED BY <1>1, <2>1, <2>2, RefusedIsRight, Ends
<1>3. CASE ~(qPos + 1 > Len(qLine))
  <2>1. PICK b : b = [qBuilder EXCEPT !.targetTable = qLine[qPos + 1]]
    OBVIOUS
  <2>2. /\ qBuilder' = b
        /\ Goto(IF qPos + 2 > Len(qLine) THEN "extract" ELSE "where", qPos + 2)
    BY <1>3, <2>1 DEF parseFromClause
  <2>3. /\ b = [targetTable |-> qLine[qPos + 1], operandToken |-> qBuilder.operandToken,
                conditionToken |-> << >>]
        /\ qBuilder.operandToken \in Seq(Word)
    BY <1>1, <2>1 DEF QueryInv, Typed
  <2>4. b.targetTable = qLine[qPos + 1] /\ b.operandToken = qBuilder.operandToken
        /\ b.conditionToken = << >>
    BY <2>3
  <2>5. TableAt(qLine, b, qPos)
    BY <1>1, <1>3, <2>4 DEF TableAt, FromAt
  <2>6. ASSUME NEW at \in Places, NEW pos \in Nat PROVE Typed(qLine, at, pos, b, qCount)
    <3>1. << >> \in Seq(Triple)
      OBVIOUS
    <3> QED BY <1>1, <2>3, <2>4, <3>1 DEF Typed
  <2>7. CASE qPos + 2 > Len(qLine)
    <3>1. Goto("extract", qPos + 2)
      BY <2>2, <2>7
    <3>2. "extract" \in Places /\ "extract" # "idle" /\ qPos + 2 \in Nat
      BY <1>1 DEF Places
    <3>3. WhereAt(qLine, << >>, qPos + 2)
      <4>1. PICK n \in Nat : n = qPos + 2 /\ Len(qLine) = n - 1
        BY <1>1, <1>3, <2>7
      <4> QED BY <4>1 DEF WhereAt
    <3>4. SaysFrom(qLine, qLine[1], b.targetTable, b.operandToken, b.conditionToken, qPos)
      BY <2>4, <2>5, <3>3 DEF TableAt, FromAt, SaysFrom
    <3>5. Parsed(qLine, "extract", qPos + 2, b)
      BY <1>1, <2>5, <3>4 DEF Parsed, Says, TableAt, FromAt
    <3>6. Typed(qLine, "extract", qPos + 2, b, qCount)
      BY <2>6, <3>2
    <3> QED BY <1>1, <2>2, <3>1, <3>2, <3>5, <3>6, Went, Zenon
  <2>8. CASE ~(qPos + 2 > Len(qLine))
    <3>1. Goto("where", qPos + 2)
      BY <2>2, <2>8
    <3>2. "where" \in Places /\ "where" # "idle" /\ qPos + 2 \in Nat /\ qPos + 2 <= Len(qLine)
      BY <1>1, <2>8 DEF Places
    <3>3. Parsed(qLine, "where", qPos + 2, b)
      BY <1>1, <2>4, <2>5, <3>2, Zenon DEF Parsed
    <3>4. Typed(qLine, "where", qPos + 2, b, qCount)
      BY <2>6, <3>2
    <3> QED BY <1>1, <2>2, <3>1, <3>2, <3>3, <3>4, Went, Zenon
  <2> QED BY <2>7, <2>8
<1> QED BY <1>2, <1>3

LEMMA ParseWhereStep == ASSUME QueryInv, parseWhereClause PROVE QueryInv'
<1>1. /\ qLine \in Seq(Word) /\ qLine # << >> /\ qPos \in Nat /\ qCount \in Nat
      /\ Len(qLine) \in Nat /\ qAt = "where" /\ ~Fits(qLine) /\ qAt # "idle"
      /\ qPos <= Len(qLine) /\ qBuilder.conditionToken = << >>
      /\ \E n \in Nat : qPos = n + 2 /\ TableAt(qLine, qBuilder, n)
  BY DEF QueryInv, Typed, Parsed, parseWhereClause
<1>2. PICK n \in Nat : qPos = n + 2 /\ TableAt(qLine, qBuilder, n)
  BY <1>1
<1>3. Tok(qPos) = qLine[qPos]
  BY <1>1 DEF Tok
<1>4. CASE Tok(qPos) # "WHERE"
  <2>1. Build(Failed)
    BY <1>4 DEF parseWhereClause
  <2>2. Said(qLine) = {}
    <3>1. ASSUME NEW table, NEW operands, NEW where \in Seq(Triple), NEW m \in Nat,
                 Plain(operands), SaysFrom(qLine, qLine[1], table, operands, where, m)
          PROVE  FALSE
      <4>1. m = n
        <5>1. FromAt(qLine, qBuilder, n)
          BY <1>2 DEF TableAt
        <5> QED BY <3>1, <5>1, TheFrom
      <4>2. WhereAt(qLine, where, qPos)
        BY <1>2, <3>1, <4>1 DEF SaysFrom
      <4> QED BY <1>1, <1>3, <1>4, <4>2 DEF WhereAt
    <3> QED BY <1>1, <3>1, NothingSaid
  <2> QED BY <1>1, <2>1, <2>2, RefusedIsRight, Ends
<1>5. CASE Tok(qPos) = "WHERE"
  <2>1. Goto("condition", qPos + 1) /\ qBuilder' = qBuilder
    BY <1>5 DEF parseWhereClause
  <2>2. "condition" \in Places /\ "condition" # "idle" /\ qPos + 1 \in Nat
    BY <1>1 DEF Places
  <2>3. qPos + 1 <= Len(qLine) + 1 /\ qPos + 1 = n + 3 + 5 * Len(qBuilder.conditionToken)
    BY <1>1, <1>2
  <2>4. ConditionsAt(qLine, n + 3, qBuilder.conditionToken)
    BY <1>1 DEF ConditionsAt
  <2>5. Parsed(qLine, "condition", qPos + 1, qBuilder)
    BY <1>1, <1>2, <1>3, <1>5, <2>3, <2>4, Zenon DEF Parsed
  <2>6. Typed(qLine, "condition", qPos + 1, qBuilder, qCount)
    BY <1>1, <2>2, Zenon DEF QueryInv, Typed
  <2> QED BY <1>1, <2>1, <2>2, <2>5, <2>6, Went, Zenon
<1> QED BY <1>4, <1>5

LEMMA ExtractStep == ASSUME QueryInv, tryExtractQuery PROVE QueryInv'
<1>1. /\ qLine \in Seq(Word) /\ qLine # << >> /\ qLine[1] \in Word /\ ~Fits(qLine)
      /\ qAt # "idle" /\ Plain(qBuilder.operandToken)
      /\ Says(qLine, qLine[1], qBuilder.targetTable, qBuilder.operandToken,
              qBuilder.conditionToken)
      /\ qBuilder.conditionToken \in Seq(Triple)
  BY DEF QueryInv, Typed, Parsed, tryExtractQuery
<1>2. qBuilder.targetTable \in Word
  <2>1. PICK n \in Nat : n + 1 <= Len(qLine) /\ qLine[n + 1] = qBuilder.targetTable
    BY <1>1 DEF Says, SaysFrom
  <2>2. n + 1 \in 1..Len(qLine)
    BY <1>1, <2>1
  <2> QED BY <1>1, <2>1, <2>2
<1>3. PICK r : r = CASE qLine[1] \in DataKinds ->
                          Built(qLine[1], <<qBuilder.targetTable>>,
                                qBuilder.operandToken, qBuilder.conditionToken)
                     [] qLine[1] \in NopKinds -> Built("NOP", << >>, << >>, << >>)
                     [] OTHER -> Failed
  OBVIOUS
<1>4. Right(qLine, qBuilder, r)
  BY <1>1, <1>2, <1>3, ExtractedIsRight
<1>5. Build(r)
  BY <1>3, Zenon DEF tryExtractQuery
<1> QED BY <1>1, <1>4, <1>5, Ends


LEMMA ParseConditionStep == ASSUME QueryInv, parseCondition PROVE QueryInv'
<1>a. PICK where : where = qBuilder.conditionToken
  OBVIOUS
<1>b. /\ Typed(qLine, qAt, qPos, qBuilder, qCount) /\ qAt = "condition"
      /\ Parsed(qLine, qAt, qPos, qBuilder)
  BY DEF QueryInv, parseCondition
<1>c. /\ ~Fits(qLine) /\ qPos <= Len(qLine) + 1
      /\ \E n \in Nat : /\ TableAt(qLine, qBuilder, n) /\ qLine[n + 2] = "WHERE"
                        /\ qPos = n + 3 + 5 * Len(qBuilder.conditionToken)
                        /\ ConditionsAt(qLine, n + 3, qBuilder.conditionToken)
  BY <1>b, Zenon DEF Parsed
<1>1. /\ qLine \in Seq(Word) /\ qLine # << >> /\ qPos \in Nat /\ qCount \in Nat
      /\ Len(qLine) \in Nat /\ qAt = "condition" /\ ~Fits(qLine) /\ qAt # "idle"
      /\ qPos <= Len(qLine) + 1 /\ where \in Seq(Triple) /\ Len(where) \in Nat
  BY <1>a, <1>b, <1>c DEF Typed
<1>2. PICK n \in Nat : /\ TableAt(qLine, qBuilder, n) /\ qLine[n + 2] = "WHERE"
                       /\ qPos = n + 3 + 5 * Len(where) /\ ConditionsAt(qLine, n + 3, where)
  BY <1>a, <1>c
<1>3. CASE AtEnd
  <2>1. Goto("extract", qPos) /\ qBuilder' = qBuilder
    <3>1. ~(Tok(qPos) = "(")
      BY <1>1, <1>3 DEF AtEnd, Tok
    <3> QED BY <1>3, <3>1 DEF parseCondition
  <2>2. "extract" \in Places /\ "extract" # "idle"
    BY DEF Places
  <2>3. WhereAt(qLine, where, n + 2)
    <3>1. PICK m \in Nat : m = n + 2 /\ m + 1 = n + 3
      OBVIOUS
    <3>2. Len(qLine) = m + 5 * Len(where)
      BY <1>1, <1>2, <1>3, <3>1 DEF AtEnd
    <3>3. WhereAt(qLine, where, m)
      BY <1>2, <3>1, <3>2, Zenon DEF WhereAt
    <3> QED BY <3>1, <3>3
  <2>4. SaysFrom(qLine, qLine[1], qBuilder.targetTable, qBuilder.operandToken, where, n)
    BY <1>2, <2>3 DEF TableAt, FromAt, SaysFrom
  <2>5. Parsed(qLine, "extract", qPos, qBuilder)
    <3>1. Says(qLine, qLine[1], qBuilder.targetTable, qBuilder.operandToken, where)
      BY <2>4, Zenon DEF Says
    <3> QED BY <1>a, <1>1, <1>2, <3>1, Zenon DEF Parsed, TableAt, FromAt
  <2>6. Typed(qLine, "extract", qPos, qBuilder, qCount)
    BY <1>1, <2>2, Zenon DEF QueryInv, Typed
  <2> QED BY <1>1, <2>1, <2>2, <2>5, <2>6, Went, Zenon
<1>4. CASE /\ ~AtEnd
           /\ Tok(qPos) # "(" \/ qPos + 4 > Len(qLine) \/ Tok(qPos + 4) # ")"
  <2>1. Build(Failed)
    <3>1. ~(Tok(qPos) = "(" /\ Tok(qPos + 4) = ")")
      <4>1. CASE qPos + 4 > Len(qLine)
        BY <1>1, <4>1 DEF Tok
      <4> QED BY <1>4, <4>1
    <3> QED BY <1>4, <3>1 DEF parseCondition
  <2>2. Said(qLine) = {}
    <3>1. ASSUME NEW table, NEW operands, NEW w \in Seq(Triple), NEW m \in Nat,
                 Plain(operands), SaysFrom(qLine, qLine[1], table, operands, w, m)
          PROVE  FALSE
      <4>1. m = n
        <5>1. FromAt(qLine, qBuilder, n)
          BY <1>2 DEF TableAt
        <5> QED BY <3>1, <5>1, TheFrom
      <4>2. qPos <= Len(qLine) /\ Len(w) \in Nat
        BY <1>1, <1>4 DEF AtEnd
      <4>3. PICK k \in Nat : k = n + 2 /\ k + 1 = n + 3 /\ qPos = k + 1 + 5 * Len(where)
        BY <1>1, <1>2
      <4>4. Len(qLine) = k + 5 * Len(w) /\ ConditionsAt(qLine, k + 1, w)
        <5>1. WhereAt(qLine, w, k)
          BY <3>1, <4>1, <4>3 DEF SaysFrom
        <5>2. ~(Len(qLine) = k - 1)
          BY <1>1, <4>2, <4>3
        <5> QED BY <5>1, <5>2 DEF WhereAt
      <4>5. PICK i \in 1..Len(w) : k + 1 + 5 * i - 5 = qPos
        <5>1. Len(where) + 1 \in 1..Len(w)
          BY <1>1, <4>2, <4>3, <4>4
        <5>2. k + 1 + 5 * (Len(where) + 1) - 5 = qPos
          BY <1>1, <4>3
        <5> QED BY <5>1, <5>2
      <4>6. qPos + 4 <= Len(qLine)
        BY <1>1, <4>2, <4>4, <4>5
      <4>7. qLine[qPos] = "(" /\ qLine[qPos + 4] = ")"
        BY <4>4, <4>5 DEF ConditionsAt, ConditionAt
      <4> QED BY <1>1, <1>4, <4>2, <4>6, <4>7 DEF Tok
    <3> QED BY <1>1, <3>1, NothingSaid
  <2> QED BY <1>1, <2>1, <2>2, RefusedIsRight, Ends
<1>5. CASE ~AtEnd /\ Tok(qPos) = "(" /\ qPos + 4 <= Len(qLine) /\ Tok(qPos + 4) = ")"
  <2>1. PICK c : c = Condition(Tok(qPos + 1), Tok(qPos + 2), Tok(qPos + 3))
    OBVIOUS
  <2>2. PICK w : w = Append(where, c)
    OBVIOUS
  <2>3. PICK b : b = [qBuilder EXCEPT !.conditionToken = w]
    OBVIOUS
  <2>4. qBuilder' = b /\ Goto("condition", qPos + 5)
    <3>1. ~(qPos + 4 > Len(qLine))
      BY <1>1, <1>5
    <3>2. /\ qBuilder' = [qBuilder EXCEPT !.conditionToken =
                             Append(qBuilder.conditionToken,
                                    Condition(Tok(qPos + 1), Tok(qPos + 2), Tok(qPos + 3)))]
          /\ Goto("condition", qPos + 5)
      BY <1>5, <3>1, Zenon DEF parseCondition
    <3> QED BY <1>a, <2>1, <2>2, <2>3, <3>2
  <2>5. /\ qLine[qPos] = "(" /\ qLine[qPos + 4] = ")"
        /\ c = <<qLine[qPos + 1], qLine[qPos + 2], qLine[qPos + 3]>>
        /\ qLine[qPos + 1] \in Word /\ qLine[qPos + 2] \in Word /\ qLine[qPos + 3] \in Word
    <3>1. /\ qPos >= 1 /\ qPos \in 1..Len(qLine) /\ qPos + 1 \in 1..Len(qLine)
          /\ qPos + 2 \in 1..Len(qLine) /\ qPos + 3 \in 1..Len(qLine)
      BY <1>1, <1>2, <1>5
    <3> QED BY <1>1, <1>5, <2>1, <3>1 DEF Tok, Condition
  <2>6. c \in Triple /\ c[1] = qLine[qPos + 1] /\ c[2] = qLine[qPos + 2] /\ c[3] = qLine[qPos + 3]
    BY <2>5 DEF Triple
  <2>7. /\ w \in Seq(Triple) /\ Len(w) = Len(where) + 1 /\ w[Len(where) + 1] = c
        /\ \A i \in 1..Len(where) : w[i] = where[i]
    BY <1>1, <2>2, <2>6, AppendProperties
  <2>8. /\ b = [targetTable |-> qBuilder.targetTable, operandToken |-> qBuilder.operandToken,
                conditionToken |-> w]
        /\ qBuilder.operandToken \in Seq(Word)
    BY <2>3 DEF QueryInv, Typed
  <2>9. /\ b.targetTable = qBuilder.targetTable /\ b.operandToken = qBuilder.operandToken
        /\ b.conditionToken = w
    BY <2>8
  <2>10. TableAt(qLine, b, n)
    BY <1>2, <2>9 DEF TableAt, FromAt
  <2>11. ConditionsAt(qLine, n + 3, w)
    <3>1. ASSUME NEW i \in 1..Len(w) PROVE ConditionAt(qLine, n + 3 + 5 * i - 5, w[i])
      <4>1. CASE i = Len(where) + 1
        <5>1. n + 3 + 5 * i - 5 = qPos
          BY <1>1, <1>2, <4>1
        <5>2. ConditionAt(qLine, qPos, w[i])
          BY <2>5, <2>6, <2>7, <4>1 DEF ConditionAt
        <5> QED BY <5>1, <5>2
      <4>2. CASE i # Len(where) + 1
        <5>1. i \in 1..Len(where)
          BY <1>1, <2>7, <4>2
        <5>2. ConditionAt(qLine, n + 3 + 5 * i - 5, where[i])
          BY <1>2, <5>1 DEF ConditionsAt
        <5> QED BY <2>7, <5>1, <5>2
      <4> QED BY <4>1, <4>2
    <3> QED BY <3>1 DEF ConditionsAt
  <2>12. /\ qPos + 5 <= Len(qLine) + 1 /\ qPos + 5 = n + 3 + 5 * Len(w) /\ qPos + 5 \in Nat
    BY <1>1, <1>2, <1>5, <2>7
  <2>13. "condition" \in Places /\ "condition" # "idle"
    BY DEF Places
  <2>14. Parsed(qLine, "condition", qPos + 5, b)
    BY <1>1, <1>2, <2>9, <2>10, <2>11, <2>12, Zenon DEF Parsed
  <2>15. Typed(qLine, "condition", qPos + 5, b, qCount)
    BY <1>1, <2>7, <2>8, <2>9, <2>12, <2>13 DEF Typed
  <2> QED BY <1>1, <2>4, <2>12, <2>13, <2>14, <2>15, Went, Zenon
<1> QED BY <1>1, <1>3, <1>4, <1>5

LEMMA QueryInitInv == QueryInit => QueryInv
<1> SUFFICES ASSUME QueryInit PROVE QueryInv
  OBVIOUS
<1>1. qLine = << >> /\ qAt = "idle" /\ qPos = 1 /\ qBuilder = Fresh /\ qCount = 0
  BY DEF QueryInit, QueryIdle
<1>2. Typed(qLine, qAt, qPos, qBuilder, qCount)
  <2>1. /\ << >> \in Seq(Word) /\ << >> \in Seq(Triple) /\ "idle" \in Places
        /\ 0 \in Nat /\ 1 \in Nat
    BY DEF Places
  <2>2. Fresh = [targetTable |-> Fresh.targetTable, operandToken |-> Fresh.operandToken,
                 conditionToken |-> Fresh.conditionToken]
        /\ Fresh.operandToken = << >> /\ Fresh.conditionToken = << >>
    BY DEF Fresh
  <2> QED BY <1>1, <2>1, <2>2 DEF Typed
<1> QED BY <1>1, <1>2 DEF QueryInv, Parsed

LEMMA QueryStepInv == QueryInv /\ [QueryNext]_qVars => QueryInv'
<1>1. ASSUME QueryInv, QueryNext PROVE QueryInv'
  BY <1>1, ParseLineStep, DebugStep, ManageStep, ParseOperandStep, ParseFromStep, ParseWhereStep,
     ParseConditionStep, ExtractStep, Zenon DEF QueryNext
<1>2. ASSUME QueryInv, UNCHANGED qVars PROVE QueryInv'
  BY <1>2 DEF qVars, QueryInv, Typed, Parsed, Right
<1> QED BY <1>1, <1>2

LEMMA RightIsSaid == QueryInv => QueryIsWhatTheLineSays
BY DEF QueryInv, QueryIsWhatTheLineSays, Right, Said

\* QueryIsWhatTheLineSays for every sequence of lines: a line is made into the
\* one query it writes down, and refused if it writes down none, whatever the
\* builders collected from the lines before it (QueryParser.cpp:21,
\* QueryBuilders.cpp:206-213, 280-285).
THEOREM ParsedIsWhatTheLineSays == QuerySpec => []QueryIsWhatTheLineSays
BY QueryInitInv, QueryStepInv, RightIsSaid, PTL DEF QuerySpec
=============================================================================
