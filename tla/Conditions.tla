------------------------------ MODULE Conditions ------------------------------
(***************************************************************************)
(* The WHERE clauses of LemonDB: ComplexQuery::initCondition and           *)
(* evalCondition (Projects/p2/src/query/Query.cpp).  A clause is a         *)
(* sequence of conditions [field, op, key, value]: one on KEY has a key,   *)
(* one on a column has a number, and a number outside ValueType stands for *)
(* a text that std::stoi rejects.                                          *)
(***************************************************************************)
EXTENDS Table, FiniteSetsExt

CONSTANT KEY   \* the name of the key column

OnKey(cond) == cond.field = KEY

\* What makes initCondition throw, at one condition.
Throws(t, cond) ==
  \/ OnKey(cond) /\ cond.op # "="
  \/ ~OnKey(cond) /\ \/ ~HasField(t, cond.field)
                     \/ cond.value \notin ValueType
                     \/ cond.op \notin {"<", "<=", "=", ">=", ">"}

\* A second KEY value: the clause is false of every row.
Clashes(where, i) ==
  OnKey(where[i]) /\ \E j \in 1..(i - 1) : /\ OnKey(where[j])
                                           /\ where[j].key # where[i].key

\* initCondition stops at the first condition that throws or clashes.
Stops(t, where) ==
  {i \in DOMAIN where : Throws(t, where[i]) \/ Clashes(where, i)}
InitThrows(t, where) ==
  Stops(t, where) # {} /\ Throws(t, where[Min(Stops(t, where))])
AlwaysFalse(t, where) ==
  Stops(t, where) # {} /\ ~InitThrows(t, where)

\* The comparators after the one that clashed were never set.
Unset(t, where, i) ==
  ~OnKey(where[i]) /\ Stops(t, where) # {} /\ i > Min(Stops(t, where))

Compare(op, m, n) ==
  \/ op = "<" /\ m < n
  \/ op = "<=" /\ m <= n
  \/ op = "=" /\ m = n
  \/ op = ">=" /\ m >= n
  \/ op = ">" /\ m > n

\* One condition of one row: "unset" is a call of an empty std::function and
\* "throw" a cell that a short row does not have.
Verdict(t, where, i, row) ==
  LET cond == where[i] IN
  IF OnKey(cond) THEN (IF row.key = cond.key THEN "true" ELSE "false")
  ELSE IF Unset(t, where, i) THEN "unset"
  ELSE IF ~HasCell(row, getFieldIndex(t, cond.field)) THEN "throw"
  ELSE IF Compare(cond.op, row.vals[getFieldIndex(t, cond.field)], cond.value)
  THEN "true" ELSE "false"

\* A plausible bug: the conjunction is not evaluated from left to right.
evalBackwards(t, where, row) ==
  LET decides == {i \in DOMAIN where : Verdict(t, where, i, row) # "true"}
  IN  IF decides = {} THEN "true" ELSE Verdict(t, where, Max(decides), row)

\* A plausible bug: a clause stops at its first true condition.
evalDisjunction(t, where, row) ==
  LET decides == {i \in DOMAIN where : Verdict(t, where, i, row) # "false"}
  IN  IF decides = {} THEN "false" ELSE Verdict(t, where, Min(decides), row)

\* evalCondition: ret && ..., so the first condition that is not true decides.
evalCondition(t, where, row) ==
  LET decides == {i \in DOMAIN where : Verdict(t, where, i, row) # "true"}
  IN  IF decides = {} THEN "true" ELSE Verdict(t, where, Min(decides), row)

\* What a clause means, when nothing in it throws: every condition holds.
Satisfies(t, where, row) ==
  \A i \in DOMAIN where :
    IF OnKey(where[i]) THEN row.key = where[i].key
    ELSE Compare(where[i].op, row.vals[getFieldIndex(t, where[i].field)],
                 where[i].value)
=============================================================================
