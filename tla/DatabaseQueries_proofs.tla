------------------------ MODULE DatabaseQueries_proofs -------------------------
(***************************************************************************)
(* Proofs about what the queries of Database do: which rows a scan hits,   *)
(* when it fails, what it answers, what it leaves in the table and the     *)
(* index, and what a DUMP gives back.                                      *)
(*                                                                         *)
(* A row of a rectangular table is judged as its clause says, wherever     *)
(* initCondition stopped (EvalIsSatisfies), and the rows to come are as    *)
(* they were: so the rows hit are those of the clause.  SUM is right up to *)
(* a multiple of 2^Width all the way (Congruent), DUPLICATE has a copy,    *)
(* made or to be made, for every row it hit (Duplicating).                 *)
(***************************************************************************)
EXTENDS Database_proofs

\* Clauses.  A clause speaks of a table by the names of its columns.
LEMMA SameFieldsSameClause ==
  ASSUME NEW t, NEW u, t.fields = u.fields, NEW where
  PROVE  /\ InitThrows(t, where) <=> InitThrows(u, where)
         /\ \A row : Satisfies(t, where, row) <=> Satisfies(u, where, row)
<1>1. \A cond : Throws(t, cond) <=> Throws(u, cond)
  BY DEF Throws, HasField
<1>2. Stops(t, where) = Stops(u, where)
  BY <1>1 DEF Stops
<1>3. InitThrows(t, where) <=> InitThrows(u, where)
  BY <1>1, <1>2 DEF InitThrows
<1>4. \A f : getFieldIndex(t, f) = getFieldIndex(u, f)
  BY FieldIndexOfSameFields
<1>5. \A row : Satisfies(t, where, row) <=> Satisfies(u, where, row)
  BY <1>4 DEF Satisfies
<1> QED BY <1>3, <1>5

\* In a row as long as the table has columns, a clause that initCondition let pass
\* is true or false, and true if and only if each of its conditions holds: before
\* a comparator that initCondition left unset there is a condition on KEY that is
\* false.
LEMMA EvalIsSatisfies ==
  ASSUME NEW t, t.fields \in Seq(FieldNames), NEW S, NEW where \in Seq(S),
         ~InitThrows(t, where),
         NEW row \in RowType, Len(row.vals) = Len(t.fields)
  PROVE  /\ evalCondition(t, where, row) \in {"true", "false"}
         /\ evalCondition(t, where, row) = "true" <=> Satisfies(t, where, row)
<1> DEFINE V(i) == Verdict(t, where, i, row)
           decides == {i \in DOMAIN where : V(i) # "true"}
           stops == Stops(t, where)
           m == Min(stops)
<1>1. /\ DOMAIN where \in SUBSET Nat /\ decides \in SUBSET Nat
      /\ stops \in SUBSET Nat /\ stops \subseteq DOMAIN where
  <2>1. DOMAIN where = 1..Len(where)
    BY LenProperties
  <2> QED BY <2>1 DEF Stops
<1>2. \A i \in DOMAIN where : ~Throws(t, where[i]) /\ ~OnKey(where[i]) =>
        HasCell(row, getFieldIndex(t, where[i].field))
  <2> SUFFICES ASSUME NEW i \in DOMAIN where, ~Throws(t, where[i]), ~OnKey(where[i])
               PROVE  HasCell(row, getFieldIndex(t, where[i].field))
    OBVIOUS
  <2>1. HasField(t, where[i].field)
    BY DEF Throws
  <2>2. PICK at : at = getFieldIndex(t, where[i].field)
    OBVIOUS
  <2>3. at \in 1..Len(t.fields)
    BY <2>1, <2>2, FieldIndex
  <2>4. DOMAIN row.vals = 1..Len(row.vals)
    BY DEF RowType
  <2> QED BY <2>2, <2>3, <2>4 DEF HasCell
<1>3. stops # {} =>
        /\ m \in DOMAIN where /\ OnKey(where[m])
        /\ \A i \in DOMAIN where : i < m => ~Throws(t, where[i])
        /\ \E j \in DOMAIN where : /\ j < m /\ OnKey(where[j])
                                   /\ where[j].key # where[m].key
  <2> SUFFICES ASSUME stops # {}
               PROVE  /\ m \in DOMAIN where /\ OnKey(where[m])
                      /\ \A i \in DOMAIN where : i < m => ~Throws(t, where[i])
                      /\ \E j \in DOMAIN where : /\ j < m /\ OnKey(where[j])
                                                 /\ where[j].key # where[m].key
    OBVIOUS
  <2>1. m \in stops /\ \A i \in stops : m <= i
    BY <1>1, MinIsLeast
  <2>2. m \in DOMAIN where /\ Clashes(where, m)
    BY <2>1 DEF InitThrows, Stops
  <2>3. \A i \in DOMAIN where : i < m => ~Throws(t, where[i])
    <3>1. \A i \in DOMAIN where : i < m => i \notin stops
      BY <1>1, <2>1
    <3> HIDE DEF m
    <3> QED BY <3>1 DEF Stops
  <2>4. PICK j \in 1..(m - 1) : OnKey(where[j]) /\ where[j].key # where[m].key
    BY <2>2 DEF Clashes
  <2>5. DOMAIN where = 1..Len(where) /\ Len(where) \in Nat
    BY LenProperties
  <2> HIDE DEF m, stops
  <2>6. j \in DOMAIN where /\ j < m
    BY <2>2, <2>5
  <2> QED BY <2>2, <2>3, <2>4, <2>6 DEF Clashes
<1>4. stops = {} => \A i \in DOMAIN where : ~Throws(t, where[i])
  BY DEF Stops
<1>5. \A i \in DOMAIN where : OnKey(where[i]) =>
        V(i) = IF row.key = where[i].key THEN "true" ELSE "false"
  BY DEF Verdict
<1>6. \A i \in DOMAIN where :
        ~OnKey(where[i]) /\ ~Throws(t, where[i]) /\ (stops = {} \/ ~(i > m)) =>
          V(i) = IF Compare(where[i].op, row.vals[getFieldIndex(t, where[i].field)],
                            where[i].value) THEN "true" ELSE "false"
  BY <1>2 DEF Verdict, Unset
<1>7. evalCondition(t, where, row) = IF decides = {} THEN "true" ELSE V(Min(decides))
  BY DEF evalCondition
<1> HIDE DEF V, m
<1>8. decides # {} => Min(decides) \in decides /\ \A i \in decides : Min(decides) <= i
  BY <1>1, MinIsLeast
<1>9. CASE decides = {}
  <2>1. stops = {}
    <3> SUFFICES ASSUME stops # {} PROVE FALSE
      OBVIOUS
    <3>1. PICK j \in DOMAIN where : OnKey(where[j]) /\ where[j].key # where[m].key
      BY <1>3
    <3>2. V(j) = "true" /\ V(m) = "true" /\ OnKey(where[m]) /\ m \in DOMAIN where
      BY <1>3, <1>9
    <3>3. row.key = where[j].key /\ row.key = where[m].key
      BY <1>5, <3>1, <3>2
    <3> QED BY <3>1, <3>3
  <2>2. \A i \in DOMAIN where : V(i) = "true" /\ ~Throws(t, where[i])
    BY <1>4, <1>9, <2>1
  <2>3. Satisfies(t, where, row)
    BY <1>5, <1>6, <2>1, <2>2 DEF Satisfies
  <2> QED BY <1>7, <1>9, <2>3
<1>10. CASE decides # {}
  <2> DEFINE i == Min(decides)
  <2>1. i \in decides /\ i \in DOMAIN where /\ \A j \in decides : i <= j
    BY <1>8, <1>10
  <2>2. stops # {} => ~(i > m)
    <3> SUFFICES ASSUME stops # {} PROVE ~(i > m)
      OBVIOUS
    <3>1. PICK j \in DOMAIN where : /\ j < m /\ OnKey(where[j])
                                    /\ where[j].key # where[m].key
      BY <1>3
    <3>2. j \in decides \/ m \in decides
      BY <1>3, <1>5, <3>1
    <3>3. i \in Nat /\ j \in Nat /\ m \in Nat
      BY <1>1, <1>3, <2>1, <3>1
    <3> HIDE DEF i, decides
    <3> QED BY <2>1, <3>1, <3>2, <3>3
  <2>3. ~OnKey(where[i]) => ~Throws(t, where[i])
    <3>1. CASE stops = {}
      BY <1>4, <2>1, <3>1
    <3>2. CASE stops # {}
      <4>1. i \in Nat /\ m \in Nat
        BY <1>1, <1>3, <2>1, <3>2
      <4> HIDE DEF i
      <4> QED BY <1>3, <2>1, <2>2, <3>2, <4>1
    <3> QED BY <3>1, <3>2
  <2>4. V(i) # "true"
    BY <2>1
  <2> HIDE DEF i
  <2>5. V(i) = "false"
    BY <1>5, <1>6, <2>1, <2>2, <2>3, <2>4
  <2>6. ~Satisfies(t, where, row)
    <3>1. CASE OnKey(where[i])
      BY <1>5, <2>1, <2>4, <3>1 DEF Satisfies
    <3>2. CASE ~OnKey(where[i])
      BY <1>6, <2>1, <2>2, <2>3, <2>4, <3>2 DEF Satisfies
    <3> QED BY <3>1, <3>2
  <2>7. evalCondition(t, where, row) = V(i)
    BY <1>7, <1>10 DEF i
  <2> QED BY <2>5, <2>6, <2>7
<1> QED BY <1>9, <1>10

\* In a rectangular table the row of a scan is hit or not, as its clause says.
LEMMA VerdictIsSatisfies ==
  ASSUME TypedInv, InRow, Rectangular(run.before)
  PROVE  /\ RowVerdict \in {"true", "false"}
         /\ RowVerdict = "true" <=>
              Satisfies(run.before, run.q.where, run.before.data[run.row])
<1>1. /\ ScanSound /\ RowsToCome /\ run.row \in DOMAIN run.before.data
      /\ Here = run.before.data[run.row] /\ Here \in RowType
  BY HereIsUnchanged
<1>2. Len(Here.vals) = Len(Target.fields) /\ Target.fields \in Seq(FieldNames)
  BY <1>1 DEF ScanSound, Typed, Rectangular
<1>3. PICK S : run.q.where \in Seq(S)
  BY <1>1 DEF ScanSound, Asked, Query
<1>4. ~InitThrows(Target, run.q.where)
  <2>1. ~InitThrows(run.before, run.q.where)
    BY <1>1 DEF ScanSound, Refused
  <2> QED BY <1>1, <2>1, SameFieldsSameClause DEF ScanSound
<1>5. PICK verdict : verdict = evalCondition(Target, run.q.where, Here)
  OBVIOUS
<1>6. /\ verdict \in {"true", "false"}
      /\ verdict = "true" <=> Satisfies(Target, run.q.where, Here)
  BY <1>1, <1>2, <1>3, <1>4, <1>5, EvalIsSatisfies
<1>7. ~ShortRow
  <2> SUFFICES ASSUME NEW f \in Columns(run.q)
               PROVE  HasCell(Here, getFieldIndex(Target, f))
    BY DEF ShortRow
  <2>1. HasField(Target, f)
    <3>1. CASE f \in ToSet(run.q.fields) \ {KEY}
      BY <1>1, <3>1 DEF ScanSound, Refused, HasField
    <3>2. CASE f \in ToSet(Target.fields)
      BY <3>2 DEF ToSet, HasField
    <3> QED BY <3>1, <3>2 DEF Columns
  <2>2. PICK at : at = getFieldIndex(Target, f)
    OBVIOUS
  <2>3. at \in 1..Len(Target.fields)
    BY <1>2, <2>1, <2>2, FieldIndex
  <2>4. DOMAIN Here.vals = 1..Len(Here.vals)
    BY <1>1 DEF RowType
  <2> QED BY <1>2, <2>2, <2>3, <2>4 DEF HasCell
<1>8. RowVerdict = verdict
  BY <1>5, <1>6, <1>7 DEF RowVerdict
<1>9. Satisfies(Target, run.q.where, Here) <=>
        Satisfies(run.before, run.q.where, run.before.data[run.row])
  BY <1>1, SameFieldsSameClause DEF ScanSound
<1> QED BY <1>6, <1>8, <1>9
-----------------------------------------------------------------------------
\* A scan ends, by an exception, by a crash or behind its last row.
LEMMA ScanEnds ==
  ASSUME TypedInv, [Next]_vars, phase = "scan", phase' # "scan"
  PROVE  FailRow \/ RekeyRow \/ EndScan
<1>1. Next
  BY DEF vars
<1>2. ~(\E q \in session.input : parseQuery(q))
  BY DEF parseQuery
<1>3. ~(\E i \in DOMAIN pending : StartQuery(i))
  BY DEF StartQuery, InsertQuery, TruncateQuery, DropTableQuery, CopyTableQuery,
         PrintQuery, DumpTableQuery, LoadTableQuery, BeginScan, Ready
<1>4. ~(InsertCopy \/ EndDuplicate \/ DumpWrite)
  BY DEF InsertCopy, EndDuplicate, DumpWrite
<1>5. ~(SkipRow \/ SelectRow \/ AggregateRow \/ RewriteRow \/ CollectRow)
  BY DEF SkipRow, SelectRow, AggregateRow, RewriteRow, CollectRow, Hit, NextRow
<1> QED BY <1>1, <1>2, <1>3, <1>4, <1>5 DEF Next, ScanRow

\* A scan that was accepted fails only in a table with a row of the wrong length.
THEOREM ScansFailOnRaggedRowsOnly == Spec => ScanFailsOnlyOnRaggedRows
<1>1. TypedInv /\ [Next]_vars =>
        [phase = "scan" /\ phase' = "idle" /\ answer'.kind = "error" =>
           ~Rectangular(run.before)]_vars
  <2> SUFFICES ASSUME TypedInv, [Next]_vars, phase = "scan", phase' = "idle",
                      answer'.kind = "error", Rectangular(run.before)
               PROVE  FALSE
    OBVIOUS
  <2>1. FailRow \/ RekeyRow \/ EndScan
    BY ScanEnds
  <2>2. ~FailRow
    BY VerdictIsSatisfies DEF FailRow
  <2>3. ~RekeyRow
    BY DEF RekeyRow, Hit, NextRow
  <2>4. ~EndScan
    <3> SUFFICES ASSUME EndScan PROVE FALSE
      OBVIOUS
    <3>1. \/ answer' = ScanAnswer(run.q, run.hits, run.sums)
          \/ \E n : answer' = Count(n)
      BY DEF EndScan, Finish
    <3>2. \A n : Count(n).kind = "count"
      BY DEF Count, NoAnswer
    <3>3. ScanAnswer(run.q, run.hits, run.sums).kind
            \in {"null", "success", "values", "count"}
      BY <3>2 DEF ScanAnswer, Null, Success, Values, NoAnswer
    <3> QED BY <3>1, <3>2, <3>3
  <2> QED BY <2>1, <2>2, <2>3, <2>4
<1> QED BY TypedInvariant, <1>1, PTL DEF Spec, ScanFailsOnlyOnRaggedRows

\* With an exact index a scan leaves every row it passed and did not hit.
THEOREM RowsNotHitSurvive == Spec => OthersSurvive
<1>1. TypedInv /\ [Next]_vars =>
        [phase = "scan" /\ phase' # "scan" /\ IndexExact(run.before) =>
           \A i \in 1..(run.row - 1) \ run.hits :
             run.before.data[i] \in ToSet(tables'[run.q.table].data)]_vars
  <2> SUFFICES ASSUME TypedInv, [Next]_vars, phase = "scan", phase' # "scan",
                      IndexExact(run.before), NEW i \in 1..(run.row - 1) \ run.hits
               PROVE  run.before.data[i] \in ToSet(tables'[run.q.table].data)
    OBVIOUS
  <2>1. ScanSound /\ RowsToCome /\ Sound(Target) /\ run.q.table \in DOMAIN tables
    BY DEF TypedInv, ScanInv, ScanSound, Asked, Scans, DbInv, RunSound, TablesSound
  <2>2. i \in DOMAIN run.before.data /\ run.row - 1 <= Len(run.before.data)
    BY <2>1 DEF ScanSound, Typed
  <2>3. i \in DOMAIN Target.data /\ Target.data[i] = run.before.data[i]
    BY <2>1, <2>2 DEF ScanSound
  <2>4. CASE UNCHANGED tables
    BY <2>3, <2>4 DEF Target, ToSet
  <2>5. CASE EndScan /\ tables' # tables
    <3> DEFINE keys == {Target.data[r].key : r \in run.hits}
    <3>1. /\ run.q.kind = "DELETE"
          /\ tables' = [tables EXCEPT ![run.q.table] = eraseMany(Target, keys)]
      BY <2>5 DEF EndScan
    <3>2. Target = run.before
      BY <2>1, <3>1 DEF RowsToCome, Mutators
    <3>3. \A r \in run.hits : r \in DOMAIN Target.data
      BY <2>1, <2>2, <3>2 DEF ScanSound, Typed
    <3>4. Target.data[i].key \notin keys
      BY <2>3, <3>2, <3>3, ExactKeysOnce DEF KeysOnce
    <3> HIDE DEF keys
    <3>5. PICK u : u = eraseMany(Target, keys)
      OBVIOUS
    <3>6. Erased(Target, keys, u)
      BY <2>1, <3>5, EraseManyParts DEF ScanSound
    <3>7. i \in Kept(Target, keys)
      BY <2>3, <3>4 DEF Kept
    <3>8. \E n \in DOMAIN u.data : u.data[n] = Target.data[i]
      BY <3>6, <3>7, Zenon DEF Erased
    <3>9. tables'[run.q.table] = u
      BY <2>1, <3>1, <3>5
    <3> QED BY <2>3, <3>8, <3>9 DEF ToSet
  <2>6. CASE FailRow \/ RekeyRow
    BY <2>4, <2>6 DEF FailRow, RekeyRow, Hit, NextRow
  <2> QED BY <2>4, <2>5, <2>6, ScanEnds
<1> QED BY TypedInvariant, <1>1, PTL DEF Spec, OthersSurvive
-----------------------------------------------------------------------------
LEMMA NextRun ==
  ASSUME TypedInv, NEW hits, NEW sums, NEW copies, NextRow(hits, sums, copies)
  PROVE  /\ run'.q = run.q /\ run'.before = run.before /\ run'.row = run.row + 1
         /\ run'.hits = hits /\ run'.sums = sums /\ run'.copies = copies
         /\ phase' = phase
BY DEF TypedInv, DbInv, RunSound, RunShape, NextRow

\* The steps after which a query scans: it starts, it takes a row, or another
\* query is parsed.
LEMMA ScanGoesOn ==
  ASSUME TypedInv, [Next]_vars, phase' = "scan"
  PROVE  \/ phase = "scan" /\ UNCHANGED <<run, tables>>
         \/ \E i \in DOMAIN pending : BeginScan(i)
         \/ /\ InRow
            /\ \/ SkipRow \/ SelectRow \/ AggregateRow \/ RewriteRow \/ CollectRow
               \/ RekeyRow
<1>1. CASE UNCHANGED vars
  BY <1>1 DEF vars
<1>2. CASE \E q \in session.input : parseQuery(q)
  BY <1>2 DEF parseQuery
<1>3. CASE \E i \in DOMAIN pending : StartQuery(i)
  BY <1>3 DEF StartQuery, InsertQuery, TruncateQuery, DropTableQuery,
              CopyTableQuery, PrintQuery, DumpTableQuery, LoadTableQuery, Ready, Done
<1>4. CASE ScanRow
  BY <1>4 DEF ScanRow, SkipRow, SelectRow, AggregateRow, RewriteRow, CollectRow,
              RekeyRow, FailRow, Finish
<1>5. CASE EndScan \/ InsertCopy \/ EndDuplicate \/ DumpWrite
  BY <1>5 DEF EndScan, InsertCopy, EndDuplicate, DumpWrite, Finish
<1> QED BY <1>1, <1>2, <1>3, <1>4, <1>5 DEF Next

\* The rows of the table as it was that a query hits.
Wanted(q, before, i) ==
  /\ Satisfies(before, q.where, before.data[i])
  /\ q.kind = "DUPLICATE" => ~Has(before, Copy(before.data[i].key))

LEMMA RowIsHit ==
  ASSUME TypedInv, InRow, Rectangular(run.before), phase' = "scan",
         SkipRow \/ SelectRow \/ AggregateRow \/ RewriteRow \/ CollectRow \/ RekeyRow
  PROVE  \E hits, sums, copies :
           /\ NextRow(hits, sums, copies)
           /\ hits = IF Wanted(run.q, run.before, run.row)
                     THEN run.hits \cup {run.row} ELSE run.hits
<1> DEFINE sat == Satisfies(run.before, run.q.where, run.before.data[run.row])
<1>1. (RowVerdict = "true" <=> sat) /\ RowVerdict \in {"true", "false"}
  BY VerdictIsSatisfies
<1>2. /\ RowsToCome /\ Here = run.before.data[run.row] /\ phase = "scan"
  BY HereIsUnchanged
<1> HIDE DEF sat
<1>3. Wanted(run.q, run.before, run.row) <=>
        /\ sat
        /\ run.q.kind = "DUPLICATE" => ~Has(run.before, Copy(Here.key))
  BY <1>2 DEF Wanted, sat
<1>4. CASE SkipRow
  BY <1>1, <1>3, <1>4 DEF SkipRow
<1>5. CASE SelectRow \/ RewriteRow \/ RekeyRow
  <2>1. RowVerdict = "true" /\ run.q.kind # "DUPLICATE"
    BY <1>5 DEF SelectRow, RewriteRow, RekeyRow, Mutators
  <2>2. Hit
    BY <1>2, <1>5 DEF SelectRow, RewriteRow, RekeyRow
  <2> QED BY <1>1, <1>3, <2>1, <2>2 DEF Hit
<1>6. CASE AggregateRow
  <2>1. RowVerdict = "true" /\ run.q.kind # "DUPLICATE"
    BY <1>6 DEF AggregateRow
  <2>2. \E sums : NextRow(run.hits \cup {run.row}, sums, run.copies)
    BY <1>6 DEF AggregateRow
  <2> QED BY <1>1, <1>3, <2>1, <2>2
<1>7. CASE CollectRow
  <2>1. /\ RowVerdict = "true" /\ run.q.kind = "DUPLICATE" /\ Target = run.before
    BY <1>2, <1>7 DEF CollectRow, RowsToCome, Mutators
  <2>2. isOriginalWithCopy(Target, Here.key) <=> Has(run.before, Copy(Here.key))
    BY <2>1 DEF isOriginalWithCopy
  <2>3. CASE isOriginalWithCopy(Target, Here.key)
    BY <1>3, <1>7, <2>1, <2>2, <2>3 DEF CollectRow
  <2>4. CASE ~isOriginalWithCopy(Target, Here.key)
    <3>1. \E copies : NextRow(run.hits \cup {run.row}, run.sums, copies)
      BY <1>7, <2>4 DEF CollectRow
    <3> QED BY <1>1, <1>3, <2>1, <2>2, <2>4, <3>1
  <2> QED BY <2>3, <2>4
<1> QED BY <1>4, <1>5, <1>6, <1>7

LEMMA HitsStep ==
  ASSUME TypedInv, HitsSatisfyTheClause, [Next]_vars
  PROVE  HitsSatisfyTheClause'
<1> DEFINE exact(q, before, row, hits) ==
             hits = {i \in 1..(row - 1) : Wanted(q, before, i)}
<1> SUFFICES ASSUME phase' = "scan", Rectangular(run'.before)
             PROVE  exact(run'.q, run'.before, run'.row, run'.hits)
  BY DEF HitsSatisfyTheClause, Wanted
<1>1. phase = "scan" /\ Rectangular(run.before) =>
        exact(run.q, run.before, run.row, run.hits)
  BY DEF HitsSatisfyTheClause, Wanted
<1>2. CASE phase = "scan" /\ UNCHANGED <<run, tables>>
  BY <1>1, <1>2
<1>3. CASE \E i \in DOMAIN pending : BeginScan(i)
  <2>1. PICK i \in DOMAIN pending : BeginScan(i)
    BY <1>3
  <2>2. run'.row = 1 /\ run'.hits = {}
    BY <2>1 DEF BeginScan, Done, Ready, NoRun
  <2> QED BY <2>2
<1>4. CASE /\ InRow
           /\ \/ SkipRow \/ SelectRow \/ AggregateRow \/ RewriteRow \/ CollectRow
              \/ RekeyRow
  <2>1. \E hits, sums, copies : NextRow(hits, sums, copies)
    BY <1>4 DEF SkipRow, SelectRow, AggregateRow, RewriteRow, CollectRow, RekeyRow,
                Hit
  <2>2. run'.q = run.q /\ run'.before = run.before /\ phase = "scan"
    BY <1>4, <2>1, NextRun DEF InRow
  <2>3. PICK hits, sums, copies :
          /\ NextRow(hits, sums, copies)
          /\ hits = IF Wanted(run.q, run.before, run.row)
                    THEN run.hits \cup {run.row} ELSE run.hits
    BY <1>4, <2>2, RowIsHit
  <2>4. run'.row = run.row + 1 /\ run'.hits = hits
    BY <2>3, NextRun
  <2>5. exact(run.q, run.before, run.row, run.hits)
    BY <1>1, <2>2
  <2>6. run.row \in Nat \ {0}
    <3>1. ScanSound
      BY <1>4, HereIsUnchanged
    <3> QED BY <3>1 DEF ScanSound, Typed
  <2>7. 1..(run.row + 1 - 1) = 1..(run.row - 1) \cup {run.row}
    BY <2>6
  <2> QED BY <2>2, <2>3, <2>4, <2>5, <2>7
<1> QED BY <1>2, <1>3, <1>4, ScanGoesOn

\* A scan hits the rows whose clause was true of them when the query started,
\* whatever it changes on its way.
THEOREM ScansHitWhatTheClauseSays == Spec => []HitsSatisfyTheClause
<1>1. Init => HitsSatisfyTheClause
  BY DEF Init, HitsSatisfyTheClause
<1>2. TypedInv /\ HitsSatisfyTheClause /\ [Next]_vars => HitsSatisfyTheClause'
  BY HitsStep
<1> QED BY TypedInvariant, <1>1, <1>2, PTL DEF Spec
-----------------------------------------------------------------------------
\* Files.

LEMMA LoadedExact ==
  ASSUME NEW file, FileTyped(file), ~Unloadable(file),
         NEW u, u = Loaded(file)
  PROVE  u.fields = file.fields /\ u.data = file.data /\ IndexExact(u)
<1>1. {i \in DOMAIN file.data : ~Readable(file.data[i], file.fields)} = {}
  <2>1. \A i \in DOMAIN file.data : file.kind = "table" => Readable(file.data[i], file.fields)
    BY DEF Unloadable
  <2>2. file.kind = "table"
    BY DEF Unloadable
  <2> QED BY <2>1, <2>2
<1> DEFINE data == file.data
           first(k) == CHOOSE i \in DOMAIN data : data[i].key = k
           keyMap == [k \in {data[i].key : i \in DOMAIN data} |-> first(k)]
<1>2. u = [fields |-> file.fields, data |-> data, keyMap |-> keyMap]
  BY <1>1 DEF Loaded
<1>3. \A k \in DOMAIN keyMap : first(k) \in DOMAIN data /\ data[first(k)].key = k
  OBVIOUS
<1> HIDE DEF first
<1>4. /\ DOMAIN keyMap = {data[i].key : i \in DOMAIN data}
      /\ \A k \in DOMAIN keyMap : keyMap[k] \in DOMAIN data /\ data[keyMap[k]].key = k
  BY <1>3
<1> HIDE DEF keyMap
<1>5. u.fields = file.fields /\ u.data = data /\ u.keyMap = keyMap
  BY <1>2
<1>6. KeysOnce(u.data)
  BY <1>5 DEF Unloadable, KeysOnce
<1>7. IndexExact(u)
  BY <1>4, <1>5, <1>6, BuiltExact
<1> QED BY <1>5, <1>7

\* Missing stands for no table: it is not a table.
MissingIsNoTable ==
  \A fields, data, keyMap :
    [fields |-> fields, data |-> data, keyMap |-> keyMap] # Missing

\* A table comes back from its file as it was or not at all, and it comes back when
\* nothing in it stands in the way.
THEOREM DumpsLoadBack == ASSUME MissingIsNoTable PROVE Spec => DumpLoadRoundTrip
<1> DEFINE back(f) ==
      LET t == files[f].of
          n == files[f].name
      IN  t # Missing /\ Rectangular(t)
            /\ (\E i \in DOMAIN pending : pending[i].kind = "LOAD"
                  /\ pending[i].file = f /\ LoadTableQuery(i))
            /\ tables[n] = Missing =>
          IF tables'[n] # Missing
          THEN /\ tables'[n].fields = t.fields /\ tables'[n].data = t.data
               /\ IndexExact(tables'[n])
          ELSE \/ ~IndexExact(t)
               \/ ~NamesApart(t.fields)
               \/ \E r \in ToSet(t.data) : \E v \in ToSet(r.vals) : Wide(v)
<1>1. TypedInv /\ [Next]_vars => [\A f \in Files : back(f)]_vars
  <2> SUFFICES ASSUME TypedInv, NEW f \in Files,
                      files[f].of # Missing, Rectangular(files[f].of),
                      NEW i \in DOMAIN pending, pending[i].file = f,
                      LoadTableQuery(i), tables[files[f].name] = Missing
               PROVE  LET t == files[f].of
                          n == files[f].name
                      IN  IF tables'[n] # Missing
                          THEN /\ tables'[n].fields = t.fields
                               /\ tables'[n].data = t.data
                               /\ IndexExact(tables'[n])
                          ELSE \/ ~IndexExact(t)
                               \/ ~NamesApart(t.fields)
                               \/ \E r \in ToSet(t.data) :
                                    \E v \in ToSet(r.vals) : Wide(v)
    OBVIOUS
  <2>1. PICK file, t, n : file = files[f] /\ t = file.of /\ n = file.name
    OBVIOUS
  <2>2. /\ FileTyped(file) /\ t # Missing /\ Rectangular(t)
        /\ DOMAIN tables = TableNames /\ tables[n] = Missing
    BY <2>1 DEF TypedInv, FilesTyped, DbInv, TablesSound
  <2>3. /\ Typed(t) /\ PrintedFrom(file, t)
        /\ file.fields = t.fields /\ file.data = t.data
    BY <2>1, <2>2 DEF FileTyped, PrintedFrom
  <2>4. \/ Unloadable(file) /\ UNCHANGED tables
        \/ ~Unloadable(file) /\ tables' = [tables EXCEPT ![n] = Loaded(file)]
    BY <2>1 DEF LoadTableQuery
  <2>5. CASE ~Unloadable(file) /\ tables' = [tables EXCEPT ![n] = Loaded(file)]
    <3>1. PICK u : u = Loaded(file)
      OBVIOUS
    <3>2. u.fields = file.fields /\ u.data = file.data /\ IndexExact(u)
      BY <2>2, <2>5, <3>1, LoadedExact
    <3>3. u # Missing
      BY <3>1 DEF Loaded, MissingIsNoTable
    <3>4. tables'[n] = u
      BY <2>1, <2>2, <2>3, <2>5, <3>1 DEF PrintedFrom
    <3> QED BY <2>1, <2>3, <3>2, <3>3, <3>4
  <2>6. CASE Unloadable(file) /\ UNCHANGED tables
    <3>1. tables'[n] = Missing
      BY <2>2, <2>6
    <3>2. CASE \E j, k \in DOMAIN file.data :
                 j # k /\ file.data[j].key = file.data[k].key
      <4>1. ~IndexExact(t)
        BY <2>3, <3>2, ExactKeysOnce DEF KeysOnce
      <4> QED BY <2>1, <3>1, <4>1
    <3>3. CASE \E j \in DOMAIN file.data : ~Readable(file.data[j], file.fields)
      <4>0. PICK j \in DOMAIN t.data : ~Readable(t.data[j], t.fields)
        BY <2>3, <3>3 DEF PrintedFrom
      <4>1. PICK r : r = t.data[j] /\ ~Readable(r, t.fields)
        BY <4>0
      <4>2. r \in RowType /\ Len(r.vals) = Len(t.fields) /\ r \in ToSet(t.data)
        BY <2>2, <2>3, <4>1 DEF Typed, Rectangular, ToSet
      <4>3. /\ r.vals \in Seq(ValueType) /\ DOMAIN r.vals = DOMAIN t.fields
            /\ Len(t.fields) \in Nat
        BY <2>3, <4>2 DEF RowType, Typed
      <4>4. \E m \in DOMAIN t.fields : Wide(r.vals[m])
        BY <4>1, <4>2, <4>3 DEF Readable
      <4>5. \E v \in ToSet(r.vals) : Wide(v)
        BY <4>3, <4>4 DEF ToSet
      <4> QED BY <2>1, <3>1, <4>2, <4>5
    <3>4. CASE ~NamesApart(file.fields)
      BY <2>1, <2>3, <3>1, <3>4
    <3>5. file.kind = "table"
      BY <2>3 DEF PrintedFrom
    <3> QED BY <2>1, <2>2, <2>6, <3>2, <3>3, <3>4, <3>5 DEF Unloadable
  <2> QED BY <2>4, <2>5, <2>6
<1>2. [][\A f \in Files : back(f)]_vars <=> DumpLoadRoundTrip
  BY DEF DumpLoadRoundTrip
<1> HIDE DEF back
<1> QED BY TypedInvariant, <1>1, <1>2, PTL DEF Spec
-----------------------------------------------------------------------------
LEMMA ExactReplaced ==
  ASSUME IndexesExact, DOMAIN tables = TableNames, NEW n, NEW u,
         tables' = [tables EXCEPT ![n] = u], u = Missing \/ IndexExact(u)
  PROVE  IndexesExact'
BY DEF IndexesExact

LEMMA ExactStays == ASSUME IndexesExact, UNCHANGED tables PROVE IndexesExact'
BY DEF IndexesExact

\* A row gets a key that another one has.
TakesAKey ==
  /\ phase = "scan" /\ run.q.fields = <<KEY>>
  /\ Has(Target, Head(run.q.keys)) /\ Here.key # Head(run.q.keys)

LEMMA StartExact ==
  ASSUME TypedInv, IndexesExact, NEW i \in DOMAIN pending, StartQuery(i)
  PROVE  IndexesExact'
<1> DEFINE q == pending[i]
           t == tables[q.table]
<1>a. /\ q \in Query
      /\ q.kind \notin {"LOAD", "LIST", "NOP"} => q.table \in TableNames
  BY AskedPending DEF TypedInv
<1>b. q.table \in TableNames /\ t # Missing => Sound(t) /\ Typed(t) /\ IndexExact(t)
  BY DEF TypedInv, DbInv, TablesSound, TablesTyped, IndexesExact
<1>c. DOMAIN tables = TableNames
  BY DEF TypedInv, DbInv, TablesSound
<1>1. CASE UNCHANGED tables
  BY <1>1, ExactStays
<1>2. CASE InsertQuery(i) /\ tables' # tables
  <2> DEFINE vals == [n \in DOMAIN q.vals |-> Wrap(q.vals[n])]
  <2>1. /\ t # Missing /\ ~Has(t, Head(q.keys)) /\ q.table \in TableNames
        /\ tables' = [tables EXCEPT ![q.table] =
                                      insertByIndex(t, Head(q.keys), vals)]
    BY <1>2, <1>a DEF InsertQuery
  <2> HIDE DEF vals
  <2>2. PICK u : u = insertByIndex(t, Head(q.keys), vals)
    OBVIOUS
  <2>3. IndexExact(u)
    BY <1>b, <2>1, <2>2, InsertExact
  <2> QED BY <1>c, <2>1, <2>2, <2>3, ExactReplaced
<1>3. CASE TruncateQuery(i) /\ tables' # tables
  <2>1. /\ t # Missing /\ q.table \in TableNames
        /\ tables' = [tables EXCEPT ![q.table] = clear(t)]
    BY <1>3, <1>a DEF TruncateQuery
  <2>2. IndexExact(clear(t))
    BY <1>b, <2>1, ClearExact
  <2> QED BY <1>c, <2>1, <2>2, ExactReplaced
<1>4. CASE DropTableQuery(i) /\ tables' # tables
  BY <1>c, <1>4, ExactReplaced DEF DropTableQuery
<1>5. CASE CopyTableQuery(i) /\ tables' # tables
  BY <1>a, <1>b, <1>c, <1>5, ExactReplaced DEF CopyTableQuery
<1>6. CASE LoadTableQuery(i) /\ tables' # tables
  <2>1. PICK file : file = files[q.file]
    OBVIOUS
  <2>2. FileTyped(file)
    BY <1>a, <2>1 DEF TypedInv, FilesTyped, Query
  <2>3. PICK u : u = Loaded(file)
    OBVIOUS
  <2>4. ~Unloadable(file) /\ tables' = [tables EXCEPT ![file.name] = u]
    BY <1>6, <2>1, <2>3 DEF LoadTableQuery
  <2>5. IndexExact(u)
    BY <2>2, <2>3, <2>4, LoadedExact
  <2> QED BY <1>c, <2>4, <2>5, ExactReplaced
<1> QED BY <1>1, <1>2, <1>3, <1>4, <1>5, <1>6
    DEF StartQuery, PrintQuery, DumpTableQuery, BeginScan

\* The table of a scan.
LEMMA TargetExact ==
  ASSUME MissingIsNoTable, TypedInv, IndexesExact, phase \in {"scan", "insert"}
  PROVE  /\ ScanSound /\ Sound(Target) /\ Typed(Target) /\ IndexExact(Target)
         /\ DOMAIN tables = TableNames
<1>1. /\ ScanSound /\ Sound(Target) /\ run.q.table \in TableNames
      /\ DOMAIN tables = TableNames
  BY DEF TypedInv, ScanInv, ScanSound, Asked, Scans, DbInv, RunSound, TablesSound
<1>2. Target # Missing
  BY <1>1 DEF Sound, MissingIsNoTable
<1>3. IndexExact(Target)
  BY <1>1, <1>2 DEF IndexesExact, Target
<1> QED BY <1>1, <1>3 DEF ScanSound

LEMMA RewrittenExact ==
  ASSUME MissingIsNoTable, TypedInv, IndexesExact, RewriteRow
  PROVE  IndexesExact'
<1>1. /\ InRow /\ RowVerdict = "true" /\ run.q.kind \in Mutators
      /\ run.q.fields # <<KEY>>
      /\ tables' = [tables EXCEPT ![run.q.table] = Rewritten]
  BY DEF RewriteRow
<1>2. IndexExact(Target) /\ DOMAIN tables = TableNames
  BY <1>1, TargetExact DEF InRow
<1>3. PICK u : u = Rewritten
  OBVIOUS
<1>4. Wrote(u)
  BY <1>1, <1>3, RewrittenWrites
<1>5. /\ u.keyMap = Target.keyMap /\ DOMAIN u.data = DOMAIN Target.data
      /\ \A j \in DOMAIN Target.data \ {run.row} : u.data[j] = Target.data[j]
      /\ u.data[run.row].key = Target.data[run.row].key
  BY <1>4, Zenon DEF Wrote, Here
<1>6. \A j \in DOMAIN Target.data : u.data[j].key = Target.data[j].key
  BY <1>5
<1>7. IndexExact(u)
  BY <1>2, <1>5, <1>6, SameKeysExact
<1> QED BY <1>1, <1>2, <1>3, <1>7, ExactReplaced

LEMMA RekeyedExact ==
  ASSUME MissingIsNoTable, TypedInv, IndexesExact, RekeyRow, ~TakesAKey
  PROVE  IndexesExact'
<1>1. InRow /\ IsRekey(run.q) /\ run.q.fields = <<KEY>>
  BY DEF RekeyRow, IsRekey
<1>2. /\ ScanSound /\ Sound(Target) /\ Typed(Target) /\ IndexExact(Target)
      /\ DOMAIN tables = TableNames
  BY <1>1, TargetExact DEF InRow
<1>3. run.row \in DOMAIN Target.data
  BY <1>1, HereIsUnchanged
<1>4. PICK key : key = Head(run.q.keys)
  OBVIOUS
<1>5. PICK u : u = setKey(Target, run.row, key)
  OBVIOUS
<1>6. key \in KeyType
  <2>1. run.q \in Asked /\ run.q.keys \in Seq(KeyType)
    BY <1>2 DEF ScanSound, Asked, Query
  <2>2. run.q.keys # << >>
    BY <1>1, <2>1 DEF IsRekey, Asked
  <2> QED BY <1>4, <2>1, <2>2
<1>7. ~Has(Target, key) \/ key = Target.data[run.row].key
  BY <1>1, <1>4 DEF TakesAKey, InRow, Here
<1>8. IndexExact(u)
  BY <1>2, <1>3, <1>5, <1>6, <1>7, SetKeyExact
<1>9. UNCHANGED tables \/ tables' = [tables EXCEPT ![run.q.table] = u]
  BY <1>4, <1>5 DEF RekeyRow
<1> QED BY <1>2, <1>8, <1>9, ExactReplaced, ExactStays

LEMMA EndExact ==
  ASSUME MissingIsNoTable, TypedInv, IndexesExact,
         EndScan \/ InsertCopy \/ EndDuplicate \/ DumpWrite
  PROVE  IndexesExact'
<1>1. CASE UNCHANGED tables
  BY <1>1, ExactStays
<1>2. CASE EndScan /\ tables' # tables
  <2>1. PICK keys : tables' = [tables EXCEPT ![run.q.table] = eraseMany(Target, keys)]
    BY <1>2 DEF EndScan
  <2>2. Sound(Target) /\ Typed(Target) /\ IndexExact(Target) /\ DOMAIN tables = TableNames
    BY <1>2, TargetExact DEF EndScan
  <2>3. PICK u : u = eraseMany(Target, keys)
    OBVIOUS
  <2>4. IndexExact(u)
    BY <2>2, <2>3, EraseManyExact
  <2> QED BY <2>1, <2>2, <2>3, <2>4, ExactReplaced
<1>3. CASE InsertCopy
  <2>1. PICK copy, key, u :
          /\ copy = Head(run.copies) /\ key = generateUniqueKey(Target, copy.key)
          /\ u = insertByIndex(Target, key, copy.vals)
    OBVIOUS
  <2>2. /\ tables' = [tables EXCEPT ![run.q.table] = u] /\ run.copies # << >>
        /\ phase = "insert"
    BY <1>3, <2>1 DEF InsertCopy
  <2>3. /\ ScanSound /\ Sound(Target) /\ Typed(Target) /\ IndexExact(Target)
        /\ DOMAIN tables = TableNames
    BY <2>2, TargetExact
  <2>4. copy.key \in KeyType
    <3>1. copy \in RowType
      BY <2>1, <2>2, <2>3 DEF ScanSound
    <3> QED BY <3>1 DEF RowType
  <2>5. ~Has(Target, key)
    BY <2>1, <2>3, <2>4, UniqueKey
  <2>6. IndexExact(u)
    BY <2>1, <2>3, <2>5, InsertExact
  <2> QED BY <2>2, <2>3, <2>6, ExactReplaced
<1> QED BY <1>1, <1>2, <1>3 DEF EndDuplicate, DumpWrite

LEMMA ExactStep ==
  ASSUME MissingIsNoTable, TypedInv, IndexesExact, [Next]_vars, ~TakesAKey
  PROVE  IndexesExact'
<1>1. CASE UNCHANGED tables
  BY <1>1, ExactStays
<1>2. CASE \E i \in DOMAIN pending : StartQuery(i)
  BY <1>2, StartExact
<1>3. CASE ScanRow /\ tables' # tables
  BY <1>3, RewrittenExact, RekeyedExact
  DEF ScanRow, SkipRow, FailRow, SelectRow, AggregateRow, CollectRow
<1>4. CASE EndScan \/ InsertCopy \/ EndDuplicate \/ DumpWrite
  BY <1>4, EndExact
<1> QED BY <1>1, <1>2, <1>3, <1>4 DEF Next, vars, parseQuery

\* An UPDATE crashes only in a table whose index was broken when it started: the
\* keys of the rows to come stay in the index.
LEMMA CrashStep ==
  ASSUME TypedInv, [Next]_vars, phase # "crashed", phase' = "crashed"
  PROVE  ~IndexExact(run.before)
<1>1. RekeyRow /\ SetKeyCrashes(Target, run.row)
  <2>1. Next
    BY DEF vars
  <2>2. ~(\E q \in session.input : parseQuery(q))
    BY DEF parseQuery
  <2>3. ~(\E i \in DOMAIN pending : StartQuery(i))
    BY DEF StartQuery, InsertQuery, TruncateQuery, DropTableQuery, CopyTableQuery,
           PrintQuery, DumpTableQuery, LoadTableQuery, BeginScan, Ready, Done
  <2>4. ~(EndScan \/ InsertCopy \/ EndDuplicate \/ DumpWrite)
    BY DEF EndScan, InsertCopy, EndDuplicate, DumpWrite, Finish
  <2>5. ~(SkipRow \/ SelectRow \/ AggregateRow \/ RewriteRow \/ CollectRow \/ FailRow)
    BY DEF SkipRow, SelectRow, AggregateRow, RewriteRow, CollectRow, FailRow, Hit,
           NextRow, Finish
  <2>6. RekeyRow
    BY <2>1, <2>2, <2>3, <2>4, <2>5 DEF Next, ScanRow
  <2> QED BY <2>6 DEF RekeyRow, Hit, NextRow
<1>2. InRow
  BY <1>1 DEF RekeyRow
<1>3. /\ RowsToCome /\ ScanSound /\ run.row \in DOMAIN run.before.data
      /\ Here = run.before.data[run.row]
  BY <1>2, HereIsUnchanged
<1>4. run.row \in run.row .. Len(run.before.data)
  BY <1>3 DEF ScanSound, Typed
<1>5. ~Has(Target, Here.key)
  BY <1>1 DEF SetKeyCrashes, Here
<1> QED BY <1>3, <1>4, <1>5 DEF RowsToCome

\* Only a row that gets another row's key breaks an index, and only an index that
\* was broken before makes UPDATE of a key crash.
THEOREM TakenKeysBreakIndexes ==
  ASSUME MissingIsNoTable PROVE Spec => OnlyATakenKeyBreaksAnIndex
<1>1. TypedInv /\ [Next]_vars =>
        [/\ IndexesExact /\ ~IndexesExact' =>
              /\ phase = "scan" /\ run.q.fields = <<KEY>>
              /\ Has(Target, Head(run.q.keys)) /\ Here.key # Head(run.q.keys)
         /\ phase' = "crashed" => ~IndexExact(run.before)]_vars
  <2> SUFFICES ASSUME TypedInv, [Next]_vars, vars' # vars
               PROVE  /\ IndexesExact /\ ~IndexesExact' => TakesAKey
                      /\ phase' = "crashed" => ~IndexExact(run.before)
    BY DEF TakesAKey
  <2>1. IndexesExact /\ ~IndexesExact' => TakesAKey
    BY ExactStep
  <2>2. phase # "crashed"
    BY DEF Next, parseQuery, StartQuery, InsertQuery, TruncateQuery, DropTableQuery,
           CopyTableQuery, PrintQuery, DumpTableQuery, LoadTableQuery, BeginScan,
           Ready, ScanRow, SkipRow, FailRow, SelectRow, AggregateRow, RewriteRow,
           RekeyRow, CollectRow, InRow, EndScan, InsertCopy, EndDuplicate, DumpWrite
  <2> QED BY <2>1, <2>2, CrashStep
<1> QED BY TypedInvariant, <1>1, PTL DEF Spec, OnlyATakenKeyBreaksAnIndex
-----------------------------------------------------------------------------
\* Sums that wrap.  What Wrap makes of a number differs from it by a multiple of
\* the size of a ValueType, and two values never differ by such a multiple.
Size == 2 * Half
Congruent(m, n) == \E k \in Int : m = n + k * Size

LEMMA WrapCongruent == ASSUME NEW n \in Int PROVE Congruent(Wrap(n), n)
<1>1. PICK M \in Nat \ {0}, h \in Nat : h = Half /\ M = Size
  BY HalfPositive DEF Size
<1>2. PICK x \in Int : x = n + h
  OBVIOUS
<1>3. x % M = x - M * (x \div M)
  BY Z3
<1>4. PICK d \in Int : d = x \div M
  OBVIOUS
<1>5. Wrap(n) = (x % M) - h
  BY <1>1, <1>2 DEF Wrap, Size
<1>6. -d \in Int
  OBVIOUS
<1>7. M * d = -((-d) * M) /\ M * d \in Int
  OBVIOUS
<1>8. Wrap(n) = n + (-d) * M
  <2>1. PICK p \in Int : p = M * d
    BY <1>7
  <2>2. (-d) * M = -p
    BY <1>7, <2>1
  <2> QED BY <1>2, <1>3, <1>4, <1>5, <2>1, <2>2
<1> QED BY <1>1, <1>6, <1>8 DEF Congruent

LEMMA CongruentSum ==
  ASSUME NEW l \in Int, NEW m \in Int, NEW n \in Int, NEW v \in Int,
         Congruent(l, m + v), Congruent(m, n)
  PROVE  Congruent(l, v + n)
<1>1. PICK M \in Int : M = Size
  BY HalfPositive DEF Size
<1>2. PICK j \in Int : l = m + v + j * M
  BY <1>1 DEF Congruent
<1>3. PICK k \in Int : m = n + k * M
  BY <1>1 DEF Congruent
<1>4. PICK q \in Int : q = j + k
  OBVIOUS
<1>5. l = (v + n) + q * M
  BY <1>2, <1>3, <1>4
<1> QED BY <1>1, <1>5 DEF Congruent

LEMMA CongruentValues ==
  ASSUME NEW m \in ValueType, NEW n \in ValueType, Congruent(m, n)
  PROVE  m = n
<1>1. PICK M \in Nat \ {0}, h \in Nat : h = Half /\ M = 2 * h /\ M = Size
  BY HalfPositive DEF Size
<1>2. PICK k \in Int : m = n + k * M
  BY <1>1 DEF Congruent
<1>3. m \in -h .. h - 1 /\ n \in -h .. h - 1
  BY <1>1 DEF ValueType
<1>4. m - n < M /\ n - m < M
  BY <1>1, <1>3
<1>5. k = 0 \/ k >= 1 \/ k <= -1
  OBVIOUS
<1>6. k >= 1 => k * M >= M
  OBVIOUS
<1>7. k <= -1 => k * M <= -M
  OBVIOUS
<1>8. k = 0 => k * M = 0
  OBVIOUS
<1>9. PICK p \in Int : p = k * M
  OBVIOUS
<1> QED BY <1>2, <1>3, <1>4, <1>5, <1>6, <1>7, <1>8, <1>9
-----------------------------------------------------------------------------
\* What SUM and MAX have added up or found of a column in the rows they hit.
Summed(kind, value, hits, sum) ==
  /\ \A r \in hits : value[r] \in ValueType
  /\ kind = "SUM" => Congruent(sum, SumOf(value, hits))
  /\ kind = "MAX" => /\ \A r \in hits : value[r] <= sum
                     /\ IF hits = {} THEN sum = -Half
                        ELSE \E r \in hits : value[r] = sum

ColumnOf(before, hits, f) ==
  [r \in hits |-> before.data[r].vals[getFieldIndex(before, f)]]
SumInv ==
  phase = "scan" /\ run.q.kind \in {"SUM", "MAX"} =>
    \A n \in DOMAIN run.q.fields :
      Summed(run.q.kind, ColumnOf(run.before, run.hits, run.q.fields[n]), run.hits,
             run.sums[n])

LEMMA SummedWith ==
  ASSUME NEW kind, kind \in {"SUM", "MAX"}, NEW hits, IsFiniteSet(hits),
         NEW value, NEW sum \in ValueType, Summed(kind, value, hits, sum),
         NEW e, e \notin hits, NEW new, \A r \in hits : new[r] = value[r],
         new[e] \in ValueType
  PROVE  Summed(kind, new, hits \cup {e}, Aggregate(kind, sum, new[e]))
<1> DEFINE all == hits \cup {e}
           next == Aggregate(kind, sum, new[e])
<1>1. \A r \in all : new[r] \in ValueType
  BY DEF Summed
<1>2. PICK v : v = new[e]
  OBVIOUS
<1>3. v \in Int /\ sum \in Int /\ \A r \in hits : new[r] \in Int
  BY <1>1, <1>2, ValuesAreIntegers
<1>4. CASE kind = "SUM"
  <2>1. PICK old \in Int : old = SumOf(new, hits)
    BY <1>3, SumIsInt
  <2>2. \A r \in hits : value[r] \in Int
    BY ValuesAreIntegers DEF Summed
  <2>3. SumOf(value, hits) = old
    BY <2>1, <2>2, SameSum
  <2>4. Congruent(sum, old)
    BY <1>4, <2>3 DEF Summed
  <2>5. SumOf(new, all) = v + old
    BY <1>2, <1>3, <2>1, SumWith
  <2>6. PICK wrapped : wrapped = Wrap(sum + v)
    OBVIOUS
  <2>7. wrapped \in Int /\ Congruent(wrapped, sum + v)
    <3>1. sum + v \in Int
      BY <1>3
    <3> QED BY <2>6, <3>1, WrapType, WrapCongruent, ValuesAreIntegers
  <2>8. Congruent(wrapped, v + old)
    BY <1>3, <2>4, <2>7, CongruentSum
  <2>9. next = wrapped
    BY <1>2, <1>4, <2>6 DEF Aggregate
  <2> QED BY <1>1, <1>4, <2>5, <2>8, <2>9 DEF Summed
<1>5. CASE kind = "MAX"
  <2>1. next = IF v > sum THEN v ELSE sum
    BY <1>2, <1>5 DEF Aggregate
  <2>2. /\ \A r \in hits : new[r] <= sum
        /\ IF hits = {} THEN sum = -Half ELSE \E r \in hits : new[r] = sum
    BY <1>5 DEF Summed
  <2>3. \A r \in all : new[r] <= next
    BY <1>2, <1>3, <2>1, <2>2
  <2>4. v >= -Half
    BY <1>1, <1>2, HalfPositive DEF ValueType
  <2>5. \E r \in all : new[r] = next
    <3>1. CASE v > sum
      BY <1>2, <2>1, <3>1
    <3>2. CASE ~(v > sum) /\ hits # {}
      BY <2>1, <2>2, <3>2
    <3>3. CASE ~(v > sum) /\ hits = {}
      <4>1. sum = -Half /\ Half \in Nat
        BY <2>2, <3>3, HalfPositive
      <4>2. v = sum
        BY <1>3, <2>4, <3>3, <4>1
      <4> QED BY <1>2, <2>1, <4>2
    <3> QED BY <3>1, <3>2, <3>3
  <2>6. all # {}
    OBVIOUS
  <2> HIDE DEF next
  <2> QED BY <1>1, <1>5, <2>3, <2>5, <2>6 DEF Summed, next
<1> QED BY <1>4, <1>5
LEMMA SummedAtFirst ==
  ASSUME NEW kind, kind \in {"SUM", "MAX"}, NEW value,
         NEW sum, sum = IF kind = "MAX" THEN -Half ELSE 0
  PROVE  Summed(kind, value, {}, sum)
<1>1. kind = "SUM" => Congruent(sum, SumOf(value, {}))
  <2>1. 0 = 0 + 0 * Size
    BY HalfPositive DEF Size
  <2> QED BY <2>1, SumOfNothing DEF Congruent
<1> QED BY <1>1 DEF Summed

LEMMA SumStep ==
  ASSUME TypedInv, SumInv, [Next]_vars
  PROVE  SumInv'
<1> SUFFICES ASSUME phase' = "scan", run'.q.kind \in {"SUM", "MAX"},
                    NEW n \in DOMAIN run'.q.fields
             PROVE  Summed(run'.q.kind,
                           ColumnOf(run'.before, run'.hits, run'.q.fields[n]),
                           run'.hits, run'.sums[n])
  BY DEF SumInv
<1>1. CASE phase = "scan" /\ UNCHANGED <<run, tables>>
  BY <1>1 DEF SumInv
<1>2. CASE \E i \in DOMAIN pending : BeginScan(i)
  <2>1. PICK i \in DOMAIN pending : BeginScan(i)
    BY <1>2
  <2>2. PICK q : q = pending[i]
    OBVIOUS
  <2>3. run' = [NoRun EXCEPT !.q = q, !.before = tables[q.table], !.row = 1,
                             !.sums = StartOf(q)]
    BY <2>1, <2>2 DEF BeginScan, Done, Ready
  <2>4. PICK st, b : st = StartOf(q) /\ b = tables[q.table]
    OBVIOUS
  <2>5. run'.q = q /\ run'.hits = {} /\ run'.sums = st
    BY <2>3, <2>4 DEF NoRun
  <2>6. run'.sums[n] = IF q.kind = "MAX" THEN -Half ELSE 0
    BY <2>4, <2>5 DEF StartOf
  <2> QED BY <2>5, <2>6, SummedAtFirst
<1>3. CASE /\ InRow
           /\ \/ SkipRow \/ SelectRow \/ AggregateRow \/ RewriteRow \/ CollectRow
              \/ RekeyRow
  <2>1. \E hits, sums, copies : NextRow(hits, sums, copies)
    BY <1>3 DEF SkipRow, SelectRow, AggregateRow, RewriteRow, CollectRow, RekeyRow,
                Hit
  <2>2. run'.q = run.q /\ run'.before = run.before /\ phase = "scan"
    BY <1>3, <2>1, NextRun DEF InRow
  <2>3. PICK f, value : /\ f = run.q.fields[n]
                        /\ value = ColumnOf(run.before, run.hits, f)
    OBVIOUS
  <2>4. Summed(run.q.kind, value, run.hits, run.sums[n])
    BY <2>2, <2>3 DEF SumInv
  <2>5. CASE SkipRow
    <3>1. run'.hits = run.hits /\ run'.sums = run.sums
      BY <2>5, NextRun DEF SkipRow
    <3> QED BY <2>2, <2>3, <2>4, <3>1
  <2>6. CASE AggregateRow
    <3> DEFINE sums == [m \in DOMAIN run.sums |->
                          Aggregate(run.q.kind, run.sums[m], Cell(run.q.fields[m]))]
    <3>1. NextRow(run.hits \cup {run.row}, sums, run.copies) /\ RowVerdict = "true"
      BY <2>6 DEF AggregateRow
    <3>2. /\ ScanSound /\ run.row \in DOMAIN run.before.data
          /\ run.row \notin run.hits /\ Here = run.before.data[run.row]
      BY <1>3, HereIsUnchanged
    <3>3. n \in DOMAIN run.q.fields /\ n \in DOMAIN run.sums
          /\ run.sums[n] \in ValueType
      BY <2>2, <3>2 DEF ScanSound
    <3>4. f \in Columns(run.q)
      BY <1>3, <2>2, <2>3, <3>3, OperandsAreColumns DEF Scans, IsRekey
    <3>5. PICK c : c = Cell(f)
      OBVIOUS
    <3>6. c \in ValueType /\ c = run.before.data[run.row].vals[getFieldIndex(run.before, f)]
      <4>1. c \in ValueType
        BY <1>3, <3>1, <3>4, <3>5, CellTyped
      <4>2. getFieldIndex(Target, f) = getFieldIndex(run.before, f)
        BY <3>2, FieldIndexOfSameFields DEF ScanSound
      <4> QED BY <3>2, <3>5, <4>1, <4>2 DEF Cell
    <3>7. sums[n] = Aggregate(run.q.kind, run.sums[n], c)
      BY <2>3, <3>3, <3>5
    <3> HIDE DEF sums
    <3>8. run'.hits = run.hits \cup {run.row} /\ run'.sums = sums
      BY <3>1, NextRun
    <3>9. PICK new : new = ColumnOf(run.before, run.hits \cup {run.row}, f)
      OBVIOUS
    <3>10. new[run.row] = c /\ \A r \in run.hits : new[r] = value[r]
      BY <2>3, <3>6, <3>9 DEF ColumnOf
    <3>11. IsFiniteSet(run.hits)
      <4>1. run.hits \subseteq 1..(run.row - 1) /\ run.row - 1 \in Nat
        BY <3>2 DEF ScanSound, Typed
      <4>2. IsFiniteSet(1..(run.row - 1))
        BY <4>1, FS_Interval
      <4> QED BY <4>1, <4>2, FS_Subset
    <3>12. Summed(run.q.kind, new, run.hits \cup {run.row},
                  Aggregate(run.q.kind, run.sums[n], new[run.row]))
      <4>1. PICK kind, hits, e, acc : /\ kind = run.q.kind /\ hits = run.hits
                                      /\ e = run.row /\ acc = run.sums[n]
        OBVIOUS
      <4>2. kind \in {"SUM", "MAX"} /\ acc \in ValueType /\ IsFiniteSet(hits)
            /\ e \notin hits /\ Summed(kind, value, hits, acc)
        BY <2>2, <2>4, <3>2, <3>3, <3>11, <4>1
      <4>3. new[e] \in ValueType /\ \A r \in hits : new[r] = value[r]
        BY <3>6, <3>10, <4>1
      <4>4. Summed(kind, new, hits \cup {e}, Aggregate(kind, acc, new[e]))
        BY <4>2, <4>3, SummedWith
      <4> QED BY <4>1, <4>4
    <3> QED BY <2>2, <2>3, <3>7, <3>8, <3>9, <3>10, <3>12
  <2>7. ~SelectRow /\ ~RewriteRow /\ ~RekeyRow /\ ~CollectRow
    BY <2>2 DEF SelectRow, RewriteRow, RekeyRow, CollectRow, Mutators
  <2> QED BY <1>3, <2>5, <2>6, <2>7
<1> QED BY <1>1, <1>2, <1>3, ScanGoesOn

\* SUM answers the sum of a column over the rows it hit if that is a value, also
\* when the sums on the way were none; MAX answers the greatest value.
THEOREM SumsAndMaximaAreExact == Spec => AggregatesAreExact
<1>1. Init => SumInv
  BY DEF Init, SumInv
<1>2. TypedInv /\ SumInv /\ [Next]_vars => SumInv'
  BY SumStep
<1>3. TypedInv /\ SumInv /\ [Next]_vars =>
        [phase = "scan" /\ phase' = "idle" /\ answer'.kind = "values" =>
           \A n \in DOMAIN run.q.fields :
             LET value == HitValues(run.q.fields[n])
                 total == Total(run.hits, value)
             IN  IF run.q.kind = "SUM"
                 THEN total \in ValueType => answer'.sums[n] = total
                 ELSE answer'.sums[n] = Max({value[r] : r \in run.hits})]_vars
  <2> SUFFICES ASSUME TypedInv, SumInv, [Next]_vars, phase = "scan", phase' = "idle",
                      answer'.kind = "values", NEW n \in DOMAIN run.q.fields
               PROVE  LET value == HitValues(run.q.fields[n])
                          total == Total(run.hits, value)
                      IN  IF run.q.kind = "SUM"
                          THEN total \in ValueType => answer'.sums[n] = total
                          ELSE answer'.sums[n] = Max({value[r] : r \in run.hits})
    OBVIOUS
  <2>1. EndScan
    <3>1. FailRow \/ RekeyRow \/ EndScan
      BY ScanEnds
    <3>2. ~FailRow
      BY DEF FailRow, Finish, Error, NoAnswer
    <3>3. ~RekeyRow
      BY DEF RekeyRow, Hit, NextRow
    <3> QED BY <3>1, <3>2, <3>3
  <2>2. answer' = ScanAnswer(run.q, run.hits, run.sums)
    <3>1. \/ answer' = ScanAnswer(run.q, run.hits, run.sums)
          \/ \E m : answer' = Count(m)
      BY <2>1 DEF EndScan, Finish
    <3>2. \A m : Count(m).kind = "count"
      BY DEF Count, NoAnswer
    <3> QED BY <3>1, <3>2
  <2>3. /\ run.q.kind = "SUM" \/ (run.q.kind = "MAX" /\ run.hits # {})
        /\ answer' = Values(run.sums)
    <3>1. \A m : Count(m).kind = "count"
      BY DEF Count, NoAnswer
    <3>2. Null.kind = "null" /\ Success.kind = "success"
      BY DEF Null, Success, NoAnswer
    <3>3. CASE run.q.kind = "SUM"
      BY <2>2, <3>3 DEF ScanAnswer
    <3>4. CASE run.q.kind = "MAX"
      BY <2>2, <3>2, <3>4 DEF ScanAnswer
    <3>5. CASE run.q.kind \notin {"SUM", "MAX"}
      <4>1. answer'.kind \in {"null", "success", "count"}
        BY <2>2, <3>1, <3>2, <3>5 DEF ScanAnswer
      <4> QED BY <4>1
    <3> QED BY <3>3, <3>4, <3>5
  <2>4. PICK sums : sums = run.sums
    OBVIOUS
  <2>5. answer'.sums = sums
    BY <2>3, <2>4 DEF Values, NoAnswer
  <2>6. PICK value, sum : value = HitValues(run.q.fields[n]) /\ sum = sums[n]
    OBVIOUS
  <2>7. Summed(run.q.kind, value, run.hits, sum)
    BY <2>3, <2>4, <2>6 DEF SumInv, HitValues, ColumnOf
  <2>8. sum \in ValueType
    BY <2>4, <2>6 DEF TypedInv, ScanInv, ScanSound
  <2>9. CASE run.q.kind = "SUM"
    <3>1. Total(run.hits, value) = SumOf(value, run.hits)
      BY DEF Total, SumOf
    <3>2. Congruent(sum, SumOf(value, run.hits))
      BY <2>7, <2>9 DEF Summed
    <3>3. PICK total : total = SumOf(value, run.hits)
      OBVIOUS
    <3>4. total \in ValueType => sum = total
      BY <2>8, <3>2, <3>3, CongruentValues
    <3> QED BY <2>5, <2>6, <2>9, <3>1, <3>3, <3>4
  <2>10. CASE run.q.kind = "MAX"
    <3>1. /\ \A r \in run.hits : value[r] <= sum /\ value[r] \in Int
          /\ \E r \in run.hits : value[r] = sum
      BY <2>3, <2>7, <2>10, ValuesAreIntegers DEF Summed
    <3> DEFINE S == {value[r] : r \in run.hits}
    <3>2. sum \in S /\ \A x \in S : sum >= x /\ x \in Int
      BY <2>8, <3>1, ValuesAreIntegers
    <3> HIDE DEF S
    <3>3. ASSUME NEW x \in S, \A y \in S : x >= y PROVE x = sum
      BY <3>2, <3>3
    <3>4. Max(S) = sum
      <4>1. Max(S) \in S /\ \A y \in S : Max(S) >= y
        BY <3>2, Zenon DEF Max
      <4> QED BY <3>3, <4>1
    <3> QED BY <2>5, <2>6, <2>10, <3>4 DEF S
  <2> QED BY <2>3, <2>9, <2>10
<1> QED BY TypedInvariant, <1>1, <1>2, <1>3, PTL DEF Spec, AggregatesAreExact
-----------------------------------------------------------------------------
\* How far a DUPLICATE is: the copies that wait are the rows it hit whose copy is
\* not in the table yet, and every row behind the old ones is the copy of one it
\* hit.
Duplicating(before, hits, copies, t) ==
  /\ hits \subseteq DOMAIN before.data
  /\ \A c \in DOMAIN copies : \E i \in hits : copies[c] = before.data[i]
  /\ \A c, d \in DOMAIN copies : copies[c].key = copies[d].key => c = d
  /\ \A c \in DOMAIN copies : ~Has(t, Copy(copies[c].key))
  /\ \A i \in hits : \/ \E c \in DOMAIN copies : copies[c] = before.data[i]
                     \/ Has(t, Copy(before.data[i].key))
  /\ \A i \in hits : ~Has(before, Copy(before.data[i].key))
  /\ IndexExact(t)
  /\ \A j \in DOMAIN t.data \ DOMAIN before.data :
       \E i \in hits :
         t.data[j] = Row(Copy(before.data[i].key), before.data[i].vals)
CopyInv ==
  phase \in {"scan", "insert"} /\ run.q.kind = "DUPLICATE"
    /\ IndexExact(run.before) /\ Rectangular(run.before)
    /\ IsInjective(run.before.fields) =>
  /\ Duplicating(run.before, run.hits, run.copies, Target)
  /\ phase = "insert" =>
       \A i \in DOMAIN run.before.data :
         Wanted(run.q, run.before, i) => i \in run.hits

LEMMA CopyIsInjective ==
  ASSUME NEW k \in KeyType, NEW l \in KeyType, Copy(k) = Copy(l)
  PROVE  k = l
BY DEF KeyType, Copy

\* What CollectRow keeps of a row of a rectangular table is the row.
LEMMA CollectedRow ==
  ASSUME NEW t, Typed(t), Rectangular(t), IsInjective(t.fields),
         NEW i \in DOMAIN t.data
  PROVE  t.data[i] = Row(t.data[i].key,
                         [n \in DOMAIN t.fields |->
                            t.data[i].vals[getFieldIndex(t, t.fields[n])]])
<1>1. PICK r : r = t.data[i]
  OBVIOUS
<1>2. /\ r = [key |-> r.key, vals |-> r.vals] /\ r.vals \in Seq(ValueType)
      /\ Len(r.vals) = Len(t.fields) /\ t.fields \in Seq(FieldNames)
  <2>1. r \in RowType
    BY <1>1 DEF Typed
  <2>2. r = [key |-> r.key, vals |-> r.vals] /\ r.vals \in Seq(ValueType)
    BY <2>1 DEF RowType
  <2> QED BY <1>1, <2>2 DEF Typed, Rectangular
<1>3. DOMAIN r.vals = DOMAIN t.fields
  BY <1>2
<1>4. ASSUME NEW n \in DOMAIN t.fields
      PROVE  getFieldIndex(t, t.fields[n]) = n
  <2>1. HasField(t, t.fields[n])
    BY DEF HasField
  <2>2. /\ getFieldIndex(t, t.fields[n]) \in DOMAIN t.fields
        /\ t.fields[getFieldIndex(t, t.fields[n])] = t.fields[n]
    BY <1>2, <2>1, FieldIndex
  <2> QED BY <2>2 DEF IsInjective
<1>5. r.vals = [n \in DOMAIN t.fields |-> r.vals[n]]
  BY <1>2, <1>3
<1>6. r.vals = [n \in DOMAIN t.fields |-> r.vals[getFieldIndex(t, t.fields[n])]]
  BY <1>4, <1>5
<1> QED BY <1>1, <1>2, <1>6 DEF Row

LEMMA Collects ==
  ASSUME NEW before, IndexExact(before), NEW hits, NEW S, NEW copies \in Seq(S),
         NEW t, Duplicating(before, hits, copies, t),
         NEW e \in DOMAIN before.data \ hits, ~Has(t, Copy(before.data[e].key)),
         ~Has(before, Copy(before.data[e].key)),
         NEW more, more = Append(copies, before.data[e])
  PROVE  Duplicating(before, hits \cup {e}, more, t)
<1> DEFINE N == Len(copies)
<1>1. /\ DOMAIN copies = 1..N /\ DOMAIN more = 1..(N + 1) /\ N \in Nat
      /\ \A c \in 1..N : more[c] = copies[c]
      /\ more[N + 1] = before.data[e]
  OBVIOUS
<1> HIDE DEF N
<1>2. \A i \in hits : i \in DOMAIN before.data /\ before.data[i].key # before.data[e].key
  BY ExactKeysOnce DEF Duplicating, KeysOnce
<1>3. \A c \in 1..N : \E i \in hits : copies[c] = before.data[i]
  BY <1>1 DEF Duplicating
<1>4. \A c \in DOMAIN more : \E i \in hits \cup {e} : more[c] = before.data[i]
  BY <1>1, <1>3
<1>5. \A c \in 1..N : copies[c].key # before.data[e].key
  BY <1>2, <1>3
<1>6. \A c, d \in 1..N : copies[c].key = copies[d].key => c = d
  BY <1>1 DEF Duplicating
<1>7. \A c, d \in DOMAIN more : more[c].key = more[d].key => c = d
  BY <1>1, <1>5, <1>6
<1>8. \A c \in DOMAIN more : ~Has(t, Copy(more[c].key))
  <2>1. \A c \in 1..N : ~Has(t, Copy(copies[c].key))
    BY <1>1 DEF Duplicating
  <2> QED BY <1>1, <2>1
<1>9. \A i \in hits \cup {e} : \/ \E c \in DOMAIN more : more[c] = before.data[i]
                               \/ Has(t, Copy(before.data[i].key))
  <2>1. \A i \in hits : \/ \E c \in 1..N : copies[c] = before.data[i]
                        \/ Has(t, Copy(before.data[i].key))
    BY <1>1 DEF Duplicating
  <2> QED BY <1>1, <2>1
<1>10. hits \cup {e} \subseteq DOMAIN before.data
  BY <1>2
<1>11. \A i \in hits \cup {e} : ~Has(before, Copy(before.data[i].key))
  BY DEF Duplicating
<1>12. IndexExact(t) /\ \A j \in DOMAIN t.data \ DOMAIN before.data :
         \E i \in hits \cup {e} :
           t.data[j] = Row(Copy(before.data[i].key), before.data[i].vals)
  BY DEF Duplicating
<1> QED BY <1>4, <1>7, <1>8, <1>9, <1>10, <1>11, <1>12 DEF Duplicating

LEMMA Inserts ==
  ASSUME NEW before, NEW hits, NEW copies \in Seq(RowType), copies # << >>,
         NEW t, Sound(t), Typed(t), Duplicating(before, hits, copies, t),
         NEW u, u = insertByIndex(t, Copy(Head(copies).key), Head(copies).vals)
  PROVE  Duplicating(before, hits, Tail(copies), u)
<1> DEFINE N == Len(copies)
<1>1. PICK key, row, more, last :
        /\ key = Copy(copies[1].key) /\ more = Tail(copies)
        /\ row = Row(Copy(copies[1].key), copies[1].vals) /\ last = Len(t.data) + 1
  OBVIOUS
<1>2. /\ DOMAIN copies = 1..N /\ N \in Nat \ {0} /\ DOMAIN more = 1..(N - 1)
      /\ \A c \in 1..(N - 1) : more[c] = copies[c + 1]
  BY <1>1
<1>3. /\ u.data = Append(t.data, row) /\ DOMAIN u.keyMap = DOMAIN t.keyMap \cup {key}
  BY <1>1, InsertParts
<1>4. /\ DOMAIN u.data = DOMAIN t.data \cup {last} /\ u.data[last] = row
      /\ \A j \in DOMAIN t.data : u.data[j] = t.data[j]
  <2>1. t.data \in Seq(RowType)
    BY DEF Typed
  <2>2. DOMAIN t.data = 1..Len(t.data) /\ Len(t.data) \in Nat
    BY <2>1
  <2>3. row \in RowType
    <3>1. copies[1] \in RowType
      OBVIOUS
    <3> QED BY <1>1, <3>1 DEF RowType, Row, Copy, KeyType
  <2>4. /\ Len(u.data) = Len(t.data) + 1 /\ DOMAIN u.data = 1..(Len(t.data) + 1)
        /\ u.data[Len(t.data) + 1] = row
        /\ \A j \in 1..Len(t.data) : u.data[j] = t.data[j]
    BY <1>3, <2>1, <2>3
  <2> QED BY <1>1, <2>2, <2>4
<1> HIDE DEF N
<1>5. \A c \in 1..(N - 1) : c + 1 \in 1..N /\ c + 1 # 1
  BY <1>2
<1>6. \A c \in 1..N : copies[c].key \in KeyType
  <2>1. \A c \in 1..N : copies[c] \in RowType
    BY <1>2
  <2> QED BY <2>1 DEF RowType
<1>7. /\ \A c \in 1..N : \E i \in hits : copies[c] = before.data[i]
      /\ \A c, d \in 1..N : copies[c].key = copies[d].key => c = d
      /\ \A c \in 1..N : ~Has(t, Copy(copies[c].key))
      /\ \A i \in hits : \/ \E c \in 1..N : copies[c] = before.data[i]
                         \/ Has(t, Copy(before.data[i].key))
  BY <1>2 DEF Duplicating
<1>8. \A k : Has(u, k) <=> Has(t, k) \/ k = key
  BY <1>3 DEF Has
<1>9. \A c \in DOMAIN more : \E i \in hits : more[c] = before.data[i]
  BY <1>2, <1>5, <1>7
<1>10. \A c, d \in DOMAIN more : more[c].key = more[d].key => c = d
  <2> SUFFICES ASSUME NEW c \in 1..(N - 1), NEW d \in 1..(N - 1),
                      more[c].key = more[d].key
               PROVE  c = d
    BY <1>2
  <2>1. c + 1 = d + 1
    BY <1>2, <1>5, <1>7
  <2> QED BY <1>2, <2>1
<1>11. \A c \in DOMAIN more : ~Has(u, Copy(more[c].key))
  <2> SUFFICES ASSUME NEW c \in 1..(N - 1) PROVE ~Has(u, Copy(more[c].key))
    BY <1>2
  <2>1. more[c] = copies[c + 1] /\ c + 1 \in 1..N /\ c + 1 # 1 /\ 1 \in 1..N
    BY <1>2, <1>5
  <2>2. copies[c + 1].key # copies[1].key
    BY <1>7, <2>1
  <2>3. Copy(copies[c + 1].key) # key
    BY <1>1, <1>6, <2>1, <2>2, CopyIsInjective
  <2> QED BY <1>7, <1>8, <2>1, <2>3
<1>12. \A i \in hits : \/ \E c \in DOMAIN more : more[c] = before.data[i]
                       \/ Has(u, Copy(before.data[i].key))
  <2> SUFFICES ASSUME NEW i \in hits, ~Has(u, Copy(before.data[i].key))
               PROVE  \E c \in 1..(N - 1) : more[c] = before.data[i]
    BY <1>2
  <2>1. PICK c \in 1..N : copies[c] = before.data[i]
    BY <1>7, <1>8
  <2>2. c # 1
    BY <1>1, <1>8, <2>1
  <2>3. c - 1 \in 1..(N - 1) /\ (c - 1) + 1 = c
    BY <1>2, <2>2
  <2>4. more[c - 1] = copies[c]
    BY <1>2, <2>3
  <2> QED BY <2>1, <2>3, <2>4
<1>13. IndexExact(u)
  <2>1. ~Has(t, key) /\ IndexExact(t)
    BY <1>1, <1>2, <1>7 DEF Duplicating
  <2>2. u = insertByIndex(t, key, copies[1].vals)
    BY <1>1
  <2> QED BY <2>1, <2>2, InsertExact
<1>14. \A j \in DOMAIN u.data \ DOMAIN before.data :
         \E i \in hits :
           u.data[j] = Row(Copy(before.data[i].key), before.data[i].vals)
  <2>1. \A j \in DOMAIN t.data \ DOMAIN before.data :
          \E i \in hits :
            t.data[j] = Row(Copy(before.data[i].key), before.data[i].vals)
    BY DEF Duplicating
  <2>2. \E i \in hits : row = Row(Copy(before.data[i].key), before.data[i].vals)
    BY <1>1, <1>2, <1>7
  <2> QED BY <1>4, <2>1, <2>2
<1>15. hits \subseteq DOMAIN before.data
       /\ \A i \in hits : ~Has(before, Copy(before.data[i].key))
  BY DEF Duplicating
<1> QED BY <1>1, <1>9, <1>10, <1>11, <1>12, <1>13, <1>14, <1>15 DEF Duplicating

LEMMA CopyCollected ==
  ASSUME TypedInv, CopyInv, CollectRow, IndexExact(run.before),
         Rectangular(run.before), IsInjective(run.before.fields)
  PROVE  Duplicating(run.before, run'.hits, run'.copies, run.before)
<1>1. /\ InRow /\ RowVerdict = "true" /\ run.q.kind = "DUPLICATE"
  BY DEF CollectRow
<1>2. /\ phase = "scan" /\ ScanSound /\ RowsToCome /\ Here = run.before.data[run.row]
      /\ run.row \in DOMAIN run.before.data /\ run.row \notin run.hits
  BY <1>1, HereIsUnchanged
<1>3. Target = run.before
  BY <1>1, <1>2 DEF RowsToCome, Mutators
<1>4. Duplicating(run.before, run.hits, run.copies, run.before)
  BY <1>1, <1>2, <1>3 DEF CopyInv
<1>5. CASE isOriginalWithCopy(Target, Here.key)
  <2>1. NextRow(run.hits, run.sums, run.copies)
    BY <1>5 DEF CollectRow
  <2>2. run'.hits = run.hits /\ run'.copies = run.copies
    BY <2>1, NextRun
  <2> QED BY <1>4, <2>2
<1>6. CASE ~isOriginalWithCopy(Target, Here.key)
  <2>1. PICK copy : copy = Row(Here.key, [n \in DOMAIN Target.fields |->
                                            Cell(Target.fields[n])])
    OBVIOUS
  <2>2. NextRow(run.hits \cup {run.row}, run.sums, Append(run.copies, copy))
    BY <1>6, <2>1 DEF CollectRow
  <2>3. run'.hits = run.hits \cup {run.row} /\ run'.copies = Append(run.copies, copy)
    BY <2>2, NextRun
  <2>4. copy = run.before.data[run.row]
    <3>1. Typed(run.before)
      BY <1>2 DEF ScanSound
    <3>2. PICK t, i : t = run.before /\ i = run.row
      OBVIOUS
    <3>3. t.data[i] = Row(t.data[i].key,
                          [n \in DOMAIN t.fields |->
                             t.data[i].vals[getFieldIndex(t, t.fields[n])]])
      BY <1>2, <3>1, <3>2, CollectedRow
    <3>4. copy = Row(t.data[i].key,
                     [n \in DOMAIN t.fields |->
                        t.data[i].vals[getFieldIndex(t, t.fields[n])]])
      BY <1>2, <1>3, <2>1, <3>2 DEF Cell
    <3> QED BY <3>2, <3>3, <3>4
  <2>5. PICK before, hits, e, copies :
          before = run.before /\ hits = run.hits /\ e = run.row /\ copies = run.copies
    OBVIOUS
  <2>6. copies \in Seq(RowType) /\ e \in DOMAIN before.data \ hits
    BY <1>2, <2>5 DEF ScanSound
  <2>7. ~Has(before, Copy(before.data[e].key)) /\ IndexExact(before)
    BY <1>2, <1>3, <1>6, <2>5 DEF isOriginalWithCopy
  <2>8. Duplicating(before, hits, copies, before)
    BY <1>4, <2>5
  <2>9. Duplicating(before, hits \cup {e}, Append(copies, before.data[e]), before)
    BY <2>6, <2>7, <2>8, Collects
  <2> QED BY <2>3, <2>4, <2>5, <2>9
<1> QED BY <1>5, <1>6

LEMMA CopyInserted ==
  ASSUME TypedInv, CopyInv, InsertCopy, run.q.kind = "DUPLICATE",
         IndexExact(run.before), Rectangular(run.before),
         IsInjective(run.before.fields)
  PROVE  Duplicating(run.before, run.hits, Tail(run.copies), Target')
<1>1. /\ phase = "insert" /\ run.copies # << >>
      /\ run' = [run EXCEPT !.copies = Tail(run.copies)]
  BY DEF InsertCopy
<1>2. /\ ScanSound /\ run.q.table \in TableNames /\ Sound(Target)
      /\ DOMAIN tables = TableNames
  BY <1>1 DEF TypedInv, ScanInv, ScanSound, Asked, Scans, DbInv, RunSound, TablesSound
<1>3. PICK before, hits, copies, t :
        before = run.before /\ hits = run.hits /\ copies = run.copies /\ t = Target
  OBVIOUS
<1>4. /\ copies \in Seq(RowType) /\ copies # << >> /\ Sound(t) /\ Typed(t)
      /\ Duplicating(before, hits, copies, t)
  BY <1>1, <1>2, <1>3 DEF ScanSound, CopyInv
<1>5. Head(copies).key \in KeyType /\ Head(copies) = copies[1] /\ 1 \in DOMAIN copies
  <2>1. Head(copies) \in RowType /\ Head(copies) = copies[1] /\ 1 \in DOMAIN copies
    BY <1>4
  <2> QED BY <2>1 DEF RowType
<1>6. ~Has(t, Copy(Head(copies).key))
  BY <1>4, <1>5 DEF Duplicating
<1>7. generateUniqueKey(t, Head(copies).key) = Copy(Head(copies).key)
  BY <1>4, <1>5, <1>6, UniqueKey
<1>8. PICK u : u = insertByIndex(t, Copy(Head(copies).key), Head(copies).vals)
  OBVIOUS
<1>9. tables' = [tables EXCEPT ![run.q.table] = u]
  BY <1>3, <1>7, <1>8 DEF InsertCopy
<1>10. run'.q = run.q
  BY <1>1 DEF TypedInv, DbInv, RunSound, RunShape
<1>11. Target' = u
  BY <1>2, <1>9, <1>10 DEF Target
<1>12. Duplicating(before, hits, Tail(copies), u)
  BY <1>4, <1>8, Inserts
<1> QED BY <1>3, <1>11, <1>12

LEMMA CopyStep ==
  ASSUME TypedInv, HitsSatisfyTheClause, CopyInv, [Next]_vars
  PROVE  CopyInv'
<1> SUFFICES ASSUME phase' \in {"scan", "insert"}, run'.q.kind = "DUPLICATE",
                    IndexExact(run'.before), Rectangular(run'.before),
                    IsInjective(run'.before.fields)
             PROVE  /\ Duplicating(run'.before, run'.hits, run'.copies, Target')
                    /\ phase' = "insert" =>
                         \A i \in DOMAIN run'.before.data :
                           Wanted(run'.q, run'.before, i) => i \in run'.hits
  BY DEF CopyInv
<1>1. CASE phase' = phase /\ UNCHANGED <<run, tables>>
  <2>1. Target' = Target
    BY <1>1 DEF Target
  <2> QED BY <1>1, <2>1 DEF CopyInv
<1>2. CASE phase' = "scan" /\ \E i \in DOMAIN pending : BeginScan(i)
  <2>1. PICK i \in DOMAIN pending : BeginScan(i)
    BY <1>2
  <2>2. PICK q, t : q = pending[i] /\ t = tables[q.table]
    OBVIOUS
  <2>3. /\ run' = [NoRun EXCEPT !.q = q, !.before = t, !.row = 1, !.sums = StartOf(q)]
        /\ UNCHANGED tables
    BY <1>2, <2>1, <2>2 DEF BeginScan, Done, Ready
  <2>4. /\ run'.q = q /\ run'.before = t /\ run'.hits = {} /\ run'.copies = << >>
    BY <2>3 DEF NoRun
  <2>5. Target' = t
    BY <2>2, <2>3, <2>4 DEF Target
  <2>6. Duplicating(t, {}, << >>, t)
    BY <2>4 DEF Duplicating
  <2> QED BY <1>2, <2>4, <2>5, <2>6
<1>3. CASE phase' = "scan" /\ InRow /\ (SkipRow \/ SelectRow \/ AggregateRow
                                          \/ RewriteRow \/ CollectRow \/ RekeyRow)
  <2>1. \E hits, sums, copies : NextRow(hits, sums, copies)
    BY <1>3 DEF SkipRow, SelectRow, AggregateRow, RewriteRow, CollectRow, RekeyRow,
                Hit
  <2>2. run'.q = run.q /\ run'.before = run.before /\ phase = "scan"
    BY <1>3, <2>1, NextRun DEF InRow
  <2>3. SkipRow \/ CollectRow
    BY <1>3, <2>2 DEF SelectRow, AggregateRow, RewriteRow, RekeyRow, Mutators
  <2>4. UNCHANGED tables /\ Target = run.before
    <3>1. RowsToCome
      BY <1>3, HereIsUnchanged
    <3> QED BY <2>2, <2>3, <3>1 DEF SkipRow, CollectRow, RowsToCome, Mutators
  <2>5. Target' = run.before
    BY <2>2, <2>4 DEF Target
  <2>6. CASE SkipRow
    <3>1. run'.hits = run.hits /\ run'.copies = run.copies
      BY <2>6, NextRun DEF SkipRow
    <3> QED BY <1>3, <2>2, <2>4, <2>5, <3>1 DEF CopyInv
  <2>7. CASE CollectRow
    <3>1. Duplicating(run.before, run'.hits, run'.copies, run.before)
      BY <2>2, <2>7, CopyCollected
    <3> QED BY <1>3, <2>2, <2>5, <3>1
  <2> QED BY <2>3, <2>6, <2>7
<1>4. CASE phase' = "insert" /\ EndScan
  <2>1. /\ phase = "scan" /\ run.row > Len(Target.data) /\ UNCHANGED <<run, tables>>
    BY <1>4 DEF EndScan, Finish
  <2>2. Target' = Target
    BY <2>1 DEF Target
  <2>3. ScanSound /\ RowsToCome
    BY <2>1 DEF TypedInv, ScanInv
  <2>4. Duplicating(run.before, run.hits, run.copies, Target)
    BY <2>1 DEF CopyInv
  <2>5. /\ DOMAIN run.before.data = 1..Len(run.before.data)
        /\ run.row \in Nat /\ run.row > Len(run.before.data) /\ Len(run.before.data) \in Nat
    <3>1. Target = run.before /\ run.before.data \in Seq(RowType)
      BY <2>1, <2>3 DEF RowsToCome, ScanSound, Typed, Mutators
    <3>2. run.row \in 1..(Len(run.before.data) + 1) /\ Len(run.before.data) \in Nat
      BY <2>3, <3>1 DEF ScanSound
    <3> QED BY <2>1, <3>1, <3>2
  <2>6. \A i \in 1..(run.row - 1) :
          Wanted(run.q, run.before, i) => i \in run.hits
    BY <2>1 DEF HitsSatisfyTheClause, Wanted
  <2>7. \A i \in DOMAIN run.before.data : i \in 1..(run.row - 1)
    BY <2>5
  <2> QED BY <2>1, <2>2, <2>4, <2>6, <2>7
<1>5. CASE phase' = "insert" /\ InsertCopy
  <2>1. /\ phase = "insert" /\ run'.q = run.q /\ run'.before = run.before
        /\ run'.hits = run.hits /\ run'.copies = Tail(run.copies)
    BY <1>5 DEF InsertCopy, TypedInv, DbInv, RunSound, RunShape
  <2>2. Duplicating(run.before, run.hits, Tail(run.copies), Target')
    BY <1>5, <2>1, CopyInserted
  <2> QED BY <2>1, <2>2 DEF CopyInv
<1>6. CASE phase' = "scan"
  BY <1>1, <1>2, <1>3, <1>6, ScanGoesOn
<1>7. CASE phase' = "insert"
  <2>1. CASE UNCHANGED vars
    BY <1>1, <2>1 DEF vars
  <2>2. CASE \E q \in session.input : parseQuery(q)
    BY <1>1, <2>2 DEF parseQuery
  <2>3. CASE \E i \in DOMAIN pending : StartQuery(i)
    BY <1>7, <2>3 DEF StartQuery, InsertQuery, TruncateQuery, DropTableQuery,
          CopyTableQuery, PrintQuery, DumpTableQuery, LoadTableQuery, BeginScan,
          Ready, Done
  <2>4. CASE ScanRow
    BY <1>7, <2>4 DEF ScanRow, SkipRow, SelectRow, AggregateRow, RewriteRow,
          CollectRow, RekeyRow, FailRow, Finish, InRow, Hit, NextRow
  <2>5. CASE EndScan \/ InsertCopy
    BY <1>4, <1>5, <1>7, <2>5
  <2>6. CASE EndDuplicate \/ DumpWrite
    BY <1>7, <2>6 DEF EndDuplicate, DumpWrite, Finish
  <2> QED BY <2>1, <2>2, <2>3, <2>4, <2>5, <2>6 DEF Next
<1> QED BY <1>6, <1>7

\* After a DUPLICATE of a table with an exact index every row of its clause has a
\* copy, the old rows are where they were, and every new row is the copy of one
\* that had none.
THEOREM DuplicatesAreCopiedOnce == Spec => DuplicateCopiesOnce
<1>1. Init => CopyInv
  BY DEF Init, CopyInv
<1>2. TypedInv /\ HitsSatisfyTheClause /\ CopyInv /\ [Next]_vars => CopyInv'
  BY CopyStep
<1>3. TypedInv /\ CopyInv /\ [Next]_vars =>
        [phase = "insert" /\ phase' = "idle" /\ IndexExact(run.before)
           /\ Rectangular(run.before) /\ IsInjective(run.before.fields) =>
           LET old == run.before.data
               new == Target.data
           IN  /\ \A i \in DOMAIN old :
                    /\ new[i] = old[i]
                    /\ Satisfies(run.before, run.q.where, old[i]) =>
                         Has(Target, Copy(old[i].key))
               /\ \A j \in DOMAIN new \ DOMAIN old :
                    \E i \in DOMAIN old :
                      /\ new[j] = Row(Copy(old[i].key), old[i].vals)
                      /\ ~Has(run.before, Copy(old[i].key))]_vars
  <2> SUFFICES ASSUME TypedInv, CopyInv, [Next]_vars, phase = "insert",
                      phase' = "idle", IndexExact(run.before),
                      Rectangular(run.before), IsInjective(run.before.fields)
               PROVE  /\ \A i \in DOMAIN run.before.data :
                           /\ Target.data[i] = run.before.data[i]
                           /\ Satisfies(run.before, run.q.where, run.before.data[i])
                                => Has(Target, Copy(run.before.data[i].key))
                      /\ \A j \in DOMAIN Target.data \ DOMAIN run.before.data :
                           \E i \in DOMAIN run.before.data :
                             /\ Target.data[j] = Row(Copy(run.before.data[i].key),
                                                     run.before.data[i].vals)
                             /\ ~Has(run.before, Copy(run.before.data[i].key))
    OBVIOUS
  <2>1. EndDuplicate
    <3>1. CASE UNCHANGED vars
      BY <3>1 DEF vars
    <3>2. CASE \E q \in session.input : parseQuery(q)
      BY <3>2 DEF parseQuery
    <3>3. CASE \E i \in DOMAIN pending : StartQuery(i)
      BY <3>3 DEF StartQuery, InsertQuery, TruncateQuery, DropTableQuery,
            CopyTableQuery, PrintQuery, DumpTableQuery, LoadTableQuery, BeginScan,
            Ready
    <3>4. CASE ScanRow
      BY <3>4 DEF ScanRow, SkipRow, SelectRow, AggregateRow, RewriteRow,
            CollectRow, RekeyRow, FailRow, InRow
    <3>5. CASE EndScan \/ InsertCopy \/ EndDuplicate \/ DumpWrite
      BY <3>5 DEF EndScan, InsertCopy, DumpWrite
    <3> QED BY <3>1, <3>2, <3>3, <3>4, <3>5 DEF Next
  <2>2. run.copies = << >> /\ RowsKept
    BY <2>1 DEF EndDuplicate, TypedInv, ScanInv
  <2>3. PICK before, hits, t : before = run.before /\ hits = run.hits /\ t = Target
    OBVIOUS
  <2>4. /\ Duplicating(before, hits, << >>, t)
        /\ \A i \in DOMAIN before.data : Wanted(run.q, before, i) => i \in hits
        /\ \A i \in DOMAIN before.data : i \in DOMAIN t.data /\ t.data[i] = before.data[i]
        /\ run.q.kind = "DUPLICATE" /\ IndexExact(before)
    BY <2>2, <2>3 DEF CopyInv, RowsKept
  <2>5. ASSUME NEW k, Has(before, k) PROVE Has(t, k)
    <3>1. PICK i \in DOMAIN before.data : before.data[i].key = k
      BY <2>4, <2>5 DEF IndexExact, Has
    <3>2. i \in DOMAIN t.data /\ t.data[i].key = k /\ IndexExact(t)
      BY <2>4, <3>1 DEF Duplicating
    <3> QED BY <3>2 DEF IndexExact, Has
  <2>6. \A i \in hits : Has(t, Copy(before.data[i].key))
    BY <2>4 DEF Duplicating
  <2>7. ASSUME NEW i \in DOMAIN before.data,
               Satisfies(before, run.q.where, before.data[i])
        PROVE  Has(t, Copy(before.data[i].key))
    BY <2>4, <2>5, <2>6, <2>7 DEF Wanted
  <2>8. \A j \in DOMAIN t.data \ DOMAIN before.data :
          \E i \in DOMAIN before.data :
            /\ t.data[j] = Row(Copy(before.data[i].key), before.data[i].vals)
            /\ ~Has(before, Copy(before.data[i].key))
    BY <2>4 DEF Duplicating
  <2> QED BY <2>3, <2>4, <2>7, <2>8
<1> QED BY TypedInvariant, ScansHitWhatTheClauseSays, <1>1, <1>2, <1>3, PTL
     DEF Spec, DuplicateCopiesOnce
================================================================================
