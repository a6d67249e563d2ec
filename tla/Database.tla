------------------------------- MODULE Database -------------------------------
(***************************************************************************)
(* What the queries of LemonDB do to its tables, its files and its cache   *)
(* of the tables' names in files (Projects/p2/src/query/data,              *)
(* query/management, db/Database.cpp).  The main thread parses queries     *)
(* ahead of their execution; they execute one at a time, row by row, and   *)
(* may overtake one another unless they conflict, which is what the        *)
(* scheduler guarantees (QueryScheduler, ConflictOrder).                   *)
(***************************************************************************)
EXTENDS Conditions, SequencesExt

CONSTANTS TableNames,   \* the names of tables
          NoName,       \* the empty string
          Missing,      \* stands for a table that does not exist
          Files,        \* the names of files
          KeyBases,     \* keys without the suffix _copy
          WideNames,    \* the column names of ten characters and more
          Sessions,     \* what a run may start from and type
          MaxQueries    \* bound: the number of queries of a session

ASSUME NamesAssumption ==
  NoName \notin TableNames /\ Missing \notin TableNames \cup {NoName}
ASSUME BoundAssumption == MaxQueries \in Nat

\* <<base, n>> is base followed by n times "_copy".
KeyType == KeyBases \X Nat
Copy(key) == <<key[1], key[2] + 1>>

\* The constructor of Table refuses a second column KEY.
FieldNames == STRING \ {KEY}

RowType == [key : KeyType, vals : Seq(ValueType)]

\* A query has the fields of all kinds of queries; a LOAD gets its table when it
\* is parsed.
Query == [kind : STRING, table : TableNames \cup {NoName},
          to : TableNames \cup {NoName}, keys : Seq(KeyType), vals : Seq(Int),
          fields : Seq(STRING),
          where : Seq([field : STRING, op : STRING, key : KeyType, value : Int]),
          file : Files]

\* Sessions start from tables and files that earlier ones may have left; a parsed
\* UPDATE of one column has the value, or the key, that goes there.
ASSUME SessionsAssumption ==
  \A s \in Sessions :
    /\ DOMAIN s.tables = TableNames /\ DOMAIN s.files = Files
    /\ \A n \in TableNames :
         LET t == s.tables[n]
         IN  t # Missing =>
               /\ t = [fields |-> t.fields, data |-> t.data, keyMap |-> t.keyMap]
               /\ t.fields \in Seq(FieldNames) /\ t.data \in Seq(RowType)
               /\ DOMAIN t.keyMap \subseteq KeyType /\ IndexInRange(t)
    /\ \A f \in Files : /\ s.files[f].kind \in {"absent", "empty", "table"}
                         /\ s.files[f].name \in TableNames \cup {NoName}
                         /\ s.files[f].fields \in Seq(FieldNames)
                         /\ s.files[f].data \in Seq(RowType)
                         /\ s.files[f].of = Missing
    /\ s.input \subseteq Query
    /\ \A q \in s.input :
         /\ q.kind \notin {"LOAD", "LIST", "NOP"} => q.table \in TableNames
         /\ q.kind = "UPDATE" /\ Len(q.fields) = 1 =>
              IF q.fields = <<KEY>> THEN q.keys # << >> ELSE q.vals # << >>

VARIABLES session,   \* [tables, files, input, ahead], never changed
          tables,    \* Database::tables
          files,     \* the contents of the files
          cache,     \* Database::fileTableNameMap
          parsed,    \* how many queries were parsed
          pending,   \* parsed queries that have not started, oldest first
          phase,     \* what the running query is doing
          run,       \* its local variables
          answer     \* the result of the last query

vars == <<session, tables, files, cache, parsed, pending, phase, run, answer>>

\* A file holds nothing or a printed table; "of" is history, the table that
\* DUMP printed there.
Absent == [kind |-> "absent", name |-> NoName, fields |-> << >>,
           data |-> << >>, of |-> Missing]
Empty == [Absent EXCEPT !.kind = "empty"]

Scans == {"SELECT", "SUM", "MAX", "UPDATE", "SWAP", "SUB", "DELETE", "DUPLICATE"}
Mutators == {"UPDATE", "SWAP", "SUB"}

NoRun == [q |-> Missing, before |-> Missing, row |-> 0, hits |-> {},
          sums |-> << >>, copies |-> << >>]
NoAnswer == [kind |-> "none", count |-> 0, sums |-> << >>]
Error == [NoAnswer EXCEPT !.kind = "error"]
Success == [NoAnswer EXCEPT !.kind = "success"]
Count(n) == [NoAnswer EXCEPT !.kind = "count", !.count = n]
Values(sums) == [NoAnswer EXCEPT !.kind = "values", !.sums = sums]
Null == [NoAnswer EXCEPT !.kind = "null"]
-----------------------------------------------------------------------------
\* How the scheduler classifies a query (isReadOnly, isDbLevel, getTargetTable).
Class(q) ==
  [kind |-> CASE q.kind \in {"SELECT", "SUM", "MAX"}         -> "read"
              [] q.kind = "SHOWTABLE"                        -> "show"
              [] q.kind = "LIST"                             -> "list"
              [] q.kind \in {"LOAD", "DROP", "COPYTABLE"}    -> "db"
              [] q.kind = "NOP"                              -> "nop"
              [] OTHER                                       -> "write",
   table |-> IF q.kind \in {"LOAD", "DROP", "COPYTABLE", "LIST", "NOP"}
             THEN NoName ELSE q.table]

Scheduled == INSTANCE Queries WITH Tables <- TableNames, NoTable <- NoName,
                                   Input <- {}
Conflict(p, q) == Scheduled!Conflict(Class(p), Class(q))

Ready(i) == /\ phase = "idle"
            /\ i \in DOMAIN pending
            /\ \A j \in 1..(i - 1) : ~Conflict(pending[j], pending[i])

\* Query i starts and is done at once, with this answer.
Done(i, result) ==
  /\ pending' = RemoveAt(pending, i)
  /\ answer' = result
  /\ UNCHANGED <<session, cache, parsed, phase, run>>
-----------------------------------------------------------------------------
\* Parsing, by the main thread: the builder of DUMP records the name that its
\* file will hold, the builder of LOAD asks for the name that its file holds,
\* which reads the file when the cache does not know it.
KnownName(f) == IF cache[f] # Missing THEN cache[f] ELSE files[f].name

\* A plausible bug: the builder of DUMP leaves the cache alone.
forgetFileTableName(f, n) == cache

updateFileTableName(f, n) == [cache EXCEPT ![f] = n]

\* A file that cannot be opened is not remembered, an empty one is.
getFileTableName(f) ==
  IF files[f].kind = "absent" THEN cache ELSE [cache EXCEPT ![f] = KnownName(f)]

parseQuery(q) ==
  /\ phase # "crashed"
  /\ parsed < MaxQueries /\ Len(pending) < session.ahead
  /\ parsed' = parsed + 1
  /\ cache' = CASE q.kind = "DUMP" -> updateFileTableName(q.file, q.table)
                [] q.kind = "LOAD" -> getFileTableName(q.file)
                [] OTHER -> cache
  /\ pending' = Append(pending, IF q.kind = "LOAD"
                                THEN [q EXCEPT !.table = KnownName(q.file)]
                                ELSE q)
  /\ UNCHANGED <<session, tables, files, phase, run, answer>>
-----------------------------------------------------------------------------
\* Queries without a scan.

\* INSERT does not compare the number of values with the number of columns,
\* and strtol wraps what does not fit.
InsertQuery(i) ==
  LET q == pending[i]
      t == tables[q.table]
      vals == [n \in DOMAIN q.vals |-> Wrap(q.vals[n])]
  IN  /\ Ready(i) /\ q.kind = "INSERT"
      /\ UNCHANGED files
      /\ \/ /\ q.keys # << >> /\ t # Missing => Has(t, Head(q.keys))
            /\ UNCHANGED tables
            /\ Done(i, Error)
         \/ /\ q.keys # << >> /\ t # Missing /\ ~Has(t, Head(q.keys))
            /\ tables' = [tables EXCEPT ![q.table] =
                                          insertByIndex(t, Head(q.keys), vals)]
            /\ Done(i, Success)

TruncateQuery(i) ==
  LET q == pending[i]
      t == tables[q.table]
  IN  /\ Ready(i) /\ q.kind = "TRUNCATE"
      /\ UNCHANGED files
      /\ \/ t = Missing /\ UNCHANGED tables /\ Done(i, Error)
         \/ /\ t # Missing
            /\ tables' = [tables EXCEPT ![q.table] = clear(t)]
            /\ Done(i, Success)

DropTableQuery(i) ==
  LET q == pending[i]
      t == tables[q.table]
  IN  /\ Ready(i) /\ q.kind = "DROP"
      /\ UNCHANGED files
      /\ \/ t = Missing /\ UNCHANGED tables /\ Done(i, Error)
         \/ /\ t # Missing
            /\ tables' = [tables EXCEPT ![q.table] = Missing]
            /\ Done(i, Success)

CopyTableQuery(i) ==
  LET q == pending[i]
      t == tables[q.table]
  IN  /\ Ready(i) /\ q.kind = "COPYTABLE"
      /\ UNCHANGED files
      /\ \/ /\ t = Missing \/ tables[q.to] # Missing
            /\ UNCHANGED tables
            /\ Done(i, Error)
         \/ /\ t # Missing /\ tables[q.to] = Missing
            /\ tables' = [tables EXCEPT ![q.to] = t]
            /\ Done(i, Success)

\* SHOWTABLE and LIST print, COUNT, MIN and ADD do nothing at all.
PrintQuery(i) ==
  LET q == pending[i]
  IN  /\ Ready(i) /\ q.kind \in {"SHOWTABLE", "LIST", "NOP"}
      /\ UNCHANGED <<tables, files>>
      /\ Done(i, CASE q.kind = "NOP" -> Null
                   [] q.kind = "SHOWTABLE" /\ tables[q.table] = Missing -> Error
                   [] OTHER -> Success)
-----------------------------------------------------------------------------
\* Files.  Names and values are printed in columns ten characters wide.  A name of
\* ten characters and more touches the one to its left, KEY or another column:
\* the line then holds fewer names than the first line of the file announces.
NamesApart(fields) == \A n \in DOMAIN fields : fields[n] \notin WideNames

\* The extremes stand for the numbers of ten characters and more: glued to the
\* key, or a positive one to a number, they cannot be read back, while the sign of
\* a negative one still parts it from a number.
Wide(n) == n \in {-Half, Half - 1}
Readable(row, fields) ==
  /\ Len(row.vals) >= Len(fields)
  /\ \A n \in DOMAIN fields : Wide(row.vals[n]) => n > 1 /\ row.vals[n] < 0

\* operator<< reads as many cells as there are columns: those that a short row
\* does not have are whatever lies behind it, those too many are not printed.
ShortRows(t) == {i \in DOMAIN t.data : Len(t.data[i].vals) < Len(t.fields)}
Printed(t, behind) ==
  [i \in DOMAIN t.data |->
     Row(t.data[i].key, [n \in DOMAIN t.fields |->
                           IF HasCell(t.data[i], n) THEN t.data[i].vals[n]
                           ELSE behind[i]])]

\* DUMP: opening the file empties it, whether there is a table to print or not.
DumpTableQuery(i) ==
  LET q == pending[i]
  IN  /\ Ready(i) /\ q.kind = "DUMP"
      /\ files' = [files EXCEPT ![q.file] = Empty]
      /\ pending' = RemoveAt(pending, i)
      /\ phase' = "dump"
      /\ run' = [NoRun EXCEPT !.q = q]
      /\ UNCHANGED <<session, tables, cache, parsed, answer>>

Finish(result) ==
  /\ phase' = "idle"
  /\ run' = NoRun
  /\ answer' = result
  /\ UNCHANGED <<session, cache, parsed, pending>>

DumpWrite ==
  LET q == run.q
      t == tables[q.table]
  IN  /\ phase = "dump"
      /\ UNCHANGED tables
      /\ \/ t = Missing /\ UNCHANGED files /\ Finish(Error)
         \/ /\ t # Missing
            /\ \E behind \in [ShortRows(t) -> ValueType] :
                 files' = [files EXCEPT ![q.file] =
                             [kind |-> "table", name |-> q.table,
                              fields |-> t.fields, data |-> Printed(t, behind),
                              of |-> t]]
            /\ Finish(Success)

\* A plausible bug: a row that cannot be read is taken for the end of the file.
UnloadableAtFirst(file) ==
  file.kind = "table" =>
    \/ tables[file.name] # Missing
    \/ ~NamesApart(file.fields)
    \/ \E i, j \in DOMAIN file.data : i # j /\ file.data[i].key = file.data[j].key

\* loadTableFromStream: the table is registered only when it is complete.
Unloadable(file) ==
  file.kind = "table" =>
    \/ tables[file.name] # Missing
    \/ ~NamesApart(file.fields)
    \/ \E i \in DOMAIN file.data : ~Readable(file.data[i], file.fields)
    \/ \E i, j \in DOMAIN file.data : i # j /\ file.data[i].key = file.data[j].key

Loaded(file) ==
  LET end == {i \in DOMAIN file.data : ~Readable(file.data[i], file.fields)}
      data == IF end = {} THEN file.data ELSE SubSeq(file.data, 1, Min(end) - 1)
  IN  [fields |-> file.fields, data |-> data,
       keyMap |-> [k \in {data[i].key : i \in DOMAIN data} |->
                     CHOOSE i \in DOMAIN data : data[i].key = k]]

LoadTableQuery(i) ==
  LET q == pending[i]
      file == files[q.file]
  IN  /\ Ready(i) /\ q.kind = "LOAD"
      /\ UNCHANGED files
      /\ \/ Unloadable(file) /\ UNCHANGED tables /\ Done(i, Error)
         \/ /\ ~Unloadable(file)
            /\ tables' = [tables EXCEPT ![file.name] = Loaded(file)]
            /\ Done(i, Success)
-----------------------------------------------------------------------------
\* Queries that scan their table.

WrongOperands(q) ==
  CASE q.kind \in {"SUM", "MAX"} -> q.fields = << >>
    [] q.kind = "SWAP"           -> Len(q.fields) # 2
    [] q.kind = "SUB"            -> Len(q.fields) < 2
    [] q.kind = "UPDATE"         -> Len(q.fields) # 1
    [] q.kind = "DUPLICATE"      -> q.fields # << >>
    [] OTHER                     -> FALSE

\* The exceptions before the first row: KEY is an operand of SELECT and of
\* UPDATE only.
Refused(q, t) ==
  t # Missing =>
    \/ WrongOperands(q)
    \/ \E f \in ToSet(q.fields) : /\ ~HasField(t, f)
                                  /\ f = KEY => q.kind \notin {"SELECT", "UPDATE"}
    \/ InitThrows(t, q.where)

\* All but SELECT and DELETE look at the flag of initCondition.
SkipsScan(q, t) ==
  q.kind \notin {"SELECT", "DELETE"} /\ AlwaysFalse(t, q.where)

\* A plausible bug: MAX starts from zero.
StartAtZero(q) == [f \in DOMAIN q.fields |-> 0]

StartOf(q) == [f \in DOMAIN q.fields |-> IF q.kind = "MAX" THEN -Half ELSE 0]

ScanAnswer(q, hits, sums) ==
  CASE q.kind = "SELECT" -> IF hits = {} THEN Null ELSE Success
    [] q.kind = "SUM"    -> Values(sums)
    [] q.kind = "MAX"    -> IF hits = {} THEN Null ELSE Values(sums)
    [] OTHER             -> Count(Cardinality(hits))

BeginScan(i) ==
  LET q == pending[i]
      t == tables[q.table]
  IN  /\ Ready(i) /\ q.kind \in Scans
      /\ UNCHANGED <<tables, files>>
      /\ \/ Refused(q, t) /\ Done(i, Error)
         \/ /\ ~Refused(q, t) /\ SkipsScan(q, t)
            /\ Done(i, ScanAnswer(q, {}, StartOf(q)))
         \/ /\ ~Refused(q, t) /\ ~SkipsScan(q, t)
            /\ pending' = RemoveAt(pending, i)
            /\ phase' = "scan"
            /\ run' = [NoRun EXCEPT !.q = q, !.before = t, !.row = 1,
                                    !.sums = StartOf(q)]
            /\ UNCHANGED <<session, cache, parsed, answer>>

\* The row a scan is at, and what its clause says of it.
Target == tables[run.q.table]
Here == Target.data[run.row]
InRow == phase = "scan" /\ run.row <= Len(Target.data)
Cell(f) == Here.vals[getFieldIndex(Target, f)]

\* A plausible bug: the copies themselves are left out, not their originals.
isCopy(t, key) == key[2] > 0

\* DUPLICATE leaves out the originals that have a copy already, before it reads
\* a cell of them.
isOriginalWithCopy(t, key) == Has(t, Copy(key))
Columns(q) ==
  IF q.kind # "DUPLICATE" THEN ToSet(q.fields) \ {KEY}
  ELSE IF isOriginalWithCopy(Target, Here.key) THEN {} ELSE ToSet(Target.fields)
ShortRow == \E f \in Columns(run.q) : ~HasCell(Here, getFieldIndex(Target, f))
RowVerdict ==
  LET verdict == evalCondition(Target, run.q.where, Here)
  IN  IF verdict = "true" /\ ShortRow THEN "throw" ELSE verdict

NextRow(hits, sums, copies) ==
  /\ run' = [run EXCEPT !.row = run.row + 1, !.hits = hits, !.sums = sums,
                        !.copies = copies]
  /\ UNCHANGED <<session, files, cache, parsed, pending, phase, answer>>
Hit == NextRow(run.hits \cup {run.row}, run.sums, run.copies)

SkipRow ==
  /\ InRow /\ RowVerdict = "false"
  /\ NextRow(run.hits, run.sums, run.copies) /\ UNCHANGED tables

\* An exception ends the query; the rows it changed before stay changed.
FailRow ==
  /\ InRow /\ RowVerdict \in {"throw", "unset"}
  /\ UNCHANGED <<tables, files>>
  /\ Finish(Error)

SelectRow ==
  /\ InRow /\ RowVerdict = "true"
  /\ run.q.kind \in {"SELECT", "DELETE"}
  /\ Hit /\ UNCHANGED tables

\* SUM adds up in a ValueType and MAX keeps the greatest value.
Aggregate(kind, acc, v) ==
  IF kind = "SUM" THEN Wrap(acc + v) ELSE IF v > acc THEN v ELSE acc

AggregateRow ==
  /\ InRow /\ RowVerdict = "true"
  /\ run.q.kind \in {"SUM", "MAX"}
  /\ NextRow(run.hits \cup {run.row},
             [n \in DOMAIN run.sums |->
                Aggregate(run.q.kind, run.sums[n], Cell(run.q.fields[n]))],
             run.copies)
  /\ UNCHANGED tables

\* What UPDATE of a column, SWAP and SUB leave in a row.
Store(t, f, v) == setValue(t, run.row, getFieldIndex(t, f), v)
Rewritten ==
  LET fs == run.q.fields
  IN  CASE run.q.kind = "UPDATE" -> Store(Target, fs[1], Wrap(run.q.vals[1]))
        [] run.q.kind = "SWAP" ->
             Store(Store(Target, fs[1], Cell(fs[2])), fs[2], Cell(fs[1]))
        [] run.q.kind = "SUB" ->
             Store(Target, Last(fs),
                   FoldLeft(LAMBDA acc, f : Wrap(acc - Cell(f)), Cell(fs[1]),
                            SubSeq(fs, 2, Len(fs) - 1)))

RewriteRow ==
  /\ InRow /\ RowVerdict = "true"
  /\ run.q.kind \in Mutators /\ run.q.fields # <<KEY>>
  /\ tables' = [tables EXCEPT ![run.q.table] = Rewritten]
  /\ Hit

\* UPDATE of KEY: end() dereferenced, when the index does not have the row.
RekeyRow ==
  /\ InRow /\ RowVerdict = "true"
  /\ run.q.kind = "UPDATE" /\ run.q.fields = <<KEY>>
  /\ \/ /\ ~SetKeyCrashes(Target, run.row)
        /\ tables' = [tables EXCEPT ![run.q.table] =
                                      setKey(Target, run.row, Head(run.q.keys))]
        /\ Hit
     \/ /\ SetKeyCrashes(Target, run.row)
        /\ phase' = "crashed"
        /\ UNCHANGED <<session, tables, files, cache, parsed, pending, run, answer>>

\* DUPLICATE keeps of a row the cells of its columns.
CollectRow ==
  /\ InRow /\ RowVerdict = "true" /\ run.q.kind = "DUPLICATE"
  /\ UNCHANGED tables
  /\ IF isOriginalWithCopy(Target, Here.key)
     THEN NextRow(run.hits, run.sums, run.copies)
     ELSE NextRow(run.hits \cup {run.row}, run.sums,
                  Append(run.copies,
                         Row(Here.key, [n \in DOMAIN Target.fields |->
                                          Cell(Target.fields[n])])))

EndScan ==
  /\ phase = "scan" /\ run.row > Len(Target.data)
  /\ UNCHANGED files
  /\ \/ /\ run.q.kind \notin {"DELETE", "DUPLICATE"}
        /\ UNCHANGED tables
        /\ Finish(ScanAnswer(run.q, run.hits, run.sums))
     \/ /\ run.q.kind = "DELETE" /\ run.hits = {}
        /\ UNCHANGED tables
        /\ Finish(Count(0))
     \/ /\ run.q.kind = "DELETE" /\ run.hits # {}
        /\ tables' = [tables EXCEPT ![run.q.table] =
                        eraseMany(Target, {Target.data[r].key : r \in run.hits})]
        /\ Finish(Count(Len(Target.data) - Len(tables'[run.q.table].data)))
     \/ /\ run.q.kind = "DUPLICATE"
        /\ phase' = "insert"
        /\ UNCHANGED <<session, tables, cache, parsed, pending, run, answer>>

\* generateUniqueKey: as many suffixes as it takes.
generateUniqueKey(t, key) ==
  <<key[1], key[2] + Min({n \in 1..(Cardinality(DOMAIN t.keyMap) + 1) :
                            ~Has(t, <<key[1], key[2] + n>>)})>>

InsertCopy ==
  /\ phase = "insert" /\ run.copies # << >>
  /\ LET copy == Head(run.copies)
     IN  tables' = [tables EXCEPT ![run.q.table] =
                      insertByIndex(Target, generateUniqueKey(Target, copy.key),
                                    copy.vals)]
  /\ run' = [run EXCEPT !.copies = Tail(@)]
  /\ UNCHANGED <<session, files, cache, parsed, pending, phase, answer>>

EndDuplicate ==
  /\ phase = "insert" /\ run.copies = << >>
  /\ UNCHANGED <<tables, files>>
  /\ Finish(Count(Cardinality(run.hits)))
-----------------------------------------------------------------------------
Init ==
  /\ session \in Sessions
  /\ tables = session.tables
  /\ files = session.files
  /\ cache = [f \in Files |-> Missing]
  /\ parsed = 0
  /\ pending = << >>
  /\ phase = "idle"
  /\ run = NoRun
  /\ answer = NoAnswer

StartQuery(i) ==
  \/ InsertQuery(i) \/ TruncateQuery(i) \/ DropTableQuery(i) \/ CopyTableQuery(i)
  \/ PrintQuery(i) \/ DumpTableQuery(i) \/ LoadTableQuery(i) \/ BeginScan(i)

ScanRow ==
  \/ SkipRow \/ FailRow \/ SelectRow \/ AggregateRow \/ RewriteRow
  \/ RekeyRow \/ CollectRow

Next ==
  \/ \E q \in session.input : parseQuery(q)
  \/ \E i \in DOMAIN pending : StartQuery(i)
  \/ ScanRow \/ EndScan \/ InsertCopy \/ EndDuplicate \/ DumpWrite

Spec == Init /\ [][Next]_vars
-----------------------------------------------------------------------------
\* Properties

IsRow(row) == row.key \in KeyType /\ row.vals \in Seq(ValueType)
IsTable(t) ==
  /\ \A i \in DOMAIN t.data : IsRow(t.data[i])
  /\ DOMAIN t.keyMap \subseteq KeyType
  /\ \A k \in DOMAIN t.keyMap : t.keyMap[k] \in Nat

\* The state is as the code's types allow; what a scan has hit lies behind it
\* and it never runs past the end of its table.
DbTypeOK ==
  /\ session \in Sessions
  /\ \A n \in TableNames : tables[n] # Missing => IsTable(tables[n])
  /\ \A f \in Files : /\ files[f].kind \in {"absent", "empty", "table"}
                      /\ cache[f] \in TableNames \cup {NoName, Missing}
  /\ parsed \in 0..MaxQueries
  /\ Len(pending) <= parsed
  /\ phase \in {"idle", "scan", "insert", "dump", "crashed"}
  /\ phase \in {"scan", "insert"} => /\ run.row \in 1..(Len(Target.data) + 1)
                                     /\ run.hits \subseteq 1..(run.row - 1)

\* Whatever queries did, rekeyings onto taken keys included, every entry of an
\* index is the position of a row and no two entries are of the same row: a
\* lookup never leaves the table (Table.cpp:94-104 indexes without a test).
IndexWithinData ==
  \A n \in TableNames : tables[n] # Missing => IndexInRange(tables[n])

IndexesExact ==
  \A n \in TableNames : tables[n] # Missing => IndexExact(tables[n])

\* The indexes tell where every row is until an UPDATE of KEY gives a row the
\* key of another one (Table.h:146-152); no INSERT, DELETE, DUPLICATE,
\* TRUNCATE, COPYTABLE or LOAD breaks them.  And setKey dereferences end() only
\* in a table that an earlier query broke: no UPDATE does it by itself.
OnlyATakenKeyBreaksAnIndex ==
  [][/\ IndexesExact /\ ~IndexesExact' =>
          /\ phase = "scan" /\ run.q.fields = <<KEY>>
          /\ Has(Target, Head(run.q.keys)) /\ Here.key # Head(run.q.keys)
     /\ phase' = "crashed" => ~IndexExact(run.before)]_vars

\* A query that was accepted fails on some row only if an INSERT left that table
\* with a row of the wrong length; a comparator that initCondition left unset
\* is never called (Query.cpp:31-34, 69-78), and UPDATE, SWAP and SUB never stop
\* half-way in a rectangular table.
ScanFailsOnlyOnRaggedRows ==
  [][phase = "scan" /\ phase' = "idle" /\ answer'.kind = "error" =>
       ~Rectangular(run.before)]_vars

\* The rows a scan has hit are the ones it passed whose clause is true of what
\* they were when the query started, although UPDATE, SWAP and SUB change the
\* table under the scan; DUPLICATE leaves out those with a copy.
HitsSatisfyTheClause ==
  phase = "scan" /\ Rectangular(run.before) =>
    run.hits = {i \in 1..(run.row - 1) :
                  /\ Satisfies(run.before, run.q.where, run.before.data[i])
                  /\ run.q.kind = "DUPLICATE" =>
                       ~Has(run.before, Copy(run.before.data[i].key))}

\* With an exact index, a row that its clause does not hit is still there,
\* unchanged, when a query is over; DELETE erases by key what it hit by row.
OthersSurvive ==
  [][phase = "scan" /\ phase' # "scan" /\ IndexExact(run.before) =>
       \A i \in 1..(run.row - 1) \ run.hits :
         run.before.data[i] \in ToSet(tables'[run.q.table].data)]_vars

HitValues(f) ==
  [r \in run.hits |-> run.before.data[r].vals[getFieldIndex(run.before, f)]]
Total(S, value) == MapThenSumSet(LAMBDA r : value[r], S)

\* SUM answers the sum of the column over the rows it hit whenever that sum fits
\* a ValueType, even if it does not on the way; MAX answers the maximum.
AggregatesAreExact ==
  [][phase = "scan" /\ phase' = "idle" /\ answer'.kind = "values" =>
       \A n \in DOMAIN run.q.fields :
         LET value == HitValues(run.q.fields[n])
             total == Total(run.hits, value)
         IN  IF run.q.kind = "SUM"
             THEN total \in ValueType => answer'.sums[n] = total
             ELSE answer'.sums[n] = Max({value[r] : r \in run.hits})]_vars

\* After DUPLICATE every row of its clause has a copy, the old rows are where
\* they were, and each new row is the copy of an old one; copies of copies are
\* made, second copies of an original are not (DuplicateQuery.cpp:29-51).  A copy
\* has what the columns of that name have: of two of one name, twice the first.
DuplicateCopiesOnce ==
  [][phase = "insert" /\ phase' = "idle" /\ IndexExact(run.before)
       /\ Rectangular(run.before) /\ IsInjective(run.before.fields) =>
       LET old == run.before.data
           new == Target.data
       IN  /\ \A i \in DOMAIN old :
                /\ new[i] = old[i]
                /\ Satisfies(run.before, run.q.where, old[i]) =>
                     Has(Target, Copy(old[i].key))
           /\ \A j \in DOMAIN new \ DOMAIN old :
                \E i \in DOMAIN old : /\ new[j] = Row(Copy(old[i].key), old[i].vals)
                                      /\ ~Has(run.before, Copy(old[i].key))]_vars

\* A printed table comes back from its file as it was, or not at all; and if it
\* does not although its name is free, it had a row of the wrong length, a key
\* twice, or a column name or a number too wide for its column (Table.cpp:103-123,
\* Database.cpp:173-220).
DumpLoadRoundTrip ==
  [][\A f \in Files :
       LET t == files[f].of
           n == files[f].name
       IN  t # Missing /\ Rectangular(t)
             /\ (\E i \in DOMAIN pending : pending[i].kind = "LOAD"
                   /\ pending[i].file = f /\ LoadTableQuery(i))
             /\ tables[n] = Missing =>
           IF tables'[n] # Missing
           THEN /\ tables'[n].fields = t.fields /\ tables'[n].data = t.data
                /\ IndexExact(tables'[n])
           ELSE \/ ~IndexExact(t)
                \/ ~NamesApart(t.fields)
                \/ \E r \in ToSet(t.data) : \E v \in ToSet(r.vals) : Wide(v)]_vars

\* While a DUMP to a file waits or runs, the parser knows the file's name: it
\* never opens a file that another thread is writing (Database.cpp:127-142).
ParserNeverReadsAFileBeingWritten ==
  \A f \in Files :
    (phase = "dump" /\ run.q.file = f)
      \/ (\E i \in DOMAIN pending : pending[i].kind = "DUMP" /\ pending[i].file = f)
    => cache[f] # Missing
=============================================================================
