---------------------------- MODULE Database_proofs ----------------------------
(***************************************************************************)
(* Proofs about Database and the operations of Table, for tables of any    *)
(* size, any rows, queries and number of queries: positions stay within    *)
(* the rows, the parser keeps off files being written, and values have the *)
(* types of the code wherever a query can leave them.                      *)
(*                                                                         *)
(* DbInv says of every table that its index stays within its rows and how  *)
(* the cache follows the DUMPs.  TypedInv adds the types of rows, files    *)
(* and parsed queries, and what a scan may rely on: the rows it has not    *)
(* hit are those the table had (ScanSound), all of them are to come        *)
(* (RowsToCome).                                                           *)
(***************************************************************************)
EXTENDS Database, SetRecursion, SequenceTheorems

\* A table whose rows are a sequence and whose index stays within them.
Sound(t) ==
  /\ t = [fields |-> t.fields, data |-> t.data, keyMap |-> t.keyMap]
  /\ \E S : t.data \in Seq(S)
  /\ IndexInRange(t)

LEMMA SoundTable ==
  ASSUME NEW fields, NEW data, NEW keyMap, NEW S, data \in Seq(S),
         IndexInRange([fields |-> fields, data |-> data, keyMap |-> keyMap])
  PROVE  Sound([fields |-> fields, data |-> data, keyMap |-> keyMap])
BY DEF Sound

LEMMA BothReplaced ==
  ASSUME NEW t, Sound(t), NEW newData, NEW newMap
  PROVE  [t EXCEPT !.data = newData, !.keyMap = newMap]
           = [fields |-> t.fields, data |-> newData, keyMap |-> newMap]
<1> DEFINE t1 == [t EXCEPT !.data = newData]
<1>1. t1 = [fields |-> t.fields, data |-> newData, keyMap |-> t.keyMap]
  BY DEF Sound
<1>2. [t EXCEPT !.data = newData, !.keyMap = newMap] = [t1 EXCEPT !.keyMap = newMap]
  OBVIOUS
<1> HIDE DEF t1
<1>3. [t1 EXCEPT !.keyMap = newMap]
        = [fields |-> t.fields, data |-> newData, keyMap |-> newMap]
  BY <1>1
<1> QED BY <1>2, <1>3

LEMMA InsertSound ==
  ASSUME NEW t, Sound(t), NEW key, NEW vals
  PROVE  Sound(insertByIndex(t, key, vals))
<1>1. PICK S : t.data \in Seq(S)
  BY DEF Sound
<1> DEFINE data == Append(t.data, Row(key, vals))
           keyMap == [k \in DOMAIN t.keyMap \cup {key} |->
                        IF k = key THEN Len(t.data) + 1 ELSE t.keyMap[k]]
<1>2. insertByIndex(t, key, vals)
        = [fields |-> t.fields, data |-> data, keyMap |-> keyMap]
  BY BothReplaced DEF insertByIndex
<1>3. /\ data \in Seq(S \cup {Row(key, vals)})
      /\ DOMAIN data = DOMAIN t.data \cup {Len(t.data) + 1}
      /\ Len(t.data) + 1 \notin DOMAIN t.data
  BY <1>1
<1>4. \A k \in DOMAIN t.keyMap : t.keyMap[k] \in DOMAIN t.data
  BY DEF Sound, IndexInRange
<1>5. \A k, l \in DOMAIN t.keyMap : t.keyMap[k] = t.keyMap[l] => k = l
  BY DEF Sound, IndexInRange
<1> HIDE DEF data
<1>6. \A k \in DOMAIN keyMap : keyMap[k] \in DOMAIN data
  BY <1>3, <1>4
<1>7. \A k, l \in DOMAIN keyMap : keyMap[k] = keyMap[l] => k = l
  BY <1>3, <1>4, <1>5
<1> HIDE DEF keyMap
<1>8. IndexInRange([fields |-> t.fields, data |-> data, keyMap |-> keyMap])
  BY <1>6, <1>7 DEF IndexInRange
<1> QED BY <1>2, <1>3, <1>8, SoundTable

\* Whatever changes rows and leaves their number and the index alone.
LEMMA RowsChangedSound ==
  ASSUME NEW t, Sound(t), NEW data, DOMAIN data = DOMAIN t.data,
         NEW S, data \in Seq(S)
  PROVE  Sound([t EXCEPT !.data = data])
<1>1. [t EXCEPT !.data = data]
        = [fields |-> t.fields, data |-> data, keyMap |-> t.keyMap]
  BY DEF Sound
<1>2. IndexInRange([fields |-> t.fields, data |-> data, keyMap |-> t.keyMap])
  BY DEF Sound, IndexInRange
<1> QED BY <1>1, <1>2, SoundTable

LEMMA RowReplaced ==
  ASSUME NEW S, NEW s \in Seq(S), NEW i, NEW e
  PROVE  /\ [s EXCEPT ![i] = e] \in Seq(S \cup {e})
         /\ DOMAIN [s EXCEPT ![i] = e] = DOMAIN s
<1>1. s \in Seq(S \cup {e}) /\ DOMAIN s = 1..Len(s)
  BY SeqMonotonic, LenProperties
<1>2. CASE i \in 1..Len(s)
  BY <1>1, <1>2, ExceptSeq
<1>3. CASE i \notin 1..Len(s)
  <2>1. s = [n \in DOMAIN s |-> s[n]]
    BY LenProperties
  <2>2. [s EXCEPT ![i] = e] = [n \in DOMAIN s |-> s[n]]
    BY <1>1, <1>3
  <2> QED BY <1>1, <2>1, <2>2
<1> QED BY <1>2, <1>3

LEMMA SetValueSound ==
  ASSUME NEW t, Sound(t), NEW i, NEW f, NEW v
  PROVE  Sound(setValue(t, i, f, v))
<1>1. PICK S : t.data \in Seq(S)
  BY DEF Sound
<1> DEFINE row == [t.data[i] EXCEPT !.vals[f] = v]
           data == [t.data EXCEPT ![i] = row]
<1>2. setValue(t, i, f, v) = [t EXCEPT !.data = data]
  BY DEF setValue, Sound
<1>3. data \in Seq(S \cup {row}) /\ DOMAIN data = DOMAIN t.data
  BY <1>1, RowReplaced
<1> HIDE DEF data
<1> QED BY <1>2, <1>3, RowsChangedSound

LEMMA SetKeySound ==
  ASSUME NEW t, Sound(t), NEW i, NEW key, ~SetKeyCrashes(t, i)
  PROVE  Sound(setKey(t, i, key))
<1>1. PICK S : t.data \in Seq(S)
  BY DEF Sound
<1> DEFINE old == t.data[i].key
           rest == DOMAIN t.keyMap \ {old}
           row == [t.data[i] EXCEPT !.key = key]
           data == [t.data EXCEPT ![i] = row]
           keyMap == [k \in rest \cup {key} |->
                        IF k \in rest THEN t.keyMap[k] ELSE t.keyMap[old]]
<1>2. setKey(t, i, key) = [fields |-> t.fields, data |-> data, keyMap |-> keyMap]
  BY BothReplaced DEF setKey
<1>3. data \in Seq(S \cup {row}) /\ DOMAIN data = DOMAIN t.data
  BY <1>1, RowReplaced
<1>4. old \in DOMAIN t.keyMap
  BY DEF SetKeyCrashes, Has
<1>5. \A k \in DOMAIN t.keyMap : t.keyMap[k] \in DOMAIN t.data
  BY DEF Sound, IndexInRange
<1>6. \A k, l \in DOMAIN t.keyMap : t.keyMap[k] = t.keyMap[l] => k = l
  BY DEF Sound, IndexInRange
<1> HIDE DEF data, old
<1>7. \A k \in DOMAIN keyMap : keyMap[k] \in DOMAIN data
  BY <1>3, <1>4, <1>5
<1>8. \A k, l \in DOMAIN keyMap : keyMap[k] = keyMap[l] => k = l
  BY <1>4, <1>6
<1> HIDE DEF keyMap
<1>9. IndexInRange([fields |-> t.fields, data |-> data, keyMap |-> keyMap])
  BY <1>7, <1>8 DEF IndexInRange
<1> QED BY <1>2, <1>3, <1>9, SoundTable

LEMMA ClearSound ==
  ASSUME NEW t, Sound(t)
  PROVE  Sound(clear(t))
<1>1. clear(t) = [fields |-> t.fields, data |-> << >>, keyMap |-> [k \in {} |-> 0]]
  BY BothReplaced DEF clear
<1>2. IndexInRange([fields |-> t.fields, data |-> << >>, keyMap |-> [k \in {} |-> 0]])
  BY DEF IndexInRange
<1>3. << >> \in Seq({})
  OBVIOUS
<1> QED BY <1>1, <1>2, <1>3, SoundTable

LEMMA EraseManySound ==
  ASSUME NEW t, Sound(t), NEW keys
  PROVE  Sound(eraseMany(t, keys))
<1>1. PICK S : t.data \in Seq(S)
  BY DEF Sound
<1> DEFINE kept == Kept(t, keys)
           size == Cardinality(kept)
           data == [n \in 1..size |-> t.data[RowAt(kept, n)]]
           all == {data[n].key : n \in DOMAIN data}
           at(k) == {n \in DOMAIN data : data[n].key = k}
           first(k) == CHOOSE n \in DOMAIN data :
                         /\ data[n].key = k
                         /\ \A m \in 1..(n - 1) : data[m].key # k
           keyMap == [k \in all |-> first(k)]
<1>2. eraseMany(t, keys) = [fields |-> t.fields, data |-> data, keyMap |-> keyMap]
  BY BothReplaced DEF eraseMany
<1>3. size \in Nat
  <2>1. IsFiniteSet(1..Len(t.data)) /\ kept \subseteq 1..Len(t.data)
    <3>1. DOMAIN t.data = 1..Len(t.data) /\ Len(t.data) \in Nat
      BY <1>1, LenProperties
    <3> QED BY <3>1, FS_Interval DEF Kept
  <2> QED BY <2>1, FS_Subset, FS_CardinalityType
<1>4. data \in Seq({data[n] : n \in 1..size}) /\ DOMAIN data = 1..size
  BY <1>3
<1> HIDE DEF data, size
<1>5. ASSUME NEW k \in all
      PROVE  first(k) \in DOMAIN data /\ data[first(k)].key = k
  <2>1. at(k) \in SUBSET Nat /\ at(k) # {}
    BY <1>3, <1>4
  <2>2. PICK n \in at(k) : \A m \in at(k) : n <= m
    BY <2>1, LeastNat
  <2>3. \A m \in 1..(n - 1) : m \in DOMAIN data /\ ~(n <= m)
    BY <1>3, <1>4
  <2>4. \A m \in 1..(n - 1) : data[m].key # k
    BY <2>2, <2>3
  <2> QED BY <2>4
<1> HIDE DEF first
<1>6. IndexInRange([fields |-> t.fields, data |-> data, keyMap |-> keyMap])
  BY <1>5 DEF IndexInRange
<1> QED BY <1>2, <1>4, <1>6, SoundTable

LEMMA LoadedSound ==
  ASSUME NEW file, file.kind = "table", NEW S, file.data \in Seq(S),
         ~Unloadable(file)
  PROVE  Sound(Loaded(file))
<1> DEFINE data == file.data
           first(k) == CHOOSE i \in DOMAIN data : data[i].key = k
           keyMap == [k \in {data[i].key : i \in DOMAIN data} |-> first(k)]
<1>1. {i \in DOMAIN file.data : ~Readable(file.data[i], file.fields)} = {}
  BY DEF Unloadable
<1>2. Loaded(file) = [fields |-> file.fields, data |-> data, keyMap |-> keyMap]
  BY <1>1 DEF Loaded
<1>3. \A k \in DOMAIN keyMap : first(k) \in DOMAIN data /\ data[first(k)].key = k
  OBVIOUS
<1> HIDE DEF first
<1>4. IndexInRange([fields |-> file.fields, data |-> data, keyMap |-> keyMap])
  BY <1>3 DEF IndexInRange
<1> QED BY <1>2, <1>4, SoundTable

LEMMA RemoveAtSeq ==
  ASSUME NEW S, NEW s \in Seq(S), NEW i \in DOMAIN s
  PROVE  RemoveAt(s, i) \in Seq(S)
BY DEF RemoveAt
-----------------------------------------------------------------------------
\* The invariant.  Every table is sound; every file holds a sequence of rows and
\* a name; the parser knows the files of the DUMPs that wait or run; the table of
\* a query that scans or inserts is sound, and the one of a DUMP has a name.
Names == TableNames \cup {NoName}
TablesSound ==
  /\ DOMAIN tables = TableNames
  /\ \A n \in TableNames : tables[n] # Missing => Sound(tables[n])
FilesSound ==
  /\ DOMAIN files = Files
  /\ \A f \in Files : files[f].name \in Names /\ \E S : files[f].data \in Seq(S)
CacheSound ==
  /\ DOMAIN cache = Files
  /\ \A f \in Files : cache[f] \in Names \cup {Missing}
Known(q) ==
  /\ q.file \in Files
  /\ q.kind \notin {"LOAD", "LIST", "NOP"} => q.table \in TableNames
  /\ q.kind = "DUMP" => cache[q.file] # Missing
PendingKnown == \E S : pending \in Seq(S) /\ \A q \in S : Known(q)
RunShape ==
  run = [q |-> run.q, before |-> run.before, row |-> run.row, hits |-> run.hits,
         sums |-> run.sums, copies |-> run.copies]
RunSound ==
  /\ RunShape
  /\ phase \in {"scan", "insert"} /\ run.q.table \in TableNames => Sound(Target)
  /\ phase = "dump" => run.q.kind = "DUMP" /\ Known(run.q)
DbInv ==
  /\ session \in Sessions
  /\ TablesSound /\ FilesSound /\ CacheSound /\ PendingKnown /\ RunSound

LEMMA DbInvInit == Init => DbInv
<1> SUFFICES ASSUME Init PROVE DbInv
  OBVIOUS
<1>1. session \in Sessions /\ tables = session.tables /\ files = session.files
  BY DEF Init
<1>2. TablesSound
  <2>1. DOMAIN tables = TableNames
    BY <1>1, SessionsAssumption
  <2>2. ASSUME NEW n \in TableNames, tables[n] # Missing PROVE Sound(tables[n])
    <3>1. /\ tables[n] = [fields |-> tables[n].fields, data |-> tables[n].data,
                          keyMap |-> tables[n].keyMap]
          /\ tables[n].data \in Seq(RowType) /\ IndexInRange(tables[n])
      BY <1>1, <2>2, SessionsAssumption
    <3> QED BY <3>1 DEF Sound
  <2> QED BY <2>1, <2>2 DEF TablesSound
<1>3. FilesSound
  BY <1>1, SessionsAssumption DEF FilesSound, Names
<1>4. CacheSound
  BY DEF Init, CacheSound
<1>5. PendingKnown
  <2>1. pending \in Seq({})
    BY DEF Init
  <2> QED BY <2>1 DEF PendingKnown
<1>6. RunSound
  <2>1. RunShape
    BY DEF Init, NoRun, RunShape
  <2>2. phase = "idle"
    BY DEF Init
  <2> QED BY <2>1, <2>2 DEF RunSound
<1> QED BY <1>1, <1>2, <1>3, <1>4, <1>5, <1>6 DEF DbInv

\* What waits goes on waiting with its file known.
LEMMA PendingShrinks ==
  ASSUME PendingKnown, NEW i \in DOMAIN pending, pending' = RemoveAt(pending, i),
         cache' = cache
  PROVE  PendingKnown'
<1>1. PICK S : pending \in Seq(S) /\ \A q \in S : Known(q)
  BY DEF PendingKnown
<1>2. pending' \in Seq(S)
  BY <1>1, RemoveAtSeq
<1>3. \A q \in S : Known(q)'
  BY <1>1 DEF Known
<1> QED BY <1>2, <1>3 DEF PendingKnown

LEMMA PendingStays ==
  ASSUME PendingKnown, UNCHANGED <<pending, cache>>
  PROVE  PendingKnown'
BY DEF PendingKnown, Known

LEMMA FirstKnown ==
  ASSUME PendingKnown, NEW i \in DOMAIN pending
  PROVE  Known(pending[i])
<1>1. PICK S : pending \in Seq(S) /\ \A q \in S : Known(q)
  BY DEF PendingKnown
<1> QED BY <1>1

\* A query that starts and is done at once, with sound tables.
LEMMA DoneInv ==
  ASSUME DbInv, NEW i, Ready(i), NEW result, Done(i, result), UNCHANGED files,
         TablesSound'
  PROVE  DbInv'
<1>1. PendingKnown'
  BY PendingShrinks DEF DbInv, Ready, Done
<1>2. RunSound'
  BY DEF DbInv, RunSound, RunShape, Ready, Done
<1>3. FilesSound' /\ CacheSound' /\ session' \in Sessions
  BY DEF DbInv, FilesSound, CacheSound, Done
<1> QED BY <1>1, <1>2, <1>3 DEF DbInv

LEMMA FinishInv ==
  ASSUME DbInv, NEW result, Finish(result), TablesSound', FilesSound'
  PROVE  DbInv'
<1>1. PendingKnown' /\ CacheSound' /\ session' \in Sessions
  BY PendingStays DEF DbInv, CacheSound, Finish
<1>2. RunSound'
  <2>1. run' = NoRun /\ phase' = "idle"
    BY DEF Finish
  <2>2. RunShape'
    BY <2>1 DEF RunShape, NoRun
  <2> QED BY <2>1, <2>2 DEF RunSound
<1> QED BY <1>1, <1>2 DEF DbInv

LEMMA NextRowInv ==
  ASSUME DbInv, phase = "scan", NEW hits, NEW sums, NEW copies,
         NextRow(hits, sums, copies), TablesSound',
         run.q.table \in TableNames => Sound(tables'[run.q.table])
  PROVE  DbInv'
<1>1. /\ UNCHANGED <<session, files, cache, parsed, pending, phase, answer>>
      /\ run' = [run EXCEPT !.row = run.row + 1, !.hits = hits, !.sums = sums,
                            !.copies = copies]
  BY DEF NextRow
<1>2. PendingKnown' /\ FilesSound' /\ CacheSound' /\ session' \in Sessions
  BY <1>1, PendingStays DEF DbInv, CacheSound, FilesSound
<1>3. run' = [q |-> run.q, before |-> run.before, row |-> run.row + 1, hits |-> hits,
              sums |-> sums, copies |-> copies]
  BY <1>1 DEF DbInv, RunSound, RunShape
<1>4. RunShape' /\ run'.q = run.q
  BY <1>3 DEF RunShape
<1>5. RunSound'
  BY <1>1, <1>4 DEF RunSound, Target
<1> QED BY <1>2, <1>5 DEF DbInv

\* One table is replaced by a sound one.
LEMMA ReplacedSound ==
  ASSUME TablesSound, NEW n, NEW t, tables' = [tables EXCEPT ![n] = t],
         n \in TableNames /\ t # Missing => Sound(t)
  PROVE  TablesSound'
BY DEF TablesSound

LEMMA ParseStep ==
  ASSUME DbInv, NEW q \in session.input, parseQuery(q)
  PROVE  DbInv'
<1>1. /\ q \in Query /\ q.file \in Files /\ q.table \in Names
      /\ q.kind \notin {"LOAD", "LIST", "NOP"} => q.table \in TableNames
  BY SessionsAssumption DEF DbInv, Query, Names
<1>2. UNCHANGED <<session, tables, files, phase, run, answer>>
  BY DEF parseQuery
<1>3. KnownName(q.file) \in Names
  BY <1>1 DEF DbInv, CacheSound, FilesSound, KnownName
<1>4. \/ q.kind = "DUMP" /\ cache' = updateFileTableName(q.file, q.table)
      \/ q.kind # "DUMP" /\ cache' = getFileTableName(q.file)
      \/ q.kind # "DUMP" /\ cache' = cache
  BY Zenon DEF parseQuery
<1>5. CacheSound'
  BY <1>1, <1>3, <1>4 DEF DbInv, CacheSound, updateFileTableName, getFileTableName
<1>6. Missing \notin Names
  BY NamesAssumption DEF Names
<1>7. /\ \A f \in Files : cache[f] # Missing => cache'[f] # Missing
      /\ q.kind = "DUMP" => cache'[q.file] # Missing
  BY <1>1, <1>3, <1>4, <1>6
  DEF DbInv, CacheSound, updateFileTableName, getFileTableName, Names
<1>8. PendingKnown'
  <2>1. PICK next : next = IF q.kind = "LOAD"
                           THEN [q EXCEPT !.table = KnownName(q.file)] ELSE q
    OBVIOUS
  <2>2. pending' = Append(pending, next)
    BY <2>1 DEF parseQuery
  <2>3. Known(next)'
    BY <1>1, <1>7, <2>1 DEF Known, Query
  <2>4. PICK S : pending \in Seq(S) /\ \A p \in S : Known(p)
    BY DEF DbInv, PendingKnown
  <2>5. pending' \in Seq(S \cup {next})
    BY <2>2, <2>4
  <2>6. ASSUME NEW p \in S PROVE Known(p)'
    BY <1>7, <2>4 DEF Known
  <2> QED BY <2>3, <2>5, <2>6 DEF PendingKnown
<1>9. RunSound'
  BY <1>2, <1>7 DEF DbInv, RunSound, RunShape, Target, Known
<1>10. TablesSound' /\ FilesSound' /\ session' \in Sessions
  BY <1>2 DEF DbInv, TablesSound, FilesSound
<1> QED BY <1>5, <1>8, <1>9, <1>10 DEF DbInv

\* The queries without a scan.
LEMMA StartStep ==
  ASSUME DbInv, NEW i \in DOMAIN pending, StartQuery(i)
  PROVE  DbInv'
<1> DEFINE q == pending[i]
           t == tables[q.table]
<1>a. TablesSound /\ (q.table \in TableNames /\ t # Missing => Sound(t))
  BY DEF DbInv, TablesSound
<1>b. UNCHANGED tables => TablesSound'
  BY <1>a DEF TablesSound
<1>1. CASE InsertQuery(i)
  <2>1. CASE UNCHANGED tables
    BY <1>1, <2>1, <1>b, DoneInv DEF InsertQuery
  <2>2. ASSUME NEW vals, t # Missing,
               tables' = [tables EXCEPT ![q.table] =
                                          insertByIndex(t, Head(q.keys), vals)]
        PROVE  DbInv'
    <3>1. q.table \in TableNames => Sound(insertByIndex(t, Head(q.keys), vals))
      BY <1>a, <2>2, InsertSound
    <3>2. TablesSound'
      BY <1>a, <2>2, <3>1, ReplacedSound
    <3> QED BY <1>1, <3>2, DoneInv DEF InsertQuery
  <2> QED BY <1>1, <2>1, <2>2 DEF InsertQuery
<1>2. CASE TruncateQuery(i)
  <2>1. CASE UNCHANGED tables
    BY <1>2, <2>1, <1>b, DoneInv DEF TruncateQuery
  <2>2. CASE t # Missing /\ tables' = [tables EXCEPT ![q.table] = clear(t)]
    <3>1. TablesSound'
      BY <1>a, <2>2, ClearSound, ReplacedSound
    <3> QED BY <1>2, <3>1, DoneInv DEF TruncateQuery
  <2> QED BY <1>2, <2>1, <2>2 DEF TruncateQuery
<1>3. CASE DropTableQuery(i)
  <2>1. CASE UNCHANGED tables
    BY <1>3, <2>1, <1>b, DoneInv DEF DropTableQuery
  <2>2. CASE tables' = [tables EXCEPT ![q.table] = Missing]
    <3>1. TablesSound'
      BY <1>a, <2>2, ReplacedSound
    <3> QED BY <1>3, <3>1, DoneInv DEF DropTableQuery
  <2> QED BY <1>3, <2>1, <2>2 DEF DropTableQuery
<1>4. CASE CopyTableQuery(i)
  <2>1. CASE UNCHANGED tables
    BY <1>4, <2>1, <1>b, DoneInv DEF CopyTableQuery
  <2>2. CASE t # Missing /\ tables' = [tables EXCEPT ![q.to] = t]
    <3>1. q.table \in TableNames
      BY <1>4, FirstKnown DEF DbInv, Known, CopyTableQuery
    <3>2. TablesSound'
      BY <1>a, <2>2, <3>1, ReplacedSound
    <3> QED BY <1>4, <3>2, DoneInv DEF CopyTableQuery
  <2> QED BY <1>4, <2>1, <2>2 DEF CopyTableQuery
<1>5. CASE PrintQuery(i)
  BY <1>5, <1>b, DoneInv DEF PrintQuery
<1>6. CASE DumpTableQuery(i)
  <2>1. /\ pending' = RemoveAt(pending, i) /\ q.kind = "DUMP" /\ phase' = "dump"
        /\ run' = [NoRun EXCEPT !.q = q] /\ UNCHANGED <<session, tables, cache>>
        /\ files' = [files EXCEPT ![q.file] = Empty]
    BY <1>6 DEF DumpTableQuery
  <2>2. PendingKnown'
    BY <2>1, PendingShrinks DEF DbInv
  <2>3. PICK p : p = q
    OBVIOUS
  <2>4. RunShape' /\ run'.q = p
    BY <2>1, <2>3 DEF RunShape, NoRun
  <2>5. RunSound'
    <3>1. Known(p)
      BY <2>3, FirstKnown DEF DbInv
    <3>2. Known(p)'
      BY <2>1, <3>1 DEF Known
    <3> QED BY <2>1, <2>3, <2>4, <3>2 DEF RunSound
  <2>6. Empty.name = NoName /\ Empty.data = << >>
    BY DEF Empty, Absent
  <2>7. FilesSound'
    <3>1. << >> \in Seq({})
      OBVIOUS
    <3>2. NoName \in Names
      BY DEF Names
    <3> HIDE DEF q
    <3> QED BY <2>1, <2>6, <3>1, <3>2 DEF DbInv, FilesSound
  <2>8. CacheSound' /\ session' \in Sessions
    BY <2>1 DEF DbInv, CacheSound
  <2> QED BY <2>1, <2>2, <2>5, <2>7, <2>8, <1>b DEF DbInv
<1>7. CASE LoadTableQuery(i)
  <2> DEFINE file == files[q.file]
  <2>1. CASE UNCHANGED tables
    BY <1>7, <2>1, <1>b, DoneInv DEF LoadTableQuery
  <2>2. CASE /\ ~Unloadable(file)
             /\ tables' = [tables EXCEPT ![file.name] = Loaded(file)]
    <3>1. q.file \in Files
      BY FirstKnown DEF DbInv, Known
    <3>2. PICK S : file.data \in Seq(S)
      BY <3>1 DEF DbInv, FilesSound
    <3>3. file.kind = "table"
      BY <2>2 DEF Unloadable
    <3> HIDE DEF file
    <3>4. Sound(Loaded(file))
      BY <2>2, <3>2, <3>3, LoadedSound
    <3>5. TablesSound'
      BY <1>a, <2>2, <3>4, ReplacedSound
    <3> QED BY <1>7, <3>5, DoneInv DEF LoadTableQuery
  <2> QED BY <1>7, <2>1, <2>2 DEF LoadTableQuery
<1>8. CASE BeginScan(i)
  <2>2. CASE /\ ~Refused(q, t) /\ pending' = RemoveAt(pending, i) /\ phase' = "scan"
             /\ run' = [NoRun EXCEPT !.q = q, !.before = t, !.row = 1,
                                     !.sums = StartOf(q)]
             /\ UNCHANGED <<session, cache, parsed, answer>>
    <3>1. UNCHANGED <<tables, files>>
      BY <1>8 DEF BeginScan
    <3>2. t # Missing
      BY <2>2 DEF Refused
    <3>3. RunShape' /\ run'.q = q
      BY <2>2 DEF RunShape, NoRun
    <3>4. RunSound'
      BY <1>a, <2>2, <3>1, <3>2, <3>3 DEF RunSound, Target
    <3>5. PendingKnown'
      BY <2>2, PendingShrinks DEF DbInv
    <3>6. FilesSound' /\ CacheSound' /\ session' \in Sessions
      BY <2>2, <3>1 DEF DbInv, FilesSound, CacheSound
    <3> QED BY <1>b, <3>1, <3>4, <3>5, <3>6 DEF DbInv
  <2>3. \/ \E result : Done(i, result)
        \/ /\ ~Refused(q, t) /\ pending' = RemoveAt(pending, i) /\ phase' = "scan"
           /\ run' = [NoRun EXCEPT !.q = q, !.before = t, !.row = 1,
                                   !.sums = StartOf(q)]
           /\ UNCHANGED <<session, cache, parsed, answer>>
    BY <1>8 DEF BeginScan
  <2>4. CASE \E result : Done(i, result)
    BY <1>8, <2>4, <1>b, DoneInv DEF BeginScan
  <2> QED BY <2>2, <2>3, <2>4
<1> QED BY <1>1, <1>2, <1>3, <1>4, <1>5, <1>6, <1>7, <1>8 DEF StartQuery

\* UPDATE, SWAP and SUB store values.
LEMMA RewrittenSound ==
  ASSUME Sound(Target), run.q.kind \in Mutators
  PROVE  Sound(Rewritten)
<1>1. run.q.kind \in {"UPDATE", "SWAP", "SUB"}
  BY DEF Mutators
<1> DEFINE fs == run.q.fields
           rest == FoldLeft(LAMBDA acc, f : Wrap(acc - Cell(f)), Cell(fs[1]),
                            SubSeq(fs, 2, Len(fs) - 1))
<1>2. \/ Rewritten = Store(Target, fs[1], Wrap(run.q.vals[1]))
      \/ Rewritten = Store(Store(Target, fs[1], Cell(fs[2])), fs[2], Cell(fs[1]))
      \/ Rewritten = Store(Target, Last(fs), rest)
  BY <1>1, Zenon DEF Rewritten
<1>3. \A t, f, v : Sound(t) => Sound(Store(t, f, v))
  BY SetValueSound DEF Store
<1> QED BY <1>2, <1>3

LEMMA ScanStep ==
  ASSUME DbInv, ScanRow
  PROVE  DbInv'
<1>a. /\ TablesSound /\ FilesSound
      /\ phase = "scan" /\ run.q.table \in TableNames => Sound(Target)
  BY DEF DbInv, RunSound
<1>b. UNCHANGED tables => TablesSound'
  BY <1>a DEF TablesSound
<1>c. phase = "scan"
  BY DEF ScanRow, SkipRow, FailRow, SelectRow, AggregateRow, RewriteRow, RekeyRow,
         CollectRow, InRow
<1>1. CASE \E hits, sums, copies : NextRow(hits, sums, copies) /\ UNCHANGED tables
  BY <1>1, <1>a, <1>b, <1>c, NextRowInv DEF Target
<1>2. ASSUME NEW t, tables' = [tables EXCEPT ![run.q.table] = t], Hit,
             run.q.table \in TableNames => Sound(t)
      PROVE  DbInv'
  <2>1. TablesSound'
    BY <1>2, <1>a, ReplacedSound
  <2>2. run.q.table \in TableNames => Sound(tables'[run.q.table])
    BY <1>2, <1>a DEF TablesSound
  <2> QED BY <1>2, <1>c, <2>1, <2>2, NextRowInv DEF Hit
<1>3. CASE FailRow
  <2>1. FilesSound' /\ UNCHANGED tables
    BY <1>3, <1>a DEF FailRow, FilesSound
  <2> QED BY <1>3, <1>b, <2>1, FinishInv DEF FailRow
<1>4. CASE RewriteRow
  <2>1. run.q.table \in TableNames => Sound(Rewritten)
    BY <1>4, <1>a, <1>c, RewrittenSound DEF RewriteRow
  <2> QED BY <1>4, <1>2, <2>1 DEF RewriteRow
<1>5. CASE RekeyRow
  <2>1. CASE SetKeyCrashes(Target, run.row)
    <3>1. phase' = "crashed"
          /\ UNCHANGED <<session, tables, files, cache, parsed, pending, run, answer>>
      BY <1>5, <2>1 DEF RekeyRow
    <3>2. RunSound'
      BY <3>1 DEF DbInv, RunSound, RunShape
    <3>3. PendingKnown' /\ FilesSound' /\ CacheSound' /\ session' \in Sessions
      BY <3>1, PendingStays DEF DbInv, FilesSound, CacheSound
    <3> QED BY <1>b, <3>1, <3>2, <3>3 DEF DbInv
  <2>2. CASE ~SetKeyCrashes(Target, run.row)
    <3>1. run.q.table \in TableNames =>
            Sound(setKey(Target, run.row, Head(run.q.keys)))
      BY <1>a, <1>c, <2>2, SetKeySound
    <3> QED BY <1>5, <1>2, <2>2, <3>1 DEF RekeyRow
  <2> QED BY <2>1, <2>2
<1>6. CASE SkipRow \/ SelectRow \/ AggregateRow \/ CollectRow
  <2>1. \E hits, sums, copies : NextRow(hits, sums, copies) /\ UNCHANGED tables
    BY <1>6 DEF SkipRow, SelectRow, AggregateRow, CollectRow, Hit
  <2> QED BY <1>1, <2>1
<1> QED BY <1>3, <1>4, <1>5, <1>6 DEF ScanRow

LEMMA EndStep ==
  ASSUME DbInv, EndScan \/ InsertCopy \/ EndDuplicate \/ DumpWrite
  PROVE  DbInv'
<1>a. /\ TablesSound /\ FilesSound /\ RunShape
      /\ phase \in {"scan", "insert"} /\ run.q.table \in TableNames => Sound(Target)
  BY DEF DbInv, RunSound
<1>b. UNCHANGED tables => TablesSound'
  BY <1>a DEF TablesSound
<1>c. UNCHANGED files => FilesSound'
  BY <1>a DEF FilesSound
<1>1. CASE EndScan
  <2>1. CASE UNCHANGED tables /\ \E result : Finish(result)
    BY <1>1, <1>b, <1>c, <2>1, FinishInv DEF EndScan
  <2>2. ASSUME NEW keys, tables' = [tables EXCEPT ![run.q.table] =
                                                    eraseMany(Target, keys)],
               NEW result, Finish(result)
        PROVE  DbInv'
    <3>1. run.q.table \in TableNames => Sound(eraseMany(Target, keys))
      BY <1>1, <1>a, EraseManySound DEF EndScan
    <3>2. TablesSound'
      BY <1>a, <2>2, <3>1, ReplacedSound
    <3> QED BY <1>1, <1>c, <2>2, <3>2, FinishInv DEF EndScan
  <2>3. CASE /\ phase' = "insert"
             /\ UNCHANGED <<session, tables, cache, parsed, pending, run, answer>>
    <3>1. phase = "scan" /\ UNCHANGED files
      BY <1>1 DEF EndScan
    <3>2. RunSound'
      BY <1>a, <2>3, <3>1 DEF RunSound, RunShape, Target
    <3>3. PendingKnown' /\ CacheSound' /\ session' \in Sessions
      BY <2>3, PendingStays DEF DbInv, CacheSound
    <3> QED BY <1>b, <1>c, <2>3, <3>1, <3>2, <3>3 DEF DbInv
  <2> QED BY <1>1, <2>1, <2>2, <2>3 DEF EndScan
<1>2. CASE InsertCopy
  <2>1. PICK key, vals :
          tables' = [tables EXCEPT ![run.q.table] = insertByIndex(Target, key, vals)]
    BY <1>2 DEF InsertCopy
  <2>2. /\ phase = "insert" /\ run' = [run EXCEPT !.copies = Tail(run.copies)]
        /\ UNCHANGED <<session, files, cache, parsed, pending, phase, answer>>
    BY <1>2 DEF InsertCopy
  <2>3. run.q.table \in TableNames => Sound(insertByIndex(Target, key, vals))
    BY <1>a, <2>2, InsertSound
  <2>4. TablesSound'
    BY <1>a, <2>1, <2>3, ReplacedSound
  <2>5. RunShape' /\ run'.q = run.q
    BY <1>a, <2>2 DEF RunShape
  <2>6. run.q.table \in TableNames => Sound(tables'[run.q.table])
    BY <1>a, <2>1, <2>3 DEF TablesSound
  <2>7. RunSound'
    BY <2>2, <2>5, <2>6 DEF RunSound, Target
  <2>8. PendingKnown' /\ CacheSound' /\ session' \in Sessions
    BY <2>2, PendingStays DEF DbInv, CacheSound
  <2> QED BY <1>c, <2>2, <2>4, <2>7, <2>8 DEF DbInv
<1>3. CASE EndDuplicate
  BY <1>3, <1>b, <1>c, FinishInv DEF EndDuplicate
<1>4. CASE DumpWrite
  <2> DEFINE t == tables[run.q.table]
  <2>1. run.q.table \in TableNames /\ run.q.file \in Files
    BY <1>4 DEF DumpWrite, DbInv, RunSound, Known
  <2>2. CASE UNCHANGED files
    BY <1>4, <1>b, <1>c, <2>2, FinishInv DEF DumpWrite
  <2>3. ASSUME t # Missing, NEW behind,
               files' = [files EXCEPT ![run.q.file] =
                           [kind |-> "table", name |-> run.q.table,
                            fields |-> t.fields, data |-> Printed(t, behind),
                            of |-> t]]
        PROVE  DbInv'
    <3>1. PICK S : t.data \in Seq(S)
      BY <1>a, <2>1, <2>3 DEF TablesSound, Sound
    <3>2. PICK R : Printed(t, behind) \in Seq(R)
      <4> DEFINE print(i) == Row(t.data[i].key,
                                 [n \in DOMAIN t.fields |->
                                    IF HasCell(t.data[i], n) THEN t.data[i].vals[n]
                                    ELSE behind[i]])
      <4>1. DOMAIN t.data = 1..Len(t.data) /\ Len(t.data) \in Nat
        BY <3>1, LenProperties
      <4>2. Printed(t, behind) = [i \in 1..Len(t.data) |-> print(i)]
        BY <4>1 DEF Printed
      <4> HIDE DEF print
      <4>3. Printed(t, behind) \in Seq({print(i) : i \in 1..Len(t.data)})
        BY <4>1, <4>2
      <4> QED BY <4>3
    <3>3. run.q.table \in Names
      BY <2>1 DEF Names
    <3> DEFINE new == [kind |-> "table", name |-> run.q.table, fields |-> t.fields,
                       data |-> Printed(t, behind), of |-> t]
    <3>4. new.name \in Names /\ new.data \in Seq(R)
      BY <3>2, <3>3
    <3>5. files' = [files EXCEPT ![run.q.file] = new]
      BY <2>3
    <3> HIDE DEF new
    <3>6. FilesSound'
      BY <1>a, <3>4, <3>5 DEF FilesSound
    <3> QED BY <1>4, <1>b, <3>6, FinishInv DEF DumpWrite
  <2> QED BY <1>4, <2>2, <2>3 DEF DumpWrite
<1> QED BY <1>1, <1>2, <1>3, <1>4

LEMMA DbInvStep == DbInv /\ [Next]_vars => DbInv'
<1> SUFFICES ASSUME DbInv, [Next]_vars PROVE DbInv'
  OBVIOUS
<1>1. CASE \E q \in session.input : parseQuery(q)
  BY <1>1, ParseStep
<1>2. CASE \E i \in DOMAIN pending : StartQuery(i)
  BY <1>2, StartStep
<1>3. CASE ScanRow
  BY <1>3, ScanStep
<1>4. CASE EndScan \/ InsertCopy \/ EndDuplicate \/ DumpWrite
  BY <1>4, EndStep
<1>5. CASE UNCHANGED vars
  <2>1. UNCHANGED <<session, tables, files, cache, pending, phase, run>>
    BY <1>5 DEF vars
  <2>2. PendingKnown'
    BY <2>1, PendingStays DEF DbInv
  <2>3. RunSound'
    BY <2>1 DEF DbInv, RunSound, RunShape, Target, Known
  <2> QED BY <2>1, <2>2, <2>3 DEF DbInv, TablesSound, FilesSound, CacheSound
<1> QED BY <1>1, <1>2, <1>3, <1>4, <1>5 DEF Next

LEMMA DbInvariant == Spec => []DbInv
BY DbInvInit, DbInvStep, PTL DEF Spec
-----------------------------------------------------------------------------
\* Every entry of an index is the position of a row, whatever queries did to keys
\* (Table.h:146-161, Table.cpp:67-101).
THEOREM IndexesStayWithinData == Spec => []IndexWithinData
<1>1. DbInv => IndexWithinData
  BY DEF DbInv, TablesSound, Sound, IndexWithinData
<1> QED BY DbInvariant, <1>1, PTL

\* The parser never opens a file that a DUMP is about to write or writes
\* (Database.cpp:121-142).
THEOREM ParserKeepsOffDumpedFiles == Spec => []ParserNeverReadsAFileBeingWritten
<1>1. DbInv => ParserNeverReadsAFileBeingWritten
  <2> SUFFICES ASSUME DbInv, NEW f \in Files,
                      \/ phase = "dump" /\ run.q.file = f
                      \/ \E i \in DOMAIN pending :
                           pending[i].kind = "DUMP" /\ pending[i].file = f
               PROVE  cache[f] # Missing
    BY DEF ParserNeverReadsAFileBeingWritten
  <2>1. CASE phase = "dump" /\ run.q.file = f
    BY <2>1 DEF DbInv, RunSound, Known
  <2>2. ASSUME NEW i \in DOMAIN pending,
               pending[i].kind = "DUMP", pending[i].file = f
        PROVE  cache[f] # Missing
    <3>1. Known(pending[i])
      BY FirstKnown DEF DbInv
    <3> QED BY <2>2, <3>1 DEF Known
  <2> QED BY <2>1, <2>2
<1> QED BY DbInvariant, <1>1, PTL
-----------------------------------------------------------------------------
LEMMA HalfPositive == Half \in Nat \ {0}
BY WidthAssumption, PowerPositive DEF Half

LEMMA WrapType == ASSUME NEW n \in Int PROVE Wrap(n) \in ValueType
<1>1. Half \in Nat \ {0}
  BY HalfPositive
<1> HIDE DEF Half
<1>2. (n + Half) % (2 * Half) \in 0..(2 * Half - 1)
  BY <1>1
<1> QED BY <1>1, <1>2 DEF Wrap, ValueType

LEMMA ValuesAreIntegers == ValueType \subseteq Int /\ 0 \in ValueType /\ -Half \in ValueType
BY HalfPositive DEF ValueType
-----------------------------------------------------------------------------
\* Types.  A table as the code's types allow.
Typed(t) ==
  /\ t.fields \in Seq(FieldNames)
  /\ t.data \in Seq(RowType)
  /\ DOMAIN t.keyMap \subseteq KeyType

LEMMA FieldIndex ==
  ASSUME NEW t, t.fields \in Seq(FieldNames), NEW f, HasField(t, f)
  PROVE  /\ getFieldIndex(t, f) \in DOMAIN t.fields
         /\ getFieldIndex(t, f) \in 1..Len(t.fields)
         /\ t.fields[getFieldIndex(t, f)] = f
<1> DEFINE at == {i \in DOMAIN t.fields : t.fields[i] = f}
<1>1. DOMAIN t.fields = 1..Len(t.fields) /\ Len(t.fields) \in Nat
  BY LenProperties
<1>2. at \in SUBSET Nat /\ at # {}
  BY <1>1 DEF HasField
<1>3. PICK i \in at : \A j \in at : i <= j
  BY <1>2, LeastNat
<1>4. \A j \in 1..(i - 1) : j \in DOMAIN t.fields /\ ~(i <= j)
  BY <1>1, <1>3
<1>5. \E k \in DOMAIN t.fields :
        t.fields[k] = f /\ \A j \in 1..(k - 1) : t.fields[j] # f
  BY <1>3, <1>4
<1> QED BY <1>1, <1>5 DEF getFieldIndex

LEMMA FieldIndexOfSameFields ==
  ASSUME NEW t, NEW u, t.fields = u.fields, NEW f
  PROVE  getFieldIndex(t, f) = getFieldIndex(u, f)
BY DEF getFieldIndex

\* The parts of a table that an operation leaves alone.
LEMMA InsertParts ==
  ASSUME NEW t, Sound(t), NEW key, NEW vals,
         NEW u, u = insertByIndex(t, key, vals)
  PROVE  /\ u.fields = t.fields
         /\ u.data = Append(t.data, Row(key, vals))
         /\ DOMAIN u.keyMap = DOMAIN t.keyMap \cup {key}
         /\ u.keyMap[key] = Len(t.data) + 1
         /\ \A k \in DOMAIN t.keyMap \ {key} : u.keyMap[k] = t.keyMap[k]
<1> DEFINE m == [k \in DOMAIN t.keyMap \cup {key} |->
                   IF k = key THEN Len(t.data) + 1 ELSE t.keyMap[k]]
<1>1. u = [fields |-> t.fields, data |-> Append(t.data, Row(key, vals)), keyMap |-> m]
  BY BothReplaced DEF insertByIndex
<1>2. /\ DOMAIN m = DOMAIN t.keyMap \cup {key}
      /\ m[key] = Len(t.data) + 1
      /\ \A k \in DOMAIN t.keyMap \ {key} : m[k] = t.keyMap[k]
  OBVIOUS
<1> HIDE DEF m
<1> QED BY <1>1, <1>2

LEMMA InsertTyped ==
  ASSUME NEW t, Sound(t), Typed(t), NEW key \in KeyType, NEW vals \in Seq(ValueType)
  PROVE  Typed(insertByIndex(t, key, vals))
<1>1. Row(key, vals) \in RowType
  BY DEF Row, RowType
<1>2. Append(t.data, Row(key, vals)) \in Seq(RowType)
  BY <1>1 DEF Typed
<1> DEFINE u == insertByIndex(t, key, vals)
<1>3. u.fields = t.fields /\ u.data = Append(t.data, Row(key, vals))
      /\ DOMAIN u.keyMap = DOMAIN t.keyMap \cup {key}
  BY InsertParts
<1> HIDE DEF u
<1>4. Typed(u)
  BY <1>2, <1>3 DEF Typed
<1> QED BY <1>4 DEF u

\* What setValue leaves: one row with another cell.
CellSet(t, i, f, v, u) ==
  /\ Typed(u) /\ u.fields = t.fields /\ u.keyMap = t.keyMap
  /\ Len(u.data) = Len(t.data) /\ DOMAIN u.data = DOMAIN t.data
  /\ \A j \in DOMAIN t.data \ {i} : u.data[j] = t.data[j]
  /\ u.data[i] = Row(t.data[i].key, [t.data[i].vals EXCEPT ![f] = v])

LEMMA SetValueParts ==
  ASSUME NEW t, Sound(t), Typed(t), NEW i \in DOMAIN t.data,
         NEW f \in DOMAIN t.data[i].vals, NEW v \in ValueType,
         NEW u, u = setValue(t, i, f, v)
  PROVE  CellSet(t, i, f, v, u)
<1> DEFINE row == [t.data[i] EXCEPT !.vals[f] = v]
           data == [t.data EXCEPT ![i] = row]
<1>1. u = [fields |-> t.fields, data |-> data, keyMap |-> t.keyMap]
  <2>1. u = [t EXCEPT !.data = data]
    BY DEF setValue, Sound
  <2> HIDE DEF data
  <2> QED BY <2>1 DEF Sound
<1>2. t.data[i] \in RowType
  BY DEF Typed
<1>3. row = Row(t.data[i].key, [t.data[i].vals EXCEPT ![f] = v])
  <2>1. PICK r : r = t.data[i]
    OBVIOUS
  <2>2. r = [key |-> r.key, vals |-> r.vals]
    BY <1>2, <2>1 DEF RowType
  <2>3. [r EXCEPT !.vals[f] = v] = [key |-> r.key, vals |-> [r.vals EXCEPT ![f] = v]]
    BY <2>2
  <2> QED BY <2>1, <2>3 DEF Row
<1>4. row \in RowType
  BY <1>2, <1>3 DEF Row, RowType
<1> HIDE DEF row
<1>5. /\ data \in Seq(RowType) /\ Len(data) = Len(t.data)
      /\ DOMAIN data = DOMAIN t.data /\ data[i] = row
      /\ \A j \in DOMAIN t.data \ {i} : data[j] = t.data[j]
  BY <1>4 DEF Typed
<1> HIDE DEF data
<1> QED BY <1>1, <1>3, <1>5 DEF Typed, CellSet

\* What setKey leaves: one row with another key, which takes the entry of the old
\* one unless it had one.
Rekeyed(t, i, key, u) ==
  LET rest == DOMAIN t.keyMap \ {t.data[i].key}
  IN  /\ Typed(u) /\ u.fields = t.fields
      /\ DOMAIN u.keyMap = rest \cup {key}
      /\ \A k \in rest : u.keyMap[k] = t.keyMap[k]
      /\ key \notin rest => u.keyMap[key] = t.keyMap[t.data[i].key]
      /\ Len(u.data) = Len(t.data) /\ DOMAIN u.data = DOMAIN t.data
      /\ \A j \in DOMAIN t.data \ {i} : u.data[j] = t.data[j]
      /\ u.data[i] = Row(key, t.data[i].vals)

LEMMA SetKeyParts ==
  ASSUME NEW t, Sound(t), Typed(t), NEW i \in DOMAIN t.data, NEW key \in KeyType,
         NEW u, u = setKey(t, i, key)
  PROVE  Rekeyed(t, i, key, u)
<1> DEFINE old == t.data[i].key
           rest == DOMAIN t.keyMap \ {old}
           row == [t.data[i] EXCEPT !.key = key]
           data == [t.data EXCEPT ![i] = row]
           keyMap == [k \in rest \cup {key} |->
                        IF k \in rest THEN t.keyMap[k] ELSE t.keyMap[old]]
<1>1. u = [fields |-> t.fields, data |-> data, keyMap |-> keyMap]
  BY BothReplaced DEF setKey
<1>2. t.data[i] \in RowType
  BY DEF Typed
<1>3. row = Row(key, t.data[i].vals)
  BY <1>2 DEF Row, RowType
<1>4. row \in RowType
  BY <1>2, <1>3 DEF Row, RowType
<1> HIDE DEF row
<1>5. /\ data \in Seq(RowType) /\ Len(data) = Len(t.data)
      /\ DOMAIN data = DOMAIN t.data /\ data[i] = row
      /\ \A j \in DOMAIN t.data \ {i} : data[j] = t.data[j]
  BY <1>4 DEF Typed
<1>6. DOMAIN keyMap \subseteq KeyType
  BY DEF Typed
<1> HIDE DEF data
<1>7. u.keyMap = keyMap /\ u.data = data /\ u.fields = t.fields
  BY <1>1
<1>8. Typed(u)
  BY <1>5, <1>6, <1>7 DEF Typed
<1>9. /\ DOMAIN keyMap = rest \cup {key}
      /\ \A k \in rest : keyMap[k] = t.keyMap[k]
      /\ key \notin rest => keyMap[key] = t.keyMap[old]
  OBVIOUS
<1> HIDE DEF keyMap
<1> QED BY <1>3, <1>5, <1>7, <1>8, <1>9 DEF Rekeyed

LEMMA ClearTyped == ASSUME NEW t, Sound(t), Typed(t) PROVE Typed(clear(t))
<1>1. clear(t) = [fields |-> t.fields, data |-> << >>, keyMap |-> [k \in {} |-> 0]]
  BY BothReplaced DEF clear
<1> QED BY <1>1 DEF Typed

\* In the order of a set of positions, each rank is the rank of one of them.
LEMMA RankOfEach ==
  ASSUME NEW N \in Nat, NEW S \in SUBSET (1..N)
  PROVE  /\ IsFiniteSet(S) /\ Cardinality(S) \in Nat
         /\ \A i \in S : Rank(S, i) \in 1..Cardinality(S)
         /\ \A i, j \in S : i < j => Rank(S, i) < Rank(S, j)
<1>0. IsFiniteSet(S) /\ \A i \in S : i \in Nat
  <2>1. IsFiniteSet(1..N)
    BY FS_Interval
  <2>2. IsFiniteSet(S)
    BY <2>1, FS_Subset
  <2>3. \A i \in S : i \in Nat
    OBVIOUS
  <2> QED BY <2>2, <2>3
<1>1. /\ IsFiniteSet(S) /\ Cardinality(S) \in Nat
      /\ \A R \in SUBSET S : /\ IsFiniteSet(R) /\ Cardinality(R) \in Nat
                              /\ Cardinality(R) <= Cardinality(S)
  BY <1>0, FS_Subset, FS_CardinalityType
<1> DEFINE upTo(i) == {j \in S : j <= i}
<1>2. \A i \in S : Rank(S, i) = Cardinality(upTo(i)) /\ upTo(i) \in SUBSET S
  BY DEF Rank
<1>3. \A i \in S : upTo(i) # {}
  OBVIOUS
<1>4. ASSUME NEW i \in S, NEW j \in S, i < j
      PROVE  upTo(i) \subseteq upTo(j) /\ upTo(i) # upTo(j)
  <2>1. upTo(i) \subseteq upTo(j)
    <3>1. \A k \in S : k <= i => k <= j
      BY <1>0, <1>4
    <3> QED BY <3>1
  <2>2. j \in upTo(j) /\ j \notin upTo(i)
    BY <1>0, <1>4
  <2> QED BY <2>1, <2>2
<1> HIDE DEF upTo
<1>5. ASSUME NEW i \in S PROVE Rank(S, i) \in 1..Cardinality(S)
  <2>1. Cardinality(upTo(i)) # 0
    BY <1>1, <1>2, <1>3, FS_EmptySet
  <2> QED BY <1>1, <1>2, <2>1
<1>6. ASSUME NEW i \in S, NEW j \in S, i < j PROVE Rank(S, i) < Rank(S, j)
  <2>1. /\ Cardinality(upTo(i)) <= Cardinality(upTo(j))
        /\ Cardinality(upTo(i)) # Cardinality(upTo(j))
    BY <1>1, <1>2, <1>4, <1>6, FS_Subset
  <2> QED BY <1>1, <1>2, <2>1
<1> QED BY <1>1, <1>5, <1>6

LEMMA RowAtEach ==
  ASSUME NEW N \in Nat, NEW S \in SUBSET (1..N), NEW n \in 1..Cardinality(S)
  PROVE  RowAt(S, n) \in S /\ Rank(S, RowAt(S, n)) = n
<1> DEFINE upTo(i) == {j \in S : j <= i}
           late == {i \in S : n <= Rank(S, i)}
<1>0. \A i \in S : i \in Nat
  OBVIOUS
<1>1. /\ IsFiniteSet(S) /\ Cardinality(S) \in Nat
      /\ \A i \in S : Rank(S, i) \in 1..Cardinality(S)
  BY RankOfEach
<1>2. late # {}
  <2>1. S # {}
    BY <1>1, FS_EmptySet
  <2>2. Max(S) \in S /\ \A j \in S : j <= Max(S)
    BY <2>1, MaxIsGreatest
  <2>3. upTo(Max(S)) = S
    BY <2>2
  <2>4. Rank(S, Max(S)) = Cardinality(S)
    BY <2>3 DEF Rank
  <2> QED BY <1>1, <2>2, <2>4
<1>3. PICK i \in late : \A j \in late : i <= j
  <2>1. late \in SUBSET Nat
    BY <1>0
  <2> HIDE DEF late
  <2> QED BY <1>2, <2>1, LeastNat
<1> DEFINE before == {j \in S : j < i}
<1>4. upTo(i) = before \cup {i} /\ i \notin before
  <2>1. i \in S
    BY <1>3
  <2>2. \A k \in S : k <= i <=> k < i \/ k = i
    BY <1>0, <2>1
  <2>3. i \in upTo(i) /\ i \notin before
    BY <1>0, <2>1
  <2>4. \A k : k \in upTo(i) <=> k \in before \/ k = i
    BY <2>1, <2>2
  <2> QED BY <2>3, <2>4
<1>5. IsFiniteSet(before) /\ Cardinality(before) \in Nat
  BY <1>1, FS_Subset, FS_CardinalityType
<1>6. Rank(S, i) = Cardinality(before) + 1
  <2>1. Rank(S, i) = Cardinality(upTo(i))
    BY DEF Rank
  <2> HIDE DEF upTo, before
  <2> QED BY <1>4, <1>5, <2>1, FS_AddElement
<1>7. Cardinality(before) < n
  <2>1. CASE before = {}
    BY <2>1, <1>5, FS_EmptySet
  <2>2. CASE before # {}
    <3>1. before \in SUBSET (1..N)
      OBVIOUS
    <3>2. PICK p \in before : \A j \in before : j <= p
      BY <2>2, <3>1, MaxIsGreatest
    <3>3. upTo(p) = before
      <4>1. p \in S /\ p < i /\ i \in S
        BY <1>3, <3>2
      <4>2. \A j \in S : j <= p => j < i
        BY <1>0, <4>1
      <4> QED BY <3>2, <4>2
    <3>4. Rank(S, p) = Cardinality(before)
      BY <3>3 DEF Rank
    <3>5. p \in S /\ p \notin late
      BY <1>3, <3>2
    <3> QED BY <1>1, <1>5, <3>4, <3>5
  <2> QED BY <2>1, <2>2
<1>8. i \in S /\ Rank(S, i) = n
  BY <1>1, <1>3, <1>5, <1>6, <1>7
<1> QED BY <1>8 DEF RowAt

\* A row that eraseMany keeps is at its rank among those that are kept.
LEMMA RowAtRank ==
  ASSUME NEW N \in Nat, NEW S \in SUBSET (1..N), NEW i \in S
  PROVE  Rank(S, i) \in 1..Cardinality(S) /\ RowAt(S, Rank(S, i)) = i
<1>1. Rank(S, i) \in 1..Cardinality(S)
  BY RankOfEach
<1>2. PICK k : k = RowAt(S, Rank(S, i))
  OBVIOUS
<1>3. k \in S /\ Rank(S, k) = Rank(S, i)
  BY <1>1, <1>2, RowAtEach
<1>4. \A a, b \in S : a < b => Rank(S, a) < Rank(S, b)
  BY RankOfEach
<1>5. \A a \in S : a \in Int /\ Rank(S, a) \in Int
  <2>1. \A a \in S : Rank(S, a) \in 1..Cardinality(S) /\ Cardinality(S) \in Nat
    BY RankOfEach
  <2> QED BY <2>1
<1>6. k = i
  BY <1>3, <1>4, <1>5
<1> QED BY <1>1, <1>2, <1>6

\* What eraseMany leaves: the rows whose key is not listed, in their order.
Erased(t, keys, u) ==
  LET kept == Kept(t, keys)
  IN  /\ Typed(u) /\ u.fields = t.fields
      /\ Cardinality(kept) \in Nat /\ DOMAIN u.data = 1..Cardinality(kept)
      /\ \A n \in DOMAIN u.data : /\ RowAt(kept, n) \in kept
                                  /\ Rank(kept, RowAt(kept, n)) = n
                                  /\ u.data[n] = t.data[RowAt(kept, n)]
      /\ \A i \in kept : \E n \in DOMAIN u.data : u.data[n] = t.data[i]
      /\ u.keyMap = [k \in {u.data[n].key : n \in DOMAIN u.data} |->
                       CHOOSE n \in DOMAIN u.data :
                         /\ u.data[n].key = k
                         /\ \A m \in 1..(n - 1) : u.data[m].key # k]

LEMMA EraseManyParts ==
  ASSUME NEW t, Sound(t), Typed(t), NEW keys, NEW u, u = eraseMany(t, keys)
  PROVE  Erased(t, keys, u)
<1> DEFINE kept == Kept(t, keys)
           size == Cardinality(kept)
           N == Len(t.data)
           data == [n \in 1..size |-> t.data[RowAt(kept, n)]]
           keyMap == [k \in {data[n].key : n \in DOMAIN data} |->
                        CHOOSE n \in DOMAIN data :
                          /\ data[n].key = k
                          /\ \A m \in 1..(n - 1) : data[m].key # k]
<1>1. u = [fields |-> t.fields, data |-> data, keyMap |-> keyMap]
  BY BothReplaced DEF eraseMany
<1>2. N \in Nat /\ DOMAIN t.data = 1..N /\ kept \in SUBSET (1..N)
  BY DEF Typed, Kept
<1> HIDE DEF kept, N
<1>3. size \in Nat
  BY <1>2, RankOfEach
<1>4. \A n \in 1..size : RowAt(kept, n) \in kept /\ Rank(kept, RowAt(kept, n)) = n
  BY <1>2, RowAtEach
<1>5. DOMAIN data = 1..size /\ \A n \in 1..size : data[n] = t.data[RowAt(kept, n)]
  OBVIOUS
<1>6. \A i \in kept : \E n \in 1..size : data[n] = t.data[i]
  BY <1>2, <1>5, RowAtRank
<1>7. data \in Seq(RowType)
  <2>0. \A i \in 1..N : t.data[i] \in RowType
    BY <1>2 DEF Typed
  <2>1. \A n \in 1..size : t.data[RowAt(kept, n)] \in RowType
    BY <1>2, <1>4, <2>0
  <2> HIDE DEF size
  <2> QED BY <1>3, <2>1
<1>8. DOMAIN keyMap \subseteq KeyType
  <2>1. \A n \in 1..size : data[n].key \in KeyType
    <3> HIDE DEF data, size
    <3>1. \A n \in 1..size : data[n] \in RowType
      BY <1>5, <1>7, LenProperties
    <3> QED BY <3>1 DEF RowType
  <2> HIDE DEF data
  <2> QED BY <1>5, <2>1
<1> HIDE DEF data
<1>9. /\ u.data = data /\ u.fields = t.fields
      /\ u.keyMap = [k \in {u.data[n].key : n \in DOMAIN u.data} |->
                       CHOOSE n \in DOMAIN u.data :
                         /\ u.data[n].key = k
                         /\ \A m \in 1..(n - 1) : u.data[m].key # k]
  BY <1>1
<1>10. u.keyMap = keyMap
  BY <1>1
<1> HIDE DEF keyMap, size
<1>11. Typed(u)
  BY <1>7, <1>8, <1>9, <1>10 DEF Typed
<1>12. DOMAIN u.data = 1..Cardinality(Kept(t, keys))
  BY <1>5, <1>9 DEF size, kept
<1> QED BY <1>3, <1>4, <1>5, <1>6, <1>9, <1>11, <1>12 DEF kept, size, Erased

\* No two rows of one key.
KeysOnce(data) == \A i, j \in DOMAIN data : data[i].key = data[j].key => i = j

LEMMA ExactKeysOnce ==
  ASSUME NEW t, IndexExact(t)
  PROVE  KeysOnce(t.data) /\ \A i \in DOMAIN t.data : Has(t, t.data[i].key)
BY DEF IndexExact, KeysOnce, Has

\* An index built from the rows is exact if no two of them have one key.
LEMMA BuiltExact ==
  ASSUME NEW t, KeysOnce(t.data),
         DOMAIN t.keyMap = {t.data[n].key : n \in DOMAIN t.data},
         \A k \in DOMAIN t.keyMap : /\ t.keyMap[k] \in DOMAIN t.data
                                    /\ t.data[t.keyMap[k]].key = k
  PROVE  IndexExact(t)
BY DEF IndexExact, KeysOnce

LEMMA EraseManyExact ==
  ASSUME NEW t, Sound(t), Typed(t), IndexExact(t), NEW keys,
         NEW u, u = eraseMany(t, keys)
  PROVE  IndexExact(u)
<1> DEFINE kept == Kept(t, keys)
<1>1. /\ DOMAIN u.data = 1..Cardinality(kept) /\ Cardinality(kept) \in Nat
      /\ \A n \in DOMAIN u.data : /\ RowAt(kept, n) \in kept
                                  /\ Rank(kept, RowAt(kept, n)) = n
                                  /\ u.data[n] = t.data[RowAt(kept, n)]
  <2>1. Erased(t, keys, u)
    BY EraseManyParts
  <2> QED BY <2>1, Zenon DEF Erased
<1>2. u.keyMap = [k \in {u.data[n].key : n \in DOMAIN u.data} |->
                    CHOOSE n \in DOMAIN u.data :
                      /\ u.data[n].key = k
                      /\ \A m \in 1..(n - 1) : u.data[m].key # k]
  BY EraseManyParts DEF Erased
<1>3. KeysOnce(t.data) /\ kept \subseteq DOMAIN t.data
  BY ExactKeysOnce DEF Kept
<1> HIDE DEF kept
<1>4. KeysOnce(u.data)
  <2> SUFFICES ASSUME NEW m \in DOMAIN u.data, NEW n \in DOMAIN u.data,
                      u.data[m].key = u.data[n].key
               PROVE  m = n
    BY DEF KeysOnce
  <2>1. RowAt(kept, m) = RowAt(kept, n)
    BY <1>1, <1>3 DEF KeysOnce
  <2> QED BY <1>1, <2>1
<1>5. ASSUME NEW k \in {u.data[n].key : n \in DOMAIN u.data}
      PROVE  u.keyMap[k] \in DOMAIN u.data /\ u.data[u.keyMap[k]].key = k
  <2>1. PICK n \in DOMAIN u.data : u.data[n].key = k
    OBVIOUS
  <2>2. \A m \in 1..(n - 1) : m \in DOMAIN u.data /\ m # n
    BY <1>1
  <2>3. \A m \in 1..(n - 1) : u.data[m].key # k
    BY <1>4, <2>1, <2>2 DEF KeysOnce
  <2> DEFINE first == CHOOSE l \in DOMAIN u.data :
                        /\ u.data[l].key = k
                        /\ \A m \in 1..(l - 1) : u.data[m].key # k
  <2>4. first \in DOMAIN u.data /\ u.data[first].key = k
    BY <2>1, <2>3
  <2>5. u.keyMap[k] = first
    BY <1>2
  <2> QED BY <2>4, <2>5
<1>6. DOMAIN u.keyMap = {u.data[n].key : n \in DOMAIN u.data}
  BY <1>2
<1> QED BY <1>4, <1>5, <1>6, BuiltExact

LEMMA InsertExact ==
  ASSUME NEW t, Sound(t), Typed(t), IndexExact(t), NEW key, ~Has(t, key), NEW vals,
         NEW u, u = insertByIndex(t, key, vals)
  PROVE  IndexExact(u)
<1> DEFINE N == Len(t.data)
<1>1. /\ u.data = Append(t.data, Row(key, vals))
      /\ DOMAIN u.keyMap = DOMAIN t.keyMap \cup {key}
      /\ u.keyMap[key] = N + 1
      /\ \A k \in DOMAIN t.keyMap \ {key} : u.keyMap[k] = t.keyMap[k]
  BY InsertParts
<1>2. /\ N \in Nat /\ DOMAIN t.data = 1..N /\ DOMAIN u.data = 1..(N + 1)
      /\ \A i \in 1..N : u.data[i] = t.data[i]
      /\ u.data[N + 1].key = key
  BY <1>1 DEF Typed, Row
<1>3. /\ \A k \in DOMAIN t.keyMap : t.keyMap[k] \in 1..N /\ t.data[t.keyMap[k]].key = k
      /\ \A i \in 1..N : /\ t.data[i].key \in DOMAIN t.keyMap
                         /\ t.keyMap[t.data[i].key] = i
  BY <1>2 DEF IndexExact
<1>4. key \notin DOMAIN t.keyMap
  BY DEF Has
<1> HIDE DEF N
<1>5. \A k \in DOMAIN u.keyMap : /\ u.keyMap[k] \in DOMAIN u.data
                                 /\ u.data[u.keyMap[k]].key = k
  <2>1. ASSUME NEW k \in DOMAIN t.keyMap
        PROVE  u.keyMap[k] \in 1..N /\ u.data[u.keyMap[k]].key = k
    <3>1. u.keyMap[k] = t.keyMap[k] /\ t.keyMap[k] \in 1..N
      BY <1>1, <1>3, <1>4
    <3>2. u.data[t.keyMap[k]] = t.data[t.keyMap[k]]
      BY <1>2, <3>1
    <3> QED BY <1>3, <3>1, <3>2
  <2>2. u.keyMap[key] \in 1..(N + 1) /\ u.data[u.keyMap[key]].key = key
    BY <1>1, <1>2
  <2> QED BY <1>1, <1>2, <2>1, <2>2
<1>6. ASSUME NEW i \in DOMAIN u.data
      PROVE  u.data[i].key \in DOMAIN u.keyMap /\ u.keyMap[u.data[i].key] = i
  <2>1. CASE i = N + 1
    BY <1>1, <1>2, <2>1
  <2>2. CASE i # N + 1
    <3>1. i \in 1..N
      BY <1>2, <2>2
    <3>2. u.data[i].key \in DOMAIN t.keyMap /\ t.keyMap[u.data[i].key] = i
      BY <1>2, <1>3, <3>1
    <3> QED BY <1>1, <1>4, <3>2
  <2> QED BY <2>1, <2>2
<1> QED BY <1>5, <1>6 DEF IndexExact

LEMMA SameKeysExact ==
  ASSUME NEW t, NEW u, IndexExact(t), u.keyMap = t.keyMap,
         DOMAIN u.data = DOMAIN t.data,
         \A i \in DOMAIN t.data : u.data[i].key = t.data[i].key
  PROVE  IndexExact(u)
BY DEF IndexExact

LEMMA SetKeyExact ==
  ASSUME NEW t, Sound(t), Typed(t), IndexExact(t), NEW i \in DOMAIN t.data,
         NEW key \in KeyType, ~Has(t, key) \/ key = t.data[i].key,
         NEW u, u = setKey(t, i, key)
  PROVE  IndexExact(u)
<1> DEFINE old == t.data[i].key
           rest == DOMAIN t.keyMap \ {old}
<1>1. /\ DOMAIN u.keyMap = rest \cup {key}
      /\ \A k \in rest : u.keyMap[k] = t.keyMap[k]
      /\ key \notin rest => u.keyMap[key] = t.keyMap[old]
      /\ DOMAIN u.data = DOMAIN t.data
      /\ \A j \in DOMAIN t.data \ {i} : u.data[j] = t.data[j]
      /\ u.data[i].key = key
  <2>1. Rekeyed(t, i, key, u)
    BY SetKeyParts
  <2>2. u.data[i] = Row(key, t.data[i].vals)
    BY <2>1, Zenon DEF Rekeyed
  <2>3. u.data[i].key = key
    BY <2>2 DEF Row
  <2> QED BY <2>1, <2>3, Zenon DEF Rekeyed
<1>2. key \notin rest
  BY DEF Has
<1>3. /\ t.keyMap[old] = i /\ old \in DOMAIN t.keyMap
      /\ \A k \in DOMAIN t.keyMap : /\ t.keyMap[k] \in DOMAIN t.data
                                    /\ t.data[t.keyMap[k]].key = k
      /\ \A j \in DOMAIN t.data : /\ t.data[j].key \in DOMAIN t.keyMap
                                  /\ t.keyMap[t.data[j].key] = j
  BY DEF IndexExact
<1>4. \A k \in rest : t.keyMap[k] # i
  BY <1>3
<1>5. \A k \in DOMAIN u.keyMap : /\ u.keyMap[k] \in DOMAIN u.data
                                 /\ u.data[u.keyMap[k]].key = k
  BY <1>1, <1>2, <1>3, <1>4
<1>6. \A j \in DOMAIN u.data : /\ u.data[j].key \in DOMAIN u.keyMap
                               /\ u.keyMap[u.data[j].key] = j
  <2>1. \A j \in DOMAIN t.data \ {i} : t.data[j].key \in rest
    BY <1>3
  <2> HIDE DEF rest, old
  <2> QED BY <1>1, <1>2, <1>3, <2>1
<1> QED BY <1>5, <1>6 DEF IndexExact

LEMMA ClearExact == ASSUME NEW t, Sound(t) PROVE IndexExact(clear(t))
<1>1. clear(t) = [fields |-> t.fields, data |-> << >>, keyMap |-> [k \in {} |-> 0]]
  BY BothReplaced DEF clear
<1> QED BY <1>1 DEF IndexExact
-----------------------------------------------------------------------------
\* SUB folds the columns between the first and the last into the first: every
\* difference is wrapped, so what it stores is a value.
LEMMA DifferenceTyped ==
  ASSUME NEW s \in Seq(STRING), \A n \in DOMAIN s : Cell(s[n]) \in ValueType,
         NEW base \in ValueType
  PROVE  FoldLeft(LAMBDA acc, f : Wrap(acc - Cell(f)), base, s) \in ValueType
<1> DEFINE S == DOMAIN s
           iter == CHOOSE h : h = [r \in SUBSET S |->
                                     IF r = {} THEN base
                                     ELSE Wrap(h[r \ {Max(r)}] - Cell(s[Max(r)]))]
           pick == [r \in SUBSET S |-> Max(r)]
           Less(rn) == IF rn[1] = {} THEN base
                       ELSE Wrap(rn[2] - Cell(s[Max(rn[1])]))
           step == [rn \in (SUBSET S) \X ValueType |-> Less(rn)]
<1>1. FoldLeft(LAMBDA acc, f : Wrap(acc - Cell(f)), base, s) = iter[S]
  BY Zenon DEF FoldLeft, MapThenFoldSet
<1>2. S = 1..Len(s) /\ Len(s) \in Nat
  BY LenProperties
<1>3. IsFiniteSet(S) /\ S \in SUBSET S
  BY <1>2, FS_Interval
<1> HIDE DEF S
<1>4. \A r \in SUBSET S : r # {} => Max(r) \in r /\ pick[r] = Max(r)
  BY <1>2, MaxIsGreatest
<1>5. ASSUME NEW r \in SUBSET S, r # {}, NEW n \in ValueType
      PROVE  Wrap(n - Cell(s[Max(r)])) \in ValueType
  <2>1. Cell(s[Max(r)]) \in ValueType
    BY <1>4, <1>5 DEF S
  <2>2. PICK c : c = Cell(s[Max(r)])
    OBVIOUS
  <2>3. c \in Int /\ n \in Int
    BY <2>1, <2>2, ValuesAreIntegers
  <2>4. n - c \in Int
    BY <2>3
  <2>5. n - Cell(s[Max(r)]) \in Int
    BY <2>2, <2>4, Zenon
  <2> QED BY <2>5, WrapType
<1>6. step \in [(SUBSET S) \X ValueType -> ValueType]
  <2>1. ASSUME NEW rn \in (SUBSET S) \X ValueType PROVE Less(rn) \in ValueType
    <3>1. rn[1] \in SUBSET S /\ rn[2] \in ValueType
      OBVIOUS
    <3> QED BY <1>5, <3>1, Zenon
  <2> HIDE DEF Less
  <2> QED BY <2>1
<1>7. \A r \in SUBSET S : \A n \in ValueType :
        r # {} => step[<<r, n>>] = Wrap(n - Cell(s[Max(r)]))
  OBVIOUS
<1> HIDE DEF pick, step
<1>8. PICK h \in [SUBSET S -> ValueType] : Recurses(h, S, base, pick, step)
  <2>1. \A r \in SUBSET S : r # {} => pick[r] \in r
    BY <1>4
  <2> QED BY <1>3, <1>6, <2>1, RecursionExists, Zenon
<1>9. h = [r \in SUBSET S |->
             IF r = {} THEN base ELSE Wrap(h[r \ {Max(r)}] - Cell(s[Max(r)]))]
  <2>1. ASSUME NEW r \in SUBSET S
        PROVE  h[r] = IF r = {} THEN base
                      ELSE Wrap(h[r \ {Max(r)}] - Cell(s[Max(r)]))
    <3>1. r \ {Max(r)} \in SUBSET S /\ h[r \ {Max(r)}] \in ValueType
      OBVIOUS
    <3> QED BY <1>4, <1>7, <1>8, <3>1 DEF Recurses
  <2> QED BY <2>1
<1>10. iter = [r \in SUBSET S |->
                 IF r = {} THEN base
                 ELSE Wrap(iter[r \ {Max(r)}] - Cell(s[Max(r)]))]
  BY <1>9, Zenon
<1> HIDE DEF iter
<1>11. \A r \in SUBSET S :
         iter[r] = IF r = {} THEN base
                   ELSE Wrap(iter[r \ {Max(r)}] - Cell(s[Max(r)]))
  BY <1>10, Zenon
<1> DEFINE Good == {r \in SUBSET S : iter[r] \in ValueType}
<1>12. ASSUME NEW r \in SUBSET S, \A x \in r : r \ {x} \in Good PROVE r \in Good
  <2>1. CASE r = {}
    BY <1>11, <2>1
  <2>2. CASE r # {}
    <3>1. iter[r \ {Max(r)}] \in ValueType
      BY <1>4, <1>12, <2>2
    <3>2. iter[r] = Wrap(iter[r \ {Max(r)}] - Cell(s[Max(r)]))
      BY <1>11, <2>2, Zenon
    <3> QED BY <1>5, <2>2, <3>1, <3>2
  <2> QED BY <2>1, <2>2
<1> HIDE DEF Good
<1>13. \A r \in SUBSET S : r \in Good
  BY <1>3, <1>12, SubsetInduction
<1> QED BY <1>1, <1>3, <1>13 DEF Good
-----------------------------------------------------------------------------
\* Queries, tables and files as their types allow.
Asked ==
  {q \in Query :
     /\ q.kind \notin {"LOAD", "LIST", "NOP"} => q.table \in TableNames
     /\ q.kind = "UPDATE" /\ Len(q.fields) = 1 =>
          IF q.fields = <<KEY>> THEN q.keys # << >> ELSE q.vals # << >>}
TablesTyped == \A n \in TableNames : tables[n] # Missing => Typed(tables[n])

\* A printed file tells the table it was printed from, rows of the wrong length
\* excepted.
PrintedFrom(file, t) ==
  /\ file.kind = "table" /\ file.name \in TableNames /\ t # Missing
  /\ file.fields = t.fields
  /\ DOMAIN file.data = DOMAIN t.data
  /\ \A i \in DOMAIN t.data : file.data[i].key = t.data[i].key
  /\ Rectangular(t) => file.data = t.data
FileTyped(file) ==
  /\ file.kind \in {"absent", "empty", "table"}
  /\ file.fields \in Seq(FieldNames) /\ file.data \in Seq(RowType)
  /\ file.of # Missing => Typed(file.of) /\ PrintedFrom(file, file.of)
FilesTyped == \A f \in Files : FileTyped(files[f])
ParsedTyped ==
  parsed \in 0..MaxQueries /\ pending \in Seq(Asked) /\ Len(pending) <= parsed

\* What a scan has done.  The query was accepted for the table as it was, the
\* rows it has not hit are as they were, and only UPDATE, SWAP and SUB have
\* changed others; only an UPDATE of KEY changes the index, and it leaves the
\* keys of the rows to come in it.  The copies of a DUPLICATE come behind the old
\* rows.
IsRekey(q) == q.kind = "UPDATE" /\ q.fields = <<KEY>>
ScanSound ==
  /\ run.q \in Asked /\ run.q.kind \in Scans
  /\ run.before # Missing /\ Sound(run.before) /\ Typed(run.before)
  /\ ~Refused(run.q, run.before) /\ ~SkipsScan(run.q, run.before)
  /\ Typed(Target) /\ Target.fields = run.before.fields
  /\ run.row \in 1..(Len(run.before.data) + 1)
  /\ run.hits \subseteq 1..(run.row - 1)
  /\ \A i \in DOMAIN run.before.data \ run.hits :
       i \in DOMAIN Target.data /\ Target.data[i] = run.before.data[i]
  /\ run.copies \in Seq(RowType)
  /\ DOMAIN run.sums = DOMAIN run.q.fields
  /\ \A n \in DOMAIN run.sums : run.sums[n] \in ValueType
RowsToCome ==
  /\ DOMAIN Target.data = DOMAIN run.before.data
  /\ run.q.kind \notin Mutators => Target = run.before
  /\ IsRekey(run.q) \/ Target.keyMap = run.before.keyMap
  /\ IndexExact(run.before) =>
       \A i \in run.row .. Len(run.before.data) : Has(Target, run.before.data[i].key)
RowsKept ==
  /\ run.q.kind = "DUPLICATE"
  /\ \A i \in DOMAIN run.before.data : /\ i \in DOMAIN Target.data
                                       /\ Target.data[i] = run.before.data[i]
ScanInv ==
  /\ phase \in {"idle", "scan", "insert", "dump", "crashed"}
  /\ phase \in {"scan", "insert"} => ScanSound
  /\ phase = "scan" => RowsToCome
  /\ phase = "insert" => RowsKept
TypedInv == DbInv /\ TablesTyped /\ FilesTyped /\ ParsedTyped /\ ScanInv

LEMMA TypedInit == Init => TypedInv
<1> SUFFICES ASSUME Init PROVE TypedInv
  OBVIOUS
<1>1. /\ session \in Sessions /\ tables = session.tables /\ files = session.files
      /\ pending = << >> /\ parsed = 0 /\ phase = "idle"
  BY DEF Init
<1>2. TablesTyped
  BY <1>1, SessionsAssumption DEF TablesTyped, Typed
<1>3. FilesTyped
  BY <1>1, SessionsAssumption DEF FilesTyped, FileTyped
<1>4. ParsedTyped
  BY <1>1, BoundAssumption DEF ParsedTyped
<1>5. ScanInv
  BY <1>1 DEF ScanInv
<1> QED BY DbInvInit, <1>2, <1>3, <1>4, <1>5 DEF TypedInv

\* Nothing scans: what ScanInv says is of no run.
LEMMA NoScan ==
  ASSUME phase' \in {"idle", "dump", "crashed"}
  PROVE  ScanInv'
BY DEF ScanInv

LEMMA ScanStays ==
  ASSUME ScanInv, UNCHANGED <<tables, phase, run>>
  PROVE  ScanInv'
BY DEF ScanInv, ScanSound, RowsToCome, RowsKept, Target

LEMMA TablesStay ==
  ASSUME TablesTyped, UNCHANGED tables PROVE TablesTyped'
BY DEF TablesTyped

LEMMA FilesStay == ASSUME FilesTyped, UNCHANGED files PROVE FilesTyped'
BY DEF FilesTyped

LEMMA ParsedStays ==
  ASSUME ParsedTyped, UNCHANGED <<parsed, pending>> PROVE ParsedTyped'
BY DEF ParsedTyped

\* A query leaves the queue.
LEMMA ParsedShrinks ==
  ASSUME ParsedTyped, NEW i \in DOMAIN pending, pending' = RemoveAt(pending, i),
         UNCHANGED parsed
  PROVE  ParsedTyped'
<1>1. pending' \in Seq(Asked)
  BY RemoveAtSeq DEF ParsedTyped
<1>2. Len(pending') <= Len(pending)
  BY DEF ParsedTyped, RemoveAt
<1> QED BY <1>1, <1>2 DEF ParsedTyped

LEMMA TableReplaced ==
  ASSUME TablesTyped, DOMAIN tables = TableNames, NEW n, NEW t,
         tables' = [tables EXCEPT ![n] = t],
         n \in TableNames /\ t # Missing => Typed(t)
  PROVE  TablesTyped'
BY DEF TablesTyped

LEMMA AskedPending ==
  ASSUME ParsedTyped, NEW i \in DOMAIN pending
  PROVE  /\ pending[i] \in Asked /\ pending[i] \in Query
         /\ pending[i].kind \notin {"LOAD", "LIST", "NOP"} => pending[i].table \in TableNames
BY DEF ParsedTyped, Asked

LEMMA ParseTyped ==
  ASSUME TypedInv, NEW q \in session.input, parseQuery(q)
  PROVE  TablesTyped' /\ FilesTyped' /\ ParsedTyped' /\ ScanInv'
<1>1. q \in Asked /\ q \in Query
  BY SessionsAssumption DEF TypedInv, DbInv, Asked
<1>2. /\ UNCHANGED <<session, tables, files, phase, run>>
      /\ parsed < MaxQueries /\ parsed' = parsed + 1
  BY DEF parseQuery
<1>3. TablesTyped' /\ FilesTyped' /\ ScanInv'
  BY <1>2, TablesStay, FilesStay, ScanStays DEF TypedInv
<1>4. KnownName(q.file) \in Names
  <2>1. q.file \in Files
    BY <1>1 DEF Query
  <2> QED BY <2>1 DEF TypedInv, DbInv, CacheSound, FilesSound, KnownName
<1>5. PICK next : next = IF q.kind = "LOAD"
                         THEN [q EXCEPT !.table = KnownName(q.file)] ELSE q
  OBVIOUS
<1>6. pending' = Append(pending, next)
  BY <1>5 DEF parseQuery
<1>7. next \in Asked
  <2>1. CASE q.kind = "LOAD"
    <3>1. next = [q EXCEPT !.table = KnownName(q.file)]
      BY <1>5, <2>1
    <3>2. next \in Query
      BY <1>1, <1>4, <3>1 DEF Query, Names
    <3>3. next.kind = "LOAD"
      BY <1>1, <2>1, <3>1 DEF Query
    <3> QED BY <3>2, <3>3 DEF Asked
  <2>2. CASE q.kind # "LOAD"
    BY <1>1, <1>5, <2>2
  <2> QED BY <2>1, <2>2
<1>8. ParsedTyped'
  BY <1>2, <1>6, <1>7, BoundAssumption DEF TypedInv, ParsedTyped
<1> QED BY <1>3, <1>8

LEMMA DoneTyped ==
  ASSUME TypedInv, NEW i \in DOMAIN pending, Ready(i), NEW result, Done(i, result),
         UNCHANGED files, TablesTyped'
  PROVE  TablesTyped' /\ FilesTyped' /\ ParsedTyped' /\ ScanInv'
<1>1. ParsedTyped'
  BY ParsedShrinks DEF TypedInv, Done
<1>2. FilesTyped'
  BY FilesStay DEF TypedInv
<1>3. ScanInv'
  BY NoScan DEF Ready, Done
<1> QED BY <1>1, <1>2, <1>3

LEMMA FinishTyped ==
  ASSUME TypedInv, NEW result, Finish(result), TablesTyped', FilesTyped'
  PROVE  TablesTyped' /\ FilesTyped' /\ ParsedTyped' /\ ScanInv'
<1>1. ParsedTyped'
  BY ParsedStays DEF TypedInv, Finish
<1>2. ScanInv'
  BY NoScan DEF Finish
<1> QED BY <1>1, <1>2

LEMMA LoadedTyped ==
  ASSUME NEW file, FileTyped(file), ~Unloadable(file)
  PROVE  Typed(Loaded(file))
<1> DEFINE data == file.data
           keyMap == [k \in {data[i].key : i \in DOMAIN data} |->
                        CHOOSE i \in DOMAIN data : data[i].key = k]
<1>1. {i \in DOMAIN file.data : ~Readable(file.data[i], file.fields)} = {}
  BY DEF Unloadable
<1>2. Loaded(file) = [fields |-> file.fields, data |-> data, keyMap |-> keyMap]
  BY <1>1 DEF Loaded
<1>3. DOMAIN keyMap \subseteq KeyType
  <2>1. \A i \in DOMAIN file.data : file.data[i] \in RowType
    BY DEF FileTyped
  <2> QED BY <2>1 DEF RowType
<1> HIDE DEF keyMap
<1> QED BY <1>2, <1>3 DEF Typed, FileTyped

\* A scan begins with the table as it is.
LEMMA BeginTyped ==
  ASSUME TypedInv, NEW i \in DOMAIN pending, BeginScan(i)
  PROVE  TablesTyped' /\ FilesTyped' /\ ParsedTyped' /\ ScanInv'
<1> DEFINE q == pending[i]
           t == tables[q.table]
<1>1. UNCHANGED <<tables, files>> /\ q.kind \in Scans /\ Ready(i)
  BY DEF BeginScan
<1>2. TablesTyped' /\ FilesTyped'
  BY <1>1, TablesStay, FilesStay DEF TypedInv
<1>3. CASE \E result : Done(i, result)
  BY <1>1, <1>2, <1>3, DoneTyped
<1>4. CASE /\ ~Refused(q, t) /\ ~SkipsScan(q, t)
           /\ pending' = RemoveAt(pending, i)
           /\ phase' = "scan"
           /\ run' = [NoRun EXCEPT !.q = q, !.before = t, !.row = 1,
                                   !.sums = StartOf(q)]
           /\ UNCHANGED <<session, cache, parsed, answer>>
  <2>1. ParsedTyped'
    BY <1>4, ParsedShrinks DEF TypedInv
  <2>2. q \in Asked /\ q \in Query /\ q.table \in TableNames
    BY <1>1, AskedPending DEF TypedInv, Scans
  <2>3. t # Missing
    BY <1>4 DEF Refused
  <2>4. Sound(t) /\ Typed(t)
    BY <2>2, <2>3 DEF TypedInv, DbInv, TablesSound, TablesTyped
  <2>5. PICK p, b, st : p = q /\ b = t /\ st = StartOf(q)
    OBVIOUS
  <2>6. /\ run'.q = p /\ run'.before = b /\ run'.row = 1 /\ run'.hits = {}
        /\ run'.sums = st /\ run'.copies = << >>
    BY <1>4, <2>5 DEF NoRun
  <2>7. Target' = b
    BY <1>1, <2>5, <2>6 DEF Target
  <2>8. DOMAIN st = DOMAIN p.fields /\ \A n \in DOMAIN st : st[n] \in ValueType
    BY <2>5, ValuesAreIntegers DEF StartOf
  <2>9. /\ p \in Asked /\ p.kind \in Scans /\ b # Missing /\ Sound(b) /\ Typed(b)
        /\ ~Refused(p, b) /\ ~SkipsScan(p, b)
    BY <1>1, <1>4, <2>2, <2>3, <2>4, <2>5
  <2> HIDE DEF q, t
  <2>10. 1 \in 1..(Len(b.data) + 1)
    BY <2>9 DEF Typed
  <2>11. ScanSound'
    BY <2>6, <2>7, <2>8, <2>9, <2>10 DEF ScanSound
  <2>12. RowsToCome'
    <3>1. DOMAIN b.data = 1..Len(b.data)
      BY <2>9 DEF Typed
    <3> QED BY <2>6, <2>7, <3>1 DEF RowsToCome, IndexExact, Has
  <2> QED BY <1>2, <1>4, <2>1, <2>11, <2>12 DEF ScanInv
<1>5. \/ \E result : Done(i, result)
      \/ /\ ~Refused(q, t) /\ ~SkipsScan(q, t)
         /\ pending' = RemoveAt(pending, i)
         /\ phase' = "scan"
         /\ run' = [NoRun EXCEPT !.q = q, !.before = t, !.row = 1,
                                 !.sums = StartOf(q)]
         /\ UNCHANGED <<session, cache, parsed, answer>>
  BY DEF BeginScan
<1> QED BY <1>3, <1>4, <1>5

LEMMA StartTyped ==
  ASSUME TypedInv, NEW i \in DOMAIN pending, StartQuery(i)
  PROVE  TablesTyped' /\ FilesTyped' /\ ParsedTyped' /\ ScanInv'
<1> DEFINE q == pending[i]
           t == tables[q.table]
<1>a. /\ q \in Asked /\ q \in Query
      /\ q.kind \notin {"LOAD", "LIST", "NOP"} => q.table \in TableNames
  BY AskedPending DEF TypedInv
<1>b. q.table \in TableNames /\ t # Missing => Sound(t) /\ Typed(t)
  BY DEF TypedInv, DbInv, TablesSound, TablesTyped
<1>c. UNCHANGED tables => TablesTyped'
  BY TablesStay DEF TypedInv
<1>d. DOMAIN tables = TableNames /\ TablesTyped /\ FilesTyped
  BY DEF TypedInv, DbInv, TablesSound
<1>1. CASE InsertQuery(i)
  <2>1. CASE UNCHANGED tables
    BY <1>1, <1>c, <2>1, DoneTyped DEF InsertQuery
  <2> DEFINE vals == [n \in DOMAIN q.vals |-> Wrap(q.vals[n])]
  <2>2. CASE /\ q.keys # << >> /\ t # Missing
             /\ tables' = [tables EXCEPT ![q.table] =
                                            insertByIndex(t, Head(q.keys), vals)]
    <3>1. q.table \in TableNames
      BY <1>1, <1>a DEF InsertQuery
    <3>2. Head(q.keys) \in KeyType
      BY <1>a, <2>2 DEF Query
    <3>3. vals \in Seq(ValueType)
      <4>1. q.vals \in Seq(Int)
        BY <1>a DEF Query
      <4>2. \A n \in 1..Len(q.vals) : Wrap(q.vals[n]) \in ValueType
        BY <4>1, WrapType
      <4>3. DOMAIN q.vals = 1..Len(q.vals) /\ Len(q.vals) \in Nat
        BY <4>1
      <4> HIDE DEF q
      <4> QED BY <4>2, <4>3
    <3> HIDE DEF vals
    <3>4. Typed(insertByIndex(t, Head(q.keys), vals))
      BY <1>b, <2>2, <3>1, <3>2, <3>3, InsertTyped
    <3>5. TablesTyped'
      BY <1>d, <2>2, <3>4, TableReplaced
    <3> QED BY <1>1, <3>5, DoneTyped DEF InsertQuery
  <2> QED BY <1>1, <2>1, <2>2 DEF InsertQuery
<1>2. CASE TruncateQuery(i)
  <2>1. CASE UNCHANGED tables
    BY <1>2, <1>c, <2>1, DoneTyped DEF TruncateQuery
  <2>2. CASE t # Missing /\ tables' = [tables EXCEPT ![q.table] = clear(t)]
    <3>1. q.table \in TableNames
      BY <1>2, <1>a DEF TruncateQuery
    <3>2. Typed(clear(t))
      BY <1>b, <2>2, <3>1, ClearTyped
    <3>3. TablesTyped'
      BY <1>d, <2>2, <3>2, TableReplaced
    <3> QED BY <1>2, <3>3, DoneTyped DEF TruncateQuery
  <2> QED BY <1>2, <2>1, <2>2 DEF TruncateQuery
<1>3. CASE DropTableQuery(i)
  <2>1. CASE UNCHANGED tables
    BY <1>3, <1>c, <2>1, DoneTyped DEF DropTableQuery
  <2>2. CASE tables' = [tables EXCEPT ![q.table] = Missing]
    <3>1. TablesTyped'
      BY <1>d, <2>2, TableReplaced
    <3> QED BY <1>3, <3>1, DoneTyped DEF DropTableQuery
  <2> QED BY <1>3, <2>1, <2>2 DEF DropTableQuery
<1>4. CASE CopyTableQuery(i)
  <2>1. CASE UNCHANGED tables
    BY <1>4, <1>c, <2>1, DoneTyped DEF CopyTableQuery
  <2>2. CASE t # Missing /\ tables' = [tables EXCEPT ![q.to] = t]
    <3>1. q.table \in TableNames
      BY <1>4, <1>a DEF CopyTableQuery
    <3>2. TablesTyped'
      BY <1>b, <1>d, <2>2, <3>1, TableReplaced
    <3> QED BY <1>4, <3>2, DoneTyped DEF CopyTableQuery
  <2> QED BY <1>4, <2>1, <2>2 DEF CopyTableQuery
<1>5. CASE PrintQuery(i)
  BY <1>5, <1>c, DoneTyped DEF PrintQuery
<1>6. CASE DumpTableQuery(i)
  <2>1. /\ files' = [files EXCEPT ![q.file] = Empty]
        /\ pending' = RemoveAt(pending, i) /\ phase' = "dump"
        /\ UNCHANGED <<session, tables, cache, parsed, answer>>
    BY <1>6 DEF DumpTableQuery
  <2>2. FileTyped(Empty)
    BY DEF FileTyped, Empty, Absent
  <2>3. FilesTyped'
    BY <1>d, <2>1, <2>2 DEF TypedInv, DbInv, FilesSound, FilesTyped
  <2>4. ParsedTyped'
    BY <2>1, ParsedShrinks DEF TypedInv
  <2>5. ScanInv'
    BY <2>1, NoScan
  <2> QED BY <1>c, <2>1, <2>3, <2>4, <2>5
<1>7. CASE LoadTableQuery(i)
  <2> DEFINE file == files[q.file]
  <2>1. CASE UNCHANGED tables
    BY <1>7, <1>c, <2>1, DoneTyped DEF LoadTableQuery
  <2>2. CASE /\ ~Unloadable(file)
             /\ tables' = [tables EXCEPT ![file.name] = Loaded(file)]
    <3>1. FileTyped(file)
      BY <1>a, <1>d DEF Query, FilesTyped
    <3>2. Typed(Loaded(file))
      BY <2>2, <3>1, LoadedTyped
    <3>3. TablesTyped'
      BY <1>d, <2>2, <3>2, TableReplaced
    <3> QED BY <1>7, <3>3, DoneTyped DEF LoadTableQuery
  <2> QED BY <1>7, <2>1, <2>2 DEF LoadTableQuery
<1>8. CASE BeginScan(i)
  BY <1>8, BeginTyped
<1> QED BY <1>1, <1>2, <1>3, <1>4, <1>5, <1>6, <1>7, <1>8 DEF StartQuery

\* The print of a table has its rows as operator<< prints them.
LEMMA PrintedTyped ==
  ASSUME NEW t, Typed(t), t # Missing, NEW behind \in [ShortRows(t) -> ValueType],
         NEW n \in TableNames
  PROVE  FileTyped([kind |-> "table", name |-> n, fields |-> t.fields,
                    data |-> Printed(t, behind), of |-> t])
<1> DEFINE cells(i) == [m \in DOMAIN t.fields |->
                          IF HasCell(t.data[i], m) THEN t.data[i].vals[m]
                          ELSE behind[i]]
           data == [i \in DOMAIN t.data |-> Row(t.data[i].key, cells(i))]
           file == [kind |-> "table", name |-> n, fields |-> t.fields,
                    data |-> data, of |-> t]
<1>1. Printed(t, behind) = data
  BY DEF Printed
<1>2. /\ DOMAIN t.data = 1..Len(t.data) /\ Len(t.data) \in Nat
      /\ DOMAIN t.fields = 1..Len(t.fields) /\ Len(t.fields) \in Nat
      /\ \A i \in DOMAIN t.data : t.data[i] \in RowType
  BY DEF Typed
<1>3. ASSUME NEW i \in DOMAIN t.data PROVE Row(t.data[i].key, cells(i)) \in RowType
  <2>1. PICK r : r = t.data[i]
    OBVIOUS
  <2>2. r \in RowType /\ r.key \in KeyType /\ r.vals \in Seq(ValueType)
    BY <1>2, <2>1 DEF RowType
  <2>3. ASSUME NEW m \in DOMAIN t.fields PROVE cells(i)[m] \in ValueType
    <3>1. CASE HasCell(r, m)
      <4>1. m \in DOMAIN r.vals
        BY <3>1 DEF HasCell
      <4>2. r.vals[m] \in ValueType
        BY <2>2, <4>1
      <4> QED BY <2>1, <3>1, <4>2
    <3>2. CASE ~HasCell(r, m)
      <4>1. Len(r.vals) < Len(t.fields)
        BY <1>2, <2>2, <3>2 DEF HasCell
      <4>2. i \in ShortRows(t)
        BY <2>1, <4>1 DEF ShortRows
      <4> QED BY <2>1, <3>2, <4>2
    <3> QED BY <3>1, <3>2
  <2>4. cells(i) \in Seq(ValueType)
    <3>1. DOMAIN cells(i) = DOMAIN t.fields /\ cells(i) = [m \in DOMAIN t.fields |-> cells(i)[m]]
      OBVIOUS
    <3>2. PICK c : c = cells(i)
      OBVIOUS
    <3> HIDE DEF cells
    <3>3. c = [m \in 1..Len(t.fields) |-> c[m]] /\ \A m \in 1..Len(t.fields) : c[m] \in ValueType
      BY <1>2, <2>3, <3>1, <3>2
    <3>4. c \in Seq(ValueType)
      BY <1>2, <3>3
    <3> QED BY <3>2, <3>4
  <2> HIDE DEF cells
  <2> QED BY <2>1, <2>2, <2>4 DEF Row, RowType
<1>4. data \in Seq(RowType)
  <2> HIDE DEF cells
  <2> QED BY <1>2, <1>3
<1>5. ASSUME Rectangular(t) PROVE data = t.data
  <2>1. ASSUME NEW i \in DOMAIN t.data PROVE data[i] = t.data[i]
    <3>1. PICK r : r = t.data[i]
      OBVIOUS
    <3>2. r = [key |-> r.key, vals |-> r.vals] /\ r.vals \in Seq(ValueType)
      BY <1>2, <3>1 DEF RowType
    <3>3. Len(r.vals) = Len(t.fields)
      BY <1>5, <3>1 DEF Rectangular
    <3>4. DOMAIN r.vals = DOMAIN t.fields
      BY <1>2, <3>2, <3>3
    <3>5. r.vals = [m \in DOMAIN r.vals |-> r.vals[m]]
      BY <3>2
    <3>6. cells(i) = [m \in DOMAIN t.fields |-> r.vals[m]]
      BY <3>1, <3>4 DEF HasCell
    <3>7. cells(i) = r.vals
      BY <3>4, <3>5, <3>6
    <3> QED BY <3>1, <3>2, <3>7 DEF Row
  <2> HIDE DEF cells
  <2>2. t.data = [i \in DOMAIN t.data |-> t.data[i]]
    BY DEF Typed
  <2> QED BY <2>1, <2>2
<1>6. \A i \in DOMAIN t.data : data[i].key = t.data[i].key
  BY DEF Row
<1> HIDE DEF data
<1>7. /\ file.kind = "table" /\ file.name = n /\ file.fields = t.fields
      /\ file.data = data /\ file.of = t
  OBVIOUS
<1>8. DOMAIN data = DOMAIN t.data
  BY DEF data
<1> HIDE DEF file
<1>9. PrintedFrom(file, t)
  BY <1>5, <1>6, <1>7, <1>8 DEF PrintedFrom
<1>10. FileTyped(file)
  BY <1>4, <1>7, <1>9 DEF FileTyped, Typed
<1> QED BY <1>1, <1>10 DEF file

LEMMA DumpTyped ==
  ASSUME TypedInv, DumpWrite
  PROVE  TablesTyped' /\ FilesTyped' /\ ParsedTyped' /\ ScanInv'
<1> DEFINE t == tables[run.q.table]
<1>1. run.q.table \in TableNames /\ run.q.file \in Files /\ UNCHANGED tables
  BY DEF DumpWrite, TypedInv, DbInv, RunSound, Known
<1>2. TablesTyped'
  BY <1>1, TablesStay DEF TypedInv
<1>3. CASE UNCHANGED files
  BY <1>2, <1>3, FilesStay, FinishTyped DEF DumpWrite, TypedInv
<1>4. ASSUME t # Missing, NEW behind \in [ShortRows(t) -> ValueType],
             files' = [files EXCEPT ![run.q.file] =
                         [kind |-> "table", name |-> run.q.table,
                          fields |-> t.fields, data |-> Printed(t, behind),
                          of |-> t]]
      PROVE  FilesTyped'
  <2>1. Typed(t)
    BY <1>1, <1>4 DEF TypedInv, TablesTyped
  <2>2. PICK file : file = [kind |-> "table", name |-> run.q.table,
                            fields |-> t.fields, data |-> Printed(t, behind),
                            of |-> t]
    OBVIOUS
  <2>3. FileTyped(file)
    BY <1>1, <1>4, <2>1, <2>2, PrintedTyped
  <2>4. files' = [files EXCEPT ![run.q.file] = file]
    BY <1>4, <2>2
  <2> QED BY <2>3, <2>4 DEF TypedInv, DbInv, FilesSound, FilesTyped
<1> QED BY <1>2, <1>3, <1>4, FinishTyped DEF DumpWrite
-----------------------------------------------------------------------------
\* The rows of a scan.

\* The row a scan is at is as it was when the query started.
LEMMA HereIsUnchanged ==
  ASSUME TypedInv, InRow
  PROVE  /\ phase = "scan" /\ ScanSound /\ RowsToCome /\ Sound(Target)
         /\ run.row \in DOMAIN run.before.data /\ run.row \in DOMAIN Target.data
         /\ run.row \notin run.hits
         /\ Here = run.before.data[run.row] /\ Here \in RowType
         /\ run.q.table \in TableNames
<1>1. phase = "scan" /\ ScanSound /\ RowsToCome /\ run.row <= Len(Target.data)
  BY DEF InRow, TypedInv, ScanInv
<1>2. run.q.table \in TableNames
  BY <1>1 DEF ScanSound, Asked, Scans
<1>3. Sound(Target)
  BY <1>1, <1>2 DEF TypedInv, DbInv, RunSound
<1>4. /\ DOMAIN Target.data = 1..Len(Target.data) /\ Len(Target.data) \in Nat
      /\ Target.data \in Seq(RowType)
      /\ DOMAIN run.before.data = 1..Len(run.before.data)
      /\ Len(run.before.data) \in Nat
  BY <1>1 DEF ScanSound, Typed
<1>5. run.row \in 1..(Len(run.before.data) + 1) /\ run.hits \subseteq 1..(run.row - 1)
  BY <1>1 DEF ScanSound
<1>6. run.row \in DOMAIN Target.data /\ run.row \in DOMAIN run.before.data
  BY <1>1, <1>4, <1>5 DEF RowsToCome
<1>7. run.row \notin run.hits
  BY <1>5
<1>8. Here = run.before.data[run.row] /\ Here \in RowType
  BY <1>1, <1>4, <1>6, <1>7 DEF ScanSound, Here
<1> QED BY <1>1, <1>2, <1>3, <1>6, <1>7, <1>8

\* A scan goes on to the next row.
LEMMA AdvanceTyped ==
  ASSUME TypedInv, InRow, NEW hits, NEW sums, NEW copies,
         NextRow(hits, sums, copies),
         hits = run.hits \/ hits = run.hits \cup {run.row},
         copies \in Seq(RowType), DOMAIN sums = DOMAIN run.q.fields,
         \A n \in DOMAIN sums : sums[n] \in ValueType,
         NEW u, u = tables'[run.q.table], Typed(u), u.fields = Target.fields,
         DOMAIN u.data = DOMAIN Target.data,
         \A j \in DOMAIN Target.data :
           j # run.row \/ run.row \notin hits => u.data[j] = Target.data[j],
         run.q.kind \notin Mutators => u = Target,
         IsRekey(run.q) \/ u.keyMap = Target.keyMap,
         \A k \in DOMAIN Target.keyMap : k # Here.key => k \in DOMAIN u.keyMap
  PROVE  ScanInv'
<1>1. /\ phase = "scan" /\ ScanSound /\ RowsToCome
      /\ run.row \in DOMAIN run.before.data /\ run.row \notin run.hits
      /\ Here = run.before.data[run.row]
  BY HereIsUnchanged
<1>2. /\ phase' = phase
      /\ run' = [run EXCEPT !.row = run.row + 1, !.hits = hits, !.sums = sums,
                            !.copies = copies]
  BY DEF NextRow
<1>3. run = [q |-> run.q, before |-> run.before, row |-> run.row, hits |-> run.hits,
             sums |-> run.sums, copies |-> run.copies]
  BY DEF TypedInv, DbInv, RunSound, RunShape
<1>4. PICK q, b, row : q = run.q /\ b = run.before /\ row = run.row
  OBVIOUS
<1>5. run' = [q |-> q, before |-> b, row |-> row + 1, hits |-> hits, sums |-> sums,
              copies |-> copies]
  BY <1>2, <1>3, <1>4
<1>6. /\ run'.q = q /\ run'.before = b /\ run'.row = row + 1 /\ run'.hits = hits
      /\ run'.sums = sums /\ run'.copies = copies
  BY <1>5
<1>7. Target' = u
  BY <1>4, <1>6 DEF Target
<1>8. /\ DOMAIN b.data = 1..Len(b.data) /\ Len(b.data) \in Nat
      /\ row \in 1..Len(b.data) /\ row \notin run.hits
      /\ run.hits \subseteq 1..(row - 1)
  BY <1>1, <1>4 DEF ScanSound, Typed
<1>9. hits \subseteq 1..row /\ run.hits \subseteq hits
  BY <1>4, <1>8
<1>10. \A i \in DOMAIN b.data \ hits : i \in DOMAIN u.data /\ u.data[i] = b.data[i]
  BY <1>1, <1>4, <1>9 DEF ScanSound
<1>11. row + 1 \in 1..(Len(b.data) + 1) /\ row + 1 - 1 = row
  BY <1>8
<1>12. ScanSound'
  BY <1>1, <1>4, <1>6, <1>7, <1>9, <1>10, <1>11 DEF ScanSound
<1>13. ASSUME IndexExact(b), NEW i \in (row + 1) .. Len(b.data)
       PROVE  Has(u, b.data[i].key)
  <2>1. i \in row .. Len(b.data) /\ i # row /\ i \in DOMAIN b.data
    BY <1>8
  <2>2. b.data[i].key # b.data[row].key
    BY <1>8, <1>13, <2>1 DEF IndexExact
  <2>3. b.data[i].key \in DOMAIN Target.keyMap
    BY <1>1, <1>4, <1>13, <2>1 DEF RowsToCome, Has
  <2> QED BY <1>1, <1>4, <2>2, <2>3 DEF Has
<1>14. DOMAIN u.data = DOMAIN b.data
  BY <1>1, <1>4 DEF RowsToCome
<1>15. q.kind \notin Mutators => u = b
  BY <1>1, <1>4 DEF RowsToCome
<1>16. IsRekey(q) \/ u.keyMap = b.keyMap
  BY <1>1, <1>4 DEF RowsToCome
<1>17. RowsToCome'
  BY <1>6, <1>7, <1>13, <1>14, <1>15, <1>16 DEF RowsToCome
<1> QED BY <1>1, <1>2, <1>12, <1>17 DEF ScanInv

\* What a query reads of a row whose clause is true is there.
LEMMA CellTyped ==
  ASSUME TypedInv, InRow, RowVerdict = "true", NEW f \in Columns(run.q)
  PROVE  /\ getFieldIndex(Target, f) \in DOMAIN Here.vals
         /\ Cell(f) \in ValueType
<1>1. ~ShortRow
  BY Zenon DEF RowVerdict
<1>2. getFieldIndex(Target, f) \in DOMAIN Here.vals
  BY <1>1 DEF ShortRow, HasCell
<1>3. Here.vals \in Seq(ValueType)
  BY HereIsUnchanged DEF RowType
<1>4. Cell(f) \in ValueType
  BY <1>2, <1>3 DEF Cell
<1> QED BY <1>2, <1>4

\* The operands of an accepted query but SELECT and UPDATE of KEY are columns.
LEMMA OperandsAreColumns ==
  ASSUME TypedInv, InRow, run.q.kind \in Scans \ {"SELECT", "DELETE", "DUPLICATE"},
         ~IsRekey(run.q), NEW n \in DOMAIN run.q.fields
  PROVE  /\ run.q.fields[n] \in Columns(run.q)
         /\ HasField(run.before, run.q.fields[n])
<1> DEFINE q == run.q
           f == q.fields[n]
<1>1. ScanSound
  BY HereIsUnchanged
<1>2. /\ ~WrongOperands(q)
      /\ HasField(run.before, f) \/ (f = KEY /\ q.kind \in {"SELECT", "UPDATE"})
  BY <1>1 DEF ScanSound, Refused, ToSet
<1>3. f # KEY
  <2>1. CASE q.kind = "UPDATE"
    <3>1. Len(q.fields) = 1
      BY <1>2, <2>1 DEF WrongOperands
    <3>2. q.fields \in Seq(STRING)
      BY <1>1 DEF ScanSound, Asked, Query
    <3>3. q.fields = <<q.fields[1]>> /\ n = 1
      BY <3>1, <3>2
    <3> QED BY <2>1, <3>3 DEF IsRekey
  <2>2. CASE q.kind # "UPDATE"
    <3>1. HasField(run.before, f)
      BY <1>2, <2>2
    <3>2. run.before.fields \in Seq(FieldNames)
      BY <1>1 DEF ScanSound, Typed
    <3> QED BY <3>1, <3>2 DEF HasField, FieldNames
  <2> QED BY <2>1, <2>2
<1>4. HasField(run.before, f)
  <2>1. CASE q.kind # "SELECT" /\ q.kind # "UPDATE"
    BY <1>2, <2>1
  <2>2. CASE q.kind = "UPDATE"
    BY <1>2, <1>3, <2>2
  <2> QED BY <2>1, <2>2
<1>5. f \in Columns(q)
  BY <1>3 DEF Columns, ToSet
<1> QED BY <1>4, <1>5

\* Storing in the row a scan is at changes nothing else.
Wrote(u) ==
  /\ Sound(u) /\ Typed(u) /\ u.fields = Target.fields /\ u.keyMap = Target.keyMap
  /\ DOMAIN u.data = DOMAIN Target.data
  /\ \A j \in DOMAIN Target.data \ {run.row} : u.data[j] = Target.data[j]
  /\ u.data[run.row].key = Here.key
  /\ Len(u.data[run.row].vals) = Len(Here.vals)

LEMMA StoreWrites ==
  ASSUME TypedInv, InRow, NEW t, Wrote(t), NEW f,
         getFieldIndex(Target, f) \in DOMAIN Here.vals, NEW v \in ValueType
  PROVE  Wrote(Store(t, f, v))
<1>1. PICK at : at = getFieldIndex(t, f)
  OBVIOUS
<1>2. at \in DOMAIN Here.vals
  BY <1>1, FieldIndexOfSameFields DEF Wrote
<1>3. run.row \in DOMAIN t.data
  BY HereIsUnchanged DEF Wrote
<1>4. /\ t.data[run.row] \in RowType /\ t.data[run.row].vals \in Seq(ValueType)
      /\ Here.vals \in Seq(ValueType)
  <2>1. t.data[run.row] \in RowType
    BY <1>3 DEF Wrote, Typed
  <2>2. Here \in RowType
    BY HereIsUnchanged
  <2> QED BY <2>1, <2>2 DEF RowType
<1>5. DOMAIN t.data[run.row].vals = DOMAIN Here.vals
  BY <1>4 DEF Wrote
<1>6. PICK u : u = setValue(t, run.row, at, v)
  OBVIOUS
<1>7. Sound(u)
  BY <1>6, SetValueSound DEF Wrote
<1>8. Sound(t) /\ Typed(t) /\ at \in DOMAIN t.data[run.row].vals
  BY <1>2, <1>5 DEF Wrote
<1>9. /\ Typed(u) /\ u.fields = t.fields /\ u.keyMap = t.keyMap
      /\ DOMAIN u.data = DOMAIN t.data
      /\ \A j \in DOMAIN t.data \ {run.row} : u.data[j] = t.data[j]
      /\ u.data[run.row] = Row(t.data[run.row].key,
                               [t.data[run.row].vals EXCEPT ![at] = v])
  <2>1. CellSet(t, run.row, at, v, u)
    BY <1>3, <1>6, <1>8, SetValueParts
  <2> QED BY <2>1, Zenon DEF CellSet
<1>11. u.data[run.row].key = t.data[run.row].key
  BY <1>9 DEF Row
<1>12. Len(u.data[run.row].vals) = Len(t.data[run.row].vals)
  BY <1>4, <1>9 DEF Row
<1>13. Wrote(u)
  BY <1>7, <1>9, <1>11, <1>12 DEF Wrote
<1> QED BY <1>1, <1>6, <1>13 DEF Store

LEMMA RewrittenWrites ==
  ASSUME TypedInv, InRow, RowVerdict = "true",
         run.q.kind \in Mutators, run.q.fields # <<KEY>>
  PROVE  Wrote(Rewritten)
<1> DEFINE q == run.q
           fs == q.fields
<1>1. ScanSound /\ Sound(Target) /\ Typed(Target)
  BY HereIsUnchanged DEF ScanSound
<1>2. Wrote(Target)
  BY <1>1 DEF Wrote, Here
<1>3. q \in Asked /\ q \in Query /\ fs \in Seq(STRING) /\ ~WrongOperands(q)
  BY <1>1 DEF ScanSound, Asked, Query, Refused
<1>4. q.kind \in {"UPDATE", "SWAP", "SUB"}
  BY DEF Mutators
<1>5. ~IsRekey(q)
  BY DEF IsRekey
<1>6. \A n \in DOMAIN fs : fs[n] \in Columns(q)
  BY <1>4, <1>5, OperandsAreColumns DEF Scans
<1>7. \A n \in DOMAIN fs : /\ getFieldIndex(Target, fs[n]) \in DOMAIN Here.vals
                           /\ Cell(fs[n]) \in ValueType
  BY <1>6, CellTyped
<1>8. CASE q.kind = "UPDATE"
  <2>1. Len(fs) = 1 /\ 1 \in DOMAIN fs
    BY <1>3, <1>8 DEF WrongOperands
  <2>2. q.vals # << >> /\ q.vals \in Seq(Int)
    BY <1>3, <1>8, <2>1 DEF Asked, Query
  <2>3. q.vals[1] \in Int
    BY <2>2
  <2>4. Wrap(q.vals[1]) \in ValueType
    BY <2>3, WrapType
  <2>5. Wrote(Store(Target, fs[1], Wrap(q.vals[1])))
    BY <1>2, <1>7, <2>1, <2>4, StoreWrites
  <2> QED BY <1>8, <2>5 DEF Rewritten
<1>9. CASE q.kind = "SWAP"
  <2>1. 1 \in DOMAIN fs /\ 2 \in DOMAIN fs
    BY <1>3, <1>9 DEF WrongOperands
  <2>2. Wrote(Store(Target, fs[1], Cell(fs[2])))
    BY <1>2, <1>7, <2>1, StoreWrites
  <2>3. Wrote(Store(Store(Target, fs[1], Cell(fs[2])), fs[2], Cell(fs[1])))
    BY <1>7, <2>1, <2>2, StoreWrites
  <2> QED BY <1>9, <2>3 DEF Rewritten
<1>10. CASE q.kind = "SUB"
  <2> DEFINE rest == SubSeq(fs, 2, Len(fs) - 1)
             difference == FoldLeft(LAMBDA acc, f : Wrap(acc - Cell(f)), Cell(fs[1]),
                                    rest)
  <2>1. Len(fs) \in Nat /\ Len(fs) >= 2 /\ 1 \in DOMAIN fs /\ Len(fs) \in DOMAIN fs
    BY <1>3, <1>10 DEF WrongOperands
  <2>2. /\ rest \in Seq(STRING)
        /\ \A n \in DOMAIN rest : n + 1 \in DOMAIN fs /\ rest[n] = fs[n + 1]
    BY <1>3, <2>1
  <2>3. \A n \in DOMAIN rest : Cell(rest[n]) \in ValueType
    BY <1>7, <2>2
  <2> HIDE DEF rest
  <2>4. difference \in ValueType
    BY <1>7, <2>1, <2>2, <2>3, DifferenceTyped
  <2>5. Last(fs) = fs[Len(fs)]
    BY DEF Last
  <2> HIDE DEF difference
  <2>6. Wrote(Store(Target, Last(fs), difference))
    BY <1>2, <1>7, <2>1, <2>4, <2>5, StoreWrites
  <2>7. Rewritten = Store(Target, Last(fs), difference)
    BY <1>10 DEF Rewritten, difference, rest
  <2> QED BY <2>6, <2>7
<1> QED BY <1>4, <1>8, <1>9, <1>10

LEMMA HitTyped ==
  ASSUME TypedInv, DbInv', InRow, RowVerdict = "true",
         NEW u, tables' = [tables EXCEPT ![run.q.table] = u], Hit,
         Typed(u), u.fields = Target.fields, DOMAIN u.data = DOMAIN Target.data,
         \A j \in DOMAIN Target.data \ {run.row} : u.data[j] = Target.data[j],
         run.q.kind \in Mutators, IsRekey(run.q) \/ u.keyMap = Target.keyMap,
         \A k \in DOMAIN Target.keyMap : k # Here.key => k \in DOMAIN u.keyMap
  PROVE  TablesTyped' /\ FilesTyped' /\ ParsedTyped' /\ ScanInv'
<1>1. NextRow(run.hits \cup {run.row}, run.sums, run.copies)
  BY DEF Hit
<1>2. ScanSound /\ run.q.table \in TableNames
  BY HereIsUnchanged
<1>3. DOMAIN tables = TableNames
  BY DEF TypedInv, DbInv, TablesSound
<1>4. u = tables'[run.q.table]
  BY <1>2, <1>3
<1>5. ScanInv'
  BY <1>1, <1>2, <1>4, AdvanceTyped DEF ScanSound
<1>6. TablesTyped'
  BY <1>3, TableReplaced DEF TypedInv
<1>7. FilesTyped' /\ ParsedTyped'
  BY <1>1, FilesStay, ParsedStays DEF TypedInv, NextRow
<1> QED BY <1>5, <1>6, <1>7

LEMMA PassTyped ==
  ASSUME TypedInv, InRow, UNCHANGED tables, NEW hits, NEW sums, NEW copies,
         NextRow(hits, sums, copies),
         hits = run.hits \/ hits = run.hits \cup {run.row},
         copies \in Seq(RowType), DOMAIN sums = DOMAIN run.q.fields,
         \A n \in DOMAIN sums : sums[n] \in ValueType
  PROVE  TablesTyped' /\ FilesTyped' /\ ParsedTyped' /\ ScanInv'
<1>1. Typed(Target)
  BY HereIsUnchanged DEF ScanSound
<1>2. Target = tables'[run.q.table]
  BY DEF Target
<1>3. ScanInv'
  BY <1>1, <1>2, AdvanceTyped
<1>4. TablesTyped' /\ FilesTyped' /\ ParsedTyped'
  BY TablesStay, FilesStay, ParsedStays DEF TypedInv, NextRow
<1> QED BY <1>3, <1>4

\* UPDATE of KEY keeps the keys of the other rows in the index.
LEMMA RekeyTyped ==
  ASSUME TypedInv, DbInv', RekeyRow
  PROVE  TablesTyped' /\ FilesTyped' /\ ParsedTyped' /\ ScanInv'
<1>1. InRow /\ RowVerdict = "true" /\ IsRekey(run.q) /\ run.q.kind \in Mutators
  BY DEF RekeyRow, IsRekey, Mutators
<1>2. /\ ScanSound /\ Sound(Target) /\ run.row \in DOMAIN Target.data
      /\ run.q.table \in TableNames
  BY <1>1, HereIsUnchanged
<1>3. CASE SetKeyCrashes(Target, run.row)
  <2>1. /\ UNCHANGED <<tables, files, parsed, pending>> /\ phase' = "crashed"
    BY <1>3 DEF RekeyRow
  <2> QED BY <2>1, TablesStay, FilesStay, ParsedStays, NoScan DEF TypedInv
<1>4. CASE ~SetKeyCrashes(Target, run.row)
  <2>1. PICK key : key = Head(run.q.keys)
    OBVIOUS
  <2>2. PICK u : u = setKey(Target, run.row, key)
    OBVIOUS
  <2>3. tables' = [tables EXCEPT ![run.q.table] = u] /\ Hit
    BY <1>4, <2>1, <2>2 DEF RekeyRow
  <2>4. key \in KeyType
    <3>1. run.q \in Asked /\ run.q.keys \in Seq(KeyType)
      BY <1>2 DEF ScanSound, Asked, Query
    <3>2. Len(run.q.fields) = 1
      BY <1>1 DEF IsRekey
    <3>3. run.q.keys # << >>
      BY <1>1, <3>1, <3>2 DEF IsRekey, Asked
    <3> QED BY <2>1, <3>1, <3>3
  <2>5. Rekeyed(Target, run.row, key, u)
    BY <1>2, <2>2, <2>4, SetKeyParts DEF ScanSound
  <2>6. /\ Typed(u) /\ u.fields = Target.fields /\ DOMAIN u.data = DOMAIN Target.data
        /\ \A j \in DOMAIN Target.data \ {run.row} : u.data[j] = Target.data[j]
    BY <2>5, Zenon DEF Rekeyed
  <2>7. DOMAIN u.keyMap = (DOMAIN Target.keyMap \ {Here.key}) \cup {key}
    BY <2>5, Zenon DEF Rekeyed, Here
  <2>8. \A k \in DOMAIN Target.keyMap : k # Here.key => k \in DOMAIN u.keyMap
    BY <2>7
  <2> QED BY <1>1, <2>3, <2>6, <2>8, HitTyped
<1> QED BY <1>3, <1>4

LEMMA AggregateTyped ==
  ASSUME TypedInv, AggregateRow
  PROVE  TablesTyped' /\ FilesTyped' /\ ParsedTyped' /\ ScanInv'
<1> DEFINE sums == [n \in DOMAIN run.sums |->
                      Aggregate(run.q.kind, run.sums[n], Cell(run.q.fields[n]))]
<1>1. /\ InRow /\ RowVerdict = "true" /\ run.q.kind \in {"SUM", "MAX"}
      /\ NextRow(run.hits \cup {run.row}, sums, run.copies) /\ UNCHANGED tables
  BY DEF AggregateRow
<1>2. ScanSound
  BY <1>1, HereIsUnchanged
<1>3. ASSUME NEW n \in DOMAIN run.sums PROVE sums[n] \in ValueType
  <2>1. n \in DOMAIN run.q.fields /\ run.sums[n] \in ValueType
    BY <1>2 DEF ScanSound
  <2>2. run.q.fields[n] \in Columns(run.q)
    BY <1>1, <2>1, OperandsAreColumns DEF Scans, IsRekey
  <2>3. PICK c : c = Cell(run.q.fields[n])
    OBVIOUS
  <2>4. PICK acc : acc = run.sums[n]
    OBVIOUS
  <2>5. c \in ValueType /\ acc \in ValueType /\ c \in Int /\ acc \in Int
    BY <1>1, <2>1, <2>2, <2>3, <2>4, CellTyped, ValuesAreIntegers
  <2>6. Wrap(acc + c) \in ValueType
    <3>1. acc + c \in Int
      BY <2>5
    <3> QED BY <3>1, WrapType
  <2>7. Aggregate(run.q.kind, acc, c) \in ValueType
    BY <2>5, <2>6 DEF Aggregate
  <2> QED BY <2>3, <2>4, <2>7
<1>4. DOMAIN sums = DOMAIN run.q.fields /\ run.copies \in Seq(RowType)
  BY <1>2 DEF ScanSound
<1> HIDE DEF sums
<1>5. PICK hits, new, copies :
        hits = run.hits \cup {run.row} /\ new = sums /\ copies = run.copies
  OBVIOUS
<1>6. NextRow(hits, new, copies)
  BY <1>1, <1>5
<1>7. /\ copies \in Seq(RowType) /\ DOMAIN new = DOMAIN run.q.fields
      /\ \A n \in DOMAIN new : new[n] \in ValueType
  BY <1>3, <1>4, <1>5 DEF sums
<1> QED BY <1>1, <1>5, <1>6, <1>7, PassTyped

LEMMA CollectTyped ==
  ASSUME TypedInv, CollectRow
  PROVE  TablesTyped' /\ FilesTyped' /\ ParsedTyped' /\ ScanInv'
<1>1. InRow /\ RowVerdict = "true" /\ run.q.kind = "DUPLICATE" /\ UNCHANGED tables
  BY DEF CollectRow
<1>2. ScanSound /\ Here \in RowType
  BY <1>1, HereIsUnchanged
<1>3. /\ DOMAIN run.sums = DOMAIN run.q.fields /\ run.copies \in Seq(RowType)
      /\ \A n \in DOMAIN run.sums : run.sums[n] \in ValueType
  BY <1>2 DEF ScanSound
<1>4. CASE isOriginalWithCopy(Target, Here.key)
  <2>1. NextRow(run.hits, run.sums, run.copies)
    BY <1>4 DEF CollectRow
  <2> QED BY <1>1, <1>3, <2>1, PassTyped
<1>5. CASE ~isOriginalWithCopy(Target, Here.key)
  <2> DEFINE cells == [n \in DOMAIN Target.fields |-> Cell(Target.fields[n])]
  <2>1. NextRow(run.hits \cup {run.row}, run.sums,
                Append(run.copies, Row(Here.key, cells)))
    BY <1>5 DEF CollectRow
  <2>2. \A n \in DOMAIN Target.fields : Cell(Target.fields[n]) \in ValueType
    <3>1. \A n \in DOMAIN Target.fields : Target.fields[n] \in Columns(run.q)
      BY <1>1, <1>5 DEF Columns, ToSet
    <3> QED BY <1>1, <3>1, CellTyped
  <2>3. DOMAIN Target.fields = 1..Len(Target.fields) /\ Len(Target.fields) \in Nat
    BY <1>2 DEF ScanSound, Typed
  <2>4. cells \in Seq(ValueType)
    BY <2>2, <2>3
  <2> HIDE DEF cells
  <2>5. Row(Here.key, cells) \in RowType
    BY <1>2, <2>4 DEF RowType, Row
  <2>6. PICK copies : copies = Append(run.copies, Row(Here.key, cells))
    OBVIOUS
  <2>7. copies \in Seq(RowType)
    BY <1>3, <2>5, <2>6
  <2>8. NextRow(run.hits \cup {run.row}, run.sums, copies)
    BY <2>1, <2>6
  <2> QED BY <1>1, <1>3, <2>7, <2>8, PassTyped
<1> QED BY <1>4, <1>5

LEMMA RowTyped ==
  ASSUME TypedInv, DbInv', ScanRow
  PROVE  TablesTyped' /\ FilesTyped' /\ ParsedTyped' /\ ScanInv'
<1>1. CASE SkipRow \/ SelectRow
  <2>1. /\ InRow /\ UNCHANGED tables
        /\ \E hits : /\ NextRow(hits, run.sums, run.copies)
                     /\ hits = run.hits \/ hits = run.hits \cup {run.row}
    BY <1>1 DEF SkipRow, SelectRow, Hit
  <2>2. /\ DOMAIN run.sums = DOMAIN run.q.fields /\ run.copies \in Seq(RowType)
        /\ \A n \in DOMAIN run.sums : run.sums[n] \in ValueType
    BY <2>1, HereIsUnchanged DEF ScanSound
  <2> QED BY <2>1, <2>2, PassTyped
<1>2. CASE FailRow
  <2>1. UNCHANGED <<tables, files>> /\ Finish(Error)
    BY <1>2 DEF FailRow
  <2> QED BY <2>1, TablesStay, FilesStay, FinishTyped DEF TypedInv
<1>3. CASE RewriteRow
  <2>1. /\ InRow /\ RowVerdict = "true" /\ run.q.kind \in Mutators
        /\ run.q.fields # <<KEY>> /\ Hit
        /\ tables' = [tables EXCEPT ![run.q.table] = Rewritten]
    BY <1>3 DEF RewriteRow
  <2>2. Wrote(Rewritten)
    BY <2>1, RewrittenWrites
  <2>3. PICK u : u = Rewritten
    OBVIOUS
  <2>4. Wrote(u) /\ tables' = [tables EXCEPT ![run.q.table] = u]
    BY <2>1, <2>2, <2>3
  <2>5. /\ Typed(u) /\ u.fields = Target.fields /\ u.keyMap = Target.keyMap
        /\ DOMAIN u.data = DOMAIN Target.data
        /\ \A j \in DOMAIN Target.data \ {run.row} : u.data[j] = Target.data[j]
    BY <2>4, Zenon DEF Wrote
  <2> QED BY <2>1, <2>4, <2>5, HitTyped
<1>4. CASE RekeyRow
  BY <1>4, RekeyTyped
<1>5. CASE AggregateRow
  BY <1>5, AggregateTyped
<1>6. CASE CollectRow
  BY <1>6, CollectTyped
<1> QED BY <1>1, <1>2, <1>3, <1>4, <1>5, <1>6 DEF ScanRow
-----------------------------------------------------------------------------
\* The ends of a scan, and the copies of DUPLICATE.

\* Among Cardinality + 1 numbers of suffixes there is one that no key has: an
\* index has no more entries than its table has rows.
LEMMA UniqueKey ==
  ASSUME NEW t, Sound(t), NEW key \in KeyType
  PROVE  /\ generateUniqueKey(t, key) \in KeyType
         /\ ~Has(t, generateUniqueKey(t, key))
         /\ ~Has(t, Copy(key)) => generateUniqueKey(t, key) = Copy(key)
<1> DEFINE N == Cardinality(DOMAIN t.keyMap)
           taken == {n \in 1..(N + 1) : Has(t, <<key[1], key[2] + n>>)}
           free == {n \in 1..(N + 1) : ~Has(t, <<key[1], key[2] + n>>)}
           suffixed == [n \in taken |-> <<key[1], key[2] + n>>]
<1>1. IsFiniteSet(DOMAIN t.keyMap) /\ N \in Nat
  <2>1. PICK S : t.data \in Seq(S)
    BY DEF Sound
  <2>2. DOMAIN t.data = 1..Len(t.data) /\ Len(t.data) \in Nat
    BY <2>1, LenProperties
  <2>3. IsFiniteSet(DOMAIN t.data)
    BY <2>2, FS_Interval
  <2> DEFINE at == [k \in DOMAIN t.keyMap |-> t.keyMap[k]]
  <2>4. at \in Injection(DOMAIN t.keyMap, DOMAIN t.data)
    BY DEF Sound, IndexInRange, Injection, IsInjective
  <2>5. IsFiniteSet(DOMAIN t.keyMap)
    BY <2>3, <2>4, FS_Injection
  <2> QED BY <2>5, FS_CardinalityType
<1>2. key[1] \in KeyBases /\ key[2] \in Nat
  BY DEF KeyType
<1> HIDE DEF N
<1>3. free # {}
  <2> SUFFICES ASSUME free = {} PROVE FALSE
    OBVIOUS
  <2>1. taken = 1..(N + 1)
    OBVIOUS
  <2>2. suffixed \in Injection(1..(N + 1), DOMAIN t.keyMap)
    <3>1. suffixed \in [1..(N + 1) -> DOMAIN t.keyMap]
      BY <2>1 DEF Has
    <3>2. \A m, n \in 1..(N + 1) : suffixed[m] = suffixed[n] => m = n
      BY <1>1, <1>2, <2>1
    <3> QED BY <3>1, <3>2 DEF Injection, IsInjective
  <2>3. Cardinality(1..(N + 1)) = N + 1
    BY <1>1, FS_Interval
  <2>4. Cardinality(1..(N + 1)) <= Cardinality(DOMAIN t.keyMap)
    BY <1>1, <2>2, FS_Injection
  <2> QED BY <1>1, <2>3, <2>4 DEF N
<1>4. free \in SUBSET Nat
  BY <1>1
<1>5. Min(free) \in free /\ \A n \in free : Min(free) <= n
  BY <1>3, <1>4, MinIsLeast
<1>6. generateUniqueKey(t, key) = <<key[1], key[2] + Min(free)>>
  BY DEF generateUniqueKey, N
<1>7. ~Has(t, Copy(key)) => Min(free) = 1
  <2> SUFFICES ASSUME ~Has(t, Copy(key)) PROVE Min(free) = 1
    OBVIOUS
  <2>1. 1 \in free
    BY <1>1 DEF Copy
  <2> QED BY <1>4, <1>5, <2>1
<1> HIDE DEF free
<1>8. Min(free) \in Nat
  BY <1>4, <1>5
<1>9. generateUniqueKey(t, key) \in KeyType
  BY <1>2, <1>6, <1>8 DEF KeyType
<1>10. ~Has(t, generateUniqueKey(t, key))
  BY <1>5, <1>6 DEF free
<1> QED BY <1>6, <1>7, <1>9, <1>10 DEF Copy

LEMMA InsertCopyTyped ==
  ASSUME TypedInv, InsertCopy
  PROVE  TablesTyped' /\ FilesTyped' /\ ParsedTyped' /\ ScanInv'
<1>1. /\ phase = "insert" /\ run.copies # << >>
      /\ run' = [run EXCEPT !.copies = Tail(run.copies)]
      /\ UNCHANGED <<session, files, cache, parsed, pending, phase, answer>>
  BY DEF InsertCopy
<1>2. /\ ScanSound /\ run.q.table \in TableNames /\ Sound(Target)
      /\ DOMAIN tables = TableNames
  BY <1>1 DEF TypedInv, ScanInv, ScanSound, Asked, Scans, DbInv, RunSound, TablesSound
<1>3. PICK copy : copy = Head(run.copies)
  OBVIOUS
<1>4. copy \in RowType /\ Tail(run.copies) \in Seq(RowType)
  BY <1>1, <1>2, <1>3 DEF ScanSound
<1>5. PICK key : key = generateUniqueKey(Target, copy.key)
  OBVIOUS
<1>6. key \in KeyType
  BY <1>2, <1>4, <1>5, UniqueKey DEF RowType
<1>7. PICK u : u = insertByIndex(Target, key, copy.vals)
  OBVIOUS
<1>8. tables' = [tables EXCEPT ![run.q.table] = u]
  BY <1>3, <1>5, <1>7 DEF InsertCopy
<1>9. Typed(u)
  BY <1>2, <1>4, <1>6, <1>7, InsertTyped DEF ScanSound, RowType
<1>10. u.fields = Target.fields /\ u.data = Append(Target.data, Row(key, copy.vals))
  BY <1>2, <1>7, InsertParts
<1>11. \A j \in DOMAIN Target.data : j \in DOMAIN u.data /\ u.data[j] = Target.data[j]
  BY <1>2, <1>10 DEF ScanSound, Typed
<1>12. TablesTyped'
  BY <1>2, <1>8, <1>9, TableReplaced DEF TypedInv
<1>13. FilesTyped' /\ ParsedTyped'
  BY <1>1, FilesStay, ParsedStays DEF TypedInv
<1>14. /\ run'.q = run.q /\ run'.before = run.before /\ run'.row = run.row
       /\ run'.hits = run.hits /\ run'.sums = run.sums
       /\ run'.copies = Tail(run.copies)
  BY <1>1 DEF TypedInv, DbInv, RunSound, RunShape
<1>15. Target' = u
  BY <1>2, <1>8, <1>14 DEF Target
<1>16. ScanSound'
  BY <1>2, <1>4, <1>9, <1>10, <1>11, <1>14, <1>15 DEF ScanSound
<1>17. RowsKept'
  BY <1>1, <1>11, <1>14, <1>15 DEF TypedInv, ScanInv, RowsKept
<1> QED BY <1>1, <1>12, <1>13, <1>16, <1>17 DEF ScanInv

LEMMA EndTyped ==
  ASSUME TypedInv, EndScan \/ InsertCopy \/ EndDuplicate \/ DumpWrite
  PROVE  TablesTyped' /\ FilesTyped' /\ ParsedTyped' /\ ScanInv'
<1>1. CASE EndScan
  <2>1. CASE UNCHANGED tables /\ \E result : Finish(result)
    BY <1>1, <2>1, TablesStay, FilesStay, FinishTyped DEF EndScan, TypedInv
  <2>2. ASSUME NEW keys, NEW result, Finish(result),
               tables' = [tables EXCEPT ![run.q.table] = eraseMany(Target, keys)]
        PROVE  TablesTyped' /\ FilesTyped' /\ ParsedTyped' /\ ScanInv'
    <3>1. phase = "scan" /\ UNCHANGED files
      BY <1>1 DEF EndScan
    <3>2. /\ Typed(Target) /\ run.q.table \in TableNames /\ Sound(Target)
          /\ DOMAIN tables = TableNames
      BY <3>1 DEF TypedInv, ScanInv, ScanSound, Asked, Scans, DbInv, RunSound,
                  TablesSound
    <3>3. PICK u : u = eraseMany(Target, keys)
      OBVIOUS
    <3>4. Erased(Target, keys, u)
      BY <3>2, <3>3, EraseManyParts
    <3>5. Typed(u)
      BY <3>4, Zenon DEF Erased
    <3>6. TablesTyped'
      BY <2>2, <3>2, <3>3, <3>5, TableReplaced DEF TypedInv
    <3> QED BY <2>2, <3>1, <3>6, FilesStay, FinishTyped DEF TypedInv
  <2>3. CASE /\ phase' = "insert"
             /\ UNCHANGED <<session, tables, cache, parsed, pending, run, answer>>
    <3>1. phase = "scan" /\ UNCHANGED files
      BY <1>1 DEF EndScan
    <3>2. ScanSound'
      BY <2>3, <3>1 DEF TypedInv, ScanInv, ScanSound, Target
    <3>3. run.q.kind = "DUPLICATE" /\ Target = run.before
      <4>1. run.q.kind = "DUPLICATE" \/ \E result : Finish(result)
        BY <1>1 DEF EndScan
      <4>2. \A result : ~Finish(result)
        BY <2>3 DEF Finish
      <4> QED BY <3>1, <4>1, <4>2 DEF TypedInv, ScanInv, RowsToCome, Mutators
    <3>4. RowsKept'
      BY <2>3, <3>3 DEF RowsKept, Target
    <3>5. ScanInv'
      BY <2>3, <3>2, <3>4 DEF ScanInv
    <3> QED BY <2>3, <3>1, <3>5, TablesStay, FilesStay, ParsedStays DEF TypedInv
  <2> QED BY <1>1, <2>1, <2>2, <2>3 DEF EndScan
<1>2. CASE InsertCopy
  BY <1>2, InsertCopyTyped
<1>3. CASE EndDuplicate
  BY <1>3, TablesStay, FilesStay, FinishTyped DEF EndDuplicate, TypedInv
<1>4. CASE DumpWrite
  BY <1>4, DumpTyped
<1> QED BY <1>1, <1>2, <1>3, <1>4

LEMMA TypedStep == TypedInv /\ [Next]_vars => TypedInv'
<1> SUFFICES ASSUME TypedInv, [Next]_vars PROVE TypedInv'
  OBVIOUS
<1>a. DbInv
  BY DEF TypedInv
<1>1. CASE \E q \in session.input : parseQuery(q)
  BY <1>a, <1>1, ParseStep, ParseTyped DEF TypedInv
<1>2. CASE \E i \in DOMAIN pending : StartQuery(i)
  BY <1>a, <1>2, StartStep, StartTyped DEF TypedInv
<1>3. CASE ScanRow
  <2>1. DbInv'
    BY <1>a, <1>3, ScanStep
  <2> QED BY <1>3, <2>1, RowTyped DEF TypedInv
<1>4. CASE EndScan \/ InsertCopy \/ EndDuplicate \/ DumpWrite
  BY <1>a, <1>4, EndStep, EndTyped DEF TypedInv
<1>5. CASE UNCHANGED vars
  <2>1. DbInv'
    BY <1>a, <1>5, DbInvStep
  <2>2. UNCHANGED <<tables, files, parsed, pending, phase, run>>
    BY <1>5 DEF vars
  <2> QED BY <2>1, <2>2, TablesStay, FilesStay, ParsedStays, ScanStays DEF TypedInv
<1> QED BY <1>1, <1>2, <1>3, <1>4, <1>5 DEF Next

LEMMA TypedInvariant == Spec => []TypedInv
BY TypedInit, TypedStep, PTL DEF Spec

\* The state is as the code's types allow, and a scan never runs past the end of
\* its table nor hits a row it has not passed.
THEOREM DatabaseTypeCorrect == Spec => []DbTypeOK
<1>1. TypedInv => DbTypeOK
  <2> SUFFICES ASSUME TypedInv PROVE DbTypeOK
    OBVIOUS
  <2>1. session \in Sessions
    BY DEF TypedInv, DbInv
  <2>2. ASSUME NEW n \in TableNames, tables[n] # Missing PROVE IsTable(tables[n])
    <3>1. PICK t : t = tables[n]
      OBVIOUS
    <3>2. Typed(t) /\ Sound(t)
      BY <2>2, <3>1 DEF TypedInv, TablesTyped, DbInv, TablesSound
    <3>3. \A i \in DOMAIN t.data : IsRow(t.data[i])
      <4>1. \A i \in DOMAIN t.data : t.data[i] \in RowType
        BY <3>2 DEF Typed
      <4> QED BY <4>1 DEF RowType, IsRow
    <3>4. \A k \in DOMAIN t.keyMap : t.keyMap[k] \in Nat
      <4>1. DOMAIN t.data = 1..Len(t.data)
        BY <3>2 DEF Typed
      <4> QED BY <3>2, <4>1 DEF Sound, IndexInRange
    <3> QED BY <3>1, <3>2, <3>3, <3>4 DEF IsTable, Typed
  <2>3. ASSUME NEW f \in Files
        PROVE  /\ files[f].kind \in {"absent", "empty", "table"}
               /\ cache[f] \in TableNames \cup {NoName, Missing}
    BY DEF TypedInv, FilesTyped, FileTyped, DbInv, CacheSound, Names
  <2>4. parsed \in 0..MaxQueries /\ Len(pending) <= parsed
    BY DEF TypedInv, ParsedTyped
  <2>5. phase \in {"idle", "scan", "insert", "dump", "crashed"}
    BY DEF TypedInv, ScanInv
  <2>6. ASSUME phase \in {"scan", "insert"}
        PROVE  /\ run.row \in 1..(Len(Target.data) + 1)
               /\ run.hits \subseteq 1..(run.row - 1)
    <3>1. ScanSound
      BY <2>6 DEF TypedInv, ScanInv
    <3>2. /\ DOMAIN run.before.data = 1..Len(run.before.data)
          /\ DOMAIN Target.data = 1..Len(Target.data)
          /\ Len(run.before.data) \in Nat /\ Len(Target.data) \in Nat
      BY <3>1 DEF ScanSound, Typed
    <3>3. DOMAIN run.before.data \subseteq DOMAIN Target.data
      BY <2>6 DEF TypedInv, ScanInv, RowsToCome, RowsKept
    <3>4. Len(run.before.data) <= Len(Target.data)
      BY <3>2, <3>3
    <3> QED BY <3>1, <3>2, <3>4 DEF ScanSound
  <2> QED BY <2>1, <2>2, <2>3, <2>4, <2>5, <2>6, Zenon DEF DbTypeOK
<1> QED BY TypedInvariant, <1>1, PTL
================================================================================
