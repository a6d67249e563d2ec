------------------------------- MODULE Queries -------------------------------
(***************************************************************************)
(* The queries of LemonDB as the scheduler sees them                       *)
(* (Projects/p2/src/query/Query.h and its subclasses).  A query is         *)
(* abstracted to its kind, which is what isReadOnly, isDbLevel and isQuit  *)
(* tell apart, and to its target table:                                    *)
(*   "read"   SELECT, SUM, MAX                                             *)
(*   "show"   SHOWTABLE, a read that prints its table itself               *)
(*   "list"   LIST, read-only, with the empty target table                 *)
(*   "write"  INSERT, UPDATE, DELETE, DUPLICATE, SWAP, SUB, TRUNCATE, DUMP *)
(*   "db"     LOAD, DROP, COPYTABLE                                        *)
(*   "nop"    COUNT, MIN, ADD: parsed to NopQuery, with the empty table    *)
(*   "quit"   QUIT, which never becomes a task                             *)
(***************************************************************************)
EXTENDS Naturals, Sequences

CONSTANTS Tables,      \* the names of tables
          NoTable,     \* the empty table name
          Input,       \* the queries that a user may type, but QUIT
          MaxQueries   \* bound: the number of queries in the input, but QUIT

TableKinds == {"read", "show", "write"}
OtherKinds == {"list", "db", "nop"}

\* The scheduler never looks at the table of a DB-level query: it is left out.
Query == [kind : TableKinds, table : Tables]
           \cup [kind : OtherKinds, table : {NoTable}]
QuitQuery == [kind |-> "quit", table |-> NoTable]

ASSUME TablesAssumption == NoTable \notin Tables
ASSUME InputAssumption == Input \subseteq Query
ASSUME MaxQueriesAssumption == MaxQueries \in Nat

isReadOnly(q) == q.kind \in {"read", "show", "list"}
isDbLevel(q) == q.kind = "db"
TableRead(q) == isReadOnly(q) /\ q.table # NoTable
TableWrite(q) == ~isReadOnly(q) /\ ~isDbLevel(q) /\ q.table # NoTable
-----------------------------------------------------------------------------
\* What execute() may look at and change: a table query looks its table up in
\* the table set and works on that table, a DB-level query changes the table
\* set and may touch any table, LIST reads the table set and every table's size.

TableSet == NoTable   \* the map of tables, an object next to the tables
Objects == Tables \cup {TableSet}

Footprint(q) ==
  CASE q.kind \in TableKinds      -> {q.table, TableSet}
    [] q.kind \in {"list", "db"}  -> Objects
    [] q.kind \in {"nop", "quit"} -> {}

Writes(q) ==
  CASE q.kind = "write" -> {q.table}
    [] q.kind = "db"    -> Objects
    [] OTHER            -> {}

\* SHOWTABLE and LIST write to std::cout from execute(); what they return is
\* a bare message.
PrintsItself(q) == q.kind \in {"show", "list"}

\* Two queries whose order can be told from their results.
Conflict(p, q) ==
  \/ Writes(p) \cap Footprint(q) # {}
  \/ Writes(q) \cap Footprint(p) # {}

\* An object's content is abstracted to the number of the query that wrote it
\* last, 0 in the beginning; a view is what a query saw of its footprint.
Version == 0 .. MaxQueries
View == UNION {[S -> Version] : S \in SUBSET Objects}
EmptyView == [o \in {} |-> 0]
ViewOf(contents, q) == [o \in Footprint(q) |-> contents[o]]
WrittenBy(contents, q, seq) ==
  [o \in Objects |-> IF o \in Writes(q) THEN seq ELSE contents[o]]
=============================================================================
