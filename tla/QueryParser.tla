----------------------------- MODULE QueryParser -----------------------------
(***************************************************************************)
(* The parser of LemonDB (Projects/p2/src/query/QueryParser.cpp and        *)
(* QueryBuilders.cpp): a chain of three builders, each of which makes a    *)
(* query of a line of tokens or hands the line on, the last one to a       *)
(* builder that throws.  The builders live as long as the parser, and the  *)
(* third collects what it parses in its own fields: what one line leaves   *)
(* there is there when the next line comes.                                *)
(***************************************************************************)
EXTENDS Naturals, Sequences, SequencesExt

CONSTANTS QueryLines,   \* the lines, sequences of tokens, that a user may type
          MaxLines,     \* bound: how many lines are parsed
          QueryForms    \* the queries that QueryLines is meant to contain

DataKinds == {"INSERT", "UPDATE", "SELECT", "DELETE", "DUPLICATE", "SUM", "MAX",
              "SUB", "SWAP"}
NopKinds == {"COUNT", "MIN", "ADD"}

\* A query: its kind, its names (table, file, new table), operands, conditions.
Built(kind, names, operands, where) ==
  [kind |-> kind, names |-> names, operands |-> operands, where |-> where]
Failed == Built("failed", << >>, << >>, << >>)
Condition(field, op, value) == <<field, op, value>>

\* The names a management query has after its keyword.
Management == [LIST |-> 0, QUIT |-> 0, SHOWTABLE |-> 1, LOAD |-> 1, DROP |-> 1,
               TRUNCATE |-> 1, DUMP |-> 2, COPYTABLE |-> 2]

\* No operand is a closing parenthesis: there is no way to write that down.
IsForm(q) ==
  /\ q = Built(q.kind, q.names, q.operands, q.where)
  /\ q.names \in Seq(STRING) /\ q.operands \in Seq(STRING \ {")"})
  /\ q.where \in Seq(STRING \X STRING \X STRING)
  /\ IF q.kind \in DOMAIN Management
     THEN Len(q.names) = Management[q.kind] /\ q.operands = << >> /\ q.where = << >>
     ELSE q.kind \in DataKinds \cup NopKinds /\ Len(q.names) = 1

ASSUME QueryAssumption ==
  QueryLines \subseteq Seq(STRING) /\ \A q \in QueryForms : IsForm(q)

VARIABLES qLine,      \* the tokens being parsed
          qAt,        \* which builder or clause has it, "idle" between lines
          qPos,       \* the token the iterator points at
          qBuilder,   \* the fields of ComplexQueryBuilder
          qResult,    \* what the last line was made into
          qCount      \* how many lines were typed

qVars == <<qLine, qAt, qPos, qBuilder, qResult, qCount>>

Fresh == [targetTable |-> "", operandToken |-> << >>, conditionToken |-> << >>]

Tok(n) == IF n <= Len(qLine) THEN qLine[n] ELSE "end"
AtEnd == qPos > Len(qLine)

QueryIdle ==
  /\ qLine = << >> /\ qAt = "idle" /\ qPos = 1
  /\ qBuilder = Fresh /\ qResult = Failed

\* clear(), which every builder passes on, and the last one obeys.

\* A plausible bug: the operands are not cleared.
clearButOperands(b) == [b EXCEPT !.targetTable = "", !.conditionToken = << >>]

clear(b) == Fresh

\* parseQuery: an empty line is rejected before the builders are cleared.
parseLine(line) ==
  /\ qAt = "idle" /\ qCount < MaxLines
  /\ qCount' = qCount + 1
  /\ qLine' = line /\ qPos' = 1
  /\ IF line = << >>
     THEN qResult' = Failed /\ UNCHANGED <<qAt, qBuilder>>
     ELSE qAt' = "debug" /\ qBuilder' = clear(qBuilder) /\ UNCHANGED qResult

Goto(at, pos) == /\ qAt' = at /\ qPos' = pos
                 /\ UNCHANGED <<qLine, qResult, qCount>>
Build(query) == /\ qAt' = "idle" /\ qResult' = query
                /\ UNCHANGED <<qLine, qPos, qBuilder, qCount>>

DebugKinds == {"LIST", "QUIT", "SHOWTABLE"}
Matches(kinds) == qLine[1] \in kinds /\ Len(qLine) = Management[qLine[1]] + 1

DebugQueryBuilder ==
  /\ qAt = "debug"
  /\ IF Matches(DebugKinds) THEN Build(Built(qLine[1], Tail(qLine), << >>, << >>))
     ELSE Goto("manage", qPos) /\ UNCHANGED qBuilder

ManageTableQueryBuilder ==
  /\ qAt = "manage"
  /\ IF Matches(DOMAIN Management \ DebugKinds)
     THEN Build(Built(qLine[1], Tail(qLine), << >>, << >>))
     ELSE Goto("operand", 2) /\ UNCHANGED qBuilder

\* parseOperand: nothing, or a list in parentheses, and then FROM.  The operands
\* of a list that is never closed stay in the builder.
Closes(n) == Tok(n) = ")" /\ \A m \in 3..(n - 1) : Tok(m) # ")"

parseOperand ==
  /\ qAt = "operand"
  /\ \/ /\ AtEnd \/ Tok(qPos) \notin {"FROM", "("}
        /\ Build(Failed)
     \/ /\ Tok(qPos) = "FROM"
        /\ Goto("from", qPos) /\ UNCHANGED qBuilder
     \/ /\ Tok(qPos) = "("
        /\ LET closing == {n \in 3..Len(qLine) : Closes(n)}
               end == IF closing = {} THEN Len(qLine) + 1 ELSE CHOOSE n \in closing : TRUE
               operands == qBuilder.operandToken \o SubSeq(qLine, 3, end - 1)
           IN  /\ qBuilder' = [qBuilder EXCEPT !.operandToken = operands]
               /\ IF Tok(end + 1) = "FROM" THEN Goto("from", end + 1)
                  ELSE /\ qAt' = "idle" /\ qResult' = Failed
                       /\ UNCHANGED <<qLine, qPos, qCount>>

parseFromClause ==
  /\ qAt = "from"
  /\ IF qPos + 1 > Len(qLine) THEN Build(Failed)
     ELSE /\ qBuilder' = [qBuilder EXCEPT !.targetTable = qLine[qPos + 1]]
          /\ Goto(IF qPos + 2 > Len(qLine) THEN "extract" ELSE "where", qPos + 2)

parseWhereClause ==
  /\ qAt = "where"
  /\ IF Tok(qPos) # "WHERE" THEN Build(Failed)
     ELSE Goto("condition", qPos + 1) /\ UNCHANGED qBuilder

\* One turn of the loop: ( field op value ).  Any token will do for the three.
parseCondition ==
  /\ qAt = "condition"
  /\ \/ AtEnd /\ Goto("extract", qPos) /\ UNCHANGED qBuilder
     \/ /\ ~AtEnd
        /\ Tok(qPos) # "(" \/ qPos + 4 > Len(qLine) \/ Tok(qPos + 4) # ")"
        /\ Build(Failed)
     \/ /\ Tok(qPos) = "(" /\ Tok(qPos + 4) = ")"
        /\ qBuilder' = [qBuilder EXCEPT !.conditionToken =
                          Append(@, Condition(Tok(qPos + 1), Tok(qPos + 2),
                                              Tok(qPos + 3)))]
        /\ Goto("condition", qPos + 5)

\* The rest of ComplexQueryBuilder::tryExtractQuery; COUNT, MIN and ADD are made
\* into a NopQuery, which forgets everything.
tryExtractQuery ==
  /\ qAt = "extract"
  /\ Build(CASE qLine[1] \in DataKinds ->
                  Built(qLine[1], <<qBuilder.targetTable>>,
                        qBuilder.operandToken, qBuilder.conditionToken)
             [] qLine[1] \in NopKinds -> Built("NOP", << >>, << >>, << >>)
             [] OTHER -> Failed)

QueryInit == QueryIdle /\ qCount = 0
QueryNext ==
  \/ \E line \in QueryLines : parseLine(line)
  \/ DebugQueryBuilder \/ ManageTableQueryBuilder
  \/ parseOperand \/ parseFromClause \/ parseWhereClause \/ parseCondition
  \/ tryExtractQuery
QuerySpec == QueryInit /\ [][QueryNext]_qVars
-----------------------------------------------------------------------------
\* The language, by how a query is written down.
WhereText(where) ==
  IF where = << >> THEN {<< >>, <<"WHERE">>}
  ELSE {<<"WHERE">> \o
          FlattenSeq([i \in DOMAIN where |-> <<"(">> \o where[i] \o <<")">>])}
OperandText(operands) ==
  {<<"(">> \o operands \o <<")">>} \cup IF operands = << >> THEN {<< >>} ELSE {}
Texts(q) ==
  IF q.kind \in DOMAIN Management THEN {<<q.kind>> \o q.names}
  ELSE {<<q.kind>> \o ops \o <<"FROM", q.names[1]>> \o where :
          ops \in OperandText(q.operands), where \in WhereText(q.where)}

\* A line is made into the query it writes down, whatever lines, half-parsed
\* ones included, the builders saw before (QueryParser.cpp:21,
\* QueryBuilders.cpp:206-213, 280-285), and a line that writes down none of the
\* queries is refused.  But a COUNT, MIN or ADD, once it is parsed to its end, is
\* made into the query that does nothing: see EveryQueryIsBuilt.
QueryIsWhatTheLineSays ==
  qAt = "idle" /\ qCount > 0 =>
    LET said == {q \in QueryForms : qLine \in Texts(q)}
    IN  CASE qResult.kind = "NOP" ->
               /\ \A q \in said : q.kind \in NopKinds
               /\ qLine \in Texts(Built(qLine[1], <<qBuilder.targetTable>>,
                                        qBuilder.operandToken,
                                        qBuilder.conditionToken))
          [] qResult.kind = "failed" -> said = {}
          [] OTHER -> qLine \in Texts(qResult) /\ said \subseteq {qResult}

\* README.md:55-58: "COUNT FROM <table> [WHERE (...)]", MIN and ADD are among the
\* data queries: a line that is accepted is made into a query of the kind it names.
EveryQueryIsBuilt ==
  qAt = "idle" /\ qCount > 0 /\ qResult.kind # "failed" => qResult.kind = qLine[1]
=============================================================================
