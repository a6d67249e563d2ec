---------------------------- MODULE SerialDatabase ----------------------------
(***************************************************************************)
(* What LemonDB promises whoever reads its output: the answers come in the *)
(* order of the queries, each at most once, and each says what a database  *)
(* that runs one query at a time in that order would have said.  A query   *)
(* whose execution throws has no answer.                                   *)
(***************************************************************************)
EXTENDS Queries

CONSTANT MaxFaults   \* bound: the number of queries that throw

VARIABLES asked,        \* the queries read so far
          answered,     \* how many of them are dealt with
          db,           \* the contents that the answered queries left
          transcript    \* the answers printed

serialVars == <<asked, answered, db, transcript>>

Init ==
  /\ asked = <<>>
  /\ answered = 0
  /\ db = [o \in Objects |-> 0]
  /\ transcript = <<>>

Ask(q) ==
  /\ asked' = Append(asked, q)
  /\ UNCHANGED <<answered, db, transcript>>

Reply(q, contents) ==
  IF PrintsItself(q) THEN EmptyView ELSE ViewOf(contents, q)

Execute ==
  /\ answered < Len(asked)
  /\ answered' = answered + 1
  /\ db' = WrittenBy(db, asked[answered'], answered')
  /\ UNCHANGED asked

Answer ==
  /\ Execute
  /\ LET reply == Reply(asked[answered'], db)
     IN  transcript' = Append(transcript, [seq   |-> answered',
                                           first |-> reply,
                                           last  |-> reply])

Throw ==
  /\ answered - Len(transcript) < MaxFaults
  /\ Execute
  /\ UNCHANGED transcript

Next ==
  \/ \E q \in Input \cup {QuitQuery} : Ask(q)
  \/ Answer
  \/ Throw

Spec == Init /\ [][Next]_serialVars
=============================================================================
