------------------------------ MODULE MCPrograms ------------------------------
(***************************************************************************)
(* The instance of the small programs that TLC checks, each by itself: the *)
(* parser of LemonDB on pairs of lines with at most one token wrong, that  *)
(* of mumsh on all lines of a few characters, with and without a newline,  *)
(* both sorts on all files of a few lines, two runs of each counter by two *)
(* processes, and two open files of a device whose buffer three dice       *)
(* overrun.                                                                *)
(***************************************************************************)
EXTENDS QueryParser, ShellParser, SortedLists, Counters, Dice

CONSTANT MaxLength   \* bound: the length of a command line

MCQueryForms ==
  {Built("LIST", << >>, << >>, << >>), Built("DROP", <<"t">>, << >>, << >>),
   Built("DUMP", <<"t", "f">>, << >>, << >>), Built("COUNT", <<"t">>, << >>, << >>),
   Built("SELECT", <<"t">>, <<"KEY">>, << >>),
   Built("DUPLICATE", <<"t">>, << >>, <<Condition("x", ">", "1")>>),
   Built("SUM", <<"t">>, <<"x", "y">>,
         <<Condition("x", "<", "1"), Condition("KEY", "=", "a")>>)}

Without(line, n) == SubSeq(line, 1, n - 1) \o SubSeq(line, n + 1, Len(line))
OneTokenWrong(line) ==
  {Without(line, n) : n \in DOMAIN line}
    \cup {[line EXCEPT ![n] = tok] : n \in DOMAIN line, tok \in {"(", ")", "FROM"}}
MCQueryLines ==
  LET good == UNION {Texts(q) : q \in MCQueryForms}
  IN  good \cup UNION {OneTokenWrong(line) : line \in good}

MCShellLines ==
  LET texts == UNION {[1..n -> {"w", "b", ">", "<", "|"}] : n \in 1..MaxLength}
  IN  texts \cup {Append(line, "n") : line \in texts}

MCValues == {-4, 0, 2, 3}

VARIABLE program   \* the one that runs

Init ==
  /\ program \in {"queries", "commands", "lists", "counters", "dice"}
  /\ QueryInit /\ DiceIdle
  /\ IF program = "commands" THEN ShellInit ELSE ShellIdle
  /\ IF program = "lists" THEN ListInit ELSE ListIdle
  /\ IF program = "counters" THEN CounterInit ELSE CounterIdle
Next ==
  \/ program = "queries" /\ QueryNext /\ UNCHANGED <<program, sVars, lVars, cVars, dVars>>
  \/ program = "commands" /\ ShellNext /\ UNCHANGED <<program, qVars, lVars, cVars, dVars>>
  \/ program = "lists" /\ ListNext /\ UNCHANGED <<program, qVars, sVars, cVars, dVars>>
  \/ program = "counters" /\ CounterNext /\ UNCHANGED <<program, qVars, sVars, lVars, dVars>>
  \/ program = "dice" /\ DiceNext /\ UNCHANGED <<program, qVars, sVars, lVars, cVars>>
Spec == Init /\ [][Next]_<<program, qVars, sVars, lVars, cVars, dVars>>
=============================================================================
