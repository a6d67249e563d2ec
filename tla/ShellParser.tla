----------------------------- MODULE ShellParser -----------------------------
(***************************************************************************)
(* How mumsh parses a command line (Projects/p1/src/parser.c, utility.c    *)
(* and the ends of run_command in main.c): preprocess puts blanks around   *)
(* the redirections, check_syntax looks at the whole line, and             *)
(* parse_pipeline cuts it at the pipes and tokenizes one stage after       *)
(* another, each into strings of its own that every exit must free.        *)
(* A line is a sequence of characters: "w" of a word, "b" a blank, "n" the *)
(* newline that fgets leaves, ">", "<" and "|".                            *)
(***************************************************************************)
EXTENDS Naturals, Sequences, FiniteSets, SequencesExt

CONSTANT ShellLines   \* the lines that a user may type

Chars == {"w", "b", "n", ">", "<", "|"}

ASSUME ShellAssumption == ShellLines \subseteq Seq(Chars)

VARIABLES sLine,      \* what fgets read
          sAt,        \* where parse_pipeline is
          sParts,     \* what strtok_r has still to cut off, part by part
          sStages,    \* the stages
          sCount,     \* the stages parsed so far
          sLive,      \* strings and buffers allocated and not freed
          sResult     \* what parse_pipeline returned

sVars == <<sLine, sAt, sParts, sStages, sCount, sLive, sResult>>

NoFile == << >>
EmptyStage == [argv |-> << >>, infile |-> NoFile, outfile |-> NoFile,
               append |-> FALSE]

Redirection(c) == c \in {">", "<"}
is_special_char(c) == c \in {">", "<", "b"}

\* What preprocess makes of one character.  The first and the last character
\* of the line are cases of their own.
CharAt(line, i) == IF i \in DOMAIN line THEN line[i] ELSE "end"

\* A plausible bug: a redirection gets two blanks whatever is next to it.
SpreadAlways(line, i) ==
  IF Redirection(line[i]) THEN <<"b", line[i], "b">> ELSE <<line[i]>>

Spread(line, i) ==
  LET blankBefore == i > 1 /\ ~is_special_char(line[i - 1])
      blankAfter == /\ ~is_special_char(CharAt(line, i + 1))
                    /\ i = 1 \/ i < Len(line)
  IN  IF ~Redirection(line[i]) THEN <<line[i]>>
      ELSE (IF blankBefore THEN <<"b">> ELSE << >>) \o <<line[i]>>
             \o (IF blankAfter THEN <<"b">> ELSE << >>)
preprocess(line) == FlattenSeq([i \in DOMAIN line |-> Spread(line, i)])

\* A redirection and then a pipe, with blanks between them at most.
check_syntax(proc) ==
  ~\E i, j \in DOMAIN proc :
     /\ i < j /\ Redirection(proc[i]) /\ proc[j] = "|"
     /\ \A k \in (i + 1)..(j - 1) : proc[k] \in {"b", "n"}

\* The numbers of a set in ascending order.
Ascending(S) ==
  [n \in 1..Cardinality(S) |-> CHOOSE i \in S : Cardinality({j \in S : j <= i}) = n]

\* The longest runs of characters of one kind, but for those of one that is dropped.
RunStarts(kind, dropped) ==
  {i \in DOMAIN kind : kind[i] # dropped /\ (i = 1 \/ kind[i - 1] # kind[i])}
RunEnd(kind, i) ==
  CHOOSE j \in i..Len(kind) : /\ \A k \in i..j : kind[k] = kind[i]
                              /\ j = Len(kind) \/ kind[j + 1] # kind[i]
Runs(line, kind, dropped) ==
  LET starts == Ascending(RunStarts(kind, dropped))
  IN  [n \in DOMAIN starts |-> SubSeq(line, starts[n], RunEnd(kind, starts[n]))]

\* strtok_r: the runs of characters that are not delimiters.
Cuts(line, delimiters) ==
  [i \in DOMAIN line |-> IF line[i] \in delimiters THEN "gap" ELSE "token"]
strtok(line, delimiters) == Runs(line, Cuts(line, delimiters), "gap")

\* tokenize, token by token: "wants" is the redirection whose file comes next.
\* What it read before it failed is dropped, but for the files' names.
Redirections == {<<">">>, <<">", ">">>, <<"<">>}
Begun == [stage |-> EmptyStage, wants |-> "word", ok |-> TRUE]
Fail(t) == [t EXCEPT !.ok = FALSE, !.stage.argv = << >>]

Token(t, tok) ==
  CASE ~t.ok -> t
    [] t.ok /\ t.wants # "word" ->
         IF tok \in Redirections THEN Fail(t)
         ELSE IF t.wants = "in" THEN [t EXCEPT !.stage.infile = tok, !.wants = "word"]
         ELSE [t EXCEPT !.stage.outfile = tok, !.wants = "word",
                        !.stage.append = (t.wants = "append")]
    [] t.ok /\ t.wants = "word" /\ tok = <<"<">> ->
         IF t.stage.infile # NoFile THEN Fail(t) ELSE [t EXCEPT !.wants = "in"]
    [] t.ok /\ t.wants = "word" /\ tok \in Redirections \ {<<"<">>} ->
         IF t.stage.outfile # NoFile THEN Fail(t)
         ELSE [t EXCEPT !.wants = IF Len(tok) = 2 THEN "append" ELSE "out"]
    [] OTHER -> [t EXCEPT !.stage.argv = Append(@, tok)]

tokenize(part) ==
  LET t == FoldLeft(Token, Begun, strtok(part, {"b", "n"}))
  IN  IF t.wants # "word" \/ t.stage.argv = << >> THEN Fail(t) ELSE t

\* The strings a stage owns.
Strings(st) == Len(st.argv) + (IF st.infile = NoFile THEN 0 ELSE 1)
                            + (IF st.outfile = NoFile THEN 0 ELSE 1)
SumStrings(stages, n) == FoldLeft(LAMBDA acc, st : acc + Strings(st), 0,
                                  SubSeq(stages, 1, n))

ShellIdle == /\ sLine = << >> /\ sAt = "done" /\ sParts = << >>
             /\ sStages = << >> /\ sCount = 0 /\ sLive = 0 /\ sResult = << >>

ShellInit ==
  /\ sLine \in ShellLines
  /\ sAt = "read" /\ sParts = << >> /\ sStages = << >>
  /\ sCount = 0 /\ sLive = 0 /\ sResult = << >>

\* parse_pipeline up to its loop: the buffer of preprocess is one allocation.
BeginPipeline ==
  /\ sAt = "read"
  /\ LET proc == preprocess(sLine)
     IN  IF check_syntax(proc)
         THEN /\ sAt' = "part" /\ sParts' = strtok(proc, {"|"})
              /\ sLive' = 1 /\ UNCHANGED sResult
         ELSE /\ sAt' = "run" /\ sResult' = << >>
              /\ UNCHANGED <<sParts, sLive>>
  /\ UNCHANGED <<sLine, sStages, sCount>>

\* Leaving with an error, after the first n stages were freed.
Return(stages, n, live) ==
  /\ sAt' = "run" /\ sResult' = << >>
  /\ sStages' = [i \in DOMAIN stages |-> IF i <= n THEN EmptyStage ELSE stages[i]]
  /\ sLive' = live - SumStrings(stages, n) - 1
  /\ UNCHANGED <<sLine, sParts, sCount>>

\* One turn of the loop: one part of the line between pipes.
Blank(part) == \A i \in DOMAIN part : part[i] = "b"
ParseStage ==
  /\ sAt = "part" /\ sParts # << >>
  /\ LET part == Head(sParts)
         t == tokenize(part)
         stages == Append(sStages, t.stage)
         live == sLive + Strings(t.stage)
         more == \/ Len(sParts) > 1
                 \/ CharAt(sLine, Len(sLine)) = "|" /\ CharAt(sLine, Len(sLine) - 1) = "|"
     IN  \/ Blank(part) /\ Return(sStages, sCount, sLive)
         \/ ~Blank(part) /\ ~t.ok /\ Return(stages, sCount, live)
         \/ /\ ~Blank(part) /\ t.ok
            /\ \/ sCount > 0 /\ t.stage.infile # NoFile
               \/ more /\ t.stage.outfile # NoFile
            /\ Return(stages, sCount + 1, live)
         \/ /\ ~Blank(part) /\ t.ok
            /\ sCount = 0 \/ t.stage.infile = NoFile
            /\ ~more \/ t.stage.outfile = NoFile
            /\ sStages' = stages /\ sCount' = sCount + 1 /\ sLive' = live
            /\ sParts' = Tail(sParts)
            /\ UNCHANGED <<sLine, sAt, sResult>>

\* After the loop: only a line without its newline can end with a pipe here.
EndPipeline ==
  /\ sAt = "part" /\ sParts = << >>
  /\ IF CharAt(sLine, Len(sLine)) = "|" THEN Return(sStages, sCount, sLive)
     ELSE /\ sAt' = "run" /\ sResult' = SubSeq(sStages, 1, sCount)
          /\ sLive' = sLive - 1
          /\ UNCHANGED <<sLine, sParts, sStages, sCount>>

\* run_command: nothing to run frees whatever the stages still hold, otherwise
\* the stages that were run.

\* A plausible bug: nothing to run, nothing to free.
freedStagesOfResult(result, stages) == Len(result)

freedStages(result, stages) ==
  IF result = << >> THEN Len(stages) ELSE Len(result)

FreeStages ==
  /\ sAt = "run" /\ sAt' = "done"
  /\ sLive' = sLive - SumStrings(sStages, freedStages(sResult, sStages))
  /\ sStages' = << >>
  /\ UNCHANGED <<sLine, sParts, sCount, sResult>>

ShellNext == BeginPipeline \/ ParseStage \/ EndPipeline \/ FreeStages
ShellSpec == ShellInit /\ [][ShellNext]_sVars
-----------------------------------------------------------------------------
\* The language, by its tokens: a run of redirection characters is one token, an
\* operator if it is >, >> or < and a word if it is not; so is a run of pipes.
Lexeme(c) == CASE Redirection(c) -> "redirection"
               [] c \in {"b", "n"} -> "blank"
               [] c = "|" -> "pipe"
               [] OTHER -> "word"
Lexemes(line) == [i \in DOMAIN line |-> Lexeme(line[i])]
Tokens(line) == Runs(line, Lexemes(line), "blank")

IsPipe(tok) == tok[1] = "|"
IsOperator(tok) == tok \in Redirections

\* A pipe that starts the line counts for nothing; the other tokens are of the
\* stage after as many pipes.
Leads(line) == CharAt(line, 1) = "|"
StageOf(T, n) == 1 + Cardinality({m \in 2..n : IsPipe(T[m])})
IsFile(T, n) == n > 1 /\ IsOperator(T[n - 1])
IsWord(T, n) == ~IsPipe(T[n]) /\ ~IsOperator(T[n]) /\ ~IsFile(T, n)
Operators(T, st, ops) == {n \in DOMAIN T : T[n] \in ops /\ StageOf(T, n) = st}
Input == {<<"<">>}
Output == Redirections \ Input

WellFormed(line, T, last) ==
  /\ T # << >> /\ ~IsPipe(Last(T)) /\ ~IsOperator(Last(T))
  /\ IsPipe(T[1]) => Leads(line)
  /\ \A n \in 1..(Len(T) - 1) :
       /\ IsPipe(T[n]) => ~IsPipe(T[n + 1])
       /\ Redirection(T[n][1]) => ~IsPipe(T[n + 1])
       /\ IsOperator(T[n]) => ~IsOperator(T[n + 1])
  /\ \A st \in 1..last :
       /\ \E n \in DOMAIN T : StageOf(T, n) = st /\ IsWord(T, n)
       /\ Cardinality(Operators(T, st, Input)) <= (IF st = 1 THEN 1 ELSE 0)
       /\ Cardinality(Operators(T, st, Output)) <= (IF st = last THEN 1 ELSE 0)

\* A stage: its words, and the token after each operator.
FileOf(T, st, ops) ==
  LET ns == Operators(T, st, ops)
  IN  IF ns = {} THEN NoFile ELSE T[1 + (CHOOSE n \in ns : TRUE)]
Meant(T, st) ==
  LET words == Ascending({n \in DOMAIN T : IsWord(T, n) /\ StageOf(T, n) = st})
  IN  [argv |-> [n \in DOMAIN words |-> T[words[n]]],
       infile |-> FileOf(T, st, Input), outfile |-> FileOf(T, st, Output),
       append |-> Operators(T, st, {<<">", ">">>}) # {}]

Meaning(line) ==
  LET T == Tokens(line)
      last == StageOf(T, Len(T))
  IN  IF WellFormed(line, T, last) THEN [st \in 1..last |-> Meant(T, st)] ELSE << >>

\* What is run is what the line says, and a line that says nothing is refused,
\* however its redirections and pipes stand next to one another, to blanks and
\* to the ends of the line (parser.c:23-58, 149-191; utility.c:18-32).
ShellRunsWhatTheLineSays == sAt = "done" => sResult = Meaning(sLine)

\* The buffer of 2 * strlen(line) + 1 characters is large enough for every line
\* (parser.c:11-59).
PreprocessFits == Len(preprocess(sLine)) <= 2 * Len(sLine)

\* Whichever way parse_pipeline is left, half-parsed stages included, all that
\* it allocated is freed by the time the prompt returns, and nothing twice.
AllFreedAtThePrompt == sLive >= 0 /\ (sAt = "done" => sLive = 0)
=============================================================================
