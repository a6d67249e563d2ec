-------------------------------- MODULE Mumsh --------------------------------
(***************************************************************************)
(* Job control of the shell mumsh (Projects/p1/src/main.c, built_in.c):    *)
(* the prompt loop, execute_pipeline, the children it forks, the ends of   *)
(* the pipes each process has open, and the handlers of SIGINT and         *)
(* SIGCHLD.  signal() has the semantics of BSD or of System V, depending   *)
(* on the dialect of C the shell is compiled for: under System V a handler *)
(* serves once and a blocked system call fails with EINTR, under BSD the   *)
(* handler stays and the call is restarted.                                *)
(***************************************************************************)
EXTENDS Naturals, Sequences, FiniteSets

CONSTANTS Dialects,       \* the semantics of signal(), among "bsd" and "sysv"
          Pipelines,      \* the command lines: sequences of stages' kinds
          MaxStages,      \* bound: how many stages a pipeline has
          MaxLines,       \* bound: how many lines are typed
          MaxTroubles     \* bound: how often Ctrl+C is pressed, or a call of
                          \* pipe(), fork() or fgets() fails

\* A stage of kind "brief" ends by itself, a "filter" when its input ends, a
\* "writer" never; the last two also when nobody reads their output.
ASSUME MumshAssumption ==
  /\ Dialects \subseteq {"bsd", "sysv"}
  /\ MaxStages \in Nat \ {0} /\ MaxLines \in Nat /\ MaxTroubles \in Nat
  /\ Pipelines \subseteq Seq({"brief", "filter", "writer"})
  /\ \A stages \in Pipelines : Len(stages) \in 1..MaxStages

VARIABLES dialect,    \* never changed
          pc,         \* where the shell is
          line,       \* how many lines were read
          cmd,        \* the pipelines of the lines read
          i,          \* the loop variable of execute_pipeline
          kids,       \* the state of each child
          open,       \* the pipes of this line of which the shell has both ends
          leaked,     \* pipes that the shell has open and will never use
          errno,
          pending,    \* the signals sent to the shell and not delivered
          handler,    \* the signals that still have their handler
          shown,      \* prompts since the last line was read, 2 for more
          stale,      \* history: SIGINT came before that line, errno still says so
          faults,     \* history: the calls that failed
          presses     \* how often Ctrl+C was pressed

vars == <<dialect, pc, line, cmd, i, kids, open, leaked, errno, pending, handler,
          shown, stale, faults, presses>>

shellVars == <<dialect, line, cmd, i, open, leaked, faults, presses>>
signalVars == <<errno, pending, handler, shown, stale>>

Kid == (1..MaxLines) \X (1..MaxStages)
Alive(k) == kids[k] \in {"forked", "running", "doomed"}
Zombies(ks) == {k \in Kid : ks[k] = "zombie"}
MoreTrouble == presses + Len(faults) < MaxTroubles
More(n) == IF n < 2 THEN n + 1 ELSE 2
Stages == cmd[line]
-----------------------------------------------------------------------------
\* Which processes have which ends.  Stage s reads pipe s - 1 and writes pipe s;
\* a child that has not run setup_child_process yet has every end of its line.

\* A plausible bug: a child keeps the ends that it does not use.
endsOfChildUnclosed(k) ==
  IF Alive(k) THEN {"r", "w"} \X (1..(Len(cmd[k[1]]) - 1)) ELSE {}

endsOfChild(k) ==
  CASE kids[k] = "forked" -> {"r", "w"} \X (1..(Len(cmd[k[1]]) - 1))
    [] kids[k] \in {"running", "doomed"} -> {<<"r", k[2] - 1>>, <<"w", k[2]>>}
    [] OTHER -> {}

\* Whether some process can still write to, or read from, pipe p of line l.
Held(l, side, p) ==
  \/ l = line /\ p \in open
  \/ \E k \in Kid : k[1] = l /\ <<side, p>> \in endsOfChild(k)

MayEnd(k) ==
  LET s == k[2]
      stages == cmd[k[1]]
  IN  \/ stages[s] = "brief"
      \/ stages[s] = "filter" /\ (s = 1 \/ ~Held(k[1], "w", s - 1))
      \/ s < Len(stages) /\ ~Held(k[1], "r", s)
      \/ s = Len(stages) /\ stages[s] = "writer"

\* setup_child_process and what follows up to execvp; a file that cannot be
\* opened or a command that is not found ends the child, pwd and exit do too.
SetupChild(k) ==
  /\ kids[k] = "forked"
  /\ \/ kids' = [kids EXCEPT ![k] = "running"] /\ UNCHANGED pending
     \/ /\ kids' = [kids EXCEPT ![k] = "zombie"]
        /\ pending' = pending \cup {"CHLD"}
  /\ UNCHANGED <<pc, errno, handler, shown, stale, shellVars>>

EndChild(k) ==
  /\ \/ kids[k] = "doomed"
     \/ kids[k] = "running" /\ MayEnd(k)
  /\ kids' = [kids EXCEPT ![k] = "zombie"]
  /\ pending' = pending \cup {"CHLD"}
  /\ UNCHANGED <<pc, errno, handler, shown, stale, shellVars>>
-----------------------------------------------------------------------------
\* The prompt loop of main.  A signal is delivered when the shell next returns
\* to its own code, so a step of the shell finds none pending.
At(p) == pc = p /\ pending = {}

Prompt ==
  /\ At("prompt") /\ pc' = "read"
  /\ IF errno = "interrupted"
     THEN errno' = "0" /\ UNCHANGED shown
     ELSE shown' = More(shown) /\ UNCHANGED errno
  /\ stale' = (stale /\ errno = "interrupted")
  /\ UNCHANGED <<kids, pending, handler, shellVars>>

\* fgets returns a line: one that runs nothing, or cd, which may set errno, or
\* a pipeline.
ReadLine ==
  /\ At("read") /\ line < MaxLines
  /\ shown' = 0 /\ stale' = (errno = "interrupted")
  /\ line' = line + 1
  /\ \/ /\ pc' = "prompt" /\ cmd' = Append(cmd, <<"brief">>)
        /\ errno' \in {errno, "other"}
        /\ UNCHANGED i
     \/ /\ pc' = "pipe" /\ i' = 1 /\ UNCHANGED errno
        /\ \E stages \in Pipelines : cmd' = Append(cmd, stages)
  /\ UNCHANGED <<dialect, kids, open, leaked, pending, handler, faults, presses>>

\* fgets fails with an error that is neither the end of the input nor EINTR: a
\* prompt is printed here, and another at the top of the loop.
ReadFails ==
  /\ At("read") /\ MoreTrouble
  /\ pc' = "prompt" /\ errno' = "other"
  /\ shown' = More(shown)
  /\ faults' = Append(faults, "read")
  /\ UNCHANGED <<dialect, line, cmd, i, kids, open, leaked, pending, handler, stale,
                 presses>>

\* exit, and the end of the input.
Exit == /\ At("read") /\ pc' = "exited"
        /\ UNCHANGED <<kids, signalVars, shellVars>>
-----------------------------------------------------------------------------
\* execute_pipeline

\* One turn of the loop of pipe(); a failure returns at once and leaves the
\* pipes made before it open.
MakePipe ==
  /\ At("pipe")
  /\ \/ /\ i = Len(Stages)
        /\ pc' = "fork" /\ i' = 1
        /\ UNCHANGED <<open, leaked, faults, errno>>
     \/ /\ i < Len(Stages)
        /\ open' = open \cup {i} /\ i' = i + 1
        /\ UNCHANGED <<pc, leaked, faults, errno>>
     \/ /\ i < Len(Stages) /\ MoreTrouble
        /\ pc' = "prompt" /\ errno' = "other"
        /\ leaked' = leaked + Cardinality(open) /\ open' = {}
        /\ faults' = Append(faults, "pipe")
        /\ UNCHANGED i
  /\ UNCHANGED <<dialect, line, cmd, kids, pending, handler, shown, stale, presses>>

\* One turn of the loop of fork(); a failure closes the pipes and returns
\* without waiting for the children made before it.

\* A plausible bug: the pipes are not closed when fork() fails.
openAfterFailedForkKept == open

openAfterFailedFork == {}

Fork ==
  /\ At("fork")
  /\ \/ /\ kids' = [kids EXCEPT ![<<line, i>>] = "forked"]
        /\ IF i < Len(Stages) THEN i' = i + 1 /\ UNCHANGED pc
           ELSE pc' = "close" /\ UNCHANGED i
        /\ UNCHANGED <<open, faults, errno>>
     \/ /\ MoreTrouble
        /\ pc' = "prompt" /\ errno' = "other"
        /\ open' = openAfterFailedFork
        /\ faults' = Append(faults, "fork")
        /\ UNCHANGED <<kids, i>>
  /\ UNCHANGED <<dialect, line, cmd, leaked, pending, handler, shown, stale, presses>>

ClosePipes ==
  /\ At("close") /\ pc' = "wait"
  /\ open' = {} /\ i' = 1
  /\ UNCHANGED <<dialect, line, cmd, kids, leaked, faults, signalVars, presses>>

\* wait() takes a zombie if there is one, blocks while there are only live
\* children, and fails when there are no children at all, which ends the loop.
Reap(k) ==
  /\ kids[k] = "zombie"
  /\ kids' = [kids EXCEPT ![k] = "reaped"]
  /\ IF i < Len(Stages) THEN i' = i + 1 /\ pc' = "wait"
     ELSE pc' = "prompt" /\ UNCHANGED i
  /\ UNCHANGED <<dialect, line, cmd, open, leaked, faults, signalVars, presses>>

Wait ==
  /\ At("wait")
  /\ \/ \E k \in Kid : Reap(k)
     \/ /\ Zombies(kids) = {} /\ \E k \in Kid : Alive(k)
        /\ pc' = "blocked"
        /\ UNCHANGED <<kids, shellVars, signalVars>>
     \/ /\ \A k \in Kid : ~Alive(k) /\ kids[k] # "zombie"
        /\ pc' = "prompt" /\ errno' = "nochild"
        /\ UNCHANGED <<kids, shellVars, pending, handler, shown, stale>>

\* A blocked wait() returns with the child before a handler is run.
WaitReturns == pc = "blocked" /\ \E k \in Kid : Reap(k)
-----------------------------------------------------------------------------
\* Signals

\* Ctrl+C goes to the shell and to its children.  One that is not set up yet
\* has the shell's handler, which prints a prompt and nothing else.
Interrupt ==
  /\ MoreTrouble /\ pc \notin {"exited", "killed"}
  /\ presses' = presses + 1
  /\ pending' = pending \cup {"INT"}
  /\ kids' = [k \in Kid |->
                IF \/ kids[k] = "running"
                   \/ kids[k] = "forked" /\ "INT" \notin handler
                THEN "doomed" ELSE kids[k]]
  /\ shown' = IF \E k \in Kid : kids[k] = "forked" /\ "INT" \in handler
              THEN More(shown) ELSE shown
  /\ UNCHANGED <<dialect, pc, line, cmd, i, open, leaked, faults, errno, handler, stale>>

\* What wait() failing with EINTR does to the loop: i--, continue.

\* A plausible bug: the loop goes on to its next turn.
turnAfterEINTRCounted == i + 1

turnAfterEINTR == i

\* A blocked system call is restarted under BSD.  Under System V it fails with
\* EINTR: fgets leads to the top of the loop of main, wait() to its next turn.
Cut ==
  /\ dialect = "sysv" /\ errno' = "EINTR"
  /\ \/ pc = "read" /\ pc' = "prompt" /\ UNCHANGED i
     \/ /\ pc = "blocked" /\ i' = turnAfterEINTR
        /\ pc' = IF i' > Len(Stages) THEN "prompt" ELSE "wait"
NotCut(e) ==
  /\ pc = "blocked" => dialect = "bsd"
  /\ errno' = e /\ UNCHANGED <<pc, i>>

Delivered(sig) ==
  /\ sig \in pending /\ pc \notin {"exited", "killed"}
  /\ pc = "blocked" => Zombies(kids) = {}
  /\ pending' = pending \ {sig}
  /\ UNCHANGED <<dialect, line, cmd, open, leaked, faults, presses>>

\* What sigint_handler puts on the screen: a prompt.

\* A plausible bug: the handler leaves the prompt to the loop of main.
shownByHandlerNothing == shown

shownByHandler == More(shown)

\* sigint_handler sets errno to 1 and prints a prompt.
SigintHandler ==
  /\ Delivered("INT") /\ "INT" \in handler
  /\ handler' = IF dialect = "sysv" THEN handler \ {"INT"} ELSE handler
  /\ shown' = shownByHandler
  /\ Cut \/ NotCut("interrupted")
  /\ UNCHANGED <<kids, stale>>

\* Without its handler SIGINT kills.
SigintDefault ==
  /\ Delivered("INT") /\ "INT" \notin handler
  /\ pc' = "killed"
  /\ UNCHANGED <<i, kids, errno, handler, shown, stale>>

\* sigchld_handler takes every zombie and puts errno back.
SigchldHandler ==
  /\ Delivered("CHLD") /\ "CHLD" \in handler
  /\ handler' = IF dialect = "sysv" THEN handler \ {"CHLD"} ELSE handler
  /\ kids' = [k \in Kid |-> IF kids[k] = "zombie" THEN "reaped" ELSE kids[k]]
  /\ Cut \/ NotCut(errno)
  /\ UNCHANGED <<shown, stale>>

\* Without its handler SIGCHLD is ignored and interrupts nothing.
SigchldDefault ==
  /\ Delivered("CHLD") /\ "CHLD" \notin handler
  /\ UNCHANGED <<pc, i, kids, errno, handler, shown, stale>>
-----------------------------------------------------------------------------
Init ==
  /\ dialect \in Dialects
  /\ pc = "prompt" /\ line = 0 /\ cmd = << >> /\ i = 1
  /\ kids = [k \in Kid |-> "none"]
  /\ open = {} /\ leaked = 0
  /\ errno = "0" /\ pending = {} /\ handler = {"INT", "CHLD"}
  /\ shown = 0 /\ stale = FALSE /\ faults = << >> /\ presses = 0

Shell == \/ Prompt \/ MakePipe \/ Fork \/ ClosePipes \/ Wait \/ WaitReturns
Signals == SigintHandler \/ SigintDefault \/ SigchldHandler \/ SigchldDefault
Child(k) == SetupChild(k) \/ EndChild(k)

Next == \/ Shell \/ ReadLine \/ ReadFails \/ Exit \/ Signals \/ Interrupt
        \/ \E k \in Kid : Child(k)

\* The system runs the shell and its children, and delivers signals; nobody has
\* to type anything.
Fairness == /\ WF_vars(Shell) /\ WF_vars(Signals)
            /\ \A k \in Kid : WF_vars(Child(k))
Spec == Init /\ [][Next]_vars /\ Fairness
-----------------------------------------------------------------------------
\* Properties

\* The variables have their types, the shell has pipes open only while it
\* makes a pipeline, and the loops stay within their pipeline.
MumshTypeOK ==
  /\ dialect \in Dialects
  /\ pc \in {"prompt", "read", "pipe", "fork", "close", "wait", "blocked",
             "exited", "killed"}
  /\ line \in 0..MaxLines /\ Len(cmd) = line
  /\ kids \in [Kid -> {"none", "forked", "running", "doomed", "zombie", "reaped"}]
  /\ \A k \in Kid : kids[k] # "none" => k[1] <= line /\ k[2] <= Len(cmd[k[1]])
  /\ pc \in {"pipe", "fork", "close", "wait", "blocked"} =>
       line > 0 /\ i \in 1..Len(Stages)
  /\ open # {} => pc \in {"pipe", "fork", "close", "killed"}
  /\ errno \in {"0", "interrupted", "EINTR", "nochild", "other"}
  /\ pending \subseteq {"INT", "CHLD"} /\ handler \subseteq {"INT", "CHLD"}

Failed(call) == \E n \in DOMAIN faults : faults[n] = call

\* The prompt comes back when every child is gone, zombies included, although
\* the handler of SIGCHLD and the loop of wait() take children from each other
\* and signals interrupt wait(); only a fork() that failed leaves children
\* behind, for which the next pipeline then waits in place of its own
\* (main.c:28-33, 139-149).
NoChildAtThePrompt ==
  pc \in {"prompt", "read"} /\ ~Failed("fork") =>
    \A k \in Kid : kids[k] \in {"none", "reaped"}

\* A pipe that the shell still has open at the prompt is one of those that it
\* made before a pipe() that failed (main.c:73-78, 84-88).
OnlyAFailedPipeLeaks ==
  pc \in {"prompt", "read"} =>
    /\ open = {}
    /\ leaked > 0 => Failed("pipe")

\* The user sees a prompt whenever the shell reads, unless Ctrl+C came before
\* the last line was read and its mark in errno outlived that line; without a
\* Ctrl+C, an interrupted call or a failing fgets there is exactly one
\* (main.c:21-26, 189-216).
APromptIsShown ==
  pc = "read" =>
    /\ shown = 0 => stale
    /\ presses = 0 /\ dialect = "bsd" /\ ~Failed("read") => shown = 1

\* A pipeline whose last brief stage is followed by no writer ends.
Ends(stages) ==
  \/ \E s \in DOMAIN stages : /\ stages[s] = "brief"
                              /\ \A n \in (s + 1)..Len(stages) : stages[n] = "filter"
  \/ \A s \in DOMAIN stages : stages[s] = "filter"

\* The shell waits for a pipeline that ends only as long as that takes: the
\* stages see the end of their input or that nobody reads them, because every
\* other process closes the ends that it does not use (main.c:53-55, 135-137).
PipelinesReturn ==
  (pc = "close" /\ Ends(Stages)) ~> pc \in {"prompt", "killed"}

\* README.md:57: "Press Ctrl+C to interrupt the current command (shell will not
\* exit)".
ShellSurvivesCtrlC == pc # "killed"
=============================================================================
