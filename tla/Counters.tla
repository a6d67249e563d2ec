------------------------------- MODULE Counters ------------------------------
(***************************************************************************)
(* The three counters of Homework 4: counter.sh, which counts its runs in a *)
(* file, counter_modified.sh, which does so under flock but makes sure that *)
(* the file has a line before it takes the lock, and ex3.c, whose threads   *)
(* count in memory under a semaphore.  Each is run by several processes or  *)
(* threads at once.                                                         *)
(***************************************************************************)
EXTENDS Naturals, Sequences, FiniteSetsExt

CONSTANTS Counting,  \* the processes, or the threads
          N          \* how often each counts

ASSUME CountingAssumption == IsFiniteSet(Counting) /\ N \in Nat

VARIABLES cProgram, cPc, cDone,  \* which program, where each is, its counts
          cTmp,      \* the variable last of a script, or tmp of a thread
          cFree,     \* whether the lock or the semaphore is free
          cFile,     \* the lines of counter.txt, or the variable count
          cEmpty     \* history: how many runs found no line in the file

cVars == <<cProgram, cPc, cDone, cTmp, cFree, cFile, cEmpty>>

Scripts == {"counter.sh", "counter_modified.sh"}
Count == IF cFile = << >> THEN 0 ELSE cFile[Len(cFile)]
Locked == cProgram # "counter.sh"
At(p, from, to) == cPc[p] = from /\ cPc' = [cPc EXCEPT ![p] = to]
-----------------------------------------------------------------------------
\* if [ ! -s "$FILE" ]
TestFile(p) ==
  /\ cProgram \in Scripts /\ cDone[p] < N
  /\ IF cFile = << >> THEN At(p, "begin", "truncate") /\ cEmpty' = cEmpty + 1
     ELSE At(p, "begin", "enter") /\ UNCHANGED cEmpty
  /\ UNCHANGED <<cProgram, cDone, cTmp, cFree, cFile>>

\* echo 0 > "$FILE": the shell opens and empties the file, echo then writes at its
\* beginning, over a line that was appended in between.
TruncateFile(p) ==
  /\ At(p, "truncate", "echo") /\ cFile' = << >>
  /\ UNCHANGED <<cProgram, cDone, cTmp, cFree, cEmpty>>
EchoZero(p) ==
  /\ At(p, "echo", "enter")
  /\ cFile' = IF cFile = << >> THEN <<0>> ELSE [cFile EXCEPT ![1] = 0]
  /\ UNCHANGED <<cProgram, cDone, cTmp, cFree, cEmpty>>

\* sem_wait, at the top of a thread's loop.
SemWait(p) ==
  /\ cProgram = "ex3.c" /\ cDone[p] < N
  /\ cFree /\ cFree' = FALSE /\ At(p, "begin", "read")
  /\ UNCHANGED <<cProgram, cDone, cTmp, cFile, cEmpty>>

\* flock -x, of the one script that has it.

\* A plausible bug: the lock is shared.
mayEnterShared == TRUE

mayEnter == Locked => cFree

Enter(p) ==
  /\ mayEnter /\ cFree' = (cFree /\ ~Locked) /\ At(p, "enter", "read")
  /\ UNCHANGED <<cProgram, cDone, cTmp, cFile, cEmpty>>

\* tail -n 1, of an empty file nothing, which counts as 0; or tmp = count.
ReadCount(p) ==
  /\ At(p, "read", "write") /\ cTmp' = [cTmp EXCEPT ![p] = Count]
  /\ UNCHANGED <<cProgram, cDone, cFree, cFile, cEmpty>>

\* echo "$next" >> "$FILE", or count = tmp.
WriteCount(p) ==
  /\ At(p, "write", "leave")
  /\ cFile' = IF cProgram = "ex3.c" THEN <<cTmp[p] + 1>> ELSE Append(cFile, cTmp[p] + 1)
  /\ UNCHANGED <<cProgram, cDone, cTmp, cFree, cEmpty>>

\* sem_post, or the end of the subshell, which closes the lock file.
Leave(p) ==
  /\ At(p, "leave", "begin")
  /\ cDone' = [cDone EXCEPT ![p] = @ + 1] /\ cFree' = (cFree \/ Locked)
  /\ UNCHANGED <<cProgram, cTmp, cFile, cEmpty>>

CounterStart ==
  /\ cPc = [p \in Counting |-> "begin"] /\ cDone = [p \in Counting |-> 0]
  /\ cTmp = [p \in Counting |-> 0] /\ cFree = TRUE /\ cEmpty = 0
CounterIdle == CounterStart /\ cProgram = "none" /\ cFile = << >>
CounterInit ==
  /\ CounterStart /\ cProgram \in Scripts \cup {"ex3.c"}
  /\ cFile \in IF cProgram = "ex3.c" THEN {<<0>>} ELSE {<< >>, <<0>>}
CounterNext ==
  \E p \in Counting :
    \/ TestFile(p) \/ TruncateFile(p) \/ EchoZero(p) \/ SemWait(p) \/ Enter(p)
    \/ ReadCount(p) \/ WriteCount(p) \/ Leave(p)
CounterSpec == CounterInit /\ [][CounterNext]_cVars
-----------------------------------------------------------------------------
RunsDone == [p \in Counting |-> cDone[p] + (IF cPc[p] = "leave" THEN 1 ELSE 0)]
Added(f) == MapThenSumSet(LAMBDA p : f[p], Counting)
RunsEnded == Added(RunsDone)

\* No counter counts a run twice.  One with a lock misses none, unless two runs
\* found the file empty: then the second makes it empty again, outside the lock
\* (counter_modified.sh:6-8, ex3.c:12-19).
CountsAreNotLost ==
  /\ Count <= RunsEnded
  /\ Locked /\ cEmpty <= 1 => Count = RunsEnded
=============================================================================
