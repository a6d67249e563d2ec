---------------------------- MODULE QueryScheduler ----------------------------
(***************************************************************************)
(* QueryScheduler::execute of LemonDB (Projects/p2/src/query/scheduler.cpp *)
(* and scheduler_helper.hpp): the main thread parses queries and feeds the *)
(* work queue, the workers wait for what their task depends on, execute it *)
(* and buffer its result, and the printer thread prints results in input   *)
(* order up to a watermark.                                                *)
(*                                                                         *)
(* A critical section of depMutex is one action, except the printer's: it  *)
(* reads the atomics flushUpTo and finalSeq, which the main thread stores  *)
(* without depMutex, so depLock says when the printer holds the mutex.     *)
(* A thread waiting on depCv is in depWaiting until it is woken.           *)
(***************************************************************************)
EXTENDS DependencyTracker, ConcurrentQueue, FiniteSets

CONSTANTS Printer,   \* the printer thread
          MaxFaults, \* bound: exceptions in workers plus spurious wake-ups
          MaxLoad    \* bound: queries and faults together

ASSUME PrinterAssumption == Printer \notin Workers
ASSUME WorkersAssumption == IsFiniteSet(Workers)
ASSUME MaxFaultsAssumption == MaxFaults \in Nat

VARIABLES
  mpc, quitSeq,                 \* main thread; quitSeq = 0 before QUIT
  wpc, cur, reply,              \* per worker: place, task, result so far
  ppc, nextToPrint, str,        \* printer; str is <<>>, or the output it took
  doneSeqs, resultBuffer, flushUpTo, finalSeq,
  depLock, depWaiting,
  store,                        \* the database: last writer of each object
  stdout,
  faults

mainVars == <<mpc, quitSeq>>
workerVars == <<wpc, cur, reply>>
printerVars == <<ppc, nextToPrint, str>>
shared == <<doneSeqs, resultBuffer, flushUpTo, finalSeq>>
depSync == <<depLock, depWaiting>>
world == <<store, stdout>>
vars == <<depVars, queueVars, mainVars, workerVars, printerVars, shared,
          depSync, world, faults>>

query(s) == tasks[s].query

\* What a query has to say: what it saw when it began and when it ended.
Output == [first : View, last : View]
NoOutput == [first |-> EmptyView, last |-> EmptyView]
Line(by, s, out) ==
  [by |-> by, seq |-> s, first |-> out.first, last |-> out.last]
Buffered(s, out) ==
  [i \in DOMAIN resultBuffer \cup {s} |-> IF i = s THEN out ELSE resultBuffer[i]]
Unbuffered(s) == [i \in DOMAIN resultBuffer \ {s} |-> resultBuffer[i]]

Max2(a, b) == IF a > b THEN a ELSE b

Init ==
  /\ DepInit
  /\ QueueInit
  /\ mpc = "parse" /\ quitSeq = 0
  /\ wpc = [w \in Workers |-> "pop"]
  /\ cur = [w \in Workers |-> 0]
  /\ reply = [w \in Workers |-> NoOutput]
  /\ ppc = "check" /\ nextToPrint = 1 /\ str = <<>>
  /\ doneSeqs = {} /\ resultBuffer = [s \in {} |-> NoOutput]
  /\ flushUpTo = 0 /\ finalSeq = 0
  /\ depLock = "free" /\ depWaiting = {}
  /\ store = [o \in Objects |-> 0] /\ stdout = <<>>
  /\ faults = 0
-----------------------------------------------------------------------------
mainFrame == <<depVars, quitSeq, workerVars, printerVars, world, faults>>
workerFrame == <<depVars, mainVars, printerVars>>
printerFrame == <<depVars, queueVars, mainVars, workerVars, store, faults>>

MainMoves(from, to) == mpc = from /\ mpc' = to
WorkerMoves(w, from, to) == wpc[w] = from /\ wpc' = [wpc EXCEPT ![w] = to]
-----------------------------------------------------------------------------
\* The main thread: parseAndScheduleQueries, handleBarrierAndNotify,
\* finalizeExecution.  A blank query is skipped, which changes nothing.

\* The bound on what comes from outside: a query to read, a fault.
MayHappen == Len(tasks) + faults < MaxLoad

MainParse(q) ==
  /\ mpc = "parse"
  /\ MayHappen
  /\ Schedule(q)
  /\ mpc' = IF isReadOnly(q) THEN "push" ELSE "barrier"
  /\ UNCHANGED <<quitSeq, queueVars, faults, workerVars, printerVars, shared,
                 depSync, world>>

QuitSharesNumber ==
  /\ mpc = "parse"
  /\ quitSeq' = Len(tasks)
  /\ mpc' = "close"
  /\ UNCHANGED <<depVars, queueVars, faults, workerVars, printerVars, shared,
                 depSync, world>>

MainQuit ==
  /\ MainMoves("parse", "close")
  /\ quitSeq' = Len(tasks) + 1
  /\ UNCHANGED <<depVars, queueVars, faults, workerVars, printerVars, shared,
                 depSync, world>>

MainEndOfInput ==
  /\ MainMoves("parse", "close")
  /\ UNCHANGED <<mainFrame, queueVars, shared, depSync>>

\* parseQuery throws what parseAndScheduleQueries does not catch: the queue is
\* never closed, and unwinding execute() destroys threads that can be joined.
MainParseError ==
  /\ MainMoves("parse", "unwinding")
  /\ UNCHANGED <<mainFrame, queueVars, shared, depSync>>

\* std::terminate ends every thread.
MainTerminate ==
  /\ MainMoves("unwinding", "aborted")
  /\ wpc' = [w \in Workers |-> "killed"]
  /\ ppc' = "killed"
  /\ popWaiting' = {} /\ depWaiting' = {}
  /\ UNCHANGED <<depVars, quitSeq, queue, closed, cur, reply, nextToPrint, str,
                 shared, depLock, world, faults>>

NoWatermark ==
  /\ MainMoves("barrier", "notify")
  /\ UNCHANGED <<mainFrame, queueVars, shared, depSync>>

\* The watermark rises to just before a query that is not read-only.
MainBarrier ==
  /\ MainMoves("barrier", "notify")
  /\ flushUpTo' = Max2(flushUpTo, Len(tasks) - 1)
  /\ UNCHANGED <<mainFrame, queueVars, doneSeqs, resultBuffer, finalSeq,
                 depSync>>

MainNotify ==
  /\ MainMoves("notify", "push")
  /\ depWaiting' = {}
  /\ UNCHANGED <<mainFrame, queueVars, depLock, shared>>

MainPush ==
  /\ MainMoves("push", "notifyOne")
  /\ push(Len(tasks))
  /\ UNCHANGED <<mainFrame, shared, depSync>>

MainNotifyOne ==
  /\ MainMoves("notifyOne", "parse")
  /\ notifyOne
  /\ UNCHANGED <<mainFrame, shared, depSync>>

MainClose ==
  /\ MainMoves("close", "closeNotify")
  /\ close
  /\ UNCHANGED <<mainFrame, shared, depSync>>

CloseNotifiesOne ==
  /\ MainMoves("closeNotify", "join")
  /\ notifyOne
  /\ UNCHANGED <<mainFrame, shared, depSync>>

MainCloseNotify ==
  /\ MainMoves("closeNotify", "join")
  /\ notifyAll
  /\ UNCHANGED <<mainFrame, shared, depSync>>

MainJoinAll ==
  /\ mpc = "join"
  /\ \A w \in Workers : wpc[w] = "exited"
  /\ mpc' = IF quitSeq # 0 THEN "quitBuffer" ELSE "flushStore"
  /\ UNCHANGED <<mainFrame, queueVars, shared, depSync>>

MainQuitBuffer ==
  /\ mpc = "quitBuffer"
  /\ resultBuffer' = Buffered(quitSeq, NoOutput)
  /\ mpc' = "quitDone"
  /\ UNCHANGED <<mainFrame, queueVars, doneSeqs, flushUpTo, finalSeq, depSync>>

MainQuitDone ==
  /\ MainMoves("quitDone", "flushStore")
  /\ depLock = "free"
  /\ doneSeqs' = doneSeqs \cup {quitSeq}
  /\ UNCHANGED <<mainFrame, queueVars, resultBuffer, flushUpTo, finalSeq,
                 depSync>>

lastSeq == IF quitSeq # 0 THEN quitSeq ELSE Len(tasks)

MainFlushStore ==
  /\ MainMoves("flushStore", "finalStore")
  /\ flushUpTo' = Max2(flushUpTo, lastSeq)
  /\ UNCHANGED <<mainFrame, queueVars, doneSeqs, resultBuffer, finalSeq,
                 depSync>>

MainFinalStore ==
  /\ MainMoves("finalStore", "finalNotify")
  /\ finalSeq' = lastSeq
  /\ UNCHANGED <<mainFrame, queueVars, doneSeqs, resultBuffer, flushUpTo,
                 depSync>>

MainFinalNotify ==
  /\ MainMoves("finalNotify", "joinPrinter")
  /\ depWaiting' = {}
  /\ UNCHANGED <<mainFrame, queueVars, depLock, shared>>

MainJoinPrinter ==
  /\ MainMoves("joinPrinter", "returned")
  /\ ppc = "exited"
  /\ UNCHANGED <<mainFrame, queueVars, shared, depSync>>

MainRead ==
  \/ \E q \in Input : MainParse(q)
  \/ MainQuit
  \/ MainEndOfInput
  \/ MainParseError

MainStep ==
  \/ MainTerminate
  \/ MainBarrier \/ MainNotify \/ MainPush \/ MainNotifyOne
  \/ MainClose \/ MainCloseNotify \/ MainJoinAll
  \/ MainQuitBuffer \/ MainQuitDone
  \/ MainFlushStore \/ MainFinalStore \/ MainFinalNotify \/ MainJoinPrinter
-----------------------------------------------------------------------------
\* A worker: the loop of WorkerPool around the function of makeWorkerFunc.

\* A plausible bug: the work queue as a stack.
WorkerPopNewest(w) ==
  /\ wpc[w] = "pop" /\ w \notin popWaiting /\ queue # <<>>
  /\ LET newest == Len(queue)
     IN  /\ queue' = SubSeq(queue, 1, newest - 1)
         /\ cur' = [cur EXCEPT ![w] = queue[newest]]
         /\ wpc' = [wpc EXCEPT ![w] =
                      IF tasks[queue[newest]].waitAll = {} THEN "exec" ELSE "deps"]
  /\ UNCHANGED <<closed, popWaiting, workerFrame, reply, faults, shared, depSync,
                 world>>

WorkerPop(w) ==
  /\ wpc[w] = "pop"
  /\ popItem(w)
  /\ cur' = [cur EXCEPT ![w] = Head(queue)]
  /\ wpc' = [wpc EXCEPT ![w] =
               IF tasks[Head(queue)].waitAll = {} THEN "exec" ELSE "deps"]
  /\ UNCHANGED <<workerFrame, reply, faults, shared, depSync, world>>

WorkerPopWait(w) ==
  /\ wpc[w] = "pop"
  /\ popWait(w)
  /\ UNCHANGED <<workerFrame, faults, workerVars, shared, depSync, world>>

WorkerExit(w) ==
  /\ wpc[w] = "pop"
  /\ popNothing(w)
  /\ wpc' = [wpc EXCEPT ![w] = "exited"]
  /\ UNCHANGED <<workerFrame, cur, reply, faults, shared, depSync, world>>

AnyDependencyDone(w) == tasks[cur[w]].waitAll \cap doneSeqs # {}

DependenciesDone(w) == tasks[cur[w]].waitAll \subseteq doneSeqs

\* depCv.wait: the predicate is evaluated under depMutex, and going to sleep
\* releases it in one step.
WorkerAwait(w) ==
  /\ wpc[w] = "deps"
  /\ w \notin depWaiting
  /\ depLock = "free"
  /\ \/ /\ DependenciesDone(w)
        /\ wpc' = [wpc EXCEPT ![w] = "exec"]
        /\ UNCHANGED depWaiting
     \/ /\ ~DependenciesDone(w)
        /\ depWaiting' = depWaiting \cup {w}
        /\ UNCHANGED wpc
  /\ UNCHANGED <<workerFrame, queueVars, cur, reply, depLock, faults, shared,
                 world>>

\* execute() is two steps, so that queries that overlap can be seen to.
WorkerBegin(w) ==
  /\ wpc[w] = "exec"
  /\ reply' = [reply EXCEPT ![w].first = ViewOf(store, query(cur[w]))]
  /\ wpc' = [wpc EXCEPT ![w] = "run"]
  /\ UNCHANGED <<workerFrame, queueVars, cur, faults, shared, depSync, world>>

Seen(w) == [reply[w] EXCEPT !.last = ViewOf(store, query(cur[w]))]

WorkerEnd(w) ==
  /\ WorkerMoves(w, "run", "buffer")
  /\ store' = WrittenBy(store, query(cur[w]), cur[w])
  /\ \/ /\ PrintsItself(query(cur[w]))
        /\ stdout' = Append(stdout, Line(w, cur[w], Seen(w)))
        /\ reply' = [reply EXCEPT ![w] = NoOutput]
     \/ /\ ~PrintsItself(query(cur[w]))
        /\ reply' = [reply EXCEPT ![w] = Seen(w)]
        /\ UNCHANGED stdout
  /\ UNCHANGED <<workerFrame, queueVars, cur, faults, shared, depSync>>

\* An exception that leaves execute(), or the formatting of its result: the
\* task counts as done but has no entry in resultBuffer.  What it was to write
\* may be half written, hence counts as written.
WorkerThrow(w) ==
  /\ WorkerMoves(w, "run", "done")
  /\ faults < MaxFaults /\ MayHappen
  /\ faults' = faults + 1
  /\ store' = WrittenBy(store, query(cur[w]), cur[w])
  /\ reply' = [reply EXCEPT ![w] = NoOutput]
  /\ UNCHANGED <<workerFrame, queueVars, cur, stdout, shared, depSync>>

WorkerBuffer(w) ==
  /\ WorkerMoves(w, "buffer", "done")
  /\ resultBuffer' = Buffered(cur[w], reply[w])
  /\ reply' = [reply EXCEPT ![w] = NoOutput]
  /\ UNCHANGED <<workerFrame, queueVars, cur, doneSeqs, flushUpTo, finalSeq,
                 faults, depSync, world>>

WorkerDone(w) ==
  /\ WorkerMoves(w, "done", "notify")
  /\ depLock = "free"
  /\ doneSeqs' = doneSeqs \cup {cur[w]}
  /\ cur' = [cur EXCEPT ![w] = 0]
  /\ UNCHANGED <<workerFrame, queueVars, reply, resultBuffer, flushUpTo,
                 finalSeq, faults, depSync, world>>

WorkerNotify(w) ==
  /\ WorkerMoves(w, "notify", "pop")
  /\ depWaiting' = {}
  /\ UNCHANGED <<workerFrame, queueVars, cur, reply, depLock, faults, shared,
                 world>>

WorkerStep(w) ==
  \/ WorkerPop(w) \/ WorkerPopWait(w) \/ WorkerExit(w)
  \/ WorkerAwait(w)
  \/ WorkerBegin(w) \/ WorkerEnd(w) \/ WorkerBuffer(w)
  \/ WorkerDone(w) \/ WorkerNotify(w)
-----------------------------------------------------------------------------
\* The printer thread: startPrinterThread.  Its predicate reads the atomics
\* one after the other, but both only grow and finalSeq is stored once, so
\* each outcome is that of reading them at one moment.

UpToWatermark == nextToPrint <= flushUpTo

Printable == nextToPrint <= flushUpTo /\ nextToPrint \in doneSeqs

ReachesFinal == finalSeq # 0 /\ nextToPrint >= finalSeq

PastFinal == finalSeq # 0 /\ nextToPrint > finalSeq

PrinterCheck ==
  /\ ppc = "check"
  /\ Printer \notin depWaiting
  /\ depLock = "free"
  /\ \/ PastFinal /\ ppc' = "exited" /\ UNCHANGED depLock
     \/ ~PastFinal /\ Printable /\ ppc' = "drain" /\ depLock' = "printer"
     \/ ~PastFinal /\ ~Printable /\ ppc' = "block" /\ depLock' = "printer"
  /\ UNCHANGED <<printerFrame, nextToPrint, str, depWaiting, stdout, shared>>

\* Having found nothing to do, the printer goes to sleep and releases depMutex.
\* The atomics may have been stored, and the notification sent, in between.
PrinterBlock ==
  /\ ppc = "block"
  /\ depWaiting' = depWaiting \cup {Printer}
  /\ depLock' = "free"
  /\ ppc' = "check"
  /\ UNCHANGED <<printerFrame, nextToPrint, str, stdout, shared>>

PrinterDrain ==
  /\ ppc = "drain"
  /\ depLock' = "free"
  /\ \/ /\ Printable
        /\ str' = IF nextToPrint \in DOMAIN resultBuffer
                  THEN <<resultBuffer[nextToPrint]>> ELSE <<>>
        /\ resultBuffer' = Unbuffered(nextToPrint)
        /\ ppc' = "print"
     \/ /\ ~Printable
        /\ ppc' = "check"
        /\ UNCHANGED <<str, resultBuffer>>
  /\ UNCHANGED <<printerFrame, nextToPrint, doneSeqs, flushUpTo, finalSeq,
                 depWaiting, stdout>>

PrinterPrint ==
  /\ ppc = "print"
  /\ stdout' = IF str = <<>> THEN stdout
               ELSE Append(stdout, Line(Printer, nextToPrint, str[1]))
  /\ str' = <<>>
  /\ nextToPrint' = nextToPrint + 1
  /\ ppc' = "relock"
  /\ UNCHANGED <<printerFrame, shared, depSync>>

PrinterRelock ==
  /\ ppc = "relock"
  /\ depLock = "free"
  /\ depLock' = "printer"
  /\ ppc' = "drain"
  /\ UNCHANGED <<printerFrame, nextToPrint, str, depWaiting, stdout, shared>>

PrinterStep ==
  PrinterCheck \/ PrinterBlock \/ PrinterDrain \/ PrinterPrint \/ PrinterRelock
-----------------------------------------------------------------------------
SpuriousWakeup ==
  /\ faults < MaxFaults /\ MayHappen
  /\ faults' = faults + 1
  /\ \/ popSpurious /\ UNCHANGED depWaiting
     \/ /\ \E t \in depWaiting : depWaiting' = depWaiting \ {t}
        /\ UNCHANGED queueVars
  /\ UNCHANGED <<depVars, depLock, mainVars, workerVars, printerVars, shared,
                 world>>

Next ==
  \/ MainRead
  \/ MainStep
  \/ \E w \in Workers : WorkerStep(w) \/ WorkerThrow(w)
  \/ PrinterStep
  \/ SpuriousWakeup

Spec == Init /\ [][Next]_vars

\* The system schedules every thread that can run.  Nobody has to type the
\* next query, no exception and no spurious wake-up has to happen.
Fairness ==
  /\ WF_vars(MainStep)
  /\ \A w \in Workers : WF_vars(WorkerStep(w))
  /\ WF_vars(PrinterStep)

FairSpec == Spec /\ Fairness
-----------------------------------------------------------------------------
MainPlaces == {"parse", "barrier", "notify", "push", "notifyOne", "close",
               "closeNotify", "join", "quitBuffer", "quitDone", "flushStore",
               "finalStore", "finalNotify", "joinPrinter", "returned",
               "unwinding", "aborted"}
WorkerPlaces == {"pop", "deps", "exec", "run", "buffer", "done", "notify",
                 "exited", "killed"}
PrinterPlaces == {"check", "block", "drain", "print", "relock", "exited",
                  "killed"}
StdoutLine == [by : Workers \cup {Printer}, seq : Nat, first : View, last : View]

TypeOK ==
  /\ DepTypeOK
  /\ queue \in Seq(Seqs) /\ closed \in BOOLEAN /\ popWaiting \subseteq Workers
  /\ mpc \in MainPlaces
  /\ quitSeq \in {0, Len(tasks) + 1}
  /\ wpc \in [Workers -> WorkerPlaces]
  /\ cur \in [Workers -> 0 .. Len(tasks)]
  /\ reply \in [Workers -> Output]
  /\ ppc \in PrinterPlaces
  /\ nextToPrint \in Nat \ {0}
  /\ str \in Seq(Output) /\ Len(str) <= 1
  /\ doneSeqs \subseteq 1 .. Len(tasks) + 1
  /\ DOMAIN resultBuffer \subseteq 1 .. Len(tasks) + 1
  /\ resultBuffer \in [DOMAIN resultBuffer -> Output]
  /\ flushUpTo \in Nat /\ finalSeq \in Nat
  /\ depLock \in {"free", "printer"}
  /\ depWaiting \subseteq Workers \cup {Printer}
  /\ store \in [Objects -> Version]
  /\ stdout \in Seq(StdoutLine)
  /\ faults \in 0 .. MaxFaults

\* No query executes before every earlier query in conflict with it is done,
\* whatever the workers' interleaving (makeWorkerFunc's wait on waitAllSeqs).
\* LIST is not tracked: see WritesAfterPrecedingReads.
ConflictOrder ==
  \A w \in Workers : wpc[w] \in {"exec", "run"} =>
    \A i \in 1 .. cur[w] - 1 :
      /\ Tracked(query(i)) /\ Tracked(query(cur[w]))
      /\ Conflict(query(i), query(cur[w]))
      => i \in doneSeqs

\* v is the last of the queries before s that writes o, 0 if none does.
LastWriterBefore(o, s, v) ==
  /\ v < s
  /\ v # 0 => o \in Writes(query(v))
  /\ \A i \in v + 1 .. s - 1 : o \notin Writes(query(i))

Serial(s, out) ==
  Tracked(query(s)) =>
    /\ \A o \in DOMAIN out.first : LastWriterBefore(o, s, out.first[o])
    /\ \A o \in DOMAIN out.last : LastWriterBefore(o, s, out.last[o])

\* Every result that waits for the printer, and every table that SHOWTABLE
\* printed from a worker, is what running the queries one by one gives.
SerialResults ==
  /\ \A s \in DOMAIN resultBuffer \cap Seqs : Serial(s, resultBuffer[s])
  /\ \A k \in DOMAIN stdout :
       stdout[k].seq \in Seqs => Serial(stdout[k].seq, stdout[k])

\* A worker sleeps in pop only while those awake are enough for the tasks in
\* the queue: notify_one per push loses no task although a busy worker may
\* take the task for which a sleeping one was woken (scheduler.h 30-51).
AwakeAtPop == {w \in Workers : wpc[w] = "pop" /\ w \notin popWaiting}

NoTaskStranded ==
  popWaiting # {} =>
    Len(queue) <= Cardinality(AwakeAtPop) + (IF mpc = "notifyOne" THEN 1 ELSE 0)

\* When execute() returns, nothing is left behind: every task is done and
\* printed or has thrown, and no result stays buffered (finalizeExecution).
Printed == {k \in DOMAIN stdout : stdout[k].by = Printer}

ReturnsComplete ==
  mpc = "returned" =>
    /\ Seqs \subseteq doneSeqs
    /\ DOMAIN resultBuffer = {}
    /\ nextToPrint = lastSeq + 1
    /\ Cardinality(Printed) + faults >= lastSeq
-----------------------------------------------------------------------------
\* The scheduler answers like a database that runs one query at a time.

asked ==
  LET queries == [s \in Seqs |-> query(s)]
  IN  IF quitSeq = 0 THEN queries ELSE Append(queries, QuitQuery)

answered == nextToPrint - 1

The(T) == CHOOSE e \in T : TRUE

LastWriters(o, n) == {v \in 0 .. n : LastWriterBefore(o, n + 1, v)}

\* The contents that the first n queries leave; QUIT leaves them alone.
ContentsAfter(n) ==
  LET m == IF n < Len(tasks) THEN n ELSE Len(tasks)
  IN  [o \in Objects |-> The(LastWriters(o, m))]

\* The place of k in the order of S.
Rank(S, k) == Cardinality({j \in S : j <= k})

AnswerIn(l) == [seq |-> l.seq, first |-> l.first, last |-> l.last]

\* The lines of the printer, in their order.
transcript ==
  [n \in 1 .. Cardinality(Printed) |->
     The({AnswerIn(stdout[k]) : k \in {i \in Printed : Rank(Printed, i) = n}})]

Abstract == INSTANCE SerialDatabase WITH db <- ContentsAfter(answered)

\* The printed transcript refines SerialDatabase: answers in input order, none
\* skipped or repeated, each with the contents that the queries before left.
RefinesSerialDatabase == Abstract!Spec
-----------------------------------------------------------------------------
\* Every query read is executed in the end, although workers block inside their
\* tasks.  All but one may be blocked while tasks are left in the queue; that one
\* gets on because pop takes the oldest task (scheduler.h 42-51) and a task waits
\* for older ones only.  Were the newest taken first, every worker could wait for
\* a task that nobody has popped.
TasksGetDone ==
  \A s \in 1 .. MaxQueries : s \in Seqs ~> s \in doneSeqs \/ mpc = "aborted"

\* A query that is not read-only gets every earlier result printed, without
\* waiting for the end of the input (handleBarrierAndNotify).
BarrierBefore(s) == \E b \in Seqs : s < b /\ ~isReadOnly(query(b))

BarrierFlushes ==
  \A s \in 1 .. MaxQueries : BarrierBefore(s) ~> nextToPrint > s \/ mpc = "aborted"

\* The ways in which execute() never returns although the input has ended: the
\* final notification fell between the printer's test and its sleep, or there
\* was no query at all, and finalSeq = 0 stands for "not final yet".
MissedFinalNotify ==
  mpc = "joinPrinter" /\ Printer \in depWaiting /\ (PastFinal \/ Printable)
NothingAsked == Len(tasks) = 0 /\ quitSeq = 0

\* When the input has ended, execute() returns but for these two.
ReturnsOrMissesNotify ==
  mpc = "close" ~> mpc = "returned" \/ MissedFinalNotify \/ NothingAsked

\* README: "Graceful QUIT: ... all outputs flushed before termination".
QuitFlushesAll == quitSeq # 0 ~> nextToPrint > quitSeq

\* README: "Writes never interleave with preceding reads that could observe
\* inconsistent state."
WritesAfterPrecedingReads ==
  \A w \in Workers : wpc[w] = "run" =>
    \A i \in 1 .. cur[w] - 1 :
      isReadOnly(query(i)) /\ Footprint(query(i)) \cap Writes(query(cur[w])) # {}
      => i \in doneSeqs

\* README: "Output determinism ensured (stable by input sequence) regardless of
\* execution interleaving."
StdoutInInputOrder ==
  \A j, k \in DOMAIN stdout : j < k => stdout[j].seq <= stdout[k].seq
=============================================================================
