-------------------------- MODULE DependencyTracker --------------------------
(***************************************************************************)
(* The dependency bookkeeping of LemonDB's query scheduler: what the main  *)
(* thread does with each parsed query before it enters the work queue      *)
(* (computeDependencies and updateDependencyState of                       *)
(* Projects/p2/src/query/scheduler.cpp).                                   *)
(***************************************************************************)
EXTENDS Queries

VARIABLES tasks,               \* the scheduled tasks; task number = index
          lastWriteSeq,        \* per table the last write, 0 when absent
          pendingReads,        \* pendingReadsBeforeWrite, {} when absent
          lastGlobalWriteSeq   \* the last write or DB-level task, or 0

depVars == <<tasks, lastWriteSeq, pendingReads, lastGlobalWriteSeq>>

Task == [query : Query, waitAll : SUBSET Nat]

Seqs == 1 .. Len(tasks)
-----------------------------------------------------------------------------
\* std::vector<Seq> waitAll only ever serves as the set of its elements.

addLastGlobalWrite == {lastGlobalWriteSeq} \ {0}

collectAllPendingReads == UNION {pendingReads[t] : t \in Tables}

collectReadDependencies(t) == ({lastWriteSeq[t]} \ {0}) \cup addLastGlobalWrite

\* Slips that a change of the bookkeeping could bring in: WriteForgetsReads,
\* DbLevelForgetsReads, ReadsWaitForReads, ScheduleAfterUpdate.
WriteForgetsReads(t) == ({lastWriteSeq[t]} \ {0}) \cup addLastGlobalWrite

collectWriteDependencies(t) ==
  pendingReads[t] \cup ({lastWriteSeq[t]} \ {0}) \cup addLastGlobalWrite

DbLevelForgetsReads(q) ==
  CASE isDbLevel(q)  -> addLastGlobalWrite
    [] TableRead(q)  -> collectReadDependencies(q.table)
    [] TableWrite(q) -> collectWriteDependencies(q.table)
    [] OTHER         -> {}

ReadsWaitForReads(q) ==
  CASE isDbLevel(q) -> collectAllPendingReads \cup addLastGlobalWrite
    [] TableRead(q) \/ TableWrite(q) -> collectWriteDependencies(q.table)
    [] OTHER        -> {}

computeDependencies(q) ==
  CASE isDbLevel(q)  -> collectAllPendingReads \cup addLastGlobalWrite
    [] TableRead(q)  -> collectReadDependencies(q.table)
    [] TableWrite(q) -> collectWriteDependencies(q.table)
    [] OTHER         -> {}

DbLevelStep(seq) ==
  /\ pendingReads' = [t \in Tables |-> {}]
  /\ lastGlobalWriteSeq' = seq
  /\ UNCHANGED lastWriteSeq

ReadStep(t, seq) ==
  /\ pendingReads' = [pendingReads EXCEPT ![t] = @ \cup {seq}]
  /\ UNCHANGED <<lastWriteSeq, lastGlobalWriteSeq>>

WriteStep(t, seq) ==
  /\ pendingReads' = [pendingReads EXCEPT ![t] = {}]
  /\ lastWriteSeq' = [lastWriteSeq EXCEPT ![t] = seq]
  /\ lastGlobalWriteSeq' = seq

\* lastLoadSeq is left out: no LOAD reaches the branch that sets it, a LOAD
\* being DB-level, and nothing reads it.
updateDependencyState(q, seq) ==
  \/ isDbLevel(q) /\ DbLevelStep(seq)
  \/ TableRead(q) /\ ReadStep(q.table, seq)
  \/ TableWrite(q) /\ WriteStep(q.table, seq)
  \/ /\ q.kind \in {"list", "nop"}
     /\ UNCHANGED <<lastWriteSeq, pendingReads, lastGlobalWriteSeq>>

ScheduleAfterUpdate(q) ==
  /\ Len(tasks) < MaxQueries
  /\ updateDependencyState(q, Len(tasks) + 1)
  /\ tasks' = Append(tasks,
       [query   |-> q,
        waitAll |-> computeDependencies(q) \cup ({lastGlobalWriteSeq'} \ {0})])

\* One query parsed, numbered, given its dependencies and recorded.
Schedule(q) ==
  /\ Len(tasks) < MaxQueries
  /\ tasks' = Append(tasks, [query |-> q, waitAll |-> computeDependencies(q)])
  /\ updateDependencyState(q, Len(tasks) + 1)

DepInit ==
  /\ tasks = <<>>
  /\ lastWriteSeq = [t \in Tables |-> 0]
  /\ pendingReads = [t \in Tables |-> {}]
  /\ lastGlobalWriteSeq = 0

DepNext == \E q \in Input : Schedule(q)

DepSpec == DepInit /\ [][DepNext]_depVars
-----------------------------------------------------------------------------
\* LIST takes no part in the dependency tracking.
Tracked(q) == q.kind # "list"

\* A set of tasks that holds whatever its members wait for.  The tasks that
\* are done form such a set at any time.
Closed(D) == \A i \in D \cap Seqs : tasks[i].waitAll \subseteq D

\* The types of the bookkeeping.  A task waits for earlier ones only, or
\* workers would wait for each other.
DepTypeOK ==
  /\ tasks \in Seq(Task)
  /\ \A i \in Seqs : tasks[i].waitAll \subseteq 1 .. i - 1
  /\ lastWriteSeq \in [Tables -> 0 .. Len(tasks)]
  /\ pendingReads \in [Tables -> SUBSET Seqs]
  /\ lastGlobalWriteSeq \in 0 .. Len(tasks)

\* Once everything a task waits for is done, and what that waited for, every
\* earlier task in conflict with it is done: clearing the pending reads at a
\* write, and keeping only the last write, loses no ordering (scheduler.cpp
\* 31-99).
Covered ==
  \A j \in Seqs : \A D \in SUBSET Seqs :
    Closed(D) /\ tasks[j].waitAll \subseteq D =>
      \A i \in 1 .. j - 1 :
        /\ Tracked(tasks[i].query) /\ Tracked(tasks[j].query)
        /\ Conflict(tasks[i].query, tasks[j].query)
        => i \in D

Barriers == {i \in Seqs : isDbLevel(tasks[i].query) \/ TableWrite(tasks[i].query)}

\* Reads of one epoch overlap fully, as the README promises: when no write or
\* DB-level query lies between two read-only queries, the later one waits for
\* the earlier one neither directly nor through other tasks.
EpochReadsOverlap ==
  \A i, j \in Seqs :
    /\ i < j
    /\ isReadOnly(tasks[i].query) /\ isReadOnly(tasks[j].query)
    /\ Barriers \cap (i .. j) = {}
    => \E D \in SUBSET Seqs :
         Closed(D) /\ tasks[j].waitAll \subseteq D /\ i \notin D
=============================================================================
