------------------------- MODULE QueryScheduler_proofs -------------------------
(***************************************************************************)
(* Proofs about DependencyTracker and QueryScheduler, for any set of       *)
(* tables, any number of workers, any input and any number of faults.      *)
(*                                                                         *)
(* Covered is not inductive: that a new task waits for enough depends on   *)
(* what lastGlobalWriteSeq and pendingReads still tell of the tasks before *)
(* it.  Two facts say so, of any set D of tasks that holds what its        *)
(* members wait for and the last global write: D holds every write and DB- *)
(* level task (WritesChained), and every read that is not pending          *)
(* (ReadsTracked).                                                         *)
(***************************************************************************)
EXTENDS QueryScheduler, TLAPS, SequenceTheorems, FiniteSetTheorems

Base(D) == Closed(D) /\ addLastGlobalWrite \subseteq D

WritesChained == \A D \in SUBSET Seqs : Base(D) => Barriers \subseteq D

ReadsTracked ==
  \A D \in SUBSET Seqs : Base(D) =>
    \A i \in Seqs : TableRead(tasks[i].query) =>
      i \in D \/ i \in pendingReads[tasks[i].query.table]

DepInv == DepTypeOK /\ WritesChained /\ ReadsTracked /\ Covered

\* The kinds of a query, and the table that goes with each.
LEMMA QueryKinds ==
  ASSUME NEW q \in Query
  PROVE  /\ TableRead(q) <=> q.kind \in {"read", "show"}
         /\ TableWrite(q) <=> q.kind = "write"
         /\ isDbLevel(q) <=> q.kind = "db"
         /\ q.kind \in {"read", "show", "write"} => q.table \in Tables
         /\ q.kind \in {"read", "show", "write", "list", "db", "nop"}
BY TablesAssumption DEF Query, TableKinds, OtherKinds, TableRead, TableWrite,
     isDbLevel, isReadOnly

\* What a scheduled query adds to the sequence of tasks.
LEMMA ScheduleAppends ==
  ASSUME DepTypeOK, NEW q \in Query, Schedule(q)
  PROVE  LET n == Len(tasks) IN
         /\ n \in Nat
         /\ Len(tasks') = n + 1
         /\ Seqs' = Seqs \cup {n + 1}
         /\ tasks'[n + 1] = [query |-> q, waitAll |-> computeDependencies(q)]
         /\ \A i \in Seqs : tasks'[i] = tasks[i]
BY DEF Schedule, DepTypeOK, Seqs, Task

\* The dependencies are earlier tasks.
LEMMA DependenciesEarlier ==
  ASSUME DepTypeOK, NEW q \in Query
  PROVE  computeDependencies(q) \subseteq Seqs
<1>1. addLastGlobalWrite \subseteq Seqs
  BY DEF addLastGlobalWrite, DepTypeOK, Seqs
<1>2. collectAllPendingReads \subseteq Seqs
  BY DEF collectAllPendingReads, DepTypeOK
<1>3. ASSUME NEW t \in Tables
      PROVE  collectReadDependencies(t) \subseteq Seqs
             /\ collectWriteDependencies(t) \subseteq Seqs
  <2>1. {lastWriteSeq[t]} \ {0} \subseteq Seqs
    BY DEF DepTypeOK, Seqs
  <2>2. pendingReads[t] \subseteq Seqs
    BY DEF DepTypeOK
  <2> QED
    BY <1>1, <2>1, <2>2 DEF collectReadDependencies, collectWriteDependencies
<1> QED BY <1>1, <1>2, <1>3, QueryKinds DEF computeDependencies

LEMMA DepTypeStep ==
  ASSUME DepTypeOK, NEW q \in Query, Schedule(q)
  PROVE  DepTypeOK'
<1> DEFINE n == Len(tasks)
<1>1. /\ n \in Nat /\ Len(tasks') = n + 1 /\ Seqs' = Seqs \cup {n + 1}
      /\ tasks'[n + 1] = [query |-> q, waitAll |-> computeDependencies(q)]
      /\ \A i \in Seqs : tasks'[i] = tasks[i]
  BY ScheduleAppends
<1>2. computeDependencies(q) \subseteq Seqs
  BY DependenciesEarlier
<1>3. tasks' \in Seq(Task)
  <2>1. [query |-> q, waitAll |-> computeDependencies(q)] \in Task
    BY <1>2, <1>1 DEF Task, Seqs
  <2> QED BY <2>1 DEF Schedule, DepTypeOK
<1>4. \A i \in Seqs' : tasks'[i].waitAll \subseteq 1 .. i - 1
  <2>1. ASSUME NEW i \in Seqs PROVE tasks'[i].waitAll \subseteq 1 .. i - 1
    BY <1>1 DEF DepTypeOK
  <2>2. tasks'[n + 1].waitAll \subseteq 1 .. n
    BY <1>1, <1>2 DEF Seqs
  <2> QED BY <1>1, <2>1, <2>2
<1>5. /\ lastWriteSeq' \in [Tables -> 0 .. Len(tasks')]
      /\ pendingReads' \in [Tables -> SUBSET Seqs']
      /\ lastGlobalWriteSeq' \in 0 .. Len(tasks')
  <2>1. /\ lastWriteSeq \in [Tables -> 0 .. n + 1]
        /\ pendingReads \in [Tables -> SUBSET Seqs']
        /\ lastGlobalWriteSeq \in 0 .. n + 1
        /\ n + 1 \in 0 .. n + 1
        /\ n + 1 \in Seqs'
    <3>1. 0 .. n \subseteq 0 .. n + 1 /\ n + 1 \in 0 .. n + 1
      BY <1>1
    <3> QED BY <1>1, <3>1 DEF DepTypeOK
  <2>2. updateDependencyState(q, n + 1)
    BY DEF Schedule
  <2>3. CASE isDbLevel(q) /\ DbLevelStep(n + 1)
    BY <2>1, <2>3, <1>1 DEF DbLevelStep
  <2>4. CASE TableRead(q) /\ ReadStep(q.table, n + 1)
    <3>1. pendingReads' = [pendingReads EXCEPT ![q.table] = @ \cup {n + 1}]
      BY <2>4 DEF ReadStep
    <3>2. pendingReads' \in [Tables -> SUBSET Seqs']
      BY <3>1, <2>1
    <3> QED BY <2>1, <2>4, <3>2, <1>1 DEF ReadStep
  <2>5. CASE TableWrite(q) /\ WriteStep(q.table, n + 1)
    BY <2>1, <2>5, <1>1 DEF WriteStep
  <2>6. CASE UNCHANGED <<lastWriteSeq, pendingReads, lastGlobalWriteSeq>>
    BY <2>1, <2>6, <1>1
  <2> QED BY <2>2, <2>3, <2>4, <2>5, <2>6 DEF updateDependencyState
<1> QED BY <1>3, <1>4, <1>5 DEF DepTypeOK

\* A closed set of the longer sequence is a closed set of the shorter one.
LEMMA ClosedBefore ==
  ASSUME DepTypeOK, NEW q \in Query, Schedule(q),
         NEW D, Closed(D)'
  PROVE  Closed(D \cap Seqs)
<1>1. Seqs \subseteq Seqs' /\ \A i \in Seqs : tasks'[i] = tasks[i]
  BY ScheduleAppends
<1>2. \A i \in Seqs : tasks[i].waitAll \subseteq Seqs
  BY DEF DepTypeOK, Seqs
<1> QED BY <1>1, <1>2 DEF Closed

\* If a closed set holds what the new task waits for, then the invariant
\* applies to its part among the earlier tasks.
LEMMA DependenciesGiveBase ==
  ASSUME DepTypeOK, NEW q \in Query, q.kind \notin {"list", "nop"}, Schedule(q),
         NEW D, Closed(D)', computeDependencies(q) \subseteq D
  PROVE  Base(D \cap Seqs)
<1>1. addLastGlobalWrite \subseteq computeDependencies(q)
  BY QueryKinds
  DEF computeDependencies, collectReadDependencies, collectWriteDependencies
<1>2. addLastGlobalWrite \subseteq Seqs
  BY DEF addLastGlobalWrite, DepTypeOK, Seqs
<1> QED BY <1>1, <1>2, ClosedBefore DEF Base

\* Every barrier waits for the last one.
LEMMA WritesChainedStep ==
  ASSUME DepTypeOK, WritesChained, NEW q \in Query, Schedule(q)
  PROVE  WritesChained'
<1> DEFINE n == Len(tasks)
<1>1. /\ n \in Nat /\ Len(tasks') = n + 1 /\ Seqs' = Seqs \cup {n + 1}
      /\ tasks'[n + 1] = [query |-> q, waitAll |-> computeDependencies(q)]
      /\ \A i \in Seqs : tasks'[i] = tasks[i]
  BY ScheduleAppends
<1> SUFFICES ASSUME NEW D \in SUBSET Seqs', Base(D)',
                    NEW i \in Barriers'
             PROVE  i \in D
  BY DEF WritesChained
<1>2. Closed(D)' /\ addLastGlobalWrite' \subseteq D
  BY DEF Base
<1>3. D \cap Seqs \in SUBSET Seqs
  OBVIOUS
<1>4. CASE TableWrite(q) \/ isDbLevel(q)
  <2>1. lastGlobalWriteSeq' = n + 1
    BY <1>4, QueryKinds DEF Schedule, updateDependencyState, DbLevelStep,
       WriteStep, TableWrite, isDbLevel, TableRead
  <2>2. n + 1 \in D
    BY <2>1, <1>1, <1>2 DEF addLastGlobalWrite
  <2>3. computeDependencies(q) \subseteq D
    BY <2>2, <1>1, <1>2 DEF Closed
  <2>4. Base(D \cap Seqs)
    BY <2>3, <1>2, <1>4, QueryKinds, DependenciesGiveBase
  <2>5. Barriers \subseteq D \cap Seqs
    BY <2>4, <1>3 DEF WritesChained
  <2>6. i \in Seqs => i \in Barriers
    BY <1>1 DEF Barriers
  <2> QED BY <2>2, <2>5, <2>6, <1>1 DEF Barriers
<1>5. CASE ~TableWrite(q) /\ ~isDbLevel(q)
  <2>1. lastGlobalWriteSeq' = lastGlobalWriteSeq
    BY <1>5 DEF Schedule, updateDependencyState, ReadStep
  <2>2. Base(D \cap Seqs)
    <3>1. Closed(D \cap Seqs)
      BY <1>2, ClosedBefore
    <3>2. addLastGlobalWrite \subseteq D \cap Seqs
      BY <2>1, <1>2 DEF addLastGlobalWrite, DepTypeOK, Seqs
    <3> QED BY <3>1, <3>2 DEF Base
  <2>3. Barriers \subseteq D
    BY <2>2, <1>3 DEF WritesChained
  <2>4. i \in Barriers
    BY <1>1, <1>5 DEF Barriers
  <2> QED BY <2>3, <2>4
<1> QED BY <1>4, <1>5

\* A read stays pending until a write or DB-level task waits for it.
LEMMA ReadsTrackedStep ==
  ASSUME DepTypeOK, ReadsTracked, NEW q \in Query, Schedule(q)
  PROVE  ReadsTracked'
<1> DEFINE n == Len(tasks)
<1>1. /\ n \in Nat /\ Len(tasks') = n + 1 /\ Seqs' = Seqs \cup {n + 1}
      /\ tasks'[n + 1] = [query |-> q, waitAll |-> computeDependencies(q)]
      /\ \A i \in Seqs : tasks'[i] = tasks[i]
  BY ScheduleAppends
<1> SUFFICES ASSUME NEW D \in SUBSET Seqs', Base(D)',
                    NEW i \in Seqs', TableRead(tasks'[i].query)
             PROVE  i \in D \/ i \in pendingReads'[tasks'[i].query.table]
  BY DEF ReadsTracked
<1> DEFINE t == tasks'[i].query.table
<1>2. Closed(D)' /\ addLastGlobalWrite' \subseteq D
  BY DEF Base
<1>3. D \cap Seqs \in SUBSET Seqs
  OBVIOUS
<1>4. tasks'[i].query \in Query /\ t \in Tables
  <2>1. tasks'[i] \in Task
    BY DepTypeStep DEF DepTypeOK, Seqs
  <2> QED BY <2>1, QueryKinds DEF Task, TableRead, isReadOnly
<1>5. updateDependencyState(q, n + 1)
  BY DEF Schedule
<1>6. CASE i = n + 1
  <2>1. TableRead(q) /\ t = q.table
    BY <1>1, <1>6
  <2>2. ReadStep(q.table, n + 1)
    BY <2>1, <1>5, QueryKinds
    DEF updateDependencyState, TableRead, TableWrite, isDbLevel
  <2> QED BY <2>1, <2>2, <1>4, <1>6 DEF ReadStep, DepTypeOK
<1>7. CASE i \in Seqs
  <2>1. TableRead(tasks[i].query) /\ t = tasks[i].query.table
    BY <1>1, <1>7
  <2>2. Base(D \cap Seqs) => i \in D \/ i \in pendingReads[t]
    BY <2>1, <1>3, <1>7 DEF ReadsTracked
  <2>3. CASE isDbLevel(q)
    <3>1. DbLevelStep(n + 1)
      BY <2>3, <1>5, QueryKinds
      DEF updateDependencyState, TableRead, TableWrite, isDbLevel
    <3>2. n + 1 \in D
      BY <3>1, <1>1, <1>2 DEF DbLevelStep, addLastGlobalWrite
    <3>3. computeDependencies(q) \subseteq D
      BY <3>2, <1>1, <1>2 DEF Closed
    <3>4. pendingReads[t] \subseteq D
      <4>1. computeDependencies(q) = collectAllPendingReads \cup addLastGlobalWrite
        BY <2>3, QueryKinds
        DEF computeDependencies, TableRead, TableWrite, isDbLevel
      <4>2. pendingReads[t] \subseteq collectAllPendingReads
        BY <1>4 DEF collectAllPendingReads
      <4> QED BY <4>1, <4>2, <3>3
    <3> QED BY <3>3, <3>4, <2>2, <1>2, <2>3, DependenciesGiveBase DEF isDbLevel
  <2>4. CASE TableWrite(q)
    <3>1. WriteStep(q.table, n + 1)
      BY <2>4, <1>5, QueryKinds
      DEF updateDependencyState, TableRead, TableWrite, isDbLevel
    <3>2. n + 1 \in D
      BY <3>1, <1>1, <1>2 DEF WriteStep, addLastGlobalWrite
    <3>3. computeDependencies(q) \subseteq D
      BY <3>2, <1>1, <1>2 DEF Closed
    <3>4. Base(D \cap Seqs)
      BY <3>3, <1>2, <2>4, QueryKinds, DependenciesGiveBase
    <3>5. CASE t = q.table
      <4>1. pendingReads[t] \subseteq computeDependencies(q)
        BY <3>5, <2>4, QueryKinds
        DEF computeDependencies, collectWriteDependencies, TableRead, TableWrite
      <4> QED BY <4>1, <3>3, <3>4, <2>2
    <3>6. CASE t # q.table
      <4>1. pendingReads'[t] = pendingReads[t]
        BY <3>1, <3>6, <1>4 DEF WriteStep, DepTypeOK
      <4> QED BY <4>1, <3>4, <2>2
    <3> QED BY <3>5, <3>6
  <2>5. CASE ~isDbLevel(q) /\ ~TableWrite(q)
    <3>1. lastGlobalWriteSeq' = lastGlobalWriteSeq
      BY <2>5, <1>5 DEF updateDependencyState, ReadStep
    <3>2. Base(D \cap Seqs)
      <4>1. Closed(D \cap Seqs)
        BY <1>2, ClosedBefore
      <4>2. addLastGlobalWrite \subseteq D \cap Seqs
        BY <3>1, <1>2 DEF addLastGlobalWrite, DepTypeOK, Seqs
      <4> QED BY <4>1, <4>2 DEF Base
    <3>3. pendingReads[t] \subseteq pendingReads'[t]
      <4>1. CASE TableRead(q) /\ ReadStep(q.table, n + 1)
        BY <4>1, <1>4 DEF ReadStep, DepTypeOK
      <4>2. CASE UNCHANGED pendingReads
        BY <4>2
      <4> QED BY <4>1, <4>2, <1>5, <2>5 DEF updateDependencyState
    <3> QED BY <3>2, <3>3, <2>2
  <2> QED BY <2>3, <2>4, <2>5
<1> QED BY <1>1, <1>6, <1>7

\* What conflicts with what, by the kinds of the two queries.
LEMMA ConflictKinds ==
  ASSUME NEW p \in Query, NEW q \in Query, Tracked(p), Tracked(q), Conflict(p, q)
  PROVE  /\ p.kind # "nop" /\ q.kind # "nop"
         /\ \/ TableWrite(p) \/ isDbLevel(p)
            \/ isDbLevel(q)
            \/ TableWrite(q) /\ TableRead(p) /\ p.table = q.table
<1>1. p.kind \in {"read", "show", "write", "db", "nop"}
      /\ q.kind \in {"read", "show", "write", "db", "nop"}
  BY QueryKinds DEF Tracked
<1>2. p.kind # "nop" /\ q.kind # "nop"
  BY DEF Conflict, Writes, Footprint
<1>3. CASE p.kind \in {"write", "db"} \/ q.kind = "db"
  BY <1>2, <1>3, QueryKinds
<1>4. CASE p.kind \in {"read", "show"} /\ q.kind \in {"read", "show"}
  BY <1>4 DEF Conflict, Writes
<1>5. CASE p.kind \in {"read", "show"} /\ q.kind = "write"
  <2>1. Writes(p) = {} /\ Writes(q) = {q.table}
    BY <1>5 DEF Writes
  <2>2. Footprint(p) = {p.table, NoTable}
    BY <1>5 DEF Footprint, TableKinds, TableSet
  <2>3. q.table \in Tables
    BY <1>5, QueryKinds
  <2> QED BY <1>2, <1>5, <2>1, <2>2, <2>3, QueryKinds, TablesAssumption
          DEF Conflict
<1> QED BY <1>1, <1>2, <1>3, <1>4, <1>5

LEMMA CoveredStep ==
  ASSUME DepInv, NEW q \in Query, Schedule(q)
  PROVE  Covered'
<1> DEFINE n == Len(tasks)
<1>1. /\ n \in Nat /\ Len(tasks') = n + 1 /\ Seqs' = Seqs \cup {n + 1}
      /\ tasks'[n + 1] = [query |-> q, waitAll |-> computeDependencies(q)]
      /\ \A i \in Seqs : tasks'[i] = tasks[i]
  BY ScheduleAppends DEF DepInv
<1> SUFFICES ASSUME NEW j \in Seqs', NEW D \in SUBSET Seqs',
                    Closed(D)', tasks'[j].waitAll \subseteq D,
                    NEW i \in 1 .. j - 1,
                    Tracked(tasks'[i].query), Tracked(tasks'[j].query),
                    Conflict(tasks'[i].query, tasks'[j].query)
             PROVE  i \in D
  BY DEF Covered
<1>2. D \cap Seqs \in SUBSET Seqs /\ Closed(D \cap Seqs)
  BY ClosedBefore DEF DepInv
<1>3. i \in Seqs /\ tasks'[i] = tasks[i] /\ tasks[i].query \in Query
  <2>1. i \in Seqs
    BY <1>1 DEF Seqs
  <2>2. tasks[i] \in Task
    BY <2>1 DEF DepInv, DepTypeOK, Seqs
  <2> QED BY <2>1, <2>2, <1>1 DEF Task
<1>4. CASE j \in Seqs
  <2>1. tasks'[j] = tasks[j]
    BY <1>1, <1>4
  <2>2. tasks[j].waitAll \subseteq D \cap Seqs
    BY <2>1, <1>4 DEF DepInv, DepTypeOK, Seqs
  <2> QED BY <2>1, <2>2, <1>2, <1>3, <1>4 DEF DepInv, Covered
<1>5. CASE j = n + 1
  <2> DEFINE p == tasks[i].query
  <2>1. tasks'[j].query = q /\ computeDependencies(q) \subseteq D
    BY <1>1, <1>5
  <2>2. /\ p.kind # "nop" /\ q.kind # "nop"
        /\ \/ TableWrite(p) \/ isDbLevel(p)
           \/ isDbLevel(q)
           \/ TableWrite(q) /\ TableRead(p) /\ p.table = q.table
    BY <2>1, <1>3, ConflictKinds
  <2>3. Base(D \cap Seqs)
    BY <2>1, <2>2, DependenciesGiveBase DEF DepInv, Tracked
  <2>4. CASE TableWrite(p) \/ isDbLevel(p)
    BY <2>3, <2>4, <1>2, <1>3 DEF DepInv, WritesChained, Barriers
  <2>5. CASE /\ TableRead(p)
             /\ isDbLevel(q) \/ (TableWrite(q) /\ p.table = q.table)
    <3>1. i \in D \/ i \in pendingReads[p.table]
      BY <2>3, <2>5, <1>2, <1>3 DEF DepInv, ReadsTracked
    <3>2. p.table \in Tables
      BY <1>3, <2>5, QueryKinds
    <3>3. pendingReads[p.table] \subseteq computeDependencies(q)
      <4>1. CASE isDbLevel(q)
        <5>1. pendingReads[p.table] \subseteq collectAllPendingReads
          BY <3>2 DEF collectAllPendingReads
        <5>2. ~TableRead(q) /\ ~TableWrite(q)
          BY <4>1, QueryKinds
        <5> QED BY <4>1, <5>1, <5>2 DEF computeDependencies
      <4>2. CASE TableWrite(q) /\ p.table = q.table
        <5>1. ~TableRead(q) /\ ~isDbLevel(q)
          BY <4>2, QueryKinds
        <5> QED BY <4>2, <5>1 DEF computeDependencies, collectWriteDependencies
      <4> QED BY <2>5, <4>1, <4>2
    <3> QED BY <3>1, <3>3, <2>1
  <2>6. TableWrite(p) \/ isDbLevel(p) \/ TableRead(p)
    BY <2>2, <1>3, QueryKinds DEF Tracked
  <2>7. CASE isDbLevel(q)
    BY <2>4, <2>5, <2>6, <2>7
  <2>8. CASE TableWrite(q) /\ TableRead(p) /\ p.table = q.table
    BY <2>5, <2>8
  <2> QED BY <2>2, <2>4, <2>7, <2>8
<1> QED BY <1>1, <1>4, <1>5

LEMMA DepInvInit == DepInit => DepInv
<1> SUFFICES ASSUME DepInit PROVE DepInv
  OBVIOUS
<1>1. Len(tasks) = 0 /\ Seqs = {}
  BY DEF DepInit, Seqs
<1>2. DepTypeOK
  BY <1>1 DEF DepInit, DepTypeOK
<1>3. WritesChained /\ ReadsTracked /\ Covered
  BY <1>1 DEF WritesChained, ReadsTracked, Covered, Barriers
<1> QED BY <1>2, <1>3 DEF DepInv

LEMMA DepInvStep ==
  ASSUME DepInv, NEW q \in Query, Schedule(q)
  PROVE  DepInv'
BY DepTypeStep, WritesChainedStep, ReadsTrackedStep, CoveredStep DEF DepInv

LEMMA DepInvStutter == DepInv /\ UNCHANGED depVars => DepInv'
BY DEF DepInv, DepTypeOK, WritesChained, ReadsTracked, Covered, Base, Closed,
       Barriers, Seqs, addLastGlobalWrite, depVars

\* Every reachable state of the bookkeeping satisfies the invariant.
LEMMA DepInvariant == DepSpec => []DepInv
<1>1. DepInv /\ [DepNext]_depVars => DepInv'
  BY DepInvStep, DepInvStutter, InputAssumption DEF DepNext
<1> QED BY DepInvInit, <1>1, PTL DEF DepSpec

\* The types of the bookkeeping, for any set of tables and any input: above
\* all, a task waits for earlier tasks only (computeDependencies).
THEOREM DepTypeCorrect == DepSpec => []DepTypeOK
BY DepInvariant, PTL DEF DepInv

\* Once what a task waits for is done, and what that waited for, every earlier
\* task in conflict with it is done (computeDependencies with
\* updateDependencyState, scheduler.cpp 31-99).
THEOREM DependenciesSuffice == DepSpec => []Covered
BY DepInvariant, PTL DEF DepInv
-----------------------------------------------------------------------------
\* A read-only task waits for nothing but barriers.
ReadsWaitForBarriers ==
  \A j \in Seqs : isReadOnly(tasks[j].query) => tasks[j].waitAll \subseteq Barriers

\* The recorded writes are barriers.
WritesAreBarriers ==
  addLastGlobalWrite \cup ({lastWriteSeq[t] : t \in Tables} \ {0}) \subseteq Barriers

EpochInv == DepTypeOK /\ ReadsWaitForBarriers /\ WritesAreBarriers

LEMMA EpochInvStep ==
  ASSUME EpochInv, NEW q \in Query, Schedule(q)
  PROVE  EpochInv'
<1> DEFINE n == Len(tasks)
<1>1. /\ n \in Nat /\ Len(tasks') = n + 1 /\ Seqs' = Seqs \cup {n + 1}
      /\ tasks'[n + 1] = [query |-> q, waitAll |-> computeDependencies(q)]
      /\ \A i \in Seqs : tasks'[i] = tasks[i]
  BY ScheduleAppends DEF EpochInv
<1>2. DepTypeOK'
  BY DepTypeStep DEF EpochInv
<1>3. Barriers \subseteq Barriers'
  BY <1>1 DEF Barriers
<1>4. isDbLevel(q) \/ TableWrite(q) => n + 1 \in Barriers'
  BY <1>1 DEF Barriers
<1>5. ReadsWaitForBarriers'
  <2>1. ASSUME isReadOnly(q) PROVE computeDependencies(q) \subseteq Barriers
    <3>1. ~isDbLevel(q) /\ ~TableWrite(q)
      BY <2>1 DEF isReadOnly, isDbLevel, TableWrite
    <3>2. CASE TableRead(q)
      BY <3>1, <3>2, QueryKinds
      DEF EpochInv, WritesAreBarriers, computeDependencies,
          collectReadDependencies
    <3>3. CASE ~TableRead(q)
      BY <3>1, <3>3 DEF computeDependencies
    <3> QED BY <3>2, <3>3
  <2> QED BY <2>1, <1>1, <1>3 DEF EpochInv, ReadsWaitForBarriers
<1>6. WritesAreBarriers'
  <2>1. updateDependencyState(q, n + 1)
    BY DEF Schedule
  <2>2. CASE isDbLevel(q) /\ DbLevelStep(n + 1)
    BY <2>2, <1>3, <1>4
    DEF EpochInv, WritesAreBarriers, addLastGlobalWrite, DbLevelStep
  <2>3. CASE UNCHANGED <<lastWriteSeq, lastGlobalWriteSeq>>
    BY <2>3, <1>3 DEF EpochInv, WritesAreBarriers, addLastGlobalWrite
  <2>4. CASE TableWrite(q) /\ WriteStep(q.table, n + 1)
    <3>1. n + 1 \in Barriers'
      BY <2>4, <1>4
    <3>2. \A t \in Tables :
            lastWriteSeq'[t] = n + 1 \/ lastWriteSeq'[t] = lastWriteSeq[t]
      BY <2>4, QueryKinds DEF WriteStep, EpochInv, DepTypeOK
    <3> QED BY <2>4, <3>1, <3>2, <1>3
        DEF EpochInv, WritesAreBarriers, addLastGlobalWrite, WriteStep
  <2> QED BY <2>1, <2>2, <2>3, <2>4 DEF updateDependencyState, ReadStep
<1> QED BY <1>2, <1>5, <1>6 DEF EpochInv

\* The tasks before i are closed, and a read that follows i without a barrier
\* in between waits for none but them.
LEMMA EpochInvImplies == EpochInv => EpochReadsOverlap
<1> SUFFICES ASSUME EpochInv, NEW i \in Seqs, NEW j \in Seqs, i < j,
                    isReadOnly(tasks[j].query), Barriers \cap (i .. j) = {}
             PROVE  \E D \in SUBSET Seqs :
                      Closed(D) /\ tasks[j].waitAll \subseteq D /\ i \notin D
  BY DEF EpochReadsOverlap
<1> DEFINE D == 1 .. i - 1
<1>1. Len(tasks) \in Nat /\ i \in Nat /\ j \in Nat /\ i <= Len(tasks)
  BY DEF EpochInv, DepTypeOK, Seqs
<1>2. D \in SUBSET Seqs /\ i \notin D
  BY <1>1 DEF Seqs
<1>3. Closed(D)
  <2> SUFFICES ASSUME NEW k \in D PROVE tasks[k].waitAll \subseteq D
    BY DEF Closed
  <2>1. k \in Seqs /\ tasks[k].waitAll \subseteq 1 .. k - 1
    BY <1>2 DEF EpochInv, DepTypeOK
  <2> QED BY <2>1, <1>1
<1>4. tasks[j].waitAll \subseteq D
  <2>1. tasks[j].waitAll \subseteq Barriers
        /\ tasks[j].waitAll \subseteq 1 .. j - 1
    BY DEF EpochInv, ReadsWaitForBarriers, DepTypeOK
  <2> QED BY <2>1, <1>1
<1> QED BY <1>2, <1>3, <1>4

\* Read-only queries of one epoch never wait for each other, not even through
\* other tasks, for any set of tables (collectReadDependencies, scheduler_helper
\* 221-230).
THEOREM ReadsOfAnEpochOverlap == DepSpec => []EpochReadsOverlap
<1>1. DepInit => EpochInv
  <2> SUFFICES ASSUME DepInit PROVE EpochInv
    OBVIOUS
  <2>1. DepTypeOK
    BY DepInvInit DEF DepInv
  <2>2. Seqs = {}
    BY DEF DepInit, Seqs
  <2>3. \A t \in Tables : lastWriteSeq[t] = 0
    BY DEF DepInit
  <2> QED BY <2>1, <2>2, <2>3 DEF DepInit, EpochInv, ReadsWaitForBarriers,
          WritesAreBarriers, addLastGlobalWrite
<1>2. EpochInv /\ [DepNext]_depVars => EpochInv'
  <2>1. EpochInv /\ UNCHANGED depVars => EpochInv'
    BY DEF EpochInv, DepTypeOK, ReadsWaitForBarriers, WritesAreBarriers,
       Barriers, Seqs, addLastGlobalWrite, depVars
  <2> QED BY <2>1, EpochInvStep, InputAssumption DEF DepNext
<1> QED BY <1>1, <1>2, EpochInvImplies, PTL DEF DepSpec
-----------------------------------------------------------------------------
Reading == {"parse", "barrier", "notify", "push", "notifyOne"}
Ready == {"exec", "run", "buffer", "done"}
Holding == Ready \cup {"deps"}

\* What TypeOK needs of the places of the threads: QUIT is the last to be
\* numbered, and a worker has a task while it deals with one.
PlacesOK ==
  /\ Len(tasks) <= MaxQueries
  /\ mpc \in Reading => quitSeq = 0
  /\ mpc \in {"barrier", "notify", "push"} => Len(tasks) # 0
  /\ mpc \in {"quitBuffer", "quitDone"} => quitSeq # 0
  /\ \A w \in Workers : wpc[w] \in Holding => cur[w] \in Seqs
  /\ doneSeqs \subseteq Seqs \cup {quitSeq}
  /\ DOMAIN resultBuffer \subseteq Seqs \cup {quitSeq}

TypeInv == TypeOK /\ PlacesOK

LEMMA ViewTypes ==
  ASSUME NEW q \in Query, NEW contents \in [Objects -> Version]
  PROVE  ViewOf(contents, q) \in View /\ EmptyView \in View
<1>1. Footprint(q) \in SUBSET Objects
  BY DEF Footprint, Query, TableKinds, OtherKinds, Objects, TableSet
<1>2. ViewOf(contents, q) \in [Footprint(q) -> Version]
  BY <1>1 DEF ViewOf
<1>3. EmptyView \in [{} -> Version]
  BY DEF EmptyView
<1> QED BY <1>1, <1>2, <1>3 DEF View

LEMMA NoOutputType == NoOutput \in Output
<1>1. EmptyView \in [{} -> Version]
  BY DEF EmptyView
<1>2. EmptyView \in View
  BY <1>1 DEF View
<1> QED BY <1>2 DEF NoOutput, Output

LEMMA OutputTypes ==
  ASSUME NEW out \in Output, NEW v \in View,
         NEW by \in Workers \cup {Printer}, NEW s \in Nat
  PROVE  /\ [out EXCEPT !.first = v] \in Output
         /\ [out EXCEPT !.last = v] \in Output
         /\ Line(by, s, out) \in StdoutLine
BY DEF Output, Line, StdoutLine

\* Sequences of one element, and of at most one.
LEMMA Appended ==
  ASSUME NEW S, NEW s \in Seq(S), NEW e \in S
  PROVE  /\ Append(s, e) \in Seq(S)
         /\ <<e>> \in Seq(S) /\ Len(<<e>>) = 1
         /\ s # <<>> => s[1] \in S
OBVIOUS

LEMMA DepTypeStutter == DepTypeOK /\ UNCHANGED depVars => DepTypeOK' /\ Seqs' = Seqs
BY DEF DepTypeOK, depVars, Seqs

LEMMA TypeInit == Init => TypeInv
<1> SUFFICES ASSUME Init PROVE TypeInv
  OBVIOUS
<1>1. DepTypeOK
  BY DepInvInit DEF Init, DepInv
<1>2. Len(tasks) = 0 /\ Seqs = {}
  BY DEF Init, DepInit, Seqs
<1>3. resultBuffer \in [DOMAIN resultBuffer -> Output] /\ DOMAIN resultBuffer = {}
  BY DEF Init
<1>4. TypeOK
  <2>1. /\ reply \in [Workers -> Output]
        /\ store \in [Objects -> Version]
        /\ wpc \in [Workers -> WorkerPlaces]
        /\ cur \in [Workers -> 0 .. Len(tasks)]
    BY <1>2, NoOutputType, MaxQueriesAssumption
    DEF Init, Version, WorkerPlaces
  <2>2. queue \in Seq(Seqs) /\ str \in Seq(Output) /\ stdout \in Seq(StdoutLine)
    BY DEF Init, QueueInit
  <2>3. Len(str) <= 1
    BY DEF Init
  <2>4. /\ doneSeqs \subseteq 1 .. Len(tasks) + 1
        /\ DOMAIN resultBuffer \subseteq 1 .. Len(tasks) + 1
        /\ closed \in BOOLEAN /\ popWaiting \subseteq Workers
        /\ depWaiting \subseteq Workers \cup {Printer}
    BY <1>3 DEF Init, QueueInit
  <2>5. /\ nextToPrint \in Nat \ {0} /\ quitSeq \in {0, Len(tasks) + 1}
        /\ flushUpTo \in Nat /\ finalSeq \in Nat
        /\ faults \in 0 .. MaxFaults
    BY MaxFaultsAssumption DEF Init
  <2>6. /\ mpc \in MainPlaces /\ ppc \in PrinterPlaces
        /\ depLock \in {"free", "printer"}
    BY DEF Init, MainPlaces, PrinterPlaces
  <2> QED
    BY <1>1, <1>3, <2>1, <2>2, <2>3, <2>4, <2>5, <2>6 DEF TypeOK
<1>5. PlacesOK
  BY <1>2, <1>3, MaxQueriesAssumption DEF Init, PlacesOK, Holding, Ready
<1> QED BY <1>4, <1>5 DEF TypeInv

LEMMA ParseType ==
  ASSUME TypeInv, NEW q \in Input, MainParse(q)
  PROVE  TypeInv'
<1>1. DepTypeOK'
  BY DepTypeStep, InputAssumption DEF TypeInv, TypeOK, MainParse
<1>2. /\ Len(tasks) \in Nat /\ Len(tasks') = Len(tasks) + 1
      /\ Seqs' = Seqs \cup {Len(tasks) + 1}
  BY ScheduleAppends, InputAssumption DEF TypeInv, TypeOK, MainParse
<1>3. queue' \in Seq(Seqs')
  <2>1. queue \in Seq(Seqs')
    BY <1>2 DEF TypeInv, TypeOK
  <2> QED BY <2>1 DEF MainParse, queueVars
<1>4. quitSeq = 0 /\ quitSeq' = 0
  BY DEF TypeInv, PlacesOK, MainParse, Reading
<1>5. TypeOK'
  <2>1. /\ cur' \in [Workers -> 0 .. Len(tasks')]
        /\ doneSeqs' \subseteq 1 .. Len(tasks') + 1
        /\ DOMAIN resultBuffer' \subseteq 1 .. Len(tasks') + 1
    BY <1>2 DEF TypeInv, TypeOK, MainParse, workerVars, shared
  <2>2. mpc' \in MainPlaces /\ quitSeq' \in {0, Len(tasks') + 1}
    BY <1>4 DEF MainParse, MainPlaces
  <2>3. UNCHANGED <<closed, popWaiting, wpc, reply, ppc, nextToPrint, str,
                    resultBuffer, flushUpTo, finalSeq, depLock, depWaiting,
                    store, stdout, faults>>
    BY DEF MainParse, queueVars, workerVars, printerVars, shared, depSync, world
  <2> QED BY <1>1, <1>3, <2>1, <2>2, <2>3 DEF TypeInv, TypeOK
<1>6. PlacesOK'
  <2>1. Len(tasks') <= MaxQueries
    BY <1>2, MaxQueriesAssumption DEF MainParse, Schedule
  <2>2. UNCHANGED <<wpc, cur, doneSeqs, resultBuffer>>
    BY DEF MainParse, workerVars, shared
  <2>3. mpc' \in {"push", "barrier"}
    BY DEF MainParse
  <2> QED
    BY <1>2, <1>4, <2>1, <2>2, <2>3 DEF TypeInv, PlacesOK, Reading
<1> QED BY <1>5, <1>6 DEF TypeInv

LEMMA MainType ==
  ASSUME TypeInv, MainQuit \/ MainEndOfInput \/ MainParseError \/ MainStep
  PROVE  TypeInv'
<1> USE DEF TypeInv, TypeOK, PlacesOK, MainMoves, mainFrame, depSync, shared,
        queueVars, workerVars, printerVars, world, MainPlaces, Reading
<1>1. DepTypeOK' /\ Seqs' = Seqs /\ Len(tasks) \in Nat /\ tasks' = tasks
  BY DepTypeStutter
  DEF MainQuit, MainEndOfInput, MainParseError, MainStep, MainTerminate,
      MainBarrier, MainNotify, MainPush, MainNotifyOne, MainClose,
      MainCloseNotify, MainJoinAll, MainQuitBuffer, MainQuitDone,
      MainFlushStore, MainFinalStore, MainFinalNotify, MainJoinPrinter, depVars
<1> USE <1>1
<1>2. CASE MainQuit \/ MainEndOfInput \/ MainParseError
  BY <1>2 DEF MainQuit, MainEndOfInput, MainParseError
<1>3. CASE MainTerminate
  BY <1>3 DEF MainTerminate, WorkerPlaces, PrinterPlaces, Holding, Ready
<1>4. CASE MainBarrier
  BY <1>4 DEF MainBarrier, Max2
<1>5. CASE MainNotify \/ MainFinalNotify
  BY <1>5 DEF MainNotify, MainFinalNotify
<1>6. CASE MainPush
  BY <1>6 DEF MainPush, push, Seqs
<1>7. CASE MainNotifyOne
  BY <1>7 DEF MainNotifyOne, notifyOne
<1>8. CASE MainClose \/ MainCloseNotify
  BY <1>8 DEF MainClose, MainCloseNotify, close, notifyAll
<1>9. CASE MainJoinAll \/ MainJoinPrinter
  BY <1>9 DEF MainJoinAll, MainJoinPrinter
<1>10. CASE MainQuitBuffer
  BY <1>10, NoOutputType DEF MainQuitBuffer, Buffered, Seqs
<1>11. CASE MainQuitDone
  BY <1>11 DEF MainQuitDone
<1>12. CASE MainFlushStore \/ MainFinalStore
  BY <1>12 DEF MainFlushStore, MainFinalStore, lastSeq, Max2
<1> QED BY <1>2, <1>3, <1>4, <1>5, <1>6, <1>7, <1>8, <1>9, <1>10, <1>11,
           <1>12 DEF MainStep

LEMMA WorkerType ==
  ASSUME TypeInv, NEW w \in Workers, WorkerStep(w) \/ WorkerThrow(w)
  PROVE  TypeInv'
<1> USE DEF TypeInv, TypeOK, PlacesOK, WorkerMoves, workerFrame, depSync, shared,
        queueVars, workerVars, mainVars, printerVars, world, WorkerPlaces, Ready,
        Holding
<1>1. DepTypeOK' /\ Seqs' = Seqs /\ Len(tasks) \in Nat /\ tasks' = tasks
  BY DepTypeStutter
  DEF WorkerStep, WorkerThrow, WorkerPop, WorkerPopWait, WorkerExit, WorkerAwait,
      WorkerBegin, WorkerEnd, WorkerBuffer, WorkerDone, WorkerNotify, depVars
<1>2. wpc[w] \in Holding => query(cur[w]) \in Query /\ cur[w] \in Version
  <2>1. wpc[w] \in Holding => tasks[cur[w]] \in Task
    BY DEF DepTypeOK, Seqs
  <2>2. wpc[w] \in Holding => query(cur[w]) \in Query
    BY <2>1 DEF query, Task
  <2>3. wpc[w] \in Holding => cur[w] \in Version
    BY <1>1, MaxQueriesAssumption DEF Seqs, Version
  <2> QED BY <2>2, <2>3
<1>3. wpc[w] \in Holding => ViewOf(store, query(cur[w])) \in View
  BY <1>2, ViewTypes
<1>4. wpc[w] \in Holding =>
        WrittenBy(store, query(cur[w]), cur[w]) \in [Objects -> Version]
  BY <1>2 DEF WrittenBy
<1>5. EmptyView \in View /\ NoOutput \in Output
  BY NoOutputType DEF NoOutput, Output
<1> USE <1>1
<1>6. CASE WorkerPop(w)
  <2>1. Head(queue) \in Seqs /\ queue' \in Seq(Seqs)
    BY <1>6 DEF WorkerPop, popItem
  <2>2. cur' \in [Workers -> 0 .. Len(tasks)]
    BY <1>6, <2>1 DEF WorkerPop, Seqs
  <2> QED BY <1>6, <2>1, <2>2 DEF WorkerPop, popItem
<1>7. CASE WorkerPopWait(w)
  BY <1>7 DEF WorkerPopWait, popWait
<1>8. CASE WorkerExit(w)
  BY <1>8 DEF WorkerExit, popNothing
<1>9. CASE WorkerAwait(w)
  BY <1>9 DEF WorkerAwait
<1>10. CASE WorkerBegin(w)
  <2>1. reply' \in [Workers -> Output]
    BY <1>3, <1>10 DEF WorkerBegin, Output
  <2> QED BY <1>10, <2>1 DEF WorkerBegin
<1>11. CASE WorkerEnd(w)
  <2>1. Seen(w) \in Output
    <3>1. reply[w] \in Output /\ ViewOf(store, query(cur[w])) \in View
      BY <1>3, <1>11 DEF WorkerEnd
    <3> QED BY <3>1, OutputTypes DEF Seen
  <2>2. reply' \in [Workers -> Output]
    BY <2>1, <1>5, <1>11 DEF WorkerEnd
  <2>3. store' \in [Objects -> Version]
    BY <1>4, <1>11 DEF WorkerEnd
  <2>4. Line(w, cur[w], Seen(w)) \in StdoutLine
    <3>1. cur[w] \in Nat
      BY <1>1
    <3> QED BY <2>1, <3>1, OutputTypes, <1>5
  <2>5. Append(stdout, Line(w, cur[w], Seen(w))) \in Seq(StdoutLine)
    BY <2>4, Appended
  <2>6. stdout' \in Seq(StdoutLine)
    BY <2>5, <1>11 DEF WorkerEnd
  <2> QED BY <1>11, <2>2, <2>3, <2>6 DEF WorkerEnd
<1>12. CASE WorkerThrow(w)
  <2>1. reply' \in [Workers -> Output]
    BY <1>5, <1>12 DEF WorkerThrow
  <2>2. store' \in [Objects -> Version]
    BY <1>4, <1>12 DEF WorkerThrow
  <2>3. faults' \in 0 .. MaxFaults
    BY <1>12, MaxFaultsAssumption DEF WorkerThrow
  <2> QED BY <1>12, <2>1, <2>2, <2>3 DEF WorkerThrow
<1>13. CASE WorkerBuffer(w)
  <2>1. reply' \in [Workers -> Output]
    BY <1>5, <1>13 DEF WorkerBuffer
  <2>2. /\ DOMAIN resultBuffer' = DOMAIN resultBuffer \cup {cur[w]}
        /\ resultBuffer' \in [DOMAIN resultBuffer' -> Output]
    BY <1>13 DEF WorkerBuffer, Buffered
  <2> QED BY <1>13, <2>1, <2>2 DEF WorkerBuffer, Seqs
<1>14. CASE WorkerDone(w)
  BY <1>14 DEF WorkerDone, Seqs
<1>15. CASE WorkerNotify(w)
  BY <1>15 DEF WorkerNotify
<1> QED BY <1>6, <1>7, <1>8, <1>9, <1>10, <1>11, <1>12, <1>13, <1>14, <1>15
        DEF WorkerStep

LEMMA PrinterType ==
  ASSUME TypeInv, PrinterStep
  PROVE  TypeInv'
<1> USE DEF TypeInv, TypeOK, PlacesOK, printerFrame, depSync, shared, queueVars,
        workerVars, mainVars, PrinterPlaces
<1>1. DepTypeOK' /\ Seqs' = Seqs /\ Len(tasks) \in Nat /\ tasks' = tasks
  BY DepTypeStutter
  DEF PrinterStep, PrinterCheck, PrinterBlock, PrinterDrain, PrinterPrint,
      PrinterRelock, depVars
<1> USE <1>1
<1>2. CASE PrinterCheck \/ PrinterBlock \/ PrinterRelock
  BY <1>2 DEF PrinterCheck, PrinterBlock, PrinterRelock
<1>3. CASE PrinterDrain
  <2>1. str' \in Seq(Output) /\ Len(str') <= 1
    <3>1. CASE str' = str
      BY <3>1
    <3>2. CASE str' = <<>>
      BY <3>2
    <3>3. CASE nextToPrint \in DOMAIN resultBuffer
               /\ str' = <<resultBuffer[nextToPrint]>>
      BY <3>3, Appended
    <3> QED BY <3>1, <3>2, <3>3, <1>3 DEF PrinterDrain
  <2>2. /\ DOMAIN resultBuffer' \subseteq DOMAIN resultBuffer
        /\ resultBuffer' \in [DOMAIN resultBuffer' -> Output]
    BY <1>3 DEF PrinterDrain, Unbuffered
  <2> QED BY <1>3, <2>1, <2>2 DEF PrinterDrain
<1>4. CASE PrinterPrint
  <2>1. str # <<>> => Line(Printer, nextToPrint, str[1]) \in StdoutLine
    <3>1. str # <<>> => str[1] \in Output
      OBVIOUS
    <3>2. EmptyView \in View
      BY NoOutputType DEF NoOutput, Output
    <3> QED BY <3>1, <3>2, OutputTypes
  <2>2. stdout' \in Seq(StdoutLine)
    BY <2>1, <1>4, Appended DEF PrinterPrint
  <2>3. str' \in Seq(Output) /\ Len(str') <= 1
    BY <1>4 DEF PrinterPrint
  <2> QED BY <1>4, <2>2, <2>3 DEF PrinterPrint
<1> QED BY <1>2, <1>3, <1>4 DEF PrinterStep

LEMMA SpuriousType ==
  ASSUME TypeInv, SpuriousWakeup
  PROVE  TypeInv'
<1>1. DepTypeOK' /\ Seqs' = Seqs /\ tasks' = tasks
  BY DepTypeStutter DEF SpuriousWakeup, depVars, TypeInv, TypeOK
<1>2. faults' \in 0 .. MaxFaults
  BY MaxFaultsAssumption DEF SpuriousWakeup, TypeInv, TypeOK
<1>3. popWaiting' \subseteq Workers /\ depWaiting' \subseteq Workers \cup {Printer}
      /\ queue' = queue /\ closed' = closed
  BY DEF SpuriousWakeup, popSpurious, queueVars, TypeInv, TypeOK
<1> QED
  BY <1>1, <1>2, <1>3
  DEF SpuriousWakeup, TypeInv, TypeOK, PlacesOK, mainVars, workerVars,
      printerVars, shared, world

LEMMA TypeStutter == TypeInv /\ UNCHANGED vars => TypeInv'
<1> SUFFICES ASSUME TypeInv, UNCHANGED vars PROVE TypeInv'
  OBVIOUS
<1>1. DepTypeOK' /\ Seqs' = Seqs /\ tasks' = tasks
  BY DepTypeStutter DEF vars, depVars, TypeInv, TypeOK
<1> QED
  BY <1>1
  DEF vars, TypeInv, TypeOK, PlacesOK, queueVars, mainVars, workerVars,
      printerVars, shared, depSync, world

LEMMA TypeStep == TypeInv /\ [Next]_vars => TypeInv'
BY ParseType, MainType, WorkerType, PrinterType, SpuriousType, TypeStutter
DEF Next, MainRead

\* The types of the scheduler's state: in particular no number but QUIT's lies
\* beyond the tasks, and a worker deals with a scheduled task only.
THEOREM TypeCorrect == Spec => []TypeOK
<1>1. TypeInv => TypeOK
  BY DEF TypeInv
<1> QED BY TypeInit, TypeStep, <1>1, PTL DEF Spec
-----------------------------------------------------------------------------
\* The tasks that are done hold whatever they waited for, and so they do for a
\* task whose worker is past its wait.
DoneClosed == \A i \in doneSeqs \cap Seqs : tasks[i].waitAll \subseteq doneSeqs

RunsReady ==
  \A w \in Workers : wpc[w] \in Ready => tasks[cur[w]].waitAll \subseteq doneSeqs

OrderInv == TypeInv /\ DepInv /\ DoneClosed /\ RunsReady

\* Only MainParse touches the tasks.
LEMMA OnlyParseSchedules ==
  ASSUME [Next]_vars, \A q \in Input : ~MainParse(q)
  PROVE  UNCHANGED depVars
<1>1. CASE MainRead
  BY <1>1 DEF MainRead, MainQuit, MainEndOfInput, MainParseError, mainFrame
<1>2. CASE MainStep
  BY <1>2
  DEF MainStep, MainTerminate, MainBarrier, MainNotify, MainPush, MainNotifyOne,
      MainClose, MainCloseNotify, MainJoinAll, MainQuitBuffer, MainQuitDone,
      MainFlushStore, MainFinalStore, MainFinalNotify, MainJoinPrinter, mainFrame
<1>3. ASSUME NEW w \in Workers, WorkerStep(w) \/ WorkerThrow(w)
      PROVE  UNCHANGED depVars
  BY <1>3
  DEF WorkerStep, WorkerThrow, WorkerPop, WorkerPopWait, WorkerExit, WorkerAwait,
      WorkerBegin, WorkerEnd, WorkerBuffer, WorkerDone, WorkerNotify, workerFrame
<1>4. CASE PrinterStep
  BY <1>4
  DEF PrinterStep, PrinterCheck, PrinterBlock, PrinterDrain, PrinterPrint,
      PrinterRelock, printerFrame
<1>5. CASE SpuriousWakeup
  BY <1>5 DEF SpuriousWakeup
<1> QED BY <1>1, <1>2, <1>3, <1>4, <1>5 DEF Next, vars

\* How doneSeqs and the workers' places may change when no task is added.
LEMMA DoneGrows ==
  ASSUME TypeInv, [Next]_vars, \A q \in Input : ~MainParse(q)
  PROVE  \/ UNCHANGED <<doneSeqs, wpc, cur>>
         \/ /\ UNCHANGED doneSeqs
            /\ \A w \in Workers : wpc'[w] = "killed"
         \/ MainQuitDone
         \/ \E w \in Workers : WorkerStep(w) \/ WorkerThrow(w)
<1>1. CASE MainRead
  BY <1>1
  DEF MainRead, MainQuit, MainEndOfInput, MainParseError, mainFrame, workerVars,
      shared
<1>2. CASE MainTerminate
  BY <1>2 DEF MainTerminate, shared
<1>3. CASE MainStep /\ ~MainTerminate /\ ~MainQuitDone
  BY <1>3
  DEF MainStep, MainBarrier, MainNotify, MainPush, MainNotifyOne,
      MainClose, MainCloseNotify, MainJoinAll, MainQuitBuffer,
      MainFlushStore, MainFinalStore, MainFinalNotify, MainJoinPrinter,
      mainFrame, workerVars, shared
<1>4. CASE PrinterStep
  BY <1>4
  DEF PrinterStep, PrinterCheck, PrinterBlock, PrinterDrain, PrinterPrint,
      PrinterRelock, printerFrame, workerVars, shared
<1>5. CASE SpuriousWakeup
  BY <1>5 DEF SpuriousWakeup, workerVars, shared
<1>6. CASE UNCHANGED vars
  BY <1>6 DEF vars, workerVars, shared
<1> QED BY <1>1, <1>2, <1>3, <1>4, <1>5, <1>6 DEF Next

LEMMA OrderInit == Init => OrderInv
<1> SUFFICES ASSUME Init PROVE OrderInv
  OBVIOUS
<1>1. TypeInv /\ DepInv
  BY TypeInit, DepInvInit DEF Init
<1>2. DoneClosed /\ RunsReady
  BY DEF Init, DoneClosed, RunsReady, Ready
<1> QED BY <1>1, <1>2 DEF OrderInv

\* A new task is neither done nor held by a worker.
LEMMA ParseOrder ==
  ASSUME OrderInv, NEW q \in Input, MainParse(q)
  PROVE  DoneClosed' /\ RunsReady'
<1>1. /\ Seqs' = Seqs \cup {Len(tasks) + 1}
      /\ \A i \in Seqs : tasks'[i] = tasks[i]
  BY ScheduleAppends, InputAssumption DEF OrderInv, TypeInv, TypeOK, MainParse
<1>2. UNCHANGED <<doneSeqs, wpc, cur>>
  BY DEF MainParse, workerVars, shared
<1>3. doneSeqs \subseteq Seqs
  BY DEF OrderInv, TypeInv, TypeOK, PlacesOK, MainParse, Reading
<1>4. DoneClosed'
  BY <1>1, <1>2, <1>3 DEF OrderInv, DoneClosed
<1>5. RunsReady'
  BY <1>1, <1>2
  DEF OrderInv, TypeInv, PlacesOK, Holding, RunsReady
<1> QED BY <1>4, <1>5

LEMMA DoneOrder ==
  ASSUME OrderInv, UNCHANGED depVars, NEW w \in Workers,
         WorkerStep(w) \/ WorkerThrow(w)
  PROVE  DoneClosed' /\ RunsReady'
<1> USE DEF OrderInv, DoneClosed, RunsReady
<1>1. tasks' = tasks /\ Seqs' = Seqs
  BY DEF depVars, Seqs
<1>2. wpc \in [Workers -> WorkerPlaces] /\ cur \in [Workers -> 0 .. Len(tasks)]
  BY DEF TypeInv, TypeOK
<1>3. CASE WorkerPop(w)
  BY <1>1, <1>2, <1>3 DEF WorkerPop, shared, Ready
<1>4. CASE WorkerAwait(w)
  BY <1>1, <1>2, <1>4 DEF WorkerAwait, DependenciesDone, shared, Ready
<1>5. CASE WorkerDone(w)
  BY <1>1, <1>2, <1>5 DEF WorkerDone, WorkerMoves, Ready
<1>6. CASE WorkerPopWait(w) \/ WorkerExit(w) \/ WorkerNotify(w)
  BY <1>1, <1>2, <1>6
  DEF WorkerPopWait, WorkerExit, WorkerNotify, WorkerMoves, workerVars, shared,
      Ready
<1>7. CASE WorkerBegin(w) \/ WorkerEnd(w) \/ WorkerThrow(w) \/ WorkerBuffer(w)
  BY <1>1, <1>2, <1>7
  DEF WorkerBegin, WorkerEnd, WorkerThrow, WorkerBuffer, WorkerMoves, shared,
      Ready
<1> QED BY <1>3, <1>4, <1>5, <1>6, <1>7 DEF WorkerStep

LEMMA OrderStep == OrderInv /\ [Next]_vars => OrderInv'
<1> SUFFICES ASSUME OrderInv, [Next]_vars PROVE OrderInv'
  OBVIOUS
<1>1. TypeInv'
  BY TypeStep DEF OrderInv
<1>2. CASE \E q \in Input : MainParse(q)
  BY <1>1, <1>2, ParseOrder, DepInvStep, InputAssumption DEF OrderInv, MainParse
<1>3. CASE \A q \in Input : ~MainParse(q)
  <2>1. UNCHANGED depVars /\ DepInv'
    BY <1>3, OnlyParseSchedules, DepInvStutter DEF OrderInv
  <2>2. tasks' = tasks /\ Seqs' = Seqs
    BY <2>1 DEF depVars, Seqs
  <2>3. CASE UNCHANGED <<doneSeqs, wpc, cur>>
    BY <1>1, <2>1, <2>2, <2>3 DEF OrderInv, DoneClosed, RunsReady
  <2>4. CASE UNCHANGED doneSeqs /\ \A w \in Workers : wpc'[w] = "killed"
    BY <1>1, <2>1, <2>2, <2>4 DEF OrderInv, DoneClosed, RunsReady, Ready
  <2>5. CASE MainQuitDone
    <3>1. quitSeq \notin Seqs
      BY <2>5 DEF OrderInv, TypeInv, TypeOK, DepTypeOK, PlacesOK, MainQuitDone,
                  MainMoves, Seqs
    <3>2. doneSeqs' = doneSeqs \cup {quitSeq} /\ UNCHANGED <<wpc, cur>>
      BY <2>5 DEF MainQuitDone, mainFrame, workerVars
    <3> QED BY <1>1, <2>1, <2>2, <3>1, <3>2 DEF OrderInv, DoneClosed, RunsReady
  <2>6. CASE \E w \in Workers : WorkerStep(w) \/ WorkerThrow(w)
    BY <1>1, <2>1, <2>6, DoneOrder DEF OrderInv
  <2> QED BY <1>3, <2>3, <2>4, <2>5, <2>6, DoneGrows DEF OrderInv
<1> QED BY <1>2, <1>3

\* Whatever an executing or executed task is in conflict with is done.
LEMMA EarlierDone ==
  ASSUME OrderInv, NEW j \in Seqs, tasks[j].waitAll \subseteq doneSeqs,
         NEW i \in 1 .. j - 1, Tracked(query(i)), Tracked(query(j)),
         Conflict(query(i), query(j))
  PROVE  i \in doneSeqs
<1> DEFINE D == doneSeqs \cap Seqs
<1>1. \A k \in Seqs : tasks[k].waitAll \subseteq Seqs
  BY DEF OrderInv, TypeInv, TypeOK, DepTypeOK, Seqs
<1>2. D \in SUBSET Seqs /\ Closed(D) /\ tasks[j].waitAll \subseteq D
  BY <1>1 DEF OrderInv, DoneClosed, Closed
<1> QED BY <1>2 DEF OrderInv, DepInv, Covered, query

\* No query executes before the earlier queries in conflict with it are done
\* (makeWorkerFunc's wait on waitAllSeqs).
THEOREM ConflictOrderHolds == Spec => []ConflictOrder
<1>1. OrderInv => ConflictOrder
  <2> SUFFICES ASSUME OrderInv, NEW w \in Workers, wpc[w] \in {"exec", "run"},
                      NEW i \in 1 .. cur[w] - 1,
                      Tracked(query(i)), Tracked(query(cur[w])),
                      Conflict(query(i), query(cur[w]))
               PROVE  i \in doneSeqs
    BY DEF ConflictOrder
  <2>1. cur[w] \in Seqs /\ tasks[cur[w]].waitAll \subseteq doneSeqs
    BY DEF OrderInv, TypeInv, PlacesOK, RunsReady, Holding, Ready
  <2> QED BY <2>1, EarlierDone
<1> QED BY OrderInit, OrderStep, <1>1, PTL DEF Spec
-----------------------------------------------------------------------------
\* Only workers in pop sleep on the queue's condition variable.
SleepersPop == \A w \in popWaiting : wpc[w] = "pop"

QueueInv == TypeInv /\ SleepersPop /\ NoTaskStranded

Pushed == IF mpc = "notifyOne" THEN 1 ELSE 0

\* A worker that comes to the queue, or that leaves it, counts for one.
LEMMA AwakeCounts ==
  ASSUME NEW S \in SUBSET Workers, NEW w \in Workers
  PROVE  /\ IsFiniteSet(S) /\ Cardinality(S) \in Nat
         /\ w \notin S => Cardinality(S \cup {w}) = Cardinality(S) + 1
         /\ w \in S => Cardinality(S \ {w}) = Cardinality(S) - 1
<1>1. IsFiniteSet(S)
  BY FS_Subset, WorkersAssumption
<1> QED BY <1>1, FS_CardinalityType, FS_AddElement, FS_RemoveElement

\* A step that leaves the queue's length alone, and after which the workers
\* awake at the queue are at least those before, strands no task.
LEMMA MoreAwake ==
  ASSUME QueueInv, TypeInv', Len(queue') <= Len(queue), Pushed' = Pushed,
         popWaiting' \subseteq popWaiting,
         AwakeAtPop \subseteq AwakeAtPop'
  PROVE  NoTaskStranded'
<1>1. Cardinality(AwakeAtPop) <= Cardinality(AwakeAtPop')
      /\ Cardinality(AwakeAtPop) \in Nat /\ Cardinality(AwakeAtPop') \in Nat
  <2>1. IsFiniteSet(AwakeAtPop')
    BY FS_Subset, WorkersAssumption DEF AwakeAtPop
  <2> QED BY <2>1, FS_Subset, FS_CardinalityType
<1>2. Len(queue) \in Nat /\ Len(queue') \in Nat
  BY DEF QueueInv, TypeInv, TypeOK
<1> QED BY <1>1, <1>2 DEF QueueInv, NoTaskStranded, Pushed

LEMMA QueueMain ==
  ASSUME QueueInv, TypeInv', MainRead \/ MainStep
  PROVE  SleepersPop' /\ NoTaskStranded'
<1> USE DEF QueueInv, SleepersPop
<1>1. Len(queue) \in Nat /\ Cardinality(AwakeAtPop) \in Nat
  <2>1. queue \in Seq(Seqs)
    BY DEF TypeInv, TypeOK
  <2>2. AwakeAtPop \subseteq Workers
    BY DEF AwakeAtPop
  <2>3. Cardinality(AwakeAtPop) \in Nat
    BY <2>2, FS_Subset, FS_CardinalityType, WorkersAssumption
  <2> QED BY <2>1, <2>3
<1>2. CASE MainTerminate \/ MainCloseNotify
  BY <1>2
  DEF MainTerminate, MainCloseNotify, notifyAll, NoTaskStranded
<1>3. CASE MainPush
  <2>1. UNCHANGED <<wpc, popWaiting>> /\ AwakeAtPop' = AwakeAtPop
    BY <1>3 DEF MainPush, push, mainFrame, workerVars, AwakeAtPop
  <2>2. Len(queue') = Len(queue) + 1 /\ mpc = "push" /\ mpc' = "notifyOne"
    BY <1>3 DEF MainPush, MainMoves, push, TypeInv, TypeOK
  <2> QED BY <1>1, <2>1, <2>2 DEF NoTaskStranded
<1>4. CASE MainNotifyOne
  <2>1. UNCHANGED <<wpc, queue>> /\ mpc = "notifyOne" /\ mpc' = "parse"
    BY <1>4 DEF MainNotifyOne, MainMoves, notifyOne, mainFrame, workerVars
  <2>2. CASE popWaiting = {} /\ popWaiting' = {}
    BY <2>1, <2>2 DEF NoTaskStranded
  <2>3. CASE \E w \in popWaiting : popWaiting' = popWaiting \ {w}
    <3>1. PICK w \in popWaiting : popWaiting' = popWaiting \ {w}
      BY <2>3
    <3>2. w \in Workers /\ wpc[w] = "pop" /\ w \notin AwakeAtPop
      BY <3>1 DEF TypeInv, TypeOK, AwakeAtPop
    <3>3. AwakeAtPop' = AwakeAtPop \cup {w}
      BY <2>1, <3>1, <3>2 DEF AwakeAtPop
    <3>4. Cardinality(AwakeAtPop') = Cardinality(AwakeAtPop) + 1
      BY <3>2, <3>3, AwakeCounts DEF AwakeAtPop
    <3> QED BY <1>1, <2>1, <3>1, <3>4 DEF NoTaskStranded
  <2> QED BY <1>4, <2>2, <2>3 DEF MainNotifyOne, notifyOne
<1>5. CASE ~(MainTerminate \/ MainCloseNotify \/ MainPush \/ MainNotifyOne)
  <2>1. UNCHANGED <<wpc, queue, popWaiting>> /\ Pushed' = Pushed
    <3>1. CASE MainRead
      BY <3>1
      DEF MainRead, MainParse, MainQuit, MainEndOfInput, MainParseError,
          MainMoves, mainFrame, queueVars, workerVars, Pushed
    <3>2. CASE MainStep
      BY <3>2, <1>5
      DEF MainStep, MainBarrier, MainNotify, MainClose, close, MainJoinAll,
          MainQuitBuffer, MainQuitDone, MainFlushStore, MainFinalStore,
          MainFinalNotify, MainJoinPrinter, MainMoves, mainFrame, queueVars,
          workerVars, Pushed
    <3> QED BY <3>1, <3>2
  <2>2. AwakeAtPop' = AwakeAtPop
    BY <2>1 DEF AwakeAtPop
  <2> QED BY <2>1, <2>2 DEF NoTaskStranded, Pushed
<1> QED BY <1>2, <1>3, <1>4, <1>5

LEMMA QueueWorker ==
  ASSUME QueueInv, TypeInv', NEW w \in Workers, WorkerStep(w) \/ WorkerThrow(w)
  PROVE  SleepersPop' /\ NoTaskStranded'
<1> USE DEF QueueInv, SleepersPop
<1>1. Len(queue) \in Nat /\ Cardinality(AwakeAtPop) \in Nat
  <2>1. queue \in Seq(Seqs)
    BY DEF TypeInv, TypeOK
  <2>2. AwakeAtPop \subseteq Workers
    BY DEF AwakeAtPop
  <2>3. Cardinality(AwakeAtPop) \in Nat
    BY <2>2, FS_Subset, FS_CardinalityType, WorkersAssumption
  <2> QED BY <2>1, <2>3
<1>2. wpc \in [Workers -> WorkerPlaces] /\ popWaiting \subseteq Workers
  BY DEF TypeInv, TypeOK
<1>3. Pushed' = Pushed /\ mpc' = mpc
  BY DEF WorkerStep, WorkerPop, WorkerPopWait, WorkerExit, WorkerAwait,
         WorkerBegin, WorkerEnd, WorkerThrow, WorkerBuffer, WorkerDone,
         WorkerNotify, workerFrame, mainVars, Pushed
<1>4. CASE WorkerPop(w)
  <2>1. /\ w \in AwakeAtPop /\ popWaiting' = popWaiting
        /\ Len(queue') = Len(queue) - 1
    BY <1>4 DEF WorkerPop, popItem, AwakeAtPop, TypeInv, TypeOK
  <2>2. wpc'[w] # "pop" /\ \A v \in Workers \ {w} : wpc'[v] = wpc[v]
    BY <1>2, <1>4 DEF WorkerPop
  <2>3. AwakeAtPop' = AwakeAtPop \ {w}
    BY <2>1, <2>2 DEF AwakeAtPop
  <2>4. Cardinality(AwakeAtPop') = Cardinality(AwakeAtPop) - 1
    BY <2>1, <2>3, AwakeCounts DEF AwakeAtPop
  <2>5. SleepersPop'
    BY <1>2, <2>1, <2>2 DEF AwakeAtPop
  <2> QED BY <1>1, <1>3, <2>1, <2>4, <2>5 DEF NoTaskStranded
<1>5. CASE WorkerPopWait(w) \/ WorkerExit(w)
  <2>1. Len(queue') = 0 /\ Cardinality(AwakeAtPop') \in Nat
    BY <1>5, FS_Subset, FS_CardinalityType, WorkersAssumption
    DEF WorkerPopWait, WorkerExit, popWait, popNothing, queueVars, AwakeAtPop
  <2>2. SleepersPop'
    BY <1>2, <1>5
    DEF WorkerPopWait, WorkerExit, popWait, popNothing, queueVars, workerVars
  <2> QED BY <2>1, <2>2 DEF NoTaskStranded
<1>6. CASE ~(WorkerPop(w) \/ WorkerPopWait(w) \/ WorkerExit(w))
  <2>1. /\ UNCHANGED <<queue, popWaiting>>
        /\ wpc[w] # "pop" /\ \A v \in Workers \ {w} : wpc'[v] = wpc[v]
    BY <1>2, <1>6
    DEF WorkerStep, WorkerAwait, WorkerBegin, WorkerEnd, WorkerThrow,
        WorkerBuffer, WorkerDone, WorkerNotify, WorkerMoves, queueVars
  <2>2. AwakeAtPop \subseteq AwakeAtPop'
    BY <2>1 DEF AwakeAtPop
  <2>3. SleepersPop'
    BY <1>2, <2>1
  <2> QED BY <1>1, <1>3, <2>1, <2>2, <2>3, MoreAwake
<1> QED BY <1>4, <1>5, <1>6

LEMMA QueueOther ==
  ASSUME QueueInv, TypeInv', PrinterStep \/ SpuriousWakeup \/ UNCHANGED vars
  PROVE  SleepersPop' /\ NoTaskStranded'
<1>1. UNCHANGED <<queue, wpc, mpc>> /\ popWaiting' \subseteq popWaiting
  BY DEF PrinterStep, PrinterCheck, PrinterBlock, PrinterDrain, PrinterPrint,
         PrinterRelock, printerFrame, queueVars, workerVars, mainVars, vars,
         SpuriousWakeup, popSpurious
<1>2. AwakeAtPop \subseteq AwakeAtPop' /\ Pushed' = Pushed
  BY <1>1 DEF AwakeAtPop, Pushed
<1>3. Len(queue') <= Len(queue)
  BY <1>1 DEF QueueInv, TypeInv, TypeOK
<1> QED BY <1>1, <1>2, <1>3, MoreAwake DEF QueueInv, SleepersPop

\* No worker sleeps in pop while those awake cannot take every task in the
\* queue: a notify_one per push is enough (ConcurrentQueue, scheduler.h 30-51).
THEOREM NoTaskIsStranded == Spec => []NoTaskStranded
<1>1. Init => QueueInv
  BY TypeInit DEF Init, QueueInit, QueueInv, SleepersPop, NoTaskStranded
<1>2. QueueInv /\ [Next]_vars => QueueInv'
  BY TypeStep, QueueMain, QueueWorker, QueueOther DEF QueueInv, Next
<1>3. QueueInv => NoTaskStranded
  BY DEF QueueInv
<1> QED BY <1>1, <1>2, <1>3, PTL DEF Spec
-----------------------------------------------------------------------------
(***************************************************************************)
(* The results of the scheduled queries.                                   *)
(*                                                                         *)
(* They are serial.  Every task is in one place, the queue, one worker, or *)
(* doneSeqs (Placed).  What a task is in conflict with among the earlier   *)
(* tasks is done when it executes (ConflictOrder), and what it is in       *)
(* conflict with among the later ones has not been executed, for that      *)
(* would have waited for it.  So the store holds, of what the task looks   *)
(* at, exactly what the tasks before it wrote (StoreOK).                   *)
(*                                                                         *)
(* What the printer prints is complete.  It passes a number only once it   *)
(* is done (PassedDone), it ends only past the last number (FinalKnown),   *)
(* and what is buffered lies ahead of it (BufferAhead).  A number that is  *)
(* done has its result in the buffer, in the printer's hands or on stdout, *)
(* or has lost it to an exception, and each exception loses one (LostFew). *)
(*                                                                         *)
(* It refines SerialDatabase: the printer's step is the abstract answer,   *)
(* for a result is serial and says something of the whole footprint        *)
(* (ShapeInv), and two views of the same last writers are equal            *)
(* (SerialShows).  When there is nothing to print, the query threw, and    *)
(* those are few (FewUnprinted).  No other thread's step is seen.          *)
(***************************************************************************)
Held == {w \in Workers : wpc[w] \in Holding}

Numbered == {"barrier", "notify", "push"}

\* Every task is in one place.
Placed ==
  /\ \A i, j \in 1 .. Len(queue) : queue[i] = queue[j] => i = j
  /\ \A i \in 1 .. Len(queue) : queue[i] \notin doneSeqs
  /\ \A i \in 1 .. Len(queue) : \A w \in Held : cur[w] # queue[i]
  /\ \A w \in Held : cur[w] \notin doneSeqs
  /\ \A v, w \in Held : cur[v] = cur[w] => v = w
  /\ mpc \in Numbered =>
       /\ Len(tasks) \notin doneSeqs
       /\ \A i \in 1 .. Len(queue) : queue[i] # Len(tasks)
       /\ \A w \in Held : cur[w] # Len(tasks)

LEMMA PlacedFrame ==
  ASSUME Placed, UNCHANGED <<queue, doneSeqs, tasks, cur>>, Held' \subseteq Held,
         mpc' \in Numbered => mpc \in Numbered
  PROVE  Placed'
BY DEF Placed

LEMMA PlacedMain ==
  ASSUME TypeInv, Placed, MainRead \/ MainStep
  PROVE  Placed'
<1>1. CASE \E q \in Input : MainParse(q)
  <2>1. PICK q \in Input : MainParse(q)
    BY <1>1
  <2>2. Len(tasks') = Len(tasks) + 1 /\ Len(tasks) \in Nat
    BY <2>1, ScheduleAppends, InputAssumption DEF TypeInv, TypeOK, MainParse
  <2>3. UNCHANGED <<queue, doneSeqs, wpc, cur>> /\ Held' = Held
    BY <2>1 DEF MainParse, queueVars, shared, workerVars, Held
  <2>4. Len(tasks') \notin doneSeqs
    <3>1. doneSeqs \subseteq Seqs \cup {0}
      BY <2>1 DEF TypeInv, PlacesOK, MainParse, Reading
    <3> QED BY <2>2, <3>1 DEF Seqs
  <2>5. /\ \A i \in 1 .. Len(queue) : queue[i] \in Seqs
        /\ \A w \in Held : cur[w] \in Seqs
    BY DEF TypeInv, TypeOK, PlacesOK, Held
  <2>6. /\ \A i \in 1 .. Len(queue) : queue[i] # Len(tasks')
        /\ \A w \in Held : cur[w] # Len(tasks')
    BY <2>2, <2>5 DEF Seqs
  <2> QED BY <2>3, <2>4, <2>6 DEF Placed
<1>2. CASE MainTerminate
  <2>1. Held' = {} /\ UNCHANGED <<queue, doneSeqs, tasks, cur>>
        /\ mpc' \notin Numbered
    BY <1>2 DEF MainTerminate, MainMoves, Held, Holding, Ready, shared, depVars,
                Numbered
  <2> QED BY <2>1, PlacedFrame
<1>3. CASE MainPush
  <2>1. /\ Len(queue') = Len(queue) + 1 /\ queue'[Len(queue')] = Len(tasks)
        /\ \A i \in 1 .. Len(queue) : queue'[i] = queue[i]
        /\ Len(queue) \in Nat
    BY <1>3 DEF MainPush, push, TypeInv, TypeOK
  <2>2. /\ UNCHANGED <<doneSeqs, tasks, wpc, cur>> /\ Held' = Held
        /\ mpc \in Numbered /\ mpc' \notin Numbered
    BY <1>3 DEF MainPush, MainMoves, mainFrame, shared, depVars, workerVars, Held,
                Numbered
  <2> QED BY <2>1, <2>2 DEF Placed
<1>4. CASE MainQuitDone
  <2>1. /\ doneSeqs' = doneSeqs \cup {quitSeq} /\ quitSeq \notin Seqs
        /\ mpc' \notin Numbered
    BY <1>4 DEF MainQuitDone, MainMoves, TypeInv, TypeOK, DepTypeOK, PlacesOK,
                Seqs, Numbered
  <2>2. UNCHANGED <<queue, tasks, wpc, cur>> /\ Held' = Held
    BY <1>4 DEF MainQuitDone, mainFrame, queueVars, depVars, workerVars, Held
  <2>3. /\ \A i \in 1 .. Len(queue) : queue[i] \in Seqs
        /\ \A w \in Held : cur[w] \in Seqs
    BY DEF TypeInv, TypeOK, PlacesOK, Held
  <2> QED BY <2>1, <2>2, <2>3 DEF Placed
<1>5. CASE MainQuit \/ MainEndOfInput \/ MainParseError
  <2>1. UNCHANGED <<queue, doneSeqs, tasks, wpc, cur>> /\ Held' = Held
        /\ mpc' \notin Numbered
    BY <1>5 DEF MainQuit, MainEndOfInput, MainParseError, MainMoves, mainFrame,
                queueVars, shared, depVars, workerVars, Held, Numbered
  <2> QED BY <2>1, PlacedFrame
<1>6. CASE MainBarrier \/ MainNotify \/ MainNotifyOne \/ MainClose
           \/ MainCloseNotify
  <2>1. UNCHANGED <<queue, doneSeqs, tasks, wpc, cur>> /\ Held' = Held
        /\ (mpc' \in Numbered => mpc \in Numbered)
    BY <1>6 DEF MainBarrier, MainNotify, MainNotifyOne, MainClose,
                MainCloseNotify, MainMoves, mainFrame, close, notifyAll, notifyOne,
                queueVars, shared, depVars, workerVars, Held, Numbered
  <2> QED BY <2>1, PlacedFrame
<1>7. CASE MainJoinAll \/ MainQuitBuffer \/ MainFlushStore \/ MainFinalStore
           \/ MainFinalNotify \/ MainJoinPrinter
  <2>1. UNCHANGED <<queue, doneSeqs, tasks, wpc, cur>> /\ Held' = Held
        /\ mpc' \notin Numbered
    BY <1>7 DEF MainJoinAll, MainQuitBuffer, MainFlushStore, MainFinalStore,
                MainFinalNotify, MainJoinPrinter, MainMoves, mainFrame,
                queueVars, shared, depVars, workerVars, Held, Numbered
  <2> QED BY <2>1, PlacedFrame
<1> QED BY <1>1, <1>2, <1>3, <1>4, <1>5, <1>6, <1>7 DEF MainRead, MainStep

LEMMA PlacedWorker ==
  ASSUME TypeInv, Placed, NEW w \in Workers, WorkerStep(w) \/ WorkerThrow(w)
  PROVE  Placed'
<1>1. wpc \in [Workers -> WorkerPlaces] /\ cur \in [Workers -> 0 .. Len(tasks)]
  BY DEF TypeInv, TypeOK
<1>2. UNCHANGED <<mpc, tasks>>
  BY DEF WorkerStep, WorkerPop, WorkerPopWait, WorkerExit, WorkerAwait,
         WorkerBegin, WorkerEnd, WorkerThrow, WorkerBuffer, WorkerDone,
         WorkerNotify, workerFrame, mainVars, depVars
<1>3. CASE WorkerPop(w)
  <2>1. /\ \A i \in 1 .. Len(queue') :
              i + 1 \in 1 .. Len(queue) /\ queue'[i] = queue[i + 1] /\ i + 1 # 1
        /\ 1 \in 1 .. Len(queue) /\ cur'[w] = queue[1]
    <3>1. queue \in Seq(Seqs) /\ queue # <<>> /\ queue' = Tail(queue)
      BY <1>3 DEF WorkerPop, popItem, TypeInv, TypeOK
    <3>2. cur'[w] = Head(queue)
      BY <1>1, <1>3 DEF WorkerPop
    <3> QED BY <3>1, <3>2
  <2>2. /\ \A v \in Workers \ {w} : wpc'[v] = wpc[v] /\ cur'[v] = cur[v]
        /\ doneSeqs' = doneSeqs /\ w \notin Held
    BY <1>1, <1>3 DEF WorkerPop, shared, Held, Holding, Ready
  <2>3. \A v \in Held' : v = w \/ (v \in Held /\ v # w /\ cur'[v] = cur[v])
    <3> SUFFICES ASSUME NEW v \in Held', v # w
                 PROVE  v \in Held /\ cur'[v] = cur[v]
      OBVIOUS
    <3>1. v \in Workers /\ wpc'[v] \in Holding
      BY DEF Held, Holding, Ready
    <3>2. wpc'[v] = wpc[v] /\ cur'[v] = cur[v]
      BY <2>2, <3>1
    <3> QED BY <3>1, <3>2 DEF Held
  <2>4. /\ \A i, j \in 1 .. Len(queue') : queue'[i] = queue'[j] => i = j
        /\ \A i \in 1 .. Len(queue') : queue'[i] \notin doneSeqs'
    <3>1. ASSUME NEW i \in 1 .. Len(queue'), NEW j \in 1 .. Len(queue'),
                 queue'[i] = queue'[j]
          PROVE  i = j
      <4>1. /\ i + 1 \in 1 .. Len(queue) /\ j + 1 \in 1 .. Len(queue)
            /\ queue[i + 1] = queue[j + 1]
        BY <2>1, <3>1
      <4>2. \A k, l \in 1 .. Len(queue) : queue[k] = queue[l] => k = l
        BY DEF Placed
      <4>3. i + 1 = j + 1
        BY <4>1, <4>2
      <4> QED BY <4>3
    <3>2. ASSUME NEW i \in 1 .. Len(queue') PROVE queue'[i] \notin doneSeqs'
      BY <2>1, <2>2 DEF Placed
    <3> QED BY <3>1, <3>2
  <2>5. ASSUME NEW i \in 1 .. Len(queue'), NEW v \in Held'
        PROVE  cur'[v] # queue'[i]
    <3>1. CASE v = w
      BY <2>1, <3>1 DEF Placed
    <3>2. CASE v \in Held /\ cur'[v] = cur[v]
      BY <2>1, <3>2 DEF Placed
    <3> QED BY <2>3, <3>1, <3>2
  <2>6. ASSUME NEW v \in Held' PROVE cur'[v] \notin doneSeqs'
    BY <2>1, <2>2, <2>3 DEF Placed
  <2>7. ASSUME NEW u \in Held', NEW v \in Held', cur'[u] = cur'[v]
        PROVE  u = v
    <3>1. CASE u # w /\ v # w
      BY <2>3, <2>7, <3>1 DEF Placed
    <3>2. CASE u = w /\ v # w
      BY <2>1, <2>3, <2>7, <3>2 DEF Placed
    <3>3. CASE u # w /\ v = w
      BY <2>1, <2>3, <2>7, <3>3 DEF Placed
    <3> QED BY <3>1, <3>2, <3>3
  <2>8. mpc' \in Numbered =>
          /\ Len(tasks') \notin doneSeqs'
          /\ \A i \in 1 .. Len(queue') : queue'[i] # Len(tasks')
          /\ \A v \in Held' : cur'[v] # Len(tasks')
    <3> SUFFICES ASSUME mpc' \in Numbered
                 PROVE  /\ Len(tasks') \notin doneSeqs'
                        /\ \A i \in 1 .. Len(queue') : queue'[i] # Len(tasks')
                        /\ \A v \in Held' : cur'[v] # Len(tasks')
      OBVIOUS
    <3>1. /\ Len(tasks) \notin doneSeqs
          /\ \A i \in 1 .. Len(queue) : queue[i] # Len(tasks)
          /\ \A v \in Held : cur[v] # Len(tasks)
      BY <1>2 DEF Placed
    <3> QED BY <1>2, <2>1, <2>2, <2>3, <3>1
  <2> QED BY <2>4, <2>5, <2>6, <2>7, <2>8 DEF Placed
<1>4. CASE WorkerDone(w)
  <2>1. /\ doneSeqs' = doneSeqs \cup {cur[w]} /\ UNCHANGED queue
        /\ w \in Held /\ Held' = Held \ {w}
        /\ \A v \in Held' : cur'[v] = cur[v]
    BY <1>1, <1>4 DEF WorkerDone, WorkerMoves, Held, Holding, Ready, queueVars
  <2> QED BY <1>2, <2>1 DEF Placed
<1>5. CASE ~WorkerPop(w) /\ ~WorkerDone(w)
  <2>1. UNCHANGED <<queue, doneSeqs, cur>>
    BY <1>5 DEF WorkerStep, WorkerPopWait, WorkerExit, WorkerAwait, WorkerBegin,
                WorkerEnd, WorkerThrow, WorkerBuffer, WorkerNotify, popWait,
                popNothing, queueVars, shared, workerVars
  <2>2. Held' \subseteq Held
    BY <1>1, <1>5
    DEF WorkerStep, WorkerPopWait, WorkerExit, WorkerAwait, WorkerBegin,
        WorkerEnd, WorkerThrow, WorkerBuffer, WorkerNotify, WorkerMoves,
        workerVars, Held, Holding, Ready
  <2> QED BY <1>2, <2>1, <2>2, PlacedFrame
<1> QED BY <1>3, <1>4, <1>5

LEMMA PlacedOther ==
  ASSUME Placed, PrinterStep \/ SpuriousWakeup \/ UNCHANGED vars
  PROVE  Placed'
<1>1. UNCHANGED <<queue, doneSeqs, tasks, cur, wpc, mpc>>
  BY DEF PrinterStep, PrinterCheck, PrinterBlock, PrinterDrain, PrinterPrint,
         PrinterRelock, printerFrame, SpuriousWakeup, popSpurious, vars, depVars,
         queueVars, mainVars, workerVars, shared
<1> QED BY <1>1, PlacedFrame DEF Held
-----------------------------------------------------------------------------
\* The tasks whose effect is in the store.
Executed == (doneSeqs \cap Seqs) \cup
            {cur[w] : w \in {v \in Workers : wpc[v] \in {"buffer", "done"}}}

\* Each object holds the number of the last task executed that writes it.
StoreOK ==
  \A o \in Objects :
    /\ store[o] # 0 => store[o] \in Executed /\ o \in Writes(query(store[o]))
    /\ \A i \in Executed : o \in Writes(query(i)) => i <= store[o]

PlaceInv == OrderInv /\ Placed

\* Workers that std::terminate kills take with them what they have executed.
StoreInv == PlaceInv /\ (mpc # "aborted" => StoreOK)

LEMMA Footprints ==
  ASSUME NEW q \in Query
  PROVE  /\ Footprint(q) \subseteq Objects
         /\ Writes(q) \subseteq Footprint(q)
         /\ Writes(q) # {} => Tracked(q)
<1>1. CASE q.kind \in {"read", "show", "write"}
  BY <1>1, QueryKinds
  DEF Footprint, Writes, Tracked, TableKinds, Objects, TableSet
<1>2. CASE q.kind \in {"list", "db"}
  BY <1>2 DEF Footprint, Writes, Tracked, TableKinds, Objects, TableSet
<1>3. CASE q.kind = "nop"
  BY <1>3 DEF Footprint, Writes, Tracked, TableKinds
<1> QED BY <1>1, <1>2, <1>3, QueryKinds

LEMMA TaskFacts ==
  ASSUME TypeInv, NEW s \in Seqs
  PROVE  query(s) \in Query /\ s \in Nat /\ s # 0
<1>1. tasks[s] \in Task /\ s \in Nat /\ s # 0
  BY DEF TypeInv, TypeOK, DepTypeOK, Seqs
<1> QED BY <1>1 DEF query, Task

\* What has been executed is a task, and what it waited for is done.
LEMMA ExecutedFacts ==
  ASSUME PlaceInv, NEW i \in Executed
  PROVE  i \in Seqs /\ tasks[i].waitAll \subseteq doneSeqs
<1>1. CASE i \in doneSeqs \cap Seqs
  BY <1>1 DEF PlaceInv, OrderInv, DoneClosed
<1>2. CASE i \notin doneSeqs \cap Seqs
  <2>1. PICK w \in Workers : wpc[w] \in {"buffer", "done"} /\ i = cur[w]
    BY <1>2 DEF Executed
  <2> QED BY <2>1 DEF PlaceInv, OrderInv, TypeInv, PlacesOK, RunsReady, Holding,
                      Ready
<1> QED BY <1>1, <1>2

\* The task of a worker that has yet to run, or runs, is not executed, and no
\* executed task after it writes what it looks at.
LEMMA NoneOvertakes ==
  ASSUME PlaceInv, NEW w \in Workers, wpc[w] \in {"exec", "run"}
  PROVE  /\ cur[w] \in Seqs /\ tasks[cur[w]].waitAll \subseteq doneSeqs
         /\ cur[w] \notin Executed
         /\ \A i \in Executed : \A o \in Objects :
              /\ o \in Writes(query(i))
              /\ o \in Footprint(query(cur[w])) /\ Tracked(query(cur[w]))
              => i < cur[w]
<1>1. cur[w] \in Seqs /\ tasks[cur[w]].waitAll \subseteq doneSeqs /\ w \in Held
  BY DEF PlaceInv, OrderInv, TypeInv, PlacesOK, RunsReady, Held, Holding, Ready
<1>2. cur[w] \notin doneSeqs
  BY <1>1 DEF PlaceInv, Placed
<1>3. cur[w] \notin Executed
  <2> SUFFICES ASSUME NEW v \in Workers, wpc[v] \in {"buffer", "done"},
                      cur[v] = cur[w]
               PROVE  FALSE
    BY <1>2 DEF Executed
  <2>1. v \in Held
    BY DEF Held, Holding, Ready
  <2> QED BY <1>1, <2>1 DEF PlaceInv, Placed
<1>4. ASSUME NEW i \in Executed, NEW o \in Objects, o \in Writes(query(i)),
             o \in Footprint(query(cur[w])), Tracked(query(cur[w]))
      PROVE  i < cur[w]
  <2>1. i \in Seqs /\ tasks[i].waitAll \subseteq doneSeqs
    BY ExecutedFacts
  <2>2. i \in Nat /\ cur[w] \in Nat /\ cur[w] # 0 /\ i # cur[w]
    BY <1>1, <1>3, <2>1, TaskFacts DEF PlaceInv, OrderInv
  <2>3. Tracked(query(i))
    BY <1>4, <2>1, TaskFacts, Footprints DEF PlaceInv, OrderInv
  <2>4. Conflict(query(cur[w]), query(i))
    BY <1>4 DEF Conflict
  <2>5. ~(cur[w] < i)
    <3> SUFFICES ASSUME cur[w] < i PROVE FALSE
      OBVIOUS
    <3>1. cur[w] \in 1 .. i - 1
      BY <2>2
    <3> QED BY <1>2, <1>4, <2>1, <2>3, <2>4, <3>1, EarlierDone DEF PlaceInv
  <2> QED BY <2>2, <2>5
<1> QED BY <1>1, <1>3, <1>4

LEMMA StoreWorker ==
  ASSUME StoreInv, mpc # "aborted", NEW w \in Workers,
         WorkerStep(w) \/ WorkerThrow(w), UNCHANGED depVars
  PROVE  StoreOK'
<1>1. wpc \in [Workers -> WorkerPlaces] /\ cur \in [Workers -> 0 .. Len(tasks)]
  BY DEF StoreInv, PlaceInv, OrderInv, TypeInv, TypeOK
<1>2. tasks' = tasks /\ Seqs' = Seqs
  BY DEF depVars, Seqs
<1>3. StoreOK
  BY DEF StoreInv
<1>4. CASE WorkerEnd(w) \/ WorkerThrow(w)
  <2>1. /\ wpc[w] = "run" /\ wpc'[w] \in {"buffer", "done"}
        /\ \A v \in Workers \ {w} : wpc'[v] = wpc[v]
        /\ cur' = cur /\ doneSeqs' = doneSeqs
        /\ store' = WrittenBy(store, query(cur[w]), cur[w])
    BY <1>1, <1>4 DEF WorkerEnd, WorkerThrow, WorkerMoves, shared
  <2>2. Executed' = Executed \cup {cur[w]}
    BY <1>2, <2>1 DEF Executed
  <2>3. /\ cur[w] \in Seqs /\ cur[w] \notin Executed
        /\ \A i \in Executed : \A o \in Objects :
              o \in Writes(query(i)) /\ o \in Writes(query(cur[w])) => i < cur[w]
    <3>1. cur[w] \in Seqs
      BY <2>1, NoneOvertakes DEF StoreInv
    <3>2. Writes(query(cur[w])) \subseteq Footprint(query(cur[w]))
          /\ (Writes(query(cur[w])) # {} => Tracked(query(cur[w])))
      BY <3>1, TaskFacts, Footprints DEF StoreInv, PlaceInv, OrderInv
    <3> QED BY <2>1, <3>2, NoneOvertakes DEF StoreInv
  <2>4. cur[w] \in Nat /\ \A i \in Executed : i \in Nat /\ i \in Seqs
    BY <2>3, ExecutedFacts, TaskFacts DEF StoreInv, PlaceInv, OrderInv
  <2>5. ASSUME NEW o \in Objects
        PROVE  /\ store'[o] # 0 =>
                    store'[o] \in Executed' /\ o \in Writes(query(store'[o]))
               /\ \A i \in Executed' : o \in Writes(query(i)) => i <= store'[o]
    <3>1. CASE o \in Writes(query(cur[w]))
      <4>1. store'[o] = cur[w]
        BY <2>1, <3>1 DEF WrittenBy
      <4> QED BY <2>2, <2>3, <2>4, <3>1, <4>1
    <3>2. CASE o \notin Writes(query(cur[w]))
      <4>1. store'[o] = store[o]
        BY <2>1, <3>2 DEF WrittenBy
      <4> QED BY <1>3, <2>2, <3>2, <4>1 DEF StoreOK
    <3> QED BY <3>1, <3>2
  <2> QED BY <1>2, <2>5 DEF StoreOK, query, Objects
<1>5. CASE ~WorkerEnd(w) /\ ~WorkerThrow(w)
  <2>1. store' = store
    BY <1>5
    DEF WorkerStep, WorkerPop, WorkerPopWait, WorkerExit, WorkerAwait,
        WorkerBegin, WorkerBuffer, WorkerDone, WorkerNotify, world
  <2>2. Executed' = Executed
    <3>1. CASE WorkerDone(w)
      <4>1. /\ wpc[w] = "done" /\ wpc'[w] = "notify"
            /\ \A v \in Workers \ {w} : wpc'[v] = wpc[v] /\ cur'[v] = cur[v]
            /\ doneSeqs' = doneSeqs \cup {cur[w]}
        BY <1>1, <3>1 DEF WorkerDone, WorkerMoves
      <4>2. cur[w] \in Seqs
        BY <4>1 DEF StoreInv, PlaceInv, OrderInv, TypeInv, PlacesOK, Holding, Ready
      <4> QED BY <1>2, <4>1, <4>2 DEF Executed
    <3>2. CASE WorkerBuffer(w)
      BY <1>1, <1>2, <3>2 DEF WorkerBuffer, WorkerMoves, Executed
    <3>3. CASE WorkerPop(w)
      BY <1>1, <1>2, <3>3 DEF WorkerPop, shared, Executed
    <3>4. CASE WorkerPopWait(w) \/ WorkerExit(w) \/ WorkerAwait(w)
               \/ WorkerBegin(w) \/ WorkerNotify(w)
      BY <1>1, <1>2, <3>4
      DEF WorkerPopWait, WorkerExit, WorkerAwait, WorkerBegin, WorkerNotify,
          WorkerMoves, workerVars, shared, Executed
    <3> QED BY <1>5, <3>1, <3>2, <3>3, <3>4 DEF WorkerStep
  <2> QED BY <1>2, <1>3, <2>1, <2>2 DEF StoreOK, query, Objects
<1> QED BY <1>4, <1>5

LEMMA StoreInit == Init => StoreInv
<1> SUFFICES ASSUME Init PROVE StoreInv
  OBVIOUS
<1>1. OrderInv
  BY OrderInit
<1>2. Held = {} /\ Executed = {}
  BY DEF Init, Held, Holding, Ready, Executed
<1>3. Placed
  BY <1>2 DEF Init, QueueInit, Placed, Numbered
<1>4. StoreOK
  BY <1>2 DEF Init, StoreOK
<1> QED BY <1>1, <1>3, <1>4 DEF StoreInv, PlaceInv

LEMMA PlaceStep == PlaceInv /\ [Next]_vars => PlaceInv'
BY OrderStep, PlacedMain, PlacedWorker, PlacedOther DEF PlaceInv, OrderInv, Next

LEMMA StoreFrame ==
  ASSUME StoreOK, UNCHANGED store, Executed' = Executed, Executed \subseteq Seqs,
         0 \notin Seqs, \A s \in Seqs : tasks'[s] = tasks[s]
  PROVE  StoreOK'
BY DEF StoreOK, query, Objects

LEMMA StoreStep == StoreInv /\ [Next]_vars => StoreInv'
<1> SUFFICES ASSUME StoreInv, [Next]_vars PROVE StoreInv'
  OBVIOUS
<1>1. PlaceInv'
  BY PlaceStep DEF StoreInv
<1>2. Executed \subseteq Seqs /\ 0 \notin Seqs
  BY ExecutedFacts, TaskFacts DEF StoreInv, PlaceInv, OrderInv
<1> SUFFICES ASSUME mpc' # "aborted" PROVE StoreOK'
  BY <1>1 DEF StoreInv
<1>3. mpc # "aborted"
  <2>1. CASE MainRead
    BY <2>1 DEF MainRead, MainParse, MainQuit, MainEndOfInput, MainParseError,
                MainMoves
  <2>2. CASE MainStep
    BY <2>2 DEF MainStep, MainTerminate, MainBarrier, MainNotify, MainPush,
                MainNotifyOne, MainClose, MainCloseNotify, MainJoinAll,
                MainQuitBuffer, MainQuitDone, MainFlushStore, MainFinalStore,
                MainFinalNotify, MainJoinPrinter, MainMoves
  <2>3. ASSUME NEW w \in Workers, WorkerStep(w) \/ WorkerThrow(w)
        PROVE  mpc' = mpc
    BY <2>3 DEF WorkerStep, WorkerPop, WorkerPopWait, WorkerExit, WorkerAwait,
                WorkerBegin, WorkerEnd, WorkerThrow, WorkerBuffer, WorkerDone,
                WorkerNotify, workerFrame, mainVars
  <2>4. CASE PrinterStep \/ SpuriousWakeup \/ UNCHANGED vars
    BY <2>4 DEF PrinterStep, PrinterCheck, PrinterBlock, PrinterDrain,
                PrinterPrint, PrinterRelock, printerFrame, SpuriousWakeup,
                mainVars, vars
  <2> QED BY <2>1, <2>2, <2>3, <2>4 DEF Next
<1>4. StoreOK
  BY <1>3 DEF StoreInv
<1>5. CASE \E q \in Input : MainParse(q)
  <2>1. PICK q \in Input : MainParse(q)
    BY <1>5
  <2>2. /\ Seqs' = Seqs \cup {Len(tasks) + 1} /\ Len(tasks) \in Nat
        /\ \A s \in Seqs : tasks'[s] = tasks[s]
    BY <2>1, ScheduleAppends, InputAssumption
    DEF MainParse, StoreInv, PlaceInv, OrderInv, TypeInv, TypeOK
  <2>3. UNCHANGED <<wpc, cur, doneSeqs, store>>
    BY <2>1 DEF MainParse, workerVars, shared, world
  <2>4. doneSeqs \subseteq Seqs \cup {0}
    BY <2>1 DEF MainParse, StoreInv, PlaceInv, OrderInv, TypeInv, PlacesOK, Reading
  <2>5. Executed' = Executed
    BY <2>2, <2>3, <2>4 DEF Executed
  <2> QED BY <1>2, <1>4, <2>2, <2>3, <2>5, StoreFrame
<1>6. CASE \A q \in Input : ~MainParse(q)
  <2>1. UNCHANGED depVars
    BY <1>6, OnlyParseSchedules
  <2>2. tasks' = tasks /\ Seqs' = Seqs
    BY <2>1 DEF depVars, Seqs
  <2>3. CASE \E w \in Workers : WorkerStep(w) \/ WorkerThrow(w)
    BY <1>3, <2>1, <2>3, StoreWorker
  <2>4. CASE ~\E w \in Workers : WorkerStep(w) \/ WorkerThrow(w)
    <3>1. UNCHANGED <<store, wpc, cur>> /\ (doneSeqs' = doneSeqs \/ MainQuitDone)
      <4>1. CASE MainRead
        BY <4>1, <1>6 DEF MainRead, MainQuit, MainEndOfInput, MainParseError,
                          mainFrame, workerVars, world, shared
      <4>2. CASE MainStep
        BY <4>2, <1>3
        DEF MainStep, MainTerminate, MainBarrier, MainNotify, MainPush,
            MainNotifyOne, MainClose, MainCloseNotify, MainJoinAll,
            MainQuitBuffer, MainQuitDone, MainFlushStore, MainFinalStore,
            MainFinalNotify, MainJoinPrinter, MainMoves, mainFrame, workerVars,
            world, shared
      <4>3. CASE PrinterStep \/ SpuriousWakeup \/ UNCHANGED vars
        BY <4>3
        DEF PrinterStep, PrinterCheck, PrinterBlock, PrinterDrain, PrinterPrint,
            PrinterRelock, printerFrame, SpuriousWakeup, vars, workerVars, world,
            shared
      <4> QED BY <2>4, <4>1, <4>2, <4>3 DEF Next
    <3>2. doneSeqs' \cap Seqs = doneSeqs \cap Seqs
      <4>1. CASE MainQuitDone
        <5>1. doneSeqs' = doneSeqs \cup {quitSeq} /\ quitSeq \notin Seqs
          BY <4>1 DEF MainQuitDone, MainMoves, StoreInv, PlaceInv, OrderInv,
                      TypeInv, TypeOK, DepTypeOK, PlacesOK, Seqs
        <5> QED BY <5>1
      <4> QED BY <3>1, <4>1
    <3>3. Executed' = Executed
      BY <2>2, <3>1, <3>2 DEF Executed
    <3> QED BY <1>2, <1>4, <2>2, <3>1, <3>3, StoreFrame
  <2> QED BY <2>3, <2>4
<1> QED BY <1>5, <1>6
-----------------------------------------------------------------------------
\* A view in which each object is as the tasks of T before s left it.
SerialView(T, s, v) ==
  Tracked(T[s].query) =>
    \A o \in DOMAIN v :
      /\ v[o] < s
      /\ v[o] # 0 => o \in Writes(T[v[o]].query)
      /\ \A i \in v[o] + 1 .. s - 1 : o \notin Writes(T[i].query)

SerialOutput(T, s, out) == SerialView(T, s, out.first) /\ SerialView(T, s, out.last)

LEMMA SerialMeans ==
  ASSUME NEW s, NEW out
  PROVE  Serial(s, out) <=> SerialOutput(tasks, s, out)
BY DEF Serial, SerialOutput, SerialView, LastWriterBefore, query

\* Later tasks do not matter.
LEMMA SerialExtends ==
  ASSUME NEW T, NEW U, NEW s \in Nat, \A i \in 1 .. s : T[i] = U[i], s # 0
  PROVE  /\ \A v \in View : SerialView(T, s, v) => SerialView(U, s, v)
         /\ \A out \in Output : SerialOutput(T, s, out) => SerialOutput(U, s, out)
         /\ \A l \in StdoutLine : SerialOutput(T, s, l) => SerialOutput(U, s, l)
<1>1. ASSUME NEW v \in View, SerialView(T, s, v) PROVE SerialView(U, s, v)
  <2>1. \A o \in DOMAIN v : v[o] \in Nat
    <3>1. PICK S \in SUBSET Objects : v \in [S -> Version]
      BY DEF View
    <3> QED BY <3>1, MaxQueriesAssumption DEF Version
  <2> SUFFICES ASSUME Tracked(U[s].query), NEW o \in DOMAIN v
               PROVE  /\ v[o] < s
                      /\ v[o] # 0 => o \in Writes(U[v[o]].query)
                      /\ \A i \in v[o] + 1 .. s - 1 : o \notin Writes(U[i].query)
    BY DEF SerialView
  <2>2. s \in 1 .. s
    OBVIOUS
  <2>3. /\ v[o] < s
        /\ v[o] # 0 => o \in Writes(T[v[o]].query)
        /\ \A i \in v[o] + 1 .. s - 1 : o \notin Writes(T[i].query)
    BY <1>1, <2>2 DEF SerialView
  <2>4. v[o] # 0 => v[o] \in 1 .. s
    BY <2>1, <2>3
  <2>5. \A i \in v[o] + 1 .. s - 1 : i \in 1 .. s
    BY <2>1
  <2> QED BY <2>3, <2>4, <2>5
<1>2. \A out \in Output : out.first \in View /\ out.last \in View
  BY DEF Output
<1>3. \A l \in StdoutLine : l.first \in View /\ l.last \in View
  BY DEF StdoutLine
<1> QED BY <1>1, <1>2, <1>3 DEF SerialOutput

LEMMA EmptySerial ==
  ASSUME NEW T, NEW s
  PROVE  SerialView(T, s, EmptyView) /\ SerialOutput(T, s, NoOutput)
BY DEF SerialView, SerialOutput, EmptyView, NoOutput

\* What a worker sees when it begins or ends a query is serial.
LEMMA SerialNow ==
  ASSUME StoreInv, mpc # "aborted", NEW w \in Workers, wpc[w] \in {"exec", "run"}
  PROVE  SerialView(tasks, cur[w], ViewOf(store, query(cur[w])))
<1> DEFINE j == cur[w]
<1>1. /\ j \in Seqs /\ tasks[j].waitAll \subseteq doneSeqs
      /\ j \notin Executed
      /\ \A i \in Executed : \A o \in Objects :
           /\ o \in Writes(query(i))
           /\ o \in Footprint(query(j)) /\ Tracked(query(j))
           => i < j
  BY NoneOvertakes DEF StoreInv
<1>2. query(j) \in Query /\ j \in Nat /\ j # 0 /\ j <= Len(tasks) /\ Len(tasks) \in Nat
  <2>1. TypeInv
    BY DEF StoreInv, PlaceInv, OrderInv
  <2>2. Len(tasks) \in Nat
    BY <2>1 DEF TypeInv, TypeOK, DepTypeOK
  <2>3. query(j) \in Query /\ j \in Nat /\ j # 0
    BY <1>1, <2>1, TaskFacts
  <2> QED BY <1>1, <2>2, <2>3 DEF Seqs
<1> SUFFICES ASSUME Tracked(query(j)), NEW o \in Footprint(query(j))
             PROVE  LastWriterBefore(o, j, store[o])
  BY DEF SerialView, ViewOf, LastWriterBefore, query
<1>3. o \in Objects
  BY <1>2, Footprints
<1>4. /\ store[o] # 0 => store[o] \in Executed /\ o \in Writes(query(store[o]))
      /\ \A i \in Executed : o \in Writes(query(i)) => i <= store[o]
  BY <1>3 DEF StoreInv, StoreOK
<1>5. store[o] \in Nat
  BY <1>3, MaxQueriesAssumption
  DEF StoreInv, PlaceInv, OrderInv, TypeInv, TypeOK, Version
<1>6. store[o] < j
  BY <1>1, <1>2, <1>3, <1>4, <1>5
<1>7. ASSUME NEW i \in store[o] + 1 .. j - 1, o \in Writes(query(i))
      PROVE  FALSE
  <2>1. i \in 1 .. j - 1 /\ i \in Seqs /\ i > store[o] /\ i \in Nat
    BY <1>2, <1>5 DEF Seqs
  <2>2. Conflict(query(i), query(j))
    BY <1>7 DEF Conflict
  <2>3. Tracked(query(i))
    BY <1>7, <2>1, TaskFacts, Footprints DEF StoreInv, PlaceInv, OrderInv
  <2>4. i \in doneSeqs
    BY <1>1, <2>1, <2>2, <2>3, EarlierDone DEF StoreInv, PlaceInv
  <2>5. i <= store[o]
    BY <1>4, <1>7, <2>1, <2>4 DEF Executed
  <2> QED BY <1>5, <2>1, <2>5
<1> QED BY <1>4, <1>6, <1>7 DEF LastWriterBefore
-----------------------------------------------------------------------------
AbortKills == mpc = "aborted" => \A w \in Workers : wpc[w] = "killed"

RepliesSerial ==
  \A w \in Workers :
    /\ wpc[w] = "run" => SerialView(tasks, cur[w], reply[w].first)
    /\ wpc[w] = "buffer" => SerialOutput(tasks, cur[w], reply[w])

BufferSerial ==
  \A s \in DOMAIN resultBuffer \cap Seqs : SerialOutput(tasks, s, resultBuffer[s])

TakenSerial ==
  ppc = "print" =>
    /\ nextToPrint \in doneSeqs
    /\ str # <<>> /\ nextToPrint \in Seqs =>
         SerialOutput(tasks, nextToPrint, str[1])

StdoutSerial ==
  \A k \in 1 .. Len(stdout) :
    /\ stdout[k].seq \in (Seqs \cup {quitSeq}) \ {0}
    /\ stdout[k].seq \in Seqs => SerialOutput(tasks, stdout[k].seq, stdout[k])

ResultInv ==
  /\ StoreInv
  /\ AbortKills
  /\ RepliesSerial
  /\ BufferSerial
  /\ TakenSerial
  /\ StdoutSerial

LEMMA ResultTypes == ResultInv => TypeInv
BY DEF ResultInv, StoreInv, PlaceInv, OrderInv

LEMMA ResultInit == Init => ResultInv
<1> SUFFICES ASSUME Init PROVE ResultInv
  OBVIOUS
<1>1. StoreInv
  BY StoreInit
<1>2. AbortKills /\ RepliesSerial /\ BufferSerial /\ TakenSerial
  BY DEF Init, AbortKills, RepliesSerial, BufferSerial, TakenSerial
<1>3. StdoutSerial
  BY DEF Init, StdoutSerial
<1> QED BY <1>1, <1>2, <1>3 DEF ResultInv

LEMMA ParseResults ==
  ASSUME ResultInv, NEW q \in Input, MainParse(q)
  PROVE  AbortKills' /\ RepliesSerial' /\ BufferSerial' /\ TakenSerial'
         /\ StdoutSerial'
<1>1. TypeInv
  BY ResultTypes
<1>2. /\ Len(tasks) \in Nat /\ Seqs' = Seqs \cup {Len(tasks) + 1}
      /\ \A i \in Seqs : tasks[i] = tasks'[i]
  BY <1>1, ScheduleAppends, InputAssumption DEF MainParse, TypeInv, TypeOK
<1>3. UNCHANGED <<quitSeq, wpc, cur, reply, ppc, nextToPrint, str, doneSeqs,
                  resultBuffer, stdout>> /\ mpc' # "aborted"
  BY DEF MainParse, workerVars, printerVars, shared, world
<1>4. /\ doneSeqs \subseteq Seqs /\ DOMAIN resultBuffer \subseteq Seqs
      /\ quitSeq = 0
  BY <1>1 DEF MainParse, TypeInv, TypeOK, PlacesOK, Reading
<1>5. ASSUME NEW s \in Seqs
      PROVE  /\ \A v \in View : SerialView(tasks, s, v) => SerialView(tasks', s, v)
             /\ \A out \in Output :
                  SerialOutput(tasks, s, out) => SerialOutput(tasks', s, out)
             /\ \A l \in StdoutLine :
                  SerialOutput(tasks, s, l) => SerialOutput(tasks', s, l)
  <2>1. s \in Nat /\ s # 0 /\ \A i \in 1 .. s : tasks[i] = tasks'[i]
    BY <1>2 DEF Seqs
  <2> QED BY <2>1, SerialExtends
<1>6. RepliesSerial'
  <2> SUFFICES ASSUME NEW w \in Workers
               PROVE  /\ wpc[w] = "run" => SerialView(tasks', cur[w], reply[w].first)
                      /\ wpc[w] = "buffer" => SerialOutput(tasks', cur[w], reply[w])
    BY <1>3 DEF RepliesSerial
  <2>1. wpc[w] \in {"run", "buffer"} => cur[w] \in Seqs
    BY <1>1 DEF TypeInv, PlacesOK, Holding, Ready
  <2>2. reply[w] \in Output /\ reply[w].first \in View
    BY <1>1 DEF TypeInv, TypeOK, Output
  <2> QED BY <1>5, <2>1, <2>2 DEF ResultInv, RepliesSerial
<1>7. BufferSerial'
  <2>1. \A s \in DOMAIN resultBuffer : s \in Seqs /\ resultBuffer[s] \in Output
    BY <1>1, <1>4 DEF TypeInv, TypeOK
  <2> QED BY <1>3, <1>5, <2>1 DEF ResultInv, BufferSerial
<1>8. TakenSerial'
  <2>1. ppc = "print" => nextToPrint \in Seqs
    BY <1>4 DEF ResultInv, TakenSerial
  <2>2. str # <<>> => str[1] \in Output
    BY <1>1, Appended DEF TypeInv, TypeOK
  <2> QED BY <1>3, <1>5, <2>1, <2>2 DEF ResultInv, TakenSerial
<1>9. StdoutSerial'
  <2>1. \A k \in 1 .. Len(stdout) : stdout[k] \in StdoutLine
    BY <1>1 DEF TypeInv, TypeOK
  <2>2. \A k \in 1 .. Len(stdout) :
          /\ stdout[k].seq \in Seqs /\ stdout[k].seq # 0
          /\ SerialOutput(tasks, stdout[k].seq, stdout[k])
    BY <1>4 DEF ResultInv, StdoutSerial
  <2> QED BY <1>2, <1>3, <1>5, <2>1, <2>2 DEF StdoutSerial
<1> QED BY <1>3, <1>6, <1>7, <1>8, <1>9 DEF AbortKills

LEMMA MainResults ==
  ASSUME ResultInv, UNCHANGED depVars,
         MainQuit \/ MainEndOfInput \/ MainParseError \/ MainStep
  PROVE  AbortKills' /\ RepliesSerial' /\ BufferSerial' /\ TakenSerial'
         /\ StdoutSerial'
<1>1. TypeInv
  BY ResultTypes
<1>2. tasks' = tasks /\ Seqs' = Seqs
  BY DEF depVars, Seqs
<1>3. CASE MainTerminate
  <2>1. (\A w \in Workers : wpc'[w] = "killed") /\ ppc' = "killed"
        /\ UNCHANGED <<quitSeq, resultBuffer, stdout>>
    BY <1>3 DEF MainTerminate, shared, world
  <2> QED BY <1>2, <2>1 DEF ResultInv, AbortKills, RepliesSerial, BufferSerial,
                            TakenSerial, StdoutSerial
<1>4. CASE MainQuit
  <2>1. quitSeq = 0 /\ mpc' = "close"
    BY <1>1, <1>4 DEF MainQuit, MainMoves, TypeInv, PlacesOK, Reading
  <2>2. UNCHANGED <<wpc, cur, reply, ppc, nextToPrint, str, doneSeqs,
                    resultBuffer, stdout>>
    BY <1>4 DEF MainQuit, workerVars, printerVars, shared, world
  <2> QED BY <1>2, <2>1, <2>2
          DEF ResultInv, AbortKills, RepliesSerial, BufferSerial, TakenSerial,
              StdoutSerial
<1>5. CASE ~MainTerminate /\ ~MainQuit
  <2>1. /\ mpc' # "aborted"
        /\ UNCHANGED <<quitSeq, wpc, cur, reply, ppc, nextToPrint, str, stdout>>
    BY <1>5
    DEF MainEndOfInput, MainParseError, MainStep, MainBarrier, MainNotify,
        MainPush, MainNotifyOne, MainClose, MainCloseNotify, MainJoinAll,
        MainQuitBuffer, MainQuitDone, MainFlushStore, MainFinalStore,
        MainFinalNotify, MainJoinPrinter, MainMoves, mainFrame, workerVars,
        printerVars, world
  <2>2. doneSeqs \subseteq doneSeqs'
    BY <1>5
    DEF MainEndOfInput, MainParseError, MainStep, MainBarrier, MainNotify,
        MainPush, MainNotifyOne, MainClose, MainCloseNotify, MainJoinAll,
        MainQuitBuffer, MainQuitDone, MainFlushStore, MainFinalStore,
        MainFinalNotify, MainJoinPrinter, shared
  <2>3. AbortKills' /\ RepliesSerial' /\ TakenSerial' /\ StdoutSerial'
    BY <1>2, <2>1, <2>2
    DEF ResultInv, AbortKills, RepliesSerial, TakenSerial, StdoutSerial
  <2>4. BufferSerial'
    <3>1. CASE MainQuitBuffer
      <4>1. /\ DOMAIN resultBuffer' = DOMAIN resultBuffer \cup {quitSeq}
            /\ \A s \in DOMAIN resultBuffer \ {quitSeq} :
                 resultBuffer'[s] = resultBuffer[s]
        BY <3>1 DEF MainQuitBuffer, Buffered
      <4>2. quitSeq \notin Seqs
        BY <1>1 DEF TypeInv, TypeOK, DepTypeOK, Seqs
      <4> QED BY <1>2, <4>1, <4>2 DEF ResultInv, BufferSerial
    <3>2. CASE ~MainQuitBuffer
      <4>1. resultBuffer' = resultBuffer
        BY <1>5, <3>2
        DEF MainEndOfInput, MainParseError, MainStep, MainBarrier, MainNotify,
            MainPush, MainNotifyOne, MainClose, MainCloseNotify, MainJoinAll,
            MainQuitDone, MainFlushStore, MainFinalStore, MainFinalNotify,
            MainJoinPrinter, shared
      <4> QED BY <1>2, <4>1 DEF ResultInv, BufferSerial
    <3> QED BY <3>1, <3>2
  <2> QED BY <2>3, <2>4
<1> QED BY <1>3, <1>4, <1>5

LEMMA WorkerResults ==
  ASSUME ResultInv, UNCHANGED depVars, NEW w \in Workers,
         WorkerStep(w) \/ WorkerThrow(w)
  PROVE  AbortKills' /\ RepliesSerial' /\ BufferSerial' /\ TakenSerial'
         /\ StdoutSerial'
<1>1. TypeInv
  BY ResultTypes
<1>2. tasks' = tasks /\ Seqs' = Seqs
  BY DEF depVars, Seqs
<1>3. /\ wpc \in [Workers -> WorkerPlaces] /\ cur \in [Workers -> 0 .. Len(tasks)]
      /\ reply \in [Workers -> Output]
  BY <1>1 DEF TypeInv, TypeOK
<1>4. wpc[w] # "killed" /\ mpc' = mpc /\ quitSeq' = quitSeq
  BY DEF WorkerStep, WorkerPop, WorkerPopWait, WorkerExit, WorkerAwait,
         WorkerBegin, WorkerEnd, WorkerThrow, WorkerBuffer, WorkerDone,
         WorkerNotify, WorkerMoves, workerFrame, mainVars
<1>5. mpc # "aborted" /\ AbortKills'
  BY <1>4 DEF ResultInv, AbortKills
<1>6. TakenSerial'
  <2>1. UNCHANGED <<ppc, nextToPrint, str>> /\ doneSeqs \subseteq doneSeqs'
    BY DEF WorkerStep, WorkerPop, WorkerPopWait, WorkerExit, WorkerAwait,
           WorkerBegin, WorkerEnd, WorkerThrow, WorkerBuffer, WorkerDone,
           WorkerNotify, workerFrame, printerVars, shared
  <2> QED BY <1>2, <2>1 DEF ResultInv, TakenSerial
<1>7. CASE WorkerBegin(w)
  <2>1. SerialView(tasks, cur[w], ViewOf(store, query(cur[w])))
    BY <1>5, <1>7, SerialNow DEF WorkerBegin, ResultInv
  <2>2. /\ wpc'[w] = "run" /\ cur' = cur
        /\ reply'[w].first = ViewOf(store, query(cur[w]))
        /\ \A v \in Workers \ {w} : wpc'[v] = wpc[v] /\ reply'[v] = reply[v]
    <3>1. reply[w] \in Output
      BY <1>3
    <3> QED BY <1>3, <1>7, <3>1 DEF WorkerBegin, Output
  <2>3. RepliesSerial'
    BY <1>2, <2>1, <2>2 DEF ResultInv, RepliesSerial
  <2>4. UNCHANGED <<resultBuffer, stdout>>
    BY <1>7 DEF WorkerBegin, shared, world
  <2> QED BY <1>2, <1>4, <1>5, <1>6, <2>3, <2>4
          DEF ResultInv, BufferSerial, StdoutSerial
<1>8. CASE WorkerEnd(w)
  <2>1. SerialView(tasks, cur[w], ViewOf(store, query(cur[w])))
    BY <1>5, <1>8, SerialNow DEF WorkerEnd, WorkerMoves, ResultInv
  <2>2. SerialOutput(tasks, cur[w], Seen(w))
    <3>1. reply[w] \in Output /\ SerialView(tasks, cur[w], reply[w].first)
      BY <1>3, <1>8 DEF WorkerEnd, WorkerMoves, ResultInv, RepliesSerial
    <3>2. Seen(w).first = reply[w].first
          /\ Seen(w).last = ViewOf(store, query(cur[w]))
      BY <3>1 DEF Seen, Output
    <3> QED BY <2>1, <3>1, <3>2 DEF SerialOutput
  <2>3. /\ wpc'[w] = "buffer" /\ cur' = cur
        /\ reply'[w] = NoOutput \/ reply'[w] = Seen(w)
        /\ \A v \in Workers \ {w} : wpc'[v] = wpc[v] /\ reply'[v] = reply[v]
    BY <1>3, <1>8 DEF WorkerEnd, WorkerMoves
  <2>4. RepliesSerial'
    BY <1>2, <2>2, <2>3, EmptySerial DEF ResultInv, RepliesSerial
  <2>5. BufferSerial'
    BY <1>2, <1>8 DEF WorkerEnd, shared, ResultInv, BufferSerial
  <2>6. StdoutSerial'
    <3>1. CASE stdout' = stdout
      BY <1>2, <1>4, <3>1 DEF ResultInv, StdoutSerial
    <3>2. CASE stdout' = Append(stdout, Line(w, cur[w], Seen(w)))
      <4>1. cur[w] \in Seqs /\ cur[w] # 0
        BY <1>1, <1>8 DEF WorkerEnd, WorkerMoves, TypeInv, TypeOK, DepTypeOK,
                          PlacesOK, Holding, Ready, Seqs
      <4>2. SerialOutput(tasks, cur[w], Line(w, cur[w], Seen(w)))
            /\ Line(w, cur[w], Seen(w)).seq = cur[w]
        BY <2>2 DEF Line, SerialOutput
      <4>3. /\ Len(stdout) \in Nat /\ Len(stdout') = Len(stdout) + 1
            /\ \A k \in 1 .. Len(stdout) : stdout'[k] = stdout[k]
            /\ stdout'[Len(stdout) + 1] = Line(w, cur[w], Seen(w))
        BY <1>1, <3>2 DEF TypeInv, TypeOK
      <4> QED BY <1>2, <1>4, <4>1, <4>2, <4>3 DEF ResultInv, StdoutSerial
    <3> QED BY <1>8, <3>1, <3>2 DEF WorkerEnd
  <2> QED BY <1>5, <1>6, <2>4, <2>5, <2>6
<1>9. CASE WorkerBuffer(w)
  <2>1. /\ DOMAIN resultBuffer' = DOMAIN resultBuffer \cup {cur[w]}
        /\ resultBuffer'[cur[w]] = reply[w]
        /\ \A s \in DOMAIN resultBuffer \ {cur[w]} :
             resultBuffer'[s] = resultBuffer[s]
    BY <1>9 DEF WorkerBuffer, Buffered
  <2>2. SerialOutput(tasks, cur[w], reply[w])
    BY <1>9 DEF WorkerBuffer, WorkerMoves, ResultInv, RepliesSerial
  <2>3. BufferSerial'
    BY <1>2, <2>1, <2>2 DEF ResultInv, BufferSerial
  <2>4. RepliesSerial'
    BY <1>2, <1>3, <1>9 DEF WorkerBuffer, WorkerMoves, ResultInv, RepliesSerial
  <2>5. StdoutSerial'
    BY <1>2, <1>4, <1>9 DEF WorkerBuffer, world, ResultInv, StdoutSerial
  <2> QED BY <1>5, <1>6, <2>3, <2>4, <2>5
<1>10. CASE ~WorkerBegin(w) /\ ~WorkerEnd(w) /\ ~WorkerBuffer(w)
  <2>1. UNCHANGED <<resultBuffer, stdout>>
    BY <1>10
    DEF WorkerStep, WorkerPop, WorkerPopWait, WorkerExit, WorkerAwait,
        WorkerThrow, WorkerDone, WorkerNotify, shared, world
  <2>2. /\ wpc'[w] \notin {"run", "buffer"} \/ UNCHANGED <<wpc, cur, reply>>
        /\ \A v \in Workers \ {w} :
             wpc'[v] = wpc[v] /\ cur'[v] = cur[v] /\ reply'[v] = reply[v]
    BY <1>3, <1>10
    DEF WorkerStep, WorkerPop, WorkerPopWait, WorkerExit, WorkerAwait,
        WorkerThrow, WorkerDone, WorkerNotify, WorkerMoves, workerVars
  <2>3. RepliesSerial'
    BY <1>2, <2>2 DEF ResultInv, RepliesSerial
  <2> QED BY <1>2, <1>4, <1>5, <1>6, <2>1, <2>3
          DEF ResultInv, BufferSerial, StdoutSerial
<1> QED BY <1>7, <1>8, <1>9, <1>10

LEMMA PrinterResults ==
  ASSUME ResultInv, UNCHANGED depVars, PrinterStep
  PROVE  AbortKills' /\ RepliesSerial' /\ BufferSerial' /\ TakenSerial'
         /\ StdoutSerial'
<1>1. TypeInv
  BY ResultTypes
<1>2. tasks' = tasks /\ Seqs' = Seqs
  BY DEF depVars, Seqs
<1>3. UNCHANGED <<mpc, quitSeq, wpc, cur, reply, doneSeqs>>
  BY DEF PrinterStep, PrinterCheck, PrinterBlock, PrinterDrain, PrinterPrint,
         PrinterRelock, printerFrame, mainVars, workerVars, shared
<1>4. AbortKills' /\ RepliesSerial'
  BY <1>2, <1>3 DEF ResultInv, AbortKills, RepliesSerial
<1>5. CASE PrinterCheck \/ PrinterBlock \/ PrinterRelock
  <2>1. ppc' # "print" /\ UNCHANGED <<resultBuffer, stdout>>
    BY <1>5 DEF PrinterCheck, PrinterBlock, PrinterRelock, shared
  <2> QED BY <1>2, <1>3, <1>4, <2>1
          DEF ResultInv, BufferSerial, TakenSerial, StdoutSerial
<1>6. CASE PrinterDrain
  <2>1. StdoutSerial'
    BY <1>2, <1>3, <1>6 DEF PrinterDrain, ResultInv, StdoutSerial
  <2>2. /\ DOMAIN resultBuffer' \subseteq DOMAIN resultBuffer
        /\ \A s \in DOMAIN resultBuffer' : resultBuffer'[s] = resultBuffer[s]
    BY <1>6 DEF PrinterDrain, Unbuffered
  <2>3. BufferSerial'
    BY <1>2, <2>2 DEF ResultInv, BufferSerial
  <2>4. TakenSerial'
    <3>1. CASE ppc' = "check"
      BY <3>1 DEF TakenSerial
    <3>2. CASE Printable /\ str' = <<>>
      BY <1>2, <1>3, <1>6, <3>2 DEF PrinterDrain, Printable, TakenSerial
    <3>3. CASE /\ Printable /\ nextToPrint \in DOMAIN resultBuffer
               /\ str' = <<resultBuffer[nextToPrint]>>
      <4>1. str'[1] = resultBuffer[nextToPrint] /\ nextToPrint' = nextToPrint
            /\ nextToPrint \in doneSeqs'
        BY <1>3, <1>6, <3>3 DEF PrinterDrain, Printable
      <4>2. nextToPrint \in Seqs =>
              SerialOutput(tasks, nextToPrint, resultBuffer[nextToPrint])
        BY <3>3 DEF ResultInv, BufferSerial
      <4> QED BY <1>2, <4>1, <4>2 DEF TakenSerial
    <3> QED BY <1>6, <3>1, <3>2, <3>3 DEF PrinterDrain
  <2> QED BY <1>4, <2>1, <2>3, <2>4
<1>7. CASE PrinterPrint
  <2>1. ppc = "print" /\ ppc' # "print" /\ resultBuffer' = resultBuffer
    BY <1>7 DEF PrinterPrint, shared
  <2>2. BufferSerial' /\ TakenSerial'
    BY <1>2, <2>1 DEF ResultInv, BufferSerial, TakenSerial
  <2>3. StdoutSerial'
    <3>1. CASE stdout' = stdout
      BY <1>2, <1>3, <3>1 DEF ResultInv, StdoutSerial
    <3>2. CASE str # <<>>
               /\ stdout' = Append(stdout, Line(Printer, nextToPrint, str[1]))
      <4>1. nextToPrint \in (Seqs \cup {quitSeq}) \ {0}
        BY <1>1, <2>1 DEF ResultInv, TakenSerial, TypeInv, TypeOK, PlacesOK
      <4>2. nextToPrint \in Seqs => SerialOutput(tasks, nextToPrint, str[1])
        BY <2>1, <3>2 DEF ResultInv, TakenSerial
      <4>3. LET l == Line(Printer, nextToPrint, str[1]) IN
            /\ l.seq = nextToPrint
            /\ nextToPrint \in Seqs => SerialOutput(tasks, nextToPrint, l)
        BY <4>2 DEF Line, SerialOutput
      <4>4. /\ Len(stdout) \in Nat /\ Len(stdout') = Len(stdout) + 1
            /\ \A k \in 1 .. Len(stdout) : stdout'[k] = stdout[k]
            /\ stdout'[Len(stdout) + 1] = Line(Printer, nextToPrint, str[1])
        BY <1>1, <3>2 DEF TypeInv, TypeOK
      <4> QED BY <1>2, <1>3, <4>1, <4>3, <4>4 DEF ResultInv, StdoutSerial
    <3> QED BY <1>7, <3>1, <3>2 DEF PrinterPrint
  <2> QED BY <1>4, <2>2, <2>3
<1> QED BY <1>5, <1>6, <1>7 DEF PrinterStep

LEMMA ResultStep == ResultInv /\ [Next]_vars => ResultInv'
<1> SUFFICES ASSUME ResultInv, [Next]_vars PROVE ResultInv'
  OBVIOUS
<1>1. StoreInv'
  BY StoreStep DEF ResultInv
<1>2. CASE \E q \in Input : MainParse(q)
  BY <1>1, <1>2, ParseResults DEF ResultInv
<1>3. CASE \A q \in Input : ~MainParse(q)
  <2>1. UNCHANGED depVars
    BY <1>3, OnlyParseSchedules
  <2>2. CASE MainRead \/ MainStep
    BY <1>1, <1>3, <2>1, <2>2, MainResults DEF MainRead, ResultInv
  <2>3. CASE \E w \in Workers : WorkerStep(w) \/ WorkerThrow(w)
    BY <1>1, <2>1, <2>3, WorkerResults DEF ResultInv
  <2>4. CASE PrinterStep
    BY <1>1, <2>1, <2>4, PrinterResults DEF ResultInv
  <2>5. CASE SpuriousWakeup \/ UNCHANGED vars
    <3>1. UNCHANGED <<mpc, quitSeq, wpc, cur, reply, ppc, nextToPrint, str,
                      doneSeqs, resultBuffer, stdout>>
      BY <2>5 DEF SpuriousWakeup, vars, mainVars, workerVars, printerVars, shared,
                  world
    <3>2. tasks' = tasks /\ Seqs' = Seqs
      BY <2>1 DEF depVars, Seqs
    <3> QED BY <1>1, <3>1, <3>2
            DEF ResultInv, AbortKills, RepliesSerial, BufferSerial, TakenSerial,
                StdoutSerial
  <2> QED BY <2>2, <2>3, <2>4, <2>5 DEF Next
<1> QED BY <1>2, <1>3

\* Every result that waits for the printer, and every line that is printed,
\* shows the contents that running the queries one by one would show, whatever
\* the interleaving of the workers (makeWorkerFunc, scheduler_helper.hpp 117-172).
THEOREM ResultsAreSerial == Spec => []SerialResults
<1>1. ResultInv => SerialResults
  <2> SUFFICES ASSUME ResultInv PROVE SerialResults
    OBVIOUS
  <2>1. \A s \in DOMAIN resultBuffer \cap Seqs : Serial(s, resultBuffer[s])
    BY SerialMeans DEF ResultInv, BufferSerial
  <2>2. \A k \in 1 .. Len(stdout) :
          stdout[k].seq \in Seqs => Serial(stdout[k].seq, stdout[k])
    BY SerialMeans DEF ResultInv, StdoutSerial
  <2>3. DOMAIN stdout = 1 .. Len(stdout)
    BY ResultTypes DEF TypeInv, TypeOK
  <2> QED BY <2>1, <2>2, <2>3 DEF SerialResults
<1> QED BY ResultInit, ResultStep, <1>1, PTL DEF Spec
-----------------------------------------------------------------------------
(***************************************************************************)
(* Workers that block inside their tasks do not all wait for each other.   *)
(* Tasks are pushed and popped in the order of their numbers, so those     *)
(* that are popped are the numbers up to PoppedUpTo, each one done or held *)
(* by a worker (InOrder).  A task waits for earlier ones, hence for popped *)
(* ones only, and the oldest task that a worker holds for none.            *)
(***************************************************************************)
\* What has been pushed is 1 .. Sent, what is popped 1 .. PoppedUpTo.
Sent == IF mpc \in Numbered THEN Len(tasks) - 1 ELSE Len(tasks)
PoppedUpTo == Sent - Len(queue)

InOrder ==
  /\ PoppedUpTo \in Nat
  /\ \A i \in 1 .. Len(queue) : queue[i] = PoppedUpTo + i
  /\ \A s \in 1 .. PoppedUpTo : s \in doneSeqs \/ \E w \in Held : cur[w] = s
  /\ \A w \in Held : cur[w] <= PoppedUpTo

\* The workers that std::terminate kills leave their tasks undone.
WaitInv == TypeInv /\ (mpc # "aborted" => InOrder)

LEMMA InOrderFrame ==
  ASSUME InOrder, UNCHANGED <<queue, cur>>, Held' = Held, Sent' = Sent,
         doneSeqs \subseteq doneSeqs'
  PROVE  InOrder'
BY DEF InOrder, PoppedUpTo

LEMMA WaitMain ==
  ASSUME TypeInv, InOrder, MainRead \/ MainStep, mpc' # "aborted"
  PROVE  InOrder'
<1>1. CASE \E q \in Input : MainParse(q)
  <2>1. PICK q \in Input : MainParse(q)
    BY <1>1
  <2>2. Len(tasks') = Len(tasks) + 1 /\ Len(tasks) \in Nat
    BY <2>1, ScheduleAppends, InputAssumption DEF TypeInv, TypeOK, MainParse
  <2>3. UNCHANGED <<queue, doneSeqs, wpc, cur>> /\ Held' = Held
    BY <2>1 DEF MainParse, queueVars, shared, workerVars, Held
  <2>4. Sent' = Sent
    BY <2>1, <2>2 DEF MainParse, Sent, Numbered
  <2> QED BY <2>3, <2>4, InOrderFrame
<1>2. CASE MainTerminate
  BY <1>2 DEF MainTerminate, MainMoves
<1>3. CASE MainPush
  <2>1. /\ Len(queue') = Len(queue) + 1 /\ queue'[Len(queue')] = Len(tasks)
        /\ \A i \in 1 .. Len(queue) : queue'[i] = queue[i]
        /\ Len(queue) \in Nat /\ Len(tasks) \in Nat
    BY <1>3 DEF MainPush, push, TypeInv, TypeOK, DepTypeOK
  <2>2. UNCHANGED <<doneSeqs, tasks, wpc, cur>> /\ Held' = Held
    BY <1>3 DEF MainPush, mainFrame, shared, depVars, workerVars, Held
  <2>3. Sent = Len(tasks) - 1 /\ Sent' = Len(tasks)
    BY <1>3, <2>2 DEF MainPush, MainMoves, Sent, Numbered
  <2>4. PoppedUpTo' = PoppedUpTo /\ Len(tasks) = PoppedUpTo + Len(queue')
    BY <2>1, <2>3 DEF PoppedUpTo
  <2>5. \A i \in 1 .. Len(queue') : queue'[i] = PoppedUpTo + i
    BY <2>1, <2>4 DEF InOrder
  <2> QED BY <2>2, <2>4, <2>5 DEF InOrder
<1>4. CASE MainRead \/ (MainStep /\ ~MainTerminate /\ ~MainPush)
  <2> SUFFICES ASSUME \A q \in Input : ~MainParse(q) PROVE InOrder'
    BY <1>1
  <2>1. UNCHANGED <<queue, tasks, wpc, cur>> /\ Held' = Held
    BY <1>4
    DEF MainRead, MainStep, MainQuit, MainEndOfInput, MainParseError, MainBarrier,
        MainNotify, MainNotifyOne, MainClose, MainCloseNotify, MainJoinAll,
        MainQuitBuffer, MainQuitDone, MainFlushStore, MainFinalStore,
        MainFinalNotify, MainJoinPrinter, mainFrame, close, notifyAll, notifyOne,
        queueVars, depVars, workerVars, Held
  <2>2. doneSeqs \subseteq doneSeqs'
    BY <1>4
    DEF MainRead, MainStep, MainQuit, MainEndOfInput, MainParseError, MainBarrier,
        MainNotify, MainNotifyOne, MainClose, MainCloseNotify, MainJoinAll,
        MainQuitBuffer, MainQuitDone, MainFlushStore, MainFinalStore,
        MainFinalNotify, MainJoinPrinter, shared
  <2>3. mpc' \in Numbered <=> mpc \in Numbered
    BY <1>4
    DEF MainRead, MainStep, MainQuit, MainEndOfInput, MainParseError, MainBarrier,
        MainNotify, MainNotifyOne, MainClose, MainCloseNotify, MainJoinAll,
        MainQuitBuffer, MainQuitDone, MainFlushStore, MainFinalStore,
        MainFinalNotify, MainJoinPrinter, MainMoves, Numbered
  <2> QED BY <2>1, <2>2, <2>3, InOrderFrame DEF Sent
<1> QED BY <1>2, <1>3, <1>4

LEMMA WaitWorker ==
  ASSUME TypeInv, InOrder, NEW w \in Workers, WorkerStep(w) \/ WorkerThrow(w)
  PROVE  InOrder'
<1>1. wpc \in [Workers -> WorkerPlaces] /\ cur \in [Workers -> 0 .. Len(tasks)]
  BY DEF TypeInv, TypeOK
<1>2. UNCHANGED <<mpc, tasks>> /\ Sent' = Sent
  BY DEF WorkerStep, WorkerPop, WorkerPopWait, WorkerExit, WorkerAwait,
         WorkerBegin, WorkerEnd, WorkerThrow, WorkerBuffer, WorkerDone,
         WorkerNotify, workerFrame, mainVars, depVars, Sent
<1>3. CASE WorkerPop(w)
  <2>1. /\ queue \in Seq(Seqs) /\ queue # <<>> /\ queue' = Tail(queue)
        /\ cur'[w] = Head(queue)
    BY <1>1, <1>3 DEF WorkerPop, popItem, TypeInv, TypeOK
  <2>2. /\ Len(queue') = Len(queue) - 1 /\ Len(queue) \in Nat
        /\ \A i \in 1 .. Len(queue') : queue'[i] = queue[i + 1]
        /\ 1 \in 1 .. Len(queue) /\ cur'[w] = queue[1]
    BY <2>1
  <2>3. PoppedUpTo' = PoppedUpTo + 1 /\ PoppedUpTo \in Nat
        /\ cur'[w] = PoppedUpTo + 1
    <3>1. Sent \in Int
      BY DEF TypeInv, TypeOK, DepTypeOK, Sent
    <3> QED BY <1>2, <2>2, <3>1 DEF InOrder, PoppedUpTo
  <2>4. /\ \A v \in Workers \ {w} : wpc'[v] = wpc[v] /\ cur'[v] = cur[v]
        /\ doneSeqs' = doneSeqs /\ w \notin Held /\ w \in Held'
    BY <1>1, <1>3 DEF WorkerPop, shared, Held, Holding, Ready
  <2>5. /\ Held' = Held \cup {w}
        /\ \A v \in Held : cur'[v] = cur[v]
    BY <2>4 DEF Held, Holding, Ready
  <2>6. \A i \in 1 .. Len(queue') : queue'[i] = PoppedUpTo' + i
    <3> SUFFICES ASSUME NEW i \in 1 .. Len(queue')
                 PROVE  queue'[i] = PoppedUpTo' + i
      OBVIOUS
    <3>1. i + 1 \in 1 .. Len(queue) /\ queue'[i] = queue[i + 1]
      BY <2>2
    <3>2. queue[i + 1] = PoppedUpTo + (i + 1)
      BY <3>1 DEF InOrder
    <3> QED BY <2>3, <3>1, <3>2
  <2>7. ASSUME NEW s \in 1 .. PoppedUpTo'
        PROVE  s \in doneSeqs' \/ \E v \in Held' : cur'[v] = s
    <3>1. CASE s = PoppedUpTo + 1
      BY <2>3, <2>5, <3>1
    <3>2. CASE s \in 1 .. PoppedUpTo
      BY <2>4, <2>5, <3>2 DEF InOrder
    <3> QED BY <2>3, <3>1, <3>2
  <2>8. ASSUME NEW v \in Held' PROVE cur'[v] <= PoppedUpTo'
    <3>1. CASE v = w
      BY <2>3, <3>1
    <3>2. CASE v \in Held
      <4>1. cur[v] \in Nat /\ cur[v] <= PoppedUpTo
        BY <1>1, <3>2 DEF InOrder, Held
      <4> QED BY <2>3, <2>5, <3>2, <4>1
    <3> QED BY <2>5, <3>1, <3>2
  <2> QED BY <2>3, <2>6, <2>7, <2>8 DEF InOrder
<1>4. CASE WorkerDone(w)
  <2>1. /\ doneSeqs' = doneSeqs \cup {cur[w]} /\ UNCHANGED queue
        /\ w \in Held /\ Held' = Held \ {w}
        /\ \A v \in Held' : cur'[v] = cur[v]
    BY <1>1, <1>4 DEF WorkerDone, WorkerMoves, Held, Holding, Ready, queueVars
  <2> QED BY <1>2, <2>1 DEF InOrder, PoppedUpTo
<1>5. CASE ~WorkerPop(w) /\ ~WorkerDone(w)
  <2>1. UNCHANGED <<queue, doneSeqs, cur>>
    BY <1>5 DEF WorkerStep, WorkerPopWait, WorkerExit, WorkerAwait, WorkerBegin,
                WorkerEnd, WorkerThrow, WorkerBuffer, WorkerNotify, popWait,
                popNothing, queueVars, shared, workerVars
  <2>2. Held' = Held
    BY <1>1, <1>5
    DEF WorkerStep, WorkerPopWait, WorkerExit, WorkerAwait, WorkerBegin,
        WorkerEnd, WorkerThrow, WorkerBuffer, WorkerNotify, WorkerMoves,
        workerVars, Held, Holding, Ready
  <2> QED BY <1>2, <2>1, <2>2, InOrderFrame
<1> QED BY <1>3, <1>4, <1>5

LEMMA WaitStep == WaitInv /\ [Next]_vars => WaitInv'
<1> SUFFICES ASSUME WaitInv, [Next]_vars, mpc' # "aborted" PROVE InOrder'
  BY TypeStep DEF WaitInv
<1>1. CASE MainRead \/ MainStep
  <2>1. mpc # "aborted"
    BY <1>1 DEF MainRead, MainStep, MainParse, MainQuit, MainEndOfInput,
                MainParseError, MainTerminate, MainBarrier, MainNotify, MainPush,
                MainNotifyOne, MainClose, MainCloseNotify, MainJoinAll,
                MainQuitBuffer, MainQuitDone, MainFlushStore, MainFinalStore,
                MainFinalNotify, MainJoinPrinter, MainMoves
  <2> QED BY <1>1, <2>1, WaitMain DEF WaitInv
<1>2. CASE \E w \in Workers : WorkerStep(w) \/ WorkerThrow(w)
  <2>1. PICK w \in Workers : WorkerStep(w) \/ WorkerThrow(w)
    BY <1>2
  <2>2. mpc' = mpc
    BY <2>1 DEF WorkerStep, WorkerPop, WorkerPopWait, WorkerExit, WorkerAwait,
                WorkerBegin, WorkerEnd, WorkerThrow, WorkerBuffer, WorkerDone,
                WorkerNotify, workerFrame, mainVars
  <2> QED BY <2>1, <2>2, WaitWorker DEF WaitInv
<1>3. CASE PrinterStep \/ SpuriousWakeup \/ UNCHANGED vars
  <2>1. UNCHANGED <<queue, doneSeqs, tasks, cur, wpc, mpc>>
    BY <1>3
    DEF PrinterStep, PrinterCheck, PrinterBlock, PrinterDrain, PrinterPrint,
        PrinterRelock, printerFrame, SpuriousWakeup, popSpurious, vars, depVars,
        queueVars, mainVars, workerVars, shared
  <2> QED BY <2>1, InOrderFrame DEF WaitInv, Held, Sent
<1> QED BY <1>1, <1>2, <1>3 DEF Next

\* What a blocked worker waits for is done or held by a worker, never in the
\* queue; and the worker with the oldest task waits for nothing.
WaitsForPopped ==
  \A w \in Workers : wpc[w] = "deps" =>
    /\ \A s \in tasks[cur[w]].waitAll :
         s \in doneSeqs \/ \E v \in Workers : wpc[v] \in Holding /\ cur[v] = s
    /\ (\A v \in Workers : wpc[v] \in Holding => cur[w] <= cur[v])
         => DependenciesDone(w)

\* Workers never wait for each other in a circle, nor for a task in the queue,
\* whatever their number (the wait of makeWorkerFunc, the pop of scheduler.h).
THEOREM NoCircularWait == Spec => []WaitsForPopped
<1>1. Init => WaitInv
  <2> SUFFICES ASSUME Init PROVE InOrder
    BY TypeInit DEF WaitInv
  <2>1. queue = <<>> /\ Len(tasks) = 0 /\ Held = {} /\ mpc = "parse"
    BY DEF Init, DepInit, QueueInit, Held, Holding, Ready
  <2> QED BY <2>1 DEF InOrder, PoppedUpTo, Sent, Numbered
<1>2. WaitInv /\ ResultInv => WaitsForPopped
  <2> SUFFICES ASSUME WaitInv, ResultInv, NEW w \in Workers, wpc[w] = "deps"
               PROVE  /\ \A s \in tasks[cur[w]].waitAll :
                           \/ s \in doneSeqs
                           \/ \E v \in Workers : wpc[v] \in Holding /\ cur[v] = s
                      /\ (\A v \in Workers : wpc[v] \in Holding => cur[w] <= cur[v])
                           => DependenciesDone(w)
    BY DEF WaitsForPopped
  <2>1. InOrder
    BY DEF WaitInv, ResultInv, AbortKills
  <2>2. w \in Held /\ cur[w] \in Seqs /\ cur[w] \in Nat
    BY DEF WaitInv, TypeInv, TypeOK, PlacesOK, Held, Holding, Seqs
  <2>3. \A s \in tasks[cur[w]].waitAll : s \in Nat /\ s # 0 /\ s < cur[w]
    BY <2>2 DEF WaitInv, TypeInv, TypeOK, DepTypeOK
  <2>4. ASSUME NEW s \in tasks[cur[w]].waitAll
        PROVE  s \in doneSeqs \/ \E v \in Held : cur[v] = s
    <3>1. cur[w] <= PoppedUpTo /\ PoppedUpTo \in Nat
      BY <2>1, <2>2 DEF InOrder
    <3>2. s \in 1 .. PoppedUpTo
      BY <2>2, <2>3, <3>1
    <3> QED BY <2>1, <3>2 DEF InOrder
  <2>5. ASSUME \A v \in Workers : wpc[v] \in Holding => cur[w] <= cur[v]
        PROVE  DependenciesDone(w)
    <3> SUFFICES ASSUME NEW s \in tasks[cur[w]].waitAll PROVE s \in doneSeqs
      BY DEF DependenciesDone
    <3>1. ASSUME NEW v \in Held, cur[v] = s PROVE FALSE
      BY <2>2, <2>3, <2>5, <3>1 DEF Held
    <3> QED BY <2>4, <3>1
  <2> QED BY <2>4, <2>5 DEF Held
<1> QED BY <1>1, <1>2, WaitStep, ResultInit, ResultStep, PTL DEF Spec
-----------------------------------------------------------------------------
Final == {"finalNotify", "joinPrinter", "returned"}
QuitIsDone == {"flushStore", "finalStore"} \cup Final

\* finalSeq is the last number, but 0 before it is stored; the printer ends
\* only past it.
FinalKnown ==
  /\ mpc \in Final => finalSeq = lastSeq
  /\ mpc \notin Final => finalSeq = 0
  /\ ppc = "exited" => PastFinal
  /\ mpc = "returned" => ppc = "exited"

\* QUIT's empty result is there before QUIT is done.
QuitLast ==
  /\ quitSeq \in doneSeqs => mpc \in QuitIsDone
  /\ mpc = "quitDone" => quitSeq \in DOMAIN resultBuffer

PassedDone ==
  /\ 1 .. nextToPrint - 1 \subseteq doneSeqs
  /\ ppc = "print" => nextToPrint \in doneSeqs

BufferAhead ==
  \A s \in DOMAIN resultBuffer :
    /\ s >= nextToPrint
    /\ ppc = "print" => s # nextToPrint

PrintedSeqs == {stdout[k].seq : k \in Printed}
Taken == {s \in {nextToPrint} : ppc = "print" /\ str # <<>>}
Answered == DOMAIN resultBuffer \cup PrintedSeqs \cup Taken
Finished == doneSeqs \cup {cur[w] : w \in {v \in Workers : wpc[v] = "done"}}
Lost == Finished \ Answered

FewLost == IsFiniteSet(Lost) /\ Cardinality(Lost) <= faults

\* std::terminate takes a result from the printer's hands.
LostFew == mpc # "aborted" => FewLost

DrainInv == FinalKnown /\ QuitLast /\ PassedDone /\ BufferAhead
CompleteInv == PlaceInv /\ DrainInv /\ LostFew

LEMMA CompleteTypes == CompleteInv => TypeInv
BY DEF CompleteInv, PlaceInv, OrderInv

LEMMA CompleteInit == Init => CompleteInv
<1> SUFFICES ASSUME Init PROVE CompleteInv
  OBVIOUS
<1>1. PlaceInv
  BY StoreInit DEF StoreInv
<1>2. DrainInv
  BY DEF Init, DrainInv, FinalKnown, QuitLast, PassedDone, BufferAhead, Final,
         QuitIsDone
<1>3. Lost = {} /\ faults = 0
  BY DEF Init, Lost, Finished
<1>4. FewLost
  BY <1>3, FS_EmptySet DEF FewLost
<1> QED BY <1>1, <1>2, <1>4 DEF CompleteInv, LostFew
-----------------------------------------------------------------------------
\* Nothing is lost by a step that loses no answer and finishes only what has one.
LEMMA NoneLost ==
  ASSUME FewLost, Lost' \subseteq Lost, faults \in Nat, faults' \in Nat,
         faults <= faults'
  PROVE  FewLost'
<1>1. IsFiniteSet(Lost') /\ Cardinality(Lost') <= Cardinality(Lost)
  BY FS_Subset DEF FewLost
<1>2. Cardinality(Lost') \in Nat /\ Cardinality(Lost) \in Nat
  BY <1>1, FS_CardinalityType DEF FewLost
<1> QED BY <1>1, <1>2 DEF FewLost

LEMMA SameAnswers ==
  ASSUME UNCHANGED <<resultBuffer, stdout, ppc, str, nextToPrint>>
  PROVE  Answered' = Answered /\ PrintedSeqs' = PrintedSeqs
BY DEF Answered, PrintedSeqs, Printed, Taken

LEMMA DrainFrame ==
  ASSUME DrainInv,
         UNCHANGED <<ppc, nextToPrint, doneSeqs, resultBuffer, finalSeq, mpc,
                     quitSeq>>,
         lastSeq' = lastSeq
  PROVE  DrainInv'
BY DEF DrainInv, FinalKnown, QuitLast, PassedDone, BufferAhead, PastFinal

LEMMA CompleteMain ==
  ASSUME CompleteInv, MainRead \/ MainStep
  PROVE  DrainInv' /\ LostFew'
<1>1. TypeInv
  BY CompleteTypes
<1>2. /\ quitSeq \in {0, Len(tasks) + 1} /\ Len(tasks) \in Nat
      /\ nextToPrint \in Nat \ {0} /\ doneSeqs \subseteq Seqs \cup {quitSeq}
      /\ doneSeqs \subseteq 1 .. Len(tasks) + 1 /\ faults \in Nat
      /\ DOMAIN resultBuffer \subseteq Seqs \cup {quitSeq}
      /\ DOMAIN resultBuffer \subseteq 1 .. Len(tasks) + 1
      /\ Seqs = 1 .. Len(tasks)
  BY <1>1, MaxFaultsAssumption
  DEF TypeInv, TypeOK, PlacesOK, DepTypeOK, Seqs
<1>3. CASE MainTerminate
  <2>1. /\ mpc = "unwinding" /\ mpc' = "aborted" /\ ppc' = "killed"
        /\ UNCHANGED <<quitSeq, tasks, nextToPrint, doneSeqs, resultBuffer,
                       finalSeq>>
    BY <1>3 DEF MainTerminate, MainMoves, shared, depVars
  <2> QED BY <2>1 DEF LostFew, CompleteInv, DrainInv, FinalKnown, QuitLast,
                      PassedDone, BufferAhead, Final, QuitIsDone
<1>4. CASE MainQuitBuffer
  <2>1. /\ mpc = "quitBuffer" /\ mpc' = "quitDone" /\ quitSeq # 0
        /\ UNCHANGED <<quitSeq, tasks, ppc, str, nextToPrint, doneSeqs, finalSeq,
                       stdout, faults, wpc, cur>>
        /\ DOMAIN resultBuffer' = DOMAIN resultBuffer \cup {quitSeq}
    BY <1>1, <1>4
    DEF MainQuitBuffer, Buffered, mainFrame, depVars, printerVars, world,
        workerVars, TypeInv, PlacesOK
  <2>2. quitSeq \notin doneSeqs
    BY <2>1 DEF CompleteInv, DrainInv, QuitLast, QuitIsDone, Final
  <2>3. quitSeq >= nextToPrint /\ (ppc = "print" => quitSeq # nextToPrint)
    BY <1>2, <2>1, <2>2 DEF CompleteInv, DrainInv, PassedDone
  <2>4. DrainInv'
    BY <1>2, <2>1, <2>2, <2>3
    DEF CompleteInv, DrainInv, FinalKnown, PastFinal, QuitLast, PassedDone,
        BufferAhead, Final, QuitIsDone, lastSeq
  <2>5. Lost' \subseteq Lost
    BY <2>1 DEF Lost, Finished, Answered, PrintedSeqs, Printed, Taken
  <2> QED BY <1>2, <2>1, <2>4, <2>5, NoneLost DEF CompleteInv, LostFew
<1>5. CASE MainQuitDone
  <2>1. /\ mpc = "quitDone" /\ mpc' = "flushStore"
        /\ UNCHANGED <<quitSeq, tasks, ppc, str, nextToPrint, resultBuffer,
                       finalSeq, stdout, faults, wpc, cur>>
        /\ doneSeqs' = doneSeqs \cup {quitSeq}
    BY <1>5 DEF MainQuitDone, MainMoves, mainFrame, depVars, printerVars, world,
                workerVars
  <2>2. DrainInv'
    BY <2>1
    DEF CompleteInv, DrainInv, FinalKnown, PastFinal, QuitLast, PassedDone,
        BufferAhead, Final, QuitIsDone, lastSeq
  <2>3. quitSeq \in Answered /\ Answered' = Answered
    BY <2>1, SameAnswers DEF CompleteInv, DrainInv, QuitLast, Answered
  <2>4. Lost' \subseteq Lost
    BY <2>1, <2>3 DEF Lost, Finished
  <2> QED BY <1>2, <2>1, <2>2, <2>4, NoneLost DEF CompleteInv, LostFew
<1>6. CASE ~MainTerminate /\ ~MainQuitBuffer /\ ~MainQuitDone
  <2>1. UNCHANGED <<ppc, str, nextToPrint, doneSeqs, resultBuffer, stdout, faults,
                    wpc, cur>>
    BY <1>6
    DEF MainRead, MainStep, MainParse, MainQuit, MainEndOfInput, MainParseError,
        MainBarrier, MainNotify, MainPush, MainNotifyOne, MainClose,
        MainCloseNotify, MainJoinAll, MainFlushStore, MainFinalStore,
        MainFinalNotify, MainJoinPrinter, mainFrame, shared, printerVars, world,
        workerVars
  <2>2. Lost' = Lost
    BY <2>1, SameAnswers DEF Lost, Finished
  <2>3. mpc # "aborted"
    BY <1>6
    DEF MainRead, MainStep, MainParse, MainQuit, MainEndOfInput, MainParseError,
        MainBarrier, MainNotify, MainPush, MainNotifyOne, MainClose,
        MainCloseNotify, MainJoinAll, MainFlushStore, MainFinalStore,
        MainFinalNotify, MainJoinPrinter, MainMoves
  <2>4. LostFew'
    BY <1>2, <2>1, <2>2, <2>3, NoneLost DEF CompleteInv, LostFew
  <2>5. PassedDone' /\ BufferAhead'
    BY <2>1 DEF CompleteInv, DrainInv, PassedDone, BufferAhead
  <2>6. QuitLast'
    <3>1. CASE MainQuit
      <4>1. /\ quitSeq' = Len(tasks) + 1 /\ mpc' = "close"
            /\ doneSeqs \subseteq Seqs \cup {0}
        BY <1>1, <1>2, <3>1 DEF MainQuit, MainMoves, TypeInv, PlacesOK, Reading
      <4>2. quitSeq' \notin doneSeqs'
        BY <1>2, <2>1, <4>1
      <4> QED BY <4>1, <4>2 DEF QuitLast
    <3>2. CASE ~MainQuit
      <4>1. /\ quitSeq' = quitSeq /\ mpc' # "quitDone"
            /\ mpc \in QuitIsDone => mpc' \in QuitIsDone
        BY <1>6, <3>2
        DEF MainRead, MainStep, MainParse, MainEndOfInput, MainParseError,
            MainBarrier, MainNotify, MainPush, MainNotifyOne, MainClose,
            MainCloseNotify, MainJoinAll, MainFlushStore, MainFinalStore,
            MainFinalNotify, MainJoinPrinter, MainMoves, mainFrame, QuitIsDone,
            Final
      <4> QED BY <2>1, <4>1 DEF CompleteInv, DrainInv, QuitLast
    <3> QED BY <3>1, <3>2
  <2>7. FinalKnown'
    <3>1. CASE MainFinalStore
      <4>1. /\ mpc = "finalStore" /\ mpc' = "finalNotify" /\ finalSeq' = lastSeq
            /\ lastSeq' = lastSeq
        BY <3>1 DEF MainFinalStore, MainMoves, mainFrame, depVars, lastSeq
      <4>2. ppc # "exited"
        BY <4>1 DEF CompleteInv, DrainInv, FinalKnown, PastFinal, Final
      <4> QED BY <2>1, <4>1, <4>2 DEF FinalKnown, Final
    <3>2. CASE MainFinalNotify
      <4>1. /\ mpc \in Final /\ mpc' = "joinPrinter" /\ finalSeq' = finalSeq
            /\ lastSeq' = lastSeq
        BY <3>2 DEF MainFinalNotify, MainMoves, mainFrame, depVars, lastSeq,
                    shared, Final
      <4> QED BY <2>1, <4>1 DEF CompleteInv, DrainInv, FinalKnown, PastFinal, Final
    <3>3. CASE MainJoinPrinter
      <4>1. /\ mpc \in Final /\ mpc' = "returned" /\ finalSeq' = finalSeq
            /\ lastSeq' = lastSeq /\ ppc = "exited"
        BY <3>3 DEF MainJoinPrinter, MainMoves, mainFrame, depVars, lastSeq,
                    shared, Final
      <4> QED BY <2>1, <4>1 DEF CompleteInv, DrainInv, FinalKnown, PastFinal, Final
    <3>4. CASE ~MainFinalStore /\ ~MainFinalNotify /\ ~MainJoinPrinter
      <4>1. mpc \notin Final /\ mpc' \notin Final /\ finalSeq' = finalSeq
        BY <1>6, <3>4
        DEF MainRead, MainStep, MainParse, MainQuit, MainEndOfInput,
            MainParseError, MainBarrier, MainNotify, MainPush, MainNotifyOne,
            MainClose, MainCloseNotify, MainJoinAll, MainFlushStore, MainMoves,
            shared, Final
      <4> QED BY <2>1, <4>1 DEF CompleteInv, DrainInv, FinalKnown, PastFinal, Final
    <3> QED BY <3>1, <3>2, <3>3, <3>4
  <2> QED BY <2>4, <2>5, <2>6, <2>7 DEF DrainInv
<1> QED BY <1>3, <1>4, <1>5, <1>6
LEMMA CompleteWorker ==
  ASSUME CompleteInv, NEW w \in Workers, WorkerStep(w) \/ WorkerThrow(w)
  PROVE  DrainInv' /\ LostFew'
<1>1. TypeInv
  BY CompleteTypes
<1>2. /\ wpc \in [Workers -> WorkerPlaces] /\ cur \in [Workers -> 0 .. Len(tasks)]
      /\ nextToPrint \in Nat \ {0} /\ faults \in Nat /\ Len(tasks) \in Nat
      /\ quitSeq \in {0, Len(tasks) + 1} /\ Seqs = 1 .. Len(tasks)
      /\ stdout \in Seq(StdoutLine)
  BY <1>1, MaxFaultsAssumption DEF TypeInv, TypeOK, DepTypeOK, Seqs
<1>3. /\ UNCHANGED <<mpc, quitSeq, tasks, ppc, nextToPrint, str, finalSeq>>
      /\ lastSeq' = lastSeq
  BY DEF WorkerStep, WorkerPop, WorkerPopWait, WorkerExit, WorkerAwait,
         WorkerBegin, WorkerEnd, WorkerThrow, WorkerBuffer, WorkerDone,
         WorkerNotify, workerFrame, mainVars, depVars, printerVars, shared, lastSeq
<1>4. FinalKnown'
  BY <1>3 DEF CompleteInv, DrainInv, FinalKnown, PastFinal
<1>5. wpc[w] \in Holding => cur[w] \in Seqs /\ cur[w] \notin doneSeqs
  BY <1>1 DEF CompleteInv, PlaceInv, Placed, Held, TypeInv, PlacesOK
<1>6. CASE WorkerDone(w)
  <2>1. /\ wpc[w] = "done" /\ wpc'[w] = "notify"
        /\ \A v \in Workers \ {w} : wpc'[v] = wpc[v] /\ cur'[v] = cur[v]
        /\ doneSeqs' = doneSeqs \cup {cur[w]}
        /\ UNCHANGED <<resultBuffer, stdout, faults>>
    BY <1>2, <1>6 DEF WorkerDone, WorkerMoves, world
  <2>2. Lost' = Lost
    <3>1. Finished' = Finished
      BY <2>1 DEF Finished
    <3> QED BY <1>3, <2>1, <3>1, SameAnswers DEF Lost
  <2>3. cur[w] # quitSeq
    BY <1>2, <1>5, <2>1 DEF Holding, Ready
  <2>4. QuitLast' /\ PassedDone' /\ BufferAhead'
    BY <1>3, <2>1, <2>3
    DEF CompleteInv, DrainInv, QuitLast, PassedDone, BufferAhead
  <2> QED BY <1>2, <1>3, <1>4, <2>1, <2>2, <2>4, NoneLost
          DEF CompleteInv, DrainInv, LostFew
<1>7. CASE WorkerBuffer(w)
  <2>1. /\ wpc[w] = "buffer" /\ wpc' = [wpc EXCEPT ![w] = "done"]
        /\ DOMAIN resultBuffer' = DOMAIN resultBuffer \cup {cur[w]}
        /\ UNCHANGED <<cur, doneSeqs, stdout, faults>>
    BY <1>7 DEF WorkerBuffer, WorkerMoves, Buffered, world
  <2>2. cur[w] \in Seqs /\ cur[w] \notin doneSeqs
    BY <1>5, <2>1 DEF Holding, Ready
  <2>3. cur[w] >= nextToPrint /\ (ppc = "print" => cur[w] # nextToPrint)
    BY <1>2, <2>2 DEF CompleteInv, DrainInv, PassedDone
  <2>4. QuitLast' /\ PassedDone' /\ BufferAhead'
    BY <1>3, <2>1, <2>3
    DEF CompleteInv, DrainInv, QuitLast, PassedDone, BufferAhead
  <2>5. Finished' \subseteq Finished \cup {cur[w]}
    BY <1>2, <2>1 DEF Finished
  <2>6. Answered \cup {cur[w]} \subseteq Answered'
    BY <1>3, <2>1 DEF Answered, PrintedSeqs, Printed, Taken
  <2>7. Lost' \subseteq Lost
    BY <2>5, <2>6 DEF Lost
  <2> QED BY <1>2, <1>3, <1>4, <2>1, <2>4, <2>7, NoneLost
          DEF CompleteInv, DrainInv, LostFew
<1>8. CASE WorkerThrow(w)
  <2>1. /\ wpc[w] = "run" /\ wpc' = [wpc EXCEPT ![w] = "done"]
        /\ faults' = faults + 1
        /\ UNCHANGED <<cur, doneSeqs, resultBuffer, stdout>>
    BY <1>8 DEF WorkerThrow, WorkerMoves, shared
  <2>2. Finished' \subseteq Finished \cup {cur[w]}
    BY <1>2, <2>1 DEF Finished
  <2>3. Lost' \subseteq Lost \cup {cur[w]}
    BY <1>3, <2>1, <2>2, SameAnswers DEF Lost
  <2>4. FewLost => FewLost'
    <3> SUFFICES ASSUME FewLost PROVE FewLost'
      OBVIOUS
    <3>1. /\ IsFiniteSet(Lost \cup {cur[w]})
          /\ Cardinality(Lost \cup {cur[w]}) <= Cardinality(Lost) + 1
          /\ Cardinality(Lost) \in Nat
      <4>1. IsFiniteSet(Lost) /\ Cardinality(Lost) \in Nat
        BY FS_CardinalityType DEF FewLost
      <4>2. /\ IsFiniteSet(Lost \cup {cur[w]})
            /\ \/ Cardinality(Lost \cup {cur[w]}) = Cardinality(Lost)
               \/ Cardinality(Lost \cup {cur[w]}) = Cardinality(Lost) + 1
        BY <4>1, FS_AddElement
      <4> QED BY <4>1, <4>2
    <3>2. /\ IsFiniteSet(Lost')
          /\ Cardinality(Lost') <= Cardinality(Lost \cup {cur[w]})
      BY <2>3, <3>1, FS_Subset
    <3>3. /\ Cardinality(Lost') \in Nat
          /\ Cardinality(Lost \cup {cur[w]}) \in Nat
      BY <3>1, <3>2, FS_CardinalityType
    <3>4. Cardinality(Lost) <= faults
      BY DEF FewLost
    <3>5. Cardinality(Lost') <= faults'
      BY <1>2, <2>1, <3>1, <3>2, <3>3, <3>4
    <3> QED BY <3>2, <3>5 DEF FewLost
  <2>5. QuitLast' /\ PassedDone' /\ BufferAhead'
    BY <1>3, <2>1
    DEF CompleteInv, DrainInv, QuitLast, PassedDone, BufferAhead
  <2> QED BY <1>3, <1>4, <2>4, <2>5 DEF CompleteInv, DrainInv, LostFew
<1>9. CASE ~WorkerDone(w) /\ ~WorkerBuffer(w) /\ ~WorkerThrow(w)
  <2>1. UNCHANGED <<doneSeqs, resultBuffer, faults>>
    BY <1>9
    DEF WorkerStep, WorkerPop, WorkerPopWait, WorkerExit, WorkerAwait,
        WorkerBegin, WorkerEnd, WorkerNotify, shared
  <2>2. Finished' \subseteq Finished
    <3>1. \A v \in Workers : wpc'[v] = "done" =>
            wpc[v] = "done" /\ cur'[v] = cur[v]
      BY <1>2, <1>9
      DEF WorkerStep, WorkerPop, WorkerPopWait, WorkerExit, WorkerAwait,
          WorkerBegin, WorkerEnd, WorkerNotify, WorkerMoves, workerVars
    <3> QED BY <2>1, <3>1 DEF Finished
  <2>3. PrintedSeqs \subseteq PrintedSeqs'
    <3>1. CASE stdout' = stdout
      BY <3>1 DEF PrintedSeqs, Printed
    <3>2. CASE stdout' = Append(stdout, Line(w, cur[w], Seen(w)))
      <4>1. /\ DOMAIN stdout \subseteq DOMAIN stdout'
            /\ \A k \in DOMAIN stdout : stdout'[k] = stdout[k]
        BY <1>2, <3>2
      <4> QED BY <4>1 DEF PrintedSeqs, Printed
    <3> QED BY <1>9, <3>1, <3>2
            DEF WorkerStep, WorkerPop, WorkerPopWait, WorkerExit, WorkerAwait,
                WorkerBegin, WorkerEnd, WorkerNotify, world
  <2>4. Lost' \subseteq Lost
    BY <1>3, <2>1, <2>2, <2>3 DEF Lost, Answered, Taken
  <2>5. QuitLast' /\ PassedDone' /\ BufferAhead'
    BY <1>3, <2>1
    DEF CompleteInv, DrainInv, QuitLast, PassedDone, BufferAhead
  <2> QED BY <1>2, <1>3, <1>4, <2>1, <2>4, <2>5, NoneLost
          DEF CompleteInv, DrainInv, LostFew
<1> QED BY <1>6, <1>7, <1>8, <1>9

LEMMA CompletePrinter ==
  ASSUME CompleteInv, PrinterStep
  PROVE  DrainInv' /\ LostFew'
<1>1. TypeInv
  BY CompleteTypes
<1>2. /\ nextToPrint \in Nat \ {0} /\ faults \in Nat /\ finalSeq \in Nat
      /\ stdout \in Seq(StdoutLine)
      /\ DOMAIN resultBuffer \subseteq 1 .. Len(tasks) + 1
  BY <1>1, MaxFaultsAssumption DEF TypeInv, TypeOK
<1>3. /\ UNCHANGED <<mpc, quitSeq, tasks, wpc, cur, doneSeqs, finalSeq, faults>>
      /\ lastSeq' = lastSeq
  BY DEF PrinterStep, PrinterCheck, PrinterBlock, PrinterDrain, PrinterPrint,
         PrinterRelock, printerFrame, mainVars, workerVars, shared, depVars, lastSeq
<1>4. /\ Finished' = Finished
      /\ Answered \subseteq Answered' => LostFew'
  <2>1. Finished' = Finished
    BY <1>3 DEF Finished
  <2>2. Answered \subseteq Answered' => Lost' \subseteq Lost
    BY <2>1 DEF Lost
  <2> QED BY <1>2, <1>3, <2>1, <2>2, NoneLost DEF CompleteInv, LostFew
<1>5. CASE PrinterCheck \/ PrinterBlock \/ PrinterRelock
  <2>1. /\ ppc # "print" /\ ppc' # "print"
        /\ ppc' = "exited" => PastFinal
        /\ mpc = "returned" => ppc' = "exited"
        /\ UNCHANGED <<nextToPrint, str, resultBuffer, stdout>>
    BY <1>5 DEF PrinterCheck, PrinterBlock, PrinterRelock, shared, CompleteInv,
                DrainInv, FinalKnown
  <2>2. DrainInv'
    BY <1>3, <2>1
    DEF CompleteInv, DrainInv, FinalKnown, PastFinal, QuitLast, PassedDone,
        BufferAhead
  <2>3. Answered \subseteq Answered'
    BY <2>1 DEF Answered, PrintedSeqs, Printed, Taken
  <2> QED BY <1>4, <2>2, <2>3
<1>6. CASE PrinterDrain
  <2>1. /\ ppc = "drain" /\ ppc' \in {"print", "check"}
        /\ UNCHANGED <<nextToPrint, stdout>>
    BY <1>6 DEF PrinterDrain
  <2>2. mpc # "returned"
    BY <2>1 DEF CompleteInv, DrainInv, FinalKnown
  <2>3. CASE Printable /\ ppc' = "print"
    <3>1. /\ nextToPrint \in doneSeqs
          /\ DOMAIN resultBuffer' = DOMAIN resultBuffer \ {nextToPrint}
          /\ nextToPrint \in DOMAIN resultBuffer => str' # <<>>
      <4>1. /\ nextToPrint \in doneSeqs
            /\ resultBuffer' = Unbuffered(nextToPrint)
            /\ str' = IF nextToPrint \in DOMAIN resultBuffer
                      THEN <<resultBuffer[nextToPrint]>> ELSE <<>>
        BY <1>6, <2>3 DEF PrinterDrain, Printable
      <4>2. DOMAIN resultBuffer' = DOMAIN resultBuffer \ {nextToPrint}
        BY <4>1 DEF Unbuffered
      <4>3. nextToPrint \in DOMAIN resultBuffer => Len(str') = 1
        BY <4>1
      <4> QED BY <4>1, <4>2, <4>3
    <3>2. quitSeq \in doneSeqs => mpc \in QuitIsDone
      BY DEF CompleteInv, DrainInv, QuitLast
    <3>3. QuitLast'
      <4>1. mpc = "quitDone" => quitSeq \notin doneSeqs
        BY <3>2 DEF QuitIsDone, Final
      <4> QED BY <1>3, <3>1, <4>1 DEF CompleteInv, DrainInv, QuitLast
    <3>4. FinalKnown' /\ PassedDone' /\ BufferAhead'
      BY <1>3, <2>1, <2>2, <2>3, <3>1
      DEF CompleteInv, DrainInv, FinalKnown, PastFinal, PassedDone, BufferAhead
    <3>5. Answered \subseteq Answered'
      BY <2>1, <2>3, <3>1 DEF Answered, PrintedSeqs, Printed, Taken
    <3> QED BY <1>4, <3>3, <3>4, <3>5 DEF DrainInv
  <2>4. CASE ppc' = "check" /\ UNCHANGED <<str, resultBuffer>>
    <3>1. DrainInv'
      BY <1>3, <2>1, <2>2, <2>4
      DEF CompleteInv, DrainInv, FinalKnown, PastFinal, QuitLast, PassedDone,
          BufferAhead
    <3>2. Answered \subseteq Answered'
      BY <2>1, <2>4 DEF Answered, PrintedSeqs, Printed, Taken
    <3> QED BY <1>4, <3>1, <3>2
  <2> QED BY <1>6, <2>3, <2>4 DEF PrinterDrain
<1>7. CASE PrinterPrint
  <2>1. /\ ppc = "print" /\ ppc' = "relock" /\ nextToPrint' = nextToPrint + 1
        /\ resultBuffer' = resultBuffer
    BY <1>7 DEF PrinterPrint, shared
  <2>2. PassedDone'
    <3>1. 1 .. nextToPrint' - 1 \subseteq (1 .. nextToPrint - 1) \cup {nextToPrint}
      BY <1>2, <2>1
    <3> QED BY <1>3, <2>1, <3>1 DEF CompleteInv, DrainInv, PassedDone
  <2>3. BufferAhead'
    BY <1>2, <2>1 DEF CompleteInv, DrainInv, BufferAhead
  <2>4. FinalKnown' /\ QuitLast'
    BY <1>3, <2>1 DEF CompleteInv, DrainInv, FinalKnown, PastFinal, QuitLast
  <2>5. Answered \subseteq Answered'
    <3>1. CASE str = <<>>
      BY <1>7, <2>1, <3>1
      DEF PrinterPrint, Answered, PrintedSeqs, Printed, Taken
    <3>2. CASE str # <<>>
      <4> DEFINE l == Line(Printer, nextToPrint, str[1])
      <4>1. stdout' = Append(stdout, l)
        BY <1>7, <3>2 DEF PrinterPrint
      <4> HIDE DEF l
      <4>2. /\ DOMAIN stdout \subseteq DOMAIN stdout'
            /\ \A k \in DOMAIN stdout : stdout'[k] = stdout[k]
            /\ Len(stdout) + 1 \in DOMAIN stdout'
            /\ stdout'[Len(stdout) + 1] = l
        BY <1>2, <4>1
      <4>3. l.by = Printer /\ l.seq = nextToPrint
        BY DEF l, Line
      <4>4. PrintedSeqs \subseteq PrintedSeqs'
        BY <4>2 DEF PrintedSeqs, Printed
      <4>5. nextToPrint \in PrintedSeqs'
        BY <4>2, <4>3 DEF PrintedSeqs, Printed
      <4> QED BY <2>1, <4>4, <4>5 DEF Answered, Taken
    <3> QED BY <3>1, <3>2
  <2> QED BY <1>4, <2>2, <2>3, <2>4, <2>5 DEF DrainInv
<1> QED BY <1>5, <1>6, <1>7 DEF PrinterStep

LEMMA CompleteOther ==
  ASSUME CompleteInv, SpuriousWakeup \/ UNCHANGED vars
  PROVE  DrainInv' /\ LostFew'
<1>1. faults \in Nat
  BY CompleteTypes, MaxFaultsAssumption DEF TypeInv, TypeOK
<1>2. /\ UNCHANGED <<mpc, quitSeq, tasks, wpc, cur, doneSeqs, finalSeq, ppc,
                     nextToPrint, str, resultBuffer, stdout>>
      /\ lastSeq' = lastSeq /\ (faults' = faults \/ faults' = faults + 1)
  BY DEF SpuriousWakeup, vars, mainVars, workerVars, printerVars, shared, world,
         depVars, lastSeq
<1>3. DrainInv'
  BY <1>2, DrainFrame DEF CompleteInv
<1>4. Lost' = Lost
  BY <1>2, SameAnswers DEF Lost, Finished
<1> QED BY <1>1, <1>2, <1>3, <1>4, NoneLost DEF CompleteInv, LostFew

LEMMA CompleteStep == CompleteInv /\ [Next]_vars => CompleteInv'
<1> SUFFICES ASSUME CompleteInv, [Next]_vars PROVE CompleteInv'
  OBVIOUS
<1>1. PlaceInv'
  BY PlaceStep DEF CompleteInv
<1> QED BY <1>1, CompleteMain, CompleteWorker, CompletePrinter, CompleteOther
        DEF CompleteInv, Next
-----------------------------------------------------------------------------
\* What is not lost is printed, by a line each at least.
LEMMA FewUnprinted ==
  ASSUME TypeInv, FewLost, NEW n \in Nat, 1 .. n \subseteq Lost \cup PrintedSeqs
  PROVE  /\ Cardinality(Printed) + faults >= n
         /\ Cardinality(Printed) \in Nat /\ faults \in Nat
<1>1. stdout \in Seq(StdoutLine) /\ faults \in Nat
  BY MaxFaultsAssumption DEF TypeInv, TypeOK
<1>2. /\ IsFiniteSet(PrintedSeqs)
      /\ Cardinality(PrintedSeqs) <= Cardinality(Printed)
      /\ Cardinality(PrintedSeqs) \in Nat /\ Cardinality(Printed) \in Nat
  <2>1. DOMAIN stdout = 1 .. Len(stdout) /\ Len(stdout) \in Nat
    BY <1>1
  <2>2. IsFiniteSet(Printed)
    <3>1. IsFiniteSet(1 .. Len(stdout))
      BY <2>1, FS_Interval
    <3>2. Printed \subseteq 1 .. Len(stdout)
      BY <2>1 DEF Printed
    <3> QED BY <3>1, <3>2, FS_Subset
  <2>3. /\ IsFiniteSet(PrintedSeqs)
        /\ Cardinality(PrintedSeqs) <= Cardinality(Printed)
    <3> DEFINE f == [k \in Printed |-> stdout[k].seq]
    <3>1. f \in Surjection(Printed, PrintedSeqs)
      BY Zenon DEF Surjection, PrintedSeqs
    <3> HIDE DEF f
    <3> QED BY <2>2, <3>1, FS_Surjection
  <2> QED BY <2>2, <2>3, FS_CardinalityType
<1>3. /\ IsFiniteSet(Lost) /\ Cardinality(Lost) <= faults
      /\ Cardinality(Lost) \in Nat
  BY FS_CardinalityType DEF FewLost
<1>4. n <= Cardinality(Lost) + Cardinality(PrintedSeqs)
  <2>1. IsFiniteSet(1 .. n) /\ Cardinality(1 .. n) = n
    BY FS_Interval
  <2>2. /\ IsFiniteSet(Lost \cup PrintedSeqs)
        /\ Cardinality(Lost \cup PrintedSeqs)
             <= Cardinality(Lost) + Cardinality(PrintedSeqs)
    <3>1. IsFiniteSet(Lost \cap PrintedSeqs)
      BY <1>3, FS_Intersection
    <3>2. /\ IsFiniteSet(Lost \cup PrintedSeqs)
          /\ Cardinality(Lost \cup PrintedSeqs)
               = Cardinality(Lost) + Cardinality(PrintedSeqs)
                 - Cardinality(Lost \cap PrintedSeqs)
      BY <1>2, <1>3, FS_Union
    <3> QED BY <1>2, <1>3, <3>1, <3>2, FS_CardinalityType
  <2>3. Cardinality(1 .. n) <= Cardinality(Lost \cup PrintedSeqs)
    BY <2>2, FS_Subset
  <2> QED BY <1>2, <1>3, <2>1, <2>2, <2>3, FS_CardinalityType
<1> QED BY <1>1, <1>2, <1>3, <1>4

\* What the printer passed and did not lose, it printed.
LEMMA EnoughPrinted ==
  ASSUME CompleteInv, mpc = "returned"
  PROVE  ReturnsComplete
<1>1. TypeInv
  BY CompleteTypes
<1>2. /\ quitSeq \in {0, Len(tasks) + 1} /\ Len(tasks) \in Nat
      /\ nextToPrint \in Nat \ {0} /\ faults \in Nat
      /\ doneSeqs \subseteq 1 .. Len(tasks) + 1
      /\ doneSeqs \subseteq Seqs \cup {quitSeq}
      /\ DOMAIN resultBuffer \subseteq Seqs \cup {quitSeq}
      /\ DOMAIN resultBuffer \subseteq 1 .. Len(tasks) + 1
      /\ Seqs = 1 .. Len(tasks) /\ stdout \in Seq(StdoutLine)
  BY <1>1, MaxFaultsAssumption DEF TypeInv, TypeOK, PlacesOK, DepTypeOK, Seqs
<1>3. /\ finalSeq = lastSeq /\ ppc = "exited" /\ nextToPrint > lastSeq
      /\ 1 .. nextToPrint - 1 \subseteq doneSeqs
      /\ FewLost
  BY DEF CompleteInv, DrainInv, FinalKnown, PassedDone, PastFinal, Final, LostFew
<1>4. /\ lastSeq \in Nat /\ Len(tasks) <= lastSeq
      /\ Seqs \cup {quitSeq} \subseteq 0 .. lastSeq
  BY <1>2 DEF lastSeq
<1>5. nextToPrint = lastSeq + 1
  <2>1. ~(nextToPrint > lastSeq + 1)
    <3> SUFFICES ASSUME nextToPrint > lastSeq + 1 PROVE FALSE
      OBVIOUS
    <3>1. lastSeq + 1 \in 1 .. nextToPrint - 1
      BY <1>2, <1>4
    <3>2. lastSeq + 1 \in 0 .. lastSeq
      BY <1>2, <1>3, <1>4, <3>1
    <3> QED BY <1>4, <3>2
  <2> QED BY <1>2, <1>3, <1>4, <2>1
<1>6. Seqs \subseteq doneSeqs
  BY <1>2, <1>3, <1>4, <1>5
<1>7. DOMAIN resultBuffer = {}
  <2> SUFFICES ASSUME NEW s \in DOMAIN resultBuffer PROVE FALSE
    OBVIOUS
  <2>1. s >= nextToPrint
    BY DEF CompleteInv, DrainInv, BufferAhead
  <2>2. s \in 0 .. lastSeq
    BY <1>2, <1>4
  <2> QED BY <1>4, <1>5, <2>1, <2>2
<1>8. 1 .. lastSeq \subseteq Lost \cup PrintedSeqs
  <2>1. Answered = PrintedSeqs
    BY <1>3, <1>7 DEF Answered, Taken
  <2>2. 1 .. lastSeq \subseteq doneSeqs
    BY <1>3, <1>4, <1>5
  <2> QED BY <2>1, <2>2 DEF Lost, Finished
<1>9. Cardinality(Printed) + faults >= lastSeq
  BY <1>1, <1>3, <1>4, <1>8, FewUnprinted
<1> QED BY <1>5, <1>6, <1>7, <1>9 DEF ReturnsComplete

\* When execute() returns, every query is done, nothing stays in the buffer, and
\* every query is printed but for those that threw (finalizeExecution and
\* startPrinterThread), for any workers, any input and any number of faults.
THEOREM CompleteAtReturn == Spec => []ReturnsComplete
<1>1. CompleteInv => ReturnsComplete
  BY EnoughPrinted DEF ReturnsComplete
<1> QED BY CompleteInit, CompleteStep, <1>1, PTL DEF Spec
-----------------------------------------------------------------------------
\* What query s is, QUIT being the last.
QueryOf(s) == IF s \in Seqs THEN query(s) ELSE QuitQuery

\* An output says something of the whole footprint, or is the bare message of
\* a query that has printed from its worker.
Shaped(q, out) ==
  IF PrintsItself(q)
  THEN out = NoOutput
  ELSE DOMAIN out.first = Footprint(q) /\ DOMAIN out.last = Footprint(q)

RepliesShaped ==
  \A w \in Workers :
    /\ wpc[w] = "run" => DOMAIN reply[w].first = Footprint(query(cur[w]))
    /\ wpc[w] = "buffer" => Shaped(query(cur[w]), reply[w])

BufferShaped == \A s \in DOMAIN resultBuffer : Shaped(QueryOf(s), resultBuffer[s])

TakenShaped == ppc = "print" /\ str # <<>> => Shaped(QueryOf(nextToPrint), str[1])

AbortKillsPrinter == mpc = "aborted" => ppc = "killed"

ShapeInv == RepliesShaped /\ BufferShaped /\ TakenShaped /\ AbortKillsPrinter

LEMMA ShapeInit == Init => ShapeInv
BY DEF Init, ShapeInv, RepliesShaped, BufferShaped, TakenShaped, AbortKillsPrinter

LEMMA SameQueries ==
  ASSUME UNCHANGED tasks, NEW s
  PROVE  query(s)' = query(s) /\ QueryOf(s)' = QueryOf(s)
BY DEF QueryOf, query, Seqs

LEMMA QuitShaped == Shaped(QuitQuery, NoOutput)
BY DEF Shaped, QuitQuery, PrintsItself, NoOutput, EmptyView, Footprint, TableKinds

LEMMA ShapeParse ==
  ASSUME CompleteInv, ShapeInv, NEW q \in Input, MainParse(q)
  PROVE  ShapeInv'
<1>1. TypeInv
  BY CompleteTypes
<1>2. /\ Len(tasks) \in Nat /\ Seqs' = Seqs \cup {Len(tasks) + 1}
      /\ \A i \in Seqs : tasks[i] = tasks'[i]
  BY <1>1, ScheduleAppends, InputAssumption DEF MainParse, TypeInv, TypeOK
<1>3. UNCHANGED <<wpc, cur, reply, ppc, nextToPrint, str, doneSeqs, resultBuffer>>
      /\ mpc' # "aborted"
  BY DEF MainParse, workerVars, printerVars, shared
<1>4. /\ doneSeqs \subseteq Seqs /\ DOMAIN resultBuffer \subseteq Seqs
      /\ ppc = "print" => nextToPrint \in Seqs
      /\ \A w \in Workers : wpc[w] \in {"run", "buffer"} => cur[w] \in Seqs
  <2>1. doneSeqs \subseteq Seqs /\ DOMAIN resultBuffer \subseteq Seqs
    BY <1>1 DEF MainParse, TypeInv, TypeOK, PlacesOK, Reading
  <2>2. ppc = "print" => nextToPrint \in doneSeqs
    BY DEF CompleteInv, DrainInv, PassedDone
  <2> QED BY <1>1, <2>1, <2>2 DEF TypeInv, PlacesOK, Holding, Ready
<1>5. \A s \in Seqs : query(s)' = query(s) /\ QueryOf(s)' = QueryOf(s)
  BY <1>2 DEF query, QueryOf
<1>6. RepliesShaped'
  BY <1>3, <1>4, <1>5 DEF ShapeInv, RepliesShaped, query
<1>7. BufferShaped' /\ TakenShaped'
  BY <1>3, <1>4, <1>5 DEF ShapeInv, BufferShaped, TakenShaped
<1> QED BY <1>3, <1>6, <1>7 DEF ShapeInv, AbortKillsPrinter

LEMMA ShapeMain ==
  ASSUME TypeInv, ShapeInv, UNCHANGED depVars,
         MainQuit \/ MainEndOfInput \/ MainParseError \/ MainStep
  PROVE  ShapeInv'
<1>1. UNCHANGED tasks
  BY DEF depVars
<1>2. CASE MainTerminate
  <2>1. (\A w \in Workers : wpc'[w] = "killed") /\ ppc' = "killed"
        /\ resultBuffer' = resultBuffer
    BY <1>2 DEF MainTerminate, shared
  <2> QED BY <1>1, <2>1, SameQueries
          DEF ShapeInv, RepliesShaped, BufferShaped, TakenShaped, AbortKillsPrinter
<1>3. CASE MainQuitBuffer
  <2>1. /\ UNCHANGED <<wpc, cur, reply, ppc, nextToPrint, str>>
        /\ mpc' # "aborted"
        /\ resultBuffer' = Buffered(quitSeq, NoOutput)
        /\ quitSeq # 0
    BY <1>3 DEF MainQuitBuffer, mainFrame, workerVars, printerVars, TypeInv, PlacesOK
  <2>2. quitSeq \notin Seqs
    BY <2>1 DEF TypeInv, TypeOK, DepTypeOK, Seqs
  <2>3. BufferShaped'
    <3>1. \A s \in DOMAIN resultBuffer' :
            \/ s = quitSeq /\ resultBuffer'[s] = NoOutput
            \/ s \in DOMAIN resultBuffer /\ resultBuffer'[s] = resultBuffer[s]
      BY <2>1 DEF Buffered
    <3>2. Shaped(QueryOf(quitSeq), NoOutput)
      BY <2>2, QuitShaped DEF QueryOf
    <3> QED BY <1>1, <3>1, <3>2, SameQueries DEF ShapeInv, BufferShaped
  <2> QED BY <1>1, <2>1, <2>3, SameQueries
          DEF ShapeInv, RepliesShaped, TakenShaped, AbortKillsPrinter
<1>4. CASE ~MainTerminate /\ ~MainQuitBuffer
  <2>1. UNCHANGED <<wpc, cur, reply, ppc, nextToPrint, str, resultBuffer>>
    BY <1>4
    DEF MainStep, MainQuit, MainEndOfInput, MainParseError, MainBarrier,
        MainNotify, MainPush, MainNotifyOne, MainClose, MainCloseNotify,
        MainJoinAll, MainQuitDone, MainFlushStore, MainFinalStore,
        MainFinalNotify, MainJoinPrinter, mainFrame, shared, printerVars,
        workerVars
  <2>2. mpc' # "aborted"
    BY <1>4
    DEF MainStep, MainQuit, MainEndOfInput, MainParseError, MainBarrier,
        MainNotify, MainPush, MainNotifyOne, MainClose, MainCloseNotify,
        MainJoinAll, MainQuitDone, MainFlushStore, MainFinalStore,
        MainFinalNotify, MainJoinPrinter, MainMoves
  <2> QED BY <1>1, <2>1, <2>2, SameQueries
          DEF ShapeInv, RepliesShaped, BufferShaped, TakenShaped, AbortKillsPrinter
<1> QED BY <1>2, <1>3, <1>4

LEMMA ShapeWorker ==
  ASSUME TypeInv, ShapeInv, NEW w \in Workers, WorkerStep(w) \/ WorkerThrow(w)
  PROVE  ShapeInv'
<1>1. /\ wpc \in [Workers -> WorkerPlaces] /\ cur \in [Workers -> 0 .. Len(tasks)]
      /\ reply \in [Workers -> Output]
  BY DEF TypeInv, TypeOK
<1>2. UNCHANGED <<mpc, tasks, ppc, nextToPrint, str>>
  BY DEF WorkerStep, WorkerPop, WorkerPopWait, WorkerExit, WorkerAwait,
         WorkerBegin, WorkerEnd, WorkerThrow, WorkerBuffer, WorkerDone,
         WorkerNotify, workerFrame, mainVars, depVars, printerVars
<1>3. TakenShaped' /\ AbortKillsPrinter'
  BY <1>2, SameQueries DEF ShapeInv, TakenShaped, AbortKillsPrinter
<1>4. \A v \in Workers \ {w} :
        wpc'[v] = wpc[v] /\ cur'[v] = cur[v] /\ reply'[v] = reply[v]
  BY <1>1 DEF WorkerStep, WorkerPop, WorkerPopWait, WorkerExit, WorkerAwait,
              WorkerBegin, WorkerEnd, WorkerThrow, WorkerBuffer, WorkerDone,
              WorkerNotify, WorkerMoves, workerVars
<1>5. SUFFICES /\ wpc'[w] = "run" => DOMAIN reply'[w].first = Footprint(query(cur'[w]))
               /\ wpc'[w] = "buffer" => Shaped(query(cur'[w]), reply'[w])
               /\ BufferShaped'
  <2>1. RepliesShaped'
    BY <1>2, <1>4, <1>5 DEF ShapeInv, RepliesShaped, query
  <2> QED BY <1>3, <1>5, <2>1 DEF ShapeInv
<1>6. CASE WorkerBegin(w)
  <2>1. /\ wpc'[w] = "run" /\ cur' = cur /\ resultBuffer' = resultBuffer
        /\ reply'[w].first = ViewOf(store, query(cur[w]))
    BY <1>1, <1>6 DEF WorkerBegin, shared, Output
  <2> QED BY <1>2, <2>1, SameQueries DEF ViewOf, ShapeInv, BufferShaped
<1>7. CASE WorkerEnd(w)
  <2>1. /\ wpc[w] = "run" /\ wpc'[w] = "buffer" /\ cur' = cur
        /\ resultBuffer' = resultBuffer
        /\ \/ PrintsItself(query(cur[w])) /\ reply'[w] = NoOutput
           \/ ~PrintsItself(query(cur[w])) /\ reply'[w] = Seen(w)
    BY <1>1, <1>7 DEF WorkerEnd, WorkerMoves, shared
  <2>2. Seen(w).first = reply[w].first
        /\ Seen(w).last = ViewOf(store, query(cur[w]))
    BY <1>1 DEF Seen, Output
  <2>3. Shaped(query(cur[w]), reply'[w])
    BY <2>1, <2>2 DEF Shaped, ViewOf, ShapeInv, RepliesShaped
  <2> QED BY <1>2, <2>1, <2>3, SameQueries DEF ShapeInv, BufferShaped
<1>8. CASE WorkerBuffer(w)
  <2>1. /\ wpc[w] = "buffer" /\ wpc'[w] = "done"
        /\ resultBuffer' = Buffered(cur[w], reply[w])
    BY <1>1, <1>8 DEF WorkerBuffer, WorkerMoves
  <2>2. cur[w] \in Seqs
    BY <2>1 DEF TypeInv, PlacesOK, Holding, Ready
  <2>3. Shaped(QueryOf(cur[w]), reply[w])
    BY <2>1, <2>2 DEF QueryOf, ShapeInv, RepliesShaped
  <2>4. \A s \in DOMAIN resultBuffer' :
          \/ s = cur[w] /\ resultBuffer'[s] = reply[w]
          \/ s \in DOMAIN resultBuffer /\ resultBuffer'[s] = resultBuffer[s]
    BY <2>1 DEF Buffered
  <2> QED BY <1>2, <2>1, <2>3, <2>4, SameQueries DEF ShapeInv, BufferShaped
<1>9. CASE ~WorkerBegin(w) /\ ~WorkerEnd(w) /\ ~WorkerBuffer(w)
  <2>1. wpc'[w] \notin {"run", "buffer"} \/ UNCHANGED <<wpc, cur, reply>>
    BY <1>1, <1>9
    DEF WorkerStep, WorkerPop, WorkerPopWait, WorkerExit, WorkerAwait,
        WorkerThrow, WorkerDone, WorkerNotify, WorkerMoves, workerVars
  <2>2. resultBuffer' = resultBuffer
    BY <1>9
    DEF WorkerStep, WorkerPop, WorkerPopWait, WorkerExit, WorkerAwait,
        WorkerThrow, WorkerDone, WorkerNotify, shared
  <2> QED BY <1>2, <2>1, <2>2, SameQueries DEF ShapeInv, RepliesShaped, BufferShaped
<1> QED BY <1>6, <1>7, <1>8, <1>9

LEMMA ShapePrinter ==
  ASSUME TypeInv, ShapeInv, PrinterStep
  PROVE  ShapeInv'
<1>1. /\ UNCHANGED <<mpc, tasks, wpc, cur, reply>>
      /\ ppc \in {"check", "block", "drain", "print", "relock"}
  BY DEF PrinterStep, PrinterCheck, PrinterBlock, PrinterDrain, PrinterPrint,
         PrinterRelock, printerFrame, mainVars, workerVars, depVars
<1>2. RepliesShaped' /\ AbortKillsPrinter'
  BY <1>1 DEF ShapeInv, RepliesShaped, AbortKillsPrinter, query
<1>3. CASE PrinterDrain
  <2>1. nextToPrint' = nextToPrint
    BY <1>3 DEF PrinterDrain
  <2>2. CASE /\ ppc' = "print" /\ resultBuffer' = Unbuffered(nextToPrint)
             /\ str' = IF nextToPrint \in DOMAIN resultBuffer
                       THEN <<resultBuffer[nextToPrint]>> ELSE <<>>
    <3>1. BufferShaped'
      BY <1>1, <2>2, SameQueries DEF Unbuffered, ShapeInv, BufferShaped
    <3>2. str' # <<>> => nextToPrint \in DOMAIN resultBuffer
                         /\ str'[1] = resultBuffer[nextToPrint]
      BY <2>2
    <3> QED BY <1>1, <1>2, <2>1, <3>1, <3>2, SameQueries
            DEF ShapeInv, BufferShaped, TakenShaped
  <2>3. CASE ppc' = "check" /\ UNCHANGED <<str, resultBuffer>>
    BY <1>1, <1>2, <2>3, SameQueries DEF ShapeInv, BufferShaped, TakenShaped
  <2> QED BY <1>3, <2>2, <2>3 DEF PrinterDrain
<1>4. CASE ~PrinterDrain
  <2>1. ppc' # "print" /\ resultBuffer' = resultBuffer
    BY <1>4 DEF PrinterStep, PrinterCheck, PrinterBlock, PrinterPrint,
                PrinterRelock, shared
  <2> QED BY <1>1, <1>2, <2>1, SameQueries DEF ShapeInv, BufferShaped, TakenShaped
<1> QED BY <1>3, <1>4

LEMMA ShapeStep == CompleteInv /\ ShapeInv /\ [Next]_vars => ShapeInv'
<1> SUFFICES ASSUME CompleteInv, ShapeInv, [Next]_vars PROVE ShapeInv'
  OBVIOUS
<1>1. TypeInv
  BY CompleteTypes
<1>2. CASE \E q \in Input : MainParse(q)
  BY <1>2, ShapeParse
<1>3. CASE \A q \in Input : ~MainParse(q)
  <2>1. UNCHANGED depVars
    BY <1>3, OnlyParseSchedules
  <2>2. CASE MainRead \/ MainStep
    BY <1>1, <1>3, <2>1, <2>2, ShapeMain DEF MainRead
  <2>3. CASE SpuriousWakeup \/ UNCHANGED vars
    <3>1. UNCHANGED <<mpc, wpc, cur, reply, ppc, nextToPrint, str, resultBuffer,
                      tasks>>
      BY <2>1, <2>3 DEF SpuriousWakeup, vars, mainVars, workerVars, printerVars,
                        shared, depVars
    <3> QED BY <3>1, SameQueries
            DEF ShapeInv, RepliesShaped, BufferShaped, TakenShaped,
                AbortKillsPrinter
  <2> QED BY <1>1, <2>2, <2>3, ShapeWorker, ShapePrinter DEF Next
<1> QED BY <1>2, <1>3
-----------------------------------------------------------------------------
LEMMA TheOnly == ASSUME NEW e PROVE The({e}) = e
BY DEF The

\* A sequence with one more element.
LEMMA Extended ==
  ASSUME NEW X, NEW S \in Seq(X), NEW T \in Seq(X), Len(T) = Len(S) + 1,
         \A n \in 1 .. Len(S) : T[n] = S[n]
  PROVE  T = Append(S, T[Len(S) + 1])
<1>1. Len(S) \in Nat /\ T[Len(S) + 1] \in X
  OBVIOUS
<1>2. Append(S, T[Len(S) + 1]) \in Seq(X)
      /\ Len(Append(S, T[Len(S) + 1])) = Len(T)
  BY <1>1
<1>3. \A n \in 1 .. Len(T) : Append(S, T[Len(S) + 1])[n] = T[n]
  BY <1>1
<1> QED BY <1>2, <1>3

LEMMA StdoutTypes ==
  ASSUME TypeInv
  PROVE  /\ stdout \in Seq(StdoutLine) /\ Len(stdout) \in Nat
         /\ DOMAIN stdout = 1 .. Len(stdout)
         /\ Printed \subseteq 1 .. Len(stdout)
         /\ IsFiniteSet(Printed) /\ Cardinality(Printed) \in Nat
<1>1. stdout \in Seq(StdoutLine) /\ Len(stdout) \in Nat
      /\ DOMAIN stdout = 1 .. Len(stdout)
  BY DEF TypeInv, TypeOK
<1>2. Printed \subseteq 1 .. Len(stdout)
  BY <1>1 DEF Printed
<1>3. IsFiniteSet(1 .. Len(stdout))
  BY <1>1, FS_Interval
<1>4. IsFiniteSet(Printed) /\ Cardinality(Printed) \in Nat
  BY <1>2, <1>3, FS_Subset, FS_CardinalityType
<1> QED BY <1>1, <1>2, <1>4

\* A line of a worker leaves the transcript as it is.
LEMMA WorkerLine ==
  ASSUME TypeInv, NEW l \in StdoutLine, l.by # Printer, stdout' = Append(stdout, l)
  PROVE  transcript' = transcript
<1>1. /\ \A k \in DOMAIN stdout : k \in DOMAIN stdout' /\ stdout'[k] = stdout[k]
      /\ \A k \in DOMAIN stdout' : k \in DOMAIN stdout \/ stdout'[k] = l
  BY StdoutTypes
<1>2. Printed' = Printed
  BY <1>1 DEF Printed
<1>3. \A k \in Printed : stdout'[k] = stdout[k]
  BY <1>1 DEF Printed
<1>4. ASSUME NEW n
      PROVE  {AnswerIn(stdout'[k]) : k \in {i \in Printed : Rank(Printed, i) = n}}
               = {AnswerIn(stdout[k]) : k \in {i \in Printed : Rank(Printed, i) = n}}
  BY <1>3
<1> QED BY <1>2, <1>4 DEF transcript

\* The printer's next line extends it.
LEMMA PrinterLine ==
  ASSUME TypeInv, NEW l \in StdoutLine, l.by = Printer, stdout' = Append(stdout, l)
  PROVE  transcript' = Append(transcript, AnswerIn(l))
<1>1. PICK N : N = Len(stdout) + 1
  OBVIOUS
<1>2. PICK c : c = Cardinality(Printed)
  OBVIOUS
<1>3. /\ \A k \in DOMAIN stdout : k \in DOMAIN stdout' /\ stdout'[k] = stdout[k]
      /\ \A k \in DOMAIN stdout' : k \in DOMAIN stdout \/ k = N
      /\ N \in DOMAIN stdout' /\ stdout'[N] = l
      /\ N \in Nat /\ c \in Nat /\ \A k \in Printed : k \in Nat /\ k < N
  BY <1>1, <1>2, StdoutTypes
<1>4. Printed' = Printed \cup {N} /\ N \notin Printed
  BY <1>3 DEF Printed
<1>5. Cardinality(Printed') = c + 1
  BY <1>2, <1>4, StdoutTypes, FS_AddElement
<1>6. ASSUME NEW k \in Printed
      PROVE  Rank(Printed', k) = Rank(Printed, k) /\ Rank(Printed, k) \in 0 .. c
  <2> DEFINE D == {j \in Printed : j <= k}
  <2>1. {j \in Printed' : j <= k} = D
    BY <1>3, <1>4
  <2>2. Rank(Printed, k) = Cardinality(D) /\ Rank(Printed', k) = Cardinality(D)
    BY <2>1, Zenon DEF Rank
  <2>3. D \subseteq Printed
    OBVIOUS
  <2> HIDE DEF D
  <2>4. IsFiniteSet(D) /\ Cardinality(D) <= c
    BY <1>2, <2>3, StdoutTypes, FS_Subset
  <2>5. Cardinality(D) \in Nat
    BY <2>4, FS_CardinalityType
  <2> QED BY <1>3, <2>2, <2>4, <2>5
<1>7. Rank(Printed', N) = c + 1
  <2>1. {j \in Printed' : j <= N} = Printed'
    BY <1>3, <1>4
  <2> QED BY <1>5, <2>1 DEF Rank
<1> DEFINE Is(n) == {AnswerIn(stdout[k]) :
                        k \in {i \in Printed : Rank(Printed, i) = n}}
           Will(n) == {AnswerIn(stdout'[k]) :
                          k \in {i \in Printed' : Rank(Printed', i) = n}}
<1>8. ASSUME NEW n \in 1 .. c PROVE Will(n) = Is(n)
  <2>1. {i \in Printed' : Rank(Printed', i) = n}
          = {i \in Printed : Rank(Printed, i) = n}
    <3>1. c + 1 # n
      BY <1>3
    <3> QED BY <1>4, <1>6, <1>7, <3>1
  <2>2. \A k \in Printed : stdout'[k] = stdout[k]
    BY <1>3 DEF Printed
  <2> QED BY <2>1, <2>2
<1>9. Will(c + 1) = {AnswerIn(l)}
  <2>1. {i \in Printed' : Rank(Printed', i) = c + 1} = {N}
    <3>1. \A k \in Printed : Rank(Printed', k) # c + 1
      BY <1>3, <1>6
    <3> QED BY <1>4, <1>7, <3>1
  <2> QED BY <1>3, <2>1
<1>10. /\ transcript = [n \in 1 .. c |-> The(Is(n))]
       /\ transcript' = [n \in 1 .. c + 1 |-> The(Will(n))]
  BY <1>2, <1>5 DEF transcript
<1>11. The(Will(c + 1)) = AnswerIn(l)
  BY <1>9, TheOnly
<1> HIDE DEF Is, Will
<1>12. \A n \in 1 .. c : The(Is(n)) = The(Will(n))
  BY <1>8
<1>13. PICK f : f = [n \in 1 .. c + 1 |-> The(Will(n))]
  OBVIOUS
<1>14. PICK g : g = [n \in 1 .. c |-> The(Will(n))]
  OBVIOUS
<1>15. /\ f \in Seq({The(Will(n)) : n \in 1 .. c + 1}) /\ Len(f) = c + 1
       /\ g \in Seq({The(Will(n)) : n \in 1 .. c + 1}) /\ Len(g) = c
       /\ \A n \in 1 .. c : f[n] = g[n]
  BY <1>3, <1>13, <1>14
<1>16. f = Append(g, f[c + 1])
  BY <1>15, Extended
<1>17. transcript = g /\ transcript' = f
  BY <1>10, <1>12, <1>13, <1>14
<1>18. f[c + 1] = AnswerIn(l)
  <2>1. c + 1 \in 1 .. c + 1
    BY <1>3
  <2> QED BY <1>11, <1>13, <2>1
<1> QED BY <1>16, <1>17, <1>18

LEMMA SameLines == UNCHANGED stdout => UNCHANGED transcript
BY DEF transcript, Printed, Rank
-----------------------------------------------------------------------------
LEMMA ContentsIs ==
  ASSUME NEW n \in Nat, Len(tasks) \in Nat, n <= Len(tasks)
  PROVE  ContentsAfter(n) = [o \in Objects |-> The(LastWriters(o, n))]
<1>1. (IF n < Len(tasks) THEN n ELSE Len(tasks)) = n
  OBVIOUS
<1> QED BY <1>1 DEF ContentsAfter

\* What the first n + 1 queries leave, from what the first n leave.
LEMMA ContentsNext ==
  ASSUME Len(tasks) \in Nat, NEW n \in Nat, n < Len(tasks)
  PROVE  ContentsAfter(n + 1) = WrittenBy(ContentsAfter(n), query(n + 1), n + 1)
<1>1. /\ ContentsAfter(n) = [o \in Objects |-> The(LastWriters(o, n))]
      /\ ContentsAfter(n + 1) = [o \in Objects |-> The(LastWriters(o, n + 1))]
  BY ContentsIs
<1>2. ASSUME NEW o \in Objects, o \in Writes(query(n + 1))
      PROVE  The(LastWriters(o, n + 1)) = n + 1
  <2>1. n + 1 \in LastWriters(o, n + 1)
    BY <1>2 DEF LastWriters, LastWriterBefore
  <2>2. ASSUME NEW v \in LastWriters(o, n + 1) PROVE v = n + 1
    <3>1. v \in 0 .. n + 1 /\ \A i \in v + 1 .. n + 1 : o \notin Writes(query(i))
      BY <2>2 DEF LastWriters, LastWriterBefore
    <3> QED BY <1>2, <3>1
  <2>3. LastWriters(o, n + 1) = {n + 1}
    BY <2>1, <2>2
  <2> QED BY <2>3, TheOnly
<1>3. ASSUME NEW o \in Objects, o \notin Writes(query(n + 1))
      PROVE  LastWriters(o, n + 1) = LastWriters(o, n)
  <2>1. ASSUME NEW v \in LastWriters(o, n + 1) PROVE v \in LastWriters(o, n)
    <3>1. /\ v \in 0 .. n + 1 /\ v # n + 1
          /\ v # 0 => o \in Writes(query(v))
          /\ \A i \in v + 1 .. n + 1 : o \notin Writes(query(i))
      BY <1>3, <2>1 DEF LastWriters, LastWriterBefore
    <3> QED BY <3>1 DEF LastWriters, LastWriterBefore
  <2>2. ASSUME NEW v \in LastWriters(o, n) PROVE v \in LastWriters(o, n + 1)
    <3>1. /\ v \in 0 .. n
          /\ v # 0 => o \in Writes(query(v))
          /\ \A i \in v + 1 .. n : o \notin Writes(query(i))
      BY <2>2 DEF LastWriters, LastWriterBefore
    <3>2. \A i \in v + 1 .. n + 1 : i \in v + 1 .. n \/ i = n + 1
      BY <3>1
    <3> QED BY <1>3, <3>1, <3>2 DEF LastWriters, LastWriterBefore
  <2> QED BY <2>1, <2>2
<1> QED BY <1>1, <1>2, <1>3 DEF WrittenBy

\* Later tasks do not matter.
LEMMA ContentsStay ==
  ASSUME NEW n \in Nat, Len(tasks) \in Nat, Len(tasks') \in Nat,
         n <= Len(tasks), n <= Len(tasks'),
         \A i \in 1 .. Len(tasks) : tasks'[i] = tasks[i]
  PROVE  ContentsAfter(n)' = ContentsAfter(n)
<1>1. \A i \in 1 .. n : query(i)' = query(i)
  BY DEF query
<1>2. ASSUME NEW o, NEW v \in 0 .. n
      PROVE  LastWriterBefore(o, n + 1, v)' <=> LastWriterBefore(o, n + 1, v)
  <2>1. v # 0 => v \in 1 .. n
    OBVIOUS
  <2>2. \A i \in v + 1 .. n + 1 - 1 : i \in 1 .. n
    OBVIOUS
  <2> QED BY <1>1, <2>1, <2>2 DEF LastWriterBefore
<1>3. \A o : LastWriters(o, n)' = LastWriters(o, n)
  BY <1>2 DEF LastWriters
<1>4. /\ (IF n < Len(tasks) THEN n ELSE Len(tasks)) = n
      /\ (IF n < Len(tasks') THEN n ELSE Len(tasks')) = n
  OBVIOUS
<1> QED BY <1>3, <1>4 DEF ContentsAfter

\* A view that is serial shows them.
LEMMA SerialShows ==
  ASSUME TypeInv, NEW s \in Seqs, NEW v \in View, Tracked(query(s)),
         SerialView(tasks, s, v), DOMAIN v = Footprint(query(s))
  PROVE  v = ViewOf(ContentsAfter(s - 1), query(s))
<1>1. query(s) \in Query /\ s \in Nat /\ s # 0
  BY TaskFacts
<1>2. /\ Len(tasks) \in Nat /\ s <= Len(tasks)
  BY DEF TypeInv, TypeOK, DepTypeOK, Seqs
<1>3. s - 1 \in Nat /\ s - 1 <= Len(tasks) /\ s - 1 + 1 = s
  BY <1>1, <1>2
<1>4. PICK S \in SUBSET Objects : v \in [S -> Version]
  BY DEF View
<1>5. S = Footprint(query(s))
  BY <1>4
<1>6. ASSUME NEW o \in Footprint(query(s))
      PROVE  The(LastWriters(o, s - 1)) = v[o]
  <2>1. v[o] \in Nat /\ v[o] < s
        /\ LastWriterBefore(o, s, v[o])
    BY <1>4, <1>5, MaxQueriesAssumption
    DEF Version, SerialView, LastWriterBefore, query
  <2>2. v[o] \in LastWriters(o, s - 1)
    BY <1>1, <1>3, <2>1 DEF LastWriters
  <2>3. ASSUME NEW u \in LastWriters(o, s - 1) PROVE u = v[o]
    <3>1. u \in Nat /\ u < s /\ LastWriterBefore(o, s, u)
      BY <1>1, <1>3, <2>3 DEF LastWriters
    <3>2. ~(u < v[o])
      <4> SUFFICES ASSUME u < v[o] PROVE FALSE
        OBVIOUS
      <4>1. v[o] \in u + 1 .. s - 1
        BY <1>1, <2>1, <3>1
      <4> QED BY <2>1, <3>1, <4>1 DEF LastWriterBefore
    <3>3. ~(v[o] < u)
      <4> SUFFICES ASSUME v[o] < u PROVE FALSE
        OBVIOUS
      <4>1. u \in v[o] + 1 .. s - 1
        BY <1>1, <2>1, <3>1
      <4> QED BY <2>1, <3>1, <4>1 DEF LastWriterBefore
    <3> QED BY <2>1, <3>1, <3>2, <3>3
  <2>4. LastWriters(o, s - 1) = {v[o]}
    BY <2>2, <2>3
  <2> QED BY <2>4, TheOnly
<1>7. ContentsAfter(s - 1) = [o \in Objects |-> The(LastWriters(o, s - 1))]
  BY <1>2, <1>3, ContentsIs
<1> QED BY <1>4, <1>5, <1>6, <1>7 DEF ViewOf
-----------------------------------------------------------------------------
RefineInv == ResultInv /\ CompleteInv /\ ShapeInv

LEMMA RefineInvInit == Init => RefineInv
BY ResultInit, CompleteInit, ShapeInit DEF RefineInv

LEMMA RefineInvStep == RefineInv /\ [Next]_vars => RefineInv'
BY ResultStep, CompleteStep, ShapeStep DEF RefineInv

\* Both specifications mean the same queries.
LEMMA SameWords ==
  ASSUME NEW q
  PROVE  /\ Abstract!PrintsItself(q) = PrintsItself(q)
         /\ Abstract!QuitQuery = QuitQuery
         /\ Abstract!EmptyView = EmptyView
         /\ \A c : Abstract!ViewOf(c, q) = ViewOf(c, q)
         /\ \A c, s : Abstract!WrittenBy(c, q, s) = WrittenBy(c, q, s)
<1>1. Abstract!Footprint(q) = Footprint(q)
  BY DEF Abstract!Footprint, Footprint, Abstract!TableKinds, TableKinds,
         Abstract!Objects, Objects, Abstract!TableSet, TableSet
<1>2. Abstract!Writes(q) = Writes(q)
  BY DEF Abstract!Writes, Writes, Abstract!Objects, Objects, Abstract!TableSet,
         TableSet
<1>3. Abstract!Objects = Objects
  BY DEF Abstract!Objects, Objects, Abstract!TableSet, TableSet
<1>4. \A c : Abstract!ViewOf(c, q) = ViewOf(c, q)
  BY <1>1 DEF Abstract!ViewOf, ViewOf
<1>5. \A c, s : Abstract!WrittenBy(c, q, s) = WrittenBy(c, q, s)
  BY <1>2, <1>3 DEF Abstract!WrittenBy, WrittenBy
<1> QED BY <1>4, <1>5 DEF Abstract!PrintsItself, PrintsItself, Abstract!QuitQuery,
               QuitQuery, Abstract!EmptyView, EmptyView

LEMMA InitRefines == Init => Abstract!Init
<1> SUFFICES ASSUME Init PROVE Abstract!Init
  OBVIOUS
<1>1. tasks = <<>> /\ Len(tasks) = 0 /\ quitSeq = 0 /\ nextToPrint = 1
      /\ stdout = <<>> /\ Seqs = {}
  BY DEF Init, DepInit, Seqs
<1>2. asked = <<>> /\ answered = 0
  BY <1>1 DEF asked, answered
<1>3. transcript = <<>>
  <2>1. Printed = {}
    BY <1>1 DEF Printed
  <2>2. Cardinality(Printed) = 0
    BY <2>1, FS_EmptySet
  <2> QED BY <2>2 DEF transcript
<1>4. ContentsAfter(answered) = [o \in Objects |-> 0]
  <2>1. ContentsAfter(0) = [o \in Objects |-> The(LastWriters(o, 0))]
    BY <1>1, ContentsIs
  <2>2. ASSUME NEW o PROVE LastWriters(o, 0) = {0}
    <3>1. LastWriterBefore(o, 1, 0)
      BY DEF LastWriterBefore
    <3>2. 0 .. 0 = {0} /\ 0 + 1 = 1
      OBVIOUS
    <3> QED BY <3>1, <3>2 DEF LastWriters
  <2> QED BY <1>2, <2>1, <2>2, TheOnly
<1>5. Abstract!Objects = Objects
  BY DEF Abstract!Objects, Objects, Abstract!TableSet, TableSet
<1> QED BY <1>2, <1>3, <1>4, <1>5 DEF Abstract!Init

\* What the printer has passed has been asked, and is in the transcript or lost.
LEMMA AnsweredFacts ==
  ASSUME TypeInv, PassedDone
  PROVE  /\ answered \in Nat /\ Len(tasks) \in Nat /\ Seqs = 1 .. Len(tasks)
         /\ quitSeq \in {0, Len(tasks) + 1}
         /\ asked = [s \in 1 .. IF quitSeq = 0 THEN Len(tasks) ELSE quitSeq |->
                       QueryOf(s)]
         /\ Len(asked) = IF quitSeq = 0 THEN Len(tasks) ELSE quitSeq
         /\ answered <= Len(asked)
         /\ ppc = "print" => answered < Len(asked)
<1>1. /\ Len(tasks) \in Nat /\ Seqs = 1 .. Len(tasks)
      /\ quitSeq \in {0, Len(tasks) + 1} /\ nextToPrint \in Nat \ {0}
      /\ doneSeqs \subseteq Seqs \cup {quitSeq}
  BY DEF TypeInv, TypeOK, DepTypeOK, PlacesOK, Seqs
<1>2. answered \in Nat /\ nextToPrint = answered + 1
  BY <1>1 DEF answered
<1>3. asked = [s \in 1 .. IF quitSeq = 0 THEN Len(tasks) ELSE quitSeq |-> QueryOf(s)]
  <2>1. CASE quitSeq = 0
    BY <1>1, <2>1 DEF asked, QueryOf
  <2>2. CASE quitSeq = Len(tasks) + 1
    <3> DEFINE queries == [s \in Seqs |-> query(s)]
               all == [s \in 1 .. Len(tasks) + 1 |-> QueryOf(s)]
    <3>1. \A s \in Seqs : query(s) \in Query
      BY TaskFacts
    <3>2. queries \in Seq(Query \cup {QuitQuery}) /\ Len(queries) = Len(tasks)
      BY <1>1, <3>1
    <3>3. /\ all \in Seq(Query \cup {QuitQuery}) /\ Len(all) = Len(tasks) + 1
          /\ \A s \in 1 .. Len(tasks) : all[s] = queries[s]
          /\ all[Len(tasks) + 1] = QuitQuery
      BY <1>1, <3>1 DEF QueryOf
    <3>4. asked = Append(queries, QuitQuery)
      BY <1>1, <2>2 DEF asked
    <3> HIDE DEF queries, all
    <3>5. all = Append(queries, all[Len(queries) + 1])
      BY <3>2, <3>3, Extended
    <3>6. asked = all
      BY <3>2, <3>3, <3>4, <3>5
    <3>7. (IF quitSeq = 0 THEN Len(tasks) ELSE quitSeq) = Len(tasks) + 1
      BY <1>1, <2>2
    <3> QED BY <3>6, <3>7 DEF all
  <2> QED BY <1>1, <2>1, <2>2
<1>4. Len(asked) = IF quitSeq = 0 THEN Len(tasks) ELSE quitSeq
  BY <1>1, <1>3
<1>5. \A s \in doneSeqs : s # 0 => s <= Len(asked)
  BY <1>1, <1>4
<1>6. answered <= Len(asked)
  <2>1. CASE answered = 0
    BY <1>1, <1>4, <2>1
  <2>2. CASE answered # 0
    BY <1>2, <1>5, <2>2 DEF PassedDone
  <2> QED BY <2>1, <2>2
<1>7. ppc = "print" => answered < Len(asked)
  <2> SUFFICES ASSUME ppc = "print" PROVE answered < Len(asked)
    OBVIOUS
  <2>1. answered + 1 <= Len(asked)
    BY <1>2, <1>5 DEF PassedDone
  <2> QED BY <1>1, <1>2, <1>4, <2>1
<1> QED BY <1>1, <1>2, <1>3, <1>4, <1>6, <1>7

LEMMA ParseRefines ==
  ASSUME RefineInv, RefineInv', NEW q \in Input, MainParse(q)
  PROVE  Abstract!Next
<1>1. TypeInv /\ TypeInv' /\ PassedDone /\ PassedDone'
  BY CompleteTypes, ResultTypes DEF RefineInv, CompleteInv, DrainInv, ResultInv,
     StoreInv, PlaceInv, OrderInv
<1>2. quitSeq = 0 /\ quitSeq' = 0
  BY <1>1 DEF MainParse, TypeInv, PlacesOK, Reading
<1>3. /\ Len(tasks) \in Nat /\ Len(tasks') = Len(tasks) + 1
      /\ \A i \in Seqs : tasks'[i] = tasks[i]
      /\ tasks'[Len(tasks) + 1].query = q
      /\ tasks \in Seq(Task) /\ tasks' \in Seq(Task) /\ Seqs = 1 .. Len(tasks)
      /\ Seqs' = 1 .. Len(tasks')
  <2>1. /\ Len(tasks) \in Nat /\ Len(tasks') = Len(tasks) + 1
        /\ \A i \in Seqs : tasks'[i] = tasks[i]
    BY <1>1, ScheduleAppends, InputAssumption DEF MainParse, TypeInv, TypeOK
  <2>2. tasks \in Seq(Task) /\ tasks' \in Seq(Task)
    BY <1>1 DEF TypeInv, TypeOK, DepTypeOK
  <2>3. tasks' = Append(tasks, [query |-> q, waitAll |-> computeDependencies(q)])
    BY DEF MainParse, Schedule
  <2> QED BY <2>1, <2>2, <2>3 DEF Seqs
<1>4. UNCHANGED <<answered, transcript>>
  BY SameLines DEF MainParse, printerVars, world, answered
<1>5. asked' = Append(asked, q)
  <2>1. /\ asked = [s \in 1 .. Len(tasks) |-> tasks[s].query]
        /\ asked' = [s \in 1 .. Len(tasks) + 1 |-> tasks'[s].query]
    BY <1>2, <1>3 DEF asked, query
  <2>2. /\ asked \in Seq(Query) /\ Len(asked) = Len(tasks)
        /\ asked' \in Seq(Query) /\ Len(asked') = Len(tasks) + 1
        /\ \A s \in 1 .. Len(tasks) : asked'[s] = asked[s]
        /\ asked'[Len(tasks) + 1] = q
    <3>1. /\ \A s \in 1 .. Len(tasks) : tasks[s].query \in Query
          /\ \A s \in 1 .. Len(tasks) + 1 : tasks'[s].query \in Query
      <4>1. \A t \in Task : t.query \in Query
        BY DEF Task
      <4>2. /\ \A s \in 1 .. Len(tasks) : tasks[s] \in Task
            /\ \A s \in 1 .. Len(tasks) + 1 : tasks'[s] \in Task
        BY <1>3
      <4> QED BY <4>1, <4>2
    <3>2. asked \in Seq(Query) /\ Len(asked) = Len(tasks)
      BY <1>3, <2>1, <3>1
    <3>3. asked' \in Seq(Query) /\ Len(asked') = Len(tasks) + 1
      BY <1>3, <2>1, <3>1
    <3>4. \A s \in 1 .. Len(tasks) : s \in 1 .. Len(tasks) + 1
      BY <1>3
    <3>5. \A s \in 1 .. Len(tasks) : asked'[s] = asked[s]
      BY <1>3, <2>1, <3>4
    <3> QED BY <1>3, <2>1, <3>2, <3>3, <3>5
  <2> QED BY <2>2, Extended
<1>6. ContentsAfter(answered)' = ContentsAfter(answered)
  <2>1. answered \in Nat /\ answered <= Len(tasks)
    BY <1>1, <1>2, AnsweredFacts
  <2>2. PICK n \in Nat : n = answered
    BY <2>1
  <2>3. ContentsAfter(n)' = ContentsAfter(n)
    BY <1>3, <2>1, <2>2, ContentsStay
  <2> QED BY <1>4, <2>2, <2>3
<1> QED BY <1>4, <1>5, <1>6 DEF Abstract!Next, Abstract!Ask

LEMMA QuitRefines ==
  ASSUME RefineInv, MainQuit
  PROVE  Abstract!Next
<1>1. TypeInv
  BY CompleteTypes DEF RefineInv
<1>2. quitSeq = 0 /\ quitSeq' # 0 /\ UNCHANGED tasks
  BY <1>1 DEF MainQuit, MainMoves, TypeInv, TypeOK, DepTypeOK, PlacesOK, Reading,
              depVars
<1>3. UNCHANGED <<answered, transcript>>
  BY SameLines DEF MainQuit, printerVars, world, answered
<1>4. asked' = Append(asked, QuitQuery)
  BY <1>2 DEF asked, query, Seqs
<1>5. ContentsAfter(answered)' = ContentsAfter(answered)
  BY <1>2, <1>3 DEF ContentsAfter, LastWriters, LastWriterBefore, query
<1>6. Abstract!QuitQuery = QuitQuery
  BY SameWords
<1> QED BY <1>3, <1>4, <1>5, <1>6 DEF Abstract!Next, Abstract!Ask

\* Whatever neither asks nor prints is not seen from outside.
LEMMA Unseen ==
  ASSUME UNCHANGED <<tasks, quitSeq, nextToPrint>>, UNCHANGED transcript
  PROVE  UNCHANGED Abstract!serialVars
<1>1. asked' = asked /\ answered' = answered
  BY DEF asked, answered, query, Seqs
<1>2. ContentsAfter(answered)' = ContentsAfter(answered)
  BY <1>1 DEF ContentsAfter, LastWriters, LastWriterBefore, query
<1> QED BY <1>1, <1>2 DEF Abstract!serialVars

LEMMA WorkerUnseen ==
  ASSUME RefineInv, NEW w \in Workers, WorkerStep(w) \/ WorkerThrow(w)
  PROVE  UNCHANGED Abstract!serialVars
<1>1. TypeInv
  BY CompleteTypes DEF RefineInv
<1>2. UNCHANGED <<tasks, quitSeq, nextToPrint>>
  BY DEF WorkerStep, WorkerPop, WorkerPopWait, WorkerExit, WorkerAwait,
         WorkerBegin, WorkerEnd, WorkerThrow, WorkerBuffer, WorkerDone,
         WorkerNotify, workerFrame, mainVars, depVars, printerVars
<1>3. CASE stdout' = stdout
  BY <1>2, <1>3, SameLines, Unseen
<1>4. CASE WorkerEnd(w) /\ stdout' = Append(stdout, Line(w, cur[w], Seen(w)))
  <2>1. cur[w] \in Nat
    BY <1>1 DEF TypeInv, TypeOK
  <2>2. Seen(w) \in Output
    <3>1. query(cur[w]) \in Query
      <4>1. cur[w] \in Seqs
        BY <1>1, <1>4 DEF WorkerEnd, WorkerMoves, TypeInv, PlacesOK, Holding, Ready
      <4> QED BY <1>1, <4>1, TaskFacts
    <3>2. reply[w] \in Output /\ store \in [Objects -> Version]
      BY <1>1 DEF TypeInv, TypeOK
    <3> QED BY <3>1, <3>2, ViewTypes DEF Seen, Output
  <2>3. Line(w, cur[w], Seen(w)) \in StdoutLine
    BY <2>1, <2>2 DEF Line, StdoutLine, Output
  <2>4. Line(w, cur[w], Seen(w)).by # Printer
    BY PrinterAssumption DEF Line
  <2> QED BY <1>1, <1>2, <1>4, <2>3, <2>4, WorkerLine, Unseen
<1> QED BY <1>3, <1>4
        DEF WorkerStep, WorkerPop, WorkerPopWait, WorkerExit, WorkerAwait,
            WorkerBegin, WorkerEnd, WorkerThrow, WorkerBuffer, WorkerDone,
            WorkerNotify, world

\* What the printer prints is what the serial database says.
LEMMA TakenIsReply ==
  ASSUME RefineInv, ppc = "print", str # <<>>
  PROVE  /\ str[1] \in Output
         /\ str[1].first = Abstract!Reply(QueryOf(answered + 1), ContentsAfter(answered))
         /\ str[1].last = Abstract!Reply(QueryOf(answered + 1), ContentsAfter(answered))
<1>1. TypeInv /\ nextToPrint = answered + 1 /\ answered = nextToPrint - 1
  <2>1. TypeInv
    BY CompleteTypes DEF RefineInv
  <2> QED BY <2>1 DEF TypeInv, TypeOK, answered
<1>2. str[1] \in Output /\ str[1].first \in View /\ str[1].last \in View
  <2>1. str \in Seq(Output)
    BY <1>1 DEF TypeInv, TypeOK
  <2>2. str[1] \in Output
    BY <2>1
  <2> QED BY <2>2 DEF Output
<1>3. Shaped(QueryOf(nextToPrint), str[1])
  BY DEF RefineInv, ShapeInv, TakenShaped
<1>4. \A q : Abstract!Reply(q, ContentsAfter(answered))
               = IF PrintsItself(q) THEN EmptyView ELSE ViewOf(ContentsAfter(answered), q)
  BY SameWords DEF Abstract!Reply
<1>5. CASE PrintsItself(QueryOf(nextToPrint))
  BY <1>1, <1>2, <1>3, <1>4, <1>5 DEF Shaped, NoOutput
<1>6. CASE ~PrintsItself(QueryOf(nextToPrint)) /\ nextToPrint \in Seqs
  <2>1. /\ QueryOf(nextToPrint) = query(nextToPrint)
        /\ Tracked(query(nextToPrint))
    BY <1>6 DEF QueryOf, Tracked, PrintsItself
  <2>2. /\ SerialView(tasks, nextToPrint, str[1].first)
        /\ SerialView(tasks, nextToPrint, str[1].last)
    BY <1>6 DEF RefineInv, ResultInv, TakenSerial, SerialOutput
  <2>3. /\ DOMAIN str[1].first = Footprint(query(nextToPrint))
        /\ DOMAIN str[1].last = Footprint(query(nextToPrint))
    BY <1>3, <1>6, <2>1 DEF Shaped
  <2>4. /\ str[1].first = ViewOf(ContentsAfter(nextToPrint - 1), query(nextToPrint))
        /\ str[1].last = ViewOf(ContentsAfter(nextToPrint - 1), query(nextToPrint))
    BY <1>1, <1>2, <1>6, <2>1, <2>2, <2>3, SerialShows
  <2> QED BY <1>1, <1>2, <1>4, <1>6, <2>1, <2>4
<1>7. CASE nextToPrint \notin Seqs
  <2>1. QueryOf(nextToPrint) = QuitQuery /\ Footprint(QuitQuery) = {}
        /\ ~PrintsItself(QuitQuery)
    BY <1>7 DEF QueryOf, QuitQuery, Footprint, PrintsItself, TableKinds
  <2>2. DOMAIN str[1].first = {} /\ DOMAIN str[1].last = {}
    BY <1>3, <2>1 DEF Shaped
  <2>3. ASSUME NEW v \in View, DOMAIN v = {}
        PROVE  v = ViewOf(ContentsAfter(answered), QuitQuery)
    <3>1. PICK S \in SUBSET Objects : v \in [S -> Version]
      BY DEF View
    <3> QED BY <2>1, <2>3, <3>1 DEF ViewOf
  <2> QED BY <1>1, <1>2, <1>4, <2>1, <2>2, <2>3
<1> QED BY <1>5, <1>6, <1>7

LEMMA PrintRefines ==
  ASSUME RefineInv, PrinterPrint
  PROVE  Abstract!Next
<1>1. /\ TypeInv /\ PassedDone /\ BufferAhead /\ ppc = "print"
      /\ UNCHANGED <<tasks, quitSeq>>
      /\ nextToPrint' = nextToPrint + 1
  BY CompleteTypes DEF RefineInv, CompleteInv, DrainInv, PrinterPrint, printerFrame,
     depVars, mainVars
<1>2. /\ answered \in Nat /\ Len(tasks) \in Nat /\ Seqs = 1 .. Len(tasks)
      /\ quitSeq \in {0, Len(tasks) + 1}
      /\ answered < Len(asked)
      /\ Len(asked) = IF quitSeq = 0 THEN Len(tasks) ELSE quitSeq
      /\ asked[answered + 1] = QueryOf(answered + 1)
  BY <1>1, AnsweredFacts
<1>3. /\ nextToPrint \in Nat /\ nextToPrint = answered + 1
      /\ answered' = answered + 1
  <2>1. nextToPrint \in Nat \ {0}
    BY <1>1 DEF TypeInv, TypeOK
  <2> QED BY <1>1, <2>1 DEF answered
<1>4. asked' = asked
  BY <1>1 DEF asked, query, Seqs
<1>5. ContentsAfter(answered)'
        = WrittenBy(ContentsAfter(answered), asked[answered + 1], answered + 1)
  <2>1. ContentsAfter(answered)' = ContentsAfter(answered + 1)
    BY <1>1, <1>3 DEF ContentsAfter, LastWriters, LastWriterBefore, query
  <2>2. CASE answered < Len(tasks)
    <3>1. QueryOf(answered + 1) = query(answered + 1)
      BY <1>2, <2>2 DEF QueryOf
    <3> QED BY <1>2, <2>1, <2>2, <3>1, ContentsNext
  <2>3. CASE ~(answered < Len(tasks))
    <3>1. QueryOf(answered + 1) = QuitQuery /\ Writes(QuitQuery) = {}
      BY <1>2, <2>3 DEF QueryOf, QuitQuery, Writes
    <3>2. /\ (IF answered < Len(tasks) THEN answered ELSE Len(tasks)) = Len(tasks)
          /\ (IF answered + 1 < Len(tasks) THEN answered + 1 ELSE Len(tasks))
               = Len(tasks)
      BY <1>2, <2>3
    <3>3. PICK c : c = [o \in Objects |-> The(LastWriters(o, Len(tasks)))]
      OBVIOUS
    <3>4. ContentsAfter(answered) = c /\ ContentsAfter(answered + 1) = c
      BY <3>2, <3>3 DEF ContentsAfter
    <3>5. WrittenBy(c, QuitQuery, answered + 1) = c
      BY <3>1, <3>3 DEF WrittenBy
    <3> QED BY <1>2, <2>1, <3>1, <3>4, <3>5
  <2> QED BY <2>2, <2>3
<1>6. Abstract!Execute
  <2>1. Abstract!WrittenBy(ContentsAfter(answered), asked[answered'], answered')
          = ContentsAfter(answered)'
    BY <1>3, <1>5, SameWords
  <2> QED BY <1>2, <1>3, <1>4, <2>1 DEF Abstract!Execute
<1>7. CASE str # <<>>
  <2>1. PICK l : l = Line(Printer, nextToPrint, str[1])
    OBVIOUS
  <2>2. l \in StdoutLine /\ l.by = Printer /\ stdout' = Append(stdout, l)
    BY <1>1, <1>3, <1>7, <2>1, TakenIsReply
    DEF PrinterPrint, Line, StdoutLine, Output
  <2>3. transcript' = Append(transcript, AnswerIn(l))
    BY <1>1, <2>2, PrinterLine
  <2>4. AnswerIn(l) = [seq |-> answered', first |-> str[1].first, last |-> str[1].last]
    BY <1>3, <2>1 DEF AnswerIn, Line
  <2>5. /\ str[1].first = Abstract!Reply(asked[answered'], ContentsAfter(answered))
        /\ str[1].last = Abstract!Reply(asked[answered'], ContentsAfter(answered))
    BY <1>1, <1>2, <1>3, <1>7, TakenIsReply
  <2>6. Abstract!Answer
    BY <1>6, <2>3, <2>4, <2>5 DEF Abstract!Answer
  <2> QED BY <2>6 DEF Abstract!Next
<1>8. CASE str = <<>>
  <2>1. UNCHANGED transcript
    BY <1>8, SameLines DEF PrinterPrint
  <2>2. mpc # "aborted" /\ FewLost
    BY <1>1 DEF RefineInv, ShapeInv, AbortKillsPrinter, CompleteInv, LostFew
  <2>3. 1 .. answered + 1 \subseteq Lost \cup PrintedSeqs
    <3>1. 1 .. answered + 1 \subseteq doneSeqs
      BY <1>1, <1>2, <1>3 DEF PassedDone
    <3>2. ASSUME NEW s \in 1 .. answered + 1, s \in Answered
          PROVE  s \in PrintedSeqs
      <4>1. s \notin DOMAIN resultBuffer
        BY <1>1, <1>2, <1>3 DEF BufferAhead
      <4>2. Taken = {}
        BY <1>8 DEF Taken
      <4> QED BY <3>2, <4>1, <4>2 DEF Answered
    <3> QED BY <3>1, <3>2 DEF Lost, Finished
  <2>4. /\ Cardinality(Printed) + faults >= answered + 1
        /\ Cardinality(Printed) \in Nat
    BY <1>1, <1>2, <2>2, <2>3, FewUnprinted
  <2>5. faults \in Nat /\ faults <= MaxFaults
    BY <1>1, MaxFaultsAssumption DEF TypeInv, TypeOK
  <2>6. Len(transcript) = Cardinality(Printed)
    BY <2>4 DEF transcript
  <2>7. answered - Len(transcript) < MaxFaults
    BY <1>2, <2>4, <2>5, <2>6, MaxFaultsAssumption
  <2>8. Abstract!Throw
    BY <1>6, <2>1, <2>7 DEF Abstract!Throw
  <2> QED BY <2>8 DEF Abstract!Next
<1> QED BY <1>7, <1>8

LEMMA StepRefines ==
  ASSUME RefineInv, RefineInv', [Next]_vars
  PROVE  [Abstract!Next]_(Abstract!serialVars)
<1>1. CASE MainRead
  <2>1. CASE MainEndOfInput \/ MainParseError
    <3>1. UNCHANGED <<tasks, quitSeq, nextToPrint, stdout>>
      BY <2>1 DEF MainEndOfInput, MainParseError, mainFrame, depVars, printerVars,
                  world
    <3> QED BY <3>1, SameLines, Unseen
  <2> QED BY <1>1, <2>1, ParseRefines, QuitRefines DEF MainRead
<1>2. CASE MainStep
  <2>1. UNCHANGED <<tasks, quitSeq, nextToPrint, stdout>>
    BY <1>2
    DEF MainStep, MainTerminate, MainBarrier, MainNotify, MainPush, MainNotifyOne,
        MainClose, MainCloseNotify, MainJoinAll, MainQuitBuffer, MainQuitDone,
        MainFlushStore, MainFinalStore, MainFinalNotify, MainJoinPrinter,
        mainFrame, depVars, printerVars, world
  <2> QED BY <2>1, SameLines, Unseen
<1>3. CASE \E w \in Workers : WorkerStep(w) \/ WorkerThrow(w)
  BY <1>3, WorkerUnseen
<1>4. CASE PrinterStep
  <2>1. CASE ~PrinterPrint
    <3>1. UNCHANGED <<tasks, quitSeq, nextToPrint, stdout>>
      BY <1>4, <2>1
      DEF PrinterStep, PrinterCheck, PrinterBlock, PrinterDrain, PrinterRelock,
          printerFrame, depVars, mainVars
    <3> QED BY <3>1, SameLines, Unseen
  <2> QED BY <2>1, PrintRefines
<1>5. CASE SpuriousWakeup \/ UNCHANGED vars
  <2>1. UNCHANGED <<tasks, quitSeq, nextToPrint, stdout>>
    BY <1>5 DEF SpuriousWakeup, vars, depVars, mainVars, printerVars, world
  <2> QED BY <2>1, SameLines, Unseen
<1> QED BY <1>1, <1>2, <1>3, <1>4, <1>5 DEF Next

\* Whoever reads what the printer prints cannot tell LemonDB from a database that
\* runs one query at a time: QueryScheduler::execute implements SerialDatabase,
\* for any workers, any input and any number of faults.
THEOREM ImplementsSerialDatabase == Spec => RefinesSerialDatabase
<1>1. RefineInv /\ RefineInv' /\ [Next]_vars => [Abstract!Next]_(Abstract!serialVars)
  BY StepRefines
<1> QED BY RefineInvInit, RefineInvStep, InitRefines, <1>1, PTL
        DEF Spec, RefinesSerialDatabase, Abstract!Spec
================================================================================
