-------------------------- MODULE Coursework_proofs --------------------------
(***************************************************************************)
(* Proofs about the lottery scheduler, for any pids, nice values, number   *)
(* of CPUs, size of the map, and any number of births and troubles, and    *)
(* about three of the exercises: the dice driver for any number of         *)
(* readers, any numbers of dice and a buffer of any length, the counters   *)
(* for any number of processes that count any number of times, and the     *)
(* sorts for lists of any length.                                          *)
(***************************************************************************)
EXTENDS Lottery, Dice, Counters, SortedLists, SetRecursion

LEMMA MapRoom ==
  ASSUME NEW map \in SUBSET (Pids \cup {0}), Cardinality(map) <= MapSize,
         NEW pid \in Pids \cup {0}
  PROVE  /\ Updated(map, pid) \in SUBSET (Pids \cup {0})
         /\ map \subseteq Updated(map, pid)
         /\ Cardinality(Updated(map, pid)) <= MapSize
<1>1. IsFiniteSet(map) /\ Cardinality(map) \in Nat
  <2>1. IsFiniteSet(Pids \cup {0})
    BY FS_AddElement, LotteryAssumption
  <2> QED BY <2>1, FS_Subset, FS_CardinalityType
<1>2. Cardinality(map \cup {pid}) <= Cardinality(map) + 1
  BY <1>1, FS_AddElement
<1>3. CASE Cardinality(map) < MapSize
  <2>1. Updated(map, pid) = map \cup {pid}
    BY <1>3 DEF Updated
  <2>2. Cardinality(map \cup {pid}) \in Nat
    BY <1>1, FS_AddElement, FS_CardinalityType
  <2>3. Cardinality(map \cup {pid}) <= MapSize
    BY <1>1, <1>2, <1>3, <2>2, LotteryAssumption
  <2> QED BY <2>1, <2>3
<1>4. CASE ~(Cardinality(map) < MapSize)
  BY <1>4 DEF Updated
<1> QED BY <1>3, <1>4

\* The walk over the tickets ends at a candidate that is alive, or nowhere.
LEMMA PickedAmong ==
  ASSUME NEW c, NEW pids \in Orders(c), NEW r
  PROVE  picked(pids, r) \in (c \cap alive) \cup {0}
<1> DEFINE reached == {k \in DOMAIN pids : r <= Tickets(pids, k)}
<1>1. pids \in [1..Cardinality(c \cap alive) -> c \cap alive]
  BY DEF Orders, SetToSeqs
<1>2. reached \in SUBSET Nat /\ reached \subseteq DOMAIN pids
  BY <1>1
<1>3. ASSUME reached # {} PROVE picked(pids, r) \in c \cap alive
  <2> HIDE DEF reached
  <2>1. (CHOOSE k \in reached : \A n \in reached : k <= n) \in reached
    BY <1>2, <1>3, LeastNat
  <2>2. pids[CHOOSE k \in reached : \A n \in reached : k <= n] \in c \cap alive
    BY <1>1, <1>2, <2>1
  <2> QED BY <1>3, <2>2 DEF picked, reached
<1> QED BY <1>3 DEF picked

LEMMA Places ==
  /\ {0} \in SUBSET CPUs /\ {1 % NCpu} \in SUBSET CPUs /\ CPUs \in SUBSET CPUs
  /\ NCpu > 1 => 0 \notin {1 % NCpu}
BY LotteryAssumption DEF CPUs

\* What a taskset does to a process, if it does anything.
LEMMA SetAffinity ==
  ASSUME LotteryTypeOK, NEW p \in Pids, NEW cpus \in SUBSET CPUs
  PROVE  /\ set_affinity(p, cpus) \in [Pids -> SUBSET CPUs]
         /\ \A q \in Pids \ {p} : set_affinity(p, cpus)[q] = aff[q]
         /\ CanBePut(p, cpus) => set_affinity(p, cpus)[p] = cpus \cap allowed[p]
<1>1. cpus \cap allowed[p] \in SUBSET CPUs
  OBVIOUS
<1> QED BY <1>1 DEF LotteryTypeOK, set_affinity

\* The inductive invariant.  A round begins without a winner; what was pinned
\* is in the map, and at the end still to be cleared or left out; the candidates
\* of a round that did not fall back are the user's; those that set_forced_run has
\* dealt with are where they belong.
NoWinnerYet == pc \in {"dump", "filter", "draw"} => winner = 0
ForcedAreSeen == forced \subseteq runnable
StillToClear == pc = "clear" => forced \subseteq todo \cup skipped
OwnCandidates ==
  pc \in {"draw", "force"} /\ ~fellBack =>
    \A p \in (cand \cap alive) \ reused : owner[p] = "user"
Placed ==
  pc \in {"force", "clean"} /\ winner # 0 /\ NCpu > 1 =>
    \A p \in (alive \cap cand) \ (reused \cup skipped) :
      \/ pc = "force" /\ p \in todo
      \/ CanBePut(p, placeOf(p)) => (p = winner <=> 0 \in aff[p])
LotteryInv ==
  /\ LotteryTypeOK /\ NoWinnerYet /\ ForcedAreSeen /\ StillToClear
  /\ ExitRestores /\ OwnCandidates /\ Placed

LEMMA LotteryInvInit == Init => LotteryInv
<1> SUFFICES ASSUME Init PROVE LotteryInv
  OBVIOUS
<1>1. Cardinality({}) = 0
  BY FS_EmptySet
<1>2. allowed \in [Pids -> Masks] /\ aff \in [Pids -> SUBSET CPUs]
  BY LotteryAssumption DEF Init
<1>3. Cardinality(runnable) <= MapSize /\ clean_counter \in 0..CleanEvery
  BY <1>1, LotteryAssumption DEF Init
<1>4. LotteryTypeOK
  BY <1>2, <1>3 DEF Init, LotteryTypeOK
<1> QED
  BY <1>4 DEF Init, LotteryInv, NoWinnerYet, ForcedAreSeen, StillToClear,
              ExitRestores, OwnCandidates, Placed

LEMMA CountedInRange ==
  ASSUME LotteryTypeOK
  PROVE  Counted \in 0..CleanEvery /\ 0 \in 0..CleanEvery
BY LotteryAssumption DEF LotteryTypeOK, Counted

LEMMA LotteryTypeStep == LotteryInv /\ [Next]_vars => LotteryTypeOK'
<1> SUFFICES ASSUME LotteryInv, [Next]_vars PROVE LotteryTypeOK'
  OBVIOUS
<1> USE LotteryAssumption DEF LotteryInv, LotteryTypeOK
<1>1. ASSUME NEW p \in Pids, Born(p) PROVE LotteryTypeOK'
  <2>1. allowed' \in [Pids -> Masks] /\ aff' \in [Pids -> SUBSET CPUs]
    BY <1>1 DEF Born
  <2>2. owner' \in [Pids -> {"user", "other"}]
    BY <1>1 DEF Born
  <2> QED BY <1>1, <2>1, <2>2 DEF Born, lotteryVars
<1>2. ASSUME NEW p \in Pids, Dies(p) PROVE LotteryTypeOK'
  BY <1>2 DEF Dies, lotteryVars
<1>3. ASSUME NEW prev \in alive \cup {0}, NEW next \in alive \cup {0},
             trace_sched_switch(prev, next)
      PROVE LotteryTypeOK'
  <2>1. /\ Updated(runnable, prev) \in SUBSET (Pids \cup {0})
        /\ runnable \subseteq Updated(runnable, prev)
        /\ Cardinality(Updated(runnable, prev)) <= MapSize
    BY MapRoom
  <2>2. /\ runnable' \in SUBSET (Pids \cup {0})
        /\ runnable \subseteq runnable'
        /\ Cardinality(runnable') <= MapSize
    BY <1>3, <2>1, MapRoom DEF trace_sched_switch
  <2> QED BY <1>3, <2>2 DEF trace_sched_switch, lotteryVars, processVars
<1>4. CASE Dump
  <2>1. clean_counter' \in 0..CleanEvery
    BY <1>4, CountedInRange DEF Dump
  <2>2. cand' \subseteq runnable \ {0} /\ winner = 0 /\ reused' \subseteq Pids
    BY <1>4 DEF Dump, NoWinnerYet
  <2>3. pc' \in {"filter", "sleep"}
    BY <1>4 DEF Dump
  <2> QED BY <1>4, <2>1, <2>2, <2>3 DEF Dump
<1>5. CASE Filter
  BY <1>5 DEF Filter, candidates, Visible, NoWinnerYet
<1>6. CASE Draw
  <2>1. winner' \in cand \cup {0}
    <3>1. PICK pids \in Orders(cand) :
            LET total == Tickets(pids, Len(pids))
            IN  winner' \in IF total = 0 THEN {0}
                            ELSE {picked(pids, r) : r \in 1..total}
      BY <1>6 DEF Draw
    <3> QED BY <3>1, PickedAmong
  <2> QED BY <1>6, <2>1 DEF Draw, processVars
<1>7. ASSUME NEW p \in Pids, PinOne(p) PROVE LotteryTypeOK'
  <2>1. placeOf(p) \in SUBSET CPUs
    BY Places DEF placeOf
  <2>2. aff' \in [Pids -> SUBSET CPUs]
    BY <1>7, <2>1, SetAffinity DEF PinOne
  <2>3. forced' \subseteq alive
    BY <1>7 DEF PinOne
  <2>4. todo' \subseteq todo
    BY <1>7 DEF PinOne
  <2> QED BY <1>7, <2>2, <2>3, <2>4 DEF PinOne
<1>8. CASE ForceEnds
  BY <1>8 DEF ForceEnds, processVars
<1>9. CASE Clean
  <2>1. clean_counter' \in 0..CleanEvery
    BY <1>9, CountedInRange DEF Clean
  <2>2. runnable' = runnable
    BY <1>9 DEF Clean, deletedKeys
  <2> QED BY <1>9, <2>1, <2>2 DEF Clean, processVars
<1>10. CASE Sleep
  BY <1>10 DEF Sleep
<1>11. CASE Interrupt
  BY <1>11 DEF Interrupt, processVars, Trouble
<1>12. CASE SwallowedInForce
  BY <1>12 DEF SwallowedInForce, processVars, Trouble
<1>13. CASE SwallowedInClean
  BY <1>13 DEF SwallowedInClean, processVars, Trouble
<1>14. CASE Exit
  BY <1>14 DEF Exit, keysAtExit, processVars, Trouble
<1>15. ASSUME NEW p \in Pids \cup {0}, ClearAffinity(p) PROVE LotteryTypeOK'
  <2>1. aff' \in [Pids -> SUBSET CPUs]
    <3>1. CASE p \in alive
      BY <1>15, <3>1, Places, SetAffinity DEF ClearAffinity
    <3>2. CASE p \notin alive
      BY <1>15, <3>2 DEF ClearAffinity
    <3> QED BY <3>1, <3>2
  <2> QED BY <1>15, <2>1 DEF ClearAffinity
<1>16. CASE ClearEnds
  BY <1>16 DEF ClearEnds, processVars
<1>17. CASE InterruptAtExit
  BY <1>17 DEF InterruptAtExit, processVars, Trouble
<1>18. CASE UNCHANGED vars
  BY <1>18 DEF vars, lotteryVars, processVars
<1> QED
  BY <1>1, <1>2, <1>3, <1>4, <1>5, <1>6, <1>7, <1>8, <1>9, <1>10, <1>11, <1>12,
     <1>13, <1>14, <1>15, <1>16, <1>17, <1>18
  DEF Next, Agent, CtrlC, Processes

\* The other conjuncts, action by action.
LotteryRest ==
  /\ NoWinnerYet /\ ForcedAreSeen /\ StillToClear
  /\ ExitRestores /\ OwnCandidates /\ Placed

LEMMA LotteryRestStep == LotteryInv /\ [Next]_vars => LotteryRest'
<1> SUFFICES ASSUME LotteryInv, [Next]_vars PROVE LotteryRest'
  OBVIOUS
<1> USE DEF LotteryInv, LotteryTypeOK, LotteryRest, NoWinnerYet, ForcedAreSeen,
            StillToClear, ExitRestores, OwnCandidates, Placed, CanBePut, placeOf
<1>1. ASSUME NEW p \in Pids, Born(p) PROVE LotteryRest'
  <2>1. \A q \in Pids \ {p} : /\ aff'[q] = aff[q] /\ owner'[q] = owner[q]
                               /\ allowed'[q] = allowed[q]
    BY <1>1 DEF Born
  <2>2. alive' = alive \cup {p} /\ reused' = reused \cup {p}
    BY <1>1 DEF Born
  <2>3. UNCHANGED <<runnable, forced, lotteryVars>>
    BY <1>1 DEF Born
  <2>4. OwnCandidates'
    BY <2>1, <2>2, <2>3 DEF lotteryVars
  <2>5. Placed'
    BY <2>1, <2>2, <2>3 DEF lotteryVars
  <2> QED BY <2>3, <2>4, <2>5 DEF lotteryVars
<1>2. ASSUME NEW p \in Pids, Dies(p), pc # "exited" PROVE LotteryRest'
  BY <1>2 DEF Dies, lotteryVars
<1>3. ASSUME NEW prev \in alive \cup {0}, NEW next \in alive \cup {0},
             trace_sched_switch(prev, next)
      PROVE LotteryRest'
  <2>1. runnable \subseteq runnable'
    BY <1>3 DEF trace_sched_switch, Updated
  <2> QED BY <1>3, <2>1 DEF trace_sched_switch, lotteryVars, processVars
<1>4. CASE Dump
  BY <1>4 DEF Dump
<1>5. CASE Filter
  BY <1>5 DEF Filter, candidates, Visible
<1>6. CASE Draw
  BY <1>6 DEF Draw, processVars
<1>7. ASSUME NEW p \in Pids, PinOne(p) PROVE LotteryRest'
  <2>1. placeOf(p) \in SUBSET CPUs /\ (NCpu > 1 => (p = winner <=> 0 \in placeOf(p)))
    BY Places
  <2>2. /\ \A q \in Pids \ {p} : aff'[q] = aff[q]
        /\ p \in alive /\ CanBePut(p, placeOf(p)) =>
             aff'[p] = placeOf(p) \cap allowed[p]
    BY <1>7, <2>1, SetAffinity DEF PinOne
  <2>3. UNCHANGED <<runnable, pc, cand, winner, fellBack, skipped, alive, owner,
                    allowed, reused>>
    BY <1>7 DEF PinOne
  <2>4. pc = "force" /\ todo' = todo \ {p} /\ p \in todo /\ forced' \subseteq forced \cup {p}
    BY <1>7 DEF PinOne
  <2>5. Placed'
    BY <2>1, <2>2, <2>3, <2>4
  <2> QED BY <2>3, <2>4, <2>5
<1>8. CASE ForceEnds
  BY <1>8 DEF ForceEnds, processVars
<1>9. CASE Clean
  BY <1>9 DEF Clean, deletedKeys, processVars
<1>10. CASE Sleep
  BY <1>10 DEF Sleep
<1>11. CASE Interrupt
  BY <1>11 DEF Interrupt, processVars
<1>12. CASE SwallowedInForce
  BY <1>12 DEF SwallowedInForce, processVars
<1>13. CASE SwallowedInClean
  BY <1>13 DEF SwallowedInClean, processVars
<1>14. CASE Exit
  BY <1>14 DEF Exit, keysAtExit, processVars
<1>15. ASSUME NEW p \in Pids \cup {0}, ClearAffinity(p) PROVE LotteryRest'
  BY <1>15 DEF ClearAffinity
<1>16. CASE ClearEnds
  BY <1>16 DEF ClearEnds, processVars
<1>17. CASE InterruptAtExit
  BY <1>17 DEF InterruptAtExit, processVars
<1>18. CASE UNCHANGED vars
  BY <1>18 DEF vars, lotteryVars, processVars
<1> HIDE DEF LotteryInv, LotteryTypeOK, LotteryRest
<1> QED
  BY <1>1, <1>2, <1>3, <1>4, <1>5, <1>6, <1>7, <1>8, <1>9, <1>10, <1>11, <1>12,
     <1>13, <1>14, <1>15, <1>16, <1>17, <1>18
  DEF Next, Agent, CtrlC, Processes

LEMMA LotteryInvariant == Spec => []LotteryInv
<1>1. LotteryInv /\ [Next]_vars => LotteryInv'
  BY LotteryTypeStep, LotteryRestStep DEF LotteryInv, LotteryRest
<1> QED BY LotteryInvInit, <1>1, PTL DEF Spec
-----------------------------------------------------------------------------
\* The draw.  The numbers that make the walk stop at the k-th candidate are the
\* ones above what the candidates before it have together.
LEMMA OrderListsAll ==
  ASSUME NEW c, IsFiniteSet(c), NEW pids \in Orders(c)
  PROVE  /\ Len(pids) \in Nat /\ DOMAIN pids = 1..Len(pids)
         /\ \A k \in 1..Len(pids) : pids[k] \in c \cap alive
         /\ \A i, j \in 1..Len(pids) : pids[i] = pids[j] => i = j
         /\ \A p \in c \cap alive : \E k \in 1..Len(pids) : pids[k] = p
<1>1. PICK S, n : S = c \cap alive /\ n = Cardinality(S)
  OBVIOUS
<1>2. IsFiniteSet(S) /\ n \in Nat
  BY <1>1, FS_Subset, FS_CardinalityType
<1>3. /\ pids \in [1..n -> S]
      /\ \A i, j \in 1..n : i # j => pids[i] # pids[j]
  BY <1>1 DEF Orders, SetToSeqs
<1>4. pids \in Seq(S) /\ Len(pids) = n
  BY <1>2, <1>3
<1>5. IsFiniteSet(1..n) /\ Cardinality(1..n) = n
  BY <1>2, FS_Interval
<1>6. pids \in Injection(1..n, S)
  BY <1>3 DEF Injection, IsInjective
<1>7. pids \in Surjection(1..n, S)
  BY <1>1, <1>2, <1>5, <1>6, FS_Injection
<1>8. \A p \in S : \E k \in 1..n : pids[k] = p
  BY <1>7 DEF Surjection
<1> QED BY <1>1, <1>2, <1>3, <1>4, <1>8

LEMMA TicketsRange ==
  /\ \A n \in -20..19 : nice_to_tickets(n) \in Nat \ {0}
  /\ \A m, n \in -20..19 : m < n => nice_to_tickets(m) > nice_to_tickets(n)
BY DEF nice_to_tickets

LEMMA TicketsAddUp ==
  ASSUME NEW pids, NEW n \in Nat, DOMAIN pids = 1..n,
         \A k \in 1..n : Nice[pids[k]] \in -20..19
  PROVE  /\ Tickets(pids, 0) = 0
         /\ \A k \in 0..n : Tickets(pids, k) \in Int
         /\ \A k \in 1..n :
              Tickets(pids, k) = nice_to_tickets(Nice[pids[k]]) + Tickets(pids, k - 1)
<1>1. PICK v : v = TicketsOf(pids)
  OBVIOUS
<1>2. \A k : Tickets(pids, k) = SumOf(v, 1..k)
  BY <1>1 DEF Tickets, SumOf
<1>3. \A k \in 1..n : v[k] = nice_to_tickets(Nice[pids[k]]) /\ v[k] \in Int
  <2>1. \A k \in 1..n : v[k] = nice_to_tickets(Nice[pids[k]])
    BY <1>1 DEF TicketsOf
  <2>2. ASSUME NEW k \in 1..n PROVE v[k] \in Int
    <3>1. PICK m \in -20..19 : m = Nice[pids[k]]
      OBVIOUS
    <3>2. nice_to_tickets(m) \in Nat
      BY TicketsRange
    <3> QED BY <2>1, <3>1, <3>2
  <2> QED BY <2>1, <2>2
<1>4. Tickets(pids, 0) = 0
  <2>1. 1..0 = {}
    OBVIOUS
  <2> QED BY <1>2, <2>1, SumOfNothing
<1>5. ASSUME NEW k \in 0..n PROVE Tickets(pids, k) \in Int
  <2>1. IsFiniteSet(1..k) /\ \A x \in 1..k : v[x] \in Int
    <3>1. \A x \in 1..k : x \in 1..n
      OBVIOUS
    <3>2. IsFiniteSet(1..k)
      BY FS_Interval
    <3> QED BY <1>3, <3>1, <3>2
  <2> QED BY <1>2, <2>1, SumIsInt
<1>6. ASSUME NEW k \in 1..n
      PROVE  Tickets(pids, k) = nice_to_tickets(Nice[pids[k]]) + Tickets(pids, k - 1)
  <2>1. IsFiniteSet(1..k) /\ \A x \in 1..k : v[x] \in Int
    <3>1. \A x \in 1..k : x \in 1..n
      OBVIOUS
    <3>2. IsFiniteSet(1..k)
      BY FS_Interval
    <3> QED BY <1>3, <3>1, <3>2
  <2>2. k \in 1..k /\ (1..k) \ {k} = 1..(k - 1)
    OBVIOUS
  <2>3. SumOf(v, 1..k) = v[k] + SumOf(v, (1..k) \ {k})
    BY <2>1, <2>2, SumWithout
  <2> QED BY <1>2, <1>3, <2>2, <2>3
<1> QED BY <1>4, <1>5, <1>6

\* What the sums of positive numbers satisfy.
Grows(T, n) ==
  /\ T \in [0..n -> Int] /\ T[0] = 0
  /\ \A k \in 1..n : T[k - 1] < T[k]

LEMMA GrowsMore ==
  ASSUME NEW n \in Nat, NEW T, Grows(T, n)
  PROVE  \A i, k \in 0..n : i < k => T[i] < T[k]
<1> SUFFICES ASSUME NEW i \in 0..n, NEW k \in 0..n, i < k, ~(T[i] < T[k]) PROVE FALSE
  OBVIOUS
<1> DEFINE Bad == {m \in 0..n : i < m /\ ~(T[i] < T[m])}
<1>1. PICK m \in Bad : \A y \in Bad : m <= y
  <2>1. Bad \in SUBSET Nat /\ Bad # {}
    OBVIOUS
  <2> HIDE DEF Bad
  <2> QED BY <2>1, LeastNat
<1>2. m \in 1..n /\ m - 1 \in 0..n /\ i <= m - 1 /\ T[m - 1] < T[m]
  BY DEF Grows
<1>3. m - 1 \notin Bad
  BY <1>1, <1>2
<1>4. i = m - 1 \/ T[i] < T[m - 1]
  BY <1>2, <1>3
<1>5. T[i] \in Int /\ T[m - 1] \in Int /\ T[m] \in Int
  BY <1>2 DEF Grows
<1>6. ~(T[i] < T[m])
  OBVIOUS
<1> HIDE DEF Bad
<1> QED BY <1>2, <1>4, <1>5, <1>6

\* The first k that reaches r.
FirstReach(T, n, r) ==
  LET reached == {k \in 1..n : r <= T[k]}
  IN  CHOOSE k \in reached : \A m \in reached : k <= m

LEMMA FirstReached ==
  ASSUME NEW n \in Nat, NEW T, Grows(T, n), NEW r \in 1..T[n]
  PROVE  /\ n > 0 /\ FirstReach(T, n, r) \in 1..n
         /\ \A k \in 1..n : FirstReach(T, n, r) = k <=> T[k - 1] < r /\ r <= T[k]
<1> DEFINE reached == {k \in 1..n : r <= T[k]}
<1>1. n > 0 /\ n \in reached
  BY DEF Grows
<1>2. PICK f : f = FirstReach(T, n, r)
  OBVIOUS
<1>3. f \in reached /\ \A m \in reached : f <= m
  <2>1. reached \in SUBSET Nat /\ reached # {}
    BY <1>1
  <2>2. f = CHOOSE k \in reached : \A m \in reached : k <= m
    BY <1>2 DEF FirstReach
  <2> HIDE DEF reached
  <2> QED BY <2>1, <2>2, LeastNat
<1>4. ASSUME NEW k \in 1..n, T[k - 1] < r, r <= T[k] PROVE f = k
  <2>1. k \in reached /\ f <= k /\ f \in 0..n /\ k - 1 \in 0..n
    BY <1>3, <1>4
  <2>2. ASSUME f < k PROVE FALSE
    <3>1. f = k - 1 \/ f < k - 1
      BY <2>1, <2>2
    <3>2. T[f] <= T[k - 1] /\ T[f] \in Int /\ T[k - 1] \in Int
      <4>1. T[f] \in Int /\ T[k - 1] \in Int
        BY <2>1 DEF Grows
      <4>2. f < k - 1 => T[f] < T[k - 1]
        BY <2>1, GrowsMore
      <4> QED BY <3>1, <4>1, <4>2
    <3> QED BY <1>3, <1>4, <3>2
  <2> QED BY <2>1, <2>2
<1>5. T[f - 1] < r /\ r <= T[f]
  <2>1. r <= T[f] /\ f \in 1..n
    BY <1>3
  <2>2. CASE f = 1
    BY <2>1, <2>2 DEF Grows
  <2>3. CASE f # 1
    <3>1. f - 1 \in 1..n /\ f - 1 \notin reached
      BY <1>3, <2>1, <2>3
    <3>2. T[f - 1] \in Int
      BY <3>1 DEF Grows
    <3> QED BY <2>1, <3>1, <3>2
  <2> QED BY <2>2, <2>3
<1> QED BY <1>1, <1>2, <1>3, <1>4, <1>5

LEMMA DrawIsProportional ==
  ASSUME NEW c \in SUBSET Pids, NEW pids \in Orders(c)
  PROVE  LET numbers(p) == {r \in 1..Tickets(pids, Len(pids)) : picked(pids, r) = p}
         IN  /\ numbers(0) = {}
             /\ \A p \in c \cap alive :
                  Cardinality(numbers(p)) = nice_to_tickets(Nice[p])
<1> DEFINE numbers(p) == {r \in 1..Tickets(pids, Len(pids)) : picked(pids, r) = p}
           S == c \cap alive
<1>1. PICK n \in Nat :
        /\ n = Len(pids) /\ DOMAIN pids = 1..n
        /\ \A k \in 1..n : pids[k] \in S
        /\ \A i, j \in 1..n : pids[i] = pids[j] => i = j
        /\ \A p \in S : \E k \in 1..n : pids[k] = p
  <2>1. IsFiniteSet(Pids)
    BY LotteryAssumption
  <2> QED BY <2>1, FS_Subset, OrderListsAll
<1>2. \A p \in S : /\ p # 0 /\ Nice[p] \in -20..19
                   /\ nice_to_tickets(Nice[p]) \in Nat \ {0}
  BY LotteryAssumption, TicketsRange
<1>3. PICK T : T = [k \in 0..n |-> Tickets(pids, k)]
  OBVIOUS
<1>4. /\ Grows(T, n)
      /\ \A k \in 1..n : T[k] = nice_to_tickets(Nice[pids[k]]) + T[k - 1]
  <2>1. /\ Tickets(pids, 0) = 0
        /\ \A k \in 0..n : Tickets(pids, k) \in Int
        /\ \A k \in 1..n : Tickets(pids, k) =
             nice_to_tickets(Nice[pids[k]]) + Tickets(pids, k - 1)
    BY <1>1, <1>2, TicketsAddUp
  <2>2. \A k \in 1..n : T[k] = nice_to_tickets(Nice[pids[k]]) + T[k - 1]
    BY <1>3, <2>1
  <2>3. T \in [0..n -> Int] /\ T[0] = 0
    BY <1>3, <2>1
  <2>4. \A k \in 1..n : T[k - 1] < T[k]
    <3>1. ASSUME NEW k \in 1..n PROVE T[k - 1] < T[k]
      <4>1. PICK t \in Nat \ {0} : t = nice_to_tickets(Nice[pids[k]])
        BY <1>1, <1>2
      <4>2. T[k - 1] \in Int
        BY <2>3
      <4> QED BY <2>2, <4>1, <4>2
    <3> QED BY <3>1
  <2> QED BY <2>2, <2>3, <2>4 DEF Grows
<1>5. ASSUME NEW r \in 1..T[n]
      PROVE  picked(pids, r) = pids[FirstReach(T, n, r)]
  <2>1. {k \in DOMAIN pids : r <= Tickets(pids, k)} = {k \in 1..n : r <= T[k]}
    BY <1>1, <1>3
  <2>2. n \in {k \in 1..n : r <= T[k]}
    BY <1>4, FirstReached DEF Grows
  <2> QED BY <2>1, <2>2 DEF picked, FirstReach
<1>6. Tickets(pids, Len(pids)) = T[n]
  BY <1>1, <1>3
<1>7. numbers(0) = {}
  <2>1. ASSUME NEW r \in 1..T[n] PROVE picked(pids, r) # 0
    <3>1. FirstReach(T, n, r) \in 1..n
      BY <1>4, FirstReached
    <3> QED BY <1>1, <1>2, <1>5, <3>1
  <2> QED BY <1>6, <2>1
<1>8. ASSUME NEW p \in S
      PROVE  Cardinality(numbers(p)) = nice_to_tickets(Nice[p])
  <2>1. PICK k \in 1..n : pids[k] = p
    BY <1>1
  <2>2. T[k] = nice_to_tickets(Nice[p]) + T[k - 1] /\ T[k - 1] \in Int /\ T[k] \in Int
    BY <1>4, <2>1 DEF Grows
  <2>3. 0 <= T[k - 1] /\ T[k] <= T[n] /\ T[n] \in Int
    <3>1. 0 \in 0..n /\ k - 1 \in 0..n /\ k \in 0..n /\ n \in 0..n
      OBVIOUS
    <3>2. k - 1 = 0 \/ T[0] < T[k - 1]
      BY <1>4, <3>1, GrowsMore
    <3>3. k = n \/ T[k] < T[n]
      BY <1>4, <3>1, GrowsMore
    <3> QED BY <1>4, <3>1, <3>2, <3>3 DEF Grows
  <2>4. ASSUME NEW r \in 1..T[n]
        PROVE  picked(pids, r) = p <=> T[k - 1] < r /\ r <= T[k]
    <3>1. PICK f : f = FirstReach(T, n, r)
      OBVIOUS
    <3>2. f \in 1..n /\ (f = k <=> T[k - 1] < r /\ r <= T[k])
      BY <1>4, <3>1, FirstReached
    <3>3. picked(pids, r) = pids[f]
      BY <1>5, <3>1
    <3> QED BY <1>1, <2>1, <3>2, <3>3
  <2>5. numbers(p) = (T[k - 1] + 1)..T[k]
    BY <1>6, <2>2, <2>3, <2>4
  <2>6. Cardinality((T[k - 1] + 1)..T[k]) = T[k] - T[k - 1]
    <3>1. PICK a \in Int, b \in Int : a = T[k - 1] + 1 /\ b = T[k]
      BY <2>2
    <3>2. Cardinality(a..b) = IF a > b THEN 0 ELSE b - a + 1
      BY FS_Interval
    <3>3. nice_to_tickets(Nice[p]) \in Nat
      BY <1>2
    <3> QED BY <2>2, <3>1, <3>2, <3>3
  <2>7. nice_to_tickets(Nice[p]) \in Nat
    BY <1>2
  <2>8. Cardinality(numbers(p)) = T[k] - T[k - 1]
    BY <2>5, <2>6
  <2> HIDE DEF numbers
  <2> QED BY <2>2, <2>7, <2>8
<1> QED BY <1>7, <1>8

LEMMA PickedFairly ==
  ASSUME LotteryTypeOK PROVE PickIsProportional
<1> SUFFICES ASSUME NEW pids \in Orders(cand)
             PROVE  LET numbers(p) == {r \in 1..Tickets(pids, Len(pids)) : picked(pids, r) = p}
                    IN  /\ numbers(0) = {}
                        /\ \A p \in cand \cap alive :
                             Cardinality(numbers(p)) = nice_to_tickets(Nice[p])
                        /\ \A p, q \in cand \cap alive :
                             Nice[p] < Nice[q] => Cardinality(numbers(p)) > Cardinality(numbers(q))
  BY DEF PickIsProportional
<1> DEFINE numbers(p) == {r \in 1..Tickets(pids, Len(pids)) : picked(pids, r) = p}
<1>1. cand \in SUBSET Pids
  BY DEF LotteryTypeOK
<1>2. /\ numbers(0) = {}
      /\ \A p \in cand \cap alive : Cardinality(numbers(p)) = nice_to_tickets(Nice[p])
  BY <1>1, DrawIsProportional
<1> HIDE DEF numbers
<1>3. \A p \in Pids : Nice[p] \in -20..19
  BY LotteryAssumption
<1>4. \A p, q \in cand \cap alive :
        Nice[p] < Nice[q] => Cardinality(numbers(p)) > Cardinality(numbers(q))
  BY <1>1, <1>2, <1>3, TicketsRange
<1> USE DEF numbers
<1> QED BY <1>2, <1>4
-----------------------------------------------------------------------------
\* The variables have their types, and what lottery.py works on comes from the
\* map, which never holds more keys than it has room for.
THEOREM LotteryTypeCorrect == Spec => []LotteryTypeOK
BY LotteryInvariant, PTL DEF LotteryInv

\* What lottery.py pinned in any round has the CPUs it is allowed back at its end,
\* except what a further Ctrl+C or a failure of bpftool or taskset left out
\* (lottery.py:161-180, 302-307).
THEOREM RestoredAtExit == Spec => []ExitRestores
BY LotteryInvariant, PTL DEF LotteryInv

\* A round puts the winner on CPU 0 and takes the other candidates off it, those
\* apart that may not run where they are put and stay where they are
\* (lottery.py:182-204).
THEOREM WinnerIsAlone == Spec => []WinnerAlone
<1>1. LotteryInv => WinnerAlone
  BY DEF LotteryInv, LotteryTypeOK, Placed, WinnerAlone
<1> QED BY LotteryInvariant, <1>1, PTL

\* Whatever order the map is read in, each candidate that is alive wins for as many
\* of the numbers drawn as it has tickets, and a less nice one for more
\* (lottery.py:93-116).
THEOREM PicksAreProportional == Spec => []PickIsProportional
BY LotteryTypeCorrect, PickedFairly, PTL

\* A round leaves other users' processes alone unless the user has none among the
\* candidates, or a pid was reused (lottery.py:245-261).
THEOREM OthersAreUntouched == Spec => OthersUntouched
<1> DEFINE Untouched ==
      pc = "force" =>
        \A p \in alive \cap alive' :
          owner[p] = "other" /\ aff'[p] # aff[p] => fellBack \/ p \in reused
<1>1. LotteryInv /\ [Next]_vars => Untouched
  <2> SUFFICES ASSUME LotteryInv, [Next]_vars, pc = "force",
                      NEW p \in alive \cap alive', owner[p] = "other",
                      aff'[p] # aff[p]
               PROVE  fellBack \/ p \in reused
    OBVIOUS
  <2> USE DEF LotteryInv, LotteryTypeOK, OwnCandidates
  <2>1. CASE \E q \in Pids : PinOne(q)
    <3>1. PICK q \in Pids : PinOne(q)
      BY <2>1
    <3>2. p = q
      BY <3>1 DEF PinOne, set_affinity
    <3> QED BY <3>1, <3>2 DEF PinOne
  <2>2. CASE \E q \in Pids : Born(q)
    BY <2>2 DEF Born
  <2>3. CASE aff' = aff
    BY <2>3
  <2>4. \/ \E q \in Pids : PinOne(q)
        \/ \E q \in Pids : Born(q)
        \/ aff' = aff
    BY DEF Next, Agent, CtrlC, Processes, Dies, trace_sched_switch, Dump, Filter,
           Draw, ForceEnds, Clean, Sleep, Interrupt, SwallowedInForce,
           SwallowedInClean, Exit, ClearAffinity, ClearEnds, InterruptAtExit,
           vars, processVars
  <2> QED BY <2>1, <2>2, <2>3, <2>4
<1> QED BY LotteryInvariant, <1>1, PTL DEF Spec, OthersUntouched
-----------------------------------------------------------------------------
DiceTypes ==
  /\ ndice \in 1..MaxDice \cup {1}
  /\ dPc \in [Readers -> {"idle", "loop", "print", "copy", "done"}]
  /\ dI \in [Readers -> Nat] /\ dPos \in [Readers -> Nat]
  /\ dPpos \in [Readers -> Nat]
  /\ dLines \in [Readers -> SUBSET Nat]
  /\ dSeen \in [Readers -> SUBSET (1..MaxDice \cup {1})]

\* How far the loop has come, in dice, against the numbers seen: it goes on only
\* for a number seen that is larger, and ends only for one that is not.
Reached(r) ==
  /\ dPc[r] # "idle" => ndice \in dSeen[r]
  /\ dPc[r] \in {"loop", "copy", "done"} => \E n \in dSeen[r] : dI[r] <= n
  /\ dPc[r] = "print" => \E n \in dSeen[r] : dI[r] < n
  /\ dPc[r] \in {"copy", "done"} => \E n \in dSeen[r] : n <= dI[r]

\* Behind the last die of the one number seen there is a newline, if it fits.
OneLine(r) ==
  dPc[r] # "idle" => \A n \in dSeen[r] :
    dSeen[r] = {n} =>
      dLines[r] = IF dI[r] = n /\ 2 * n < BUF_LEN THEN {2 * n} ELSE {}

Reader(r) == dPos[r] = Least(2 * dI[r], BUF_LEN - 1) /\ Reached(r) /\ OneLine(r)

DiceInv == DiceTypes /\ \A r \in Readers : Reader(r)

LEMMA DiceInvInit == DiceIdle => DiceInv
BY DiceAssumption
DEF DiceIdle, DiceInv, DiceTypes, Reader, Reached, OneLine, Least

\* A reader that does not move keeps what holds of it while nobody writes.
LEMMA ReaderStays ==
  ASSUME NEW r \in Readers, Reader(r), ndice' = ndice, dPc'[r] = dPc[r],
         dI'[r] = dI[r], dPos'[r] = dPos[r], dLines'[r] = dLines[r],
         dSeen'[r] = dSeen[r]
  PROVE  Reader(r)'
BY DEF Reader, Reached, OneLine

LEMMA WriteStep ==
  ASSUME DiceInv, dice_write
  PROVE  DiceInv'
<1>1. /\ ndice' \in 1..MaxDice /\ UNCHANGED <<dPc, dI, dPos, dPpos, dLines>>
      /\ dSeen' = [r \in Readers |-> dSeen[r] \cup {ndice'}]
  BY DiceAssumption DEF dice_write
<1>2. DiceTypes'
  BY <1>1 DEF DiceInv, DiceTypes
<1>3. ASSUME NEW r \in Readers PROVE Reader(r)'
  <2>1. dSeen'[r] = dSeen[r] \cup {ndice'} /\ Reader(r) /\ dI[r] \in Nat
    BY <1>1 DEF DiceInv, DiceTypes
  <2>2. dPos'[r] = Least(2 * dI'[r], BUF_LEN - 1)
    BY <1>1, <2>1 DEF Reader, Least
  <2>3. Reached(r)'
    BY <1>1, <2>1 DEF Reader, Reached
  <2>4. OneLine(r)'
    <3> SUFFICES ASSUME dPc[r] # "idle", NEW n \in dSeen'[r], dSeen'[r] = {n}
                 PROVE  dLines[r] =
                          IF dI[r] = n /\ 2 * n < BUF_LEN THEN {2 * n} ELSE {}
      BY <1>1 DEF OneLine
    <3>1. ndice \in dSeen[r]
      BY <2>1 DEF Reader, Reached
    <3>2. dSeen[r] = {n} /\ n \in dSeen[r]
      BY <2>1, <3>1
    <3> QED BY <2>1, <3>2 DEF Reader, OneLine
  <2> QED BY <2>2, <2>3, <2>4 DEF Reader
<1> QED BY <1>2, <1>3 DEF DiceInv

LEMMA ReadStep ==
  ASSUME DiceInv, NEW r \in Readers,
         \/ dice_read(r) \/ LoopTest(r) \/ PrintDie(r) \/ CopyToUser(r)
         \/ dice_open(r)
  PROVE  DiceInv'
<1>1. /\ ndice \in Nat \ {0} /\ ndice' = ndice
      /\ dI[r] \in Nat /\ dPos[r] \in Nat /\ Reader(r)
      /\ dSeen[r] \in SUBSET Nat
  BY DiceAssumption
  DEF DiceInv, DiceTypes, dice_read, LoopTest, PrintDie, CopyToUser, dice_open
<1>2. ASSUME NEW q \in Readers, q # r PROVE Reader(q)'
  <2>1. /\ dPc'[q] = dPc[q] /\ dI'[q] = dI[q] /\ dPos'[q] = dPos[q]
        /\ dLines'[q] = dLines[q] /\ dSeen'[q] = dSeen[q]
    BY <1>2
    DEF DiceInv, DiceTypes, dice_read, LoopTest, PrintDie, CopyToUser, dice_open
  <2> QED BY <1>1, <2>1, ReaderStays DEF DiceInv
<1>3. CASE dice_read(r)
  <2>1. /\ dPc'[r] = "loop" /\ dI'[r] = 0 /\ dPos'[r] = 0 /\ dLines'[r] = {}
        /\ dSeen'[r] = {ndice}
    BY <1>3 DEF dice_read, DiceInv, DiceTypes
  <2>2. DiceTypes'
    BY <1>1, <1>3 DEF dice_read, DiceInv, DiceTypes
  <2>3. Reader(r)'
    BY <1>1, <2>1, DiceAssumption DEF Reader, Reached, OneLine, Least
  <2> QED BY <1>2, <2>2, <2>3 DEF DiceInv
<1>4. CASE LoopTest(r)
  <2>1. /\ dPc[r] = "loop"
        /\ dPc'[r] = IF dI[r] < ndice THEN "print" ELSE "copy"
        /\ UNCHANGED <<dI, dPos, dLines, dSeen>>
    BY <1>4 DEF LoopTest, DiceInv, DiceTypes
  <2>2. DiceTypes'
    BY <1>1, <1>4 DEF LoopTest, DiceInv, DiceTypes
  <2>3. Reader(r)'
    <3>1. dPos'[r] = Least(2 * dI'[r], BUF_LEN - 1)
      BY <1>1, <2>1 DEF Reader, Least
    <3>2. Reached(r)'
      BY <1>1, <2>1 DEF Reader, Reached
    <3>3. OneLine(r)'
      BY <1>1, <2>1 DEF Reader, OneLine
    <3> QED BY <3>1, <3>2, <3>3 DEF Reader
  <2> QED BY <1>2, <2>2, <2>3 DEF DiceInv
<1>5. CASE PrintDie(r)
  <2> DEFINE n == written(dPos[r])
  <2>1. /\ dPc[r] = "print" /\ dPc'[r] = "loop" /\ dPos'[r] = dPos[r] + n
        /\ dI'[r] = dI[r] + 1 /\ dSeen' = dSeen
        /\ dLines'[r] = IF n = 2 /\ dI[r] = ndice - 1
                        THEN dLines[r] \cup {dPos[r] + 2} ELSE dLines[r]
    BY <1>5 DEF PrintDie, DiceInv, DiceTypes
  <2>2. /\ dPos[r] = Least(2 * dI[r], BUF_LEN - 1)
        /\ n \in Nat /\ dPos[r] + n = Least(2 * (dI[r] + 1), BUF_LEN - 1)
        /\ n = 2 <=> 2 * (dI[r] + 1) < BUF_LEN
        /\ n = 2 => dPos[r] = 2 * dI[r]
    <3>1. /\ dPos[r] = Least(2 * dI[r], BUF_LEN - 1)
          /\ BUF_LEN \in Nat \ {0} /\ dI[r] \in Nat /\ dPos[r] \in Nat
      BY <1>1, DiceAssumption DEF Reader
    <3>2. CASE 2 * dI[r] < BUF_LEN - 1
      <4>1. dPos[r] = 2 * dI[r]
        BY <3>1, <3>2 DEF Least
      <4>2. PICK d \in Nat, b \in Nat : d = dI[r] /\ b = BUF_LEN
        BY <3>1
      <4>3. n = IF b - 2 * d - 1 < 2 THEN b - 2 * d - 1 ELSE 2
        BY <4>1, <4>2 DEF written
      <4> HIDE DEF n
      <4>4. 2 * d < b - 1
        BY <3>2, <4>2
      <4>5. /\ n \in Nat /\ 2 * d + n = Least(2 * (d + 1), b - 1)
            /\ n = 2 <=> 2 * (d + 1) < b
        BY <4>3, <4>4 DEF Least
      <4> QED BY <3>1, <4>1, <4>2, <4>5
    <3>3. CASE ~(2 * dI[r] < BUF_LEN - 1)
      <4>1. dPos[r] = BUF_LEN - 1
        BY <3>1, <3>3 DEF Least
      <4>2. n = 0
        BY <3>1, <4>1 DEF written
      <4> QED BY <3>1, <3>3, <4>1, <4>2 DEF Least
    <3> QED BY <3>2, <3>3
  <2> HIDE DEF n
  <2>3. DiceTypes'
    <3>1. dPos' = [dPos EXCEPT ![r] = @ + n] /\ dI' = [dI EXCEPT ![r] = @ + 1]
          /\ dPc' = [dPc EXCEPT ![r] = "loop"] /\ UNCHANGED <<dSeen, dPpos>>
      BY <1>5 DEF PrintDie, n
    <3>2. dLines' = [dLines EXCEPT ![r] = @ \cup {dPos[r] + 2}] \/ dLines' = dLines
      BY <1>5 DEF PrintDie
    <3> QED BY <1>1, <2>2, <3>1, <3>2 DEF DiceInv, DiceTypes
  <2>4. Reached(r)'
    <3>1. PICK m \in dSeen[r] : dI[r] < m
      BY <1>1, <2>1 DEF Reader, Reached
    <3>2. dI[r] + 1 <= m /\ m \in Nat
      BY <1>1, <3>1
    <3>3. ndice \in dSeen[r]
      BY <1>1, <2>1 DEF Reader, Reached
    <3> QED BY <1>1, <2>1, <3>2, <3>3 DEF Reached
  <2>5. OneLine(r)'
    <3> SUFFICES ASSUME NEW m \in dSeen[r], dSeen[r] = {m}
                 PROVE  dLines'[r] = IF dI[r] + 1 = m /\ 2 * m < BUF_LEN
                                     THEN {2 * m} ELSE {}
      BY <2>1 DEF OneLine
    <3>1. ndice = m /\ dI[r] < m /\ m \in Nat
      BY <1>1, <2>1 DEF Reader, Reached
    <3>2. dLines[r] = {}
      BY <1>1, <2>1, <3>1 DEF Reader, OneLine
    <3>3. CASE dI[r] + 1 = m /\ n = 2
      <4>1. dLines'[r] = {dPos[r] + 2} /\ dPos[r] + 2 = 2 * m
        BY <1>1, <2>1, <2>2, <3>1, <3>2, <3>3
      <4>2. 2 * m < BUF_LEN
        BY <2>2, <3>3
      <4> QED BY <3>3, <4>1, <4>2
    <3>4. CASE ~(dI[r] + 1 = m /\ n = 2)
      <4>1. dLines'[r] = {}
        BY <1>1, <2>1, <3>1, <3>2, <3>4
      <4>2. ~(dI[r] + 1 = m /\ 2 * m < BUF_LEN)
        BY <2>2, <3>4
      <4> QED BY <4>1, <4>2
    <3> QED BY <3>3, <3>4
  <2>6. Reader(r)'
    BY <2>1, <2>2, <2>4, <2>5 DEF Reader, Least
  <2> QED BY <1>2, <2>3, <2>6 DEF DiceInv
<1>6. CASE CopyToUser(r)
  <2>1. /\ dPc[r] = "copy" /\ dPc'[r] = "done"
        /\ UNCHANGED <<dI, dPos, dLines, dSeen>>
    BY <1>6 DEF CopyToUser, DiceInv, DiceTypes
  <2>2. DiceTypes'
    <3>1. dPpos' = [dPpos EXCEPT ![r] = @ + dPos[r]] \/ dPpos' = dPpos
      BY <1>6 DEF CopyToUser
    <3>2. dPpos' \in [Readers -> Nat]
      BY <1>1, <3>1 DEF DiceInv, DiceTypes
    <3>3. dPc' = [dPc EXCEPT ![r] = "done"]
      BY <1>6 DEF CopyToUser
    <3> QED BY <1>1, <2>1, <3>2, <3>3 DEF DiceInv, DiceTypes
  <2>3. Reader(r)'
    BY <1>1, <2>1 DEF Reader, Reached, OneLine
  <2> QED BY <1>2, <2>2, <2>3 DEF DiceInv
<1>7. CASE dice_open(r)
  <2>1. UNCHANGED <<dPc, dI, dPos, dLines, dSeen>>
    BY <1>7 DEF dice_open
  <2>2. DiceTypes'
    BY <1>1, <1>7 DEF dice_open, DiceInv, DiceTypes
  <2>3. Reader(r)'
    BY <1>1, <2>1, ReaderStays
  <2> QED BY <1>2, <2>2, <2>3 DEF DiceInv
<1> QED BY <1>3, <1>4, <1>5, <1>6, <1>7

LEMMA DiceInvStep == DiceInv /\ [DiceNext]_dVars => DiceInv'
<1> SUFFICES ASSUME DiceInv, [DiceNext]_dVars PROVE DiceInv'
  OBVIOUS
<1>1. CASE DiceNext
  BY <1>1, WriteStep, ReadStep DEF DiceNext
<1>2. CASE UNCHANGED dVars
  <2>1. DiceTypes'
    BY <1>2 DEF dVars, DiceInv, DiceTypes
  <2>2. \A r \in Readers : Reader(r)'
    BY <1>2, ReaderStays DEF dVars, DiceInv
  <2> QED BY <2>1, <2>2 DEF DiceInv
<1> QED BY <1>1, <1>2

\* Whatever the writers do and however long the buffer is, a read stays within it,
\* gives exactly the dice of a number that did not change meanwhile, and else as
\* many as lie between two numbers it saw (dice_read, dice.c 65-87).
THEOREM ReadsGiveTheDice == DiceSpec => []ReadGivesTheDice
<1>1. DiceInv => ReadGivesTheDice
  <2> SUFFICES ASSUME DiceInv, NEW r \in Readers
               PROVE  /\ dPos[r] < BUF_LEN
                      /\ dPc[r] \in {"copy", "done"} =>
                           /\ Cardinality(dSeen[r]) = 1 =>
                                \A n \in dSeen[r] :
                                  /\ dPos[r] = Least(2 * n, BUF_LEN - 1)
                                  /\ dLines[r] = IF 2 * n < BUF_LEN THEN {2 * n}
                                                 ELSE {}
                           /\ \E n \in dSeen[r] :
                                dPos[r] >= Least(2 * n, BUF_LEN - 1)
                           /\ \E n \in dSeen[r] :
                                dPos[r] <= Least(2 * n, BUF_LEN - 1)
    BY DEF ReadGivesTheDice
  <2>1. /\ dI[r] \in Nat /\ dPos[r] = Least(2 * dI[r], BUF_LEN - 1)
        /\ Reached(r) /\ OneLine(r) /\ dSeen[r] \in SUBSET Nat
    BY DiceAssumption DEF DiceInv, DiceTypes, Reader
  <2>2. dPos[r] < BUF_LEN
    BY <2>1, DiceAssumption DEF Least
  <2>3. ASSUME dPc[r] \in {"copy", "done"}, Cardinality(dSeen[r]) = 1,
               NEW n \in dSeen[r]
        PROVE  /\ dPos[r] = Least(2 * n, BUF_LEN - 1)
               /\ dLines[r] = IF 2 * n < BUF_LEN THEN {2 * n} ELSE {}
    <3>1. dSeen[r] = {n}
      <4>1. IsFiniteSet(dSeen[r])
        <5>1. dSeen[r] \subseteq 0..MaxDice + 1
          BY DiceAssumption DEF DiceInv, DiceTypes
        <5>2. IsFiniteSet(0..MaxDice + 1)
          BY DiceAssumption, FS_Interval
        <5> QED BY <5>1, <5>2, FS_Subset
      <4> QED BY <2>3, <4>1, FS_Singleton
    <3>2. dI[r] = n
      BY <2>1, <2>3, <3>1 DEF Reached
    <3> QED BY <2>1, <2>3, <3>1, <3>2 DEF OneLine
  <2>4. ASSUME dPc[r] \in {"copy", "done"}
        PROVE  /\ \E n \in dSeen[r] : dPos[r] >= Least(2 * n, BUF_LEN - 1)
               /\ \E n \in dSeen[r] : dPos[r] <= Least(2 * n, BUF_LEN - 1)
    <3>1. PICK m \in dSeen[r] : m <= dI[r]
      BY <2>1, <2>4 DEF Reached
    <3>2. PICK l \in dSeen[r] : dI[r] <= l
      BY <2>1, <2>4 DEF Reached
    <3>3. /\ dPos[r] >= Least(2 * m, BUF_LEN - 1)
          /\ dPos[r] <= Least(2 * l, BUF_LEN - 1)
      BY <2>1, <3>1, <3>2, DiceAssumption DEF Least
    <3> QED BY <3>3
  <2> QED BY <2>2, <2>3, <2>4
<1> QED BY DiceInvInit, DiceInvStep, <1>1, PTL DEF DiceSpec
-----------------------------------------------------------------------------
\* The counters of Homework 4.  RunsEnded adds up what each process has counted; it
\* moves with the count of the one that takes a step.

Opening == {"truncate", "echo"}
Inside == {"read", "write", "leave"}

CounterTypes ==
  /\ cProgram \in Scripts \cup {"ex3.c"}
  /\ cPc \in [Counting -> {"begin", "enter"} \cup Opening \cup Inside]
  /\ cDone \in [Counting -> Nat] /\ cTmp \in [Counting -> Nat]
  /\ cFree \in BOOLEAN /\ cFile \in Seq(Nat) /\ cEmpty \in Nat
  /\ cProgram = "ex3.c" => cFile # << >> /\ \A p \in Counting : cPc[p] \notin Opening

OneInside ==
  Locked => /\ cFree => \A p \in Counting : cPc[p] \notin Inside
            /\ \A p, q \in Counting : cPc[p] \in Inside /\ cPc[q] \in Inside => p = q

NotTooMany ==
  /\ Count <= RunsEnded
  /\ \A p \in Counting : cPc[p] = "write" => cTmp[p] <= RunsEnded

\* While the file is empty and one run at most found it so, nobody has counted
\* and that run alone is about to write the first line.
NoneLost ==
  Locked /\ cEmpty <= 1 =>
  /\ cFile = << >> =>
       /\ \A p \in Counting : cDone[p] = 0 /\ cPc[p] \in {"begin"} \cup Opening
       /\ cEmpty = 0 => \A p \in Counting : cPc[p] = "begin"
       /\ \A p, q \in Counting : cPc[p] \in Opening /\ cPc[q] \in Opening => p = q
  /\ cFile # << >> => \A p \in Counting : cPc[p] \notin Opening
  /\ Count = RunsEnded
  /\ \A p \in Counting : cPc[p] = "write" => cTmp[p] = Count

CounterInv == CounterTypes /\ OneInside /\ NotTooMany /\ NoneLost

LEMMA AddedIsSum == ASSUME NEW w PROVE Added(w) = SumOf(w, Counting)
BY DEF Added, SumOf

LEMMA CountedTypes ==
  ASSUME CounterTypes
  PROVE  RunsDone \in [Counting -> Nat] /\ RunsEnded \in Int /\ RunsEnded = SumOf(RunsDone, Counting)
<1>1. RunsDone \in [Counting -> Nat]
  BY DEF CounterTypes, RunsDone
<1>2. SumOf(RunsDone, Counting) \in Int
  BY <1>1, CountingAssumption, SumIsInt
<1>3. RunsEnded = SumOf(RunsDone, Counting)
  BY AddedIsSum DEF RunsEnded
<1> QED BY <1>1, <1>2, <1>3

LEMMA RunsAtFirst ==
  ASSUME CounterTypes, \A p \in Counting : cDone[p] = 0 /\ cPc[p] # "leave"
  PROVE  RunsEnded = 0
<1>1. \A p \in Counting : RunsDone[p] = 0
  BY DEF RunsDone
<1>2. SumOf(RunsDone, Counting) = 0
  BY <1>1, CountingAssumption, SumOfZeros
<1> QED BY <1>2, CountedTypes

LEMMA CountIsNat ==
  ASSUME CounterTypes
  PROVE  Count \in Nat
<1>1. cFile \in Seq(Nat) /\ Len(cFile) \in Nat /\ DOMAIN cFile = 1..Len(cFile)
  BY DEF CounterTypes
<1>2. cFile # << >> => Len(cFile) \in DOMAIN cFile
  BY <1>1
<1> QED BY <1>1, <1>2 DEF Count

LEMMA CountIsNatNext ==
  ASSUME CounterTypes'
  PROVE  Count' \in Nat
<1>1. cFile' \in Seq(Nat) /\ Len(cFile') \in Nat /\ DOMAIN cFile' = 1..Len(cFile')
  BY DEF CounterTypes
<1>2. cFile' # << >> => Len(cFile') \in DOMAIN cFile'
  BY <1>1
<1> QED BY <1>1, <1>2 DEF Count

\* What a process that moves from one place to another adds to RunsEnded.
Adds(p, d) ==
  /\ p \in Counting /\ cPc' = [cPc EXCEPT ![p] = cPc'[p]]
  /\ \A q \in Counting \ {p} : cDone'[q] = cDone[q]
  /\ RunsDone'[p] = RunsDone[p] + d

LEMMA RunsMove ==
  ASSUME CounterTypes, CounterTypes', NEW p, NEW d \in Int, Adds(p, d)
  PROVE  RunsEnded' = RunsEnded + d
<1>1. PICK v, w, S : v = RunsDone /\ w = RunsDone' /\ S = Counting
  OBVIOUS
<1>2. /\ \A q \in S \ {p} : w[q] = v[q]
      /\ w[p] = v[p] + d /\ p \in S
  BY <1>1 DEF Adds, RunsDone, CounterTypes
<1>3. \A x \in S : v[x] \in Int
  BY <1>1, CountedTypes
<1>4. SumOf(w, S) = SumOf(v, S) + d
  BY <1>1, <1>2, <1>3, CountingAssumption, SumMoves
<1>5. RunsEnded = SumOf(RunsDone, Counting)
  BY CountedTypes
<1>6. RunsEnded' = SumOf(RunsDone', Counting)
  BY AddedIsSum DEF RunsEnded
<1> QED BY <1>1, <1>4, <1>5, <1>6

LEMMA CounterAtFirst == CounterInit => CounterInv
<1> SUFFICES ASSUME CounterInit PROVE CounterInv
  OBVIOUS
<1>1. CounterTypes
  <2>1. cFile \in Seq(Nat) /\ (cProgram = "ex3.c" => cFile # << >>)
    <3>1. << >> \in Seq(Nat) /\ <<0>> \in Seq(Nat) /\ <<0>> # << >>
      OBVIOUS
    <3> QED BY <3>1 DEF CounterInit, Scripts
  <2>2. cPc = [p \in Counting |-> "begin"] /\ cDone = [p \in Counting |-> 0]
    BY DEF CounterInit, CounterStart
  <2>3. cTmp = [p \in Counting |-> 0] /\ cFree = TRUE /\ cEmpty = 0
    BY DEF CounterInit, CounterStart
  <2>4. cProgram \in Scripts \cup {"ex3.c"}
    BY DEF CounterInit
  <2> QED BY <2>1, <2>2, <2>3, <2>4 DEF CounterTypes, Opening, Inside
<1>2. /\ \A p \in Counting : cPc[p] = "begin" /\ cDone[p] = 0
      /\ Count = 0
  <2>1. cFile \in {<< >>, <<0>>}
    BY DEF CounterInit
  <2> QED BY <2>1 DEF CounterInit, CounterStart, Count
<1>3. RunsEnded = 0
  BY <1>1, <1>2, RunsAtFirst
<1>4. OneInside
  BY <1>2 DEF OneInside, Inside
<1>5. NotTooMany /\ NoneLost
  BY <1>2, <1>3 DEF NotTooMany, NoneLost, Opening
<1> QED BY <1>1, <1>4, <1>5 DEF CounterInv

LEMMA CounterTyped ==
  ASSUME CounterTypes, CounterNext PROVE CounterTypes'
<1>1. PICK p \in Counting :
        \/ TestFile(p) \/ TruncateFile(p) \/ EchoZero(p) \/ SemWait(p) \/ Enter(p)
        \/ ReadCount(p) \/ WriteCount(p) \/ Leave(p)
  BY DEF CounterNext
<1> USE DEF CounterTypes, At, Opening, Inside
<1>2. CASE TestFile(p)
  <2>1. CASE cFile = << >>
    <3>1. cPc' = [cPc EXCEPT ![p] = "truncate"] /\ cProgram' # "ex3.c" /\ cEmpty' \in Nat
      BY <1>2, <2>1 DEF TestFile, Scripts
    <3>2. cProgram' = cProgram /\ cDone' = cDone /\ cTmp' = cTmp /\ cFree' = cFree /\ cFile' = cFile
      BY <1>2 DEF TestFile
    <3> QED BY <3>1, <3>2
  <2>2. CASE cFile # << >>
    BY <1>2, <2>2 DEF TestFile, Scripts
  <2> QED BY <2>1, <2>2
<1>3. CASE TruncateFile(p)
  BY <1>3 DEF TruncateFile
<1>4. CASE EchoZero(p)
  <2>1. cFile' \in Seq(Nat)
    <3>1. CASE cFile = << >>
      BY <1>4, <3>1 DEF EchoZero
    <3>2. CASE cFile # << >>
      BY <1>4, <3>2 DEF EchoZero
    <3> QED BY <3>1, <3>2
  <2> QED BY <1>4, <2>1 DEF EchoZero
<1>5. CASE SemWait(p)
  BY <1>5 DEF SemWait
<1>6. CASE Enter(p)
  BY <1>6 DEF Enter
<1>7. CASE ReadCount(p)
  <2>1. Count \in Nat
    BY CountIsNat
  <2> HIDE DEF Count
  <2> QED BY <1>7, <2>1 DEF ReadCount
<1>8. CASE WriteCount(p)
  <2>1. cTmp[p] + 1 \in Nat
    OBVIOUS
  <2>2. cFile' \in Seq(Nat) /\ cFile' # << >>
    <3>1. CASE cProgram = "ex3.c"
      BY <1>8, <2>1, <3>1 DEF WriteCount
    <3>2. CASE cProgram # "ex3.c"
      <4>1. cFile' = Append(cFile, cTmp[p] + 1) /\ cFile \in Seq(Nat)
        BY <1>8, <3>2 DEF WriteCount
      <4>2. Len(cFile') = Len(cFile) + 1 /\ cFile' \in Seq(Nat) /\ Len(cFile) \in Nat
        BY <2>1, <4>1
      <4> QED BY <4>2
    <3> QED BY <3>1, <3>2
  <2> QED BY <1>8, <2>2 DEF WriteCount
<1>9. CASE Leave(p)
  BY <1>9 DEF Leave
<1> QED BY <1>1, <1>2, <1>3, <1>4, <1>5, <1>6, <1>7, <1>8, <1>9

LEMMA OneInsideStep ==
  ASSUME CounterTypes, OneInside, CounterNext PROVE OneInside'
<1>1. PICK p \in Counting :
        \/ TestFile(p) \/ TruncateFile(p) \/ EchoZero(p) \/ SemWait(p) \/ Enter(p)
        \/ ReadCount(p) \/ WriteCount(p) \/ Leave(p)
  BY DEF CounterNext
<1> SUFFICES ASSUME Locked' PROVE OneInside'
  BY DEF OneInside
<1>2. Locked /\ cProgram' = cProgram
  BY <1>1 DEF Locked, TestFile, TruncateFile, EchoZero, SemWait, Enter, ReadCount,
              WriteCount, Leave
<1> USE DEF CounterTypes, OneInside, At, Inside
<1>3. CASE TestFile(p) \/ TruncateFile(p) \/ EchoZero(p)
  BY <1>2, <1>3 DEF TestFile, TruncateFile, EchoZero
<1>4. CASE SemWait(p) \/ Enter(p)
  <2>1. cFree /\ ~cFree' /\ cPc' = [cPc EXCEPT ![p] = "read"]
    BY <1>2, <1>4 DEF SemWait, Enter, mayEnter
  <2> QED BY <1>2, <2>1
<1>5. CASE ReadCount(p) \/ WriteCount(p)
  <2>1. /\ cPc[p] \in Inside /\ cPc'[p] \in Inside /\ cFree' = cFree
        /\ \A q \in Counting \ {p} : cPc'[q] = cPc[q]
    BY <1>5 DEF ReadCount, WriteCount
  <2> QED BY <1>2, <2>1
<1>6. CASE Leave(p)
  <2>1. cPc[p] = "leave" /\ cPc' = [cPc EXCEPT ![p] = "begin"]
    BY <1>6 DEF Leave
  <2>2. \A q \in Counting : cPc'[q] \notin Inside
    BY <1>2, <2>1
  <2> QED BY <2>2
<1> QED BY <1>1, <1>3, <1>4, <1>5, <1>6

LEMMA CountWritten ==
  ASSUME CounterTypes, NEW p \in Counting, WriteCount(p)
  PROVE  Count' = cTmp[p] + 1 /\ cFile' # << >>
<1>1. cTmp[p] + 1 \in Nat /\ cFile \in Seq(Nat)
  BY DEF CounterTypes
<1>2. CASE cProgram = "ex3.c"
  <2>1. cFile' = <<cTmp[p] + 1>>
    BY <1>2 DEF WriteCount
  <2> QED BY <1>1, <2>1 DEF Count
<1>3. CASE cProgram # "ex3.c"
  <2>1. cFile' = Append(cFile, cTmp[p] + 1)
    BY <1>3 DEF WriteCount
  <2>2. cFile' # << >> /\ Len(cFile') = Len(cFile) + 1 /\ Len(cFile) \in Nat
    BY <1>1, <2>1
  <2>3. cFile'[Len(cFile) + 1] = cTmp[p] + 1
    BY <1>1, <2>1
  <2> QED BY <2>2, <2>3 DEF Count
<1> QED BY <1>2, <1>3

LEMMA NotTooManyStep ==
  ASSUME CounterTypes, CounterTypes', NotTooMany, CounterNext PROVE NotTooMany'
<1>1. PICK p \in Counting :
        \/ TestFile(p) \/ TruncateFile(p) \/ EchoZero(p) \/ SemWait(p) \/ Enter(p)
        \/ ReadCount(p) \/ WriteCount(p) \/ Leave(p)
  BY DEF CounterNext
<1>2. /\ RunsEnded \in Int /\ Count \in Nat /\ Count' \in Nat
      /\ \A q \in Counting : cTmp[q] \in Nat /\ cTmp'[q] \in Nat
  <2>1. RunsEnded \in Int /\ Count \in Nat
    BY CountedTypes, CountIsNat
  <2>2. Count' \in Nat
    BY CountIsNatNext
  <2>3. \A q \in Counting : cTmp[q] \in Nat
    BY DEF CounterTypes
  <2>4. \A q \in Counting : cTmp'[q] \in Nat
    BY DEF CounterTypes
  <2> QED BY <2>1, <2>2, <2>3, <2>4
<1>3. CASE TestFile(p) \/ TruncateFile(p) \/ EchoZero(p) \/ SemWait(p) \/ Enter(p)
  <2>1. Adds(p, 0)
    BY <1>3 DEF TestFile, TruncateFile, EchoZero, SemWait, Enter, At, Adds, RunsDone,
                CounterTypes, Opening, Inside
  <2>2. RunsEnded' = RunsEnded
    BY <1>2, <2>1, RunsMove
  <2>3. Count' = Count \/ Count' = 0
    <3>1. CASE TruncateFile(p)
      BY <3>1 DEF TruncateFile, Count
    <3>2. CASE EchoZero(p)
      <4>1. CASE cFile = << >>
        BY <3>2, <4>1 DEF EchoZero, Count
      <4>2. CASE cFile # << >>
        <5>1. cFile' = [cFile EXCEPT ![1] = 0] /\ Len(cFile') = Len(cFile)
          BY <3>2, <4>2 DEF EchoZero, CounterTypes
        <5>2. cFile' # << >> /\ Len(cFile) \in DOMAIN cFile
          BY <4>2, <5>1 DEF CounterTypes
        <5> QED BY <4>2, <5>1, <5>2 DEF Count
      <4> QED BY <4>1, <4>2
    <3>3. CASE ~TruncateFile(p) /\ ~EchoZero(p)
      BY <1>3, <3>3 DEF TestFile, SemWait, Enter, Count
    <3> QED BY <3>1, <3>2, <3>3
  <2>4. \A q \in Counting : /\ cTmp'[q] = cTmp[q]
                            /\ cPc'[q] = "write" => cPc[q] = "write"
    BY <1>3 DEF TestFile, TruncateFile, EchoZero, SemWait, Enter, At, CounterTypes,
                Opening, Inside
  <2>5. 0 <= RunsEnded
    BY <1>2 DEF NotTooMany
  <2> QED BY <1>2, <2>2, <2>3, <2>4, <2>5 DEF NotTooMany
<1>4. CASE ReadCount(p)
  <2>1. Adds(p, 0)
    BY <1>4 DEF ReadCount, At, Adds, RunsDone, CounterTypes
  <2>2. RunsEnded' = RunsEnded /\ Count' = Count
    BY <1>2, <1>4, <2>1, RunsMove DEF ReadCount, Count
  <2>3. \A q \in Counting : \/ cTmp'[q] = Count
                            \/ cTmp'[q] = cTmp[q] /\ cPc'[q] = cPc[q]
    BY <1>4 DEF ReadCount, At, CounterTypes
  <2> QED BY <1>2, <2>2, <2>3 DEF NotTooMany
<1>5. CASE WriteCount(p)
  <2>1. Adds(p, 1)
    BY <1>5 DEF WriteCount, At, Adds, RunsDone, CounterTypes
  <2>2. RunsEnded' = RunsEnded + 1
    BY <1>2, <2>1, RunsMove
  <2>3. Count' = cTmp[p] + 1
    BY <1>2, <1>5, CountWritten
  <2>4. cPc[p] = "write"
    BY <1>5 DEF WriteCount, At
  <2>5. \A q \in Counting : /\ cTmp'[q] = cTmp[q]
                            /\ cPc'[q] = "write" => cPc[q] = "write"
    BY <1>5 DEF WriteCount, At, CounterTypes
  <2> QED BY <1>2, <2>2, <2>3, <2>4, <2>5 DEF NotTooMany
<1>6. CASE Leave(p)
  <2>1. Adds(p, 0)
    BY <1>6 DEF Leave, At, Adds, RunsDone, CounterTypes
  <2>2. RunsEnded' = RunsEnded /\ Count' = Count
    BY <1>2, <1>6, <2>1, RunsMove DEF Leave, Count
  <2>3. \A q \in Counting : /\ cTmp'[q] = cTmp[q]
                            /\ cPc'[q] = "write" => cPc[q] = "write"
    BY <1>6 DEF Leave, At, CounterTypes
  <2> QED BY <1>2, <2>2, <2>3 DEF NotTooMany
<1> QED BY <1>1, <1>3, <1>4, <1>5, <1>6

LEMMA NoneLostStep ==
  ASSUME CounterTypes, CounterTypes', OneInside, NoneLost, CounterNext
  PROVE  NoneLost'
<1>1. PICK p \in Counting :
        \/ TestFile(p) \/ TruncateFile(p) \/ EchoZero(p) \/ SemWait(p) \/ Enter(p)
        \/ ReadCount(p) \/ WriteCount(p) \/ Leave(p)
  BY DEF CounterNext
<1> SUFFICES ASSUME Locked', cEmpty' <= 1 PROVE NoneLost'
  BY DEF NoneLost
<1>2. /\ RunsEnded \in Int /\ Count \in Nat /\ Count' \in Nat
      /\ \A q \in Counting : cTmp[q] \in Nat /\ cTmp'[q] \in Nat
  <2>1. RunsEnded \in Int /\ Count \in Nat
    BY CountedTypes, CountIsNat
  <2>2. Count' \in Nat
    BY CountIsNatNext
  <2>3. \A q \in Counting : cTmp[q] \in Nat
    BY DEF CounterTypes
  <2>4. \A q \in Counting : cTmp'[q] \in Nat
    BY DEF CounterTypes
  <2> QED BY <2>1, <2>2, <2>3, <2>4
<1>3. Locked /\ cEmpty <= 1
  BY <1>1 DEF Locked, TestFile, TruncateFile, EchoZero, SemWait, Enter, ReadCount,
              WriteCount, Leave, CounterTypes
<1>4. Count = RunsEnded /\ \A q \in Counting : cPc[q] = "write" => cTmp[q] = Count
  BY <1>3 DEF NoneLost
<1>5. CASE TestFile(p)
  <2>1. Adds(p, 0)
    BY <1>5 DEF TestFile, At, Adds, RunsDone, CounterTypes
  <2>2. RunsEnded' = RunsEnded /\ Count' = Count /\ cFile' = cFile
    BY <1>2, <1>5, <2>1, RunsMove DEF TestFile, Count
  <2>3. \A q \in Counting : /\ cTmp'[q] = cTmp[q] /\ cDone'[q] = cDone[q]
                            /\ cPc'[q] = "write" => cPc[q] = "write"
    BY <1>5 DEF TestFile, At, CounterTypes
  <2>4. CASE cFile = << >>
    <3>1. cEmpty = 0 /\ cEmpty' = 1 /\ cPc' = [cPc EXCEPT ![p] = "truncate"]
      BY <1>5, <2>4 DEF TestFile, At, CounterTypes
    <3>2. \A q \in Counting : cPc[q] = "begin" /\ cDone[q] = 0
      BY <1>3, <2>4, <3>1 DEF NoneLost
    <3> QED BY <1>4, <2>2, <2>3, <2>4, <3>1, <3>2 DEF NoneLost, Opening, CounterTypes
  <2>5. CASE cFile # << >>
    <3>1. cPc' = [cPc EXCEPT ![p] = "enter"]
      BY <1>5, <2>5 DEF TestFile, At
    <3> QED BY <1>3, <1>4, <2>2, <2>3, <2>5, <3>1 DEF NoneLost, Opening, CounterTypes
  <2> QED BY <2>4, <2>5
<1>6. CASE TruncateFile(p) \/ EchoZero(p)
  <2>1. cPc[p] \in Opening /\ cFile = << >>
    BY <1>3, <1>6 DEF TruncateFile, EchoZero, At, Opening, NoneLost
  <2>2. Adds(p, 0)
    BY <1>6 DEF TruncateFile, EchoZero, At, Adds, RunsDone, CounterTypes
  <2>3. RunsEnded' = RunsEnded /\ Count' = 0 /\ Count = 0
    BY <1>2, <1>6, <2>1, <2>2, RunsMove DEF TruncateFile, EchoZero, Count
  <2>4. \A q \in Counting : /\ cDone[q] = 0 /\ cDone'[q] = 0
                            /\ q # p => cPc[q] = "begin" /\ cPc'[q] = "begin"
    BY <1>3, <1>6, <2>1 DEF TruncateFile, EchoZero, At, NoneLost, CounterTypes
  <2>5. cEmpty' = cEmpty /\ cEmpty # 0
    BY <1>3, <1>6, <2>1 DEF TruncateFile, EchoZero, NoneLost, Opening
  <2>6. CASE TruncateFile(p)
    <3>1. cFile' = << >> /\ cPc'[p] = "echo"
      BY <2>6 DEF TruncateFile, At, CounterTypes
    <3> QED BY <1>4, <2>3, <2>4, <2>5, <3>1 DEF NoneLost, Opening
  <2>7. CASE EchoZero(p)
    <3>1. cFile' # << >> /\ cPc'[p] = "enter"
      BY <2>1, <2>7 DEF EchoZero, At, CounterTypes
    <3> QED BY <1>4, <2>3, <2>4, <2>5, <3>1 DEF NoneLost, Opening
  <2> QED BY <1>6, <2>6, <2>7
<1>7. CASE SemWait(p) \/ Enter(p)
  <2>1. Adds(p, 0)
    BY <1>7 DEF SemWait, Enter, At, Adds, RunsDone, CounterTypes
  <2>2. RunsEnded' = RunsEnded /\ Count' = Count /\ cFile' = cFile /\ cEmpty' = cEmpty
    BY <1>2, <1>7, <2>1, RunsMove DEF SemWait, Enter, Count
  <2>3. /\ cTmp' = cTmp /\ cPc' = [cPc EXCEPT ![p] = "read"]
        /\ cProgram = "ex3.c" \/ cPc[p] = "enter"
    BY <1>7 DEF SemWait, Enter, At
  <2>4. cFile # << >>
    <3>1. CASE cPc[p] = "enter"
      BY <1>3, <3>1 DEF NoneLost, Opening
    <3>2. CASE cProgram = "ex3.c"
      BY <3>2 DEF CounterTypes
    <3> QED BY <2>3, <3>1, <3>2
  <2> QED BY <1>3, <1>4, <2>2, <2>3, <2>4 DEF NoneLost, Opening, CounterTypes
<1>8. CASE ReadCount(p) \/ Leave(p)
  <2>1. Adds(p, 0)
    BY <1>8 DEF ReadCount, Leave, At, Adds, RunsDone, CounterTypes
  <2>2. RunsEnded' = RunsEnded /\ Count' = Count /\ cFile' = cFile /\ cEmpty' = cEmpty
    BY <1>2, <1>8, <2>1, RunsMove DEF ReadCount, Leave, Count
  <2>3. /\ cPc[p] \notin {"begin"} \cup Opening /\ cPc'[p] \notin Opening
        /\ \A q \in Counting \ {p} : cPc'[q] = cPc[q]
    BY <1>8 DEF ReadCount, Leave, At, Opening, CounterTypes
  <2>4. cFile # << >>
    BY <1>3, <2>3 DEF NoneLost
  <2>5. \A q \in Counting : \/ cPc'[q] # "write" \/ cTmp'[q] = Count
                            \/ cTmp'[q] = cTmp[q] /\ cPc[q] = "write"
    BY <1>8 DEF ReadCount, Leave, At, CounterTypes
  <2> QED BY <1>3, <1>4, <2>2, <2>3, <2>4, <2>5 DEF NoneLost
<1>9. CASE WriteCount(p)
  <2>1. Adds(p, 1)
    BY <1>9 DEF WriteCount, At, Adds, RunsDone, CounterTypes
  <2>2. RunsEnded' = RunsEnded + 1
    BY <1>2, <2>1, RunsMove
  <2>3. Count' = cTmp[p] + 1 /\ cFile' # << >>
    BY <1>2, <1>9, CountWritten
  <2>4. cPc[p] = "write" /\ cTmp[p] = Count /\ cFile # << >>
    BY <1>3, <1>4, <1>9 DEF WriteCount, At, NoneLost, Opening
  <2>5. \A q \in Counting : /\ cPc'[q] # "write"
                            /\ cPc'[q] \in Opening => cPc[q] \in Opening
    BY <1>3, <1>9, <2>4 DEF WriteCount, At, CounterTypes, OneInside, Inside, Opening
  <2> QED BY <1>2, <1>3, <1>4, <2>2, <2>3, <2>4, <2>5 DEF NoneLost
<1> QED BY <1>1, <1>5, <1>6, <1>7, <1>8, <1>9

\* However the processes interleave no run is counted twice, and with a lock none
\* is lost unless two found the file empty.
THEOREM NoRunIsLost == CounterSpec => []CountsAreNotLost
<1>1. CounterInv /\ [CounterNext]_cVars => CounterInv'
  <2> SUFFICES ASSUME CounterInv, [CounterNext]_cVars PROVE CounterInv'
    OBVIOUS
  <2>1. CASE CounterNext
    BY <2>1, CounterTyped, OneInsideStep, NotTooManyStep, NoneLostStep DEF CounterInv
  <2>2. CASE UNCHANGED cVars
    <3>1. CounterTypes' /\ OneInside'
      BY <2>2 DEF cVars, CounterInv, CounterTypes, OneInside, Locked
    <3>2. RunsDone' = RunsDone
      BY <2>2 DEF cVars, RunsDone
    <3>3. RunsEnded' = RunsEnded
      <4>1. RunsEnded = SumOf(RunsDone, Counting)
        BY CountedTypes DEF CounterInv
      <4>2. RunsEnded' = SumOf(RunsDone', Counting)
        BY AddedIsSum DEF RunsEnded
      <4> QED BY <3>2, <4>1, <4>2
    <3>4. Count' = Count
      BY <2>2 DEF cVars, Count
    <3>5. NotTooMany' /\ NoneLost'
      BY <2>2, <3>3, <3>4 DEF cVars, CounterInv, NotTooMany, NoneLost, Locked
    <3> QED BY <3>1, <3>5 DEF CounterInv
  <2> QED BY <2>1, <2>2
<1>2. CounterInv => CountsAreNotLost
  BY DEF CounterInv, NotTooMany, NoneLost, CountsAreNotLost
<1> QED BY CounterAtFirst, <1>1, <1>2, PTL DEF CounterSpec
-----------------------------------------------------------------------------
\* The sorts.
Entry == [line : Nat, value : Values]

Transitive(R) == \A x, y, z : <<x, y>> \in R /\ <<y, z>> \in R => <<x, z>> \in R
Sorted(R, s) == \A k, l \in DOMAIN s : k < l => <<s[k], s[l]>> \in R

\* What s is when it was merged from what follows the first i of a and j of b.
RestOf(s, i) == {s[k] : k \in (i + 1)..Len(s)}
MergedFrom(R, a, b, i, j, s) ==
  /\ s \in Seq(Entry) /\ Len(s) = (Len(a) - i) + (Len(b) - j)
  /\ RestOf(s, 0) = RestOf(a, i) \cup RestOf(b, j)
  /\ Sorted(R, s)

\* The comparison never says what R does not.
Allows(type, sort, R, x, y) ==
  /\ TRUE \in takesFront(type, sort, x, y) => <<x, y>> \in R
  /\ FALSE \in takesFront(type, sort, x, y) => <<y, x>> \in R

LEMMA RestParts ==
  ASSUME NEW s \in Seq(Entry), NEW i \in 0..(Len(s) - 1)
  PROVE  /\ s[i + 1] \in Entry /\ RestOf(s, i + 1) \subseteq Entry
         /\ RestOf(s, i) = {s[i + 1]} \cup RestOf(s, i + 1)
<1>1. \A k \in (i + 1)..Len(s) : k = i + 1 \/ k \in (i + 1 + 1)..Len(s)
  OBVIOUS
<1>2. \A k \in (i + 1 + 1)..Len(s) : k \in (i + 1)..Len(s) /\ s[k] \in Entry
  OBVIOUS
<1>3. i + 1 \in (i + 1)..Len(s) /\ s[i + 1] \in Entry
  OBVIOUS
<1> QED BY <1>1, <1>2, <1>3 DEF RestOf

LEMMA RestSorted ==
  ASSUME NEW s \in Seq(Entry), NEW R, Sorted(R, s), NEW i \in 0..(Len(s) - 1),
         NEW y \in RestOf(s, i + 1)
  PROVE  <<s[i + 1], y>> \in R
<1>1. PICK k \in (i + 1 + 1)..Len(s) : y = s[k]
  BY DEF RestOf
<1>2. k \in DOMAIN s /\ i + 1 \in DOMAIN s /\ i + 1 < k
  OBVIOUS
<1> QED BY <1>1, <1>2 DEF Sorted

\* An entry in front of a list.
LEMMA FrontedParts ==
  ASSUME NEW R, NEW x \in Entry, NEW s \in Seq(Entry)
  PROVE  /\ <<x>> \o s \in Seq(Entry) /\ Len(<<x>> \o s) = Len(s) + 1
         /\ RestOf(<<x>> \o s, 0) = {x} \cup RestOf(s, 0)
         /\ Sorted(R, s) /\ (\A y \in RestOf(s, 0) : <<x, y>> \in R) => Sorted(R, <<x>> \o s)
<1> DEFINE t == <<x>> \o s
<1>1. <<x>> \in Seq(Entry) /\ Len(<<x>>) = 1 /\ <<x>>[1] = x
  OBVIOUS
<1>2. /\ t \in Seq(Entry) /\ Len(t) = Len(s) + 1 /\ Len(s) \in Nat
      /\ t[1] = x /\ \A k \in 1..Len(s) : t[k + 1] = s[k]
  <2>1. /\ t \in Seq(Entry) /\ Len(t) = Len(<<x>>) + Len(s)
        /\ \A k \in 1..(Len(<<x>>) + Len(s)) :
             t[k] = IF k <= Len(<<x>>) THEN <<x>>[k] ELSE s[k - Len(<<x>>)]
    BY <1>1, ConcatProperties
  <2>2. t[1] = x
    <3>1. 1 \in 1..(Len(<<x>>) + Len(s)) /\ 1 <= Len(<<x>>)
      BY <1>1
    <3> QED BY <1>1, <2>1, <3>1
  <2>3. ASSUME NEW k \in 1..Len(s) PROVE t[k + 1] = s[k]
    <3>1. k + 1 \in 1..(Len(<<x>>) + Len(s)) /\ ~(k + 1 <= Len(<<x>>)) /\ k + 1 - Len(<<x>>) = k
      BY <1>1
    <3> QED BY <2>1, <3>1
  <2> QED BY <1>1, <2>1, <2>2, <2>3
<1> HIDE DEF t
<1>3. \A k \in 1..Len(t) : k = 1 \/ (k - 1 \in 1..Len(s) /\ k - 1 + 1 = k)
  BY <1>2
<1>4. RestOf(t, 0) = {x} \cup RestOf(s, 0)
  <2>1. RestOf(t, 0) = {t[k] : k \in 1..Len(t)} /\ RestOf(s, 0) = {s[k] : k \in 1..Len(s)}
    BY DEF RestOf
  <2>2. ASSUME NEW y \in RestOf(t, 0) PROVE y \in {x} \cup RestOf(s, 0)
    <3>1. PICK k \in 1..Len(t) : y = t[k]
      BY <2>1
    <3> QED BY <1>2, <1>3, <2>1, <3>1
  <2>3. ASSUME NEW y \in RestOf(s, 0) PROVE y \in RestOf(t, 0)
    <3>1. PICK k \in 1..Len(s) : y = s[k]
      BY <2>1
    <3>2. k + 1 \in 1..Len(t) /\ y = t[k + 1]
      BY <1>2, <3>1
    <3> QED BY <2>1, <3>2
  <2>4. 1 \in 1..Len(t) /\ x = t[1]
    BY <1>2
  <2> QED BY <2>1, <2>2, <2>3, <2>4
<1>5. ASSUME Sorted(R, s), \A y \in RestOf(s, 0) : <<x, y>> \in R
      PROVE  Sorted(R, t)
  <2>1. ASSUME NEW k \in DOMAIN t, NEW l \in DOMAIN t, k < l PROVE <<t[k], t[l]>> \in R
    <3>1. k \in 1..Len(t) /\ l \in 1..Len(t) /\ l - 1 \in 1..Len(s) /\ l - 1 + 1 = l
      BY <1>2, <2>1
    <3>2. t[l] = s[l - 1]
      BY <1>2, <3>1
    <3>3. CASE k = 1
      <4>1. s[l - 1] \in RestOf(s, 0)
        BY <3>1 DEF RestOf
      <4> QED BY <1>2, <1>5, <3>2, <3>3, <4>1
    <3>4. CASE k # 1
      <4>1. k - 1 \in 1..Len(s) /\ k - 1 + 1 = k /\ k - 1 < l - 1
        BY <1>3, <2>1, <3>1, <3>4
      <4>2. t[k] = s[k - 1]
        BY <1>2, <4>1
      <4>3. k - 1 \in DOMAIN s /\ l - 1 \in DOMAIN s
        BY <3>1, <4>1
      <4> QED BY <1>5, <3>2, <4>1, <4>2, <4>3 DEF Sorted
    <3> QED BY <3>3, <3>4
  <2> QED BY <2>1 DEF Sorted
<1> QED BY <1>2, <1>4, <1>5 DEF t

\* A part of a list.
Piece(s, i, m) == {s[k] : k \in (i + 1)..(i + m)}
PieceOf(R, s, i, m, t) ==
  t \in Seq(Entry) /\ Len(t) = m /\ RestOf(t, 0) = Piece(s, i, m) /\ Sorted(R, t)

LEMMA SuffixParts ==
  ASSUME NEW R, NEW s \in Seq(Entry), NEW i \in Nat, NEW m \in Nat, i + m <= Len(s),
         Sorted(R, s), NEW t, t = SubSeq(s, i + 1, i + m)
  PROVE  PieceOf(R, s, i, m, t)
<1>1. i \in Nat /\ m \in Nat /\ Len(s) \in Nat /\ i + m <= Len(s)
  OBVIOUS
<1>2. \A k \in (i + 1)..(i + m) : s[k] \in Entry
  BY <1>1
<1>3. /\ t \in Seq(Entry) /\ Len(t) = m /\ \A k \in 1..m : t[k] = s[i + k]
  <2>1. /\ SubSeq(s, i + 1, i + m) \in Seq(Entry)
        /\ Len(SubSeq(s, i + 1, i + m)) = IF i + 1 <= i + m THEN (i + m) - (i + 1) + 1 ELSE 0
        /\ \A k \in 1..((i + m) - (i + 1) + 1) : SubSeq(s, i + 1, i + m)[k] = s[i + 1 + k - 1]
    BY <1>1, <1>2, SubSeqProperties
  <2>2. \A k \in 1..m : k \in 1..((i + m) - (i + 1) + 1) /\ i + 1 + k - 1 = i + k
    BY <1>1
  <2> QED BY <1>1, <2>1, <2>2
<1>4. RestOf(t, 0) = Piece(s, i, m)
  <2>1. RestOf(t, 0) = {t[k] : k \in 1..m}
    <3>1. 0 + 1 = 1 /\ Len(t) = m
      BY <1>3
    <3> QED BY <3>1, Zenon DEF RestOf
  <2>2. \A k \in 1..m : i + k \in (i + 1)..(i + m)
    BY <1>1
  <2>3. \A k \in (i + 1)..(i + m) : k - i \in 1..m /\ i + (k - i) = k
    BY <1>1
  <2>4. ASSUME NEW y \in RestOf(t, 0) PROVE y \in Piece(s, i, m)
    <3>1. PICK k \in 1..m : y = t[k]
      BY <2>1
    <3> QED BY <1>3, <2>2, <3>1 DEF Piece
  <2>5. ASSUME NEW k \in (i + 1)..(i + m) PROVE s[k] \in RestOf(t, 0)
    <3>1. k - i \in 1..m /\ s[k] = t[k - i]
      BY <1>3, <2>3
    <3> QED BY <2>1, <3>1
  <2> QED BY <2>4, <2>5 DEF Piece
<1>5. Sorted(R, t)
  <2>1. ASSUME NEW k \in DOMAIN t, NEW l \in DOMAIN t, k < l PROVE <<t[k], t[l]>> \in R
    <3>1. k \in 1..m /\ l \in 1..m
      BY <1>3
    <3>2. i + k \in DOMAIN s /\ i + l \in DOMAIN s /\ i + k < i + l
      BY <1>1, <2>1, <3>1
    <3> QED BY <1>3, <3>1, <3>2 DEF Sorted
  <2> QED BY <2>1 DEF Sorted
<1> QED BY <1>3, <1>4, <1>5 DEF PieceOf

Suffix(R, s, i, t) ==
  /\ t \in Seq(Entry) /\ Len(t) = Len(s) - i
  /\ RestOf(t, 0) = RestOf(s, i) /\ Sorted(R, t)

LEMMA SuffixIs ==
  ASSUME NEW R, NEW s \in Seq(Entry), NEW i \in 0..Len(s), Sorted(R, s)
  PROVE  Suffix(R, s, i, SubSeq(s, i + 1, Len(s)))
<1> DEFINE m == Len(s) - i
           t == SubSeq(s, i + 1, Len(s))
<1>1. i \in Nat /\ m \in Nat /\ i + m = Len(s) /\ i + m <= Len(s)
  OBVIOUS
<1>2. t = SubSeq(s, i + 1, i + m)
  BY <1>1
<1> HIDE DEF m, t
<1>3. PieceOf(R, s, i, m, t)
  BY <1>1, <1>2, SuffixParts
<1>4. t \in Seq(Entry) /\ Len(t) = m /\ RestOf(t, 0) = Piece(s, i, m) /\ Sorted(R, t)
  BY <1>3, Zenon DEF PieceOf
<1>6. RestOf(t, 0) = RestOf(s, i)
  BY <1>1, <1>4, Zenon DEF RestOf, Piece
<1> QED BY <1>4, <1>6 DEF Suffix, m, t

\* One equation of merge.
Merging(type, sort, a, b, m, i, j) ==
  IF i = Len(a) THEN {SubSeq(b, j + 1, Len(b))}
  ELSE IF j = Len(b) THEN {SubSeq(a, i + 1, Len(a))}
  ELSE LET takes == takesFront(type, sort, a[i + 1], b[j + 1])
       IN  (IF TRUE \in takes THEN Fronted(a[i + 1], m[<<i + 1, j>>]) ELSE {})
             \cup
           (IF FALSE \in takes THEN Fronted(b[j + 1], m[<<i, j + 1>>]) ELSE {})

MergeSolves(type, sort, a, b, m) ==
  \A i \in 0..Len(a), j \in 0..Len(b) : m[<<i, j>>] = Merging(type, sort, a, b, m, i, j)

LEMMA FrontedLists ==
  ASSUME NEW x \in Entry, NEW lists \in SUBSET Seq(Entry)
  PROVE  Fronted(x, lists) \in SUBSET Seq(Entry)
BY FrontedParts DEF Fronted

LEMMA MergeIsSolved ==
  ASSUME NEW type, NEW sort, NEW a \in Seq(Entry), NEW b \in Seq(Entry)
  PROVE  \E m : MergeSolves(type, sort, a, b, m) /\ merge(type, sort, a, b) = m[<<0, 0>>]
<1> DEFINE D == (0..Len(a)) \X (0..Len(b))
           V == SUBSET Seq(Entry)
           bound == Len(a) + Len(b)
           rank == [ij \in D |-> (Len(a) - ij[1]) + (Len(b) - ij[2])]
           Body(m, ij) == Merging(type, sort, a, b, m, ij[1], ij[2])
           F == [m \in [D -> V] |-> [ij \in D |-> Body(m, ij)]]
           M == CHOOSE m : m = [ij \in D |-> Body(m, ij)]
<1>1. Len(a) \in Nat /\ Len(b) \in Nat /\ bound \in Nat /\ V # {}
  OBVIOUS
<1>2. merge(type, sort, a, b) = M[<<0, 0>>]
  BY Zenon DEF merge, Merging
<1>3. ASSUME NEW ij \in D
      PROVE  /\ ij = <<ij[1], ij[2]>> /\ ij[1] \in 0..Len(a) /\ ij[2] \in 0..Len(b)
             /\ rank[ij] \in 0..bound
  OBVIOUS
<1>4. ASSUME NEW i \in 0..Len(a), NEW j \in 0..Len(b), i # Len(a), j # Len(b)
      PROVE  /\ <<i + 1, j>> \in D /\ <<i, j + 1>> \in D
             /\ a[i + 1] \in Entry /\ b[j + 1] \in Entry
             /\ rank[<<i + 1, j>>] < rank[<<i, j>>]
             /\ rank[<<i, j + 1>>] < rank[<<i, j>>]
  <2>1. i + 1 \in 1..Len(a) /\ j + 1 \in 1..Len(b)
    BY <1>1, <1>4
  <2>2. <<i + 1, j>> \in D /\ <<i, j + 1>> \in D /\ <<i, j>> \in D
    BY <1>1, <2>1
  <2> QED BY <1>1, <2>1, <2>2
<1>5. ASSUME NEW m \in [D -> V], NEW ij \in D PROVE Body(m, ij) \in V
  <2>1. PICK i \in 0..Len(a), j \in 0..Len(b) : ij = <<i, j>> /\ ij[1] = i /\ ij[2] = j
    BY <1>3
  <2>2. CASE i = Len(a)
    <3>1. SubSeq(b, j + 1, Len(b)) \in Seq(Entry)
      BY <1>1, SubSeqProperties
    <3> QED BY <2>1, <2>2, <3>1 DEF Merging
  <2>3. CASE i # Len(a) /\ j = Len(b)
    <3>1. SubSeq(a, i + 1, Len(a)) \in Seq(Entry)
      BY <1>1, SubSeqProperties
    <3> QED BY <2>1, <2>3, <3>1 DEF Merging
  <2>4. CASE i # Len(a) /\ j # Len(b)
    <3>1. m[<<i + 1, j>>] \in V /\ m[<<i, j + 1>>] \in V
      BY <1>4, <2>4
    <3>2. Fronted(a[i + 1], m[<<i + 1, j>>]) \in V /\ Fronted(b[j + 1], m[<<i, j + 1>>]) \in V
      BY <1>4, <2>4, <3>1, FrontedLists
    <3> QED BY <2>1, <2>4, <3>2 DEF Merging
  <2> QED BY <2>2, <2>3, <2>4
<1>6. LooksBelow(F, D, V, rank)
  <2>1. ASSUME NEW g \in [D -> V], NEW h \in [D -> V], NEW ij \in D,
               \A y \in D : rank[y] < rank[ij] => g[y] = h[y]
        PROVE  Body(g, ij) = Body(h, ij)
    <3>1. PICK i \in 0..Len(a), j \in 0..Len(b) : ij = <<i, j>> /\ ij[1] = i /\ ij[2] = j
      BY <1>3
    <3>2. CASE i = Len(a) \/ j = Len(b)
      BY <3>1, <3>2 DEF Merging
    <3>3. CASE i # Len(a) /\ j # Len(b)
      <4>1. g[<<i + 1, j>>] = h[<<i + 1, j>>] /\ g[<<i, j + 1>>] = h[<<i, j + 1>>]
        BY <1>4, <2>1, <3>1, <3>3
      <4> QED BY <3>1, <4>1, Zenon DEF Merging
    <3> QED BY <3>2, <3>3
  <2> HIDE DEF Body, D, V, rank
  <2> QED BY <2>1 DEF LooksBelow
<1>7. \A ij \in D : rank[ij] \in 0..bound
  BY <1>3
<1>8. F \in [[D -> V] -> [D -> V]]
  <2> HIDE DEF Body, D, V
  <2> QED BY <1>5
<1>9. \A m \in [D -> V] : F[m] = [ij \in D |-> Body(m, ij)]
  OBVIOUS
<1> HIDE DEF F, rank, D, V, bound, Body
<1>10. PICK h : FixedBy(F, D, V, h)
  <2>1. Recursion(F, D, V, rank, bound)
    BY <1>1, <1>6, <1>7, <1>8, Zenon DEF Recursion
  <2> QED BY <2>1, RankRecursion, Zenon
<1>11. h = [ij \in D |-> Body(h, ij)]
  BY <1>9, <1>10 DEF FixedBy
<1>12. M = [ij \in D |-> Body(M, ij)]
  BY <1>11, Zenon
<1> HIDE DEF M
<1>13. \A ij \in D : M[ij] = Body(M, ij)
  BY <1>12, Zenon
<1>14. MergeSolves(type, sort, a, b, M)
  <2>1. ASSUME NEW i \in 0..Len(a), NEW j \in 0..Len(b)
        PROVE  M[<<i, j>>] = Merging(type, sort, a, b, M, i, j)
    <3>1. <<i, j>> \in D /\ <<i, j>>[1] = i /\ <<i, j>>[2] = j
      BY DEF D
    <3> QED BY <1>13, <3>1 DEF Body
  <2> QED BY <2>1 DEF MergeSolves
<1> QED BY <1>2, <1>14

\* merge puts two lists in order together, if comparisons tell the order.
LEMMA MergeSorts ==
  ASSUME NEW type, NEW sort, NEW a \in Seq(Entry), NEW b \in Seq(Entry),
         NEW R, Transitive(R), Sorted(R, a), Sorted(R, b),
         \A x \in RestOf(a, 0), y \in RestOf(b, 0) : Allows(type, sort, R, x, y)
  PROVE  \A s \in merge(type, sort, a, b) : MergedFrom(R, a, b, 0, 0, s)
<1>1. PICK m : MergeSolves(type, sort, a, b, m) /\ merge(type, sort, a, b) = m[<<0, 0>>]
  BY MergeIsSolved
<1> DEFINE Left(i, j) == (Len(a) - i) + (Len(b) - j)
           Good(i, j) == \A s \in m[<<i, j>>] : MergedFrom(R, a, b, i, j, s)
           bad == {n \in Nat : \E i \in 0..Len(a), j \in 0..Len(b) :
                                 Left(i, j) = n /\ ~Good(i, j)}
<1>2. Len(a) \in Nat /\ Len(b) \in Nat
  OBVIOUS
<1>3. ASSUME NEW s \in Seq(Entry), NEW k \in 0..Len(s) PROVE RestOf(s, k) \subseteq RestOf(s, 0)
  BY DEF RestOf
<1>4. ASSUME NEW i \in 0..Len(a), NEW j \in 0..Len(b), i = Len(a) \/ j = Len(b)
      PROVE  Good(i, j)
  <2>1. CASE i = Len(a)
    <3> DEFINE t == SubSeq(b, j + 1, Len(b))
    <3>2. Suffix(R, b, j, t)
      BY SuffixIs, Zenon
    <3>3. RestOf(a, i) = {}
      BY <2>1, <1>2 DEF RestOf
    <3>4. m[<<i, j>>] = {t}
      BY <1>1, <2>1 DEF MergeSolves, Merging, t
    <3> HIDE DEF t
    <3> QED BY <1>2, <2>1, <3>2, <3>3, <3>4 DEF MergedFrom, Suffix
  <2>2. CASE i # Len(a) /\ j = Len(b)
    <3> DEFINE t == SubSeq(a, i + 1, Len(a))
    <3>2. Suffix(R, a, i, t)
      BY SuffixIs, Zenon
    <3>3. RestOf(b, j) = {}
      BY <2>2, <1>2 DEF RestOf
    <3>4. m[<<i, j>>] = {t}
      BY <1>1, <2>2 DEF MergeSolves, Merging, t
    <3> HIDE DEF t
    <3> QED BY <1>2, <2>2, <3>2, <3>3, <3>4 DEF MergedFrom, Suffix
  <2> QED BY <1>4, <2>1, <2>2
<1>5. ASSUME NEW i \in 0..Len(a), NEW j \in 0..Len(b), i # Len(a), j # Len(b),
             Good(i + 1, j), Good(i, j + 1)
      PROVE  Good(i, j)
  <2> DEFINE x == a[i + 1]
             y == b[j + 1]
  <2>1. i \in 0..(Len(a) - 1) /\ j \in 0..(Len(b) - 1) /\ i + 1 \in 0..Len(a) /\ j + 1 \in 0..Len(b)
    BY <1>2, <1>5
  <2>2. /\ x \in Entry /\ RestOf(a, i) = {x} \cup RestOf(a, i + 1)
        /\ \A z \in RestOf(a, i + 1) : <<x, z>> \in R
    BY <2>1, RestParts, RestSorted
  <2>3. /\ y \in Entry /\ RestOf(b, j) = {y} \cup RestOf(b, j + 1)
        /\ \A z \in RestOf(b, j + 1) : <<y, z>> \in R
    BY <2>1, RestParts, RestSorted
  <2>4. Allows(type, sort, R, x, y)
    BY <1>3, <2>2, <2>3
  <2> HIDE DEF x, y
  <2>5. ASSUME NEW s \in m[<<i + 1, j>>], TRUE \in takesFront(type, sort, x, y)
        PROVE  MergedFrom(R, a, b, i, j, <<x>> \o s)
    <3>1. MergedFrom(R, a, b, i + 1, j, s)
      BY <1>5
    <3>2. \A z \in RestOf(s, 0) : <<x, z>> \in R
      BY <2>2, <2>3, <2>4, <2>5, <3>1 DEF MergedFrom, Allows, Transitive
    <3>3. /\ <<x>> \o s \in Seq(Entry) /\ Len(<<x>> \o s) = Len(s) + 1
          /\ RestOf(<<x>> \o s, 0) = {x} \cup RestOf(s, 0)
          /\ Sorted(R, <<x>> \o s)
      BY <2>2, <3>1, <3>2, FrontedParts DEF MergedFrom
    <3>4. RestOf(<<x>> \o s, 0) = RestOf(a, i) \cup RestOf(b, j)
      BY <2>2, <3>1, <3>3 DEF MergedFrom
    <3>5. Len(<<x>> \o s) = (Len(a) - i) + (Len(b) - j)
      BY <1>2, <3>1, <3>3 DEF MergedFrom
    <3> QED BY <3>3, <3>4, <3>5 DEF MergedFrom
  <2>6. ASSUME NEW s \in m[<<i, j + 1>>], FALSE \in takesFront(type, sort, x, y)
        PROVE  MergedFrom(R, a, b, i, j, <<y>> \o s)
    <3>1. MergedFrom(R, a, b, i, j + 1, s)
      BY <1>5
    <3>2. \A z \in RestOf(s, 0) : <<y, z>> \in R
      BY <2>2, <2>3, <2>4, <2>6, <3>1 DEF MergedFrom, Allows, Transitive
    <3>3. /\ <<y>> \o s \in Seq(Entry) /\ Len(<<y>> \o s) = Len(s) + 1
          /\ RestOf(<<y>> \o s, 0) = {y} \cup RestOf(s, 0)
          /\ Sorted(R, <<y>> \o s)
      BY <2>3, <3>1, <3>2, FrontedParts DEF MergedFrom
    <3>4. RestOf(<<y>> \o s, 0) = RestOf(a, i) \cup RestOf(b, j)
      BY <2>3, <3>1, <3>3 DEF MergedFrom
    <3>5. Len(<<y>> \o s) = (Len(a) - i) + (Len(b) - j)
      BY <1>2, <3>1, <3>3 DEF MergedFrom
    <3> QED BY <3>3, <3>4, <3>5 DEF MergedFrom
  <2>7. ASSUME NEW s \in m[<<i, j>>]
        PROVE  \/ TRUE \in takesFront(type, sort, x, y)
                  /\ \E r \in m[<<i + 1, j>>] : s = <<x>> \o r
               \/ FALSE \in takesFront(type, sort, x, y)
                  /\ \E r \in m[<<i, j + 1>>] : s = <<y>> \o r
    <3>1. s \in (IF TRUE \in takesFront(type, sort, x, y)
                 THEN Fronted(x, m[<<i + 1, j>>]) ELSE {})
                 \cup
                (IF FALSE \in takesFront(type, sort, x, y)
                 THEN Fronted(y, m[<<i, j + 1>>]) ELSE {})
      BY <1>1, <1>5 DEF MergeSolves, Merging, x, y
    <3> QED BY <3>1 DEF Fronted
  <2> QED BY <2>5, <2>6, <2>7
<1> HIDE DEF Good
<1>6. bad = {}
  <2> SUFFICES ASSUME bad # {} PROVE FALSE
    OBVIOUS
  <2>1. PICK n \in bad : \A k \in bad : n <= k
    BY LeastNat
  <2>2. PICK i \in 0..Len(a), j \in 0..Len(b) : Left(i, j) = n /\ ~Good(i, j)
    BY <2>1
  <2>3. i # Len(a) /\ j # Len(b)
    BY <1>4, <2>2
  <2>4. /\ i + 1 \in 0..Len(a) /\ j + 1 \in 0..Len(b)
        /\ Left(i + 1, j) \in Nat /\ Left(i, j + 1) \in Nat
        /\ ~(n <= Left(i + 1, j)) /\ ~(n <= Left(i, j + 1))
    BY <1>2, <2>2, <2>3
  <2>5. Good(i + 1, j) /\ Good(i, j + 1)
    BY <2>1, <2>4
  <2> QED BY <1>5, <2>2, <2>3, <2>5
<1>7. 0 \in 0..Len(a) /\ 0 \in 0..Len(b) /\ Left(0, 0) \in Nat
  BY <1>2
<1>8. Good(0, 0)
  BY <1>6, <1>7
<1> QED BY <1>1, <1>8 DEF Good

LEMMA AnyOrder ==
  LET R == Entry \X Entry
  IN  /\ Transitive(R) /\ \A s \in Seq(Entry) : Sorted(R, s)
      /\ \A type, sort : \A x, y \in Entry : Allows(type, sort, R, x, y)
<1>1. \A s \in Seq(Entry) : \A k \in DOMAIN s : s[k] \in Entry
  OBVIOUS
<1> QED BY <1>1 DEF Transitive, Sorted, Allows

LEMMA RestIsOfEntries ==
  ASSUME NEW s \in Seq(Entry), NEW i \in Nat PROVE RestOf(s, i) \subseteq Entry
<1>1. \A k \in (i + 1)..Len(s) : s[k] \in Entry
  OBVIOUS
<1> QED BY <1>1 DEF RestOf

LEMMA MergedLists ==
  ASSUME NEW type, NEW sort, NEW a \in Seq(Entry), NEW b \in Seq(Entry)
  PROVE  merge(type, sort, a, b) \in SUBSET Seq(Entry)
<1>1. PICK R : R = Entry \X Entry
  OBVIOUS
<1>2. Transitive(R) /\ Sorted(R, a) /\ Sorted(R, b)
  BY <1>1, AnyOrder
<1>3. \A x \in RestOf(a, 0), y \in RestOf(b, 0) : Allows(type, sort, R, x, y)
  <2>1. RestOf(a, 0) \subseteq Entry /\ RestOf(b, 0) \subseteq Entry
    BY RestIsOfEntries
  <2> QED BY <1>1, <2>1, AnyOrder
<1>4. \A s \in merge(type, sort, a, b) : MergedFrom(R, a, b, 0, 0, s)
  BY <1>2, <1>3, MergeSorts, Zenon
<1> QED BY <1>4 DEF MergedFrom

\* One equation of merge_sort.
FrontSize(n) == (n + 1) \div 2
Merges(type, sort, fronts, backs) ==
  UNION {merge(type, sort, a, b) : a \in fronts, b \in backs}
Sorting(type, sort, list, ms, lo, n) ==
  IF n < 2 THEN {SubSeq(list, lo, lo + n - 1)}
  ELSE Merges(type, sort, ms[<<lo, FrontSize(n)>>], ms[<<lo + FrontSize(n), n - FrontSize(n)>>])

SortSolves(type, sort, list, ms) ==
  \A part \in Parts(list) : ms[part] = Sorting(type, sort, list, ms, part[1], part[2])

LEMMA MergesOfLists ==
  ASSUME NEW type, NEW sort, NEW fronts \in SUBSET Seq(Entry), NEW backs \in SUBSET Seq(Entry)
  PROVE  Merges(type, sort, fronts, backs) \in SUBSET Seq(Entry)
<1>1. \A a \in fronts, b \in backs : merge(type, sort, a, b) \in SUBSET Seq(Entry)
  BY MergedLists
<1> QED BY <1>1 DEF Merges

LEMMA MergesAreMerged ==
  ASSUME NEW type, NEW sort, NEW fronts, NEW backs, NEW s \in Merges(type, sort, fronts, backs)
  PROVE  \E a \in fronts, b \in backs : s \in merge(type, sort, a, b)
BY DEF Merges

LEMMA PartsOfParts ==
  ASSUME NEW list \in Seq(Entry), NEW part \in Parts(list)
  PROVE  /\ part = <<part[1], part[2]>> /\ part[1] \in 1..(Len(list) + 1)
         /\ part[2] \in 0..Len(list) /\ part[1] + part[2] <= Len(list) + 1
         /\ ~(part[2] < 2) =>
              /\ FrontSize(part[2]) \in 1..(part[2] - 1)
              /\ <<part[1], FrontSize(part[2])>> \in Parts(list)
              /\ <<part[1] + FrontSize(part[2]), part[2] - FrontSize(part[2])>> \in Parts(list)
<1>1. PICK lo \in 1..(Len(list) + 1), n \in 0..Len(list) :
        part = <<lo, n>> /\ lo + n <= Len(list) + 1
  BY DEF Parts
<1>2. part[1] = lo /\ part[2] = n /\ Len(list) \in Nat
  BY <1>1
<1>3. ASSUME ~(n < 2)
      PROVE  /\ FrontSize(n) \in 1..(n - 1)
             /\ <<lo, FrontSize(n)>> \in Parts(list)
             /\ <<lo + FrontSize(n), n - FrontSize(n)>> \in Parts(list)
  <2>1. FrontSize(n) \in 1..(n - 1)
    BY <1>2, <1>3 DEF FrontSize
  <2>2. /\ FrontSize(n) \in 0..Len(list) /\ n - FrontSize(n) \in 0..Len(list)
        /\ lo + FrontSize(n) \in 1..(Len(list) + 1) /\ lo + FrontSize(n) <= Len(list) + 1
        /\ (lo + FrontSize(n)) + (n - FrontSize(n)) <= Len(list) + 1
    BY <1>1, <1>2, <2>1
  <2> QED BY <2>1, <2>2 DEF Parts
<1> QED BY <1>1, <1>2, <1>3

LEMMA SortIsSolved ==
  ASSUME NEW type, NEW sort, NEW list \in Seq(Entry)
  PROVE  \E ms : SortSolves(type, sort, list, ms)
                 /\ merge_sort(type, sort, list) = ms[<<1, Len(list)>>]
<1> DEFINE D == Parts(list)
           V == SUBSET Seq(Entry)
           bound == Len(list)
           rank == [part \in D |-> part[2]]
           Body(ms, part) == Sorting(type, sort, list, ms, part[1], part[2])
           F == [ms \in [D -> V] |-> [part \in D |-> Body(ms, part)]]
           M == CHOOSE ms : ms = [part \in D |-> Body(ms, part)]
<1>1. bound \in Nat /\ V # {} /\ Len(list) \in Nat
  OBVIOUS
<1>2. merge_sort(type, sort, list) = M[<<1, Len(list)>>]
  BY DEF merge_sort, Sorting, Merges, FrontSize
<1>3. \A part \in D : rank[part] \in 0..bound
  BY PartsOfParts
<1>4. ASSUME NEW ms \in [D -> V], NEW part \in D PROVE Body(ms, part) \in V
  <2>1. PICK lo, n : lo = part[1] /\ n = part[2]
    OBVIOUS
  <2>2. lo \in 1..(Len(list) + 1) /\ n \in 0..Len(list) /\ lo + n <= Len(list) + 1
    BY <2>1, PartsOfParts
  <2>3. CASE n < 2
    <3>1. PICK i \in Nat : i + 1 = lo /\ i + n <= Len(list) /\ lo + n - 1 = i + n /\ n \in Nat
      <4>1. lo - 1 \in Nat /\ (lo - 1) + 1 = lo /\ (lo - 1) + n <= Len(list)
            /\ lo + n - 1 = (lo - 1) + n /\ n \in Nat
        BY <1>1, <2>2
      <4> QED BY <4>1
    <3>2. PICK R : R = Entry \X Entry
      OBVIOUS
    <3>3. Sorted(R, list)
      BY <3>2, AnyOrder
    <3>4. PICK t : t = SubSeq(list, i + 1, i + n)
      OBVIOUS
    <3>5. PieceOf(R, list, i, n, t)
      BY <3>1, <3>3, <3>4, SuffixParts
    <3>6. t \in Seq(Entry)
      BY <3>5 DEF PieceOf
    <3>7. Body(ms, part) = {SubSeq(list, lo, lo + n - 1)}
      BY <2>1, <2>3, Zenon DEF Sorting
    <3>8. SubSeq(list, lo, lo + n - 1) = t
      BY <3>1, <3>4, Zenon
    <3> HIDE DEF Body
    <3> QED BY <3>6, <3>7, <3>8
  <2>4. CASE ~(n < 2)
    <3>1. ms[<<lo, FrontSize(n)>>] \in V /\ ms[<<lo + FrontSize(n), n - FrontSize(n)>>] \in V
      BY <2>1, <2>4, PartsOfParts
    <3>2. Merges(type, sort, ms[<<lo, FrontSize(n)>>],
                             ms[<<lo + FrontSize(n), n - FrontSize(n)>>]) \in V
      BY <3>1, MergesOfLists
    <3>3. Body(ms, part) =
            Merges(type, sort, ms[<<lo, FrontSize(n)>>],
                               ms[<<lo + FrontSize(n), n - FrontSize(n)>>])
      BY <2>1, <2>4, Zenon DEF Sorting
    <3> HIDE DEF Body
    <3> QED BY <3>2, <3>3
  <2> QED BY <2>3, <2>4
<1>5. LooksBelow(F, D, V, rank)
  <2>1. ASSUME NEW g \in [D -> V], NEW h \in [D -> V], NEW part \in D,
               \A y \in D : rank[y] < rank[part] => g[y] = h[y]
        PROVE  Body(g, part) = Body(h, part)
    <3>1. PICK lo, n : lo = part[1] /\ n = part[2]
      OBVIOUS
    <3>2. CASE n < 2
      BY <3>1, <3>2 DEF Sorting
    <3>3. CASE ~(n < 2)
      <4>1. /\ <<lo, FrontSize(n)>> \in D /\ <<lo + FrontSize(n), n - FrontSize(n)>> \in D
            /\ FrontSize(n) \in 1..(n - 1) /\ n \in Nat
        BY <1>1, <3>1, <3>3, PartsOfParts
      <4>2. /\ rank[<<lo, FrontSize(n)>>] < rank[part]
            /\ rank[<<lo + FrontSize(n), n - FrontSize(n)>>] < rank[part]
        BY <3>1, <4>1
      <4>3. /\ g[<<lo, FrontSize(n)>>] = h[<<lo, FrontSize(n)>>]
            /\ g[<<lo + FrontSize(n), n - FrontSize(n)>>]
                 = h[<<lo + FrontSize(n), n - FrontSize(n)>>]
        BY <2>1, <4>1, <4>2
      <4> QED BY <3>1, <3>3, <4>3, Zenon DEF Sorting
    <3> QED BY <3>2, <3>3
  <2> HIDE DEF Body, D, V, rank
  <2> QED BY <2>1 DEF LooksBelow
<1>6. F \in [[D -> V] -> [D -> V]]
  <2> HIDE DEF Body, D, V
  <2> QED BY <1>4
<1>7. \A ms \in [D -> V] : F[ms] = [part \in D |-> Body(ms, part)]
  OBVIOUS
<1> HIDE DEF F, rank, D, V, bound, Body
<1>8. PICK h : FixedBy(F, D, V, h)
  <2>1. Recursion(F, D, V, rank, bound)
    BY <1>1, <1>3, <1>5, <1>6, Zenon DEF Recursion
  <2> QED BY <2>1, RankRecursion, Zenon
<1>9. h = [part \in D |-> Body(h, part)]
  BY <1>7, <1>8 DEF FixedBy
<1>10. M = [part \in D |-> Body(M, part)]
  BY <1>9, Zenon
<1> HIDE DEF M
<1>11. \A part \in D : M[part] = Body(M, part)
  BY <1>10, Zenon
<1>12. SortSolves(type, sort, list, M)
  BY <1>11, Zenon DEF SortSolves, D, Body
<1> QED BY <1>2, <1>12

\* merge_sort keeps what it sorts and brings it into an order that the comparisons
\* of earlier with later entries never contradict.
LEMMA MergeSortSorts ==
  ASSUME NEW type, NEW sort, NEW list \in Seq(Entry), NEW R, Transitive(R),
         \A i, j \in DOMAIN list : i < j => Allows(type, sort, R, list[i], list[j])
  PROVE  \A s \in merge_sort(type, sort, list) : PieceOf(R, list, 0, Len(list), s)
<1>1. PICK ms : SortSolves(type, sort, list, ms)
                /\ merge_sort(type, sort, list) = ms[<<1, Len(list)>>]
  BY SortIsSolved
<1> DEFINE Good(part) == \A s \in ms[part] : PieceOf(R, list, part[1] - 1, part[2], s)
           bad == {n \in Nat : \E part \in Parts(list) : part[2] = n /\ ~Good(part)}
<1>2. Len(list) \in Nat
  OBVIOUS
<1>3. ASSUME NEW part \in Parts(list), part[2] < 2 PROVE Good(part)
  <2>1. PICK i \in Nat, n \in Nat :
          i = part[1] - 1 /\ n = part[2] /\ i + n <= Len(list) /\ n < 2
          /\ part[1] = i + 1 /\ part[1] + part[2] - 1 = i + n
    <3>1. PICK lo, n : lo = part[1] /\ n = part[2]
      OBVIOUS
    <3>2. lo \in 1..(Len(list) + 1) /\ n \in 0..Len(list) /\ lo + n <= Len(list) + 1
      BY <3>1, PartsOfParts
    <3>3. /\ lo - 1 \in Nat /\ n \in Nat /\ (lo - 1) + n <= Len(list)
          /\ lo = (lo - 1) + 1 /\ lo + n - 1 = (lo - 1) + n
      BY <1>2, <3>2
    <3> QED BY <1>3, <3>1, <3>3
  <2>2. PICK S : S = Entry \X Entry
    OBVIOUS
  <2>3. Sorted(S, list)
    BY <2>2, AnyOrder
  <2>4. PICK t : t = SubSeq(list, i + 1, i + n)
    OBVIOUS
  <2>5. PieceOf(S, list, i, n, t)
    BY <2>1, <2>3, <2>4, SuffixParts
  <2>6. Sorted(R, t)
    BY <2>1, <2>5 DEF PieceOf, Sorted
  <2>7. PieceOf(R, list, i, n, t)
    BY <2>5, <2>6, Zenon DEF PieceOf
  <2>8. ms[part] = {t}
    BY <1>1, <1>3, <2>1, <2>4 DEF SortSolves, Sorting
  <2> QED BY <2>1, <2>7, <2>8
<1>4. ASSUME NEW part \in Parts(list), ~(part[2] < 2),
             Good(<<part[1], FrontSize(part[2])>>),
             Good(<<part[1] + FrontSize(part[2]), part[2] - FrontSize(part[2])>>)
      PROVE  Good(part)
  <2>1. PICK i \in Nat, n \in Nat, f \in Nat :
          /\ i = part[1] - 1 /\ n = part[2] /\ f = FrontSize(n) /\ f \in 1..(n - 1)
          /\ i + n <= Len(list) /\ part[1] = i + 1
    <3>1. /\ part[1] - 1 \in Nat /\ part[2] \in Nat /\ (part[1] - 1) + part[2] <= Len(list)
          /\ part[1] = (part[1] - 1) + 1 /\ FrontSize(part[2]) \in 1..(part[2] - 1)
          /\ FrontSize(part[2]) \in Nat
      BY <1>2, <1>4, PartsOfParts
    <3> QED BY <3>1
  <2>2. ASSUME NEW a \in ms[<<i + 1, f>>], NEW b \in ms[<<i + 1 + f, n - f>>],
               NEW s \in merge(type, sort, a, b)
        PROVE  PieceOf(R, list, i, n, s)
    <3>1. PieceOf(R, list, i, f, a) /\ PieceOf(R, list, i + f, n - f, b)
      <4>1. i + 1 - 1 = i /\ (i + 1 + f) - 1 = i + f
        BY <2>1
      <4> QED BY <1>4, <2>1, <4>1
    <3>2. ASSUME NEW x \in RestOf(a, 0), NEW y \in RestOf(b, 0)
          PROVE  Allows(type, sort, R, x, y)
      <4>1. x \in Piece(list, i, f) /\ y \in Piece(list, i + f, n - f)
        BY <3>1 DEF PieceOf
      <4>2. PICK k \in (i + 1)..(i + f) : x = list[k]
        BY <4>1 DEF Piece
      <4>3. PICK l \in (i + f + 1)..(i + f + (n - f)) : y = list[l]
        BY <4>1 DEF Piece
      <4>4. k \in 1..Len(list) /\ l \in 1..Len(list) /\ k < l
        <5>1. i \in Nat /\ n \in Nat /\ f \in 1..(n - 1) /\ i + n <= Len(list)
          BY <2>1
        <5>2. \A kk \in (i + 1)..(i + f) : kk \in 1..Len(list) /\ kk <= i + f
          BY <1>2, <5>1
        <5>3. \A ll \in (i + f + 1)..(i + f + (n - f)) : ll \in 1..Len(list) /\ i + f < ll
          BY <1>2, <5>1
        <5> QED BY <5>1, <5>2, <5>3
      <4> QED BY <4>2, <4>3, <4>4
    <3>3. a \in Seq(Entry) /\ b \in Seq(Entry) /\ Sorted(R, a) /\ Sorted(R, b)
      BY <3>1, Zenon DEF PieceOf
    <3>4. MergedFrom(R, a, b, 0, 0, s)
      BY <3>2, <3>3, MergeSorts, Zenon
    <3>5. Len(s) = n
      BY <2>1, <3>1, <3>4 DEF PieceOf, MergedFrom
    <3>6. RestOf(s, 0) = Piece(list, i, n)
      <4>1. RestOf(s, 0) = Piece(list, i, f) \cup Piece(list, i + f, n - f)
        BY <3>1, <3>4, Zenon DEF PieceOf, MergedFrom
      <4>2. /\ \A k \in (i + 1)..(i + n) :
                 k \in (i + 1)..(i + f) \/ k \in (i + f + 1)..(i + f + (n - f))
            /\ \A k \in (i + 1)..(i + f) : k \in (i + 1)..(i + n)
            /\ \A k \in (i + f + 1)..(i + f + (n - f)) : k \in (i + 1)..(i + n)
        <5>1. i \in Nat /\ n \in Nat /\ f \in 1..(n - 1)
          BY <2>1
        <5> QED BY <5>1
      <4>3. Piece(list, i, n) = Piece(list, i, f) \cup Piece(list, i + f, n - f)
        BY <4>2 DEF Piece
      <4> QED BY <4>1, <4>3
    <3> QED BY <3>4, <3>5, <3>6, Zenon DEF MergedFrom, PieceOf
  <2>3. \A s \in ms[part] : \E a \in ms[<<i + 1, f>>], b \in ms[<<i + 1 + f, n - f>>] :
          s \in merge(type, sort, a, b)
    <3>1. ms[part] = Merges(type, sort, ms[<<i + 1, f>>], ms[<<i + 1 + f, n - f>>])
      BY <1>1, <1>4, <2>1, Zenon DEF SortSolves, Sorting
    <3> QED BY <3>1, MergesAreMerged
  <2> QED BY <2>1, <2>2, <2>3
<1>5. <<1, Len(list)>> \in Parts(list)
  BY <1>2 DEF Parts
<1> HIDE DEF Good
<1>6. bad = {}
  <2> SUFFICES ASSUME bad # {} PROVE FALSE
    OBVIOUS
  <2>1. PICK n \in bad : \A k \in bad : n <= k
    BY LeastNat
  <2>2. PICK part \in Parts(list) : part[2] = n /\ ~Good(part)
    BY <2>1
  <2>3. ~(n < 2)
    BY <1>3, <2>2
  <2>4. /\ <<part[1], FrontSize(n)>> \in Parts(list) /\ FrontSize(n) \in Nat /\ ~(n <= FrontSize(n))
        /\ <<part[1] + FrontSize(n), n - FrontSize(n)>> \in Parts(list)
        /\ n - FrontSize(n) \in Nat /\ ~(n <= n - FrontSize(n))
    <3>1. /\ <<part[1], FrontSize(n)>> \in Parts(list) /\ FrontSize(n) \in 1..(n - 1)
          /\ <<part[1] + FrontSize(n), n - FrontSize(n)>> \in Parts(list)
      BY <2>2, <2>3, PartsOfParts
    <3>2. n \in Nat /\ n <= n
      OBVIOUS
    <3>3. \A f \in 1..(n - 1) : f \in Nat /\ ~(n <= f) /\ n - f \in Nat /\ ~(n <= n - f)
      BY <3>2
    <3> QED BY <3>1, <3>3
  <2>5. Good(<<part[1], FrontSize(n)>>) /\ Good(<<part[1] + FrontSize(n), n - FrontSize(n)>>)
    BY <2>1, <2>4
  <2> QED BY <1>4, <2>2, <2>3, <2>5
<1>7. Good(<<1, Len(list)>>)
  BY <1>2, <1>5, <1>6
<1>8. 1 - 1 = 0
  OBVIOUS
<1> QED BY <1>1, <1>7, <1>8 DEF Good
-----------------------------------------------------------------------------
\* A difference that fits an int is one.
LEMMA WrappedFits == ASSUME NEW n \in IntRange PROVE Wrapped(n) = n
<1>1. PICK h \in Nat \ {0} : h = Half
  BY ListAssumption, PowerPositive DEF Half
<1>2. n \in Int /\ n + h \in Nat /\ n + h < 2 * h
  BY <1>1 DEF IntRange
<1>3. PICK M \in Nat \ {0} : M = 2 * h
  BY <1>1
<1>4. PICK x \in Nat : x = n + h
  BY <1>2
<1>5. x < M
  BY <1>2, <1>3, <1>4
<1>6. x % M = x
  BY <1>5, Z3
<1>7. Wrapped(n) = (x % M) - h
  BY <1>1, <1>3, <1>4 DEF Wrapped
<1> QED BY <1>2, <1>4, <1>6, <1>7

\* The order of a stable sort.
Before(sort) ==
  {xy \in Entry \X Entry :
     /\ InOrder(sort, xy[1], xy[2])
     /\ xy[1].value = xy[2].value => xy[1].line < xy[2].line}

LEMMA EntriesAre ==
  ASSUME NEW x \in Entry PROVE x.value \in Int /\ x.line \in Nat /\ x.value \in Values
BY ListAssumption DEF Entry

LEMMA BeforeIs ==
  ASSUME NEW sort \in {"inc", "dec"}, NEW x \in Entry, NEW y \in Entry
  PROVE  <<x, y>> \in Before(sort) <=>
           \/ x.value = y.value /\ x.line < y.line
           \/ sort = "inc" /\ x.value < y.value
           \/ sort = "dec" /\ x.value > y.value
BY EntriesAre DEF Before, InOrder

LEMMA BeforeTransitive ==
  ASSUME NEW sort \in {"inc", "dec"} PROVE Transitive(Before(sort))
<1>1. SUFFICES ASSUME NEW x, NEW y, NEW z, <<x, y>> \in Before(sort), <<y, z>> \in Before(sort)
               PROVE  <<x, z>> \in Before(sort)
  BY DEF Transitive
<1>2. x \in Entry /\ y \in Entry /\ z \in Entry
  BY <1>1 DEF Before
<1>3. /\ x.value \in Int /\ y.value \in Int /\ z.value \in Int
      /\ x.line \in Nat /\ y.line \in Nat /\ z.line \in Nat
  BY <1>2, EntriesAre
<1> QED BY <1>1, <1>2, <1>3, BeforeIs

Exact(type, list) ==
  type # "int" \/ \A x, y \in ToSet(list) : x.value - y.value \in IntRange

LEMMA ComparesExactly ==
  ASSUME NEW type, NEW list \in Seq(Entry), Exact(type, list),
         NEW x \in ToSet(list), NEW y \in ToSet(list)
  PROVE  cmp(type, x.value, y.value) = x.value - y.value
BY WrappedFits DEF cmp, Exact

LinesIncrease(list) == \A i, j \in DOMAIN list : i < j => list[i].line < list[j].line

LEMMA AllowsBefore ==
  ASSUME NEW type, NEW sort \in {"inc", "dec"}, NEW list \in Seq(Entry), Exact(type, list),
         LinesIncrease(list), NEW i \in DOMAIN list, NEW j \in DOMAIN list, i < j
  PROVE  Allows(type, sort, Before(sort), list[i], list[j])
<1> DEFINE x == list[i]
           y == list[j]
<1>1. x \in ToSet(list) /\ y \in ToSet(list) /\ x \in Entry /\ y \in Entry /\ x.line < y.line
  BY DEF ToSet, LinesIncrease
<1> HIDE DEF x, y
<1>2. /\ cmp(type, x.value, y.value) = x.value - y.value
      /\ cmp(type, y.value, x.value) = y.value - x.value
  BY <1>1, ComparesExactly
<1>3. x.value \in Int /\ y.value \in Int /\ x.line \in Nat /\ y.line \in Nat
  BY <1>1, EntriesAre
<1>4. CASE sort = "inc"
  <2>1. takesFront(type, sort, x, y) = {x.value - y.value <= 0}
    BY <1>2, <1>4 DEF takesFront
  <2>2. TRUE \in takesFront(type, sort, x, y) => x.value - y.value <= 0
    BY <2>1, Zenon
  <2>3. FALSE \in takesFront(type, sort, x, y) => ~(x.value - y.value <= 0)
    BY <2>1, Zenon
  <2>4. /\ x.value - y.value <= 0 => x.value <= y.value
        /\ ~(x.value - y.value <= 0) => y.value < x.value
    BY <1>3
  <2>5. x.value - y.value <= 0 => <<x, y>> \in Before(sort)
    BY <1>1, <1>3, <1>4, <2>4, BeforeIs
  <2>6. ~(x.value - y.value <= 0) => <<y, x>> \in Before(sort)
    BY <1>1, <1>3, <1>4, <2>4, BeforeIs
  <2> QED BY <2>2, <2>3, <2>5, <2>6, Zenon DEF Allows, x, y
<1>5. CASE sort = "dec"
  <2>1. takesFront(type, sort, x, y) = {y.value - x.value <= 0}
    BY <1>2, <1>5 DEF takesFront
  <2>2. TRUE \in takesFront(type, sort, x, y) => y.value - x.value <= 0
    BY <2>1, Zenon
  <2>3. FALSE \in takesFront(type, sort, x, y) => ~(y.value - x.value <= 0)
    BY <2>1, Zenon
  <2>4. /\ y.value - x.value <= 0 => y.value <= x.value
        /\ ~(y.value - x.value <= 0) => x.value < y.value
    BY <1>3
  <2>5. y.value - x.value <= 0 => <<x, y>> \in Before(sort)
    BY <1>1, <1>3, <1>5, <2>4, BeforeIs
  <2>6. ~(y.value - x.value <= 0) => <<y, x>> \in Before(sort)
    BY <1>1, <1>3, <1>5, <2>4, BeforeIs
  <2> QED BY <2>2, <2>3, <2>5, <2>6, Zenon DEF Allows, x, y
<1> QED BY <1>4, <1>5

Keeps(list, r) == ToSet(r) = ToSet(list) /\ Len(r) = Len(list)
OrderedBy(sort, r) == \A i, j \in DOMAIN r : i < j => InOrder(sort, r[i], r[j])

LEMMA PieceKeeps ==
  ASSUME NEW R, NEW list \in Seq(Entry), NEW r, PieceOf(R, list, 0, Len(list), r)
  PROVE  Keeps(list, r) /\ r \in Seq(Entry) /\ Sorted(R, r)
<1>1. /\ r \in Seq(Entry) /\ Len(r) = Len(list)
      /\ RestOf(r, 0) = Piece(list, 0, Len(list)) /\ Sorted(R, r)
  BY Zenon DEF PieceOf
<1>2. DOMAIN r = (0 + 1)..Len(r) /\ DOMAIN list = (0 + 1)..(0 + Len(list))
  BY <1>1
<1>3. ToSet(r) = RestOf(r, 0) /\ ToSet(list) = Piece(list, 0, Len(list))
  BY <1>2, Zenon DEF ToSet, RestOf, Piece
<1> QED BY <1>1, <1>3, Zenon DEF Keeps

LEMMA MergeSortKeeps ==
  ASSUME NEW type, NEW sort, NEW list \in Seq(Entry), NEW r \in merge_sort(type, sort, list)
  PROVE  Keeps(list, r) /\ r \in Seq(Entry)
<1>1. PICK R : R = Entry \X Entry
  OBVIOUS
<1>2. Transitive(R)
  BY <1>1, AnyOrder
<1>3. \A i, j \in DOMAIN list : i < j => Allows(type, sort, R, list[i], list[j])
  <2>1. \A i \in DOMAIN list : list[i] \in Entry
    OBVIOUS
  <2>2. \A x, y \in Entry : Allows(type, sort, R, x, y)
    BY <1>1, AnyOrder
  <2> QED BY <2>1, <2>2
<1>4. PieceOf(R, list, 0, Len(list), r)
  BY <1>2, <1>3, MergeSortSorts, Zenon
<1> QED BY <1>4, PieceKeeps

LEMMA MergeSortOrders ==
  ASSUME NEW type, NEW sort \in {"inc", "dec"}, NEW list \in Seq(Entry), Exact(type, list),
         LinesIncrease(list), NEW r \in merge_sort(type, sort, list)
  PROVE  OrderedBy(sort, r) /\ Stable(r)
<1>1. \A i, j \in DOMAIN list : i < j => Allows(type, sort, Before(sort), list[i], list[j])
  BY AllowsBefore
<1>2. Transitive(Before(sort))
  BY BeforeTransitive
<1>3. PieceOf(Before(sort), list, 0, Len(list), r)
  BY <1>1, <1>2, MergeSortSorts, Zenon
<1>4. Sorted(Before(sort), r)
  BY <1>3, PieceKeeps
<1> QED BY <1>4 DEF Sorted, Before, OrderedBy, Stable

\* What qsort may do to a list: an injection of a finite set to itself misses nothing.
LEMMA QsortKeeps ==
  ASSUME NEW sort, NEW list \in Seq(Entry), NEW r \in qsorted(sort, list)
  PROVE  Keeps(list, r) /\ OrderedBy(sort, r)
<1>1. r \in Rearrangements(list) /\ OrderedBy(sort, r)
  BY DEF qsorted, OrderedBy
<1> DEFINE D == DOMAIN list
<1>2. PICK p \in [D -> D] : IsInjective(p) /\ r = [i \in D |-> list[p[i]]]
  BY <1>1 DEF Rearrangements
<1>3. D = 1..Len(list) /\ Len(list) \in Nat /\ IsFiniteSet(D)
  BY FS_Interval
<1>4. p \in Injection(D, D)
  BY <1>2 DEF Injection
<1> HIDE DEF D
<1>5. p \in Surjection(D, D)
  BY <1>3, <1>4, FS_Injection
<1>6. \A t \in D : \E s \in D : p[s] = t
  BY <1>5 DEF Surjection
<1>7. ToSet(r) = ToSet(list)
  BY <1>2, <1>6 DEF ToSet, D
<1>8. Len(r) = Len(list)
  BY <1>2, <1>3
<1> QED BY <1>1, <1>7, <1>8 DEF Keeps

-----------------------------------------------------------------------------
\* The list holds entries in the order of their lines.
ListInv ==
  /\ lList \in Seq(Entry) /\ lRead \in Nat /\ lSort \in SortTypes
  /\ LinesIncrease(lList) /\ \A i \in DOMAIN lList : lList[i].line <= lRead
  /\ lAt = "merged" => lResult \in merge_sort(get_file_type(lNames), lSort, lList)
  /\ lAt = "qsorted" /\ lList # << >> => lResult \in qsorted(lSort, lList)

LEMMA ListInvStep == ListInv /\ [ListNext]_lVars => ListInv'
<1> SUFFICES ASSUME ListInv, [ListNext]_lVars PROVE ListInv'
  OBVIOUS
<1>1. CASE run_cli
  BY <1>1 DEF ListInv, run_cli
<1>2. CASE read_file
  <2>1. /\ lRead' = lRead + 1 /\ lRead' \in Nat /\ lAt = "read"
        /\ UNCHANGED <<lAt, lNames, lSort, lResult>>
    BY <1>2 DEF ListInv, read_file
  <2>2. CASE UNCHANGED lList
    <3>1. \A i \in DOMAIN lList : lList[i] \in Entry /\ lList[i].line \in Nat
      BY EntriesAre DEF ListInv
    <3>2. \A i \in DOMAIN lList : lList[i].line <= lRead + 1
      BY <3>1 DEF ListInv
    <3> QED BY <2>1, <2>2, <3>2 DEF ListInv
  <2>3. ASSUME NEW x \in Values, lList' = Append(lList, [line |-> lRead', value |-> x])
        PROVE  ListInv'
    <3>1. PICK n \in Nat, r \in Nat : n = Len(lList) /\ r = lRead + 1
      <4>1. Len(lList) \in Nat /\ lRead + 1 \in Nat
        BY <2>1 DEF ListInv
      <4> QED BY <4>1
    <3>e. PICK e : e = [line |-> r, value |-> x]
      OBVIOUS
    <3>2. e \in Entry /\ e.line = r
      BY <3>e DEF Entry
    <3>3. /\ lList' \in Seq(Entry) /\ DOMAIN lList' = 1..(n + 1) /\ lList'[n + 1] = e
          /\ \A i \in 1..n : lList'[i] = lList[i]
      BY <2>1, <2>3, <3>1, <3>e, <3>2, AppendProperties DEF ListInv
    <3>4. \A i \in 1..n : lList[i].line \in Nat /\ lList[i].line < r
      BY <3>1, EntriesAre DEF ListInv
    <3>5. LinesIncrease(lList')
      <4>1. ASSUME NEW i \in 1..(n + 1), NEW j \in 1..(n + 1), i < j
            PROVE  lList'[i].line < lList'[j].line
        <5>1. i \in 1..n
          BY <4>1
        <5>2. CASE j = n + 1
          BY <3>2, <3>3, <3>4, <5>1, <5>2
        <5>3. CASE j # n + 1
          <6>1. j \in 1..n
            BY <5>3
          <6>2. lList[i].line < lList[j].line
            BY <3>1, <4>1, <5>1, <6>1 DEF ListInv, LinesIncrease
          <6> QED BY <3>3, <5>1, <6>1, <6>2
        <5> QED BY <5>2, <5>3
      <4> QED BY <3>3, <4>1 DEF LinesIncrease
    <3>6. \A i \in 1..(n + 1) : lList'[i].line <= lRead'
      <4>1. ASSUME NEW i \in 1..(n + 1) PROVE lList'[i].line <= lRead'
        <5>1. CASE i = n + 1
          BY <2>1, <3>1, <3>2, <3>3, <5>1
        <5>2. CASE i \in 1..n
          BY <2>1, <3>1, <3>3, <3>4, <5>2
        <5> QED BY <5>1, <5>2
      <4> QED BY <4>1
    <3> QED BY <2>1, <3>3, <3>5, <3>6 DEF ListInv
  <2> QED BY <1>2, <2>2, <2>3 DEF read_file
<1>3. CASE sort_list
  BY <1>3 DEF ListInv, sort_list
<1>4. CASE dlistSort
  BY <1>4 DEF ListInv, dlistSort
<1>5. CASE UNCHANGED lVars
  BY <1>5 DEF ListInv, lVars
<1> QED BY <1>1, <1>2, <1>3, <1>4, <1>5 DEF ListNext

LEMMA ListInvSorted == ListInv => SortKeepsAndOrders
<1> SUFFICES ASSUME ListInv, lAt \in {"merged", "qsorted"}, lList # << >>
             PROVE  /\ ToSet(lResult) = ToSet(lList) /\ Len(lResult) = Len(lList)
                    /\ lAt = "qsorted" \/ Exact(get_file_type(lNames), lList) =>
                         /\ OrderedBy(lSort, lResult)
                         /\ lAt = "merged" /\ lSort # "rand" => Stable(lResult)
  BY DEF SortKeepsAndOrders, Exact, OrderedBy
<1>1. CASE lAt = "qsorted"
  <2>1. Keeps(lList, lResult) /\ OrderedBy(lSort, lResult)
    BY <1>1, QsortKeeps DEF ListInv
  <2> QED BY <1>1, <2>1 DEF Keeps
<1>2. CASE lAt = "merged"
  <2>1. Keeps(lList, lResult)
    BY <1>2, MergeSortKeeps DEF ListInv
  <2>2. CASE lSort = "rand"
    <3>1. OrderedBy(lSort, lResult)
      BY <2>2 DEF OrderedBy, InOrder
    <3> QED BY <1>2, <2>1, <2>2, <3>1 DEF Keeps
  <2>3. CASE lSort \in {"inc", "dec"}
    <3>1. Exact(get_file_type(lNames), lList) => OrderedBy(lSort, lResult) /\ Stable(lResult)
      BY <1>2, <2>3, MergeSortOrders DEF ListInv
    <3> QED BY <1>2, <2>1, <3>1 DEF Keeps
  <2> QED BY <2>2, <2>3 DEF ListInv, SortTypes
<1> QED BY <1>1, <1>2

\* Whatever a file holds, the merge sort and qsort keep every entry of the list;
\* they bring them into order, and the merge sort leaves equal ones in theirs, but
\* for ints whose difference does not fit an int.
THEOREM SortsKeepAndOrder == ListSpec => []SortKeepsAndOrders
<1>1. ListInit => ListInv
  <2>1. ListInit => /\ lList = << >> /\ lRead = 0 /\ lSort \in SortTypes /\ lAt = "start"
    BY DEF ListInit
  <2>2. << >> \in Seq(Entry) /\ LinesIncrease(<< >>)
    BY DEF LinesIncrease
  <2> QED BY <2>1, <2>2 DEF ListInv
<1>2. ListInv /\ [ListNext]_lVars => ListInv'
  BY ListInvStep
<1>3. ListInv => SortKeepsAndOrders
  BY ListInvSorted
<1> QED BY <1>1, <1>2, <1>3, PTL DEF ListSpec
=============================================================================
