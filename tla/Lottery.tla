------------------------------- MODULE Lottery -------------------------------
(***************************************************************************)
(* The lottery scheduler (Projects/p3): the tracepoint program that records *)
(* in a bounded map the processes it has seen, and the agent lottery.py     *)
(* that reads the map, draws a winner, pins it to CPU 0 and the other       *)
(* candidates to another CPU, and gives every process its CPUs back when    *)
(* Ctrl+C ends it.  Meanwhile processes fork, end and are replaced by       *)
(* others with the same pid.  What lottery.py reads of /proc for all        *)
(* candidates is read in one step; it pins them one by one.                 *)
(***************************************************************************)
EXTENDS Integers, Sequences, FiniteSets, FiniteSetsExt, SequencesExt

CONSTANTS Pids,         \* the pids in use, without the idle task's 0
          Nice,         \* the nice value of the process with each pid
          NCpu,         \* os.cpu_count()
          Masks,        \* the sets of CPUs that the kernel may confine a process to
          MapSize,      \* max_entries of the map runnable
          CleanEvery,   \* how many rounds pass between two cleanings
          MaxBirths,    \* bound: how many processes start
          MaxTroubles   \* bound: how often Ctrl+C is pressed or bpftool fails

CPUs == 0..(NCpu - 1)

ASSUME LotteryAssumption ==
  /\ Pids \subseteq Nat \ {0} /\ IsFiniteSet(Pids)
  /\ Nice \in [Pids -> -20..19]
  /\ NCpu \in Nat \ {0} /\ MapSize \in Nat /\ CleanEvery \in Nat \ {0}
  /\ Masks \subseteq (SUBSET CPUs) \ {{}} /\ CPUs \in Masks

VARIABLES alive,      \* the pids that have a process
          owner,      \* whose it is: "user" (SUDO_USER) or "other"
          allowed,    \* the CPUs that its cpuset leaves it, or the one CPU that a
                      \* kernel thread is bound to: no taskset goes beyond them
          aff,        \* the CPUs of allowed it may run on now
          runnable,   \* the keys of the map
          pc,         \* where lottery.py is
          cand,       \* the local variable cand
          winner,     \* the local variable winner, 0 for None
          todo,       \* the pids the loop of pc has not come to
          clean_counter,
          fellBack,   \* history: this round has no visible candidate
          reused,     \* history: the pids born since cand was read
          forced,     \* history: the living processes that lottery.py pinned
          skipped,    \* history: the pids of this round that a Ctrl+C left out
          births, troubles

lotteryVars == <<pc, cand, winner, todo, clean_counter, fellBack, skipped>>
processVars == <<alive, owner, allowed, aff, reused, forced, births>>
vars == <<runnable, troubles, lotteryVars, processVars>>

Trouble == troubles < MaxTroubles /\ troubles' = troubles + 1
-----------------------------------------------------------------------------
\* The processes.  A child has the CPUs and the owner of its parent; one that
\* is started afresh may run wherever it is allowed to.
Born(p) ==
  /\ p \notin alive /\ births < MaxBirths /\ births' = births + 1
  /\ alive' = alive \cup {p}
  /\ \/ \E parent \in alive :
          /\ owner' = [owner EXCEPT ![p] = owner[parent]]
          /\ allowed' = [allowed EXCEPT ![p] = allowed[parent]]
          /\ aff' = [aff EXCEPT ![p] = aff[parent]]
     \/ \E o \in {"user", "other"}, mask \in Masks :
          /\ owner' = [owner EXCEPT ![p] = o]
          /\ allowed' = [allowed EXCEPT ![p] = mask]
          /\ aff' = [aff EXCEPT ![p] = mask]
  /\ reused' = reused \cup {p}
  /\ UNCHANGED <<runnable, troubles, forced, lotteryVars>>

Dies(p) ==
  /\ p \in alive /\ alive' = alive \ {p}
  /\ forced' = forced \ {p}
  /\ UNCHANGED <<runnable, troubles, owner, allowed, aff, reused, births, lotteryVars>>

\* A plausible bug: the room is checked once for both pids of a switch.
UpdatedBeyond(map, pid) ==
  IF Cardinality(map) <= MapSize THEN map \cup {pid} ELSE map

\* bpf_map_update_elem: a full hash map takes no new key.
Updated(map, pid) ==
  IF Cardinality(map) < MapSize THEN map \cup {pid} ELSE map

trace_sched_switch(prev, next) ==
  /\ runnable' = Updated(Updated(runnable, prev), next)
  /\ UNCHANGED <<troubles, lotteryVars, processVars>>
-----------------------------------------------------------------------------
\* The draw

nice_to_tickets(nice) ==
  LET t == 200 - (199 * (nice + 20)) \div 39
  IN  IF t > 1 THEN t ELSE 1

\* The candidates that get_nice finds, in the order of the map, which is any
\* order, and the tickets of the first n of them.
Orders(c) == SetToSeqs(c \cap alive)
TicketsOf(pids) == [k \in DOMAIN pids |-> nice_to_tickets(Nice[pids[k]])]
Tickets(pids, n) == MapThenSumSet(LAMBDA k : TicketsOf(pids)[k], 1..n)

\* A plausible bug: the walk stops only when the sum passes r.
pickedBeyond(pids, r) ==
  LET reached == {k \in DOMAIN pids : r < Tickets(pids, k)}
  IN  IF reached = {} THEN 0
      ELSE pids[CHOOSE k \in reached : \A n \in reached : k <= n]

\* Whom the walk over the tickets of pick_lottery finds for the number r.
picked(pids, r) ==
  LET reached == {k \in DOMAIN pids : r <= Tickets(pids, k)}
  IN  IF reached = {} THEN 0
      ELSE pids[CHOOSE k \in reached : \A n \in reached : k <= n]
-----------------------------------------------------------------------------
\* The loop of main

Visible(keys) == {p \in keys \cap alive : owner[p] = "user"}

\* A plausible bug: the processes of other users are candidates all the same.
candidatesOfAll(keys) == keys

\* A plausible bug: only the first visible process is kept.
candidatesOfFirst(keys) ==
  {p \in Visible(keys) : \A q \in Visible(keys) : p <= q}

\* The user's processes, or if there are none whatever the map has.
candidates(keys) == IF Visible(keys) # {} THEN Visible(keys) ELSE keys

\* clean_counter is only compared with CleanEvery: counted no further than that.
Counted == IF clean_counter < CleanEvery THEN clean_counter + 1 ELSE CleanEvery

\* dump_map_keys gives no keys when the map has none or bpftool fails.
Dump ==
  /\ pc = "dump"
  /\ \/ /\ runnable # {} /\ pc' = "filter" /\ cand' = runnable \ {0}
        /\ reused' = {} /\ UNCHANGED <<troubles, clean_counter>>
     \/ /\ \/ runnable = {} /\ UNCHANGED troubles
           \/ runnable # {} /\ Trouble
        /\ pc' = "sleep" /\ clean_counter' = Counted
        /\ UNCHANGED <<cand, reused>>
  /\ UNCHANGED <<runnable, winner, todo, fellBack, skipped, alive, owner,
                 allowed, aff, forced, births>>

Filter ==
  /\ pc = "filter" /\ pc' = "draw"
  /\ cand' = candidates(cand)
  /\ fellBack' = (Visible(cand) = {})
  /\ reused' = {}
  /\ UNCHANGED <<runnable, troubles, winner, todo, clean_counter, skipped, alive,
                 owner, allowed, aff, forced, births>>

\* Without a winner, or with a single CPU, nothing is pinned.
Draw ==
  /\ pc = "draw"
  /\ \E pids \in Orders(cand) :
       LET total == Tickets(pids, Len(pids))
       IN  winner' \in IF total = 0 THEN {0} ELSE {picked(pids, r) : r \in 1..total}
  /\ pc' = IF winner' = 0 \/ NCpu = 1 THEN "clean" ELSE "force"
  /\ todo' = IF pc' = "force" THEN cand ELSE {}
  /\ skipped' = {}
  /\ UNCHANGED <<runnable, troubles, cand, clean_counter, fellBack, processVars>>

\* taskset for a living process: it fails when the process may run on none of
\* the CPUs given, and the bare excepts of its callers swallow that.
CanBePut(p, cpus) == cpus \cap allowed[p] # {}
set_affinity(p, cpus) ==
  IF CanBePut(p, cpus) THEN [aff EXCEPT ![p] = cpus \cap allowed[p]] ELSE aff

\* A plausible bug: the others are put on the first CPU, too.
placeOfFirst(p) == {0}

\* Where set_forced_run puts a candidate.
placeOf(p) == IF p = winner THEN {0} ELSE {1 % NCpu}

\* One turn of set_forced_run, the winner's first; a pid that has no process any
\* more is passed over.
PinOne(p) ==
  /\ pc = "force" /\ p \in todo /\ (winner \in todo => p = winner)
  /\ todo' = todo \ {p}
  /\ IF p \in alive
     THEN /\ aff' = set_affinity(p, placeOf(p))
          /\ forced' = IF CanBePut(p, placeOf(p)) THEN forced \cup {p} ELSE forced
     ELSE UNCHANGED <<aff, forced>>
  /\ UNCHANGED <<runnable, troubles, pc, cand, winner, clean_counter, fellBack,
                 skipped, alive, owner, allowed, reused, births>>
ForceEnds ==
  /\ pc = "force" /\ todo = {} /\ pc' = "clean"
  /\ UNCHANGED <<runnable, troubles, cand, winner, todo, clean_counter, fellBack,
                 skipped, processVars>>

\* What bpftool deletes for clean_dead_pids_from_map: nothing.  The key is given
\* as one string of hexadecimal digits where four bytes are expected.
deletedKeys(dead) == {}

Clean ==
  /\ pc = "clean" /\ pc' = "sleep"
  /\ IF Counted = CleanEvery
     THEN clean_counter' = 0 /\ runnable' = runnable \ deletedKeys(runnable \ alive)
     ELSE clean_counter' = Counted /\ UNCHANGED runnable
  /\ UNCHANGED <<troubles, cand, winner, todo, fellBack, skipped, processVars>>

Sleep ==
  /\ pc = "sleep" /\ pc' = "dump"
  /\ cand' = {} /\ winner' = 0 /\ fellBack' = FALSE /\ skipped' = {}
  /\ reused' = {}
  /\ UNCHANGED <<runnable, troubles, todo, clean_counter, alive, owner, allowed, aff,
                 forced, births>>
-----------------------------------------------------------------------------
\* Ctrl+C

\* It ends the loop, unless a bare except swallows it: while set_forced_run pins
\* a process, which then is pinned or not; between two of them, which ends
\* set_forced_run; and while the map is cleaned.  A taskset that fails although
\* the process may run there leaves it out in the same way.
Interrupt ==
  /\ pc \in {"dump", "filter", "draw", "clean", "sleep"} /\ Trouble
  /\ pc' = "exit"
  /\ UNCHANGED <<runnable, cand, winner, todo, clean_counter, fellBack, skipped,
                 processVars>>

SwallowedInForce ==
  /\ pc = "force" /\ Trouble
  /\ \/ \E p \in todo : /\ winner \in todo => p = winner
                        /\ todo' = todo \ {p} /\ skipped' = skipped \cup {p}
     \/ todo' = {} /\ skipped' = skipped \cup todo
  /\ UNCHANGED <<runnable, pc, cand, winner, clean_counter, fellBack, processVars>>

SwallowedInClean ==
  /\ pc = "clean" /\ Counted = CleanEvery /\ Trouble
  /\ pc' = "sleep" /\ clean_counter' = 0
  /\ UNCHANGED <<runnable, cand, winner, todo, fellBack, skipped, processVars>>

\* The handler of the end: every key of the map gets all CPUs, if bpftool gives
\* the keys.

\* A plausible bug: it clears the candidates of the last round.
keysAtExitOfRound == cand

keysAtExit == runnable

Exit ==
  /\ pc = "exit" /\ pc' = "clear"
  /\ \/ todo' = keysAtExit /\ skipped' = {} /\ UNCHANGED troubles
     \/ todo' = {} /\ skipped' = runnable /\ Trouble
  /\ UNCHANGED <<runnable, cand, winner, clean_counter, fellBack, processVars>>

ClearAffinity(p) ==
  /\ pc = "clear" /\ p \in todo
  /\ todo' = todo \ {p}
  /\ aff' = IF p \in alive THEN set_affinity(p, CPUs) ELSE aff
  /\ forced' = forced \ {p}
  /\ UNCHANGED <<runnable, troubles, pc, cand, winner, clean_counter, fellBack,
                 skipped, alive, owner, allowed, reused, births>>
ClearEnds ==
  /\ pc = "clear" /\ todo = {} /\ pc' = "exited"
  /\ UNCHANGED <<runnable, troubles, cand, winner, todo, clean_counter, fellBack,
                 skipped, processVars>>

\* Another Ctrl+C, or a failure of taskset, is swallowed while a process is given
\* its CPUs; outside of that Ctrl+C ends lottery.py.
InterruptAtExit ==
  /\ Trouble
  /\ \/ /\ pc = "clear" /\ UNCHANGED pc
        /\ \E p \in todo : todo' = todo \ {p} /\ skipped' = skipped \cup {p}
     \/ /\ pc \in {"exit", "clear"} /\ pc' = "exited"
        /\ todo' = {}
        /\ skipped' = IF pc = "exit" THEN runnable ELSE skipped \cup todo
  /\ UNCHANGED <<runnable, cand, winner, clean_counter, fellBack, processVars>>
-----------------------------------------------------------------------------
Init ==
  /\ alive \in SUBSET Pids
  /\ owner \in [Pids -> {"user", "other"}]
  /\ allowed \in [Pids -> Masks] /\ aff = allowed
  /\ \A p \in Pids \ alive : owner[p] = "user" /\ allowed[p] = CPUs
  /\ runnable = {}
  /\ pc = "dump" /\ cand = {} /\ winner = 0 /\ todo = {} /\ clean_counter = 0
  /\ fellBack = FALSE /\ reused = {} /\ forced = {} /\ skipped = {}
  /\ births = 0 /\ troubles = 0

Agent == \/ Dump \/ Filter \/ Draw \/ ForceEnds \/ Clean \/ Sleep
         \/ Exit \/ ClearEnds
         \/ \E p \in Pids : PinOne(p)
         \/ \E p \in Pids \cup {0} : ClearAffinity(p)
CtrlC == Interrupt \/ SwallowedInForce \/ SwallowedInClean \/ InterruptAtExit
\* What processes do when lottery.py has ended is left out.
Processes ==
  /\ pc # "exited"
  /\ \/ \E p \in Pids : Born(p) \/ Dies(p)
     \/ \E prev, next \in alive \cup {0} : trace_sched_switch(prev, next)

Next == Agent \/ CtrlC \/ Processes

\* lottery.py runs; no process has to start, to end or to be scheduled.
Spec == Init /\ [][Next]_vars /\ WF_vars(Agent)
-----------------------------------------------------------------------------
\* Properties

\* The variables have their types, and what lottery.py works on comes from the
\* map, which holds no more keys than it has room for.
LotteryTypeOK ==
  /\ alive \subseteq Pids
  /\ allowed \in [Pids -> Masks] /\ aff \in [Pids -> SUBSET CPUs]
  /\ owner \in [Pids -> {"user", "other"}]
  /\ runnable \subseteq Pids \cup {0} /\ Cardinality(runnable) <= MapSize
  /\ pc \in {"dump", "filter", "draw", "force", "clean", "sleep", "exit", "clear",
             "exited"}
  /\ cand \subseteq runnable \ {0} /\ winner \in cand \cup {0}
  /\ todo \subseteq runnable /\ (pc = "force" => todo \subseteq cand /\ winner # 0)
  /\ clean_counter \in 0..CleanEvery
  /\ fellBack \in BOOLEAN /\ reused \subseteq Pids
  /\ forced \subseteq alive /\ skipped \subseteq runnable

\* When lottery.py has ended, every process that it pinned in any of its rounds
\* has all the CPUs it is allowed, also one that was no candidate any more, except
\* those that a further Ctrl+C or a failure of bpftool or taskset left out: the
\* keys it pinned are still in the map (lottery.py:161-180, 302-307).
ExitRestores == pc = "exited" => forced \subseteq skipped

\* A round puts the winner on CPU 0 and takes the other candidates off it, although
\* processes end while it pins them.  That fails for a candidate that may not run
\* where it is put: a kernel thread bound to CPU 0 stays beside the winner, and
\* lottery.py does not notice.  It may also be wrong about pids that were reused
\* and those that a Ctrl+C or a failure of taskset left out (lottery.py:182-204).
WinnerAlone ==
  pc = "clean" /\ winner # 0 /\ NCpu > 1 =>
    \A p \in (alive \cap cand) \ (reused \cup skipped) :
      CanBePut(p, placeOf(p)) => (p = winner <=> 0 \in aff[p])

\* Of the numbers that may be drawn each candidate that is alive has as many as
\* it has tickets, and a less nice one has more (lottery.py:93-116).
PickIsProportional ==
  pc = "draw" => \A pids \in Orders(cand) :
    LET numbers(p) == {r \in 1..Tickets(pids, Len(pids)) : picked(pids, r) = p}
    IN  /\ numbers(0) = {}
        /\ \A p \in cand \cap alive :
             Cardinality(numbers(p)) = nice_to_tickets(Nice[p])
        /\ \A p, q \in cand \cap alive :
             Nice[p] < Nice[q] => Cardinality(numbers(p)) > Cardinality(numbers(q))

\* A round changes the CPUs of another user's process only if the user had no
\* process among the candidates, or if the pid was reused since they were chosen
\* (lottery.py:245-261).
OthersUntouched ==
  [][pc = "force" =>
       \A p \in alive \cap alive' :
         owner[p] = "other" /\ aff'[p] # aff[p] => fellBack \/ p \in reused]_vars

\* A process of the user that is in the map comes to a draw, unless it ends or
\* lottery.py does (lottery.py:216-265).
VisibleBecomesCandidate ==
  \A p \in Pids :
    (p \in runnable /\ p \in alive /\ owner[p] = "user")
      ~> \/ pc = "draw" /\ p \in cand
         \/ p \notin alive \/ pc \in {"exit", "clear", "exited"}
=============================================================================
