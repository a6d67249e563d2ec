---------------------------- MODULE ConcurrentQueue ----------------------------
(***************************************************************************)
(* ConcurrentQueue of Projects/p2/src/query/scheduler.h.  A thread that    *)
(* waits on c_var is in popWaiting until a notification, or a spurious     *)
(* wake-up, takes it out; it then evaluates the predicate again.  Every    *)
(* critical section of the queue's mutex is one action, and so is every    *)
(* notification, which the code sends after it has released the mutex.     *)
(***************************************************************************)
EXTENDS Naturals, Sequences

CONSTANT Workers   \* the threads that pop

VARIABLES queue,       \* q
          closed,
          popWaiting   \* the threads waiting on c_var

queueVars == <<queue, closed, popWaiting>>

QueueInit ==
  /\ queue = <<>>
  /\ closed = FALSE
  /\ popWaiting = {}

\* push on a closed queue throws; the one pusher is also the one that closes.
push(item) ==
  /\ ~closed
  /\ queue' = Append(queue, item)
  /\ UNCHANGED <<closed, popWaiting>>

NotifyNobody == UNCHANGED queueVars

notifyOne ==
  /\ \/ popWaiting = {} /\ UNCHANGED popWaiting
     \/ \E w \in popWaiting : popWaiting' = popWaiting \ {w}
  /\ UNCHANGED <<queue, closed>>

popItem(w) ==
  /\ w \notin popWaiting
  /\ queue # <<>>
  /\ queue' = Tail(queue)
  /\ UNCHANGED <<closed, popWaiting>>

popWait(w) ==
  /\ w \notin popWaiting
  /\ queue = <<>> /\ ~closed
  /\ popWaiting' = popWaiting \cup {w}
  /\ UNCHANGED <<queue, closed>>

popNothing(w) ==
  /\ w \notin popWaiting
  /\ queue = <<>> /\ closed
  /\ UNCHANGED queueVars

close ==
  /\ closed' = TRUE
  /\ UNCHANGED <<queue, popWaiting>>

notifyAll ==
  /\ popWaiting' = {}
  /\ UNCHANGED <<queue, closed>>

popSpurious ==
  /\ \E w \in popWaiting : popWaiting' = popWaiting \ {w}
  /\ UNCHANGED <<queue, closed>>
=============================================================================
