--------------------------- MODULE MCQueryScheduler ---------------------------
(***************************************************************************)
(* Small instances of QueryScheduler.                                      *)
(***************************************************************************)
EXTENDS QueryScheduler, TLC

CONSTANTS t1, t2   \* two tables

On(kind, table) == [kind |-> kind, table |-> table]

\* Queries in conflict with each other, one that prints from a worker.
ConflictingInput ==
  {On("read", t1), On("show", t1), On("write", t1), On("db", NoTable)}

\* What waits and what is waited for: reads and writes of one table.
ProgressInput == {On("read", t1), On("write", t1)}

\* LIST among writes; SHOWTABLE after other queries.
ListInput == {On("list", NoTable), On("write", t1)}
ShowInput == {On("read", t1), On("show", t1)}

MCSymmetry == Permutations(Workers)
=============================================================================
