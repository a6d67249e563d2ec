------------------------------ MODULE MCLottery ------------------------------
(***************************************************************************)
(* The instance of Lottery that TLC checks: the extremes of nice and a      *)
(* process in between, a map that the idle task and the processes fill, and *)
(* beside the processes that may run anywhere those bound to CPU 0.         *)
(***************************************************************************)
EXTENDS Lottery

MCMasks == {CPUs, {0}}
MCNice == [p \in Pids |-> 20 - p]
=============================================================================
