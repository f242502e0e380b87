----------------------------- MODULE MCTaskQueue -----------------------------
(***************************************************************************)
(* TaskQueue for TLC: two threads that queue tasks and one that stops the  *)
(* executor.                                                               *)
(***************************************************************************)
EXTENDS SerialQueue

CONSTANTS c1, c2, stopper, t1, t2, t3

MCCaller == {c1, c2, stopper}
MCTask == {t1, t2, t3}
=============================================================================
