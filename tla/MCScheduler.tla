---------------------------- MODULE MCScheduler ----------------------------
(***************************************************************************)
(* Instances of Scheduler for TLC.  Symmetry of the threads is not used:   *)
(* it is not sound for liveness.                                           *)
(***************************************************************************)
EXTENDS Scheduler

CONSTANTS t1, t2, t3
TwoThreads == {t1, t2}
ThreeThreads == {t1, t2, t3}
=============================================================================
