---------------------------- MODULE MCScheduler ----------------------------
(* Instances of Scheduler for TLC.                                         *)
EXTENDS Scheduler, TLC

CONSTANTS r1, r2, r3, r4

\* Requests are interchangeable.
MCSymmetry == Permutations(Requests)
=============================================================================
