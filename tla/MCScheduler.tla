---------------------------- MODULE MCScheduler -----------------------------
(* Scheduler for TLC: the processes are interchangeable when all of them    *)
(* may fault and exit.                                                      *)
EXTENDS Scheduler, TLC

ProcSymmetry == Permutations(Proc)
=============================================================================
