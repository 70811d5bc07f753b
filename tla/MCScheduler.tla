---------------------------- MODULE MCScheduler ----------------------------
(* Scheduler on a small instance. *)
EXTENDS Scheduler, TLC

\* The workers are interchangeable; the root is not one of them.
Symmetry == Permutations(Thread \ {Root})
=============================================================================
