---------------------------- MODULE MCTaskqueue ----------------------------
(* Taskqueue on a small instance. *)
EXTENDS Taskqueue, TLC

\* Tasks are interchangeable, and so are thieves.
Symmetry == Permutations(Task) \cup Permutations(Thief)
=============================================================================
