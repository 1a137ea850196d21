----------------------------- MODULE MCScheduler -----------------------------
(***************************************************************************)
(* Scheduler for TLC.                                                      *)
(***************************************************************************)
EXTENDS Scheduler, TLC

\* Tasks are interchangeable, and so are workers.
Symmetry == Permutations(Tasks) \cup Permutations(Workers)
=============================================================================
