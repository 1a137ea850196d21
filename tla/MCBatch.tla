------------------------------- MODULE MCBatch -------------------------------
(***************************************************************************)
(* Batch for TLC.                                                          *)
(***************************************************************************)
EXTENDS Batch, TLC

\* Workers, and requests, are interchangeable.
Symmetry == Permutations(Workers) \cup Permutations(Clients)
=============================================================================
