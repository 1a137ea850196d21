----------------------------- MODULE MCSemaphore -----------------------------
(***************************************************************************)
(* Semaphore for TLC: four callers on two slots, so that two wait while    *)
(* two hold, and a cancellation can meet a grant with a third party queued *)
(* behind it.                                                              *)
(***************************************************************************)
EXTENDS Semaphore
=============================================================================
