-------------------------- MODULE MCExecutionGuards --------------------------
(***************************************************************************)
(* ExecutionGuards for TLC.  Three calls on two devices with one global    *)
(* slot: two calls meet on one device while the third competes for the     *)
(* global slot, and an entry can be dropped and remade between any two     *)
(* steps of a call.                                                        *)
(***************************************************************************)
EXTENDS ExecutionGuards
=============================================================================
