---------------------------- MODULE MCTransfers ----------------------------
(***************************************************************************)
(* Instances of Transfers for TLC: two transfers, one with a timeout, and  *)
(* one or two application threads next to the event handler.               *)
(***************************************************************************)
EXTENDS Transfers

CONSTANTS x1, x2, u1, u2
============================================================================
