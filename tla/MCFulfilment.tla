---------------------------- MODULE MCFulfilment ----------------------------
(* A small instance of Fulfilment for TLC. *)
EXTENDS Fulfilment, TLC

CONSTANTS p, d1, d2, c1, c2

(* Requests are interchangeable; no liveness is checked. *)
MCSymmetry == Permutations(Calls)
=============================================================================
