---------------------------- MODULE MCPlacement ----------------------------
(* A small instance of Placement for TLC. *)
EXTENDS Placement, TLC

CONSTANTS i1, o1, c1, c2

(* Requests are interchangeable; no liveness is checked. *)
MCSymmetry == Permutations(Calls)
=============================================================================
