----------------------------- MODULE MCDispatch -----------------------------
(* A small instance of Dispatch for TLC. *)
EXTENDS Dispatch, TLC

CONSTANTS r1, r2, s1, s2, c1

(* Both riders may join the competition, one may answer the popup. *)
MCJoinerOf == (s1 :> r1) @@ (s2 :> r2)
MCCallerOf == c1 :> r1
=============================================================================
