----------------------------- MODULE MCAutoPopup -----------------------------
(* Small instances of AutoPopup for TLC. *)
EXTENDS AutoPopup, TLC

CONSTANTS r1, r2, r3, a1, a2, b

(* Rider r1 may have two calls in flight (two devices), r2 one, r3 never    *)
(* answers.                                                                 *)
MCRiderOf == (a1 :> r1) @@ (a2 :> r1) @@ (b :> r2)
=============================================================================
