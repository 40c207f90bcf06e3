---------------------------- MODULE MCCompetition ----------------------------
(* Small instances of Competition for TLC. *)
EXTENDS Competition, TLC

CONSTANTS r1, r2, r3, a1, a2, b, c

(* Rider r1 is logged in twice (sockets a1 and a2), r2 and r3 once. *)
MCRiderOf == (a1 :> r1) @@ (a2 :> r1) @@ (b :> r2) @@ (c :> r3)
=============================================================================
