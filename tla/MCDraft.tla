------------------------------ MODULE MCDraft ------------------------------
(* Instances of Draft for TLC: rows, destinations and edits are symmetric. *)
EXTENDS Draft, TLC

CONSTANTS r1, r2, r3, c1, c2, s1, s2

MCSymmetry == Permutations({r1, r2, r3}) \cup Permutations({c1, c2}) \cup Permutations({s1, s2})
=============================================================================
