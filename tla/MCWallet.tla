------------------------------ MODULE MCWallet ------------------------------
(* A small instance of Wallet for TLC.  No symmetry: liveness is checked. *)
EXTENDS Wallet, TLC

CONSTANTS i1, i2, c1, c2
=============================================================================
