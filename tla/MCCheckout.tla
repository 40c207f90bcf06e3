----------------------------- MODULE MCCheckout -----------------------------
(* Small instances of Checkout for TLC. *)
EXTENDS Checkout, TLC

CONSTANTS p, d1, c1, c2, x1, x2, w1

(* Requests and sessions are interchangeable; no liveness is checked. *)
MCSymmetry == Permutations(Calls) \cup Permutations(CheckoutSessions)
=============================================================================
