------------------------------ MODULE Delivery ------------------------------
(***************************************************************************)
(* What the fulfilment of an order promises its rider, without requests,   *)
(* transactions or failures: stops are delivered, in any order and again   *)
(* if need be, and the earnings are paid once, in the step of a delivery   *)
(* after which no stop is left.                                            *)
(***************************************************************************)
CONSTANT Stops

VARIABLES done, earned

Init == done = {} /\ earned = FALSE

Deliver(s) == done' = done \cup {s} /\ UNCHANGED earned

DeliverLast(s) ==
  /\ ~earned
  /\ done' = done \cup {s}
  /\ done' = Stops
  /\ earned' = TRUE

Next == \E s \in Stops : Deliver(s) \/ DeliverLast(s)

Spec == Init /\ [][Next]_<<done, earned>>
=============================================================================
