------------------------------ MODULE OrderRow ------------------------------
(***************************************************************************)
(* The columns of the `orders` table row of ONE order that the dispatch    *)
(* channels share.  A rider can get an order through three channels: the   *)
(* competition (module Competition), the popup chain (module AutoPopup)    *)
(* and the administrator (module Dispatch).  Each of them writes these     *)
(* columns with a single Prisma update, which PostgreSQL applies           *)
(* atomically; every `await` in between is a step boundary.                *)
(***************************************************************************)

CONSTANTS
  Riders,   \* ids of Raider rows
  NoRider   \* null

ASSUME NoRiderAssumption == NoRider \notin Riders

VARIABLES
  status,     \* order_status
  assigned,   \* assign_rider_id
  closed,     \* competition_closed
  confirmed   \* raider_confirmation

rowVars == <<status, assigned, closed, confirmed>>

RiderOrNone == Riders \cup {NoRider}

(* The values of order_status the dispatch code reads or writes. *)
OrderStatus == {"PROGRESS", "PENDING", "ONGOING", "COMPLETED", "CANCELLED"}

RowTypeOK ==
  /\ status \in OrderStatus
  /\ assigned \in RiderOrNone
  /\ closed \in BOOLEAN
  /\ confirmed \in BOOLEAN

(* The row as placeOrder leaves it: placed, unassigned, competition open. *)
RowInit ==
  /\ status = "PENDING"
  /\ assigned = NoRider
  /\ closed = FALSE
  /\ confirmed = FALSE

(* A channel gives the order to r: both columns in one update. *)
GiveTo(r) ==
  /\ assigned' = r
  /\ status' = "ONGOING"
=============================================================================
