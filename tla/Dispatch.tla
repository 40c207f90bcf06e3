------------------------------ MODULE Dispatch ------------------------------
(***************************************************************************)
(* Everything that can give the order to a rider, at once: the competition *)
(* and the popup chain, which share the order's row and the server         *)
(* process, the administrator's assignment and the customer's              *)
(* cancellation.  No lock spans two of these channels.                     *)
(***************************************************************************)
EXTENDS OrderRow, Naturals, Sequences

CONSTANTS
  Sessions, JoinerOf, Located, Elite, MaxCompetitors,  \* see Competition
  Calls, CallerOf, Placer, MaxListed,                  \* see AutoPopup
  MaxRestarts

ASSUME DispatchAssumption ==
  /\ JoinerOf \in [Sessions -> Riders]
  /\ CallerOf \in [Calls -> Riders]
  /\ Calls \cap Riders = {}
  /\ Placer \notin Calls \cup Riders

VARIABLES
  competitors, started, lock, join, closeJob, winner,
  eligible, queue, active, accepted, timer, offered, declined, public, at, taken,
  restarts,
  admin,      \* the rider assignDriver is about to assign, NoRider when idle
  byAdmin,    \* riders the administrator has assigned
  cancelling  \* cancelOrder has passed its checks

compOnly == <<competitors, started, lock, join, closeJob, winner>>
popOnly == <<eligible, queue, active, accepted, timer, offered, declined, public, at,
             taken>>
officeVars == <<admin, byAdmin, cancelling>>
vars == <<rowVars, compOnly, popOnly, restarts, officeVars>>

Competing == INSTANCE Competition WITH RiderOf <- JoinerOf, LockMayExpire <- FALSE
Popping == INSTANCE AutoPopup
             WITH RiderOf <- CallerOf, SlowHandlers <- FALSE, SlowWorker <- FALSE

Init ==
  /\ RowInit
  /\ Competing!CompInit
  /\ Popping!PopInit
  /\ admin = NoRider
  /\ byAdmin = {}
  /\ cancelling = FALSE

-----------------------------------------------------------------------------
(* assignDriver: the order is read and must be unassigned; whatever its    *)
(* status, it is then given to the rider and its competition closed.       *)

AdminCheck(r) ==
  /\ admin = NoRider
  /\ assigned = NoRider
  /\ admin' = r
  /\ UNCHANGED <<rowVars, compOnly, popOnly, restarts, byAdmin, cancelling>>

AdminAssign ==
  /\ admin # NoRider
  /\ GiveTo(admin)
  /\ closed' = TRUE
  /\ byAdmin' = byAdmin \cup {admin}
  /\ admin' = NoRider
  /\ UNCHANGED <<confirmed, compOnly, popOnly, restarts, cancelling>>

(* cancelOrder: the status is read and must be cancellable; the            *)
(* transaction writes CANCELLED and leaves the rider and the competition   *)
(* as they are.                                                            *)
CancelCheck ==
  /\ ~cancelling
  /\ status \in {"PROGRESS", "PENDING"}
  /\ cancelling' = TRUE
  /\ UNCHANGED <<rowVars, compOnly, popOnly, restarts, admin, byAdmin>>

(* Mutant: the cancellation takes the order from its rider. *)
CancelCommitUnassigns ==
  /\ cancelling
  /\ status' = "CANCELLED"
  /\ assigned' = NoRider
  /\ cancelling' = FALSE
  /\ UNCHANGED <<closed, confirmed, compOnly, popOnly, restarts, admin, byAdmin>>

CancelCommit ==
  /\ cancelling
  /\ status' = "CANCELLED"
  /\ cancelling' = FALSE
  /\ UNCHANGED <<assigned, closed, confirmed, compOnly, popOnly, restarts, admin, byAdmin>>

-----------------------------------------------------------------------------
CompetitionStep ==
  /\ \/ \E s \in Sessions : Competing!JoinStep(s) \/ Competing!CloseStep(s)
     \/ Competing!LockExpires
  /\ UNCHANGED <<popOnly, officeVars>>

PopupStep ==
  /\ \/ Popping!StartChain
     \/ \E h \in Popping!Handlers : Popping!HandlerStep(h)
     \/ \E c \in Calls : Popping!Accept(c) \/ Popping!Decline(c)
     \/ \E r \in Riders : Popping!FireTimeout(r) \/ Popping!FeedDecline(r)
     \/ Popping!ActiveExpires
  /\ UNCHANGED <<compOnly, officeVars>>

(* One process runs all of it. *)
Restart ==
  /\ Competing!CompRestart
  /\ Popping!PopRestart
  /\ admin' = NoRider
  /\ cancelling' = FALSE
  /\ UNCHANGED byAdmin

Next ==
  \/ CompetitionStep
  \/ PopupStep
  \/ \E r \in Riders : AdminCheck(r)
  \/ AdminAssign
  \/ CancelCheck
  \/ CancelCommit
  \/ Restart

Spec == Init /\ [][Next]_vars

-----------------------------------------------------------------------------
DispatchTypeOK ==
  /\ RowTypeOK
  /\ Competing!CompTypeOK
  /\ Popping!PopTypeOK
  /\ admin \in RiderOrNone
  /\ byAdmin \subseteq Riders
  /\ cancelling \in BOOLEAN

(* Nobody gets the order against his will: its rider joined the             *)
(* competition, was asked by the chain, or was chosen by the administrator. *)
RiderWasWilling ==
  assigned # NoRider =>
    assigned \in Competing!Elements(competitors) \cup offered \cup byAdmin

(* What the missing checks can do to an order is only this: a cancelled     *)
(* order comes back as one under way, with a rider, or as PENDING at the    *)
(* end of the chain; an order under way is cancelled, or falls back to      *)
(* PENDING at the end of the chain.  It is never taken from its rider       *)
(* without another getting it, and its competition never opens again.       *)
KnownOverwrite ==
  /\ assigned # NoRider => assigned' # NoRider
  /\ closed => closed'
  /\ status = "CANCELLED" /\ status' # status =>
       \/ status' = "ONGOING" /\ assigned' # NoRider
       \/ status' = "PENDING" /\ public'
  /\ status = "ONGOING" /\ status' # status =>
       \/ status' = "CANCELLED" /\ cancelling
       \/ status' = "PENDING" /\ public'

(* Every step of every channel keeps to it. *)
OnlyKnownOverwrites == [][KnownOverwrite]_vars
=============================================================================
