----------------------------- MODULE Fulfilment -----------------------------
(***************************************************************************)
(* The delivery of one order that has its rider: the rider reports his     *)
(* progress at the stops and completes them, the receiver may be absent    *)
(* (a stop fails and is retried), drops may be skipped, and the customer   *)
(* may still cancel.  The completion of the last stop completes the order  *)
(* and credits the rider's earnings.                                       *)
(*                                                                         *)
(* Each call is an HTTP request: it reads, checks what it read, and later  *)
(* writes, and no lock is held in between.  Only completeStop writes in an *)
(* interactive transaction; PostgreSQL's default isolation (Read           *)
(* Committed) lets each of its statements see what is committed by then,   *)
(* and its own writes, and keeps the rows it wrote locked until it ends.   *)
(*                                                                         *)
(* The order has been dispatched: the other writers of its status (the     *)
(* channels of Dispatch, the payment webhook, the administrator's raw      *)
(* update of the row) are not part of this module.                         *)
(***************************************************************************)
EXTENDS Naturals, FiniteSets

CONSTANTS
  Stops,     \* OrderStop rows of the order
  Pickup,    \* the stop of type PICKUP
  Cash,      \* stops whose StopPayment has an amount to collect (COD)
  Reported,  \* stops at which the rider's app reports progress
  Fixed,     \* isFixed: the stops may not be skipped
  Calls,     \* requests that may be in flight at once
  NoStop     \* target of a call that has none

ASSUME FulfilmentAssumption ==
  /\ Pickup \in Stops
  /\ IsFiniteSet(Stops)
  /\ Cash \subseteq Stops
  /\ Reported \subseteq Stops
  /\ Fixed \in BOOLEAN
  /\ NoStop \notin Stops

VARIABLES
  order_status,
  stopStatus,  \* stopStatus[s]: OrderStop.status
  paid,        \* stops whose payment is PAID
  delivered,   \* stops that have a completedAt: nothing ever clears it
  reached,     \* reached[s]: the progress flags set on stop s
  skipped,     \* stops with is_skiped
  earnings,    \* EARNING rows of the rider's wallet history for this order
  at,          \* at[c]: what call c is about to write
  target       \* target[c]: the stop it works on

stopVars == <<stopStatus, paid, delivered, reached, skipped>>
vars == <<order_status, stopVars, earnings, at, target>>

Progress == {"PROCEED", "ARRIVED", "LOADED", "UNLOADED"}
StopStatus == {"PENDING", "COMPLETED", "FAILED"}
InTransaction == {"marked", "finishing", "staying"}
Pending == {"complete", "fail", "retry", "skip", "cancel"} \cup Progress \cup InTransaction
Drops == Stops \ {Pickup}

TypeOK ==
  /\ order_status \in {"PENDING", "ONGOING", "COMPLETED", "CANCELLED"}
  /\ stopStatus \in [Stops -> StopStatus]
  /\ paid \subseteq Stops
  /\ delivered \subseteq Stops
  /\ reached \in [Stops -> SUBSET Progress]
  /\ skipped \subseteq Stops
  /\ earnings \in Nat
  /\ at \in [Calls -> {"idle"} \cup Pending]
  /\ target \in [Calls -> Stops \cup {NoStop}]

(* The order has its rider.  It is ONGOING, or PENDING again when the popup *)
(* chain has put it back (see Dispatch, OnlyKnownOverwrites).               *)
Init ==
  /\ order_status \in {"ONGOING", "PENDING"}
  /\ stopStatus = [s \in Stops |-> "PENDING"]
  /\ paid = {}
  /\ delivered = {}
  /\ reached = [s \in Stops |-> {}]
  /\ skipped = {}
  /\ earnings = 0
  /\ at = [c \in Calls |-> "idle"]
  /\ target = [c \in Calls |-> NoStop]

-----------------------------------------------------------------------------
(* A call's first step reads and checks; if the checks fail it throws and   *)
(* changes nothing, so only the calls that go on are modelled.              *)
Begin(c, what, s) ==
  /\ at[c] = "idle"
  /\ at' = [at EXCEPT ![c] = what]
  /\ target' = [target EXCEPT ![c] = s]
  /\ UNCHANGED <<order_status, stopVars, earnings>>

Goto(c, step) ==
  /\ at' = [at EXCEPT ![c] = step]
  /\ UNCHANGED target

End(c) ==
  /\ at' = [at EXCEPT ![c] = "idle"]
  /\ target' = [target EXCEPT ![c] = NoStop]

(* The row of stop s is locked by a completion that has written it. *)
Locked(s) == \E c \in Calls : target[c] = s /\ at[c] \in InTransaction

-----------------------------------------------------------------------------
(* updateStopProgress                                                      *)

(* The flag a step requires to be set already. *)
Requires(step, s) ==
  CASE step = "PROCEED"  -> {}
    [] step = "ARRIVED"  -> {"PROCEED"}
    [] step = "LOADED"   -> {"ARRIVED"}
    [] step = "UNLOADED" -> IF s = Pickup THEN {"LOADED"} ELSE {}

ProgressCheck(c, step, s) ==
  /\ s \in Reported
  /\ stopStatus[s] # "COMPLETED"
  /\ step \notin reached[s]
  /\ Requires(step, s) \subseteq reached[s]
  /\ Begin(c, step, s)

ProgressWrite(c) ==
  /\ at[c] \in Progress
  /\ ~Locked(target[c])
  /\ reached' = [reached EXCEPT ![target[c]] = @ \cup {at[c]}]
  /\ End(c)
  /\ UNCHANGED <<order_status, stopStatus, paid, delivered, skipped, earnings>>

-----------------------------------------------------------------------------
(* completeStop                                                            *)

(* Mutant: the order's status is not looked at. *)
CompleteCheckAnyOrder(c, s) ==
  /\ stopStatus[s] # "COMPLETED"
  /\ Begin(c, "complete", s)

CompleteCheck(c, s) ==
  /\ order_status \in {"PENDING", "ONGOING"}
  /\ stopStatus[s] # "COMPLETED"
  /\ Begin(c, "complete", s)

(* The transaction begins: the payment and the stop are written.  It fails *)
(* if the rider did not collect the cash the stop asks for.                *)
CompleteMark(c) ==
  /\ at[c] = "complete"
  /\ \/ ~Locked(target[c]) /\ Goto(c, "marked")
     \/ target[c] \in Cash /\ End(c)
  /\ UNCHANGED <<order_status, stopVars, earnings>>

(* Mutants: failed stops do not count as incomplete; no stop does. *)
IncompleteIgnoresFailed(c) ==
  {s \in Stops \ {target[c]} : stopStatus[s] = "PENDING" \/ s \in Cash \ paid}
IncompleteNone(c) == {}

(* incompleteStops, as the transaction sees them: its own stop is complete *)
(* and paid, the others are as committed.                                  *)
Incomplete(c) ==
  {s \in Stops \ {target[c]} : stopStatus[s] # "COMPLETED" \/ s \in Cash \ paid}

CompleteTally(c) ==
  /\ at[c] = "marked"
  /\ Goto(c, IF Incomplete(c) = {} THEN "finishing" ELSE "staying")
  /\ UNCHANGED <<order_status, stopVars, earnings>>

(* What a committed completion does to its stop. *)
StopCompleted(s) ==
  /\ stopStatus' = [stopStatus EXCEPT ![s] = "COMPLETED"]
  /\ paid' = paid \cup ({s} \cap Cash)
  /\ delivered' = delivered \cup {s}
  /\ UNCHANGED <<reached, skipped>>

CommitStop(c) ==
  /\ at[c] = "staying"
  /\ StopCompleted(target[c])
  /\ End(c)
  /\ UNCHANGED <<order_status, earnings>>

(* Mutant: the earnings row has no unique id. *)
CommitOrderAgain(c) ==
  /\ at[c] = "finishing"
  /\ StopCompleted(target[c])
  /\ order_status' = "COMPLETED"
  /\ earnings' = earnings + 1
  /\ End(c)

(* The order is completed and the rider credited.  The id of the earnings  *)
(* row is TRX-earning-<order>, which is unique: a second row makes the     *)
(* whole transaction fail.  (The first stop's payment is set to PAID too;  *)
(* all that have an amount are PAID by now.)                               *)
CommitOrder(c) ==
  /\ at[c] = "finishing"
  /\ IF earnings = 0
     THEN /\ StopCompleted(target[c])
          /\ order_status' = "COMPLETED"
          /\ earnings' = earnings + 1
     ELSE UNCHANGED <<order_status, stopVars, earnings>>
  /\ End(c)

-----------------------------------------------------------------------------
(* failStop, retryFailedStop, skippedStop: they do not look at the order's *)
(* status, and what they checked may have changed when they write.         *)

WriteStop(c, from, to) ==
  /\ at[c] = from
  /\ ~Locked(target[c])
  /\ stopStatus' = [stopStatus EXCEPT ![target[c]] = to]
  /\ End(c)
  /\ UNCHANGED <<order_status, paid, delivered, reached, skipped, earnings>>

FailCheck(c, s) == stopStatus[s] # "COMPLETED" /\ Begin(c, "fail", s)

FailWrite(c) == WriteStop(c, "fail", "FAILED")

RetryCheck(c, s) == stopStatus[s] = "FAILED" /\ Begin(c, "retry", s)

RetryWrite(c) == WriteStop(c, "retry", "PENDING")

SkipCheck(c, s) ==
  /\ ~Fixed
  /\ Cardinality(Drops \ skipped) > 1
  /\ s \notin skipped
  /\ Begin(c, "skip", s)

SkipWrite(c) ==
  /\ at[c] = "skip"
  /\ ~Locked(target[c])
  /\ skipped' = skipped \cup {target[c]}
  /\ End(c)
  /\ UNCHANGED <<order_status, stopStatus, paid, delivered, reached, earnings>>

-----------------------------------------------------------------------------
(* cancelOrder                                                             *)

CancelCheck(c) == order_status = "PENDING" /\ Begin(c, "cancel", NoStop)

CancelWrite(c) ==
  /\ at[c] = "cancel"
  /\ order_status' = "CANCELLED"
  /\ End(c)
  /\ UNCHANGED <<stopVars, earnings>>

(* A call ends before it has written: an await throws, its transaction     *)
(* times out and is rolled back, or the process dies.                      *)
Lose(c) ==
  /\ at[c] # "idle"
  /\ End(c)
  /\ UNCHANGED <<order_status, stopVars, earnings>>

-----------------------------------------------------------------------------
CallStep(c) ==
  \/ \E s \in Stops :
       \/ CompleteCheck(c, s) \/ FailCheck(c, s) \/ RetryCheck(c, s) \/ SkipCheck(c, s)
       \/ \E step \in Progress : ProgressCheck(c, step, s)
  \/ CompleteMark(c) \/ CompleteTally(c) \/ CommitStop(c) \/ CommitOrder(c)
  \/ FailWrite(c) \/ RetryWrite(c) \/ SkipWrite(c) \/ ProgressWrite(c)
  \/ CancelCheck(c) \/ CancelWrite(c) \/ Lose(c)

Next == \E c \in Calls : CallStep(c)

Spec == Init /\ [][Next]_vars
-----------------------------------------------------------------------------
FulfilmentTypeOK == TypeOK

(* The rider is paid at most once, and a completed order has paid him,       *)
(* whatever requests are repeated, overtaken or rolled back.                 *)
PaidOnce == earnings <= 1 /\ (order_status = "COMPLETED" => earnings = 1)

(* He is paid only when every stop has been delivered and every amount has   *)
(* been collected, although stops may fail and be retried while the last     *)
(* completion counts them.                                                   *)
PaidForDelivery == earnings > 0 => delivered = Stops /\ Cash \subseteq paid

(* The flags of a stop are set in the order of the journey, although a step  *)
(* is checked against flags read earlier and stops are failed and retried.   *)
StepsInOrder ==
  \A s \in Stops : \A step \in reached[s] : Requires(step, s) \subseteq reached[s]

(* An order that is completed or cancelled, and that no request is about to  *)
(* write, stays so for ever: no request that could write its status passes   *)
(* its checks any more.                                                      *)
InFlight == \E c \in Calls : at[c] \in {"complete", "cancel"} \cup InTransaction
Settled == order_status \in {"COMPLETED", "CANCELLED"} /\ ~InFlight
SettledIsFinal == [][Settled => Settled' /\ order_status' = order_status]_vars

(* The delivery implements the abstract one. *)
Abstract == INSTANCE Delivery WITH done <- delivered, earned <- earnings = 1
ImplementsDelivery == Abstract!Spec

-----------------------------------------------------------------------------
(* What the code's comment says, and the race between two completions breaks *)

(* "Auto-complete order if all stops done": when no request is in flight and *)
(* every stop is complete and paid, the order is completed (or cancelled).   *)
AllStopsDone == (\A s \in Stops : stopStatus[s] = "COMPLETED") /\ Cash \subseteq paid
AllStopsDoneCompletesOrder ==
  AllStopsDone /\ (\A c \in Calls : at[c] = "idle") =>
    order_status \in {"COMPLETED", "CANCELLED"}
=============================================================================
