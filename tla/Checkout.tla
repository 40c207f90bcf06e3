------------------------------ MODULE Checkout ------------------------------
(***************************************************************************)
(* The delivery of Fulfilment when receivers may also pay by card: a       *)
(* checkout session is made for a stop with an amount to collect, and when *)
(* it is paid Stripe sends the event checkout.session.completed, at least  *)
(* once and in any order.  The webhook marks the payment PAID and the stop *)
(* COMPLETED, looks neither at the order's status nor at the stop's, and   *)
(* completes the order itself when no other stop is left: it writes no     *)
(* completedAt and credits nobody.                                         *)
(*                                                                         *)
(* The webhook recognises a second delivery by a transaction code that it  *)
(* makes from the clock, so it never does.  (Two deliveries that are       *)
(* handled in the same millisecond are left out.)                          *)
(***************************************************************************)
EXTENDS Fulfilment, Incident

CONSTANTS
  CheckoutSessions, \* Stripe checkout sessions that may be made
  Webhooks,         \* deliveries of the event that may be handled at once
  NoSession,        \* the session of a free handler
  MaxDeliveries     \* bound: deliveries

ASSUME CheckoutAssumption ==
  /\ NoSession \notin CheckoutSessions
  /\ MaxDeliveries \in Nat

VARIABLES
  payFor,      \* payFor[x]: the stop of session x, NoStop before it is made
  settled,     \* sessions that were paid
  hook,        \* hook[w]: the step of handler w
  about,       \* about[w]: the session it handles
  booked,      \* booked[s]: Transaction rows for the card payment of stop s
  deliveries,  \* deliveries so far (see MaxDeliveries)
  checkoutIncidents

hookVars == <<hook, about>>
checkoutVars == <<payFor, settled, hookVars, booked, deliveries, checkoutIncidents>>
allVars == <<vars, checkoutVars>>

(*   "unpaid_rider"  a webhook completed the order, and no earnings had been *)
(*                   credited                                               *)
(*   "revived"       it completed an order that was cancelled                *)
CheckoutIncidents == {"unpaid_rider", "revived"}

CheckoutTypeOK ==
  /\ TypeOK
  /\ payFor \in [CheckoutSessions -> Cash \cup {NoStop}]
  /\ settled \subseteq CheckoutSessions
  /\ hook \in [Webhooks -> {"idle", "read", "marked", "finishing", "staying"}]
  /\ about \in [Webhooks -> CheckoutSessions \cup {NoSession}]
  /\ booked \in [Stops -> Nat]
  /\ deliveries \in 0 .. MaxDeliveries
  /\ checkoutIncidents \subseteq CheckoutIncidents

CheckoutInit ==
  /\ Init
  /\ payFor = [x \in CheckoutSessions |-> NoStop]
  /\ settled = {}
  /\ hook = [w \in Webhooks |-> "idle"]
  /\ about = [w \in Webhooks |-> NoSession]
  /\ booked = [s \in Stops |-> 0]
  /\ deliveries = 0
  /\ checkoutIncidents = {}

-----------------------------------------------------------------------------
(* createCheckoutSession, and the payment, which is Stripe's *)

MakeSession(x, s) ==
  /\ s \in Cash
  /\ payFor[x] = NoStop
  /\ payFor' = [payFor EXCEPT ![x] = s]
  /\ UNCHANGED <<vars, settled, hookVars, booked, deliveries, checkoutIncidents>>

PaySession(x) ==
  /\ payFor[x] # NoStop /\ x \notin settled
  /\ settled' = settled \cup {x}
  /\ UNCHANGED <<vars, payFor, hookVars, booked, deliveries, checkoutIncidents>>

-----------------------------------------------------------------------------
(* handleWebhook, checkout.session.completed *)

StopOf(w) == payFor[about[w]]
HookGoto(w, step) == hook' = [hook EXCEPT ![w] = step] /\ UNCHANGED about

HookEnd(w) ==
  /\ hook' = [hook EXCEPT ![w] = "idle"]
  /\ about' = [about EXCEPT ![w] = NoSession]

HookLocked(s) ==
  \E w \in Webhooks : hook[w] \in {"marked", "finishing", "staying"} /\ StopOf(w) = s

(* The event is delivered, and the order and the stop are read. *)
DeliverCheckout(w, x) ==
  /\ x \in settled
  /\ hook[w] = "idle"
  /\ deliveries < MaxDeliveries
  /\ deliveries' = deliveries + 1
  /\ hook' = [hook EXCEPT ![w] = "read"]
  /\ about' = [about EXCEPT ![w] = x]
  /\ UNCHANGED <<vars, payFor, settled, booked, checkoutIncidents>>

(* The transaction writes the payment and the stop. *)
HookMark(w) ==
  /\ hook[w] = "read"
  /\ ~Locked(StopOf(w)) /\ ~HookLocked(StopOf(w))
  /\ HookGoto(w, "marked")
  /\ UNCHANGED <<vars, payFor, settled, booked, deliveries, checkoutIncidents>>

(* remainingStops, as the transaction sees them; payments do not count. *)
HookTally(w) ==
  /\ hook[w] = "marked"
  /\ HookGoto(w, IF \A s \in Stops \ {StopOf(w)} : stopStatus[s] = "COMPLETED"
                   THEN "finishing" ELSE "staying")
  /\ UNCHANGED <<vars, payFor, settled, booked, deliveries, checkoutIncidents>>

HookCommit(w) ==
  LET s == StopOf(w)
      last == hook[w] = "finishing"
  IN
  /\ hook[w] \in {"finishing", "staying"}
  /\ paid' = paid \cup {s}
  /\ stopStatus' = [stopStatus EXCEPT ![s] = "COMPLETED"]
  /\ order_status' = IF last THEN "COMPLETED" ELSE order_status
  /\ booked' = [booked EXCEPT ![s] = @ + 1]
  /\ checkoutIncidents' = checkoutIncidents
        \cup When(last /\ earnings = 0, "unpaid_rider")
        \cup When(last /\ order_status = "CANCELLED", "revived")
  /\ HookEnd(w)
  /\ UNCHANGED <<delivered, reached, skipped, earnings, at, target, payFor, settled, deliveries>>

(* The handler fails and changes nothing; Stripe delivers the event again. *)
HookFails(w) ==
  /\ hook[w] # "idle"
  /\ HookEnd(w)
  /\ UNCHANGED <<vars, payFor, settled, booked, deliveries, checkoutIncidents>>

-----------------------------------------------------------------------------
(* The calls of Fulfilment wait for the rows a webhook has written. *)
Waits(c) ==
  /\ at[c] \in {"complete", "fail", "retry", "skip"} \cup Progress
  /\ HookLocked(target[c])

Hook(w) ==
  \/ \E x \in CheckoutSessions : DeliverCheckout(w, x)
  \/ HookMark(w) \/ HookTally(w) \/ HookCommit(w) \/ HookFails(w)

CheckoutNext ==
  \/ \E c \in Calls : \/ ~Waits(c) /\ CallStep(c) /\ UNCHANGED checkoutVars
                      \/ Waits(c) /\ Lose(c) /\ UNCHANGED checkoutVars
  \/ \E x \in CheckoutSessions : PaySession(x) \/ \E s \in Stops : MakeSession(x, s)
  \/ \E w \in Webhooks : Hook(w)

CheckoutSpec == CheckoutInit /\ [][CheckoutNext]_allVars

-----------------------------------------------------------------------------
(* Properties *)

(* The rider is paid at most once, and only when every stop was delivered   *)
(* or paid by card and every amount collected; and an order is COMPLETED    *)
(* without his earnings only if a webhook completed it: however card        *)
(* payments, deliveries of their events, completions and failures of stops  *)
(* interleave.                                                             *)
CardPaidDelivery ==
  /\ earnings <= 1
  /\ earnings > 0 => /\ \A s \in Stops : s \in delivered \/ booked[s] > 0
                     /\ Cash \subseteq paid
  /\ order_status = "COMPLETED" => earnings = 1 \/ "unpaid_rider" \in checkoutIncidents

(* "prevent duplicate webhook processing": a stop has no more transactions  *)
(* for card payments than its sessions were paid.                          *)
BookedOnce ==
  \A s \in Stops : booked[s] <= Cardinality({x \in settled : payFor[x] = s})
=============================================================================
