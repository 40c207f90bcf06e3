----------------------------- MODULE Placement -----------------------------
(***************************************************************************)
(* An order is placed, paid and perhaps cancelled.  Three requests place   *)
(* it (placeOrder, updateOrderStatus, and markOrdersAsPending for an order *)
(* made in bulk), and so does the webhook of a card payment; the wallet    *)
(* the money comes from is the one of Wallet, whose deposits, withdrawals, *)
(* adjustments and tips go on meanwhile.                                   *)
(*                                                                         *)
(* Every request checks the order before its transaction and writes it     *)
(* afterwards without looking again.  The transactions are Read Committed. *)
(*                                                                         *)
(* The dispatch and the delivery of the order are the two steps of other   *)
(* components that change its status (see Dispatch and Fulfilment).        *)
(***************************************************************************)
EXTENDS Wallet, Incident

CONSTANTS
  Payments,   \* payment intents the customer's app creates for the order
  Cost,       \* total_cost of the order
  Methods,    \* bound: the payment methods customers choose from
  SetTo,      \* bound: the statuses updateOrderStatus is asked for
  Bulk,       \* isBulk: the order is one that markOrdersAsPending accepts
  MaxPlaced   \* bound: requests that place, set or cancel the order

ASSUME PlacementAssumption ==
  /\ Cost \in Nat \ {0}
  /\ Methods \subseteq {"COD", "WALLET", "ONLINE_PAY"}
  /\ SetTo \subseteq {"PENDING", "ONGOING", "COMPLETED", "CANCELLED"}
  /\ Bulk \in BOOLEAN
  /\ Payments \cap Deposits = {} /\ NoIntent \notin Payments
  /\ MaxPlaced \in Nat

VARIABLES
  order,     \* [status, isPlaced, payType]: the columns of the order's row
  toConfirm, \* intents of Payments whose success is not yet answered
  confirmed, \* intents of Payments that were paid
  charges,   \* charges made by payWithSavedCard
  debits,    \* decrements of the balance by the order's total_cost
  refunds,   \* increments of the balance by a cancellation
  chains,    \* calls of startPopupChain
  request,   \* request[c]: what call c was asked, and the order it read
  requested  \* requests about the order so far (see MaxPlaced)

moneyVars == <<charges, debits, refunds>>
orderVars == <<order, toConfirm, confirmed, moneyVars, chains, request, requested>>
walletVars == <<balance, history, rows, wired, tips, tipped, asked>>
allVars == <<vars, orderVars>>

OrderRows == [status : {"PROGRESS", "PENDING", "ONGOING", "COMPLETED", "CANCELLED"},
              isPlaced : BOOLEAN,
              payType : {"COD", "WALLET", "ONLINE_PAY"}]

(* paying: the request asks for the payment to be taken (payType PAYMENT; *)
(* placeOrder always does).                                               *)
Requests == [route : {"none", "place", "set", "bulk", "cancel", "confirm"},
             to : {"PENDING", "ONGOING", "COMPLETED", "CANCELLED"},
             pay : {"COD", "WALLET", "ONLINE_PAY"},
             paying : BOOLEAN,
             saw : OrderRows]

OrderSteps == {"begin", "funded", "chain", "cancel", "confirm"}

(* Further irregularities (see Incidents):                                 *)
(*   "order_changed"   a call wrote the order after it changed under it    *)
(*   "confirmed_late"  a card payment was confirmed for an order that was  *)
(*                     not in PROGRESS                                     *)
(*   "charged"         a call ended between the charge and the commit      *)
(*   "unpaid"          a request placed the order without asking to pay    *)
OrderIncidents == {"order_changed", "confirmed_late", "charged", "unpaid"}

OrderTypeOK ==
  /\ order \in OrderRows
  /\ toConfirm \subseteq confirmed
  /\ confirmed \subseteq Payments
  /\ charges \in Nat /\ debits \in Nat /\ refunds \in Nat /\ chains \in Nat
  /\ request \in [Calls -> Requests]
  /\ requested \in 0 .. MaxPlaced
  /\ at \in [Calls -> {"idle"} \cup Steps \cup OrderSteps]
  /\ incidents \subseteq Incidents \cup OrderIncidents
  /\ balance \in Int

NewOrder == [status |-> "PROGRESS", isPlaced |-> FALSE, payType |-> "COD"]
NoRequest == [route |-> "none", to |-> "PENDING", pay |-> "COD", paying |-> FALSE, saw |-> NewOrder]

PlacementInit ==
  /\ Init
  /\ order = NewOrder
  /\ toConfirm = {}
  /\ confirmed = {}
  /\ charges = 0 /\ debits = 0 /\ refunds = 0
  /\ chains = 0
  /\ request = [c \in Calls |-> NoRequest]
  /\ requested = 0

-----------------------------------------------------------------------------
(* A request that passed the checks of its first read. *)
Enter(c, step, r) ==
  /\ at[c] = "idle"
  /\ at' = [at EXCEPT ![c] = step]
  /\ request' = [request EXCEPT ![c] = r]

EnterRequest(c, step, r) ==
  /\ requested < MaxPlaced
  /\ requested' = requested + 1
  /\ Enter(c, step, r)

EndRequest(c) ==
  /\ End(c)
  /\ request' = [request EXCEPT ![c] = NoRequest]

NoteAll(S) == incidents' = incidents \cup S
ChangedSince(c) == When(order # request[c].saw, "order_changed")

Takes(r, p) == r.paying /\ r.pay = p

-----------------------------------------------------------------------------
(* placeOrder, updateOrderStatus and markOrdersAsPending: the checks *)

(* Mutant: the order's status is not looked at. *)
PlaceCheckAnyStatus(c, p) ==
  /\ EnterRequest(c, "begin",
       [route |-> "place", to |-> "PENDING", pay |-> p, paying |-> TRUE, saw |-> order])
  /\ UNCHANGED <<walletVars, intent, amount, seen, incidents,
                 order, toConfirm, confirmed, moneyVars, chains>>

PlaceCheck(c, p) ==
  /\ order.status = "PROGRESS"
  /\ EnterRequest(c, "begin",
       [route |-> "place", to |-> "PENDING", pay |-> p, paying |-> TRUE, saw |-> order])
  /\ UNCHANGED <<walletVars, intent, amount, seen, incidents,
                 order, toConfirm, confirmed, moneyVars, chains>>

(* updateOrderStatus sets any status; it takes a payment only for PENDING.  *)
(* An online payment fails: addMoney gets the payment method's id for the   *)
(* currency.                                                               *)
SetCheck(c, s, p, paying) ==
  /\ order.status = "PROGRESS"
  /\ paying => s = "PENDING" /\ p # "ONLINE_PAY"
  /\ EnterRequest(c, "begin",
       [route |-> "set", to |-> s, pay |-> p, paying |-> paying, saw |-> order])
  /\ UNCHANGED <<walletVars, intent, amount, seen, incidents,
                 order, toConfirm, confirmed, moneyVars, chains>>

(* markOrdersAsPending reads the balance before its transaction begins. *)
BulkCheck(c, p, paying) ==
  LET r == [route |-> "bulk", to |-> "PENDING", pay |-> p, paying |-> paying, saw |-> order] IN
  /\ Bulk
  /\ order.status = "PROGRESS"
  /\ paying => p # "ONLINE_PAY"
  /\ Takes(r, "WALLET") => balance >= Cost
  /\ EnterRequest(c, "funded", r)
  /\ seen' = [seen EXCEPT ![c] = balance]
  /\ UNCHANGED <<walletVars, intent, amount, incidents,
                 order, toConfirm, confirmed, moneyVars, chains>>

-----------------------------------------------------------------------------
(* The transaction: the money first, then the order *)

(* With WALLET the balance is read and compared; with COD, or if no payment *)
(* was asked for, there is nothing to do.                                  *)
Funds(c) ==
  /\ at[c] = "begin"
  /\ ~Takes(request[c], "ONLINE_PAY")
  /\ Takes(request[c], "WALLET") => balance >= Cost
  /\ at' = [at EXCEPT ![c] = "funded"]
  /\ seen' = [seen EXCEPT ![c] = balance]
  /\ UNCHANGED <<walletVars, intent, amount, incidents, orderVars>>

(* payWithSavedCard charges the card; the charge is not undone if the       *)
(* transaction fails.                                                      *)
Charge(c) ==
  /\ at[c] = "begin"
  /\ Takes(request[c], "ONLINE_PAY")
  /\ charges' = charges + 1
  /\ at' = [at EXCEPT ![c] = "funded"]
  /\ UNCHANGED <<walletVars, intent, amount, seen, incidents, order, toConfirm, confirmed,
                 debits, refunds, chains, request, requested>>

(* The order is written, whatever it has become, and the balance is         *)
(* decremented if it pays.                                                 *)
WriteOrder(c, route) ==
  LET r == request[c]
      fromWallet == Takes(r, "WALLET")
  IN
  /\ at[c] = "funded" /\ r.route = route
  /\ balance' = IF fromWallet THEN balance - Cost ELSE balance
  /\ debits' = IF fromWallet THEN debits + 1 ELSE debits
  /\ order' = [status |-> r.to, isPlaced |-> r.to = "PENDING", payType |-> r.pay]
  /\ NoteAll(When(fromWallet /\ balance # seen[c], "stale_debit")
             \cup When(fromWallet /\ route # "place", "unrecorded")
             \cup When(r.to = "PENDING" /\ r.pay # "COD" /\ ~r.paying, "unpaid")
             \cup ChangedSince(c))
  /\ UNCHANGED <<rows, wired, tips, tipped, asked, toConfirm, confirmed,
                 charges, refunds, chains, requested>>

PlaceCommit(c) ==
  /\ WriteOrder(c, "place")
  /\ history' = IF Takes(request[c], "WALLET") THEN history - Cost ELSE history
  /\ at' = [at EXCEPT ![c] = "chain"]
  /\ UNCHANGED <<intent, amount, seen, request>>

(* updateOrderStatus and markOrdersAsPending leave no history row. *)
SetCommit(c) ==
  /\ WriteOrder(c, "set")
  /\ EndRequest(c)
  /\ UNCHANGED history

BulkCommit(c) ==
  /\ WriteOrder(c, "bulk")
  /\ EndRequest(c)
  /\ UNCHANGED history

(* After the commit of placeOrder the popup chain is started. *)
PlaceStartChain(c) ==
  /\ at[c] = "chain"
  /\ chains' = chains + 1
  /\ EndRequest(c)
  /\ UNCHANGED <<walletVars, incidents, order, toConfirm, confirmed, moneyVars, requested>>

-----------------------------------------------------------------------------
(* cancelOrder *)

CancelCheck(c) ==
  /\ order.status \in {"PROGRESS", "PENDING"}
  /\ EnterRequest(c, "cancel", [NoRequest EXCEPT !.route = "cancel", !.saw = order])
  /\ UNCHANGED <<walletVars, intent, amount, seen, incidents,
                 order, toConfirm, confirmed, moneyVars, chains>>

(* Mutant: the refund looks only at how the order was to be paid. *)
CancelCommitUnplaced(c) ==
  /\ at[c] = "cancel"
  /\ balance' = balance + Cost
  /\ refunds' = refunds + 1
  /\ order' = [order EXCEPT !.status = "CANCELLED"]
  /\ NoteAll(ChangedSince(c) \cup {"unrecorded"})
  /\ EndRequest(c)
  /\ UNCHANGED <<history, rows, wired, tips, tipped, asked, toConfirm, confirmed,
                 charges, debits, chains, requested>>

(* The refund follows the order that was read.  It leaves no history row;   *)
(* a card payment is not refunded.                                         *)
CancelCommit(c) ==
  LET refund == request[c].saw.payType = "WALLET" /\ request[c].saw.isPlaced IN
  /\ at[c] = "cancel"
  /\ balance' = IF refund THEN balance + Cost ELSE balance
  /\ refunds' = IF refund THEN refunds + 1 ELSE refunds
  /\ order' = [order EXCEPT !.status = "CANCELLED"]
  /\ NoteAll(ChangedSince(c) \cup When(refund, "unrecorded"))
  /\ EndRequest(c)
  /\ UNCHANGED <<history, rows, wired, tips, tipped, asked, toConfirm, confirmed,
                 charges, debits, chains, requested>>

-----------------------------------------------------------------------------
(* The card payment of the order *)

(* External: the customer pays an intent of the order. *)
OrderPaid(i) ==
  /\ i \notin confirmed
  /\ confirmed' = confirmed \cup {i}
  /\ toConfirm' = toConfirm \cup {i}
  /\ UNCHANGED <<vars, order, moneyVars, chains, request, requested>>

(* processOrderPayment reads the order; it does not look at its status. *)
ConfirmRead(c, i) ==
  /\ i \in toConfirm
  /\ Enter(c, "confirm", [NoRequest EXCEPT !.route = "confirm", !.pay = "ONLINE_PAY", !.saw = order])
  /\ intent' = [intent EXCEPT ![c] = i]
  /\ UNCHANGED <<walletVars, amount, seen, incidents,
                 order, toConfirm, confirmed, moneyVars, chains, requested>>

ConfirmCommit(c) ==
  /\ at[c] = "confirm"
  /\ order' = [status |-> "PENDING", isPlaced |-> TRUE, payType |-> "ONLINE_PAY"]
  /\ toConfirm' \in {toConfirm, toConfirm \ {intent[c]}}
  /\ NoteAll(When(order.status # "PROGRESS", "confirmed_late"))
  /\ EndRequest(c)
  /\ UNCHANGED <<walletVars, confirmed, moneyVars, chains, requested>>

-----------------------------------------------------------------------------
(* Dispatch and Fulfilment, and calls that are cut short *)

Advance ==
  /\ order.status \in {"PENDING", "ONGOING"}
  /\ order' = [order EXCEPT !.status = IF @ = "PENDING" THEN "ONGOING" ELSE "COMPLETED"]
  /\ UNCHANGED <<vars, toConfirm, confirmed, moneyVars, chains, request, requested>>

LoseOrderCall(c) ==
  /\ at[c] \in OrderSteps
  /\ EndRequest(c)
  /\ NoteAll(When(at[c] = "funded" /\ Takes(request[c], "ONLINE_PAY"), "charged"))
  /\ UNCHANGED <<walletVars, order, toConfirm, confirmed, moneyVars, chains, requested>>

OrderRequest(c) ==
  \/ CancelCheck(c)
  \/ \E p \in Methods :
       \/ PlaceCheck(c, p)
       \/ \E paying \in BOOLEAN :
            \/ BulkCheck(c, p, paying)
            \/ \E s \in SetTo : SetCheck(c, s, p, paying)

OrderStep(c) ==
  \/ Funds(c) \/ Charge(c)
  \/ PlaceCommit(c) \/ SetCommit(c) \/ BulkCommit(c) \/ PlaceStartChain(c)
  \/ CancelCommit(c)
  \/ ConfirmCommit(c)
  \/ LoseOrderCall(c)

(* The wallet's calls; a tip needs a completed order. *)
WalletCall(c) ==
  /\ \/ Webhook(c)
     \/ Step(c)
     \/ at[c] \in Steps /\ Lose(c)
     \/ \E a \in Amounts :
          \/ WithdrawCheck(c, a)
          \/ order.status = "COMPLETED" /\ TipCheck(c, a)
          \/ \E what \in {"add", "deduct"} : AdjustCheck(c, what, a)
  /\ UNCHANGED orderVars

PlacementNext ==
  \/ \E i \in Deposits : Deposit(i) /\ UNCHANGED orderVars
  \/ \E i \in Payments : OrderPaid(i)
  \/ Advance
  \/ \E c \in Calls :
       \/ WalletCall(c)
       \/ OrderRequest(c)
       \/ OrderStep(c)
       \/ \E i \in Payments : ConfirmRead(c, i)

PlacementSpec == PlacementInit /\ [][PlacementNext]_allVars

-----------------------------------------------------------------------------
(* Properties *)

(* As long as no call wrote an order that had changed under it, no card     *)
(* payment was confirmed late and no request placed it without paying, a   *)
(* placed wallet order has been debited once more than it was refunded,    *)
(* and a cancelled order keeps no wallet money.                            *)
DebitsMatchRefunds ==
  incidents \cap {"order_changed", "confirmed_late", "unpaid"} = {} =>
    /\ order.isPlaced /\ order.payType = "WALLET" /\ order.status # "CANCELLED"
         => debits = refunds + 1
    /\ order.status = "CANCELLED" => debits = refunds

(* The order is paid once, by whatever means, and its popup chain is        *)
(* started once, unless two requests that both saw it in PROGRESS overlap,  *)
(* a card is charged by a call that is then cut short, or a payment intent  *)
(* is confirmed for an order that is no longer in PROGRESS.                *)
PlacedOnce ==
  /\ incidents \cap {"order_changed", "confirmed_late", "charged"} = {}
  /\ \A c \in Calls : at[c] \notin {"funded", "confirm"}
  => charges + debits <= 1 /\ chains <= 1

(* The money follows the order: it is paid once, and refunded when it is    *)
(* cancelled.                                                              *)
MoneyFollowsOrder == DebitsMatchRefunds /\ PlacedOnce
=============================================================================
