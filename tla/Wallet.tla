------------------------------- MODULE Wallet -------------------------------
(***************************************************************************)
(* The wallet of one customer: deposits by card, confirmed by the webhooks *)
(* of the payment service; withdrawals to the customer's bank account; the *)
(* administrator's adjustments; tips.                                      *)
(*                                                                         *)
(* The payment service is external.  It reports what happens to a payment  *)
(* intent by webhook events, delivers an event until it is answered with   *)
(* success, and so may deliver it several times, late and in any order; an *)
(* intent whose payment failed may be paid by a later attempt.             *)
(*                                                                         *)
(* A call is a request or a delivery of an event.  Its steps are the       *)
(* points at which it reads or writes the database; no lock is held        *)
(* between a read and the write that follows, in a transaction either      *)
(* (Read Committed).  A relative update (increment, decrement) of the      *)
(* balance is atomic.                                                      *)
(*                                                                         *)
(* Money is counted in units of one deposit.  totalWalletBalance, which    *)
(* nothing here compares, is left out.                                     *)
(***************************************************************************)
EXTENDS Integers, FiniteSets

CONSTANTS
  Deposits,   \* payment intents that add money to the wallet
  Amounts,    \* amounts a customer or an administrator may name
  Opening,    \* the balance at first
  Calls,      \* requests and deliveries that may be in flight at once
  NoIntent,   \* the intent of a call that has none
  MaxAsked    \* bound: withdrawals, adjustments and tips that are asked for

ASSUME WalletAssumption ==
  /\ IsFiniteSet(Deposits)
  /\ Amounts \subseteq Nat \ {0}
  /\ Opening \in Nat
  /\ NoIntent \notin Deposits
  /\ MaxAsked \in Nat

VARIABLES
  balance,    \* User.currentWalletBalance of the customer
  history,    \* signed sum of the SUCCESS rows of the customer's wallet history
  payment,    \* payment[i]: what the payment service knows of intent i
  events,     \* <<i, what>>: events not yet answered with success
  row,        \* row[i]: status of the wallet-history row TX-<intent i>
  credits,    \* number of times a deposit incremented the balance
  wired,      \* sum of the transfers made to the customer's bank account
  tips,       \* Tip rows of the customer's completed order
  tipped,     \* what the rider was credited for them
  at,         \* at[c]: the step call c takes next
  intent,     \* intent[c]: the intent it works on
  amount,     \* amount[c]: the amount it was asked for
  seen,       \* seen[c]: the balance it has read
  asked,      \* requests made so far (see MaxAsked)
  incidents   \* what went between the read and the write of a call so far

rows == <<payment, events, row, credits>>
callVars == <<at, intent, amount, seen>>
vars == <<balance, history, rows, wired, tips, tipped, callVars, asked, incidents>>

Events == {"succeeded", "payment_failed"}
Steps == {"credit", "transfer", "debit", "record", "tip", "add", "deduct", "increment"}

(* What can go wrong between two steps of calls, kept only to say which     *)
(* irregularity has which cause:                                           *)
(*   "stale_debit"  the balance was debited after a check on an older one   *)
(*   "overwritten"  an adjustment wrote a balance computed from an older one *)
(*   "undebited"    a call ended between the transfer and the debit         *)
(*   "unrecorded"   a call ended between the debit and its history row      *)
(*   "uncredited"   a deposit was recorded and the balance not incremented *)
Incidents == {"stale_debit", "overwritten", "undebited", "unrecorded", "uncredited"}

TypeOK ==
  /\ balance \in Int
  /\ history \in Int
  /\ payment \in [Deposits -> {"none", "open", "failed", "declined", "succeeded"}]
  /\ events \subseteq Deposits \X Events
  /\ row \in [Deposits -> {"none", "FAILED", "SUCCESS"}]
  /\ credits \in Nat
  /\ wired \in Nat
  /\ tips \in Nat
  /\ tipped \in Nat
  /\ at \in [Calls -> {"idle"} \cup Steps]
  /\ intent \in [Calls -> Deposits \cup {NoIntent}]
  /\ amount \in [Calls -> Amounts \cup {0}]
  /\ seen \in [Calls -> Int]
  /\ asked \in 0 .. MaxAsked
  /\ incidents \subseteq Incidents

Init ==
  /\ balance = Opening
  /\ history = 0
  /\ payment = [i \in Deposits |-> "none"]
  /\ events = {}
  /\ row = [i \in Deposits |-> "none"]
  /\ credits = 0
  /\ wired = 0
  /\ tips = 0
  /\ tipped = 0
  /\ at = [c \in Calls |-> "idle"]
  /\ intent = [c \in Calls |-> NoIntent]
  /\ amount = [c \in Calls |-> 0]
  /\ seen = [c \in Calls |-> 0]
  /\ asked = 0
  /\ incidents = {}

-----------------------------------------------------------------------------
(* Calls *)

Goto(c, step) ==
  /\ at' = [at EXCEPT ![c] = step]
  /\ UNCHANGED <<intent, amount, seen>>

End(c) ==
  /\ at' = [at EXCEPT ![c] = "idle"]
  /\ intent' = [intent EXCEPT ![c] = NoIntent]
  /\ amount' = [amount EXCEPT ![c] = 0]
  /\ seen' = [seen EXCEPT ![c] = 0]

(* A request of amount a whose first step reads the balance and passes. *)
Ask(c, step, a) ==
  /\ at[c] = "idle"
  /\ asked < MaxAsked
  /\ asked' = asked + 1
  /\ at' = [at EXCEPT ![c] = step]
  /\ amount' = [amount EXCEPT ![c] = a]
  /\ seen' = [seen EXCEPT ![c] = balance]
  /\ UNCHANGED intent
  /\ UNCHANGED <<balance, history, rows, wired, tips, tipped, incidents>>

Note(what, happened) ==
  incidents' = IF happened THEN incidents \cup {what} ELSE incidents

(* The relative decrement of a call that compared an earlier balance. *)
Debit(c) ==
  /\ balance' = balance - amount[c]
  /\ Note("stale_debit", balance # seen[c])

(* The process dies, the payment service refuses or the database fails: the *)
(* transaction the call is in is rolled back, what was committed stays.     *)
Lose(c) ==
  /\ at[c] # "idle"
  /\ End(c)
  /\ incidents' = incidents \cup (IF at[c] = "debit" THEN {"undebited"} ELSE {})
                           \cup (IF at[c] = "record" THEN {"unrecorded"} ELSE {})
                           \cup (IF at[c] = "increment" THEN {"uncredited"} ELSE {})
  /\ UNCHANGED <<balance, history, rows, wired, tips, tipped, asked>>

-----------------------------------------------------------------------------
(* The payment service (external) *)

PaymentFails(i) ==
  /\ payment[i] = "open"
  /\ payment' = [payment EXCEPT ![i] = "failed"]
  /\ events' = events \cup {<<i, "payment_failed">>}
  /\ UNCHANGED <<balance, history, row, credits, wired, tips, tipped, callVars, asked, incidents>>

PaymentSucceeds(i) ==
  /\ payment[i] \in {"open", "failed"}
  /\ payment' = [payment EXCEPT ![i] = "succeeded"]
  /\ events' = events \cup {<<i, "succeeded">>}
  /\ UNCHANGED <<balance, history, row, credits, wired, tips, tipped, callVars, asked, incidents>>

-----------------------------------------------------------------------------
(* The deposits: createIntent leaves the payment to the customer's app;     *)
(* addMoney confirms it at once with a saved card, which may be declined.   *)

CreateIntent(i) ==
  /\ payment[i] = "none"
  /\ payment' = [payment EXCEPT ![i] = "open"]
  /\ UNCHANGED <<balance, history, events, row, credits, wired, tips, tipped, callVars, asked, incidents>>

AddMoney(i) ==
  /\ payment[i] = "none"
  /\ \/ /\ payment' = [payment EXCEPT ![i] = "succeeded"]
        /\ events' = events \cup {<<i, "succeeded">>}
     \/ /\ payment' = [payment EXCEPT ![i] = "declined"]
        /\ events' = events \cup {<<i, "payment_failed">>}
  /\ UNCHANGED <<balance, history, row, credits, wired, tips, tipped, callVars, asked, incidents>>

-----------------------------------------------------------------------------
(* handleWebhook *)

(* The call answers with success; the answer may not arrive. *)
Answer(i, what) ==
  events' \in {events, events \ {<<i, what>>}}

(* payment_intent.payment_failed: the row is created; transactionId is      *)
(* unique, so when there is a row already the call throws and the event     *)
(* is delivered again.                                                     *)
DeliverFailed(c, i) ==
  /\ at[c] = "idle"
  /\ <<i, "payment_failed">> \in events
  /\ row[i] = "none"
  /\ row' = [row EXCEPT ![i] = "FAILED"]
  /\ Answer(i, "payment_failed")
  /\ UNCHANGED <<balance, history, payment, credits, wired, tips, tipped, callVars, asked, incidents>>

(* Mutant: the event is answered before the money is credited. *)
DeliverSucceededAnsweredEarly(c, i) ==
  /\ at[c] = "idle"
  /\ <<i, "succeeded">> \in events
  /\ row[i] = "none"
  /\ at' = [at EXCEPT ![c] = "credit"]
  /\ intent' = [intent EXCEPT ![c] = i]
  /\ events' = events \ {<<i, "succeeded">>}
  /\ UNCHANGED <<balance, history, payment, row, credits, wired, tips, tipped, amount, seen, asked, incidents>>

(* payment_intent.succeeded: addMoneUpdateByWebHook looks for the row.      *)
(* If there is one it returns at once, and the event is answered.          *)
DeliverSucceeded(c, i) ==
  /\ at[c] = "idle"
  /\ <<i, "succeeded">> \in events
  /\ IF row[i] = "none"
       THEN /\ at' = [at EXCEPT ![c] = "credit"]
            /\ intent' = [intent EXCEPT ![c] = i]
            /\ UNCHANGED <<events, amount, seen>>
       ELSE Answer(i, "succeeded") /\ UNCHANGED callVars
  /\ UNCHANGED <<balance, history, payment, row, credits, wired, tips, tipped, asked, incidents>>

(* Mutant: the row is written without the unique transaction id. *)
CreditCommitTwice(c) ==
  /\ at[c] = "credit"
  /\ row' = [row EXCEPT ![intent[c]] = "SUCCESS"]
  /\ balance' = balance + 1
  /\ history' = history + 1
  /\ credits' = credits + 1
  /\ Answer(intent[c], "succeeded")
  /\ End(c)
  /\ UNCHANGED <<payment, wired, tips, tipped, asked, incidents>>

(* Mutant: the row is created and the balance is not incremented. *)
CreditCommitRowOnly(c) ==
  /\ at[c] = "credit"
  /\ row[intent[c]] = "none"
  /\ row' = [row EXCEPT ![intent[c]] = "SUCCESS"]
  /\ history' = history + 1
  /\ Answer(intent[c], "succeeded")
  /\ End(c)
  /\ UNCHANGED <<balance, credits, payment, wired, tips, tipped, asked, incidents>>

(* The transaction creates the row and increments the balance.  If another  *)
(* delivery committed the row since, the unique index makes this one fail.  *)
CreditCommit(c) ==
  /\ at[c] = "credit"
  /\ row[intent[c]] = "none"
  /\ row' = [row EXCEPT ![intent[c]] = "SUCCESS"]
  /\ balance' = balance + 1
  /\ history' = history + 1
  /\ credits' = credits + 1
  /\ Answer(intent[c], "succeeded")
  /\ End(c)
  /\ UNCHANGED <<payment, wired, tips, tipped, asked, incidents>>

CreditRefused(c) ==
  /\ at[c] = "credit"
  /\ row[intent[c]] # "none"
  /\ End(c)
  /\ UNCHANGED <<balance, history, rows, wired, tips, tipped, asked, incidents>>

-----------------------------------------------------------------------------
(* payWithSavedCard with payType ADD_MONEY, and addMoneyTest: the card is   *)
(* charged in the request.  The first records the deposit and leaves the   *)
(* balance alone (the increment is commented out, and the payment has no   *)
(* metadata that would make its webhook do it).                            *)

SavedCardDeposit(a) ==
  /\ asked < MaxAsked
  /\ asked' = asked + 1
  /\ history' = history + a
  /\ incidents' = incidents \cup {"uncredited"}
  /\ UNCHANGED <<balance, rows, wired, tips, tipped, callVars>>

TestRecord(c, a) ==
  /\ at[c] = "idle"
  /\ asked < MaxAsked
  /\ asked' = asked + 1
  /\ history' = history + a
  /\ at' = [at EXCEPT ![c] = "increment"]
  /\ amount' = [amount EXCEPT ![c] = a]
  /\ UNCHANGED <<balance, rows, wired, tips, tipped, intent, seen, incidents>>

TestCredit(c) ==
  /\ at[c] = "increment"
  /\ balance' = balance + amount[c]
  /\ End(c)
  /\ UNCHANGED <<history, rows, wired, tips, tipped, asked, incidents>>

-----------------------------------------------------------------------------
(* withdraw *)

(* Mutant: the balance is not compared with the amount. *)
WithdrawCheckNoFunds(c, a) ==
  Ask(c, "transfer", a)

WithdrawCheck(c, a) ==
  /\ balance >= a
  /\ Ask(c, "transfer", a)

Transfer(c) ==
  /\ at[c] = "transfer"
  /\ wired' = wired + amount[c]
  /\ Goto(c, "debit")
  /\ UNCHANGED <<balance, history, rows, tips, tipped, asked, incidents>>

WithdrawDebit(c) ==
  /\ at[c] = "debit"
  /\ Debit(c)
  /\ Goto(c, "record")
  /\ UNCHANGED <<history, rows, wired, tips, tipped, asked>>

WithdrawRecord(c) ==
  /\ at[c] = "record"
  /\ history' = history - amount[c]
  /\ End(c)
  /\ UNCHANGED <<balance, rows, wired, tips, tipped, asked, incidents>>

-----------------------------------------------------------------------------
(* adjustWallet *)

AdjustCheck(c, what, a) ==
  /\ what = "deduct" => balance >= a
  /\ Ask(c, what, a)

(* The new balance is computed from the one that was read. *)
AdjustWrite(c) ==
  LET change == IF at[c] = "add" THEN amount[c] ELSE -amount[c] IN
  /\ at[c] \in {"add", "deduct"}
  /\ balance' = seen[c] + change
  /\ history' = history + change
  /\ Note("overwritten", balance # seen[c])
  /\ End(c)
  /\ UNCHANGED <<rows, wired, tips, tipped, asked>>

-----------------------------------------------------------------------------
(* createTip, for a completed order that has its rider, from the wallet.    *)
(* With ONLINE_PAY the payment method's id is passed where addMoney takes   *)
(* the currency; the payment service refuses it and nothing is committed.  *)

TipCheck(c, a) ==
  /\ tips = 0
  /\ balance >= a
  /\ Ask(c, "tip", a)

TipCommit(c) ==
  /\ at[c] = "tip"
  /\ Debit(c)
  /\ history' = history - amount[c]
  /\ tips' = tips + 1
  /\ tipped' = tipped + amount[c]
  /\ End(c)
  /\ UNCHANGED <<rows, wired, asked>>

-----------------------------------------------------------------------------
(* Steps that the process takes once a call is under way. *)
Step(c) ==
  \/ CreditCommit(c) \/ CreditRefused(c)
  \/ Transfer(c) \/ WithdrawDebit(c) \/ WithdrawRecord(c)
  \/ AdjustWrite(c)
  \/ TipCommit(c)
  \/ TestCredit(c)

Webhook(c) ==
  \E i \in Deposits : DeliverFailed(c, i) \/ DeliverSucceeded(c, i)

Deposit(i) ==
  CreateIntent(i) \/ AddMoney(i) \/ PaymentFails(i) \/ PaymentSucceeds(i)

Request(c) ==
  \E a \in Amounts :
    \/ WithdrawCheck(c, a)
    \/ TipCheck(c, a)
    \/ TestRecord(c, a)
    \/ \E what \in {"add", "deduct"} : AdjustCheck(c, what, a)

Next ==
  \/ \E i \in Deposits : Deposit(i)
  \/ \E a \in Amounts : SavedCardDeposit(a)
  \/ \E c \in Calls : Webhook(c) \/ Request(c) \/ Step(c) \/ Lose(c)

(* Calls take their next step.  The payment service goes on delivering an   *)
(* event that has not been answered, and not every attempt is cut short.   *)
Fairness ==
  /\ \A i \in Deposits : SF_vars(\E c \in Calls : DeliverSucceeded(c, i))
  /\ \A c \in Calls : WF_vars(Step(c)) /\ SF_vars(CreditCommit(c))

Spec == Init /\ [][Next]_vars /\ Fairness

-----------------------------------------------------------------------------
(* Properties *)

(* The balance and the wallet history tell the same story, unless an        *)
(* adjustment overwrote a change made since it read the balance, a          *)
(* withdrawal was cut short between the debit and its row, or a deposit by  *)
(* a saved card was recorded without being credited; a call between its two *)
(* statements makes the only other difference.                              *)
HistoryExplainsBalance ==
  /\ {"overwritten", "unrecorded", "uncredited"} \cap incidents = {}
  /\ \A c \in Calls : at[c] \notin {"record", "increment"}
  => balance = Opening + history

(* The wallet is overdrawn only by a debit whose check was passed on a      *)
(* balance that has changed since (withdraw and createTip compare first     *)
(* and decrement later): calls made one after the other never overdraw it. *)
OverdraftNeedsStaleCheck ==
  balance < 0 => "stale_debit" \in incidents

(* A deposit is credited only after it was paid and only once: concurrent,  *)
(* repeated and late deliveries of its events implement Deposit.           *)
DepositSpec == INSTANCE Deposit WITH
  Intents <- Deposits,
  paidIn <- {i \in Deposits : payment[i] = "succeeded"},
  credited <- {i \in Deposits : row[i] = "SUCCESS"},
  account <- credits

(* The deposits implement the abstract ones. *)
ImplementsDeposit == DepositSpec!Spec

(* A deposit that was paid gets its row: it is credited in the end, unless  *)
(* the failure of an earlier attempt has taken the row: then the call that  *)
(* finds it answers with success and the money never arrives.              *)
PaidIsSettled ==
  \A i \in Deposits : payment[i] = "succeeded" ~> row[i] # "none"
=============================================================================
