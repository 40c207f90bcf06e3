---------------------------- MODULE WalletProofs ----------------------------
(***************************************************************************)
(* Proofs about Wallet, for every set of deposits, amounts and calls.  The *)
(* argument for the overdraft: a call that is about to debit has seen a    *)
(* balance that covers its amount, and a debit of another balance leaves   *)
(* its incident.  The argument for the deposits: a call that is about to   *)
(* credit works on a paid intent, and only the call that finds no row      *)
(* makes one.                                                              *)
(***************************************************************************)
EXTENDS Placement, FiniteSetTheorems, TLAPS

(* What a call that will lower the balance has seen. *)
CheckedFunds ==
  \A c \in Calls : at[c] \in {"transfer", "debit", "tip", "deduct"} => seen[c] >= amount[c]

(* An overdrawn balance, and one that was seen, has its incident. *)
OverdraftSeen ==
  \A c \in Calls : seen[c] < 0 => "stale_debit" \in incidents

(* Events, and calls about to credit, are about paid intents. *)
PaidIntents ==
  /\ \A i \in Deposits : <<i, "succeeded">> \in events => payment[i] = "succeeded"
  /\ \A c \in Calls : at[c] = "credit" => intent[c] \in Deposits /\ payment[intent[c]] = "succeeded"

WalletInv ==
  /\ TypeOK
  /\ CheckedFunds
  /\ OverdraftSeen
  /\ PaidIntents
  /\ OverdraftNeedsStaleCheck

-----------------------------------------------------------------------------
LEMMA WalletInitInv == Init => WalletInv
BY WalletAssumption DEF Init, WalletInv, TypeOK, CheckedFunds, OverdraftSeen, PaidIntents,
       OverdraftNeedsStaleCheck, Steps, Incidents

LEMMA Numbers ==
  ASSUME TypeOK, NEW c \in Calls
  PROVE  amount[c] \in Nat /\ seen[c] \in Int /\ balance \in Int
<1>1. Amounts \cup {0} \subseteq Nat
  BY WalletAssumption
<1> QED
  BY <1>1 DEF TypeOK

LEMMA AnswerKeepsEvents ==
  ASSUME NEW i, NEW what, Answer(i, what)
  PROVE  events' \subseteq events
BY DEF Answer

(* A request is checked. *)
LEMMA AskStep ==
  ASSUME WalletInv, NEW c \in Calls, NEW a \in Amounts,
         NEW step \in {"transfer", "tip", "add", "deduct"},
         step # "add" => balance >= a, Ask(c, step, a)
  PROVE  WalletInv'
<1> USE DEF WalletInv, Ask, rows
<1>1. TypeOK'
  <2>1. asked' \in 0 .. MaxAsked
    BY WalletAssumption DEF TypeOK
  <2> QED
    BY <2>1 DEF TypeOK, Steps
<1>2. CheckedFunds'
  BY DEF TypeOK, CheckedFunds
<1>3. OverdraftSeen'
  BY DEF TypeOK, OverdraftSeen, OverdraftNeedsStaleCheck
<1>4. PaidIntents'
  BY DEF TypeOK, PaidIntents
<1>5. OverdraftNeedsStaleCheck'
  BY DEF OverdraftNeedsStaleCheck
<1> QED
  BY <1>1, <1>2, <1>3, <1>4, <1>5

(* A call ends and the balance is left alone, or grows. *)
LEMMA EndStep ==
  ASSUME WalletInv, NEW c \in Calls, End(c), TypeOK',
         balance' >= balance \/ balance' >= 0 \/ "stale_debit" \in incidents',
         incidents \subseteq incidents', events' \subseteq events, UNCHANGED payment
  PROVE  WalletInv'
<1> USE DEF WalletInv, End
<1>2. CheckedFunds'
  BY DEF TypeOK, CheckedFunds
<1>3. OverdraftSeen'
  BY DEF TypeOK, OverdraftSeen
<1>4. PaidIntents'
  BY DEF TypeOK, PaidIntents
<1>5. OverdraftNeedsStaleCheck'
  BY DEF TypeOK, OverdraftNeedsStaleCheck
<1> QED
  BY <1>2, <1>3, <1>4, <1>5

(* A call goes on, and the balance is as it was or was debited. *)
LEMMA GotoStep ==
  ASSUME WalletInv, NEW c \in Calls, NEW step \in {"debit", "record"}, Goto(c, step), TypeOK',
         step = "debit" => at[c] = "transfer",
         balance' = balance \/ balance' >= 0 \/ "stale_debit" \in incidents',
         incidents \subseteq incidents', UNCHANGED <<events, payment>>
  PROVE  WalletInv'
<1> USE DEF WalletInv, Goto
<1>2. CheckedFunds'
  BY DEF TypeOK, CheckedFunds
<1>3. OverdraftSeen'
  BY DEF TypeOK, OverdraftSeen
<1>4. PaidIntents'
  BY DEF TypeOK, PaidIntents
<1>5. OverdraftNeedsStaleCheck'
  BY DEF TypeOK, OverdraftNeedsStaleCheck
<1> QED
  BY <1>2, <1>3, <1>4, <1>5

LEMMA WalletStepInv == WalletInv /\ [Next]_vars => WalletInv'
<1> SUFFICES ASSUME WalletInv, [Next]_vars
             PROVE  WalletInv'
  OBVIOUS
<1> USE DEF rows, callVars, Steps, Incidents, Events
<1>1. CASE UNCHANGED vars
  BY <1>1 DEF vars, WalletInv, TypeOK, CheckedFunds, OverdraftSeen, PaidIntents,
          OverdraftNeedsStaleCheck
<1>2. ASSUME NEW i \in Deposits, Deposit(i)
      PROVE  WalletInv'
  <2>1. TypeOK'
    <3>1. payment' \in [Deposits -> {"none", "open", "failed", "declined", "succeeded"}]
      BY <1>2 DEF WalletInv, TypeOK, Deposit, CreateIntent, AddMoney,
         PaymentFails, PaymentSucceeds
    <3>2. events' \subseteq Deposits \X Events
      BY <1>2 DEF WalletInv, TypeOK, Deposit, CreateIntent, AddMoney,
         PaymentFails, PaymentSucceeds
    <3> QED
      BY <1>2, <3>1, <3>2 DEF WalletInv, TypeOK, Deposit, CreateIntent, AddMoney,
         PaymentFails, PaymentSucceeds
  <2>2. PaidIntents'
    BY <1>2 DEF WalletInv, TypeOK, PaidIntents, Deposit, CreateIntent, AddMoney,
         PaymentFails, PaymentSucceeds
  <2> QED
    BY <1>2, <2>1, <2>2 DEF WalletInv, CheckedFunds, OverdraftSeen, OverdraftNeedsStaleCheck,
       Deposit, CreateIntent, AddMoney,
         PaymentFails, PaymentSucceeds
<1>3. ASSUME NEW a \in Amounts, SavedCardDeposit(a)
      PROVE  WalletInv'
  <2>1. asked' \in 0 .. MaxAsked /\ history' \in Int
    BY <1>3, WalletAssumption DEF WalletInv, TypeOK, SavedCardDeposit
  <2> QED
    BY <1>3, <2>1 DEF WalletInv, TypeOK, CheckedFunds, OverdraftSeen, PaidIntents,
       OverdraftNeedsStaleCheck, SavedCardDeposit
<1>4. ASSUME NEW c \in Calls, NEW i \in Deposits, DeliverFailed(c, i)
      PROVE  WalletInv'
  <2>1. events' \subseteq events
    BY <1>4, AnswerKeepsEvents DEF DeliverFailed
  <2> QED
    BY <1>4, <2>1 DEF WalletInv, TypeOK, CheckedFunds, OverdraftSeen, PaidIntents,
       OverdraftNeedsStaleCheck, DeliverFailed
<1>5. ASSUME NEW c \in Calls, NEW i \in Deposits, DeliverSucceeded(c, i)
      PROVE  WalletInv'
  <2>1. events' \subseteq events
    BY <1>5, AnswerKeepsEvents DEF DeliverSucceeded
  <2>2. TypeOK'
    BY <1>5, <2>1 DEF WalletInv, TypeOK, DeliverSucceeded
  <2>3. CheckedFunds'
    BY <1>5 DEF WalletInv, TypeOK, CheckedFunds, DeliverSucceeded
  <2>4. PaidIntents'
    BY <1>5, <2>1 DEF WalletInv, TypeOK, PaidIntents, DeliverSucceeded
  <2> QED
    BY <1>5, <2>2, <2>3, <2>4 DEF WalletInv, OverdraftSeen, OverdraftNeedsStaleCheck, DeliverSucceeded
<1>6. ASSUME NEW c \in Calls, Request(c)
      PROVE  WalletInv'
  <2>1. ASSUME NEW a \in Amounts, TestRecord(c, a)
        PROVE  WalletInv'
    <3>1. asked' \in 0 .. MaxAsked /\ history' \in Int
      BY <2>1, WalletAssumption DEF WalletInv, TypeOK, TestRecord
    <3> QED
      BY <2>1, <3>1 DEF WalletInv, TypeOK, CheckedFunds, OverdraftSeen, PaidIntents,
         OverdraftNeedsStaleCheck, TestRecord
  <2> QED
    BY <1>6, <2>1, AskStep DEF Request, WithdrawCheck, TipCheck, AdjustCheck
<1>7. ASSUME NEW c \in Calls, CreditCommit(c) \/ CreditRefused(c) \/ WithdrawRecord(c) \/ TestCredit(c) \/ Lose(c)
      PROVE  WalletInv'
  <2>1. events' \subseteq events
    BY <1>7, AnswerKeepsEvents DEF CreditCommit, CreditRefused, WithdrawRecord, TestCredit, Lose
  <2>2. End(c) /\ UNCHANGED payment /\ incidents \subseteq incidents'
    BY <1>7 DEF CreditCommit, CreditRefused, WithdrawRecord, TestCredit, Lose
  <2>3. balance' >= balance
    BY <1>7, Numbers DEF WalletInv, CreditCommit, CreditRefused, WithdrawRecord, TestCredit, Lose
  <2>4. TypeOK'
    <3>1. CASE CreditCommit(c)
      BY <3>1, <2>1 DEF WalletInv, TypeOK, PaidIntents, CreditCommit, End
    <3>2. CASE CreditRefused(c) \/ WithdrawRecord(c) \/ TestCredit(c) \/ Lose(c)
      <4>1. balance' \in Int /\ history' \in Int
        BY <3>2, Numbers DEF WalletInv, TypeOK, CreditRefused, WithdrawRecord, TestCredit, Lose
      <4>2. incidents' \subseteq Incidents
        BY <3>2 DEF WalletInv, TypeOK, CreditRefused, WithdrawRecord, TestCredit, Lose
      <4> QED
        BY <3>2, <4>1, <4>2 DEF WalletInv, TypeOK, CreditRefused, WithdrawRecord, TestCredit, Lose, End
    <3> QED
      BY <1>7, <3>1, <3>2
  <2> QED
    BY <2>1, <2>2, <2>3, <2>4, EndStep
<1>8. ASSUME NEW c \in Calls, Transfer(c)
      PROVE  WalletInv'
  <2>1. TypeOK'
    BY <1>8, Numbers DEF WalletInv, TypeOK, Transfer, Goto
  <2> QED
    BY <1>8, <2>1, GotoStep DEF Transfer
<1>9. ASSUME NEW c \in Calls, WithdrawDebit(c)
      PROVE  WalletInv'
  <2>1. TypeOK'
    BY <1>9, Numbers DEF WalletInv, TypeOK, WithdrawDebit, Debit, Note, Goto
  <2>2. balance' >= 0 \/ "stale_debit" \in incidents'
    BY <1>9, Numbers DEF WalletInv, CheckedFunds, WithdrawDebit, Debit, Note
  <2> QED
    BY <1>9, <2>1, <2>2, GotoStep DEF WithdrawDebit, Debit, Note
<1>10. ASSUME NEW c \in Calls, TipCommit(c)
      PROVE  WalletInv'
  <2>1. TypeOK'
    <3>1. balance' \in Int /\ history' \in Int /\ tips' \in Nat /\ tipped' \in Nat
      BY <1>10, Numbers DEF WalletInv, TypeOK, TipCommit, Debit
    <3> QED
      BY <1>10, <3>1 DEF WalletInv, TypeOK, TipCommit, Debit, Note, End
  <2>2. balance' >= 0 \/ "stale_debit" \in incidents'
    BY <1>10, Numbers DEF WalletInv, CheckedFunds, TipCommit, Debit, Note
  <2> QED
    BY <1>10, <2>1, <2>2, EndStep DEF TipCommit, Debit, Note
<1>11. ASSUME NEW c \in Calls, AdjustWrite(c)
      PROVE  WalletInv'
  <2>1. TypeOK'
    <3>1. balance' \in Int /\ history' \in Int
      BY <1>11, Numbers DEF WalletInv, TypeOK, AdjustWrite
    <3> QED
      BY <1>11, <3>1 DEF WalletInv, TypeOK, AdjustWrite, Note, End
  <2>2. balance' >= 0 \/ "stale_debit" \in incidents'
    <3>1. CASE at[c] = "add"
      BY <1>11, <3>1, Numbers DEF WalletInv, OverdraftSeen, AdjustWrite, Note
    <3>2. CASE at[c] = "deduct"
      BY <1>11, <3>2, Numbers DEF WalletInv, CheckedFunds, AdjustWrite, Note
    <3> QED
      BY <1>11, <3>1, <3>2 DEF AdjustWrite
  <2> QED
    BY <1>11, <2>1, <2>2, EndStep DEF AdjustWrite, Note
<1> QED
  BY <1>1, <1>2, <1>3, <1>4, <1>5, <1>6, <1>7, <1>8, <1>9, <1>10, <1>11 DEF Next, Webhook, Step

(* The inductive invariant of the wallet: its types, what calls have checked *)
(* before they write, and what is paid.                                      *)
THEOREM WalletInvariant == Spec => []WalletInv
BY WalletInitInv, WalletStepInv, PTL DEF Spec

(* Only a debit whose check was passed on an older balance overdraws the     *)
(* wallet, whatever withdrawals, tips, deposits and adjustments are made at  *)
(* once, repeated or cut short.                                              *)
THEOREM OverdraftAlwaysStale == Spec => []OverdraftNeedsStaleCheck
BY WalletInvariant, PTL DEF WalletInv

-----------------------------------------------------------------------------
(* Deposits *)

(* The intents that were paid and those that were credited. *)
Paid == {i \in Deposits : payment[i] = "succeeded"}
Credited == {i \in Deposits : row[i] = "SUCCESS"}

(* Everything else leaves the deposits alone. *)
LEMMA OthersKeepDeposits ==
  ASSUME NEW c \in Calls,
         \/ Request(c) \/ Lose(c)
         \/ Step(c) /\ ~CreditCommit(c)
         \/ \E i \in Deposits : DeliverSucceeded(c, i)
  PROVE  UNCHANGED <<payment, row, credits>>
<1> USE DEF rows
<1>1. CASE Request(c)
  BY <1>1 DEF Request, WithdrawCheck, TipCheck, AdjustCheck, TestRecord, Ask
<1>2. CASE Lose(c)
  BY <1>2 DEF Lose
<1>3. CASE Step(c) /\ ~CreditCommit(c)
  BY <1>3 DEF Step, CreditRefused, Transfer, WithdrawDebit, WithdrawRecord, AdjustWrite, TipCommit,
     TestCredit
<1>4. ASSUME NEW i \in Deposits, DeliverSucceeded(c, i)
      PROVE  UNCHANGED <<payment, row, credits>>
  BY <1>4 DEF DeliverSucceeded
<1> QED
  BY <1>1, <1>2, <1>3, <1>4

LEMMA DepositStep ==
  ASSUME WalletInv, [Next]_vars
  PROVE  [DepositSpec!Next]_<<Paid, Credited, credits>>
<1> USE DEF Paid, Credited, DepositSpec!Next
<1>1. ASSUME NEW i \in Deposits, PaymentSucceeds(i)
      PROVE  DepositSpec!Pay(i)
  BY <1>1 DEF WalletInv, TypeOK, PaymentSucceeds, DepositSpec!Pay
<1>2. ASSUME NEW i \in Deposits, PaymentFails(i) \/ CreateIntent(i)
      PROVE  UNCHANGED <<Paid, Credited, credits>>
  BY <1>2 DEF WalletInv, TypeOK, PaymentFails, CreateIntent
<1>3. ASSUME NEW c \in Calls, NEW i \in Deposits, DeliverFailed(c, i)
      PROVE  UNCHANGED <<Paid, Credited, credits>>
  BY <1>3 DEF WalletInv, TypeOK, DeliverFailed
<1>4. ASSUME NEW c \in Calls, CreditCommit(c)
      PROVE  \E i \in Deposits : DepositSpec!Credit(i)
  <2>1. PICK i \in Deposits : i = intent[c] /\ payment[i] = "succeeded"
    BY <1>4 DEF WalletInv, PaidIntents, CreditCommit
  <2>2. DepositSpec!Credit(i)
    BY <1>4, <2>1 DEF WalletInv, TypeOK, CreditCommit, rows, DepositSpec!Credit
  <2> QED
    BY <2>2
<1>5. CASE UNCHANGED <<payment, row, credits>>
  BY <1>5
<1>6. CASE UNCHANGED vars
  BY <1>6 DEF vars, rows
<1>7. ASSUME NEW a \in Amounts, SavedCardDeposit(a)
      PROVE  UNCHANGED <<payment, row, credits>>
  BY <1>7 DEF SavedCardDeposit, rows
<1>8. ASSUME NEW i \in Deposits, AddMoney(i)
      PROVE  DepositSpec!Pay(i) \/ UNCHANGED <<Paid, Credited, credits>>
  <2>1. CASE payment' = [payment EXCEPT ![i] = "succeeded"]
    BY <1>8, <2>1 DEF WalletInv, TypeOK, AddMoney, DepositSpec!Pay
  <2>2. CASE payment' = [payment EXCEPT ![i] = "declined"]
    BY <1>8, <2>2 DEF WalletInv, TypeOK, AddMoney
  <2> QED
    BY <1>8, <2>1, <2>2 DEF AddMoney
<1> QED
  BY <1>1, <1>2, <1>3, <1>4, <1>5, <1>6, <1>7, <1>8, OthersKeepDeposits DEF Next, Webhook, Deposit

(* Deposits implement Deposit: one credit for each, after its payment,       *)
(* however its events are delivered.                                         *)
THEOREM WalletImplementsDeposit == Spec => ImplementsDeposit
<1>1. Init => DepositSpec!Init
  BY DEF Init, DepositSpec!Init
<1> QED
  BY <1>1, DepositStep, WalletInvariant, PTL DEF Spec, ImplementsDeposit, DepositSpec!Spec, Paid, Credited

-----------------------------------------------------------------------------
(* The history.  What a call has written to one of balance and history and *)
(* not yet to the other is pending.  A sum over the calls is out of the    *)
(* provers' reach; instead an amount is a set of that many units, and what *)
(* is pending is counted by the cardinality of a set.                      *)

HalfDone == {"record", "increment"}

Pending == {u \in Calls \X Nat : at[u[1]] \in HalfDone /\ u[2] \in 1 .. amount[u[1]]}

HistoryTold == {"overwritten", "unrecorded", "uncredited"} \cap incidents = {}

HistoryInv ==
  /\ IsFiniteSet(Pending)
  /\ HistoryTold => balance + Cardinality(Pending) = Opening + history

(* n units of c, none of which is in S, add n to its cardinality. *)
LEMMA UnitsAdded ==
  ASSUME NEW S, IsFiniteSet(S), NEW c, NEW n \in Nat, ({c} \X (1 .. n)) \cap S = {}
  PROVE  /\ IsFiniteSet(S \cup ({c} \X (1 .. n)))
         /\ Cardinality(S \cup ({c} \X (1 .. n))) = Cardinality(S) + n
<1> DEFINE U == {c} \X (1 .. n)
<1>1. IsFiniteSet({c}) /\ Cardinality({c}) = 1
  BY FS_Singleton
<1>2. IsFiniteSet(1 .. n) /\ Cardinality(1 .. n) = n
  BY FS_Interval
<1>3. IsFiniteSet(U) /\ Cardinality(U) = n
  <2>1. IsFiniteSet({c} \X (1 .. n)) /\ Cardinality({c} \X (1 .. n)) = Cardinality({c}) * Cardinality(1 .. n)
    BY <1>1, <1>2, FS_Product, Zenon
  <2> QED
    BY <1>1, <1>2, <2>1
<1>4. S \cap U = {} /\ Cardinality({}) = 0
  BY FS_EmptySet
<1>5. Cardinality(S) \in Nat
  BY FS_CardinalityType
<1> HIDE DEF U
<1>6. IsFiniteSet(S \cup U) /\ Cardinality(S \cup U) = Cardinality(S) + Cardinality(U) - Cardinality(S \cap U)
  BY <1>3, FS_Union
<1> QED
  BY <1>3, <1>4, <1>5, <1>6 DEF U

(* Taking away n units of c takes n away from the cardinality. *)
LEMMA UnitsRemoved ==
  ASSUME NEW S, IsFiniteSet(S), NEW c, NEW n \in Nat, {c} \X (1 .. n) \subseteq S
  PROVE  /\ IsFiniteSet(S \ ({c} \X (1 .. n)))
         /\ Cardinality(S \ ({c} \X (1 .. n))) = Cardinality(S) - n
<1> DEFINE R == S \ ({c} \X (1 .. n))
<1>1. IsFiniteSet(R)
  BY FS_Subset
<1>2. Cardinality(R) \in Nat
  BY <1>1, FS_CardinalityType
<1>3. ({c} \X (1 .. n)) \cap R = {} /\ R \cup ({c} \X (1 .. n)) = S
  OBVIOUS
<1> HIDE DEF R
<1>4. Cardinality(S) = Cardinality(R) + n
  BY <1>1, <1>3, UnitsAdded
<1> QED
  BY <1>1, <1>2, <1>4 DEF R

(* Nothing becomes pending and nothing is settled. *)
LEMMA PendingStays ==
  ASSUME \A c \in Calls :
           /\ at'[c] \in HalfDone <=> at[c] \in HalfDone
           /\ at[c] \in HalfDone => amount'[c] = amount[c]
  PROVE  Pending' = Pending
BY DEF Pending

(* The calls other than c are left alone. *)
OthersWait(c) == \A d \in Calls \ {c} : at'[d] = at[d] /\ amount'[d] = amount[d]

(* Call c has written one of the two. *)
LEMMA Starts ==
  ASSUME NEW c \in Calls, OthersWait(c), at[c] \notin HalfDone, at'[c] \in HalfDone,
         amount'[c] \in Nat, IsFiniteSet(Pending)
  PROVE  IsFiniteSet(Pending)' /\ Cardinality(Pending)' = Cardinality(Pending) + amount'[c]
<1>1. ({c} \X (1 .. amount'[c])) \cap Pending = {}
  BY DEF Pending
<1>2. Pending' = Pending \cup ({c} \X (1 .. amount'[c]))
  BY DEF Pending, OthersWait
<1> QED
  BY <1>1, <1>2, UnitsAdded

(* Call c, which had written one of the two, ends. *)
LEMMA Settles ==
  ASSUME NEW c \in Calls, OthersWait(c), at[c] \in HalfDone, at'[c] \notin HalfDone,
         amount[c] \in Nat, IsFiniteSet(Pending)
  PROVE  IsFiniteSet(Pending)' /\ Cardinality(Pending)' = Cardinality(Pending) - amount[c]
<1>1. {c} \X (1 .. amount[c]) \subseteq Pending
  BY DEF Pending
<1>2. Pending' = Pending \ ({c} \X (1 .. amount[c]))
  BY DEF Pending, OthersWait
<1> QED
  BY <1>1, <1>2, UnitsRemoved

LEMMA HistoryInit == Init => HistoryInv
<1> SUFFICES ASSUME Init PROVE HistoryInv
  OBVIOUS
<1>1. Pending = {}
  BY DEF Init, Pending, HalfDone
<1>2. IsFiniteSet(Pending) /\ Cardinality(Pending) = 0
  BY <1>1, FS_EmptySet
<1> QED
  BY <1>2, WalletAssumption DEF Init, HistoryInv

(* What the balance and the history both change by, or neither. *)
LEMMA HistoryKept ==
  ASSUME TypeOK, HistoryInv, balance' \in Int, history' \in Int, 
         HistoryTold' => HistoryTold /\ balance' - balance = history' - history,
         Pending' = Pending
  PROVE  HistoryInv'
BY FS_CardinalityType, WalletAssumption DEF HistoryInv, TypeOK

LEMMA HistoryStep == TypeOK /\ HistoryInv /\ [Next]_vars => HistoryInv'
<1> SUFFICES ASSUME TypeOK, HistoryInv, [Next]_vars PROVE HistoryInv'
  OBVIOUS
<1> USE DEF HalfDone
<1>0. HistoryInv' <=> /\ IsFiniteSet(Pending)'
                      /\ HistoryTold' => balance' + Cardinality(Pending)' = Opening + history'
  BY DEF HistoryInv
<1>n. Cardinality(Pending) \in Nat /\ IsFiniteSet(Pending) /\ Opening \in Nat
      /\ balance \in Int /\ history \in Int
  BY FS_CardinalityType, WalletAssumption DEF HistoryInv, TypeOK
<1>a. \A a \in Amounts : a \in Nat
  BY WalletAssumption
<1>1. CASE UNCHANGED vars
  <2>1. Pending' = Pending
    BY <1>1 DEF vars, callVars, Pending
  <2> QED
    BY <1>1, <1>n, <2>1, HistoryKept DEF vars, HistoryTold
<1>2. ASSUME NEW i \in Deposits, Deposit(i) PROVE HistoryInv'
  <2>1. UNCHANGED <<balance, history, callVars, incidents>>
    BY <1>2 DEF Deposit, CreateIntent, AddMoney, PaymentFails, PaymentSucceeds
  <2>2. Pending' = Pending
    BY <2>1 DEF callVars, Pending
  <2> QED
    BY <1>n, <2>1, <2>2, HistoryKept DEF HistoryTold
<1>3. ASSUME NEW a \in Amounts, SavedCardDeposit(a) PROVE HistoryInv'
  <2>1. UNCHANGED callVars /\ UNCHANGED balance /\ history' = history + a /\ ~HistoryTold'
    BY <1>3 DEF SavedCardDeposit, HistoryTold
  <2>2. Pending' = Pending
    BY <2>1 DEF callVars, Pending
  <2> QED
    BY <1>n, <1>a, <2>1, <2>2, HistoryKept
<1>4. ASSUME NEW c \in Calls, NEW i \in Deposits, DeliverFailed(c, i) \/ DeliverSucceeded(c, i)
      PROVE  HistoryInv'
  <2>1. UNCHANGED <<balance, history, amount, incidents>>
    BY <1>4 DEF DeliverFailed, DeliverSucceeded, callVars
  <2>2. Pending' = Pending
    BY <1>4, PendingStays DEF TypeOK, DeliverFailed, DeliverSucceeded, callVars
  <2> QED
    BY <1>n, <2>1, <2>2, HistoryKept DEF HistoryTold
<1>5. ASSUME NEW c \in Calls, NEW a \in Amounts,
             NEW step \in {"transfer", "tip", "add", "deduct"}, Ask(c, step, a)
      PROVE  HistoryInv'
  <2>1. UNCHANGED <<balance, history, incidents>>
    BY <1>5 DEF Ask
  <2>2. Pending' = Pending
    BY <1>5, PendingStays DEF TypeOK, Ask
  <2> QED
    BY <1>n, <2>1, <2>2, HistoryKept DEF HistoryTold
<1>6. ASSUME NEW c \in Calls, NEW a \in Amounts, TestRecord(c, a) PROVE HistoryInv'
  <2>1. UNCHANGED balance /\ UNCHANGED incidents /\ history' = history + a
    BY <1>6 DEF TestRecord
  <2>2. OthersWait(c) /\ at[c] \notin HalfDone /\ at'[c] \in HalfDone /\ amount'[c] = a
    BY <1>6 DEF TypeOK, TestRecord, OthersWait
  <2>3. IsFiniteSet(Pending)' /\ Cardinality(Pending)' = Cardinality(Pending) + a
    BY <1>a, <1>n, <2>2, Starts
  <2> QED
    BY <1>0, <1>a, <1>n, <2>1, <2>3 DEF HistoryInv, HistoryTold
<1>7. ASSUME NEW c \in Calls, Request(c) PROVE HistoryInv'
  BY <1>5, <1>6, <1>7 DEF Request, WithdrawCheck, TipCheck, AdjustCheck
<1>8. ASSUME NEW c \in Calls, End(c), at[c] \notin HalfDone, balance' \in Int, history' \in Int,
             HistoryTold' => HistoryTold /\ balance' - balance = history' - history
      PROVE  HistoryInv'
  <2>1. Pending' = Pending
    BY <1>8, PendingStays DEF TypeOK, End
  <2> QED
    BY <1>8, <2>1, HistoryKept
<1>9. ASSUME NEW c \in Calls, CreditCommit(c) \/ CreditRefused(c) PROVE HistoryInv'
  <2>1. End(c) /\ at[c] \notin HalfDone /\ UNCHANGED incidents
    BY <1>9 DEF CreditCommit, CreditRefused
  <2>2. balance' \in Int /\ history' \in Int /\ balance' - balance = history' - history
    BY <1>9, <1>n DEF CreditCommit, CreditRefused
  <2> QED
    BY <1>8, <2>1, <2>2 DEF HistoryTold
<1>10. ASSUME NEW c \in Calls, Transfer(c) PROVE HistoryInv'
  <2>1. UNCHANGED <<balance, history, incidents>>
    BY <1>10 DEF Transfer
  <2>2. Pending' = Pending
    BY <1>10, PendingStays DEF TypeOK, Transfer, Goto
  <2> QED
    BY <1>n, <2>1, <2>2, HistoryKept DEF HistoryTold
<1>11. ASSUME NEW c \in Calls, WithdrawDebit(c) PROVE HistoryInv'
  <2>1. UNCHANGED history /\ balance' = balance - amount[c] /\ amount[c] \in Nat
    BY <1>11, Numbers DEF WithdrawDebit, Debit
  <2>2. HistoryTold' => HistoryTold
    BY <1>11 DEF WithdrawDebit, Debit, Note, HistoryTold
  <2>3. OthersWait(c) /\ at[c] \notin HalfDone /\ at'[c] \in HalfDone /\ amount'[c] = amount[c]
    BY <1>11 DEF TypeOK, WithdrawDebit, Goto, OthersWait
  <2>4. IsFiniteSet(Pending)' /\ Cardinality(Pending)' = Cardinality(Pending) + amount[c]
    BY <1>n, <2>1, <2>3, Starts
  <2> QED
    BY <1>0, <1>n, <2>1, <2>2, <2>4 DEF HistoryInv
<1>12. ASSUME NEW c \in Calls, WithdrawRecord(c) \/ TestCredit(c) PROVE HistoryInv'
  <2>1. amount[c] \in Nat /\ UNCHANGED incidents /\ End(c) /\ at[c] \in HalfDone
    BY <1>12, Numbers DEF WithdrawRecord, TestCredit
  <2>2. balance' - history' = (balance - history) + amount[c] /\ balance' \in Int /\ history' \in Int
    BY <1>12, <1>n, <2>1 DEF WithdrawRecord, TestCredit
  <2>3. OthersWait(c) /\ at'[c] \notin HalfDone
    BY <2>1 DEF TypeOK, End, OthersWait
  <2>4. IsFiniteSet(Pending)' /\ Cardinality(Pending)' = Cardinality(Pending) - amount[c]
    BY <1>n, <2>1, <2>3, Settles
  <2> QED
    BY <1>0, <1>n, <2>1, <2>2, <2>4 DEF HistoryInv, HistoryTold
<1>13. ASSUME NEW c \in Calls, AdjustWrite(c) PROVE HistoryInv'
  <2> DEFINE change == IF at[c] = "add" THEN amount[c] ELSE -amount[c]
  <2>1. change \in Int /\ seen[c] \in Int
    BY Numbers
  <2>2. balance' = seen[c] + change /\ history' = history + change
    BY <1>13 DEF AdjustWrite
  <2>3. HistoryTold' => HistoryTold /\ balance = seen[c]
    BY <1>13 DEF AdjustWrite, Note, HistoryTold
  <2>4. End(c) /\ at[c] \notin HalfDone
    BY <1>13 DEF AdjustWrite
  <2> HIDE DEF change
  <2>5. balance' \in Int /\ history' \in Int
        /\ (HistoryTold' => HistoryTold /\ balance' - balance = history' - history)
    BY <1>n, <2>1, <2>2, <2>3
  <2> QED
    BY <1>8, <2>4, <2>5
<1>14. ASSUME NEW c \in Calls, TipCommit(c) PROVE HistoryInv'
  <2>1. balance' = balance - amount[c] /\ history' = history - amount[c] /\ amount[c] \in Nat
    BY <1>14, Numbers DEF TipCommit, Debit
  <2>2. HistoryTold' => HistoryTold
    BY <1>14 DEF TipCommit, Debit, Note, HistoryTold
  <2>3. End(c) /\ at[c] \notin HalfDone
    BY <1>14 DEF TipCommit
  <2> QED
    BY <1>8, <1>n, <2>1, <2>2, <2>3
<1>15. ASSUME NEW c \in Calls, Lose(c) PROVE HistoryInv'
  <2>1. CASE at[c] \in HalfDone
    <3>1. ~HistoryTold'
      BY <1>15, <2>1 DEF Lose, HistoryTold
    <3>3. OthersWait(c) /\ at'[c] \notin HalfDone
      BY <1>15 DEF TypeOK, Lose, End, OthersWait
    <3>4. IsFiniteSet(Pending)'
      BY <1>n, <2>1, <3>3, Numbers, Settles
    <3> QED
      BY <1>0, <3>1, <3>4
  <2>2. CASE at[c] \notin HalfDone
    <3>1. HistoryTold' => HistoryTold
      BY <1>15 DEF Lose, HistoryTold
    <3>2. End(c) /\ UNCHANGED <<balance, history>>
      BY <1>15 DEF Lose
    <3> QED
      BY <1>8, <1>n, <2>2, <3>1, <3>2
  <2> QED
    BY <2>1, <2>2
<1>16. ASSUME NEW c \in Calls, Step(c) PROVE HistoryInv'
  BY <1>9, <1>10, <1>11, <1>12, <1>13, <1>14, <1>16 DEF Step
<1> QED
  BY <1>1, <1>2, <1>3, <1>4, <1>7, <1>15, <1>16 DEF Next, Webhook

LEMMA HistoryExplained == TypeOK /\ HistoryInv => HistoryExplainsBalance
<1> SUFFICES ASSUME TypeOK, HistoryInv, HistoryTold, \A c \in Calls : at[c] \notin HalfDone
             PROVE  balance = Opening + history
  BY DEF HistoryExplainsBalance, HistoryTold, HalfDone
<1>1. Pending = {}
  BY DEF Pending
<1>2. Cardinality(Pending) = 0
  BY <1>1, FS_EmptySet
<1> QED
  BY <1>2 DEF HistoryInv, TypeOK

(* The balance and the wallet history tell the same story whenever no call  *)
(* is between its two statements - for any number of withdrawals, tips,     *)
(* deposits and adjustments made at once - unless an adjustment overwrote a *)
(* change, a withdrawal was cut short before its row, or a deposit was      *)
(* recorded and not credited.                                               *)
THEOREM HistoryAlwaysExplains == Spec => []HistoryExplainsBalance
<1>1. Spec => []TypeOK
  BY WalletInvariant, PTL DEF WalletInv
<1> QED
  BY <1>1, HistoryInit, HistoryStep, HistoryExplained, PTL DEF Spec

-----------------------------------------------------------------------------
(* Proofs about Placement, for every cost, set of calls and requests.  An  *)
(* order leaves PROGRESS once and for all, so a request that writes it     *)
(* when it is not in PROGRESS any more leaves an incident; what the        *)
(* transactions do is therefore done by one of them.  A card is charged    *)
(* before its transaction commits: by a call that is still under way, or   *)
(* was cut short and left its incident.                                    *)

PlacementTypes ==
  /\ order \in OrderRows
  /\ at \in [Calls -> {"idle"} \cup Steps \cup OrderSteps]
  /\ request \in [Calls -> Requests]
  /\ charges \in Nat /\ debits \in Nat /\ refunds \in Nat /\ chains \in Nat

(* What a request saw, and was asked for, when it passed its checks. *)
RequestsChecked ==
  \A c \in Calls :
    /\ at[c] \in {"begin", "funded"} =>
         /\ request[c].saw.status = "PROGRESS"
         /\ request[c].paying => request[c].to = "PENDING"
    /\ at[c] = "cancel" => request[c].saw.status \in {"PROGRESS", "PENDING"}

NothingPlaced ==
  order.status = "PROGRESS" =>
    /\ ~order.isPlaced
    /\ debits = 0 /\ refunds = 0 /\ chains = 0
    /\ \A c \in Calls : at[c] # "chain"

(* The card has been charged by a call that is about to commit. *)
Charged(c) == at[c] = "funded" /\ Takes(request[c], "ONLINE_PAY")

ChargesUnderWay ==
  /\ Calls = {} => charges = 0
  /\ order.status = "PROGRESS" /\ "charged" \notin incidents =>
       \A c \in Calls : (\A d \in Calls \ {c} : ~Charged(d)) => charges <= (IF Charged(c) THEN 1 ELSE 0)

PaidByOne ==
  /\ order.status # "PROGRESS"
  /\ incidents \cap {"order_changed", "confirmed_late", "charged"} = {}
  /\ \A c \in Calls : ~Charged(c)
  => charges + debits <= 1

ChainedByOne ==
  "order_changed" \notin incidents =>
    \/ chains = 0 /\ \A c, d \in Calls : at[c] = "chain" /\ at[d] = "chain" => c = d
    \/ chains = 1 /\ \A c \in Calls : at[c] # "chain"

HoldsMoney == order.isPlaced /\ order.payType = "WALLET" /\ order.status # "CANCELLED"

MoneyBooked ==
  incidents \cap {"order_changed", "confirmed_late", "unpaid"} = {} =>
    debits = refunds + (IF HoldsMoney THEN 1 ELSE 0)

PlacementInv ==
  /\ PlacementTypes
  /\ RequestsChecked
  /\ NothingPlaced
  /\ ChargesUnderWay
  /\ PaidByOne
  /\ ChainedByOne
  /\ MoneyBooked

LEMMA PlacementInitInv == PlacementInit => PlacementInv
BY DEF PlacementInit, Init, NewOrder, NoRequest, PlacementInv, PlacementTypes, RequestsChecked, NothingPlaced,
   ChargesUnderWay, Charged, PaidByOne, ChainedByOne, MoneyBooked, HoldsMoney, OrderRows, Requests

(* A call goes on; nobody is charged and nothing is written. *)
LEMMA OrderCallMoves ==
  ASSUME PlacementInv, NEW c \in Calls, NEW step \in {"idle"} \cup Steps \cup (OrderSteps \ {"chain"}),
         NEW r \in Requests,
         at' = [at EXCEPT ![c] = step],
         request' = [request EXCEPT ![c] = r],
         step \in {"begin", "funded"} => r.saw.status = "PROGRESS" /\ (r.paying => r.to = "PENDING"),
         step = "cancel" => r.saw.status \in {"PROGRESS", "PENDING"},
         ~(step = "funded" /\ Takes(r, "ONLINE_PAY")),
         Charged(c) => "charged" \in incidents',
         incidents \subseteq incidents',
         UNCHANGED <<order, charges, debits, refunds, chains>>
  PROVE  PlacementInv'
<1>1. /\ at' \in [Calls -> {"idle"} \cup Steps \cup OrderSteps]
      /\ request' \in [Calls -> Requests]
      /\ at'[c] = step /\ request'[c] = r
      /\ \A d \in Calls \ {c} : at'[d] = at[d] /\ request'[d] = request[d]
  BY DEF PlacementInv, PlacementTypes
<1>2. ~Charged(c)' /\ \A d \in Calls \ {c} : Charged(d)' <=> Charged(d)
  BY <1>1 DEF Charged
<1>3. PlacementTypes' /\ RequestsChecked'
  BY <1>1 DEF PlacementInv, PlacementTypes, RequestsChecked
<1>4. NothingPlaced' /\ ChainedByOne'
  BY <1>1 DEF PlacementInv, NothingPlaced, ChainedByOne, OrderSteps, Steps
<1>5. ChargesUnderWay'
  <2> SUFFICES ASSUME order.status = "PROGRESS", "charged" \notin incidents',
                      NEW e \in Calls, \A d \in Calls \ {e} : ~Charged(d)'
               PROVE  charges <= (IF Charged(e)' THEN 1 ELSE 0)
    BY DEF ChargesUnderWay
  <2>1. ~Charged(c) /\ \A d \in Calls : Charged(d)' <=> Charged(d)
    BY <1>2
  <2> QED
    BY <2>1 DEF PlacementInv, ChargesUnderWay
<1>6. PaidByOne'
  BY <1>2 DEF PlacementInv, PaidByOne
<1>7. MoneyBooked'
  BY DEF PlacementInv, MoneyBooked, HoldsMoney
<1> QED
  BY <1>3, <1>4, <1>5, <1>6, <1>7 DEF PlacementInv

LEMMA RequestsAre ==
  /\ NoRequest \in Requests
  /\ PlacementTypes =>
       /\ [NoRequest EXCEPT !.route = "cancel", !.saw = order] \in Requests
       /\ [NoRequest EXCEPT !.route = "confirm", !.pay = "ONLINE_PAY", !.saw = order] \in Requests
BY DEF NoRequest, NewOrder, Requests, OrderRows, PlacementTypes

(* The wallet's calls leave the order, and the calls about it, alone. *)
LEMMA WalletCallKeeps ==
  ASSUME PlacementInv, NEW c \in Calls, WalletCall(c)
  PROVE  PlacementInv'
<1>1. incidents \subseteq incidents'
  BY DEF WalletCall, Webhook, DeliverFailed, DeliverSucceeded, Step, CreditCommit, CreditRefused, Transfer,
     WithdrawDebit, WithdrawRecord, AdjustWrite, TipCommit, TestCredit, Lose, WithdrawCheck, TipCheck,
     AdjustCheck, Ask, Debit, Note
<1>2. at[c] \in {"idle"} \cup Steps /\ at \in [Calls -> {"idle"} \cup Steps \cup OrderSteps]
  BY DEF WalletCall, Webhook, DeliverFailed, DeliverSucceeded, Step, CreditCommit, CreditRefused, Transfer,
     WithdrawDebit, WithdrawRecord, AdjustWrite, TipCommit, TestCredit, WithdrawCheck, TipCheck,
     AdjustCheck, Ask, Steps, PlacementInv, PlacementTypes
<1>3. PICK step \in {"idle"} \cup Steps : at' = [at EXCEPT ![c] = step]
  <2>1. CASE UNCHANGED at
    BY <1>2, <2>1
  <2>2. CASE ~UNCHANGED at
    BY <2>2 DEF WalletCall, Webhook, DeliverFailed, DeliverSucceeded, Step, CreditCommit, CreditRefused,
       Transfer, WithdrawDebit, WithdrawRecord, AdjustWrite, TipCommit, TestCredit, Lose, WithdrawCheck,
       TipCheck, AdjustCheck, Ask, End, Goto, Steps, callVars
  <2> QED
    BY <2>1, <2>2
<1>4. request' = [request EXCEPT ![c] = request[c]] /\ request[c] \in Requests
  BY DEF WalletCall, orderVars, PlacementInv, PlacementTypes
<1>5. ~Charged(c)
  BY <1>2 DEF Charged, Steps
<1>6. UNCHANGED <<order, charges, debits, refunds, chains>>
  BY DEF WalletCall, orderVars, moneyVars
<1> QED
  BY <1>1, <1>3, <1>4, <1>5, <1>6, OrderCallMoves DEF Steps, OrderSteps

LEMMA OrderRequestKeeps ==
  ASSUME PlacementInv, NEW c \in Calls, OrderRequest(c)
  PROVE  PlacementInv'
<1>0. ~Charged(c) /\ PlacementTypes
  BY DEF OrderRequest, CancelCheck, PlaceCheck, BulkCheck, SetCheck, EnterRequest, Enter, Charged, PlacementInv
<1>1. CASE CancelCheck(c)
  BY <1>0, <1>1, RequestsAre, OrderCallMoves DEF CancelCheck, EnterRequest, Enter, NoRequest, OrderSteps, moneyVars
<1>2. ASSUME NEW p \in Methods, PlaceCheck(c, p)
      PROVE  PlacementInv'
  <2> DEFINE r == [route |-> "place", to |-> "PENDING", pay |-> p, paying |-> TRUE, saw |-> order]
  <2>1. r \in Requests
    BY <1>0, PlacementAssumption DEF Requests, PlacementTypes
  <2> QED
    BY <1>0, <1>2, <2>1, OrderCallMoves DEF PlaceCheck, EnterRequest, Enter, OrderSteps, moneyVars
<1>3. ASSUME NEW p \in Methods, NEW paying \in BOOLEAN, BulkCheck(c, p, paying)
      PROVE  PlacementInv'
  <2> DEFINE r == [route |-> "bulk", to |-> "PENDING", pay |-> p, paying |-> paying, saw |-> order]
  <2>1. r \in Requests /\ ~Takes(r, "ONLINE_PAY")
    BY <1>0, <1>3, PlacementAssumption DEF Requests, PlacementTypes, Takes, BulkCheck
  <2> QED
    BY <1>0, <1>3, <2>1, OrderCallMoves DEF BulkCheck, EnterRequest, Enter, OrderSteps, moneyVars
<1>4. ASSUME NEW p \in Methods, NEW paying \in BOOLEAN, NEW s \in SetTo, SetCheck(c, s, p, paying)
      PROVE  PlacementInv'
  <2> DEFINE r == [route |-> "set", to |-> s, pay |-> p, paying |-> paying, saw |-> order]
  <2>1. r \in Requests /\ (paying => s = "PENDING")
    BY <1>0, <1>4, PlacementAssumption DEF Requests, PlacementTypes, SetCheck
  <2> QED
    BY <1>0, <1>4, <2>1, OrderCallMoves DEF SetCheck, EnterRequest, Enter, OrderSteps, moneyVars
<1> QED
  BY <1>1, <1>2, <1>3, <1>4 DEF OrderRequest

(* A card is charged: by a call that has it under way from now on. *)
LEMMA ChargeKeeps ==
  ASSUME PlacementInv, NEW c \in Calls, Charge(c)
  PROVE  PlacementInv'
<1>1. /\ at'[c] = "funded" /\ \A d \in Calls \ {c} : at'[d] = at[d]
      /\ at' \in [Calls -> {"idle"} \cup Steps \cup OrderSteps]
      /\ charges' = charges + 1 /\ charges \in Nat
      /\ ~Charged(c) /\ Charged(c)' /\ \A d \in Calls \ {c} : Charged(d)' <=> Charged(d)
      /\ UNCHANGED <<order, debits, refunds, chains, request, incidents>>
  BY DEF Charge, Charged, PlacementInv, PlacementTypes, OrderSteps
<1>2. PlacementTypes' /\ RequestsChecked'
  BY <1>1 DEF Charge, PlacementInv, PlacementTypes, RequestsChecked
<1>3. NothingPlaced' /\ ChainedByOne' /\ MoneyBooked'
  BY <1>1 DEF PlacementInv, NothingPlaced, ChainedByOne, MoneyBooked, HoldsMoney
<1>4. ChargesUnderWay'
  <2> SUFFICES ASSUME order.status = "PROGRESS", "charged" \notin incidents,
                      NEW e \in Calls, \A d \in Calls \ {e} : ~Charged(d)'
               PROVE  charges' <= (IF Charged(e)' THEN 1 ELSE 0)
    BY <1>1 DEF ChargesUnderWay
  <2>1. e = c /\ \A d \in Calls \ {c} : ~Charged(d)
    BY <1>1
  <2>2. charges <= 0
    BY <1>1, <2>1 DEF PlacementInv, ChargesUnderWay
  <2> QED
    BY <1>1, <2>1, <2>2
<1>5. PaidByOne'
  BY <1>1 DEF PaidByOne
<1> QED
  BY <1>2, <1>3, <1>4, <1>5 DEF PlacementInv

(* The order is written by a transaction that takes its payment. *)
LEMMA WriteKeeps ==
  ASSUME PlacementInv, NEW c \in Calls, NEW route, WriteOrder(c, route),
         NEW step \in {"idle", "chain"}, at' = [at EXCEPT ![c] = step],
         request' \in {request, [request EXCEPT ![c] = NoRequest]}
  PROVE  PlacementInv'
<1> DEFINE r == request[c]
<1>1. /\ at[c] = "funded" /\ r \in Requests
      /\ r.saw.status = "PROGRESS" /\ (r.paying => r.to = "PENDING")
  BY DEF WriteOrder, PlacementInv, PlacementTypes, RequestsChecked
<1>2. /\ at' \in [Calls -> {"idle"} \cup Steps \cup OrderSteps]
      /\ request' \in [Calls -> Requests]
      /\ at'[c] = step
      /\ \A d \in Calls \ {c} : at'[d] = at[d] /\ request'[d] = request[d]
  BY RequestsAre DEF PlacementInv, PlacementTypes, OrderSteps
<1>3. ~Charged(c)' /\ (\A d \in Calls \ {c} : Charged(d)' <=> Charged(d))
      /\ (Charged(c) <=> Takes(r, "ONLINE_PAY"))
  BY <1>1, <1>2 DEF Charged
<1>4. /\ order' = [status |-> r.to, isPlaced |-> r.to = "PENDING", payType |-> r.pay]
      /\ debits' = IF Takes(r, "WALLET") THEN debits + 1 ELSE debits
      /\ UNCHANGED <<charges, refunds, chains>>
      /\ incidents \subseteq incidents'
      /\ order.status # "PROGRESS" => "order_changed" \in incidents'
      /\ r.to = "PENDING" /\ r.pay # "COD" /\ ~r.paying => "unpaid" \in incidents'
  BY <1>1 DEF WriteOrder, NoteAll, ChangedSince, When
<1>5. r.to \in {"PENDING", "ONGOING", "COMPLETED", "CANCELLED"} /\ r.pay \in {"COD", "WALLET", "ONLINE_PAY"}
      /\ r.paying \in BOOLEAN /\ debits \in Nat /\ charges \in Nat /\ refunds \in Nat /\ chains \in Nat
  BY <1>1 DEF Requests, PlacementInv, PlacementTypes
<1>6. PlacementTypes' /\ RequestsChecked'
  BY <1>2, <1>4, <1>5 DEF PlacementInv, PlacementTypes, RequestsChecked, OrderRows
<1>7. order'.status # "PROGRESS"
  BY <1>4, <1>5
<1>8. NothingPlaced' /\ ChargesUnderWay'
  BY <1>7 DEF NothingPlaced, ChargesUnderWay
<1>9. PaidByOne'
  <2> SUFFICES ASSUME incidents' \cap {"order_changed", "confirmed_late", "charged"} = {},
                      \A d \in Calls : ~Charged(d)'
               PROVE  charges + debits' <= 1
    BY <1>4 DEF PaidByOne
  <2>1. order.status = "PROGRESS" /\ "charged" \notin incidents /\ debits = 0
    BY <1>4 DEF PlacementInv, NothingPlaced
  <2>2. charges <= IF Charged(c) THEN 1 ELSE 0
    BY <1>3, <2>1 DEF PlacementInv, ChargesUnderWay
  <2> QED
    BY <1>3, <1>4, <1>5, <2>1, <2>2 DEF Takes
<1>10. ChainedByOne'
  <2> SUFFICES ASSUME "order_changed" \notin incidents'
               PROVE  chains = 0 /\ \A e, d \in Calls : at'[e] = "chain" /\ at'[d] = "chain" => e = d
    BY <1>4 DEF ChainedByOne
  <2> QED
    BY <1>2, <1>4 DEF PlacementInv, NothingPlaced
<1>11. MoneyBooked'
  <2> SUFFICES ASSUME incidents' \cap {"order_changed", "confirmed_late", "unpaid"} = {}
               PROVE  debits' = refunds + (IF HoldsMoney' THEN 1 ELSE 0)
    BY <1>4 DEF MoneyBooked
  <2>1. debits = 0 /\ refunds = 0
    BY <1>4 DEF PlacementInv, NothingPlaced
  <2>2. HoldsMoney' <=> Takes(r, "WALLET")
    BY <1>1, <1>4, <1>5 DEF HoldsMoney, Takes
  <2> QED
    BY <1>4, <2>1, <2>2
<1> QED
  BY <1>6, <1>8, <1>9, <1>10, <1>11 DEF PlacementInv

LEMMA StartChainKeeps ==
  ASSUME PlacementInv, NEW c \in Calls, PlaceStartChain(c)
  PROVE  PlacementInv'
<1>1. /\ at[c] = "chain" /\ chains' = chains + 1 /\ chains \in Nat
      /\ at' \in [Calls -> {"idle"} \cup Steps \cup OrderSteps]
      /\ request' \in [Calls -> Requests]
      /\ at'[c] = "idle" /\ \A d \in Calls \ {c} : at'[d] = at[d] /\ request'[d] = request[d]
      /\ UNCHANGED <<order, charges, debits, refunds, incidents>>
  BY RequestsAre DEF PlaceStartChain, EndRequest, End, PlacementInv, PlacementTypes, moneyVars
<1>2. \A d \in Calls : Charged(d)' <=> Charged(d)
  BY <1>1 DEF Charged
<1>3. order.status # "PROGRESS"
  BY <1>1 DEF PlacementInv, NothingPlaced
<1>4. PlacementTypes' /\ RequestsChecked'
  BY <1>1 DEF PlacementInv, PlacementTypes, RequestsChecked
<1>5. NothingPlaced' /\ ChargesUnderWay' /\ PaidByOne' /\ MoneyBooked'
  BY <1>1, <1>2, <1>3 DEF PlacementInv, NothingPlaced, ChargesUnderWay, PaidByOne, MoneyBooked, HoldsMoney
<1>6. ChainedByOne'
  BY <1>1 DEF PlacementInv, ChainedByOne
<1> QED
  BY <1>4, <1>5, <1>6 DEF PlacementInv

(* Whoever cancels an order that has not changed refunds what it holds. *)
LEMMA CancelKeeps ==
  ASSUME PlacementInv, NEW c \in Calls, CancelCommit(c)
  PROVE  PlacementInv'
<1> DEFINE refund == request[c].saw.payType = "WALLET" /\ request[c].saw.isPlaced
<1>1. /\ at[c] = "cancel" /\ request[c].saw.status \in {"PROGRESS", "PENDING"}
      /\ at' \in [Calls -> {"idle"} \cup Steps \cup OrderSteps]
      /\ request' \in [Calls -> Requests]
      /\ at'[c] = "idle" /\ \A d \in Calls \ {c} : at'[d] = at[d] /\ request'[d] = request[d]
      /\ UNCHANGED <<charges, debits, chains>>
      /\ refunds' = IF refund THEN refunds + 1 ELSE refunds
      /\ incidents \subseteq incidents'
      /\ order # request[c].saw => "order_changed" \in incidents'
  BY RequestsAre DEF CancelCommit, EndRequest, End, NoteAll, ChangedSince, When, PlacementInv, PlacementTypes,
     RequestsChecked
<1>2. order' = [order EXCEPT !.status = "CANCELLED"] /\ order \in OrderRows /\ debits \in Nat /\ refunds \in Nat
      /\ charges \in Nat /\ chains \in Nat
  BY DEF CancelCommit, PlacementInv, PlacementTypes
<1>3. order' \in OrderRows /\ order'.status = "CANCELLED"
  BY <1>2 DEF OrderRows
<1>4. \A d \in Calls : Charged(d)' <=> Charged(d)
  BY <1>1 DEF Charged
<1>5. PlacementTypes' /\ RequestsChecked'
  BY <1>1, <1>2, <1>3 DEF PlacementInv, PlacementTypes, RequestsChecked
<1>6. NothingPlaced' /\ ChargesUnderWay'
  BY <1>3 DEF NothingPlaced, ChargesUnderWay
<1>7. PaidByOne'
  <2> SUFFICES ASSUME incidents' \cap {"order_changed", "confirmed_late", "charged"} = {},
                      \A d \in Calls : ~Charged(d)'
               PROVE  charges + debits <= 1
    BY <1>1 DEF PaidByOne
  <2>1. CASE order.status = "PROGRESS"
    <3>1. debits = 0 /\ "charged" \notin incidents
      BY <1>1, <2>1 DEF PlacementInv, NothingPlaced
    <3>2. charges <= 0
      BY <1>4, <2>1, <3>1 DEF PlacementInv, ChargesUnderWay
    <3> QED
      BY <1>2, <3>1, <3>2
  <2>2. CASE order.status # "PROGRESS"
    BY <1>1, <1>4, <2>2 DEF PlacementInv, PaidByOne
  <2> QED
    BY <2>1, <2>2
<1>8. ChainedByOne'
  BY <1>1 DEF PlacementInv, ChainedByOne
<1>9. MoneyBooked'
  <2> SUFFICES ASSUME incidents' \cap {"order_changed", "confirmed_late", "unpaid"} = {}
               PROVE  debits = refunds' + (IF HoldsMoney' THEN 1 ELSE 0)
    BY <1>1 DEF MoneyBooked
  <2>1. ~HoldsMoney' /\ (HoldsMoney <=> refund)
    BY <1>1, <1>3 DEF HoldsMoney
  <2>2. debits = refunds + (IF HoldsMoney THEN 1 ELSE 0)
    BY <1>1 DEF PlacementInv, MoneyBooked
  <2> QED
    BY <1>1, <1>2, <2>1, <2>2
<1> QED
  BY <1>5, <1>6, <1>7, <1>8, <1>9 DEF PlacementInv

(* The first payment intent that is confirmed places the order. *)
LEMMA ConfirmKeeps ==
  ASSUME PlacementInv, NEW c \in Calls, ConfirmCommit(c)
  PROVE  PlacementInv'
<1>1. /\ at[c] = "confirm"
      /\ at' \in [Calls -> {"idle"} \cup Steps \cup OrderSteps]
      /\ request' \in [Calls -> Requests]
      /\ at'[c] = "idle" /\ \A d \in Calls \ {c} : at'[d] = at[d] /\ request'[d] = request[d]
      /\ UNCHANGED <<charges, debits, refunds, chains>>
      /\ incidents \subseteq incidents'
      /\ order.status # "PROGRESS" => "confirmed_late" \in incidents'
      /\ debits \in Nat /\ refunds \in Nat /\ charges \in Nat /\ chains \in Nat
  BY RequestsAre DEF ConfirmCommit, EndRequest, End, NoteAll, When, PlacementInv, PlacementTypes, moneyVars
<1>2. order' = [status |-> "PENDING", isPlaced |-> TRUE, payType |-> "ONLINE_PAY"]
  BY DEF ConfirmCommit
<1>3. order' \in OrderRows /\ order'.status = "PENDING" /\ order'.payType = "ONLINE_PAY"
  BY <1>2 DEF OrderRows
<1>4. \A d \in Calls : Charged(d)' <=> Charged(d)
  BY <1>1 DEF Charged
<1>5. PlacementTypes' /\ RequestsChecked'
  BY <1>1, <1>3 DEF PlacementInv, PlacementTypes, RequestsChecked
<1>6. NothingPlaced' /\ ChargesUnderWay'
  BY <1>3 DEF NothingPlaced, ChargesUnderWay
<1>7. PaidByOne'
  <2> SUFFICES ASSUME incidents' \cap {"order_changed", "confirmed_late", "charged"} = {},
                      \A d \in Calls : ~Charged(d)'
               PROVE  charges + debits <= 1
    BY <1>1 DEF PaidByOne
  <2>1. order.status = "PROGRESS" /\ debits = 0 /\ "charged" \notin incidents
    BY <1>1 DEF PlacementInv, NothingPlaced
  <2>2. charges <= 0
    BY <1>4, <2>1 DEF PlacementInv, ChargesUnderWay
  <2> QED
    BY <1>1, <2>1, <2>2
<1>8. ChainedByOne'
  BY <1>1 DEF PlacementInv, ChainedByOne
<1>9. MoneyBooked'
  <2> SUFFICES ASSUME incidents' \cap {"order_changed", "confirmed_late", "unpaid"} = {}
               PROVE  debits = refunds + (IF HoldsMoney' THEN 1 ELSE 0)
    BY <1>1 DEF MoneyBooked
  <2>1. debits = 0 /\ refunds = 0 /\ ~HoldsMoney'
    BY <1>1, <1>3 DEF PlacementInv, NothingPlaced, HoldsMoney
  <2> QED
    BY <2>1
<1> QED
  BY <1>5, <1>6, <1>7, <1>8, <1>9 DEF PlacementInv

(* Dispatch and Fulfilment move the order on; the wallet's payments and the *)
(* customer's do not touch it.                                             *)
LEMMA ElsewhereKeeps ==
  ASSUME PlacementInv,
         \/ UNCHANGED allVars
         \/ \E i \in Deposits : Deposit(i) /\ UNCHANGED orderVars
         \/ \E i \in Payments : OrderPaid(i)
         \/ Advance
  PROVE  PlacementInv'
<1>1. UNCHANGED <<at, request, charges, debits, refunds, chains, incidents>>
  BY DEF allVars, vars, callVars, orderVars, moneyVars, Deposit, CreateIntent, AddMoney, PaymentFails,
     PaymentSucceeds, OrderPaid, Advance
<1>2. \/ UNCHANGED order
      \/ /\ order.status \in {"PENDING", "ONGOING"}
         /\ order' = [order EXCEPT !.status = IF @ = "PENDING" THEN "ONGOING" ELSE "COMPLETED"]
  BY DEF allVars, orderVars, OrderPaid, Advance
<1>3. /\ order' \in OrderRows
      /\ order'.isPlaced = order.isPlaced /\ order'.payType = order.payType
      /\ order'.status = "PROGRESS" <=> order.status = "PROGRESS"
      /\ order'.status = "CANCELLED" <=> order.status = "CANCELLED"
  BY <1>2 DEF PlacementInv, PlacementTypes, OrderRows
<1>4. \A c \in Calls : Charged(c)' <=> Charged(c)
  BY <1>1 DEF Charged
<1>5. PlacementTypes' /\ RequestsChecked' /\ NothingPlaced' /\ ChainedByOne'
  BY <1>1, <1>3 DEF PlacementInv, PlacementTypes, RequestsChecked, NothingPlaced, ChainedByOne
<1>6. ChargesUnderWay' /\ PaidByOne' /\ MoneyBooked'
  BY <1>1, <1>3, <1>4 DEF PlacementInv, ChargesUnderWay, PaidByOne, MoneyBooked, HoldsMoney
<1> QED
  BY <1>5, <1>6 DEF PlacementInv

LEMMA OrderStepKeeps ==
  ASSUME PlacementInv, NEW c \in Calls, OrderStep(c)
  PROVE  PlacementInv'
<1>0. PlacementTypes /\ request[c] \in Requests /\ request = [request EXCEPT ![c] = request[c]]
  BY DEF PlacementInv, PlacementTypes
<1>1. CASE Funds(c)
  <2>1. /\ at[c] = "begin" /\ ~Charged(c)
        /\ request[c].saw.status = "PROGRESS" /\ (request[c].paying => request[c].to = "PENDING")
    BY <1>1 DEF Funds, Charged, PlacementInv, RequestsChecked
  <2> QED
    BY <1>0, <1>1, <2>1, OrderCallMoves DEF Funds, orderVars, moneyVars, OrderSteps
<1>2. CASE Charge(c)
  BY <1>2, ChargeKeeps
<1>3. CASE PlaceCommit(c) \/ SetCommit(c) \/ BulkCommit(c)
  BY <1>3, WriteKeeps DEF PlaceCommit, SetCommit, BulkCommit, EndRequest, End
<1>4. CASE PlaceStartChain(c)
  BY <1>4, StartChainKeeps
<1>5. CASE CancelCommit(c)
  BY <1>5, CancelKeeps
<1>6. CASE ConfirmCommit(c)
  BY <1>6, ConfirmKeeps
<1>7. CASE LoseOrderCall(c)
  <2>1. Charged(c) => "charged" \in incidents'
    BY <1>7 DEF LoseOrderCall, Charged, NoteAll, When
  <2>2. incidents \subseteq incidents'
    BY <1>7 DEF LoseOrderCall, NoteAll
  <2> QED
    BY <1>7, <2>1, <2>2, RequestsAre, OrderCallMoves DEF LoseOrderCall, EndRequest, End, moneyVars
<1> QED
  BY <1>1, <1>2, <1>3, <1>4, <1>5, <1>6, <1>7 DEF OrderStep

LEMMA PlacementStepInv == PlacementInv /\ [PlacementNext]_allVars => PlacementInv'
<1> SUFFICES ASSUME PlacementInv, [PlacementNext]_allVars
             PROVE  PlacementInv'
  OBVIOUS
<1>1. ASSUME NEW c \in Calls, NEW i \in Payments, ConfirmRead(c, i)
      PROVE  PlacementInv'
  <2>1. ~Charged(c) /\ PlacementTypes
    BY <1>1 DEF ConfirmRead, Enter, Charged, PlacementInv
  <2> QED
    BY <1>1, <2>1, RequestsAre, OrderCallMoves DEF ConfirmRead, Enter, OrderSteps, moneyVars
<1> QED
  BY <1>1, ElsewhereKeeps, WalletCallKeeps, OrderRequestKeeps, OrderStepKeeps DEF PlacementNext

(* The order is paid once and its chain started once, a wallet order has    *)
(* been debited once more than refunded while it is placed and not          *)
(* cancelled, and as often otherwise - for any number of requests, intents  *)
(* and deposits, unless the incidents named have happened.                  *)
THEOREM MoneyAlwaysFollows == PlacementSpec => []MoneyFollowsOrder
<1>1. PlacementInv => DebitsMatchRefunds
  BY DEF PlacementInv, MoneyBooked, HoldsMoney, DebitsMatchRefunds, PlacementTypes
<1>2. PlacementInv => PlacedOnce
  <2> SUFFICES ASSUME PlacementInv, incidents \cap {"order_changed", "confirmed_late", "charged"} = {},
                      \A c \in Calls : at[c] \notin {"funded", "confirm"}
               PROVE  charges + debits <= 1 /\ chains <= 1
    BY DEF PlacedOnce
  <2>1. \A c \in Calls : ~Charged(c)
    BY DEF Charged
  <2>2. chains <= 1
    BY DEF PlacementInv, ChainedByOne
  <2>3. CASE order.status # "PROGRESS"
    BY <2>1, <2>2, <2>3 DEF PlacementInv, PaidByOne
  <2>4. CASE order.status = "PROGRESS"
    <3>1. debits = 0 /\ charges \in Nat
      BY <2>4 DEF PlacementInv, NothingPlaced, PlacementTypes
    <3>2. charges <= 0
      BY <2>1, <2>4 DEF PlacementInv, ChargesUnderWay
    <3> QED
      BY <2>2, <3>1, <3>2
  <2> QED
    BY <2>3, <2>4
<1>3. PlacementInv => MoneyFollowsOrder
  BY <1>1, <1>2 DEF MoneyFollowsOrder
<1> QED
  BY <1>3, PlacementInitInv, PlacementStepInv, PTL DEF PlacementSpec
=============================================================================
