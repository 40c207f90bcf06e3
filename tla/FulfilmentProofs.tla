-------------------------- MODULE FulfilmentProofs --------------------------
(***************************************************************************)
(* Proofs about Fulfilment, for every set of stops and of requests.  The   *)
(* argument: a completion that is about to finish the order has seen every *)
(* other stop COMPLETED, and a stop that was ever COMPLETED keeps its      *)
(* completedAt and its payment, even if a late failStop overwrites its     *)
(* status afterwards.  So what the completion has seen is still true, in   *)
(* the sense that matters, when it commits.                                *)
(***************************************************************************)
EXTENDS Checkout, TLAPS

USE FulfilmentAssumption

(* The calls that work on a stop. *)
OnStop(step) == step \notin {"idle", "cancel"}

CallsHaveStops == \A c \in Calls : OnStop(at[c]) => target[c] \in Stops

CompletedWasDelivered ==
  \A s \in Stops : stopStatus[s] = "COMPLETED" => s \in delivered

(* What a completion that is about to finish the order has seen. *)
FinishingSawAll ==
  \A c \in Calls :
    at[c] = "finishing" =>
      Stops \ {target[c]} \subseteq delivered /\ Cash \ {target[c]} \subseteq paid

(* A progress step that was checked is still allowed when it is written. *)
CheckedStepsAllowed ==
  \A c \in Calls :
    at[c] \in Progress => Requires(at[c], target[c]) \subseteq reached[target[c]]

FulfilmentInv ==
  /\ TypeOK
  /\ CallsHaveStops
  /\ CompletedWasDelivered
  /\ FinishingSawAll
  /\ PaidOnce
  /\ PaidForDelivery

-----------------------------------------------------------------------------
(* The parts of the state that a call's bookkeeping changes. *)
LEMMA TypeInit == Init => TypeOK
BY DEF Init, TypeOK, StopStatus, Progress

LEMMA TypeStep == TypeOK /\ CallsHaveStops /\ [Next]_vars => TypeOK' /\ CallsHaveStops'
<1> SUFFICES ASSUME TypeOK, CallsHaveStops, [Next]_vars
             PROVE  TypeOK' /\ CallsHaveStops'
  OBVIOUS
<1> USE DEF TypeOK, CallsHaveStops, OnStop, StopStatus, Progress, InTransaction, Pending,
            stopVars
<1>1. CASE UNCHANGED vars
  BY <1>1 DEF vars
<1>2. ASSUME NEW c \in Calls, CallStep(c)
      PROVE  TypeOK' /\ CallsHaveStops'
  <2>1. ASSUME NEW s \in Stops, NEW what \in {"complete", "fail", "retry", "skip"} \cup Progress,
               Begin(c, what, s)
        PROVE  TypeOK' /\ CallsHaveStops'
    BY <2>1 DEF Begin
  <2>2. ASSUME NEW s \in Stops,
               \/ CompleteCheck(c, s) \/ FailCheck(c, s) \/ RetryCheck(c, s)
               \/ SkipCheck(c, s) \/ \E step \in Progress : ProgressCheck(c, step, s)
        PROVE  TypeOK' /\ CallsHaveStops'
    BY <2>1, <2>2 DEF CompleteCheck, FailCheck, RetryCheck, SkipCheck, ProgressCheck
  <2>3. CASE CompleteMark(c)
    BY <2>3 DEF CompleteMark, Goto, End
  <2>4. CASE CompleteTally(c)
    BY <2>4 DEF CompleteTally, Goto
  <2>5. CASE CommitStop(c)
    BY <2>5 DEF CommitStop, StopCompleted, End
  <2>6. CASE CommitOrder(c)
    BY <2>6 DEF CommitOrder, StopCompleted, End
  <2>7. CASE FailWrite(c)
    BY <2>7 DEF FailWrite, WriteStop, End
  <2>8. CASE RetryWrite(c)
    BY <2>8 DEF RetryWrite, WriteStop, End
  <2>9. CASE SkipWrite(c)
    BY <2>9 DEF SkipWrite, End
  <2>10. CASE ProgressWrite(c)
    BY <2>10 DEF ProgressWrite, End
  <2>11. CASE CancelCheck(c)
    BY <2>11 DEF CancelCheck, Begin
  <2>12. CASE CancelWrite(c)
    BY <2>12 DEF CancelWrite, End
  <2>13. CASE Lose(c)
    BY <2>13 DEF Lose, End
  <2> QED
    BY <1>2, <2>2, <2>3, <2>4, <2>5, <2>6, <2>7, <2>8, <2>9, <2>10, <2>11, <2>12, <2>13
       DEF CallStep
<1> QED
  BY <1>1, <1>2 DEF Next

(* Fulfilment keeps its types: every call that works on a stop has one, and  *)
(* every column holds a value of its enumeration.                            *)
THEOREM FulfilmentTypeCorrect == Spec => []FulfilmentTypeOK
<1>1. Init => TypeOK /\ CallsHaveStops
  BY TypeInit DEF Init, CallsHaveStops, OnStop
<1>2. TypeOK /\ CallsHaveStops /\ [Next]_vars => (TypeOK /\ CallsHaveStops)'
  BY TypeStep
<1> QED
  BY <1>1, <1>2, PTL DEF Spec, FulfilmentTypeOK

-----------------------------------------------------------------------------
(* Nothing but a completion's commit changes what has been delivered, paid   *)
(* or earned, and a commit only adds to it.                                  *)
LEMMA OnlyCommitsDeliver ==
  ASSUME NEW c \in Calls, CallStep(c), ~CommitStop(c), ~CommitOrder(c)
  PROVE  UNCHANGED <<delivered, paid, earnings>> /\ order_status' \in {order_status, "CANCELLED"}
BY DEF CallStep, CompleteCheck, FailCheck, RetryCheck, SkipCheck, ProgressCheck, Begin,
       CompleteMark, CompleteTally, FailWrite, RetryWrite, WriteStop, SkipWrite,
       ProgressWrite, CancelCheck, CancelWrite, Lose, stopVars

(* A completed stop has been delivered: only a commit completes stops. *)
LEMMA CompletedStep ==
  ASSUME TypeOK, CallsHaveStops, CompletedWasDelivered, [Next]_vars
  PROVE  CompletedWasDelivered'
<1> USE DEF CompletedWasDelivered, TypeOK, stopVars
<1>1. CASE UNCHANGED vars
  BY <1>1 DEF vars
<1>2. ASSUME NEW c \in Calls, CallStep(c)
      PROVE  CompletedWasDelivered'
  <2>1. CASE CommitStop(c) \/ CommitOrder(c)
    BY <2>1 DEF CommitStop, CommitOrder, StopCompleted
  <2>2. CASE FailWrite(c) \/ RetryWrite(c)
    BY <2>2 DEF FailWrite, RetryWrite, WriteStop
  <2>3. ASSUME ~CommitStop(c), ~CommitOrder(c), ~FailWrite(c), ~RetryWrite(c)
        PROVE  UNCHANGED <<stopStatus, delivered>>
    BY <1>2, <2>3
       DEF CallStep, CompleteCheck, FailCheck, RetryCheck, SkipCheck, ProgressCheck, Begin,
           CompleteMark, CompleteTally, SkipWrite, ProgressWrite, CancelCheck,
           CancelWrite, Lose
  <2> QED
    BY <2>1, <2>2, <2>3
<1> QED
  BY <1>1, <1>2 DEF Next

(* What a finishing completion has seen stays true until it commits. *)
LEMMA FinishingStep ==
  ASSUME TypeOK, CallsHaveStops, CompletedWasDelivered, FinishingSawAll, [Next]_vars
  PROVE  FinishingSawAll'
<1> USE DEF FinishingSawAll
<1>1. CASE UNCHANGED vars
  BY <1>1 DEF vars, stopVars
<1>2. ASSUME NEW c \in Calls, CallStep(c)
      PROVE  FinishingSawAll'
  <2>1. delivered \subseteq delivered' /\ paid \subseteq paid'
    <3>1. CASE CommitStop(c) \/ CommitOrder(c)
      BY <3>1 DEF CommitStop, CommitOrder, StopCompleted, stopVars
    <3> QED
      BY <1>2, <3>1, OnlyCommitsDeliver
  <2>2. CASE CompleteTally(c)
    <3>1. UNCHANGED <<delivered, paid>> /\ target' = target
      BY <2>2 DEF CompleteTally, Goto, stopVars
    <3>2. CASE Incomplete(c) = {}
      <4>1. Stops \ {target[c]} \subseteq delivered /\ Cash \ {target[c]} \subseteq paid
        BY <3>2 DEF Incomplete, CompletedWasDelivered
      <4> QED
        BY <2>2, <3>1, <4>1 DEF CompleteTally, Goto, TypeOK
    <3>3. CASE Incomplete(c) # {}
      BY <2>2, <3>1, <3>3 DEF CompleteTally, Goto, TypeOK
    <3> QED
      BY <3>2, <3>3
  <2>3. ASSUME ~CompleteTally(c), NEW d \in Calls, at'[d] = "finishing"
        PROVE  at[d] = "finishing" /\ target'[d] = target[d]
    BY <1>2, <2>3
       DEF CallStep, CompleteCheck, FailCheck, RetryCheck, SkipCheck, ProgressCheck, Begin,
           CompleteMark, CommitStop, CommitOrder, FailWrite, RetryWrite, WriteStop,
           SkipWrite, ProgressWrite, CancelCheck, CancelWrite, Lose, Goto, End, TypeOK,
           Progress
  <2> QED
    BY <2>1, <2>2, <2>3
<1> QED
  BY <1>1, <1>2 DEF Next

(* A commit that finishes the order leaves no stop out. *)
LEMMA FinishDeliversAll ==
  ASSUME FulfilmentInv, NEW c \in Calls, CommitOrder(c), earnings = 0
  PROVE  delivered' = Stops /\ Cash \subseteq paid'
<1>1. target[c] \in Stops
  BY DEF CommitOrder, FulfilmentInv, CallsHaveStops, OnStop
<1>2. delivered' = delivered \cup {target[c]} /\ paid' = paid \cup ({target[c]} \cap Cash)
  BY DEF CommitOrder, StopCompleted
<1>3. Stops \ {target[c]} \subseteq delivered /\ Cash \ {target[c]} \subseteq paid
  BY DEF CommitOrder, FulfilmentInv, FinishingSawAll
<1> QED
  BY <1>1, <1>2, <1>3 DEF FulfilmentInv, TypeOK

-----------------------------------------------------------------------------
LEMMA InvInit == Init => FulfilmentInv
<1> SUFFICES ASSUME Init PROVE FulfilmentInv
  OBVIOUS
<1>1. TypeOK
  BY TypeInit
<1>2. CallsHaveStops /\ CompletedWasDelivered /\ FinishingSawAll
  BY DEF Init, CallsHaveStops, OnStop, CompletedWasDelivered, FinishingSawAll
<1>3. PaidOnce /\ PaidForDelivery
  BY DEF Init, PaidOnce, PaidForDelivery
<1> QED
  BY <1>1, <1>2, <1>3 DEF FulfilmentInv

LEMMA InvStep == FulfilmentInv /\ [Next]_vars => FulfilmentInv'
<1> SUFFICES ASSUME FulfilmentInv, [Next]_vars
             PROVE  FulfilmentInv'
  OBVIOUS
<1>1. TypeOK' /\ CallsHaveStops'
  BY TypeStep DEF FulfilmentInv
<1>2. CompletedWasDelivered' /\ FinishingSawAll'
  BY CompletedStep, FinishingStep DEF FulfilmentInv
<1>3. PaidOnce' /\ PaidForDelivery'
  <2>1. CASE UNCHANGED vars
    BY <2>1 DEF vars, stopVars, FulfilmentInv, PaidOnce, PaidForDelivery
  <2>2. ASSUME NEW c \in Calls, CallStep(c)
        PROVE  PaidOnce' /\ PaidForDelivery'
    <3>1. CASE CommitOrder(c) /\ earnings = 0
      BY <3>1, FinishDeliversAll DEF CommitOrder, PaidOnce, PaidForDelivery
    <3>2. CASE CommitOrder(c) /\ earnings # 0
      BY <3>2 DEF CommitOrder, stopVars, FulfilmentInv, PaidOnce, PaidForDelivery
    <3>3. CASE CommitStop(c)
      <4>1. UNCHANGED <<order_status, earnings>>
        BY <3>3 DEF CommitStop
      <4>2. delivered \subseteq delivered' /\ paid \subseteq paid'
        BY <3>3 DEF CommitStop, StopCompleted
      <4>3. delivered' \subseteq Stops
        BY <1>1 DEF TypeOK
      <4> QED
        BY <4>1, <4>2, <4>3 DEF FulfilmentInv, PaidOnce, PaidForDelivery
    <3>4. CASE ~CommitStop(c) /\ ~CommitOrder(c)
      BY <2>2, <3>4, OnlyCommitsDeliver DEF FulfilmentInv, PaidOnce, PaidForDelivery
    <3> QED
      BY <3>1, <3>2, <3>3, <3>4
  <2> QED
    BY <2>1, <2>2 DEF Next
<1> QED
  BY <1>1, <1>2, <1>3 DEF FulfilmentInv

(* The inductive invariant of the fulfilment. *)
THEOREM FulfilmentInvariant == Spec => []FulfilmentInv
BY InvInit, InvStep, PTL DEF Spec

(* However requests are repeated, overtake one another or are lost, the      *)
(* rider is credited once at most (completeStop).                            *)
THEOREM AlwaysPaidOnce == Spec => []PaidOnce
<1>1. FulfilmentInv => PaidOnce
  BY DEF FulfilmentInv
<1> QED
  BY <1>1, FulfilmentInvariant, PTL

(* He is credited only when every stop has been delivered and every amount   *)
(* collected (the incompleteStops query of completeStop).                    *)
THEOREM AlwaysPaidForDelivery == Spec => []PaidForDelivery
<1>1. FulfilmentInv => PaidForDelivery
  BY DEF FulfilmentInv
<1> QED
  BY <1>1, FulfilmentInvariant, PTL
-----------------------------------------------------------------------------
(* Progress.  Flags are only ever added, so a step that was allowed when it  *)
(* was checked is allowed when it is written.                                *)
StepsInv == TypeOK /\ CallsHaveStops /\ CheckedStepsAllowed /\ StepsInOrder

LEMMA StepsInit == Init => StepsInv
<1> SUFFICES ASSUME Init PROVE StepsInv
  OBVIOUS
<1>1. TypeOK
  BY TypeInit
<1>2. CallsHaveStops /\ CheckedStepsAllowed /\ StepsInOrder
  BY DEF Init, CallsHaveStops, OnStop, CheckedStepsAllowed, StepsInOrder, Progress
<1> QED
  BY <1>1, <1>2 DEF StepsInv

LEMMA StepsStep == StepsInv /\ [Next]_vars => StepsInv'
<1> SUFFICES ASSUME StepsInv, [Next]_vars
             PROVE  StepsInv'
  OBVIOUS
<1>1. TypeOK' /\ CallsHaveStops'
  BY TypeStep DEF StepsInv
<1>2. CheckedStepsAllowed' /\ StepsInOrder'
  <2> USE DEF StepsInv, CheckedStepsAllowed, StepsInOrder
  <2>1. CASE UNCHANGED vars
    BY <2>1 DEF vars, stopVars
  <2>2. ASSUME NEW c \in Calls, CallStep(c)
        PROVE  CheckedStepsAllowed' /\ StepsInOrder'
    <3>1. CASE ProgressWrite(c)
      <4>1. target[c] \in Stops
        BY <3>1 DEF ProgressWrite, CallsHaveStops, OnStop, Progress
      <4>2. \A s \in Stops : reached[s] \subseteq reached'[s]
        BY <3>1 DEF ProgressWrite, TypeOK
      <4>3. StepsInOrder'
        BY <3>1, <4>1, <4>2 DEF ProgressWrite, TypeOK
      <4>4. ASSUME NEW d \in Calls, at'[d] \in Progress
            PROVE  d # c /\ at'[d] = at[d] /\ target'[d] = target[d]
        BY <3>1, <4>4 DEF ProgressWrite, End, TypeOK, Progress
      <4>5. CheckedStepsAllowed'
        BY <4>2, <4>4 DEF CallsHaveStops, OnStop, Progress
      <4> QED
        BY <4>3, <4>5
    <3>2. CASE \E s \in Stops : \E step \in Progress : ProgressCheck(c, step, s)
      BY <3>2 DEF ProgressCheck, Begin, stopVars, TypeOK
    <3>3. ASSUME ~ProgressWrite(c),
                 ~\E s \in Stops : \E step \in Progress : ProgressCheck(c, step, s)
          PROVE  /\ UNCHANGED reached
                 /\ \A d \in Calls : at'[d] \in Progress => at'[d] = at[d] /\ target'[d] = target[d]
      BY <2>2, <3>3
         DEF CallStep, CompleteCheck, FailCheck, RetryCheck, SkipCheck, Begin, CompleteMark,
             CompleteTally, CommitStop, CommitOrder, StopCompleted, FailWrite, RetryWrite,
             WriteStop, SkipWrite, CancelCheck, CancelWrite, Lose, Goto, End, stopVars,
             TypeOK, Progress
    <3> QED
      BY <3>1, <3>2, <3>3
  <2> QED
    BY <2>1, <2>2 DEF Next
<1> QED
  BY <1>1, <1>2 DEF StepsInv

(* At every stop the rider has arrived only if he had set out, and unloaded  *)
(* a pickup only if he had loaded (updateStopProgress), although the flags   *)
(* are read before they are written and stops fail and are retried.          *)
THEOREM StepsAlwaysInOrder == Spec => []StepsInOrder
<1>1. StepsInv => StepsInOrder
  BY DEF StepsInv
<1> QED
  BY <1>1, StepsInit, StepsStep, PTL DEF Spec

-----------------------------------------------------------------------------
(* Of the calls of a delivery only completeStop and cancelOrder write the    *)
(* order's status, and neither passes its checks on a settled order: the     *)
(* outcome is final.                                                         *)
THEOREM SettledStaysSettled == Spec => SettledIsFinal
<1> DEFINE Final == Settled => Settled' /\ order_status' = order_status
<1> USE DEF Settled, InFlight, InTransaction
<1>1. ASSUME TypeOK, [Next]_vars
      PROVE  [Final]_vars
  <2>1. ASSUME NEW c \in Calls, CallStep(c), Settled
        PROVE  Settled' /\ order_status' = order_status
    <3>1. at \in [Calls -> {"idle"} \cup Pending]
      BY <1>1 DEF TypeOK
    <3>2. ASSUME NEW s \in Stops, CompleteCheck(c, s)
          PROVE  FALSE
      BY <2>1, <3>2 DEF CompleteCheck
    <3>3. ASSUME NEW s \in Stops, NEW what \in {"fail", "retry", "skip"} \cup Progress,
                 Begin(c, what, s)
          PROVE  Settled' /\ order_status' = order_status
      BY <2>1, <3>1, <3>3 DEF Begin, Progress
    <3>4. CASE FailWrite(c) \/ RetryWrite(c) \/ SkipWrite(c) \/ ProgressWrite(c) \/ Lose(c)
      BY <2>1, <3>1, <3>4 DEF FailWrite, RetryWrite, WriteStop, SkipWrite, ProgressWrite,
                              Lose, End
    <3>5. ~CompleteMark(c) /\ ~CompleteTally(c) /\ ~CommitStop(c) /\ ~CommitOrder(c)
          /\ ~CancelCheck(c) /\ ~CancelWrite(c)
      BY <2>1 DEF CompleteMark, CompleteTally, CommitStop, CommitOrder, CancelCheck,
                  CancelWrite
    <3> QED
      BY <2>1, <3>2, <3>3, <3>4, <3>5
      DEF CallStep, FailCheck, RetryCheck, SkipCheck, ProgressCheck
  <2> QED
    BY <1>1, <2>1 DEF Next
<1>2. Spec => []TypeOK
  BY FulfilmentTypeCorrect, PTL DEF FulfilmentTypeOK
<1> QED
  BY <1>1, <1>2, PTL DEF Spec, SettledIsFinal

-----------------------------------------------------------------------------
(* Every step of the fulfilment is a step of the abstract delivery, or none. *)
LEMMA DeliveryStep ==
  ASSUME FulfilmentInv, [Next]_vars
  PROVE  [Abstract!Next]_<<delivered, earnings = 1>>
<1>1. CASE UNCHANGED vars
  BY <1>1 DEF vars, stopVars
<1>2. ASSUME NEW c \in Calls, CallStep(c)
      PROVE  [Abstract!Next]_<<delivered, earnings = 1>>
  <2>1. CASE CommitOrder(c) /\ earnings = 0
    <3>1. target[c] \in Stops
      BY <2>1 DEF CommitOrder, FulfilmentInv, CallsHaveStops, OnStop
    <3>2. delivered' = delivered \cup {target[c]} /\ earnings' = 1
      BY <2>1 DEF CommitOrder, StopCompleted
    <3>3. delivered' = Stops
      BY <2>1, FinishDeliversAll
    <3>4. Abstract!DeliverLast(target[c])
      BY <2>1, <3>2, <3>3 DEF Abstract!DeliverLast
    <3> QED
      BY <3>1, <3>4 DEF Abstract!Next
  <2>2. CASE CommitOrder(c) /\ earnings # 0
    BY <2>2 DEF CommitOrder, stopVars
  <2>3. CASE CommitStop(c)
    <3>1. target[c] \in Stops
      BY <2>3 DEF CommitStop, FulfilmentInv, CallsHaveStops, OnStop
    <3>2. Abstract!Deliver(target[c])
      BY <2>3 DEF CommitStop, StopCompleted, Abstract!Deliver
    <3> QED
      BY <3>1, <3>2 DEF Abstract!Next
  <2>4. CASE ~CommitStop(c) /\ ~CommitOrder(c)
    BY <1>2, <2>4, OnlyCommitsDeliver
  <2> QED
    BY <2>1, <2>2, <2>3, <2>4
<1> QED
  BY <1>1, <1>2 DEF Next

(* The fulfilment of an order implements the abstract delivery: earnings are *)
(* paid once, in the step of a delivery that leaves no stop out.             *)
THEOREM FulfilmentImplementsDelivery == Spec => ImplementsDelivery
<1>1. Init => Abstract!Init
  BY DEF Init, Abstract!Init
<1>2. FulfilmentInv /\ [Next]_vars => [Abstract!Next]_<<delivered, earnings = 1>>
  BY DeliveryStep
<1> QED
  BY <1>1, <1>2, FulfilmentInvariant, PTL DEF Spec, ImplementsDelivery, Abstract!Spec

-----------------------------------------------------------------------------
(* Proofs about Checkout, for every set of sessions and of deliveries.  A  *)
(* stop that was ever COMPLETED was delivered or has its booking, neither  *)
(* of which is taken back, so the argument above holds with card payments  *)
(* as well; a webhook, which counts no payments, credits nobody.           *)
CardBooked == {s \in Stops : booked[s] > 0}

(* A webhook that is under way works on a stop with an amount to collect. *)
HooksHaveStops ==
  /\ \A x \in settled : payFor[x] # NoStop
  /\ \A w \in Webhooks : hook[w] # "idle" => about[w] \in settled

CompletedWasSettled ==
  \A s \in Stops : stopStatus[s] = "COMPLETED" => s \in delivered \cup CardBooked

FinishingSawSettled ==
  \A c \in Calls :
    at[c] = "finishing" =>
      Stops \ {target[c]} \subseteq delivered \cup CardBooked /\ Cash \ {target[c]} \subseteq paid

CheckoutInv ==
  /\ CheckoutTypeOK
  /\ CallsHaveStops
  /\ HooksHaveStops
  /\ CompletedWasSettled
  /\ FinishingSawSettled
  /\ CardPaidDelivery

LEMMA CheckoutInitInv == CheckoutInit => CheckoutInv
<1> SUFFICES ASSUME CheckoutInit PROVE CheckoutInv
  OBVIOUS
<1>1. CheckoutTypeOK
  BY TypeInit, CheckoutAssumption DEF CheckoutInit, CheckoutTypeOK
<1>2. CallsHaveStops /\ HooksHaveStops /\ CompletedWasSettled /\ FinishingSawSettled /\ CardPaidDelivery
  BY DEF CheckoutInit, Init, CallsHaveStops, OnStop, HooksHaveStops, CompletedWasSettled,
     FinishingSawSettled, CardPaidDelivery
<1> QED
  BY <1>1, <1>2 DEF CheckoutInv

(* Nothing that was delivered, paid, booked or finished changes. *)
LEMMA CheckoutKeeps ==
  ASSUME CheckoutInv, CheckoutTypeOK', CallsHaveStops', HooksHaveStops',
         UNCHANGED <<paid, delivered, earnings, booked, checkoutIncidents>>,
         order_status' \in {order_status, "CANCELLED"},
         \A s \in Stops : stopStatus'[s] = "COMPLETED" => stopStatus[s] = "COMPLETED",
         \A c \in Calls : at'[c] = "finishing" => at[c] = "finishing" /\ target'[c] = target[c]
  PROVE  CheckoutInv'
BY DEF CheckoutInv, CompletedWasSettled, FinishingSawSettled, CardPaidDelivery, CardBooked

(* The calls of Fulfilment. *)
LEMMA CheckoutCallStep ==
  ASSUME CheckoutInv, NEW c \in Calls, CallStep(c), UNCHANGED checkoutVars
  PROVE  CheckoutInv'
<1>0. TypeOK /\ CallsHaveStops /\ TypeOK' /\ CallsHaveStops'
  BY TypeStep DEF CheckoutInv, CheckoutTypeOK, Next
<1>1. CheckoutTypeOK' /\ HooksHaveStops' /\ UNCHANGED <<booked, checkoutIncidents>>
  BY <1>0 DEF CheckoutInv, CheckoutTypeOK, HooksHaveStops, checkoutVars, hookVars
<1>2. CASE CompleteTally(c)
  <2>1. UNCHANGED <<delivered, paid, target, stopStatus, earnings, order_status>>
    BY <1>2 DEF CompleteTally, Goto, stopVars
  <2>2. ASSUME at'[c] = "finishing"
        PROVE  Stops \ {target[c]} \subseteq delivered \cup CardBooked /\ Cash \ {target[c]} \subseteq paid
    <3>1. Incomplete(c) = {}
      BY <1>0, <1>2, <2>2 DEF CompleteTally, Goto, TypeOK
    <3> QED
      BY <3>1 DEF Incomplete, CheckoutInv, CompletedWasSettled
  <2>3. \A d \in Calls \ {c} : at'[d] = at[d]
    BY <1>0, <1>2 DEF CompleteTally, Goto, TypeOK
  <2>4. FinishingSawSettled'
    BY <1>1, <2>1, <2>2, <2>3 DEF CheckoutInv, FinishingSawSettled, CardBooked
  <2> QED
    BY <1>0, <1>1, <2>1, <2>4 DEF CheckoutInv, CompletedWasSettled, CardPaidDelivery, CardBooked
<1>3. CASE CommitStop(c) \/ (CommitOrder(c) /\ earnings = 0)
  <2>1. target[c] \in Stops
    BY <1>0, <1>3 DEF CommitStop, CommitOrder, CallsHaveStops, OnStop
  <2>2. /\ delivered' = delivered \cup {target[c]} /\ paid' = paid \cup ({target[c]} \cap Cash)
        /\ stopStatus' = [stopStatus EXCEPT ![target[c]] = "COMPLETED"]
    BY <1>3 DEF CommitStop, CommitOrder, StopCompleted
  <2>3. ASSUME NEW d \in Calls, at'[d] = "finishing"
        PROVE  at[d] = "finishing" /\ target'[d] = target[d]
    BY <1>0, <1>3, <2>3 DEF CommitStop, CommitOrder, End, TypeOK
  <2>4. CompletedWasSettled' /\ FinishingSawSettled'
    BY <1>0, <1>1, <2>1, <2>2, <2>3
       DEF CheckoutInv, CompletedWasSettled, FinishingSawSettled, CardBooked, TypeOK
  <2>5. CASE CommitStop(c)
    BY <1>0, <1>1, <2>2, <2>4, <2>5 DEF CommitStop, CheckoutInv, CardPaidDelivery
  <2>6. CASE CommitOrder(c) /\ earnings = 0
    <3>1. Stops \ {target[c]} \subseteq delivered \cup CardBooked /\ Cash \ {target[c]} \subseteq paid
      BY <2>6 DEF CommitOrder, CheckoutInv, FinishingSawSettled
    <3>2. earnings' = 1
      BY <2>6 DEF CommitOrder
    <3> QED
      BY <1>0, <1>1, <2>1, <2>2, <2>4, <3>1, <3>2 DEF CheckoutInv, CardPaidDelivery, CardBooked
  <2> QED
    BY <1>3, <2>5, <2>6
<1>4. CASE CommitOrder(c) /\ earnings # 0
  BY <1>0, <1>1, <1>4, CheckoutKeeps DEF CommitOrder, End, stopVars, TypeOK
<1>5. CASE FailWrite(c) \/ RetryWrite(c)
  <2>1. \A s \in Stops : stopStatus'[s] = "COMPLETED" => stopStatus[s] = "COMPLETED"
    BY <1>0, <1>5 DEF FailWrite, RetryWrite, WriteStop, TypeOK
  <2>2. \A d \in Calls : at'[d] = "finishing" => at[d] = "finishing" /\ target'[d] = target[d]
    BY <1>0, <1>5 DEF FailWrite, RetryWrite, WriteStop, End, TypeOK
  <2> QED
    BY <1>0, <1>1, <1>5, <2>1, <2>2, CheckoutKeeps DEF FailWrite, RetryWrite, WriteStop
<1>6. CASE ~CompleteTally(c) /\ ~CommitStop(c) /\ ~CommitOrder(c) /\ ~FailWrite(c) /\ ~RetryWrite(c)
  <2>1. UNCHANGED <<delivered, paid, earnings>> /\ order_status' \in {order_status, "CANCELLED"}
    BY <1>6, OnlyCommitsDeliver
  <2>2. UNCHANGED stopStatus
    BY <1>6 DEF CallStep, CompleteCheck, FailCheck, RetryCheck, SkipCheck, ProgressCheck, Begin,
       CompleteMark, SkipWrite, ProgressWrite, CancelCheck, CancelWrite, Lose, stopVars
  <2>3. ASSUME NEW d \in Calls, at'[d] = "finishing"
        PROVE  at[d] = "finishing" /\ target'[d] = target[d]
    BY <1>0, <1>6, <2>3
       DEF CallStep, CompleteCheck, FailCheck, RetryCheck, SkipCheck, ProgressCheck, Begin,
           CompleteMark, SkipWrite, ProgressWrite, CancelCheck, CancelWrite, Lose, Goto, End, TypeOK,
           Progress
  <2> QED
    BY <1>0, <1>1, <2>1, <2>2, <2>3, CheckoutKeeps
<1> QED
  BY <1>2, <1>3, <1>4, <1>5, <1>6

(* The sessions and the webhooks. *)
LEMMA HookStep ==
  ASSUME CheckoutInv, NEW w \in Webhooks, Hook(w)
  PROVE  CheckoutInv'
<1>0. /\ CheckoutTypeOK /\ CallsHaveStops /\ HooksHaveStops
      /\ TypeOK
  BY DEF CheckoutInv, CheckoutTypeOK
<1>1. CASE HookCommit(w)
  <2> DEFINE s == StopOf(w)
             last == hook[w] = "finishing"
  <2>1. s \in Cash /\ s \in Stops
    BY <1>0, <1>1 DEF HookCommit, HooksHaveStops, CheckoutTypeOK, StopOf
  <2>2. /\ paid' = paid \cup {s}
        /\ stopStatus' = [stopStatus EXCEPT ![s] = "COMPLETED"]
        /\ order_status' = IF last THEN "COMPLETED" ELSE order_status
        /\ booked' = [booked EXCEPT ![s] = @ + 1]
        /\ (last /\ earnings = 0) => "unpaid_rider" \in checkoutIncidents'
        /\ checkoutIncidents \subseteq checkoutIncidents' /\ checkoutIncidents' \subseteq CheckoutIncidents
        /\ UNCHANGED <<delivered, reached, skipped, earnings, at, target, payFor, settled, deliveries>>
    BY <1>0, <1>1 DEF HookCommit, When, CheckoutTypeOK, CheckoutIncidents
  <2>3. CheckoutTypeOK' /\ CallsHaveStops' /\ HooksHaveStops'
    BY <1>0, <1>1, <2>1, <2>2 DEF HookCommit, HookEnd, CheckoutTypeOK, TypeOK, StopStatus, CallsHaveStops,
       HooksHaveStops
  <2>4. CardBooked' = CardBooked \cup {s}
    BY <1>0, <2>1, <2>2 DEF CardBooked, CheckoutTypeOK
  <2>5. CompletedWasSettled' /\ FinishingSawSettled'
    BY <1>0, <2>1, <2>2, <2>4 DEF CheckoutInv, CompletedWasSettled, FinishingSawSettled, TypeOK
  <2>6. CardPaidDelivery'
    <3>1. \A t \in Stops : booked[t] > 0 => booked'[t] > 0
      BY <2>4 DEF CardBooked
    <3>2. earnings = 0 \/ earnings = 1
      BY <1>0 DEF CheckoutInv, CardPaidDelivery, TypeOK
    <3> QED
      BY <2>2, <3>1, <3>2 DEF CheckoutInv, CardPaidDelivery
  <2> QED
    BY <2>3, <2>5, <2>6 DEF CheckoutInv
<1>2. CASE ~HookCommit(w)
  <2>1. UNCHANGED <<vars, payFor, settled, booked, checkoutIncidents>>
    BY <1>2 DEF Hook, DeliverCheckout, HookMark, HookTally, HookFails
  <2>2. CheckoutTypeOK' /\ HooksHaveStops'
    BY <1>0, <1>2, <2>1, CheckoutAssumption DEF Hook, DeliverCheckout, HookMark, HookTally, HookFails, HookGoto, HookEnd,
       CheckoutTypeOK, TypeOK, HooksHaveStops, vars, stopVars
  <2> QED
    BY <1>0, <2>1, <2>2, CheckoutKeeps DEF vars, stopVars, CallsHaveStops
<1> QED
  BY <1>1, <1>2

LEMMA CheckoutStepInv == CheckoutInv /\ [CheckoutNext]_allVars => CheckoutInv'
<1> SUFFICES ASSUME CheckoutInv, [CheckoutNext]_allVars
             PROVE  CheckoutInv'
  OBVIOUS
<1>1. CASE UNCHANGED allVars
  BY <1>1 DEF allVars, vars, stopVars, checkoutVars, hookVars, CheckoutInv, CheckoutTypeOK, TypeOK,
     CallsHaveStops, HooksHaveStops, CompletedWasSettled, FinishingSawSettled, CardPaidDelivery, CardBooked
<1>2. ASSUME NEW c \in Calls, Lose(c), UNCHANGED checkoutVars
      PROVE  CheckoutInv'
  BY <1>2, CheckoutCallStep DEF CallStep
<1>3. ASSUME NEW x \in CheckoutSessions, PaySession(x) \/ \E s \in Stops : MakeSession(x, s)
      PROVE  CheckoutInv'
  <2>1. UNCHANGED <<vars, hookVars, booked, deliveries, checkoutIncidents>>
    BY <1>3 DEF PaySession, MakeSession
  <2>2. CheckoutTypeOK' /\ HooksHaveStops'
    BY <1>3, <2>1 DEF PaySession, MakeSession, CheckoutInv, CheckoutTypeOK, TypeOK, HooksHaveStops, vars,
       stopVars, hookVars
  <2> QED
    BY <2>1, <2>2, CheckoutKeeps DEF vars, stopVars, CheckoutInv, CallsHaveStops
<1> QED
  BY <1>1, <1>2, <1>3, CheckoutCallStep, HookStep DEF CheckoutNext

(* The rider is paid once at most, for stops that were delivered or paid by *)
(* card and with every amount collected, and an order is COMPLETED without  *)
(* his earnings only by a webhook, for any number of sessions, deliveries   *)
(* and calls.                                                              *)
THEOREM CardPaymentsPaidDelivery == CheckoutSpec => []CardPaidDelivery
<1>1. CheckoutInv => CardPaidDelivery
  BY DEF CheckoutInv
<1> QED
  BY <1>1, CheckoutInitInv, CheckoutStepInv, PTL DEF CheckoutSpec
=============================================================================
