---------------------------- MODULE ServicesProofs ----------------------------
(***************************************************************************)
(* Proofs about the services that MCServices checks together.  They share  *)
(* no state; each theorem is about the specification of one.               *)
(***************************************************************************)
EXTENDS Disputes, Rewards, RiderAccount, SignIn, Presence, Pushes, Notices, Chat,
  FiniteSetTheorems, WellFoundedInduction, TLAPS

-----------------------------------------------------------------------------
(* Proofs about Disputes, for every set of disputes, appeals, shares and   *)
(* calls.  The argument: a call that writes without looking again still    *)
(* carries what it checked, and the write compares the two in the incident *)
(* it leaves.  As long as there is no such incident, what was checked is   *)
(* true when it is used.                                                   *)

(* What the calls in flight have checked. *)
CallsChecked ==
  \A c \in DisputeCalls :
    /\ dStep[c] \in {"file", "appeal"} => dFound[c] = {}
    /\ dStep[c] \in {"resolve", "appeal"} => dOn[c] \in Disputes
    /\ dStep[c] \in {"pay", "reopen", "reject"} => dFound[c] = {"PENDING"}
    /\ dStep[c] \in {"resolve", "pay"} /\ share[c] > 0 => dSeen[c] >= share[c]
    /\ dStep[c] \in {"reopen", "reject"} => share[c] = 0

AppealsHaveDispute ==
  \A a \in Appeals : appeal[a] = "none" => against[a] = NoRow

(* OneActiveDispute without the cardinality. *)
ActiveAlone ==
  {"filed_twice", "beside"} \cap disputeIncidents = {}
  => \A d, e \in ActiveDisputes : d = e

(* A dispute that is still to be decided has no refund of its own. *)
RefundsExplained ==
  {"resolved_again", "reopened"} \cap disputeIncidents = {}
  => \A d \in Disputes :
       /\ refunds[d] <= 1 + accepted[d]
       /\ dispute[d] \in {"none"} \cup ActiveStatus => refunds[d] <= accepted[d]

(* The accepted appeal of a dispute is its only one. *)
AcceptedOnce(d) ==
  /\ \A a, b \in Appeals : against[a] = d /\ against[b] = d => a = b
  /\ accepted[d] <= 1
  /\ accepted[d] > 0 => \E a \in Appeals : against[a] = d /\ appeal[a] = "ACCEPTED"

AppealsExplained ==
  {"filed_twice", "decided_twice"} \cap disputeIncidents = {}
  => \A d \in Disputes :
       (\A a \in Appeals : against[a] = d => appeal[a] # "deleted") => AcceptedOnce(d)

DisputesInv ==
  /\ DisputesTypeOK
  /\ CallsChecked
  /\ AppealsHaveDispute
  /\ ActiveAlone
  /\ RefundsExplained
  /\ AppealsExplained
  /\ RiderOverdrawnByRace

-----------------------------------------------------------------------------
LEMMA DisputesInitInv == DisputesInit => DisputesInv
<1> SUFFICES ASSUME DisputesInit PROVE DisputesInv
  OBVIOUS
<1> USE DisputesAssumption DEF DisputesInit
<1>1. DisputesTypeOK
  BY DEF DisputesTypeOK, ActiveStatus, DisputeIncidents
<1>2. AppealsExplained
  BY DEF AppealsExplained, AcceptedOnce
<1> QED
  BY <1>1, <1>2 DEF DisputesInv, CallsChecked, AppealsHaveDispute, ActiveAlone, ActiveDisputes,
     ActiveStatus, RefundsExplained, RiderOverdrawnByRace

(* A call that only asks, answers or fails leaves the rows as they are. *)
LEMMA RowsUnchanged ==
  ASSUME DisputesInv, UNCHANGED <<disputeRowVars, disputeMoneyVars, disputeIncidents>>
  PROVE  /\ AppealsHaveDispute' /\ ActiveAlone' /\ RefundsExplained' /\ AppealsExplained'
         /\ RiderOverdrawnByRace'
BY DEF DisputesInv, disputeRowVars, disputeMoneyVars, AppealsHaveDispute, ActiveAlone,
   ActiveDisputes, RefundsExplained, AppealsExplained, AcceptedOnce, RiderOverdrawnByRace

LEMMA AnswerStep ==
  ASSUME DisputesInv, NEW c \in DisputeCalls, Answer(c)
  PROVE  /\ CallsChecked'
         /\ dStep' \in [DisputeCalls -> {"idle", "file", "resolve", "appeal", "pay", "reopen", "reject"}]
         /\ dOn' \in [DisputeCalls -> Disputes \cup Appeals \cup {NoRow}]
         /\ share' \in [DisputeCalls -> 0 .. Refund]
         /\ dSeen' \in [DisputeCalls -> Int]
         /\ dFound' \in [DisputeCalls -> SUBSET (Disputes \cup Appeals \cup {"PENDING", "ACCEPTED", "REJECTED"})]
<1>1. 0 \in 0 .. Refund
  BY DisputesAssumption
<1> QED
  BY <1>1 DEF DisputesInv, DisputesTypeOK, CallsChecked, Answer

LEMMA AskStep ==
  ASSUME DisputesInv, NEW c \in DisputeCalls, NEW row \in Disputes \cup Appeals \cup {NoRow},
         NEW s \in 0 .. Refund, NEW f,
         NEW step \in {"file", "resolve", "appeal", "pay", "reopen", "reject"},
         Ask(c, step, row, s, f),
         decided' \in 0 .. MaxDecided,
         f \in {{}, {"PENDING"}},
         step \in {"file", "appeal"} => f = {},
         step \in {"resolve", "appeal"} => row \in Disputes,
         step \in {"pay", "reopen", "reject"} => f = {"PENDING"},
         s > 0 => riderBalance >= s,
         step \in {"reopen", "reject"} => s = 0
  PROVE  DisputesInv'
<1>1. DisputesTypeOK'
  BY DEF DisputesInv, DisputesTypeOK, Ask, disputeRowVars, disputeMoneyVars
<1>2. CallsChecked'
  BY DEF DisputesInv, DisputesTypeOK, CallsChecked, Ask
<1> QED
  BY <1>1, <1>2, RowsUnchanged DEF Ask, DisputesInv

LEMMA RequestStep ==
  ASSUME DisputesInv, NEW c \in DisputeCalls, DisputeRequest(c)
  PROVE  DisputesInv'
<1>0. 0 \in 0 .. Refund /\ Shares \subseteq 0 .. Refund /\ decided \in 0 .. MaxDecided
  BY DisputesAssumption DEF DisputesInv, DisputesTypeOK
<1>1. CASE FileCheck(c)
  <2>1. Ask(c, "file", NoRow, 0, {}) /\ decided' = decided
    BY <1>1 DEF FileCheck
  <2> QED
    BY <1>0, <2>1, AskStep
<1>2. ASSUME NEW d \in Disputes, AppealCheck(c, d)
      PROVE  DisputesInv'
  <2>1. Ask(c, "appeal", d, 0, {}) /\ decided' = decided
    BY <1>2 DEF AppealCheck
  <2> QED
    BY <1>0, <2>1, AskStep
<1>3. ASSUME NEW d \in Disputes, NEW s \in Shares, ResolveCheck(c, d, s)
      PROVE  DisputesInv'
  <2>1. decided' \in 0 .. MaxDecided
    BY <1>0, <1>3, DisputesAssumption DEF ResolveCheck
  <2>2. Ask(c, "resolve", d, s, {}) /\ riderBalance >= s
    BY <1>3 DEF ResolveCheck
  <2> QED
    BY <1>0, <2>1, <2>2, AskStep
<1>4. ASSUME NEW a \in Appeals, NEW what \in {"pay", "reopen", "reject"}, NEW s \in Shares,
             DecideCheck(c, a, what, s)
      PROVE  DisputesInv'
  <2>1. decided' \in 0 .. MaxDecided
    BY <1>0, <1>4, DisputesAssumption DEF DecideCheck
  <2>2. Ask(c, what, a, s, {"PENDING"}) /\ (s > 0 => what = "pay" /\ riderBalance >= s)
    BY <1>4 DEF DecideCheck
  <2>3. s \in 0 .. Refund /\ (s > 0 \/ s = 0)
    BY <1>0, DisputesAssumption
  <2> QED
    BY <2>1, <2>2, <2>3, AskStep
<1> QED
  BY <1>1, <1>2, <1>3, <1>4 DEF DisputeRequest

-----------------------------------------------------------------------------
LEMMA FileStep ==
  ASSUME DisputesInv, NEW c \in DisputeCalls, NEW d \in Disputes, File(c, d)
  PROVE  DisputesInv'
<1> USE DEF File, disputeMoneyVars
<1>1. DisputesTypeOK' /\ CallsChecked'
  BY AnswerStep DEF DisputesInv, DisputesTypeOK, When, ActiveStatus, DisputeIncidents
<1>2. ActiveAlone'
  <2> SUFFICES ASSUME "filed_twice" \notin disputeIncidents'
               PROVE  \A e \in ActiveDisputes' : e = d
    BY DEF ActiveAlone
  <2>1. ActiveDisputes = {}
    BY DEF DisputesInv, CallsChecked, When
  <2> QED
    BY <2>1 DEF DisputesInv, DisputesTypeOK, ActiveDisputes
<1>3. RefundsExplained'
  BY DEF DisputesInv, DisputesTypeOK, RefundsExplained, ActiveStatus, When
<1>4. AppealsExplained' /\ AppealsHaveDispute' /\ RiderOverdrawnByRace'
  BY DEF DisputesInv, AppealsExplained, AcceptedOnce, AppealsHaveDispute, RiderOverdrawnByRace, When
<1> QED
  BY <1>1, <1>2, <1>3, <1>4 DEF DisputesInv

LEMMA ResolveStep ==
  ASSUME DisputesInv, NEW c \in DisputeCalls, Resolve(c)
  PROVE  DisputesInv'
<1>0. PICK d \in Disputes : d = dOn[c]
  BY DEF DisputesInv, CallsChecked, Resolve
<1>1. share[c] \in 0 .. Refund /\ dSeen[c] \in Int /\ riderBalance \in Int /\ Refund \in Nat
  BY DisputesAssumption DEF DisputesInv, DisputesTypeOK
<1> USE <1>0 DEF Resolve, Settle
<1>2. DisputesTypeOK' /\ CallsChecked'
  <2>1. riderBalance' \in Int /\ refunds' \in [Disputes -> Nat]
    BY <1>1 DEF DisputesInv, DisputesTypeOK
  <2>2. disputeIncidents' \subseteq DisputeIncidents
    BY DEF DisputesInv, DisputesTypeOK, StaleShare, When, DisputeIncidents
  <2>3. dispute' \in [Disputes -> {"none", "deleted", "RESOLVED"} \cup ActiveStatus]
    BY DEF DisputesInv, DisputesTypeOK
  <2> QED
    BY <2>1, <2>2, <2>3, AnswerStep DEF DisputesInv, DisputesTypeOK
<1>3. ActiveAlone'
  BY DEF DisputesInv, DisputesTypeOK, ActiveAlone, ActiveDisputes, ActiveStatus
<1>4. RefundsExplained'
  <2> SUFFICES ASSUME {"resolved_again", "reopened"} \cap disputeIncidents' = {}, NEW e \in Disputes
               PROVE  /\ refunds'[e] <= 1 + accepted'[e]
                      /\ dispute'[e] \in {"none"} \cup ActiveStatus => refunds'[e] <= accepted'[e]
    BY DEF RefundsExplained
  <2>1. /\ refunds[e] \in Nat /\ accepted[e] \in Nat /\ accepted' = accepted
        /\ refunds[e] <= 1 + accepted[e]
        /\ dispute[e] \in {"none"} \cup ActiveStatus => refunds[e] <= accepted[e]
    BY DEF DisputesInv, DisputesTypeOK, RefundsExplained
  <2>2. CASE e = d
    <3>1. dispute[e] \in ActiveStatus
      BY <2>2 DEF When
    <3>2. dispute'[e] = "RESOLVED" /\ refunds'[e] = refunds[e] + 1
      BY <2>2 DEF DisputesInv, DisputesTypeOK
    <3> QED
      BY <2>1, <3>1, <3>2 DEF ActiveStatus
  <2>3. CASE e # d
    <3>1. dispute'[e] = dispute[e] /\ refunds'[e] = refunds[e]
      BY <2>3 DEF DisputesInv, DisputesTypeOK
    <3> QED
      BY <2>1, <3>1
  <2> QED
    BY <2>2, <2>3
<1>5. AppealsExplained' /\ AppealsHaveDispute'
  BY DEF DisputesInv, AppealsExplained, AcceptedOnce, AppealsHaveDispute
<1>6. RiderOverdrawnByRace'
  <2>1. CASE share[c] = 0
    BY <1>1, <2>1 DEF DisputesInv, RiderOverdrawnByRace
  <2>2. CASE share[c] > 0
    BY <1>1, <2>2 DEF DisputesInv, CallsChecked, RiderOverdrawnByRace, StaleShare, When
  <2> QED
    BY <1>1, <2>1, <2>2
<1> QED
  BY <1>2, <1>3, <1>4, <1>5, <1>6 DEF DisputesInv

LEMMA AppealStep ==
  ASSUME DisputesInv, NEW c \in DisputeCalls, NEW a \in Appeals, Appeal(c, a)
  PROVE  DisputesInv'
<1>0. PICK d \in Disputes : d = dOn[c]
  BY DEF DisputesInv, CallsChecked, Appeal
<1> USE <1>0 DEF Appeal, disputeMoneyVars
<1>1. DisputesTypeOK' /\ CallsChecked'
  BY AnswerStep DEF DisputesInv, DisputesTypeOK, When, DisputeIncidents
<1>2. ActiveAlone' /\ RefundsExplained' /\ RiderOverdrawnByRace'
  BY DEF DisputesInv, ActiveAlone, ActiveDisputes, RefundsExplained, RiderOverdrawnByRace, When
<1>3. AppealsHaveDispute'
  BY DEF DisputesInv, DisputesTypeOK, AppealsHaveDispute
<1>4. AppealsExplained'
  <2> SUFFICES ASSUME {"filed_twice", "decided_twice"} \cap disputeIncidents' = {},
                      NEW e \in Disputes,
                      \A b \in Appeals : against'[b] = e => appeal'[b] # "deleted"
               PROVE  AcceptedOnce(e)'
    BY DEF AppealsExplained
  <2>1. AppealsOf(d) = {}
    BY DEF DisputesInv, CallsChecked, When
  <2>2. \A b \in Appeals : b # a => against'[b] = against[b] /\ appeal'[b] = appeal[b]
    BY DEF DisputesInv, DisputesTypeOK
  <2>3. against'[a] = d /\ against[a] = NoRow /\ d # NoRow /\ e # NoRow
    BY DisputesAssumption DEF DisputesInv, DisputesTypeOK, AppealsHaveDispute
  <2>4. AcceptedOnce(e)
    BY <2>2, <2>3 DEF DisputesInv, AppealsExplained, When
  <2>5. CASE e = d
    <3>1. \A b \in Appeals : against[b] # d
      BY <2>1, <2>2, <2>3, <2>5, DisputesAssumption DEF DisputesInv, AppealsOf, AppealsHaveDispute
    <3> QED
      BY <2>2, <2>3, <2>4, <2>5, <3>1 DEF AcceptedOnce
  <2>6. CASE e # d
    BY <2>2, <2>3, <2>4, <2>6 DEF AcceptedOnce
  <2> QED
    BY <2>5, <2>6
<1> QED
  BY <1>1, <1>2, <1>3, <1>4 DEF DisputesInv

LEMMA CountsUp ==
  ASSUME NEW f \in [Disputes -> Nat], NEW e
  PROVE  [f EXCEPT ![e] = @ + 1] \in [Disputes -> Nat]
<1>1. CASE e \in Disputes
  BY <1>1
<1>2. CASE e \notin Disputes
  <2>1. [f EXCEPT ![e] = @ + 1] = f
    BY <1>2
  <2> QED
    BY <2>1
<1> QED
  BY <1>1, <1>2

LEMMA DecideStep ==
  ASSUME DisputesInv, NEW c \in DisputeCalls, Decide(c)
  PROVE  DisputesInv'
<1>0. PICK a \in Appeals : a = dOn[c] /\ appeal[a] \notin {"none", "deleted"}
  BY DEF Decide, AppealsOf
<1> DEFINE d == against[a]
<1>1. d \in Disputes \cup {NoRow}
  BY DEF DisputesInv, DisputesTypeOK
<1>2. share[c] \in 0 .. Refund /\ dSeen[c] \in Int /\ riderBalance \in Int /\ Refund \in Nat
  BY DisputesAssumption DEF DisputesInv, DisputesTypeOK
<1>3. /\ dispute' \in [Disputes -> {"none", "deleted", "RESOLVED"} \cup ActiveStatus]
      /\ \A e \in Disputes : e # d => dispute'[e] = dispute[e]
      /\ d \in Disputes => dispute'[d] = CASE dStep[c] = "pay" -> "RESOLVED"
                                           [] dStep[c] = "reopen" -> "UNDER_REVIEW"
                                           [] OTHER -> dispute[d]
  BY <1>0 DEF DisputesInv, DisputesTypeOK, Decide, ActiveStatus
<1>4. /\ appeal' \in [Appeals -> {"none", "deleted", "PENDING", "ACCEPTED", "REJECTED"}]
      /\ \A b \in Appeals : b # a => appeal'[b] = appeal[b]
      /\ appeal'[a] = IF dStep[c] = "reject" THEN "REJECTED" ELSE "ACCEPTED"
  BY <1>0 DEF DisputesInv, DisputesTypeOK, Decide
<1>5. CASE dStep[c] = "pay"
  <2>1. /\ refunds' = [refunds EXCEPT ![d] = @ + 1]
        /\ accepted' = [accepted EXCEPT ![d] = @ + 1]
        /\ riderBalance' = riderBalance - share[c]
    BY <1>0, <1>5 DEF Decide, Settle
  <2>2. refunds' \in [Disputes -> Nat] /\ accepted' \in [Disputes -> Nat] /\ riderBalance' \in Int
    <3>1. refunds \in [Disputes -> Nat] /\ accepted \in [Disputes -> Nat]
      BY DEF DisputesInv, DisputesTypeOK
    <3> QED
      BY <1>2, <2>1, <3>1, CountsUp
  <2>3. DisputesTypeOK' /\ CallsChecked'
    BY <1>3, <1>4, <2>2, AnswerStep DEF DisputesInv, DisputesTypeOK, Decide, StaleShare, When, DisputeIncidents
  <2>4. ActiveAlone'
    BY <1>1, <1>3, <1>5 DEF DisputesInv, ActiveAlone, ActiveDisputes, ActiveStatus, Decide
  <2>5. RefundsExplained'
    BY <1>1, <1>3, <1>5, <2>1 DEF DisputesInv, DisputesTypeOK, RefundsExplained, ActiveStatus, Decide
  <2>6. RiderOverdrawnByRace'
    <3>1. CASE share[c] = 0
      BY <1>2, <2>1, <3>1 DEF DisputesInv, RiderOverdrawnByRace, Decide
    <3>2. CASE share[c] > 0
      BY <1>2, <1>5, <2>1, <3>2 DEF DisputesInv, CallsChecked, RiderOverdrawnByRace, StaleShare, When, Decide
    <3> QED
      BY <1>2, <3>1, <3>2
  <2>7. AppealsExplained'
    <3> SUFFICES ASSUME {"filed_twice", "decided_twice"} \cap disputeIncidents' = {},
                        NEW e \in Disputes,
                        \A b \in Appeals : against'[b] = e => appeal'[b] # "deleted"
                 PROVE  AcceptedOnce(e)'
      BY DEF AppealsExplained
    <3>1. UNCHANGED against /\ appeal[a] = "PENDING"
      BY <1>0, <1>5 DEF DisputesInv, CallsChecked, When, Decide
    <3>2. AcceptedOnce(e)
      BY <1>0, <1>4, <3>1 DEF DisputesInv, AppealsExplained, Decide
    <3>3. CASE e # d
      BY <1>4, <2>1, <3>1, <3>2, <3>3 DEF DisputesInv, DisputesTypeOK, AcceptedOnce
    <3>4. CASE e = d
      <4>1. accepted[d] = 0
        BY <3>1, <3>2, <3>4 DEF DisputesInv, DisputesTypeOK, AcceptedOnce
      <4>2. accepted'[d] = 1 /\ appeal'[a] = "ACCEPTED"
        BY <1>4, <1>5, <2>1, <3>4, <4>1 DEF DisputesInv, DisputesTypeOK
      <4> QED
        BY <3>1, <3>2, <3>4, <4>2 DEF AcceptedOnce
    <3> QED
      BY <3>3, <3>4
  <2>8. AppealsHaveDispute'
    BY <1>0, <1>4, <1>5 DEF DisputesInv, AppealsHaveDispute, Decide
  <2> QED
    BY <2>3, <2>4, <2>5, <2>6, <2>7, <2>8 DEF DisputesInv
<1>6. CASE dStep[c] \in {"reopen", "reject"}
  <2>1. UNCHANGED <<refunds, accepted, riderBalance, against>>
    BY <1>6 DEF Decide, disputeMoneyVars
  <2>2. disputeIncidents \subseteq disputeIncidents'
    BY DEF Decide
  <2>3. DisputesTypeOK' /\ CallsChecked'
    BY <1>3, <1>4, <2>1, AnswerStep DEF DisputesInv, DisputesTypeOK, Decide, StaleShare, When, DisputeIncidents
  <2>4. ActiveAlone'
    <3>1. CASE dStep[c] = "reopen"
      BY <1>0, <1>1, <1>3, <3>1 DEF DisputesInv, ActiveAlone, ActiveDisputes, ActiveStatus, Decide, When
    <3>2. CASE dStep[c] = "reject"
      BY <1>1, <1>3, <2>2, <3>2 DEF DisputesInv, ActiveAlone, ActiveDisputes, ActiveStatus
    <3> QED
      BY <1>6, <3>1, <3>2
  <2>5. RefundsExplained'
    <3>1. CASE dStep[c] = "reopen"
      BY <3>1 DEF RefundsExplained, Decide, When
    <3>2. CASE dStep[c] = "reject"
      BY <1>1, <1>3, <2>1, <2>2, <3>2 DEF DisputesInv, RefundsExplained
    <3> QED
      BY <1>6, <3>1, <3>2
  <2>6. RiderOverdrawnByRace'
    BY <2>1, <2>2 DEF DisputesInv, RiderOverdrawnByRace
  <2>7. AppealsExplained'
    <3> SUFFICES ASSUME {"filed_twice", "decided_twice"} \cap disputeIncidents' = {},
                        NEW e \in Disputes,
                        \A b \in Appeals : against'[b] = e => appeal'[b] # "deleted"
                 PROVE  AcceptedOnce(e)'
      BY DEF AppealsExplained
    <3>1. appeal[a] = "PENDING"
      BY <1>0, <1>6 DEF DisputesInv, CallsChecked, When, Decide
    <3>2. AcceptedOnce(e)
      BY <1>4, <2>1, <2>2, <3>1 DEF DisputesInv, AppealsExplained
    <3> QED
      BY <1>4, <2>1, <3>1, <3>2 DEF AcceptedOnce
  <2>8. AppealsHaveDispute'
    BY <1>0, <1>4, <2>1 DEF DisputesInv, AppealsHaveDispute
  <2> QED
    BY <2>3, <2>4, <2>5, <2>6, <2>7, <2>8 DEF DisputesInv
<1> QED
  BY <1>5, <1>6 DEF Decide

LEMMA DeleteStep ==
  ASSUME DisputesInv, NEW d \in Disputes, Delete(d)
  PROVE  DisputesInv'
<1> USE DEF Delete, disputeMoneyVars, disputeCallVars
<1>1. DisputesTypeOK' /\ CallsChecked'
  BY DEF DisputesInv, DisputesTypeOK, CallsChecked
<1>2. ActiveAlone' /\ RefundsExplained'
  BY DEF DisputesInv, DisputesTypeOK, ActiveAlone, ActiveDisputes, ActiveStatus, RefundsExplained
<1>3. AppealsHaveDispute' /\ RiderOverdrawnByRace'
  BY DEF DisputesInv, AppealsHaveDispute, RiderOverdrawnByRace
<1>4. AppealsExplained'
  BY DEF DisputesInv, AppealsExplained, AcceptedOnce, AppealsOf
<1> QED
  BY <1>1, <1>2, <1>3, <1>4 DEF DisputesInv

LEMMA DeleteAppealStep ==
  ASSUME DisputesInv, NEW a \in Appeals, DeleteAppeal(a)
  PROVE  DisputesInv'
<1> USE DEF DeleteAppeal, disputeMoneyVars, disputeCallVars
<1>1. DisputesTypeOK' /\ CallsChecked'
  BY DEF DisputesInv, DisputesTypeOK, CallsChecked
<1>2. ActiveAlone' /\ RefundsExplained' /\ RiderOverdrawnByRace'
  BY DEF DisputesInv, ActiveAlone, ActiveDisputes, RefundsExplained, RiderOverdrawnByRace
<1>3. AppealsHaveDispute'
  BY DEF DisputesInv, DisputesTypeOK, AppealsHaveDispute
<1>4. AppealsExplained'
  BY DEF DisputesInv, DisputesTypeOK, AppealsExplained, AcceptedOnce
<1> QED
  BY <1>1, <1>2, <1>3, <1>4 DEF DisputesInv

LEMMA DisputesStepInv == DisputesInv /\ [DisputesNext]_disputeVars => DisputesInv'
<1> SUFFICES ASSUME DisputesInv, [DisputesNext]_disputeVars
             PROVE  DisputesInv'
  OBVIOUS
<1>1. CASE UNCHANGED disputeVars
  <2>1. DisputesTypeOK' /\ CallsChecked'
    BY <1>1 DEF disputeVars, disputeRowVars, disputeMoneyVars, disputeCallVars, DisputesInv, DisputesTypeOK,
       CallsChecked
  <2> QED
    BY <1>1, <2>1, RowsUnchanged DEF DisputesInv, disputeVars
<1>2. ASSUME NEW c \in DisputeCalls, DisputeRequest(c) \/ DisputeWrite(c)
      PROVE  DisputesInv'
  <2>1. ASSUME AskFails(c)
        PROVE  DisputesInv'
    <3>1. DisputesTypeOK' /\ CallsChecked'
      BY <2>1, AnswerStep DEF AskFails, disputeRowVars, disputeMoneyVars, DisputesInv, DisputesTypeOK
    <3> QED
      BY <2>1, <3>1, RowsUnchanged DEF DisputesInv, AskFails
  <2> QED
    BY <1>2, <2>1, RequestStep, FileStep, ResolveStep, AppealStep, DecideStep DEF DisputeWrite
<1>3. ASSUME NEW d \in Disputes, CloseCase(d)
      PROVE  DisputesInv'
  BY <1>3 DEF CloseCase, disputeMoneyVars, disputeCallVars, DisputesInv, DisputesTypeOK, CallsChecked,
     AppealsHaveDispute, ActiveAlone, ActiveDisputes, RefundsExplained, AppealsExplained, AcceptedOnce,
     RiderOverdrawnByRace
<1> QED
  BY <1>1, <1>2, <1>3, DeleteStep, DeleteAppealStep DEF DisputesNext

(* The inductive invariant of disputes and appeals. *)
THEOREM DisputesInvariant == DisputesSpec => []DisputesInv
BY DisputesInitInv, DisputesStepInv, PTL DEF DisputesSpec

(* An order has one active dispute at most, unless two were filed at once    *)
(* or an accepted appeal put one under review beside another.                *)
THEOREM OneActive == DisputesSpec => []OneActiveDispute
<1>1. DisputesInv => OneActiveDispute
  <2> SUFFICES ASSUME DisputesInv, {"filed_twice", "beside"} \cap disputeIncidents = {}
               PROVE  Cardinality(ActiveDisputes) <= 1
    BY DEF OneActiveDispute
  <2>1. CASE ActiveDisputes = {}
    BY <2>1, FS_EmptySet
  <2>2. ASSUME NEW d \in ActiveDisputes
        PROVE  Cardinality(ActiveDisputes) <= 1
    <3>1. ActiveDisputes = {d}
      BY <2>2 DEF DisputesInv, ActiveAlone
    <3> QED
      BY <3>1, FS_Singleton
  <2> QED
    BY <2>1, <2>2
<1> QED
  BY <1>1, DisputesInvariant, PTL

(* Every refund has its decision, and an appeal is decided once, unless      *)
(* requests overlap or resolve is called for a dispute that is not active.   *)
THEOREM RefundsDecided == DisputesSpec => []RefundPerDecision
<1>1. DisputesInv => RefundPerDecision
  BY DEF DisputesInv, RefundsExplained, AppealsExplained, AcceptedOnce, RefundPerDecision
<1> QED
  BY <1>1, DisputesInvariant, PTL

(* Decisions overdraw the rider only when his share is taken after a check   *)
(* on an older balance.                                                      *)
THEOREM RiderOverdrawnOnlyByRace == DisputesSpec => []RiderOverdrawnByRace
BY DisputesInvariant, PTL DEF DisputesInv

-----------------------------------------------------------------------------
(* Proofs about Rewards, for every number of calls, requests and days.     *)
(* The row that keeps a second login of the day from being rewarded is     *)
(* written after the credit, perhaps on a later day.  The argument: until  *)
(* it is written the call that will write it is in flight, and a login     *)
(* that looks meanwhile leaves an incident; and no day that is still to    *)
(* come has been credited.                                                 *)

LoggingIn(c) == rStep[c] \in {"credit", "row"} /\ rEvent[c] = "DAILY_LOGIN"

CallsDated ==
  \A c \in RewardCalls :
    rStep[c] \in {"credit", "row"} => rDay[c] \in Days /\ rDay[c] <= day /\ rEvent[c] \in Events

FutureUncredited ==
  \A d \in Days : d > day => credited["DAILY_LOGIN"][d] = 0

(* Without incidents, one login is rewarded at a time, it has not been      *)
(* credited before, and today's credit is followed by its row.             *)
OneLogin == \A c, e \in RewardCalls : LoggingIn(c) /\ LoggingIn(e) => c = e
NotYetCredited ==
  \A c \in RewardCalls :
    LoggingIn(c) /\ rStep[c] = "credit" => credited["DAILY_LOGIN"][rDay[c]] = 0
CreditedOnce == \A d \in Days : credited["DAILY_LOGIN"][d] <= 1
TodayRecorded ==
  credited["DAILY_LOGIN"][day] > 0 =>
    \/ \E r \in rows : r.day = day /\ r.trigger = "DAILY_LOGIN"
    \/ \E c \in RewardCalls : LoggingIn(c) /\ rStep[c] = "row"

LoginsInOrder == OneLogin /\ NotYetCredited /\ CreditedOnce /\ TodayRecorded

Undisturbed == {"at_once", "unrecorded"} \cap rewardIncidents = {}

RewardsInv ==
  /\ RewardsTypeOK
  /\ CallsDated
  /\ FutureUncredited
  /\ Undisturbed => LoginsInOrder

-----------------------------------------------------------------------------
LEMMA RewardsInitInv == RewardsInit => RewardsInv
<1> SUFFICES ASSUME RewardsInit PROVE RewardsInv
  OBVIOUS
<1> USE RewardsAssumption DEF RewardsInit, Events, Days
<1>1. RewardsTypeOK
  BY DEF RewardsTypeOK, RewardIncidents
<1>2. CallsDated /\ FutureUncredited
  BY DEF CallsDated, FutureUncredited
<1>3. LoginsInOrder
  BY DEF LoginsInOrder, OneLogin, NotYetCredited, CreditedOnce, TodayRecorded, LoggingIn
<1> QED
  BY <1>1, <1>2, <1>3 DEF RewardsInv

LEMMA DaysAreNumbers == Days \subseteq Nat /\ 0 \in 0 .. MaxDays /\ Days \subseteq 0 .. MaxDays
BY RewardsAssumption DEF Days

-----------------------------------------------------------------------------
(* Types *)

LEMMA StartTypes ==
  ASSUME RewardsInv, NEW c \in RewardCalls, NEW a \in Nat, NEW e \in Events \cup {"none"},
         NEW step \in {"credit", "redeem", "collect"}, StartReward(c, step, e, a),
         rewardIncidents' \subseteq RewardIncidents
  PROVE  RewardsTypeOK'
<1>1. asked' \in 0 .. MaxAsked
  BY RewardsAssumption DEF RewardsInv, RewardsTypeOK, StartReward, Asked
<1> QED
  BY <1>1, DaysAreNumbers DEF RewardsInv, RewardsTypeOK, StartReward

LEMMA EndTypes ==
  ASSUME RewardsInv, NEW c \in RewardCalls, EndReward(c)
  PROVE  /\ rStep' \in [RewardCalls -> {"idle", "credit", "row", "redeem", "collect", "collected"}]
         /\ rDay' \in [RewardCalls -> 0 .. MaxDays]
         /\ rEvent' \in [RewardCalls -> Events \cup {"none"}]
         /\ rAmount' \in [RewardCalls -> Nat]
         /\ rSeen' \in [RewardCalls -> Int]
BY DaysAreNumbers DEF RewardsInv, RewardsTypeOK, EndReward

(* A step that leaves the logins, their rows and their credits alone. *)
LEMMA LoginsUnchanged ==
  ASSUME RewardsInv, RewardsTypeOK', CallsDated',
         UNCHANGED <<rows, credited, day>>,
         rewardIncidents \subseteq rewardIncidents',
         \A c \in RewardCalls : LoggingIn(c)' => LoggingIn(c) /\ UNCHANGED <<rStep[c], rDay[c]>>,
         Undisturbed' => \A c \in RewardCalls : LoggingIn(c) /\ rStep[c] = "row" => LoggingIn(c)' /\ rStep'[c] = "row"
  PROVE  RewardsInv'
<1>1. FutureUncredited'
  BY DEF RewardsInv, FutureUncredited
<1>2. ASSUME Undisturbed'
      PROVE  LoginsInOrder'
  <2>1. LoginsInOrder
    BY <1>2 DEF RewardsInv, Undisturbed
  <2>2. OneLogin' /\ CreditedOnce' /\ NotYetCredited'
    BY <2>1 DEF LoginsInOrder, OneLogin, CreditedOnce, NotYetCredited
  <2>3. TodayRecorded'
    BY <1>2, <2>1 DEF LoginsInOrder, TodayRecorded
  <2> QED
    BY <2>2, <2>3 DEF LoginsInOrder
<1> QED
  BY <1>1, <1>2 DEF RewardsInv

(* A request that is not a login, and the end of a call that is none. *)
LEMMA OtherStart ==
  ASSUME RewardsInv, NEW c \in RewardCalls, NEW a \in Nat, NEW e \in Events \cup {"none"},
         NEW step \in {"credit", "redeem", "collect"}, StartReward(c, step, e, a),
         step = "credit" => e = "SHARE_ON_SOCIAL",
         rewardIncidents' \subseteq RewardIncidents, rewardIncidents \subseteq rewardIncidents'
  PROVE  RewardsInv'
<1>1. RewardsTypeOK'
  BY StartTypes
<1>2. CallsDated'
  BY DaysAreNumbers DEF RewardsInv, RewardsTypeOK, CallsDated, StartReward, Events
<1>3. /\ \A d \in RewardCalls : LoggingIn(d)' => LoggingIn(d) /\ UNCHANGED <<rStep[d], rDay[d]>>
      /\ \A d \in RewardCalls : LoggingIn(d) /\ rStep[d] = "row" => LoggingIn(d)' /\ rStep'[d] = "row"
  BY DEF RewardsInv, RewardsTypeOK, StartReward, LoggingIn
<1> QED
  BY <1>1, <1>2, <1>3, LoginsUnchanged DEF StartReward

LEMMA OtherEnd ==
  ASSUME RewardsInv, NEW c \in RewardCalls, EndReward(c), RewardsTypeOK',
         LoggingIn(c) /\ rStep[c] = "row" => ~Undisturbed',
         UNCHANGED <<rows, credited, day>>, rewardIncidents \subseteq rewardIncidents'
  PROVE  RewardsInv'
<1>1. CallsDated'
  BY DEF RewardsInv, RewardsTypeOK, CallsDated, EndReward
<1>2. /\ \A d \in RewardCalls : LoggingIn(d)' => LoggingIn(d) /\ UNCHANGED <<rStep[d], rDay[d]>>
      /\ Undisturbed' => \A d \in RewardCalls : LoggingIn(d) /\ rStep[d] = "row" => LoggingIn(d)' /\ rStep'[d] = "row"
  BY DEF RewardsInv, RewardsTypeOK, EndReward, LoggingIn
<1> QED
  BY <1>1, <1>2, LoginsUnchanged

-----------------------------------------------------------------------------
(* The steps of a login *)

LEMMA LoginStep ==
  ASSUME RewardsInv, NEW c \in RewardCalls, Login(c)
  PROVE  RewardsInv'
<1>0. /\ StartReward(c, "credit", "DAILY_LOGIN", 1) /\ "DAILY_LOGIN" \in Events
      /\ rewardIncidents' \subseteq RewardIncidents /\ rewardIncidents \subseteq rewardIncidents'
  BY DEF Login, When, RewardIncidents, RewardsInv, RewardsTypeOK, Events
<1>1. RewardsTypeOK'
  BY <1>0, StartTypes
<1>2. CallsDated' /\ FutureUncredited'
  BY <1>0, DaysAreNumbers DEF RewardsInv, RewardsTypeOK, CallsDated, FutureUncredited, StartReward
<1>3. ASSUME Undisturbed'
      PROVE  LoginsInOrder'
  <2>1. LoginsInOrder /\ ~\E d \in RewardCalls : LoggingIn(d)
    BY <1>0, <1>3 DEF RewardsInv, Undisturbed, Login, InFlight, When, LoggingIn
  <2>2. credited["DAILY_LOGIN"][day] = 0
    <3>1. credited["DAILY_LOGIN"][day] \in Nat
      BY <1>0 DEF RewardsInv, RewardsTypeOK
    <3> QED
      BY <2>1, <3>1 DEF Login, LoginsInOrder, TodayRecorded
  <2>3. \A d \in RewardCalls : d # c => ~LoggingIn(d)'
    BY <1>0, <2>1 DEF RewardsInv, RewardsTypeOK, StartReward, LoggingIn
  <2>4. rDay'[c] = day /\ UNCHANGED <<rows, credited, day>>
    BY <1>0 DEF RewardsInv, RewardsTypeOK, StartReward
  <2> QED
    BY <2>1, <2>2, <2>3, <2>4 DEF LoginsInOrder, OneLogin, NotYetCredited, CreditedOnce, TodayRecorded
<1> QED
  BY <1>1, <1>2, <1>3 DEF RewardsInv

LEMMA CreditStep ==
  ASSUME RewardsInv, NEW c \in RewardCalls, EarnCredit(c)
  PROVE  RewardsInv'
<1>0. rEvent[c] \in Events /\ rDay[c] \in Days /\ rDay[c] <= day /\ day \in Days /\ Days \subseteq Nat
  BY DaysAreNumbers DEF RewardsInv, RewardsTypeOK, CallsDated, EarnCredit
<1>1. /\ credited' \in [Events -> [Days -> Nat]]
      /\ \A d \in Days : credited'["DAILY_LOGIN"][d] =
           IF rEvent[c] = "DAILY_LOGIN" /\ d = rDay[c] THEN credited["DAILY_LOGIN"][d] + 1
                                                      ELSE credited["DAILY_LOGIN"][d]
  BY <1>0 DEF RewardsInv, RewardsTypeOK, EarnCredit, Events
<1>2. /\ rStep' = [rStep EXCEPT ![c] = "row"]
      /\ UNCHANGED <<rDay, rEvent, rAmount, rSeen, held, history, rows, redeemed, day, asked, rewardIncidents>>
      /\ coins' = coins + rAmount[c]
  BY DEF EarnCredit, ThenReward
<1>3. RewardsTypeOK'
  <2>1. coins' \in Int
    BY <1>2 DEF RewardsInv, RewardsTypeOK
  <2> QED
    BY <1>1, <1>2, <2>1 DEF RewardsInv, RewardsTypeOK
<1>4. CallsDated'
  BY <1>0, <1>2 DEF RewardsInv, RewardsTypeOK, CallsDated
<1>5. FutureUncredited'
  BY <1>0, <1>1, <1>2 DEF RewardsInv, FutureUncredited
<1>6. ASSUME Undisturbed'
      PROVE  LoginsInOrder'
  <2>1. LoginsInOrder
    BY <1>2, <1>6 DEF RewardsInv, Undisturbed
  <2>2. /\ \A d \in RewardCalls : LoggingIn(d)' <=> LoggingIn(d)
        /\ \A d \in RewardCalls : d # c => rStep'[d] = rStep[d]
        /\ rStep[c] = "credit" /\ rStep'[c] = "row"
    BY <1>2 DEF RewardsInv, RewardsTypeOK, LoggingIn, EarnCredit
  <2>3. OneLogin'
    BY <2>1, <2>2 DEF LoginsInOrder, OneLogin
  <2>4. CASE rEvent[c] = "DAILY_LOGIN"
    <3>1. LoggingIn(c) /\ credited["DAILY_LOGIN"][rDay[c]] = 0
      BY <2>1, <2>2, <2>4 DEF LoginsInOrder, NotYetCredited, LoggingIn
    <3>2. NotYetCredited'
      BY <2>1, <2>2, <3>1 DEF LoginsInOrder, OneLogin, NotYetCredited
    <3>3. CreditedOnce'
      <4> SUFFICES ASSUME NEW d \in Days
                   PROVE  credited'["DAILY_LOGIN"][d] <= 1
        BY DEF CreditedOnce
      <4>1. CASE d = rDay[c]
        BY <1>1, <2>4, <3>1, <4>1
      <4>2. CASE d # rDay[c]
        BY <1>1, <2>1, <4>2 DEF LoginsInOrder, CreditedOnce
      <4> QED
        BY <4>1, <4>2
    <3>4. TodayRecorded'
      BY <2>2, <3>1 DEF TodayRecorded
    <3> QED
      BY <2>3, <3>2, <3>3, <3>4 DEF LoginsInOrder
  <2>5. CASE rEvent[c] # "DAILY_LOGIN"
    <3>1. \A d \in Days : credited'["DAILY_LOGIN"][d] = credited["DAILY_LOGIN"][d]
      BY <1>1, <2>5
    <3>2. ~LoggingIn(c)
      BY <2>5 DEF LoggingIn
    <3>3. NotYetCredited' /\ CreditedOnce'
      BY <1>2, <2>1, <2>2, <3>1, <3>2, <1>4 DEF LoginsInOrder, NotYetCredited, CreditedOnce, CallsDated
    <3>4. TodayRecorded'
      BY <1>0, <1>2, <2>1, <2>2, <3>1, <3>2 DEF LoginsInOrder, TodayRecorded
    <3> QED
      BY <2>3, <3>3, <3>4 DEF LoginsInOrder
  <2> QED
    BY <2>4, <2>5
<1> QED
  BY <1>3, <1>4, <1>5, <1>6 DEF RewardsInv

LEMMA RecordStep ==
  ASSUME RewardsInv, NEW c \in RewardCalls, EarnRecord(c)
  PROVE  RewardsInv'
<1>0. rEvent[c] \in Events /\ rStep[c] = "row" /\ day \in Days
  BY DEF RewardsInv, RewardsTypeOK, CallsDated, EarnRecord
<1>1. RewardsTypeOK'
  <2>1. history' \in Int
    BY DEF RewardsInv, RewardsTypeOK, EarnRecord
  <2>2. rows' \subseteq [day : Days, trigger : Events, type : {"ACCUMULATION"}]
    BY <1>0 DEF RewardsInv, RewardsTypeOK, EarnRecord
  <2> QED
    BY <2>1, <2>2, EndTypes DEF RewardsInv, RewardsTypeOK, EarnRecord
<1>2. CallsDated' /\ FutureUncredited'
  BY DEF RewardsInv, RewardsTypeOK, CallsDated, FutureUncredited, EarnRecord, EndReward
<1>3. ASSUME Undisturbed'
      PROVE  LoginsInOrder'
  <2>1. LoginsInOrder
    BY <1>3 DEF RewardsInv, Undisturbed, EarnRecord
  <2>2. /\ ~LoggingIn(c)'
        /\ \A d \in RewardCalls : d # c => (LoggingIn(d)' <=> LoggingIn(d)) /\ UNCHANGED <<rStep[d], rDay[d]>>
        /\ UNCHANGED <<credited, day>>
    BY DEF RewardsInv, RewardsTypeOK, EarnRecord, EndReward, LoggingIn
  <2>3. OneLogin' /\ NotYetCredited' /\ CreditedOnce'
    BY <2>1, <2>2 DEF LoginsInOrder, OneLogin, NotYetCredited, CreditedOnce
  <2>4. TodayRecorded'
    <3>1. CASE LoggingIn(c)
      <4> DEFINE new == [day |-> day, trigger |-> "DAILY_LOGIN", type |-> "ACCUMULATION"]
      <4>1. new \in rows'
        BY <3>1 DEF EarnRecord, LoggingIn
      <4>2. new.day = day' /\ new.trigger = "DAILY_LOGIN"
        BY <2>2
      <4> HIDE DEF new
      <4> QED
        BY <4>1, <4>2 DEF TodayRecorded
    <3>2. CASE ~LoggingIn(c)
      BY <2>1, <2>2, <3>2 DEF LoginsInOrder, TodayRecorded, EarnRecord
    <3> QED
      BY <3>1, <3>2
  <2> QED
    BY <2>3, <2>4 DEF LoginsInOrder
<1> QED
  BY <1>1, <1>2, <1>3 DEF RewardsInv

LEMMA NextDayStep ==
  ASSUME RewardsInv, NextDay
  PROVE  RewardsInv'
<1>0. day \in Nat /\ day' = day + 1 /\ day' \in Days
  BY RewardsAssumption, DaysAreNumbers DEF RewardsInv, RewardsTypeOK, NextDay, Days
<1>1. UNCHANGED <<coins, held, history, rows, credited, redeemed, rStep, rDay, rEvent, rAmount, rSeen,
                  asked, rewardIncidents>>
  BY DEF NextDay, rewardCallVars
<1>2. RewardsTypeOK'
  BY <1>0, <1>1 DEF RewardsInv, RewardsTypeOK
<1>3. CallsDated' /\ FutureUncredited' /\ credited["DAILY_LOGIN"][day'] = 0
  BY <1>0, <1>1, DaysAreNumbers DEF RewardsInv, CallsDated, FutureUncredited
<1>4. Undisturbed' => LoginsInOrder'
  BY <1>1, <1>3 DEF RewardsInv, Undisturbed, LoginsInOrder, OneLogin, NotYetCredited, CreditedOnce,
     TodayRecorded, LoggingIn
<1> QED
  BY <1>2, <1>3, <1>4 DEF RewardsInv

-----------------------------------------------------------------------------
LEMMA OtherSteps ==
  ASSUME RewardsInv, NEW c \in RewardCalls,
         Redeem(c) \/ Collect(c) \/ CollectRecord(c) \/ LoseReward(c)
  PROVE  RewardsInv'
<1>0. rAmount[c] \in Nat /\ rSeen[c] \in Int /\ Configured \in Nat
  BY RewardsAssumption DEF RewardsInv, RewardsTypeOK
<1>1. CASE Redeem(c)
  <2>1. coins' \in Int /\ history' \in Int /\ redeemed' \in Nat
    BY <1>0, <1>1 DEF RewardsInv, RewardsTypeOK, Redeem
  <2>2. RewardsTypeOK'
    BY <1>1, <2>1, EndTypes DEF RewardsInv, RewardsTypeOK, Redeem
  <2> QED
    BY <1>1, <2>2, OtherEnd DEF Redeem, LoggingIn
<1>2. CASE Collect(c)
  <2>1. coins' \in Int
    BY <1>0, <1>2 DEF Collect
  <2>2. RewardsTypeOK'
    BY <1>2, <2>1 DEF RewardsInv, RewardsTypeOK, Collect, ThenReward, When, RewardIncidents
  <2>3. CallsDated'
    BY <1>2 DEF RewardsInv, RewardsTypeOK, CallsDated, Collect, ThenReward
  <2>4. /\ \A d \in RewardCalls : LoggingIn(d)' => LoggingIn(d) /\ UNCHANGED <<rStep[d], rDay[d]>>
        /\ \A d \in RewardCalls : LoggingIn(d) /\ rStep[d] = "row" => LoggingIn(d)' /\ rStep'[d] = "row"
    BY <1>2 DEF RewardsInv, RewardsTypeOK, Collect, ThenReward, LoggingIn
  <2> QED
    BY <1>2, <2>2, <2>3, <2>4, LoginsUnchanged DEF Collect
<1>3. CASE CollectRecord(c)
  <2>1. history' \in Int
    BY <1>0, <1>3 DEF RewardsInv, RewardsTypeOK, CollectRecord
  <2>2. RewardsTypeOK'
    BY <1>3, <2>1, EndTypes DEF RewardsInv, RewardsTypeOK, CollectRecord, When, RewardIncidents
  <2> QED
    BY <1>3, <2>2, OtherEnd DEF CollectRecord, LoggingIn
<1>4. CASE LoseReward(c)
  <2>1. RewardsTypeOK'
    BY <1>4, EndTypes DEF RewardsInv, RewardsTypeOK, LoseReward, When, RewardIncidents
  <2>2. LoggingIn(c) /\ rStep[c] = "row" => ~Undisturbed'
    BY <1>4 DEF LoseReward, When, Undisturbed
  <2> QED
    BY <1>4, <2>1, <2>2, OtherEnd DEF LoseReward
<1> QED
  BY <1>1, <1>2, <1>3, <1>4

LEMMA OtherRequests ==
  ASSUME RewardsInv, NEW c \in RewardCalls, NEW a \in Amounts,
         RedeemCheck(c, a) \/ CollectRead(c, a)
  PROVE  RewardsInv'
<1>0. a \in Nat /\ rewardIncidents \subseteq RewardIncidents
  BY RewardsAssumption DEF RewardsInv, RewardsTypeOK
<1>1. CASE RedeemCheck(c, a)
  <2>1. StartReward(c, "redeem", "none", a) /\ rewardIncidents' = rewardIncidents
    BY <1>1 DEF RedeemCheck
  <2> QED
    BY <1>0, <2>1, OtherStart
<1>2. CASE CollectRead(c, a)
  <2>1. StartReward(c, "collect", "none", a) /\ rewardIncidents' = rewardIncidents
    BY <1>2 DEF CollectRead
  <2> QED
    BY <1>0, <2>1, OtherStart
<1> QED
  BY <1>1, <1>2

LEMMA MoneyStep ==
  ASSUME RewardsInv, NEW a \in Amounts, Gift(a) \/ DiscountTakes(a) \/ DiscountReturns(a)
  PROVE  RewardsInv'
<1>0. a \in Nat /\ coins \in Int /\ held \in Nat /\ history \in Int
  BY RewardsAssumption DEF RewardsInv, RewardsTypeOK
<1>1. coins' \in Int /\ held' \in Nat /\ history' \in Int
  BY <1>0 DEF Gift, DiscountTakes, DiscountReturns
<1>2. asked' \in 0 .. MaxAsked
  BY RewardsAssumption DEF RewardsInv, RewardsTypeOK, Gift, DiscountTakes, DiscountReturns, Asked
<1>3. UNCHANGED <<rows, credited, redeemed, day, rStep, rDay, rEvent, rAmount, rSeen, rewardIncidents>>
  BY DEF Gift, DiscountTakes, DiscountReturns, rewardCallVars
<1>4. RewardsTypeOK'
  BY <1>1, <1>2, <1>3 DEF RewardsInv, RewardsTypeOK
<1> QED
  BY <1>3, <1>4 DEF RewardsInv, CallsDated, FutureUncredited, Undisturbed, LoginsInOrder, OneLogin,
     NotYetCredited, CreditedOnce, TodayRecorded, LoggingIn

LEMMA RewardsStepInv == RewardsInv /\ [RewardsNext]_rewardVars => RewardsInv'
<1> SUFFICES ASSUME RewardsInv, [RewardsNext]_rewardVars
             PROVE  RewardsInv'
  OBVIOUS
<1>1. CASE UNCHANGED rewardVars
  BY <1>1 DEF rewardVars, rewardCallVars, RewardsInv, RewardsTypeOK, CallsDated, FutureUncredited,
     Undisturbed, LoginsInOrder, OneLogin, NotYetCredited, CreditedOnce, TodayRecorded, LoggingIn
<1>2. ASSUME NEW c \in RewardCalls, RewardRequest(c)
      PROVE  RewardsInv'
  <2>1. CASE Share(c)
    <3>1. rewardIncidents' \subseteq RewardIncidents /\ rewardIncidents \subseteq rewardIncidents'
      BY <2>1 DEF Share, When, RewardsInv, RewardsTypeOK, RewardIncidents
    <3> QED
      BY <2>1, <3>1, OtherStart DEF Share, Events
  <2> QED
    BY <1>2, <2>1, LoginStep, OtherRequests DEF RewardRequest
<1>3. ASSUME NEW c \in RewardCalls, RewardStep(c)
      PROVE  RewardsInv'
  BY <1>3, CreditStep, RecordStep, OtherSteps DEF RewardStep
<1>4. ASSUME NEW a \in Amounts, Gift(a) \/ DiscountTakes(a) \/ DiscountReturns(a)
      PROVE  RewardsInv'
  BY <1>4, MoneyStep
<1> QED
  BY <1>1, <1>2, <1>3, <1>4, NextDayStep DEF RewardsNext

(* The types of the coins, their history and the calls. *)
THEOREM RewardsTypeCorrect == RewardsSpec => []RewardsTypeOK
<1>1. RewardsInv => RewardsTypeOK
  BY DEF RewardsInv
<1> QED
  BY <1>1, RewardsInitInv, RewardsStepInv, PTL DEF RewardsSpec

(* A day's first login is rewarded and no other, whatever day the row is     *)
(* written on, unless two logins are handled at once or a call is cut short. *)
THEOREM OneRewardADay == RewardsSpec => []DailyLoginOnce
<1>1. RewardsInv => DailyLoginOnce
  BY DEF RewardsInv, Undisturbed, LoginsInOrder, CreditedOnce, DailyLoginOnce
<1> QED
  BY <1>1, RewardsInitInv, RewardsStepInv, PTL DEF RewardsSpec

-----------------------------------------------------------------------------
(* The coin history.  What a call has credited and not yet recorded is     *)
(* pending.  A sum over the calls is out of the provers' reach; instead an *)
(* amount is a set of that many units, and what is pending is counted by   *)
(* the cardinality of a set.                                               *)

HalfDone == {"row", "collected"}

Pending == {u \in RewardCalls \X Nat : rStep[u[1]] \in HalfDone /\ u[2] \in 1 .. rAmount[u[1]]}

CoinsTold == {"unrecorded", "overwritten", "misrecorded"} \cap rewardIncidents = {}

CoinsInv ==
  /\ IsFiniteSet(Pending)
  /\ CoinsTold => coins + held = CoinOpening + history + Cardinality(Pending)

(* n units of c, none of which is in S, add n to its cardinality. *)
LEMMA UnitsAdded ==
  ASSUME NEW S, IsFiniteSet(S), NEW c, NEW n \in Nat, ({c} \X (1 .. n)) \cap S = {}
  PROVE  /\ IsFiniteSet(S \cup ({c} \X (1 .. n)))
         /\ Cardinality(S \cup ({c} \X (1 .. n))) = Cardinality(S) + n
<1> DEFINE U == {c} \X (1 .. n)
<1>1. IsFiniteSet({c}) /\ Cardinality({c}) = 1
  BY FS_Singleton
<1>2. IsFiniteSet(1 .. n) /\ Cardinality(1 .. n) = n
  BY FS_Interval
<1>3. IsFiniteSet(U) /\ Cardinality(U) = n
  <2>1. IsFiniteSet({c} \X (1 .. n)) /\ Cardinality({c} \X (1 .. n)) = Cardinality({c}) * Cardinality(1 .. n)
    BY <1>1, <1>2, FS_Product, Zenon
  <2> QED
    BY <1>1, <1>2, <2>1
<1>4. S \cap U = {} /\ Cardinality({}) = 0
  BY FS_EmptySet
<1>5. Cardinality(S) \in Nat
  BY FS_CardinalityType
<1> HIDE DEF U
<1>6. IsFiniteSet(S \cup U) /\ Cardinality(S \cup U) = Cardinality(S) + Cardinality(U) - Cardinality(S \cap U)
  BY <1>3, FS_Union
<1> QED
  BY <1>3, <1>4, <1>5, <1>6 DEF U

(* Taking away n units of c takes n away from the cardinality. *)
LEMMA UnitsRemoved ==
  ASSUME NEW S, IsFiniteSet(S), NEW c, NEW n \in Nat, {c} \X (1 .. n) \subseteq S
  PROVE  /\ IsFiniteSet(S \ ({c} \X (1 .. n)))
         /\ Cardinality(S \ ({c} \X (1 .. n))) = Cardinality(S) - n
<1> DEFINE R == S \ ({c} \X (1 .. n))
<1>1. IsFiniteSet(R)
  BY FS_Subset
<1>2. Cardinality(R) \in Nat
  BY <1>1, FS_CardinalityType
<1>3. ({c} \X (1 .. n)) \cap R = {} /\ R \cup ({c} \X (1 .. n)) = S
  OBVIOUS
<1> HIDE DEF R
<1>4. Cardinality(S) = Cardinality(R) + n
  BY <1>1, <1>3, UnitsAdded
<1> QED
  BY <1>1, <1>2, <1>4 DEF R

(* Nothing becomes pending and nothing is recorded. *)
LEMMA PendingStays ==
  ASSUME \A c \in RewardCalls :
           /\ rStep'[c] \in HalfDone <=> rStep[c] \in HalfDone
           /\ rStep[c] \in HalfDone => rAmount'[c] = rAmount[c]
  PROVE  Pending' = Pending
BY DEF Pending

(* The calls other than c are left alone. *)
OthersWait(c) == \A d \in RewardCalls \ {c} : rStep'[d] = rStep[d] /\ rAmount'[d] = rAmount[d]

(* Call c has credited its amount. *)
LEMMA Starts ==
  ASSUME NEW c \in RewardCalls, OthersWait(c), rStep[c] \notin HalfDone, rStep'[c] \in HalfDone,
         rAmount'[c] \in Nat, IsFiniteSet(Pending)
  PROVE  IsFiniteSet(Pending)' /\ Cardinality(Pending)' = Cardinality(Pending) + rAmount'[c]
<1>1. ({c} \X (1 .. rAmount'[c])) \cap Pending = {}
  BY DEF Pending
<1>2. Pending' = Pending \cup ({c} \X (1 .. rAmount'[c]))
  BY DEF Pending, OthersWait
<1> QED
  BY <1>1, <1>2, UnitsAdded

(* Call c, which had credited its amount, ends. *)
LEMMA Settles ==
  ASSUME NEW c \in RewardCalls, OthersWait(c), rStep[c] \in HalfDone, rStep'[c] \notin HalfDone,
         rAmount[c] \in Nat, IsFiniteSet(Pending)
  PROVE  IsFiniteSet(Pending)' /\ Cardinality(Pending)' = Cardinality(Pending) - rAmount[c]
<1>1. {c} \X (1 .. rAmount[c]) \subseteq Pending
  BY DEF Pending
<1>2. Pending' = Pending \ ({c} \X (1 .. rAmount[c]))
  BY DEF Pending, OthersWait
<1> QED
  BY <1>1, <1>2, UnitsRemoved

LEMMA CoinsInit == RewardsInit => CoinsInv
<1> SUFFICES ASSUME RewardsInit PROVE CoinsInv
  OBVIOUS
<1>1. Pending = {}
  BY DEF RewardsInit, Pending, HalfDone
<1>2. IsFiniteSet(Pending) /\ Cardinality(Pending) = 0
  BY <1>1, FS_EmptySet
<1> QED
  BY <1>2, RewardsAssumption DEF RewardsInit, CoinsInv

(* The coins and the history both change by it, or neither. *)
LEMMA CoinsKept ==
  ASSUME RewardsTypeOK, CoinsInv, coins' \in Int, held' \in Int, history' \in Int,
         CoinsTold' => CoinsTold /\ (coins' + held') - history' = (coins + held) - history,
         Pending' = Pending
  PROVE  CoinsInv'
<1>1. Cardinality(Pending) \in Nat /\ CoinOpening \in Nat
      /\ coins \in Int /\ held \in Int /\ history \in Int
  BY FS_CardinalityType, RewardsAssumption DEF CoinsInv, RewardsTypeOK
<1>2. IsFiniteSet(Pending)' /\ Cardinality(Pending)' = Cardinality(Pending)
  BY DEF CoinsInv
<1>3. CoinsTold' => coins' + held' = CoinOpening + history' + Cardinality(Pending)'
  <2>1. CoinsTold => coins + held = CoinOpening + history + Cardinality(Pending)
    BY DEF CoinsInv
  <2> DEFINE total == coins + held
             totalNext == coins' + held'
  <2>2. total \in Int /\ totalNext \in Int
    BY <1>1
  <2>3. CoinsTold' => CoinsTold /\ totalNext - history' = total - history
    OBVIOUS
  <2>4. CoinsTold => total = CoinOpening + history + Cardinality(Pending)
    BY <2>1
  <2> HIDE DEF total, totalNext
  <2>5. CoinsTold' => totalNext = CoinOpening + history' + Cardinality(Pending)
    BY <1>1, <2>2, <2>3, <2>4
  <2> QED
    BY <1>2, <2>5 DEF totalNext
<1> QED
  BY <1>2, <1>3 DEF CoinsInv

LEMMA CoinsStep == RewardsTypeOK /\ CoinsInv /\ [RewardsNext]_rewardVars => CoinsInv'
<1> SUFFICES ASSUME RewardsTypeOK, CoinsInv, [RewardsNext]_rewardVars PROVE CoinsInv'
  OBVIOUS
<1> USE DEF HalfDone
<1>0. CoinsInv' <=> /\ IsFiniteSet(Pending)'
                    /\ CoinsTold' => coins' + held' = CoinOpening + history' + Cardinality(Pending)'
  BY DEF CoinsInv
<1>n. Cardinality(Pending) \in Nat /\ IsFiniteSet(Pending) /\ CoinOpening \in Nat /\ Configured \in Nat
      /\ coins \in Int /\ held \in Int /\ history \in Int
  BY FS_CardinalityType, RewardsAssumption DEF CoinsInv, RewardsTypeOK
<1>r. \A c \in RewardCalls : rAmount[c] \in Nat /\ rSeen[c] \in Int
  BY DEF RewardsTypeOK
<1>1. ASSUME UNCHANGED <<coins, held, history, rStep, rAmount, rewardIncidents>> PROVE CoinsInv'
  <2>1. Pending' = Pending
    BY <1>1 DEF Pending
  <2> QED
    BY <1>1, <1>n, <2>1, CoinsKept DEF CoinsTold
<1>2. ASSUME NEW c \in RewardCalls, NEW step \in {"credit", "redeem", "collect"}, NEW e, NEW a,
             StartReward(c, step, e, a), CoinsTold' => CoinsTold
      PROVE  CoinsInv'
  <2>1. UNCHANGED <<coins, held, history>>
    BY <1>2 DEF StartReward
  <2>2. Pending' = Pending
    BY <1>2, PendingStays DEF RewardsTypeOK, StartReward
  <2> QED
    BY <1>2, <1>n, <2>1, <2>2, CoinsKept
<1>3. ASSUME NEW c \in RewardCalls, RewardRequest(c) PROVE CoinsInv'
  <2>1. CoinsTold' => CoinsTold
    BY <1>3 DEF RewardRequest, Login, Share, RedeemCheck, CollectRead, CoinsTold
  <2> QED
    BY <1>2, <1>3, <2>1 DEF RewardRequest, Login, Share, RedeemCheck, CollectRead
<1>4. ASSUME NEW a \in Amounts, Gift(a) \/ DiscountTakes(a) \/ DiscountReturns(a) PROVE CoinsInv'
  <2>1. a \in Nat
    BY RewardsAssumption
  <2>2. coins' \in Int /\ held' \in Int /\ history' \in Int
        /\ (coins' + held') - history' = (coins + held) - history
    BY <1>4, <1>n, <2>1 DEF Gift, DiscountTakes, DiscountReturns
  <2>3. UNCHANGED <<rStep, rAmount, rewardIncidents>>
    BY <1>4 DEF Gift, DiscountTakes, DiscountReturns, rewardCallVars
  <2>4. Pending' = Pending
    BY <2>3 DEF Pending
  <2> QED
    BY <2>2, <2>3, <2>4, CoinsKept DEF CoinsTold
<1>5. ASSUME NEW c \in RewardCalls, EarnCredit(c) \/ Collect(c) PROVE CoinsInv'
  <2>1. rStep[c] \notin HalfDone /\ rStep'[c] \in HalfDone /\ OthersWait(c) /\ UNCHANGED <<held, history, rAmount>>
    BY <1>5 DEF RewardsTypeOK, EarnCredit, Collect, ThenReward, OthersWait
  <2>2. coins' \in Int /\ (CoinsTold' => CoinsTold /\ coins' = coins + rAmount[c])
    BY <1>5, <1>n, <1>r DEF EarnCredit, Collect, CoinsTold, When
  <2>3. IsFiniteSet(Pending)' /\ Cardinality(Pending)' = Cardinality(Pending) + rAmount[c]
    BY <1>n, <1>r, <2>1, Starts
  <2> QED
    BY <1>0, <1>n, <1>r, <2>1, <2>2, <2>3 DEF CoinsInv
<1>6. ASSUME NEW c \in RewardCalls, EarnRecord(c) \/ CollectRecord(c) PROVE CoinsInv'
  <2>1. rStep[c] \in HalfDone /\ EndReward(c) /\ UNCHANGED <<coins, held>>
    BY <1>6 DEF EarnRecord, CollectRecord
  <2>2. history' \in Int /\ (CoinsTold' => CoinsTold /\ history' = history + rAmount[c])
    <3>1. CASE EarnRecord(c)
      BY <3>1, <1>n, <1>r DEF EarnRecord, CoinsTold
    <3>2. CASE CollectRecord(c)
      <4>1. history' = history + Configured
        BY <3>2 DEF CollectRecord
      <4>2. CoinsTold' => CoinsTold /\ rAmount[c] = Configured
        BY <3>2 DEF CollectRecord, CoinsTold, When
      <4> QED
        BY <1>n, <1>r, <4>1, <4>2
    <3> QED
      BY <1>6, <3>1, <3>2
  <2>3. OthersWait(c) /\ rStep'[c] \notin HalfDone
    BY <2>1 DEF RewardsTypeOK, EndReward, OthersWait
  <2>4. IsFiniteSet(Pending)' /\ Cardinality(Pending)' = Cardinality(Pending) - rAmount[c]
    BY <1>n, <1>r, <2>1, <2>3, Settles
  <2> QED
    BY <1>0, <1>n, <1>r, <2>1, <2>2, <2>4 DEF CoinsInv
<1>7. ASSUME NEW c \in RewardCalls, Redeem(c) PROVE CoinsInv'
  <2>1. coins' = coins - rAmount[c] /\ history' = history - rAmount[c] /\ UNCHANGED <<held, rewardIncidents>>
    BY <1>7 DEF Redeem
  <2>2. Pending' = Pending
    BY <1>7, PendingStays DEF RewardsTypeOK, Redeem, EndReward
  <2> QED
    BY <1>n, <1>r, <2>1, <2>2, CoinsKept DEF CoinsTold
<1>8. ASSUME NEW c \in RewardCalls, LoseReward(c) PROVE CoinsInv'
  <2>1. EndReward(c) /\ UNCHANGED <<coins, held, history>>
    BY <1>8 DEF LoseReward
  <2>2. OthersWait(c) /\ rStep'[c] \notin HalfDone
    BY <2>1 DEF RewardsTypeOK, EndReward, OthersWait
  <2>3. CASE rStep[c] \in HalfDone
    <3>1. ~CoinsTold'
      BY <1>8, <2>3 DEF LoseReward, When, CoinsTold
    <3>2. IsFiniteSet(Pending)'
      BY <1>n, <1>r, <2>2, <2>3, Settles
    <3> QED
      BY <1>0, <3>1, <3>2
  <2>4. CASE rStep[c] \notin HalfDone
    <3>1. CoinsTold' => CoinsTold
      BY <1>8 DEF LoseReward, CoinsTold
    <3>2. Pending' = Pending
      BY <2>2, <2>4, PendingStays DEF OthersWait
    <3> QED
      BY <1>n, <2>1, <3>1, <3>2, CoinsKept
  <2> QED
    BY <2>3, <2>4
<1>9. ASSUME NextDay \/ UNCHANGED rewardVars PROVE CoinsInv'
  BY <1>1, <1>9 DEF NextDay, rewardVars, rewardCallVars
<1> QED
  BY <1>3, <1>4, <1>5, <1>6, <1>7, <1>8, <1>9 DEF RewardsNext, RewardStep

LEMMA CoinsExplained == RewardsTypeOK /\ CoinsInv => HistoryExplainsCoins
<1> SUFFICES ASSUME RewardsTypeOK, CoinsInv, CoinsTold, \A c \in RewardCalls : rStep[c] \notin HalfDone
             PROVE  coins + held = CoinOpening + history
  BY DEF HistoryExplainsCoins, CoinsTold, HalfDone
<1>1. Pending = {}
  BY DEF Pending
<1>2. Cardinality(Pending) = 0
  BY <1>1, FS_EmptySet
<1> QED
  BY <1>2, RewardsAssumption DEF CoinsInv, RewardsTypeOK

(* The coin history explains the balance, but for what the discounts of     *)
(* orders hold, whenever no call is between a credit and its row - for any  *)
(* number of rewards, gifts, redemptions and collections made at once -     *)
(* unless one was cut short there, or collectCoin wrote over a change or    *)
(* recorded another amount than it credited.                                *)
THEOREM CoinsAlwaysExplained == RewardsSpec => []HistoryExplainsCoins
BY RewardsTypeCorrect, CoinsInit, CoinsStep, CoinsExplained, PTL DEF RewardsSpec

-----------------------------------------------------------------------------
(* Proofs about RiderAccount, for any number of tiers, evaluations and     *)
(* requests.  An evaluation that has read the rider before an override may *)
(* write after it, and a promotion looks at no override: each leaves its    *)
(* incident, and nothing else writes the tier.                             *)

(* A request that has seen a GOLD or PLATINUM rider, and the popup it will  *)
(* switch on.                                                              *)
PopupEarned ==
  popup \/ (\E q \in Switches : switching[q]) => tier \in PopupTiers \/ "demoted" \in riderIncidents

RiderAccountInv ==
  /\ switching \in [Switches -> BOOLEAN]
  /\ PopupEarned
  /\ OverrideStands
  /\ ActiveIsApproved

LEMMA RiderAccountInitInv == RiderAccountInit => RiderAccountInv
BY DEF RiderAccountInit, RiderAccountInv, PopupEarned, OverrideStands, ActiveIsApproved

(* A step that writes the tier and leaves standing and popup alone. *)
LEMMA TierStep ==
  ASSUME RiderAccountInv, NEW t, NEW noted, SetTier(t, noted), OverrideStands',
         UNCHANGED <<standingVars, popup, switching>>
  PROVE  RiderAccountInv'
<1> USE DEF RiderAccountInv, SetTier, standingVars
<1>1. PopupEarned'
  BY DEF PopupEarned, When
<1>2. ActiveIsApproved'
  BY <1>1 DEF ActiveIsApproved, PopupEarned
<1> QED
  BY <1>1, <1>2

LEMMA RiderAccountStepInv == RiderAccountInv /\ [RiderAccountNext]_riderVars => RiderAccountInv'
<1> SUFFICES ASSUME RiderAccountInv, [RiderAccountNext]_riderVars
             PROVE  RiderAccountInv'
  OBVIOUS
<1>1. CASE UNCHANGED riderVars
  BY <1>1 DEF riderVars, standingVars, tierVars, RiderAccountInv, PopupEarned, OverrideStands,
     ActiveIsApproved
<1>2. CASE Register \/ Suspend \/ Unsuspend \/ SwitchOff
  BY <1>2 DEF Register, Suspend, Unsuspend, SwitchOff, standingVars, tierVars, RiderAccountInv,
     PopupEarned, OverrideStands, ActiveIsApproved
<1>3. ASSUME NEW v \in Verdicts, Verify(v)
      PROVE  RiderAccountInv'
  BY <1>3 DEF Verify, When, tierVars, RiderAccountInv, PopupEarned, OverrideStands, ActiveIsApproved
<1>4. ASSUME NEW q \in Switches, SwitchOnCheck(q) \/ SwitchOn(q)
      PROVE  RiderAccountInv'
  <2>1. CASE SwitchOnCheck(q)
    BY <2>1 DEF SwitchOnCheck, standingVars, tierVars, RiderAccountInv, PopupEarned, OverrideStands,
       ActiveIsApproved
  <2>2. CASE SwitchOn(q)
    BY <2>2 DEF SwitchOn, standingVars, tierVars, RiderAccountInv, PopupEarned, OverrideStands,
       ActiveIsApproved
  <2> QED
    BY <1>4, <2>1, <2>2
<1>5. ASSUME NEW t \in Tiers, SetTierByHand(t)
      PROVE  RiderAccountInv'
  <2>1. OverrideStands'
    BY <1>5 DEF SetTierByHand, SetTier, OverrideStands
  <2> QED
    BY <1>5, <2>1, TierStep DEF SetTierByHand
<1>6. ASSUME NEW t \in Tiers, Promote(t)
      PROVE  RiderAccountInv'
  <2>1. OverrideStands'
    BY <1>6 DEF RiderAccountInv, Promote, SetTier, When, OverrideStands
  <2> QED
    BY <1>6, <2>1, TierStep DEF Promote
<1>7. ASSUME NEW e \in Evaluators, EvaluationWrites(e)
      PROVE  RiderAccountInv'
  <2>1. CASE UNCHANGED <<tier, riderIncidents>>
    BY <1>7, <2>1 DEF EvaluationWrites, standingVars, RiderAccountInv, PopupEarned, OverrideStands,
       ActiveIsApproved
  <2>2. CASE SetTier(evaluation[e].target, When(override, "overtaken"))
    <3>1. OverrideStands'
      BY <1>7, <2>2 DEF RiderAccountInv, EvaluationWrites, SetTier, When, OverrideStands
    <3> QED
      BY <1>7, <2>2, <3>1, TierStep DEF EvaluationWrites
  <2> QED
    BY <1>7, <2>1, <2>2 DEF EvaluationWrites
<1>8. ASSUME NEW e \in Evaluators,
             \/ EvaluationFails(e)
             \/ \E suggested \in Tiers, populated \in SUBSET Tiers, gold \in BOOLEAN :
                  EvaluationReads(e, suggested, populated, gold)
      PROVE  RiderAccountInv'
  <2>1. UNCHANGED <<standingVars, popup, switching, tierVars, riderIncidents>>
    BY <1>8 DEF EvaluationFails, EvaluationReads
  <2> QED
    BY <2>1 DEF standingVars, tierVars, RiderAccountInv, PopupEarned, OverrideStands, ActiveIsApproved
<1> QED
  BY <1>1, <1>2, <1>3, <1>4, <1>5, <1>6, <1>7, <1>8 DEF RiderAccountNext

(* The tier set by hand stands through the evaluations, unless one had read  *)
(* the rider before or he was promoted since.                                *)
THEOREM HandSetTierStands == RiderAccountSpec => []OverrideStands
<1>1. RiderAccountInv => OverrideStands
  BY DEF RiderAccountInv
<1> QED
  BY <1>1, RiderAccountInitInv, RiderAccountStepInv, PTL DEF RiderAccountSpec

(* A rider takes orders only if he is approved, in a suspension only if he   *)
(* was approved again, and has the auto popup only with a tier that has it,  *)
(* unless he was demoted with it on.                                         *)
THEOREM ActiveRidersApproved == RiderAccountSpec => []ActiveIsApproved
<1>1. RiderAccountInv => ActiveIsApproved
  BY DEF RiderAccountInv
<1> QED
  BY <1>1, RiderAccountInitInv, RiderAccountStepInv, PTL DEF RiderAccountSpec

-----------------------------------------------------------------------------
(* Proofs about SignIn, for every set of devices and any number of codes.  *)
(* The argument: between writing the token and writing its login row a     *)
(* request is alone, unless a token was written meanwhile, which leaves an *)
(* incident; so what it has seen of the open logins is still true.         *)
OpenStep == {"look", "open"}
LeaveStep == {"leave", "close"}
BusySteps == OpenStep \cup LeaveStep

SignInTypes ==
  /\ signStep \in [Devices -> SignStep]
  /\ loginSeen = [d \in Devices |-> loginSeen[d]]
  /\ loginRows \in Nat
  /\ openLogins \subseteq Nat \ {0}

OneBusy == \A d, e \in Devices : signStep[d] \in BusySteps /\ signStep[e] \in BusySteps => d = e

OneOpenLogin == openLogins = {} \/ \E r \in Nat \ {0} : openLogins = {r}

(* The token and the open login of a user agree when nobody is busy, and a *)
(* device that is busy has seen the open login.                            *)
TokenAndLogin ==
  /\ \A d \in Devices :
       /\ signStep[d] \in OpenStep \cup {"refresh"} => holder # NoDevice
       /\ signStep[d] \in LeaveStep => holder = NoDevice
       /\ signStep[d] \in {"open", "close"} => openLogins = (IF loginSeen[d] = 0 THEN {} ELSE {loginSeen[d]})
  /\ (\A d \in Devices : signStep[d] \notin BusySteps) => (openLogins = {} <=> holder = NoDevice)

SignInInv ==
  /\ SignInTypes
  /\ signIncidents = {} => OneBusy /\ OneOpenLogin /\ TokenAndLogin

LEMMA SignInInitInv == SignInInit => SignInInv
BY DEF SignInInit, SignInInv, SignInTypes, SignStep, OneBusy, OneOpenLogin, TokenAndLogin, BusySteps, OpenStep, LeaveStep

(* A device goes on to a step at which it has nothing to answer for. *)
LEMMA SignMoves ==
  ASSUME SignInInv, NEW d \in Devices, NEW step \in {"idle", "mark", "clear", "token", "refresh"},
         signStep[d] \notin BusySteps, step = "refresh" => holder # NoDevice,
         signStep' = [signStep EXCEPT ![d] = step],
         loginSeen' \in {loginSeen, [loginSeen EXCEPT ![d] = 0]},
         UNCHANGED <<holder, loginRows, openLogins, signIncidents>>
  PROVE  SignInInv'
<1>1. SignInTypes'
  BY DEF SignInInv, SignInTypes, SignStep
<1>2. \A e \in Devices \ {d} : signStep'[e] = signStep[e] /\ loginSeen'[e] = loginSeen[e]
  BY DEF SignInInv, SignInTypes
<1>3. signStep'[d] = step /\ step \notin BusySteps
  BY DEF SignInInv, SignInTypes, BusySteps, OpenStep, LeaveStep
<1>4. \A e \in Devices : signStep'[e] \in BusySteps => e # d
  BY <1>3
<1>5. ASSUME signIncidents = {}
      PROVE  OneBusy' /\ OneOpenLogin' /\ TokenAndLogin'
  BY <1>2, <1>3, <1>4, <1>5 DEF SignInInv, OneBusy, OneOpenLogin, TokenAndLogin, BusySteps, OpenStep, LeaveStep
<1> QED
  BY <1>1, <1>5 DEF SignInInv

(* Nothing that the invariant is about changes. *)
LEMMA SignStays ==
  ASSUME SignInInv, UNCHANGED <<signStep, loginSeen, holder, loginRows, openLogins, signIncidents>>
  PROVE  SignInInv'
BY DEF SignInInv, SignInTypes, OneBusy, OneOpenLogin, TokenAndLogin

(* The token is written, and the request is alone or leaves its incident. *)
LEMMA TokenStep ==
  ASSUME SignInInv, NEW d \in Devices, SaveToken(d) \/ Logout(d)
  PROVE  SignInInv'
<1>1. /\ SignInTypes /\ SignInTypes'
      /\ \A e \in Devices \ {d} : signStep'[e] = signStep[e] /\ loginSeen'[e] = loginSeen[e]
  BY DEF SaveToken, Logout, SignRequest, SignGoto, SignEnd, SignInInv, SignInTypes, SignStep
<1>2. ASSUME signIncidents' = {}
      PROVE  OneBusy' /\ OneOpenLogin' /\ TokenAndLogin'
  <2>1. signIncidents = {} /\ ~Crossing(d)
    BY <1>2 DEF SaveToken, Logout, When
  <2>2. \A e \in Devices \ {d} : signStep'[e] \notin BusySteps \cup {"refresh"}
    BY <1>1, <2>1 DEF Crossing, BusySteps, OpenStep, LeaveStep
  <2>3. OneOpenLogin /\ TokenAndLogin /\ openLogins' = openLogins
    BY <2>1 DEF SignInInv, SaveToken, Logout
  <2>4. signStep[d] \notin BusySteps
    BY DEF SaveToken, Logout, SignRequest, BusySteps, OpenStep, LeaveStep
  <2>5. openLogins = {} <=> holder = NoDevice
    BY <1>1, <2>2, <2>3, <2>4 DEF TokenAndLogin
  <2>6. CASE SaveToken(d)
    <3>1. /\ holder' = d /\ d # NoDevice
          /\ signStep'[d] = IF signStep[d] = "token" THEN "look" ELSE "idle"
          /\ signStep[d] \in {"token", "refresh"}
      BY <1>1, <2>6, SignInAssumption DEF SaveToken, SignGoto, SignEnd, SignInTypes
    <3>2. signStep[d] = "refresh" => openLogins # {}
      BY <2>3, <2>5 DEF TokenAndLogin
    <3> QED
      BY <2>2, <2>3, <3>1, <3>2 DEF OneBusy, OneOpenLogin, TokenAndLogin, BusySteps, OpenStep, LeaveStep
  <2>7. CASE Logout(d)
    <3>1. holder' = NoDevice /\ signStep'[d] = "leave"
      BY <1>1, <2>7 DEF Logout, SignRequest, SignInTypes
    <3> QED
      BY <2>2, <2>3, <3>1 DEF OneBusy, OneOpenLogin, TokenAndLogin, BusySteps, OpenStep, LeaveStep
  <2> QED
    BY <2>6, <2>7
<1> QED
  BY <1>1, <1>2 DEF SignInInv

(* A busy request looks for the open login, and then writes. *)
LEMMA BusyStep ==
  ASSUME SignInInv, NEW d \in Devices,
         LookForLogin(d) \/ FindLogin(d) \/ MakeLogin(d) \/ CloseLogin(d)
  PROVE  SignInInv'
<1>0. SignInTypes /\ UNCHANGED <<holder, signIncidents>> /\ signStep[d] \in BusySteps
  BY DEF SignInInv, LookForLogin, FindLogin, MakeLogin, CloseLogin, loginVars, BusySteps, OpenStep, LeaveStep
<1>1. \A e \in Devices \ {d} : signStep'[e] = signStep[e] /\ loginSeen'[e] = loginSeen[e]
  BY <1>0 DEF LookForLogin, FindLogin, MakeLogin, CloseLogin, SignGoto, SignEnd, SignInTypes
<1>2. ASSUME signIncidents = {}
      PROVE  /\ \A e \in Devices \ {d} : signStep[e] \notin BusySteps
             /\ openLogins = {} \/ \E r \in Nat \ {0} : openLogins = {r}
             /\ signStep[d] \in OpenStep => holder # NoDevice
             /\ signStep[d] \in LeaveStep => holder = NoDevice
             /\ signStep[d] \in {"open", "close"} =>
                  openLogins = (IF loginSeen[d] = 0 THEN {} ELSE {loginSeen[d]})
             /\ \A e \in Devices : signStep[e] = "refresh" => holder # NoDevice
  BY <1>0, <1>2 DEF SignInInv, OneBusy, OneOpenLogin, TokenAndLogin
<1>3. CASE LookForLogin(d) \/ FindLogin(d)
  <2>1. /\ UNCHANGED <<loginRows, openLogins>>
        /\ loginSeen'[d] = NewestLogin
        /\ \/ signStep[d] = "look" /\ signStep'[d] = "open"
           \/ signStep[d] = "leave" /\ signStep'[d] = "close"
    BY <1>0, <1>3 DEF LookForLogin, FindLogin, SignGoto, loginVars, SignInTypes
  <2>2. SignInTypes'
    BY <1>0, <1>3, <2>1 DEF LookForLogin, FindLogin, SignGoto, loginVars, SignInTypes, SignStep
  <2>3. ASSUME signIncidents = {}
        PROVE  OneBusy' /\ OneOpenLogin' /\ TokenAndLogin'
    <3>1. openLogins = (IF NewestLogin = 0 THEN {} ELSE {NewestLogin})
      BY <1>2, <2>3 DEF NewestLogin
    <3> QED
      BY <1>0, <1>1, <1>2, <2>1, <2>3, <3>1
         DEF OneBusy, OneOpenLogin, TokenAndLogin, BusySteps, OpenStep, LeaveStep
  <2> QED
    BY <1>0, <2>2, <2>3 DEF SignInInv
<1>4. CASE MakeLogin(d) \/ CloseLogin(d)
  <2>1. signStep'[d] = "idle" /\ SignInTypes'
    BY <1>0, <1>4 DEF MakeLogin, CloseLogin, SignEnd, SignGoto, SignInTypes, SignStep
  <2>2. ASSUME signIncidents = {}
        PROVE  OneBusy' /\ OneOpenLogin' /\ TokenAndLogin'
    <3>1. CASE MakeLogin(d)
      <4>1. openLogins' # {} /\ \E r \in Nat \ {0} : openLogins' = {r}
        <5>1. openLogins = (IF loginSeen[d] = 0 THEN {} ELSE {loginSeen[d]})
          BY <1>2, <2>2, <3>1 DEF MakeLogin
        <5>2. CASE loginSeen[d] = 0
          <6>1. openLogins' = {loginRows + 1} /\ loginRows + 1 \in Nat \ {0}
            BY <1>0, <3>1, <5>1, <5>2 DEF MakeLogin, SignInTypes
          <6> QED
            BY <6>1
        <5>3. CASE loginSeen[d] # 0
          <6>1. openLogins' = {loginSeen[d]} /\ loginSeen[d] \in Nat \ {0}
            BY <1>0, <3>1, <5>1, <5>3 DEF MakeLogin, SignInTypes
          <6> QED
            BY <6>1
        <5> QED
          BY <5>2, <5>3
      <4>2. holder # NoDevice
        BY <1>2, <2>2, <3>1 DEF MakeLogin, OpenStep
      <4> QED
        BY <1>0, <1>1, <1>2, <2>1, <2>2, <4>1, <4>2
           DEF OneBusy, OneOpenLogin, TokenAndLogin, BusySteps, OpenStep, LeaveStep
    <3>2. CASE CloseLogin(d)
      <4>1. openLogins' = {}
        BY <1>0, <1>2, <2>2, <3>2 DEF CloseLogin, SignInTypes
      <4>2. holder = NoDevice
        BY <1>2, <2>2, <3>2 DEF CloseLogin, LeaveStep
      <4> QED
        BY <1>0, <1>1, <1>2, <2>1, <2>2, <4>1, <4>2
           DEF OneBusy, OneOpenLogin, TokenAndLogin, BusySteps, OpenStep, LeaveStep
    <3> QED
      BY <1>4, <3>1, <3>2
  <2> QED
    BY <1>0, <2>1, <2>2 DEF SignInInv
<1> QED
  BY <1>3, <1>4

LEMMA SignInStepInv == SignInInv /\ [SignInNext]_signVars => SignInInv'
<1> SUFFICES ASSUME SignInInv, [SignInNext]_signVars
             PROVE  SignInInv'
  OBVIOUS
<1>1. CASE UNCHANGED signVars
  BY <1>1, SignStays DEF signVars, loginVars
<1>2. ASSUME NEW d \in Devices,
             \/ VerifyCode(d) \/ VerifyLoginCode(d) \/ LoginWithCredentials(d) \/ RefreshCheck(d)
      PROVE  SignInInv'
  <2>1. PICK step \in {"mark", "clear", "token", "refresh"} :
               /\ SignRequest(d, step) /\ UNCHANGED <<loginVars, signIncidents>>
               /\ step = "refresh" => holder = d
    BY <1>2 DEF VerifyCode, VerifyLoginCode, LoginWithCredentials, RefreshCheck
  <2> QED
    BY <2>1, SignMoves, SignInAssumption DEF SignRequest, loginVars, BusySteps, OpenStep, LeaveStep
<1>3. ASSUME NEW d \in Devices, MarkVerified(d) \/ ClearCode(d)
      PROVE  SignInInv'
  BY <1>3, SignMoves DEF MarkVerified, ClearCode, SignGoto, loginVars, BusySteps, OpenStep, LeaveStep
<1>4. ASSUME NEW d \in Devices, SignFails(d)
      PROVE  SignInInv'
  BY <1>4 DEF SignFails, SignEnd, SignGoto, loginVars, SignInInv, SignInTypes, SignStep
<1>5. CASE (\E d \in Devices : GenerateCode(d)) \/ CodeExpires \/ \E a \in Admins : SwitchRead(a) \/ SwitchWrite(a)
  BY <1>5, SignStays DEF GenerateCode, CodeExpires, SwitchRead, SwitchWrite, loginVars
<1>6. CASE SoftDelete
  BY <1>6 DEF SoftDelete, SignInInv, SignInTypes
<1> QED
  BY <1>1, <1>2, <1>3, <1>4, <1>5, <1>6, TokenStep, BusyStep DEF SignInNext, SignInStep

(* When nobody is signing in or out, a user has one open login exactly if    *)
(* his row keeps a token, for any number of devices, codes and requests,     *)
(* unless the incidents named have happened.                                 *)
THEOREM LoginsFollowToken == SignInSpec => []LoginFollowsToken
<1>1. SignInInv => LoginFollowsToken
  <2> SUFFICES ASSUME SignInInv, signIncidents = {}, \A d \in Devices : signStep[d] = "idle"
               PROVE  Cardinality(openLogins) = (IF holder = NoDevice THEN 0 ELSE 1)
    BY DEF LoginFollowsToken
  <2>1. openLogins = {} <=> holder = NoDevice
    BY DEF SignInInv, TokenAndLogin, BusySteps, OpenStep, LeaveStep
  <2>2. CASE openLogins = {}
    BY <2>1, <2>2, FS_EmptySet
  <2>3. CASE openLogins # {}
    <3>1. PICK r \in Nat \ {0} : openLogins = {r}
      BY <2>3 DEF SignInInv, OneOpenLogin
    <3> QED
      BY <2>1, <2>3, <3>1, FS_Singleton
  <2> QED
    BY <2>2, <2>3
<1> QED
  BY <1>1, SignInInitInv, SignInStepInv, PTL DEF SignInSpec

-----------------------------------------------------------------------------
(* Proofs about Presence, for every set of sockets, orders and handlers.   *)
(* Without a mishap one handler runs at a time, and what it has read is    *)
(* true until it uses it.                                                  *)

HandlersBusy ==
  /\ DOMAIN doing = Handlers /\ DOMAIN nextStep = Handlers /\ DOMAIN heldRead = Handlers
  /\ \A h \in Handlers : doing[h] = "none" => nextStep[h] = "idle"
  /\ online \in BOOLEAN /\ available \in BOOLEAN /\ wish \in BOOLEAN /\ loaded \in BOOLEAN
  /\ sessionRows \in Nat

OneHandler == \A g, h \in Handlers : doing[g] # "none" /\ doing[h] # "none" => g = h

OneSession == openSessions = {} \/ \E r \in Nat \ {0} : openSessions = {r}

AsWished == online = wish /\ (openSessions = {} <=> ~wish)

(* What a handler knows on its way. *)
OnTheWay(h) ==
  /\ doing[h] \in {"connect", "online"} =>
       /\ wish
       /\ nextStep[h] \in {"open", "look", "row", "list", "clear", "fill"}
       /\ IF nextStep[h] = "open" THEN heldRead[h].session = Newest ELSE openSessions # {}
       /\ nextStep[h] \in {"list", "clear", "fill"} => online
  /\ doing[h] \in {"disconnect", "offline"} =>
       /\ ~wish
       /\ nextStep[h] \in {"close", "row", "clear"}
       /\ IF nextStep[h] = "close" THEN heldRead[h].session = Newest ELSE openSessions = {}
       /\ nextStep[h] = "clear" => ~online
  /\ doing[h] = "location" => nextStep[h] = "fill" /\ AsWished
  /\ doing[h] \in {"none", "connect", "online", "disconnect", "offline", "location"}

SessionsInStep ==
  /\ OneHandler /\ OneSession
  /\ available => online
  /\ ~Busy => AsWished
  /\ \A h \in Handlers : OnTheWay(h)

(* What the cache holds; while it is filled, what it will hold. *)
CacheInStep ==
  /\ (\A h \in Handlers : nextStep[h] # "fill") => tracked = ongoing \/ (tracked = {} /\ ~loaded)
  /\ \A h \in Handlers :
       /\ nextStep[h] = "clear" /\ doing[h] = "connect" => heldRead[h].orders = ongoing
       /\ nextStep[h] = "fill" => tracked = {} /\ heldRead[h].orders = ongoing

PresenceInv ==
  /\ HandlersBusy
  /\ {"overlapped", "closed_one", "cut_short"} \cap presenceMishaps = {} => SessionsInStep
  /\ presenceMishaps = {} => CacheInStep

LEMMA PresenceInitInv == PresenceInit => PresenceInv
<1> SUFFICES ASSUME PresenceInit PROVE PresenceInv
  OBVIOUS
<1>1. HandlersBusy
  BY DEF PresenceInit, HandlersBusy
<1>2. SessionsInStep
  BY DEF PresenceInit, SessionsInStep, OneHandler, OneSession, AsWished, OnTheWay
<1>3. CacheInStep
  BY DEF PresenceInit, CacheInStep
<1> QED
  BY <1>1, <1>2, <1>3 DEF PresenceInv

(* The newest of one session is that one, and 0 stands for none. *)
LEMMA NewestOfOne ==
  ASSUME OneSession
  PROVE  IF Newest = 0 THEN openSessions = {} ELSE openSessions = {Newest} /\ Newest \in Nat \ {0}
<1>1. CASE openSessions = {}
  BY <1>1 DEF Newest
<1>2. ASSUME NEW r \in Nat \ {0}, openSessions = {r}
      PROVE  Newest = r
  <2>1. r \in openSessions /\ \A t \in openSessions : t <= r
    BY <1>2
  <2>2. (CHOOSE s \in openSessions : \A t \in openSessions : t <= s) \in openSessions
    BY <2>1
  <2> QED
    BY <1>2, <2>2 DEF Newest
<1> QED
  BY <1>1, <1>2 DEF OneSession

(* An event finds no handler at work, or that is the mishap. *)
LEMMA EventStep ==
  ASSUME PresenceInv, NEW h \in Handlers, NEW event, NEW step, NEW r,
         Start(h, event, step, r),
         event \in {"connect", "online"} => step = "open" /\ r.session = Newest /\ wish',
         event \in {"disconnect", "offline"} => step = "close" /\ r.session = Newest,
         event = "disconnect" =>
           wish' = FALSE \/ "closed_one" \in presenceMishaps',
         event = "offline" => wish' = FALSE,
         event = "location" => step = "fill" /\ r.orders = ongoing /\ tracked = {} /\ wish' = wish,
         event \in {"connect", "online", "disconnect", "offline", "location"},
         wish' \in BOOLEAN,
         presenceMishaps \subseteq presenceMishaps',
         Busy => "overlapped" \in presenceMishaps',
         UNCHANGED <<presenceRowVars, ongoing, cacheVars>>
  PROVE  PresenceInv'
<1>1. HandlersBusy
  BY DEF PresenceInv
<1>2. /\ doing'[h] = event /\ nextStep'[h] = step /\ heldRead'[h] = r
      /\ \A g \in Handlers \ {h} :
           doing'[g] = doing[g] /\ nextStep'[g] = nextStep[g] /\ heldRead'[g] = heldRead[g]
  BY <1>1 DEF Start, HandlersBusy
<1>3. HandlersBusy'
  BY <1>1, <1>2 DEF HandlersBusy, Start, presenceRowVars, cacheVars
<1>4. ASSUME {"overlapped", "closed_one", "cut_short"} \cap presenceMishaps' = {}
      PROVE  SessionsInStep'
  <2>1. ~Busy /\ SessionsInStep
    BY <1>4 DEF PresenceInv
  <2>2. \A g \in Handlers \ {h} : doing'[g] = "none"
    BY <1>2, <2>1 DEF Busy
  <2>3. OneHandler' /\ OneSession' /\ (available => online)' /\ Busy'
    BY <1>2, <2>1, <2>2 DEF SessionsInStep, OneHandler, OneSession, presenceRowVars, Busy
  <2>4. Newest' = Newest
    BY DEF Newest, presenceRowVars
  <2>5. OnTheWay(h)'
    BY <1>2, <1>4, <2>1, <2>4 DEF OnTheWay, SessionsInStep, AsWished, presenceRowVars
  <2>6. \A g \in Handlers \ {h} : OnTheWay(g)'
    BY <2>2 DEF OnTheWay
  <2> QED
    BY <2>3, <2>5, <2>6 DEF SessionsInStep
<1>5. ASSUME presenceMishaps' = {}
      PROVE  CacheInStep'
  <2>1. ~Busy /\ CacheInStep
    BY <1>5 DEF PresenceInv
  <2>2. \A g \in Handlers : nextStep[g] = "idle"
    BY <1>1, <2>1 DEF Busy, HandlersBusy
  <2> QED
    BY <1>2, <2>1, <2>2 DEF CacheInStep, cacheVars
<1> QED
  BY <1>3, <1>4, <1>5 DEF PresenceInv

(* What is the same for every step of a handler. *)
LEMMA HandlerMoves ==
  ASSUME HandlersBusy, NEW h \in Handlers, NEW step, NEW r,
         Continue(h, step, r), doing[h] # "none"
  PROVE  /\ doing' = doing /\ nextStep'[h] = step /\ heldRead'[h] = r
         /\ \A g \in Handlers \ {h} : nextStep'[g] = nextStep[g] /\ heldRead'[g] = heldRead[g]
         /\ Busy' = Busy /\ OneHandler' = OneHandler /\ Busy
         /\ UNCHANGED <<sockets, wish, presenceMishaps>>
         /\ DOMAIN doing' = Handlers /\ DOMAIN nextStep' = Handlers /\ DOMAIN heldRead' = Handlers
         /\ \A g \in Handlers : doing'[g] = "none" => nextStep'[g] = "idle"
  BY DEF Continue, HandlersBusy, Busy, OneHandler

LEMMA HandlerEnds ==
  ASSUME HandlersBusy, NEW h \in Handlers, Finish(h)
  PROVE  /\ doing'[h] = "none" /\ nextStep'[h] = "idle"
         /\ \A g \in Handlers \ {h} :
              doing'[g] = doing[g] /\ nextStep'[g] = nextStep[g] /\ heldRead'[g] = heldRead[g]
         /\ OneHandler => OneHandler'
         /\ OneHandler /\ doing[h] # "none" => ~Busy' /\ \A g \in Handlers : nextStep'[g] = "idle"
         /\ UNCHANGED <<sockets, wish>>
         /\ DOMAIN doing' = Handlers /\ DOMAIN nextStep' = Handlers /\ DOMAIN heldRead' = Handlers
         /\ \A g \in Handlers : doing'[g] = "none" => nextStep'[g] = "idle"
  BY DEF Finish, HandlersBusy, Busy, OneHandler

(* A step of a handler, from what it does to the state and to itself. *)
LEMMA ContinueStep ==
  ASSUME PresenceInv, NEW h \in Handlers, doing[h] # "none", NEW step, NEW r,
         Continue(h, step, r),
         online' \in BOOLEAN, available' \in BOOLEAN, loaded' \in BOOLEAN, sessionRows' \in Nat,
         SessionsInStep => OneSession' /\ (available => online)' /\ OnTheWay(h)',
         SessionsInStep /\ CacheInStep =>
           /\ step # "fill" => (tracked = ongoing \/ (tracked = {} /\ ~loaded))'
           /\ step = "clear" /\ doing[h] = "connect" => r.orders = ongoing'
           /\ step = "fill" => tracked' = {} /\ r.orders = ongoing'
  PROVE  PresenceInv'
<1>1. HandlersBusy
  BY DEF PresenceInv
<1>2. /\ doing' = doing /\ nextStep'[h] = step /\ heldRead'[h] = r
      /\ \A g \in Handlers \ {h} : nextStep'[g] = nextStep[g] /\ heldRead'[g] = heldRead[g]
      /\ Busy' /\ OneHandler' = OneHandler
      /\ UNCHANGED <<wish, presenceMishaps>>
  BY <1>1, HandlerMoves
<1>3. HandlersBusy'
  BY <1>1, <1>2, HandlerMoves DEF HandlersBusy
<1>4. ASSUME SessionsInStep
      PROVE  SessionsInStep'
  <2>1. \A g \in Handlers \ {h} : doing'[g] = "none"
    BY <1>2, <1>4 DEF SessionsInStep, OneHandler
  <2> QED
    BY <1>2, <1>4, <2>1 DEF SessionsInStep, OnTheWay
<1>5. ASSUME SessionsInStep, CacheInStep
      PROVE  CacheInStep'
  <2>1. \A g \in Handlers \ {h} : nextStep'[g] = "idle"
    BY <1>1, <1>2, <1>5 DEF SessionsInStep, OneHandler, HandlersBusy
  <2> QED
    BY <1>2, <1>5, <2>1 DEF CacheInStep
<1> QED
  BY <1>2, <1>3, <1>4, <1>5 DEF PresenceInv

LEMMA FinishStep ==
  ASSUME PresenceInv, NEW h \in Handlers, doing[h] # "none", Finish(h),
         UNCHANGED presenceMishaps,
         online' \in BOOLEAN, available' \in BOOLEAN, loaded' \in BOOLEAN, sessionRows' \in Nat,
         SessionsInStep => OneSession' /\ (available => online)' /\ AsWished',
         SessionsInStep /\ CacheInStep => (tracked = ongoing \/ (tracked = {} /\ ~loaded))'
  PROVE  PresenceInv'
<1>1. HandlersBusy
  BY DEF PresenceInv
<1>2. HandlersBusy'
  BY <1>1, HandlerEnds DEF HandlersBusy
<1>3. ASSUME SessionsInStep
      PROVE  SessionsInStep'
  <2>1. OneHandler' /\ ~Busy' /\ \A g \in Handlers : nextStep'[g] = "idle"
    BY <1>1, <1>3, HandlerEnds DEF SessionsInStep
  <2> QED
    BY <1>3, <2>1 DEF SessionsInStep, OnTheWay, Busy
<1>4. ASSUME SessionsInStep, CacheInStep
      PROVE  CacheInStep'
  <2>1. \A g \in Handlers : nextStep'[g] = "idle"
    BY <1>1, <1>4, HandlerEnds DEF SessionsInStep
  <2> QED
    BY <1>4, <2>1 DEF CacheInStep
<1> QED
  BY <1>2, <1>3, <1>4 DEF PresenceInv

LEMMA WorkStep ==
  ASSUME PresenceInv, NEW h \in Handlers,
         \/ OpenSession(h) \/ LookForOrder(h) \/ SetOnline(h) \/ ListOrders(h) \/ ClearCache(h)
         \/ FillCache(h) \/ CloseSession(h) \/ SetOffline(h) \/ DropCache(h)
  PROVE  PresenceInv'
<1>1. HandlersBusy /\ online \in BOOLEAN /\ available \in BOOLEAN /\ loaded \in BOOLEAN /\ sessionRows \in Nat
  BY DEF PresenceInv, HandlersBusy
<1>2. doing[h] # "none"
  BY <1>1 DEF HandlersBusy, OpenSession, LookForOrder, SetOnline, ListOrders, ClearCache,
              FillCache, CloseSession, SetOffline, DropCache
<1>3. SessionsInStep => /\ OneSession /\ OnTheWay(h) /\ (available => online)
                        /\ IF Newest = 0 THEN openSessions = {} ELSE openSessions = {Newest}
  BY NewestOfOne DEF SessionsInStep
<1>4. SessionsInStep /\ CacheInStep /\ nextStep[h] # "fill" =>
        tracked = ongoing \/ (tracked = {} /\ ~loaded)
  BY <1>1, <1>2 DEF SessionsInStep, CacheInStep, OneHandler, HandlersBusy
<1>5. CASE OpenSession(h)
  <2>1. Continue(h, "look", NothingRead) /\ UNCHANGED <<online, available, tracked, loaded, ongoing>>
    BY <1>5 DEF OpenSession, cacheVars
  <2>2. sessionRows' \in Nat
    BY <1>1, <1>5 DEF OpenSession
  <2>3. ASSUME SessionsInStep
        PROVE  OneSession' /\ OnTheWay(h)'
    <3>1. doing[h] \in {"connect", "online"} /\ nextStep[h] = "open" /\ wish /\ heldRead[h].session = Newest
      BY <1>2, <1>3, <1>5, <2>3 DEF OpenSession, OnTheWay
    <3>2. openSessions' # {} /\ OneSession'
      BY <1>1, <1>3, <1>5, <2>3, <3>1 DEF OpenSession, OneSession
    <3>3. doing'[h] \in {"connect", "online"} /\ nextStep'[h] = "look" /\ wish'
      BY <1>1, <1>2, <2>1, <3>1, HandlerMoves
    <3> QED
      BY <3>2, <3>3 DEF OnTheWay
  <2> QED
    BY <1>1, <1>2, <1>3, <1>4, <1>5, <2>1, <2>2, <2>3, ContinueStep DEF OpenSession
<1>6. CASE LookForOrder(h) \/ ListOrders(h)
  <2>1. PICK step, r :
          /\ step \in {"row", "clear"} /\ Continue(h, step, r) /\ r.orders = ongoing
          /\ UNCHANGED <<presenceRowVars, ongoing, tracked, loaded>>
          /\ step = "row" => nextStep[h] = "look"
          /\ step = "clear" => nextStep[h] = "list"
    BY <1>6 DEF LookForOrder, ListOrders, cacheVars, NothingRead
  <2>2. SessionsInStep => OneSession' /\ OnTheWay(h)'
    BY <1>1, <1>2, <1>3, <2>1, HandlerMoves DEF OnTheWay, OneSession, presenceRowVars
  <2> QED
    BY <1>1, <1>2, <1>3, <1>4, <2>1, <2>2, ContinueStep DEF presenceRowVars
<1>7. CASE SetOnline(h)
  <2>1. online' = TRUE /\ available' \in BOOLEAN
        /\ UNCHANGED <<sessionRows, openSessions, ongoing, tracked, loaded>>
    BY <1>7 DEF SetOnline, cacheVars
  <2>2. CASE Continue(h, "list", NothingRead)
    <3>1. SessionsInStep => OneSession' /\ OnTheWay(h)'
      BY <1>1, <1>2, <1>3, <1>7, <2>1, <2>2, HandlerMoves DEF SetOnline, OnTheWay, OneSession
    <3> QED
      BY <1>1, <1>2, <1>3, <1>4, <1>7, <2>1, <2>2, <3>1, ContinueStep DEF SetOnline
  <2>3. CASE Finish(h) /\ UNCHANGED presenceMishaps
    <3>1. SessionsInStep => OneSession' /\ AsWished'
      BY <1>1, <1>2, <1>3, <1>7, <2>1, <2>3, HandlerEnds DEF SetOnline, OnTheWay, OneSession, AsWished
    <3> QED
      BY <1>1, <1>2, <1>3, <1>4, <1>7, <2>1, <2>3, <3>1, FinishStep DEF SetOnline
  <2> QED
    BY <1>7, <2>2, <2>3 DEF SetOnline
<1>8. CASE ClearCache(h)
  <2>1. Continue(h, "fill", heldRead[h]) /\ tracked' = {} /\ UNCHANGED <<presenceRowVars, ongoing, loaded>>
    BY <1>8 DEF ClearCache
  <2>2. SessionsInStep => OneSession' /\ OnTheWay(h)'
    <3>1. doing'[h] = "connect" /\ nextStep'[h] = "fill" /\ wish' = wish
      BY <1>1, <1>2, <1>8, <2>1, HandlerMoves DEF ClearCache
    <3>2. OnTheWay(h) => wish /\ openSessions # {} /\ online
      BY <1>8 DEF ClearCache, OnTheWay
    <3>3. UNCHANGED <<online, openSessions>>
      BY <2>1 DEF presenceRowVars
    <3> QED
      BY <1>3, <3>1, <3>2, <3>3 DEF OnTheWay, OneSession
  <2>3. CacheInStep => heldRead[h].orders = ongoing'
    BY <1>8, <2>1 DEF ClearCache, CacheInStep
  <2> QED
    BY <1>1, <1>2, <1>3, <2>1, <2>2, <2>3, ContinueStep DEF presenceRowVars
<1>9. CASE FillCache(h)
  <2>1. /\ Finish(h) /\ UNCHANGED <<presenceRowVars, ongoing, presenceMishaps>>
        /\ tracked' = tracked \cup heldRead[h].orders /\ loaded' = TRUE /\ nextStep[h] = "fill"
    BY <1>9 DEF FillCache
  <2>2. SessionsInStep => OneSession' /\ AsWished'
    BY <1>1, <1>2, <1>3, <2>1, HandlerEnds DEF OnTheWay, OneSession, AsWished, presenceRowVars
  <2>3. CacheInStep => tracked' = ongoing'
    BY <2>1 DEF CacheInStep
  <2> QED
    BY <1>1, <1>2, <1>3, <2>1, <2>2, <2>3, FinishStep DEF presenceRowVars
<1>10. CASE CloseSession(h)
  <2>1. Continue(h, "row", NothingRead) /\ nextStep[h] = "close" /\ openSessions' = openSessions \ {heldRead[h].session}
        /\ UNCHANGED <<online, available, sessionRows, ongoing, tracked, loaded>>
    BY <1>10 DEF CloseSession, cacheVars
  <2>2. ASSUME SessionsInStep
        PROVE  OneSession' /\ OnTheWay(h)'
    <3>1. doing[h] \in {"disconnect", "offline"} /\ ~wish /\ heldRead[h].session = Newest
      BY <1>2, <1>3, <2>1, <2>2 DEF OnTheWay
    <3>2. openSessions' = {}
      BY <1>3, <2>1, <2>2, <3>1
    <3> QED
      BY <1>1, <1>2, <2>1, <3>1, <3>2, HandlerMoves DEF OnTheWay, OneSession
  <2> QED
    BY <1>1, <1>2, <1>3, <1>4, <2>1, <2>2, ContinueStep
<1>11. CASE SetOffline(h)
  <2>1. online' = FALSE /\ available' = FALSE
        /\ UNCHANGED <<sessionRows, openSessions, ongoing, tracked, loaded>>
    BY <1>11 DEF SetOffline, cacheVars
  <2>2. CASE Continue(h, "clear", NothingRead) /\ doing[h] = "disconnect"
    <3>1. SessionsInStep => OneSession' /\ OnTheWay(h)'
      BY <1>1, <1>2, <1>3, <1>11, <2>1, <2>2, HandlerMoves DEF SetOffline, OnTheWay, OneSession
    <3> QED
      BY <1>1, <1>2, <1>4, <1>11, <2>1, <2>2, <3>1, ContinueStep DEF SetOffline
  <2>3. CASE Finish(h) /\ UNCHANGED presenceMishaps
    <3>1. SessionsInStep => OneSession' /\ AsWished'
      <4>1. OnTheWay(h) => ~wish /\ openSessions = {}
        BY <1>11 DEF SetOffline, OnTheWay
      <4>2. wish' = wish
        BY <1>1, <2>3, HandlerEnds
      <4> QED
        BY <1>3, <2>1, <4>1, <4>2 DEF OneSession, AsWished, PresenceInv, HandlersBusy
    <3> QED
      BY <1>1, <1>2, <1>4, <1>11, <2>1, <2>3, <3>1, FinishStep DEF SetOffline
  <2> QED
    BY <1>11, <2>2, <2>3 DEF SetOffline
<1>12. CASE DropCache(h)
  <2>1. /\ Finish(h) /\ UNCHANGED <<presenceRowVars, ongoing, presenceMishaps>>
        /\ tracked' = {} /\ loaded' = FALSE /\ nextStep[h] = "clear" /\ doing[h] = "disconnect"
    BY <1>12 DEF DropCache
  <2>2. SessionsInStep => OneSession' /\ AsWished'
    <3>1. OnTheWay(h) => ~wish /\ openSessions = {} /\ ~online
      BY <2>1 DEF OnTheWay
    <3>2. wish' = wish /\ UNCHANGED <<online, openSessions>>
      BY <1>1, <2>1, HandlerEnds DEF presenceRowVars
    <3> QED
      BY <1>1, <1>3, <3>1, <3>2 DEF OneSession, AsWished, HandlersBusy
  <2> QED
    BY <1>1, <1>2, <1>3, <2>1, <2>2, FinishStep DEF presenceRowVars
<1> QED
  BY <1>5, <1>6, <1>7, <1>8, <1>9, <1>10, <1>11, <1>12

(* Orders come and go, and the cache's mark expires. *)
LEMMA OrderStep ==
  ASSUME PresenceInv,
         \/ \E o \in Orders : EndOrder(o) \/ \E by \in {"competition", "admin", "popup"} : GiveOrder(o, by)
         \/ LoadedExpires
  PROVE  PresenceInv'
<1>1. /\ UNCHANGED <<online, sessionRows, openSessions, wish, presenceHandlerVars>>
      /\ available' \in BOOLEAN /\ (available' => available) /\ loaded' \in BOOLEAN
      /\ presenceMishaps \subseteq presenceMishaps'
  <2>0. available \in BOOLEAN /\ loaded \in BOOLEAN
    BY DEF PresenceInv, HandlersBusy
  <2>1. CASE LoadedExpires
    BY <2>0, <2>1 DEF LoadedExpires, presenceRowVars
  <2>2. CASE \E o \in Orders : \E by \in {"competition", "admin", "popup"} : GiveOrder(o, by)
    BY <2>0, <2>2 DEF GiveOrder
  <2>3. CASE \E o \in Orders : EndOrder(o)
    <3>1. /\ UNCHANGED <<presenceRowVars, wish, presenceHandlerVars, loaded>>
          /\ presenceMishaps \subseteq presenceMishaps'
      BY <2>3 DEF EndOrder
    <3> QED
      BY <2>0, <3>1 DEF presenceRowVars
  <2> QED
    BY <2>1, <2>2, <2>3
<1>2. HandlersBusy'
  BY <1>1 DEF PresenceInv, HandlersBusy, presenceHandlerVars
<1>3. SessionsInStep => SessionsInStep'
  <2>1. Newest' = Newest /\ AsWished' = AsWished /\ OneSession' = OneSession
    BY <1>1 DEF Newest, AsWished, OneSession
  <2>2. \A h \in Handlers : OnTheWay(h)' = OnTheWay(h)
    BY <1>1, <2>1 DEF OnTheWay, presenceHandlerVars
  <2> QED
    BY <1>1, <2>1, <2>2 DEF SessionsInStep, OneHandler, Busy, presenceHandlerVars
<1>4. ASSUME presenceMishaps' = {}, CacheInStep, LoadedExpires
      PROVE  CacheInStep'
  BY <1>1, <1>4 DEF LoadedExpires, CacheInStep, presenceHandlerVars
<1>5. ASSUME presenceMishaps' = {}, CacheInStep, NEW o \in Orders,
             EndOrder(o) \/ \E by \in {"competition", "admin", "popup"} : GiveOrder(o, by)
      PROVE  CacheInStep'
  <2>1. ~Busy
    BY <1>5 DEF EndOrder, GiveOrder, When
  <2>2. \A h \in Handlers : nextStep[h] = "idle" /\ nextStep'[h] = "idle"
    BY <1>1, <2>1 DEF PresenceInv, HandlersBusy, Busy, presenceHandlerVars
  <2>3. tracked = ongoing \/ (tracked = {} /\ ~loaded)
    BY <1>5, <2>2 DEF CacheInStep
  <2>4. CASE EndOrder(o)
    BY <2>2, <2>3, <2>4 DEF EndOrder, CacheInStep
  <2>5. ASSUME NEW by \in {"competition", "admin", "popup"}, GiveOrder(o, by)
        PROVE  CacheInStep'
    <3>1. loaded /\ by # "popup"
      BY <1>5, <2>5 DEF GiveOrder, When
    <3> QED
      BY <2>2, <2>3, <2>5, <3>1 DEF GiveOrder, CacheInStep
  <2> QED
    BY <1>5, <2>4, <2>5
<1> QED
  BY <1>1, <1>2, <1>3, <1>4, <1>5 DEF PresenceInv

(* After a failure nothing more is said. *)
LEMMA FailStep ==
  ASSUME PresenceInv, Crash \/ \E h \in Handlers : HandlerFails(h)
  PROVE  PresenceInv'
<1>1. "cut_short" \in presenceMishaps'
  BY DEF Crash, HandlerFails
<1>2. CASE Crash
  BY <1>1, <1>2 DEF Crash, PresenceInv, HandlersBusy, presenceRowVars, cacheVars
<1>3. ASSUME NEW h \in Handlers, HandlerFails(h)
      PROVE  PresenceInv'
  <2>1. HandlersBusy'
    BY <1>3, HandlerEnds DEF HandlerFails, PresenceInv, HandlersBusy, presenceRowVars, cacheVars
  <2> QED
    BY <1>1, <2>1 DEF PresenceInv
<1> QED
  BY <1>2, <1>3

LEMMA PresenceStepInv == PresenceInv /\ [PresenceNext]_presenceVars => PresenceInv'
<1> SUFFICES ASSUME PresenceInv, [PresenceNext]_presenceVars PROVE PresenceInv'
  OBVIOUS
<1>0. wish \in BOOLEAN
  BY DEF PresenceInv, HandlersBusy
<1>1. CASE UNCHANGED presenceVars
  <2>1. /\ HandlersBusy' = HandlersBusy /\ CacheInStep' = CacheInStep
        /\ OneHandler' = OneHandler /\ OneSession' = OneSession /\ Busy' = Busy
        /\ AsWished' = AsWished /\ Newest' = Newest
    BY <1>1 DEF presenceVars, presenceRowVars, cacheVars, presenceHandlerVars, HandlersBusy,
                CacheInStep, OneHandler, OneSession, Busy, AsWished, Newest
  <2>2. \A h \in Handlers : OnTheWay(h)' = OnTheWay(h)
    BY <1>1, <2>1 DEF presenceVars, presenceRowVars, presenceHandlerVars, OnTheWay
  <2> QED
    BY <1>1, <2>1, <2>2 DEF presenceVars, presenceRowVars, PresenceInv, SessionsInStep
<1>2. ASSUME NEW h \in Handlers, GoOnline(h) \/ \E s \in Sockets : Connect(h, s)
      PROVE  PresenceInv'
  <2>1. PICK event \in {"connect", "online"} : Online(h, event)
    BY <1>2 DEF GoOnline, Connect
  <2> DEFINE r == [NothingRead EXCEPT !.session = Newest]
  <2>2. r.session = Newest
    BY DEF NothingRead
  <2>3. Start(h, event, "open", r) /\ wish' = TRUE /\ presenceMishaps \subseteq presenceMishaps'
        /\ (Busy => "overlapped" \in presenceMishaps')
        /\ UNCHANGED <<presenceRowVars, ongoing, cacheVars>>
    BY <2>1 DEF Online, When
  <2> HIDE DEF r
  <2> QED
    BY <2>2, <2>3, EventStep
<1>3. ASSUME NEW h \in Handlers, GoOffline(h) \/ \E s \in Sockets : Disconnect(h, s)
      PROVE  PresenceInv'
  <2> DEFINE r == [NothingRead EXCEPT !.session = Newest]
  <2>1. r.session = Newest
    BY DEF NothingRead
  <2>2. PICK event \in {"disconnect", "offline"} :
          /\ Start(h, event, "close", r) /\ presenceMishaps \subseteq presenceMishaps'
          /\ wish' = FALSE \/ (event = "disconnect" /\ "closed_one" \in presenceMishaps')
          /\ wish' \in BOOLEAN
          /\ (Busy => "overlapped" \in presenceMishaps')
          /\ UNCHANGED <<presenceRowVars, ongoing, cacheVars>>
    BY <1>3 DEF GoOffline, Disconnect, When
  <2> HIDE DEF r
  <2> QED
    BY <2>1, <2>2, EventStep
<1>4. ASSUME NEW h \in Handlers, Location(h)
      PROVE  PresenceInv'
  <2> DEFINE r == [NothingRead EXCEPT !.orders = ongoing]
  <2>1. r.orders = ongoing
    BY DEF NothingRead
  <2>2. /\ Start(h, "location", "fill", r) /\ presenceMishaps \subseteq presenceMishaps'
        /\ wish' = wish /\ tracked = {}
        /\ (Busy => "overlapped" \in presenceMishaps')
        /\ UNCHANGED <<presenceRowVars, ongoing, cacheVars>>
    BY <1>4 DEF Location, Missed, When
  <2> HIDE DEF r
  <2> QED
    BY <1>0, <2>1, <2>2, EventStep
<1> QED
  BY <1>1, <1>2, <1>3, <1>4, WorkStep, OrderStep, FailStep DEF PresenceNext, HandlerStep

(* When no handler is at work, a rider is online and has exactly one open   *)
(* session, or neither, as he wished last, for any sockets, orders and      *)
(* handlers, unless the mishaps named have happened.                       *)
THEOREM OnlineInSession == PresenceSpec => []OnlineSession
<1>1. PresenceInv => OnlineSession
  <2> SUFFICES ASSUME PresenceInv, ~Busy,
                      {"overlapped", "closed_one", "cut_short"} \cap presenceMishaps = {}
               PROVE  /\ online = wish
                      /\ Cardinality(openSessions) = (IF wish THEN 1 ELSE 0)
                      /\ available => online
    BY DEF OnlineSession
  <2>1. OneSession /\ AsWished /\ (available => online)
    BY DEF PresenceInv, SessionsInStep
  <2>2. CASE openSessions = {}
    BY <2>1, <2>2, FS_EmptySet DEF AsWished
  <2>3. ASSUME NEW r \in Nat \ {0}, openSessions = {r}
        PROVE  Cardinality(openSessions) = 1 /\ wish
    <3>1. wish
      BY <2>1, <2>3 DEF AsWished
    <3> QED
      BY <2>3, <3>1, FS_Singleton
  <2> QED
    BY <2>1, <2>2, <2>3 DEF OneSession, AsWished
<1> QED
  BY <1>1, PresenceInitInv, PresenceStepInv, PTL DEF PresenceSpec

(* A connected rider's position goes to the customers of his orders under   *)
(* way and to no other, for any sockets, orders and handlers, as long as no *)
(* mishap has happened.                                                    *)
THEOREM RightCustomersFollow == PresenceSpec => []CustomersFollow
<1>1. PresenceInv => CustomersFollow
  <2> SUFFICES ASSUME PresenceInv, ~Busy, presenceMishaps = {}
               PROVE  Followed = ongoing
    BY DEF CustomersFollow
  <2>1. \A h \in Handlers : nextStep[h] = "idle"
    BY DEF PresenceInv, HandlersBusy, Busy
  <2>2. tracked = ongoing \/ (tracked = {} /\ ~loaded)
    BY <2>1 DEF PresenceInv, CacheInStep
  <2> QED
    BY <2>2 DEF Followed, Missed
<1> QED
  BY <1>1, PresenceInitInv, PresenceStepInv, PTL DEF PresenceSpec

-----------------------------------------------------------------------------
(* Proofs about Pushes, for every set of stops, evaluations and jobs.  As  *)
(* long as one evaluation at a time is between its look and its row, and   *)
(* the stops keep their order, the stops with a row, and the one whose     *)
(* alert is queued and its row not yet made, are those alerted.            *)

(* A rule is looked up, and its row is not made yet. *)
Firing(e) == evalAt[e] \in {"looked", "queued"}

OneFiring == \A d, e \in Evaluations : Firing(d) /\ Firing(e) => d = e

FiringNext ==
  \A e \in Evaluations :
    Firing(e) => /\ evalStop[e] \in RouteStops
                 /\ evalIndex[e] = IndexOf(evalStop[e]) /\ evalIndex[e] \notin fired

Queued(s) == \E e \in Evaluations : evalAt[e] = "queued" /\ evalStop[e] = s

AlertsExplained ==
  \A s \in RouteStops : alerts[s] = IF IndexOf(s) \in fired \/ Queued(s) THEN 1 ELSE 0

PushTypes ==
  /\ route \in Routes /\ passed \subseteq RouteStops
  /\ alerts \in [RouteStops -> Nat]
  /\ DOMAIN evalAt = Evaluations /\ DOMAIN evalStop = Evaluations /\ DOMAIN evalIndex = Evaluations

PushesInv ==
  /\ PushTypes
  /\ {"at_once", "no_phone", "cut_short", "reordered"} \cap pushIncidents = {} =>
       OneFiring /\ FiringNext /\ AlertsExplained

LEMMA LeastNumber ==
  ASSUME NEW T \in SUBSET Nat, T # {}
  PROVE  \E i \in T : \A k \in T : i <= k
<1>1. PICK i \in T : \A k \in T : <<k, i>> \notin OpToRel(<, Nat)
  BY NatLessThanWellFounded, WFMin
<1>2. \A k \in T : ~(k < i)
  BY <1>1 DEF OpToRel
<1> QED
  BY <1>2

(* Every stop has one place in the route. *)
LEMMA StopsHaveIndexes ==
  ASSUME route \in Routes, NEW s \in RouteStops
  PROVE  IndexOf(s) \in Indexes /\ route[IndexOf(s)] = s
<1>1. Cardinality(RouteStops) \in Nat
  BY PushesAssumption, FS_CardinalityType
<1>2. IsFiniteSet(Indexes) /\ Cardinality(Indexes) = Cardinality(RouteStops)
  BY <1>1, FS_Interval DEF Indexes
<1>3. route \in Injection(Indexes, RouteStops)
  BY DEF Routes, Injection, IsInjective
<1>4. route \in Surjection(Indexes, RouteStops)
  BY <1>2, <1>3, PushesAssumption, FS_Injection
<1>5. \E i \in Indexes : route[i] = s
  BY <1>4 DEF Surjection
<1> QED
  BY <1>5 DEF IndexOf

LEMMA ActiveStopIsNext ==
  ASSUME route \in Routes, ActiveStop # NoStopYet, passed \subseteq RouteStops
  PROVE  ActiveStop \in RouteStops
<1>1. PICK s \in RouteStops : s \notin passed
  BY DEF ActiveStop
<1> DEFINE Left == {i \in Indexes : route[i] \notin passed}
<1>2. Left \in SUBSET Nat /\ Left # {}
  BY <1>1, StopsHaveIndexes DEF Indexes
<1>3. PICK i \in Left : \A k \in Left : i <= k
  BY <1>2, LeastNumber
<1>4. \A k \in 1 .. i - 1 : k \in Indexes /\ k \notin Left
  BY <1>2, <1>3, FS_CardinalityType, PushesAssumption DEF Indexes
<1>5. \E j \in Indexes : route[j] \notin passed /\ \A k \in 1 .. j - 1 : route[k] \in passed
  BY <1>3, <1>4
<1>6. \E j \in Indexes : ActiveStop = route[j]
  BY <1>1, <1>5 DEF ActiveStop
<1> QED
  BY <1>6 DEF Routes

LEMMA PushesInitInv == PushesInit => PushesInv
<1> SUFFICES ASSUME PushesInit PROVE PushesInv
  OBVIOUS
<1>1. PushTypes
  BY DEF PushesInit, PushTypes
<1>2. OneFiring /\ FiringNext
  BY DEF PushesInit, OneFiring, FiringNext, Firing
<1>3. AlertsExplained
  BY DEF PushesInit, AlertsExplained, Queued
<1> QED
  BY <1>1, <1>2, <1>3 DEF PushesInv

LEMMA EvaluateTypes ==
  ASSUME PushTypes, NEW e \in Evaluations, NEW step, NEW stop, NEW index,
         Evaluate(e, step, stop, index), alerts' \in [RouteStops -> Nat]
  PROVE  /\ PushTypes'
         /\ evalAt'[e] = step /\ evalStop'[e] = stop /\ evalIndex'[e] = index
         /\ \A d \in Evaluations \ {e} :
              evalAt'[d] = evalAt[d] /\ evalStop'[d] = evalStop[d] /\ evalIndex'[d] = evalIndex[d]
         /\ \A s : IndexOf(s)' = IndexOf(s)
  BY DEF PushTypes, Evaluate, IndexOf

(* An evaluation that was not firing begins or ends, or one that has queued *)
(* nothing ends.                                                           *)
LEMMA QuietStep ==
  ASSUME PushesInv, NEW e \in Evaluations, UNCHANGED <<fired, alerts>>,
         evalAt[e] # "queued",
         \/ Over(e)
         \/ Evaluate(e, "measured", NoStopYet, 0),
         pushIncidents \subseteq pushIncidents'
  PROVE  PushesInv'
<1>1. PICK step \in {"idle", "measured"} : Evaluate(e, step, NoStopYet, 0)
  BY DEF Over
<1>2. /\ PushTypes'
      /\ evalAt'[e] = step
      /\ \A d \in Evaluations \ {e} :
           evalAt'[d] = evalAt[d] /\ evalStop'[d] = evalStop[d] /\ evalIndex'[d] = evalIndex[d]
      /\ \A s : IndexOf(s)' = IndexOf(s)
  BY <1>1, EvaluateTypes DEF PushesInv, PushTypes
<1>3. \A d \in Evaluations : Firing(d)' => Firing(d) /\ d # e
  BY <1>2 DEF Firing
<1>4. \A s : Queued(s)' = Queued(s)
  BY <1>2 DEF Queued
<1>5. OneFiring => OneFiring'
  BY <1>3 DEF OneFiring
<1>6. FiringNext => FiringNext'
  BY <1>2, <1>3 DEF FiringNext
<1>7. AlertsExplained => AlertsExplained'
  BY <1>2, <1>4 DEF AlertsExplained
<1> QED
  BY <1>2, <1>5, <1>6, <1>7 DEF PushesInv

LEMMA LookUpStep ==
  ASSUME PushesInv, NEW e \in Evaluations, LookUp(e)
  PROVE  PushesInv'
<1>1. /\ Evaluate(e, "looked", ActiveStop, IndexOf(ActiveStop))
      /\ ActiveStop \in RouteStops /\ IndexOf(ActiveStop) \notin fired
      /\ UNCHANGED <<fired, alerts>>
  BY ActiveStopIsNext DEF LookUp, PushesInv, PushTypes
<1>2. /\ PushTypes'
      /\ evalAt'[e] = "looked" /\ evalStop'[e] = ActiveStop /\ evalIndex'[e] = IndexOf(ActiveStop)
      /\ \A d \in Evaluations \ {e} :
           evalAt'[d] = evalAt[d] /\ evalStop'[d] = evalStop[d] /\ evalIndex'[d] = evalIndex[d]
      /\ \A s : IndexOf(s)' = IndexOf(s)
  BY <1>1, EvaluateTypes DEF PushesInv, PushTypes
<1>3. ASSUME {"at_once", "no_phone", "cut_short", "reordered"} \cap pushIncidents' = {}
      PROVE  OneFiring' /\ FiringNext' /\ AlertsExplained'
  <2>1. \A d \in Evaluations : ~Firing(d)
    BY <1>3 DEF LookUp, When, Firing
  <2>2. OneFiring /\ FiringNext /\ AlertsExplained
    BY <1>3 DEF LookUp, PushesInv
  <2>3. OneFiring'
    BY <1>2, <2>1 DEF OneFiring, Firing
  <2>4. FiringNext'
    BY <1>1, <1>2, <2>1, <2>2 DEF FiringNext, Firing
  <2>5. \A s : Queued(s)' = Queued(s)
    BY <1>2, <2>1 DEF Queued, Firing
  <2> QED
    BY <1>1, <1>2, <2>2, <2>3, <2>4, <2>5 DEF AlertsExplained
<1> QED
  BY <1>2, <1>3 DEF PushesInv

LEMMA QueueStep ==
  ASSUME PushesInv, NEW e \in Evaluations, NEW j \in Jobs, NEW phone \in BOOLEAN,
         QueueAlert(e, j, phone)
  PROVE  PushesInv'
<1>1. PICK step, stop, index :
        /\ Evaluate(e, step, stop, index)
        /\ phone => step = "queued" /\ stop = evalStop[e] /\ index = evalIndex[e]
  BY DEF QueueAlert, Over
<1>2. /\ alerts' = [alerts EXCEPT ![evalStop[e]] = @ + 1] /\ alerts' \in [RouteStops -> Nat]
      /\ UNCHANGED fired
  <2>1. alerts' = [alerts EXCEPT ![evalStop[e]] = @ + 1] /\ UNCHANGED fired
    BY DEF QueueAlert
  <2>2. alerts \in [RouteStops -> Nat]
    BY DEF PushesInv, PushTypes
  <2>3. DOMAIN alerts' = RouteStops /\ \A s \in RouteStops : alerts'[s] \in Nat
    BY <2>1, <2>2
  <2> QED
    BY <2>1, <2>2, <2>3
<1>3. /\ PushTypes'
      /\ evalAt'[e] = step /\ evalStop'[e] = stop /\ evalIndex'[e] = index
      /\ \A d \in Evaluations \ {e} :
           evalAt'[d] = evalAt[d] /\ evalStop'[d] = evalStop[d] /\ evalIndex'[d] = evalIndex[d]
      /\ \A s : IndexOf(s)' = IndexOf(s)
  BY <1>1, <1>2, EvaluateTypes DEF PushesInv
<1>4. ASSUME {"at_once", "no_phone", "cut_short", "reordered"} \cap pushIncidents' = {}
      PROVE  OneFiring' /\ FiringNext' /\ AlertsExplained'
  <2>1. /\ evalAt[e] = "looked" /\ evalAt'[e] = "queued"
        /\ evalStop'[e] = evalStop[e] /\ evalIndex'[e] = evalIndex[e]
    BY <1>1, <1>3, <1>4 DEF QueueAlert, When
  <2>2. OneFiring /\ FiringNext /\ AlertsExplained
    BY <1>4 DEF QueueAlert, PushesInv
  <2>3. \A d \in Evaluations : d # e => ~Firing(d) /\ ~Firing(d)'
    BY <1>3, <2>1, <2>2 DEF OneFiring, Firing
  <2>4. OneFiring' /\ FiringNext'
    BY <1>2, <1>3, <2>1, <2>2, <2>3 DEF OneFiring, FiringNext, Firing
  <2>5. \A s : ~Queued(s) /\ (Queued(s)' <=> s = evalStop[e])
    BY <2>1, <2>3 DEF Queued, Firing
  <2>6. evalStop[e] \in RouteStops /\ IndexOf(evalStop[e]) \notin fired
    BY <2>1, <2>2 DEF FiringNext, Firing
  <2>7. ASSUME NEW s \in RouteStops
        PROVE  alerts'[s] = IF IndexOf(s)' \in fired' \/ Queued(s)' THEN 1 ELSE 0
    <3>1. alerts[s] = IF IndexOf(s) \in fired THEN 1 ELSE 0
      BY <2>2, <2>5 DEF AlertsExplained
    <3>2. alerts'[s] = IF s = evalStop[e] THEN alerts[s] + 1 ELSE alerts[s]
      BY <1>2 DEF PushesInv, PushTypes
    <3> QED
      BY <1>2, <1>3, <2>5, <2>6, <3>1, <3>2
  <2> QED
    BY <2>4, <2>7 DEF AlertsExplained
<1> QED
  BY <1>3, <1>4 DEF PushesInv

LEMMA MarkStep ==
  ASSUME PushesInv, NEW e \in Evaluations, MarkFired(e)
  PROVE  PushesInv'
<1>1. /\ Evaluate(e, "idle", NoStopYet, 0) /\ evalAt[e] = "queued"
      /\ fired' = fired \cup {evalIndex[e]} /\ UNCHANGED <<alerts, pushIncidents>>
  BY DEF MarkFired, Over
<1>2. /\ PushTypes'
      /\ evalAt'[e] = "idle"
      /\ \A d \in Evaluations \ {e} :
           evalAt'[d] = evalAt[d] /\ evalStop'[d] = evalStop[d] /\ evalIndex'[d] = evalIndex[d]
      /\ \A s : IndexOf(s)' = IndexOf(s)
  BY <1>1, EvaluateTypes DEF PushesInv, PushTypes
<1>3. ASSUME OneFiring, FiringNext, AlertsExplained
      PROVE  OneFiring' /\ FiringNext' /\ AlertsExplained'
  <2>1. \A d \in Evaluations : (d # e => ~Firing(d)) /\ ~Firing(d)'
    BY <1>1, <1>2, <1>3 DEF OneFiring, Firing
  <2>2. OneFiring' /\ FiringNext'
    BY <2>1 DEF OneFiring, FiringNext
  <2>3. \A s : ~Queued(s)' /\ (Queued(s) <=> s = evalStop[e])
    BY <1>1, <2>1 DEF Queued, Firing
  <2>4. evalStop[e] \in RouteStops /\ evalIndex[e] = IndexOf(evalStop[e])
    BY <1>1, <1>3 DEF FiringNext, Firing
  <2>5. \A s \in RouteStops : IndexOf(s) = evalIndex[e] <=> s = evalStop[e]
    BY <2>4, StopsHaveIndexes DEF PushesInv, PushTypes
  <2> QED
    BY <1>1, <1>2, <1>3, <2>2, <2>3, <2>5 DEF AlertsExplained
<1> QED
  BY <1>1, <1>2, <1>3 DEF PushesInv

(* Steps that leave the evaluations alone, or after which nothing is said. *)
LEMMA OtherPushSteps ==
  ASSUME PushesInv,
         \/ /\ UNCHANGED <<fired, alerts, evalAt, evalStop, evalIndex, route>>
            /\ passed' \subseteq RouteStops /\ pushIncidents \subseteq pushIncidents'
         \/ \E e \in Evaluations : CutShort(e) /\ evalAt[e] = "queued"
         \/ \E r \in Routes : Reorder(r)
  PROVE  PushesInv'
<1>1. CASE /\ UNCHANGED <<fired, alerts, evalAt, evalStop, evalIndex, route>>
           /\ passed' \subseteq RouteStops /\ pushIncidents \subseteq pushIncidents'
  <2>1. /\ PushTypes'
        /\ OneFiring' = OneFiring /\ FiringNext' = FiringNext /\ AlertsExplained' = AlertsExplained
    BY <1>1 DEF PushesInv, PushTypes, OneFiring, FiringNext, AlertsExplained, Firing, Queued, IndexOf
  <2> QED
    BY <1>1, <2>1 DEF PushesInv
<1>2. ASSUME NEW e \in Evaluations, CutShort(e), evalAt[e] = "queued"
      PROVE  PushesInv'
  <2>1. PushTypes' /\ "cut_short" \in pushIncidents'
    BY <1>2, EvaluateTypes DEF CutShort, Over, PushesInv, PushTypes, When
  <2> QED
    BY <2>1 DEF PushesInv
<1>3. ASSUME NEW r \in Routes, Reorder(r)
      PROVE  PushesInv'
  <2>1. PushTypes' /\ "reordered" \in pushIncidents'
    BY <1>3 DEF Reorder, PushesInv, PushTypes
  <2> QED
    BY <2>1 DEF PushesInv
<1> QED
  BY <1>1, <1>2, <1>3

LEMMA PushesStepInv == PushesInv /\ [PushesNext]_pushVars => PushesInv'
<1> SUFFICES ASSUME PushesInv, [PushesNext]_pushVars
             PROVE  PushesInv'
  OBVIOUS
<1> USE DEF PushesInv, PushTypes
<1>1. CASE UNCHANGED pushVars
  BY <1>1, OtherPushSteps DEF pushVars, ruleVars
<1>2. ASSUME NEW e \in Evaluations, Measure(e) \/ NotFired(e)
      PROVE  PushesInv'
  BY <1>2, QuietStep DEF Measure, NotFired
<1>3. ASSUME NEW e \in Evaluations, CutShort(e)
      PROVE  PushesInv'
  <2>1. CASE evalAt[e] = "queued"
    BY <1>3, <2>1, OtherPushSteps
  <2>2. CASE evalAt[e] # "queued"
    BY <1>3, <2>2, QuietStep DEF CutShort
  <2> QED
    BY <2>1, <2>2
<1>4. ASSUME NEW s \in RouteStops, PassStop(s)
      PROVE  PushesInv'
  BY <1>4, OtherPushSteps DEF PassStop
<1>5. ASSUME NEW j \in Jobs,
             (\E s \in {"whole", "bare"} : QueuePush(j, s)) \/ Send(j) \/ Keep(j) \/ Throw(j)
      PROVE  PushesInv'
  BY <1>5, OtherPushSteps DEF QueuePush, Send, Keep, Throw, ruleVars
<1> QED
  BY <1>1, <1>2, <1>3, <1>4, <1>5, LookUpStep, QueueStep, MarkStep, OtherPushSteps DEF PushesNext

(* A stop of the order is alerted once at most, and once when its row was   *)
(* made, for any stops, evaluations and jobs, unless the incidents named    *)
(* have happened.                                                          *)
THEOREM StopsAlertedOnce == PushesSpec => []StopAlertedOnce
<1>1. PushesInv => StopAlertedOnce
  BY DEF PushesInv, StopAlertedOnce, AlertsExplained
<1> QED
  BY <1>1, PushesInitInv, PushesStepInv, PTL DEF PushesSpec

-----------------------------------------------------------------------------
(* Proofs about Notices, for every set of runs and edits and any times.  A *)
(* notice that is due, is listed, or will have its mark taken back by an   *)
(* edit is a send still to come.  Sends made and to come are never more    *)
(* than were ordered, as long as one run at a time is about to send or     *)
(* mark.                                                                   *)

(* The edits that will take the mark back, each of which is an order. *)
Unmarking == {e \in Edits : edit[e].pending /\ edit[e].forced /\ ~edit[e].marked}

RunUnderWay == \E r \in SchedulerRuns : runAt[r] # "idle"

(* The send that a run will make, or that is due. *)
DueOrListed ==
  IF \E r \in SchedulerRuns : runAt[r] = "listed" THEN 1
  ELSE IF RunUnderWay \/ marked \/ ~there THEN 0
  ELSE 1

OneRun ==
  \A q, r \in SchedulerRuns : runAt[q] # "idle" /\ runAt[r] # "idle" => q = r

NoticeTypes ==
  /\ there \in BOOLEAN /\ marked \in BOOLEAN
  /\ sends \in Nat /\ sending \in Nat /\ ordered \in Nat
  /\ runAt \in [SchedulerRuns -> {"idle", "listed", "sent"}]
  /\ DOMAIN edit = Edits /\ \A e \in Edits : edit[e].marked \in BOOLEAN

NoticesInv ==
  /\ NoticeTypes
  /\ {"overlap", "cut_short", "stale_edit"} \cap noticeIncidents = {} =>
       /\ OneRun
       /\ sends + sending + Cardinality(Unmarking) + DueOrListed <= ordered
  /\ {"cut_short", "by_hand"} \cap noticeIncidents = {} =>
       /\ there /\ marked => sends + sending > 0
       /\ \A r \in SchedulerRuns : runAt[r] = "sent" => sends + sending > 0

LEMMA UnmarkingIsFinite == IsFiniteSet(Unmarking) /\ Cardinality(Unmarking) \in Nat
  BY FS_Subset, FS_CardinalityType, NoticesAssumption DEF Unmarking

LEMMA NoticesInitInv == NoticesInit => NoticesInv
<1> SUFFICES ASSUME NoticesInit PROVE NoticesInv
  OBVIOUS
<1>1. Unmarking = {}
  BY DEF NoticesInit, Unmarking, NoEdit
<1>2. Cardinality(Unmarking) = 0
  BY <1>1, FS_EmptySet
<1>3. NoticeTypes
  <2>1. /\ runAt \in [SchedulerRuns -> {"idle", "listed", "sent"}]
        /\ there \in BOOLEAN /\ marked \in BOOLEAN
    BY DEF NoticesInit
  <2>2. sends \in Nat /\ sending \in Nat /\ ordered \in Nat
    BY DEF NoticesInit
  <2>3. DOMAIN edit = Edits /\ \A e \in Edits : edit[e].marked \in BOOLEAN
    BY DEF NoticesInit, NoEdit
  <2> QED
    BY <2>1, <2>2, <2>3 DEF NoticeTypes
<1>4. DueOrListed + sending = 1
  BY DEF NoticesInit, DueOrListed, RunUnderWay
<1> QED
  <2>1. sends = 0 /\ ordered = 1 /\ \A r \in SchedulerRuns : runAt[r] = "idle"
    BY DEF NoticesInit
  <2>2. marked => sending > 0
    BY DEF NoticesInit
  <2>3. DueOrListed \in Nat /\ sending \in Nat
    BY <1>3 DEF NoticeTypes, DueOrListed
  <2>4. sends + sending + Cardinality(Unmarking) + DueOrListed <= ordered
    BY <1>2, <1>4, <2>1, <2>3
  <2>5. OneRun
    BY <2>1 DEF OneRun
  <2>6. there /\ marked => sends + sending > 0
    BY <2>1, <2>2, <2>3
  <2>7. \A r \in SchedulerRuns : runAt[r] = "sent" => sends + sending > 0
    BY <2>1
  <2> QED
    BY <1>3, <2>4, <2>5, <2>6, <2>7 DEF NoticesInv

(* A step that leaves the edits alone leaves what they will take back. *)
LEMMA UnmarkingStays == UNCHANGED edit => Unmarking' = Unmarking
  BY DEF Unmarking

(* A run goes from step to step. *)
LEMMA RunStep ==
  ASSUME NoticesInv, NEW r \in SchedulerRuns,
         ListDue(r) \/ SendListed(r) \/ MarkSent(r) \/ RunFails(r)
  PROVE  NoticesInv'
<1> USE DEF NoticesInv
<1>1. Unmarking' = Unmarking /\ Cardinality(Unmarking) \in Nat
  BY UnmarkingStays, UnmarkingIsFinite DEF ListDue, SendListed, MarkSent, RunFails
<1>2. NoticeTypes'
  <2>1. CASE ListDue(r) \/ RunFails(r)
    BY <2>1 DEF ListDue, RunFails, NoticeTypes, noticeRow
  <2>2. CASE SendListed(r)
    BY <2>2 DEF SendListed, NoticeTypes, noticeRow
  <2>3. CASE MarkSent(r)
    <3>1. marked' \in BOOLEAN
      BY <2>3 DEF MarkSent
    <3>2. UNCHANGED <<there, sends, sending, ordered, edit>> /\ runAt' = [runAt EXCEPT ![r] = "idle"]
      BY <2>3 DEF MarkSent
    <3> QED
      BY <3>1, <3>2 DEF NoticeTypes
  <2> QED
    BY <2>1, <2>2, <2>3
<1>3. \A q \in SchedulerRuns : q # r => runAt'[q] = runAt[q]
  BY DEF ListDue, SendListed, MarkSent, RunFails, NoticeTypes
<1>4. noticeIncidents \subseteq noticeIncidents'
  BY DEF ListDue, SendListed, MarkSent, RunFails
<1>5. ASSUME {"overlap", "cut_short", "stale_edit"} \cap noticeIncidents' = {}
      PROVE  /\ OneRun'
             /\ (sends + sending + Cardinality(Unmarking) + DueOrListed <= ordered)'
  <2>1. /\ OneRun
        /\ sends + sending + Cardinality(Unmarking) + DueOrListed <= ordered
    BY <1>4, <1>5
  <2>2. CASE ListDue(r)
    <3>1. \A q \in SchedulerRuns : runAt[q] = "idle"
      BY <1>5, <2>2 DEF ListDue, When
    <3>2. DueOrListed = 1 /\ DueOrListed' = 1
      BY <2>2, <3>1 DEF ListDue, Due, DueOrListed, RunUnderWay, NoticeTypes, noticeRow
    <3> QED
      BY <1>1, <1>3, <2>1, <2>2, <3>1, <3>2 DEF ListDue, OneRun
  <2>3. CASE SendListed(r)
    <3>1. \A q \in SchedulerRuns : q # r => runAt[q] = "idle"
      BY <2>1, <2>3 DEF SendListed, OneRun
    <3>2. DueOrListed = 1 /\ DueOrListed' = 0
      BY <1>3, <2>3, <3>1 DEF SendListed, DueOrListed, RunUnderWay, NoticeTypes
    <3> QED
      BY <1>1, <1>2, <1>3, <2>1, <2>3, <3>1, <3>2 DEF SendListed, OneRun, NoticeTypes
  <2>4. CASE MarkSent(r)
    <3>1. \A q \in SchedulerRuns : q # r => runAt[q] = "idle"
      BY <2>1, <2>4 DEF MarkSent, OneRun
    <3>2. DueOrListed = 0 /\ DueOrListed' = 0
      BY <1>3, <2>4, <3>1 DEF MarkSent, DueOrListed, RunUnderWay, NoticeTypes
    <3> QED
      BY <1>1, <1>3, <2>1, <2>4, <3>1, <3>2 DEF MarkSent, OneRun
  <2>5. CASE RunFails(r)
    <3>1. runAt[r] = "listed"
      BY <1>5, <2>5 DEF RunFails, When, NoticeTypes
    <3>2. DueOrListed = 1 /\ DueOrListed' \in {0, 1}
      BY <3>1 DEF DueOrListed
    <3> QED
      BY <1>1, <1>2, <1>3, <2>1, <2>5, <3>1, <3>2 DEF RunFails, OneRun, noticeRow, NoticeTypes
  <2> QED
    BY <2>2, <2>3, <2>4, <2>5
<1>6. ASSUME {"cut_short", "by_hand"} \cap noticeIncidents' = {}
      PROVE  /\ (there /\ marked => sends + sending > 0)'
             /\ \A q \in SchedulerRuns : runAt'[q] = "sent" => (sends + sending > 0)'
  <2>1. /\ there /\ marked => sends + sending > 0
        /\ \A q \in SchedulerRuns : runAt[q] = "sent" => sends + sending > 0
    BY <1>4, <1>6
  <2>2. CASE ListDue(r) \/ RunFails(r)
    <3>1. UNCHANGED <<there, marked, sends, sending>> /\ runAt'[r] # "sent"
      BY <2>2 DEF ListDue, RunFails, noticeRow, NoticeTypes
    <3> QED
      BY <1>3, <2>1, <3>1
  <2>3. CASE SendListed(r)
    BY <2>3 DEF SendListed, NoticeTypes
  <2>4. CASE MarkSent(r)
    <3>1. sends + sending > 0 /\ UNCHANGED <<sends, sending>>
      BY <2>1, <2>4 DEF MarkSent
    <3> QED
      BY <3>1
  <2> QED
    BY <2>2, <2>3, <2>4
<1> QED
  BY <1>2, <1>5, <1>6

(* An edit of the mark is counted from the read to the write. *)
LEMMA EditReadStep ==
  ASSUME NoticesInv, NEW e \in Edits, NEW what \in {"marked", "active", "schedule", "text"}, NEW to,
         EditRead(e, what, to),
         what \in {"marked", "active"} => to \in BOOLEAN,
         what = "schedule" => to \in 1 .. LastTime
  PROVE  NoticesInv'
<1> USE DEF NoticesInv
<1>1. /\ DOMAIN edit' = Edits /\ \A d \in Edits \ {e} : edit'[d] = edit[d]
      /\ edit'[e].pending /\ edit'[e].forced = (what = "marked")
      /\ edit'[e].marked = (IF what = "marked" THEN to ELSE marked)
  BY DEF EditRead, NoticeTypes
<1>2. NoticeTypes'
  BY <1>1 DEF EditRead, NoticeTypes, noticeRow
<1>3. e \notin Unmarking
  BY DEF EditRead, Unmarking
<1>6. DueOrListed' = DueOrListed /\ DueOrListed \in {0, 1} /\ OneRun' = OneRun
  BY DEF EditRead, DueOrListed, RunUnderWay, OneRun, noticeRow
<1>4. CASE what = "marked" /\ ~to
  <2>1. Unmarking' = Unmarking \cup {e} /\ ordered' = ordered + 1
    BY <1>1, <1>3, <1>4 DEF Unmarking, EditRead
  <2>2. Cardinality(Unmarking \cup {e}) = Cardinality(Unmarking) + 1
    BY <1>3, UnmarkingIsFinite, FS_AddElement
  <2> QED
    BY <1>2, <1>6, <2>1, <2>2, UnmarkingIsFinite DEF EditRead, noticeRow, NoticeTypes
<1>5. CASE ~(what = "marked" /\ ~to)
  <2>1. Unmarking' = Unmarking /\ ordered' = ordered
    BY <1>1, <1>3, <1>5 DEF Unmarking, EditRead
  <2> QED
    BY <1>2, <1>6, <2>1, UnmarkingIsFinite DEF EditRead, noticeRow, NoticeTypes
<1> QED
  BY <1>4, <1>5

LEMMA EditWriteStep ==
  ASSUME NoticesInv, NEW e \in Edits, EditWrite(e)
  PROVE  NoticesInv'
<1> USE DEF NoticesInv
<1>1. NoticeTypes'
  BY NoticesAssumption DEF EditWrite, NoticeTypes, NoEdit, Times
<1>2. Unmarking' = Unmarking \ {e}
  BY DEF EditWrite, Unmarking, NoEdit, NoticeTypes
<1>3. /\ Cardinality(Unmarking) \in Nat /\ Cardinality(Unmarking') \in Nat
      /\ Cardinality(Unmarking') = Cardinality(Unmarking) - (IF e \in Unmarking THEN 1 ELSE 0)
  <2>1. /\ IsFiniteSet(Unmarking \ {e})
        /\ Cardinality(Unmarking \ {e}) = IF e \in Unmarking THEN Cardinality(Unmarking) - 1
                                                           ELSE Cardinality(Unmarking)
    BY UnmarkingIsFinite, FS_RemoveElement
  <2>2. Cardinality(Unmarking \ {e}) \in Nat
    BY <2>1, FS_CardinalityType
  <2> QED
    BY <1>2, <2>1, <2>2, UnmarkingIsFinite
<1>4. ASSUME {"overlap", "cut_short", "stale_edit"} \cap noticeIncidents' = {}
      PROVE  (sends + sending + Cardinality(Unmarking) + DueOrListed <= ordered)'
  <2>1. sends + sending + Cardinality(Unmarking) + DueOrListed <= ordered
    BY <1>4 DEF EditWrite
  <2>2. DueOrListed \in {0, 1} /\ DueOrListed' \in {0, 1}
    BY DEF DueOrListed
  <2>3. DueOrListed' <= DueOrListed + (IF e \in Unmarking THEN 1 ELSE 0)
    <3>1. marked /\ ~edit[e].marked => edit[e].forced
      BY <1>4 DEF EditWrite, When
    <3>2. marked /\ ~marked' => e \in Unmarking
      BY <3>1 DEF EditWrite, Unmarking, NoticeTypes
    <3> QED
      BY <2>2, <3>2 DEF EditWrite, DueOrListed, RunUnderWay
  <2> QED
    BY <1>1, <1>3, <2>1, <2>2, <2>3 DEF EditWrite, NoticeTypes
<1>5. ASSUME {"cut_short", "by_hand"} \cap noticeIncidents' = {}
      PROVE  marked' => marked
  BY <1>5 DEF EditWrite, When
<1> QED
  BY <1>1, <1>4, <1>5 DEF EditWrite, OneRun

LEMMA NoticesStepInv == NoticesInv /\ [NoticesNext]_noticeVars => NoticesInv'
<1> SUFFICES ASSUME NoticesInv, [NoticesNext]_noticeVars
             PROVE  NoticesInv'
  OBVIOUS
<1>1. Cardinality(Unmarking) \in Nat /\ DueOrListed \in {0, 1}
  BY UnmarkingIsFinite DEF DueOrListed
<1>2. CASE UNCHANGED noticeVars
  BY <1>2, UnmarkingStays
     DEF noticeVars, noticeRow, NoticesInv, NoticeTypes, DueOrListed, RunUnderWay, OneRun
<1>3. CASE DeactivateExpired \/ TimePasses \/ DisablePromotion
  <2>1. UNCHANGED <<there, marked, sending, sends, ordered, runAt, edit, noticeIncidents>>
    BY <1>3 DEF DeactivateExpired, TimePasses, DisablePromotion, noticeRow
  <2>2. NoticeTypes'
    BY <1>3, NoticesAssumption
       DEF NoticesInv, NoticeTypes, DeactivateExpired, TimePasses, DisablePromotion, noticeRow, Times
  <2>3. DueOrListed' = DueOrListed /\ OneRun' = OneRun
    BY <2>1 DEF DueOrListed, RunUnderWay, OneRun
  <2> QED
    BY <2>1, <2>2, <2>3, UnmarkingStays DEF NoticesInv
<1>4. CASE SendNow \/ SendFails \/ Resend
  <2>1. UNCHANGED <<noticeRow, runAt, edit>>
    BY <1>4 DEF SendNow, SendFails, Resend
  <2>2. NoticeTypes'
    BY <1>4 DEF NoticesInv, NoticeTypes, SendNow, SendFails, Resend, noticeRow
  <2>3. DueOrListed' = DueOrListed /\ OneRun' = OneRun
    BY <2>1 DEF DueOrListed, RunUnderWay, OneRun, noticeRow
  <2>4. UNCHANGED Unmarking
    BY <2>1, UnmarkingStays
  <2>5. CASE SendNow
    BY <1>1, <2>1, <2>2, <2>3, <2>4, <2>5 DEF NoticesInv, NoticeTypes, SendNow, noticeRow
  <2>6. CASE SendFails
    BY <1>1, <2>1, <2>2, <2>3, <2>4, <2>6 DEF NoticesInv, NoticeTypes, SendFails, noticeRow
  <2>7. CASE Resend
    BY <1>1, <2>1, <2>2, <2>3, <2>4, <2>7 DEF NoticesInv, NoticeTypes, Resend, noticeRow
  <2> QED
    BY <1>4, <2>5, <2>6, <2>7
<1>5. CASE DeleteNotice
  <2>1. DueOrListed' \in {0, 1} /\ DueOrListed' <= DueOrListed /\ OneRun' = OneRun
    BY <1>5 DEF DeleteNotice, DueOrListed, RunUnderWay, OneRun
  <2>2. NoticeTypes' /\ UNCHANGED <<Unmarking, marked, sends, sending, ordered, runAt, noticeIncidents>>
    BY <1>5, UnmarkingStays DEF DeleteNotice, NoticesInv, NoticeTypes
  <2> QED
    BY <1>1, <1>5, <2>1, <2>2 DEF DeleteNotice, NoticesInv, NoticeTypes
<1> QED
  BY <1>2, <1>3, <1>4, <1>5, RunStep, EditReadStep, EditWriteStep DEF NoticesNext

(* A notice is sent no more often than ordered, and one that counts as sent *)
(* was sent or is about to be, for any runs, edits and times, unless the    *)
(* incidents named have happened.                                          *)
THEOREM NoticesAsOrdered == NoticesSpec => []SentAsOrdered
<1>1. NoticesInv => SentAsOrdered
  <2> SUFFICES ASSUME NoticesInv PROVE SentAsOrdered
    OBVIOUS
  <2>1. Cardinality(Unmarking) \in Nat /\ DueOrListed \in {0, 1}
    BY UnmarkingIsFinite DEF DueOrListed
  <2> QED
    BY <2>1 DEF NoticesInv, NoticeTypes, SentAsOrdered
<1> QED
  BY <1>1, NoticesInitInv, NoticesStepInv, PTL DEF NoticesSpec

-----------------------------------------------------------------------------
(* Proofs about Chat, for every pair of users and any sockets, messages    *)
(* and restarts.  Without an incident the user's entry names his one       *)
(* socket from the end of its opening to the end of its closing - except   *)
(* while another of his is still opening that has been closed already, and *)
(* whose closing took the entry away.                                      *)

ChatTypes ==
  /\ owner \in [ChatSockets -> Chatters \cup {"none"}]
  /\ linked \in [ChatSockets -> BOOLEAN]
  /\ opening \in [ChatSockets -> {"none", "socket", "user", "done"}]
  /\ closing \in [ChatSockets -> {"none", "socket", "user", "done"}]
  /\ socketKey \in [ChatSockets -> Chatters \cup {"none"}]
  /\ userKey \in [Chatters -> ChatSockets \cup {"none"}]

(* A socket is opened before it is closed, and its entry tells the server   *)
(* whose it is.                                                            *)
SocketsInStep ==
  \A s \in ChatSockets :
    /\ owner[s] = "none" <=> opening[s] = "none"
    /\ owner[s] = "none" => closing[s] = "none" /\ ~linked[s]
    /\ linked[s] => closing[s] = "none"
    /\ socketKey[s] # "none" \/ closing[s] = "user" => opening[s] \in {"user", "done"}
    /\ opening[s] \in {"user", "done"} /\ closing[s] = "none" => socketKey[s] = owner[s]

(* A socket that is entered and not yet removed. *)
Entered(s) == opening[s] = "done" /\ closing[s] # "done"

EntriesAreEntered ==
  \A u \in Chatters : userKey[u] # "none" => owner[userKey[u]] = u /\ Entered(userKey[u])

(* Its opening goes on though its closing is over. *)
Doomed(s) == opening[s] = "user" /\ closing[s] = "done"

EnteredHaveEntry ==
  \A s \in ChatSockets : Entered(s) =>
    userKey[owner[s]] = s \/ \E t \in ChatSockets : owner[t] = owner[s] /\ Doomed(t)

MessagesWent ==
  \A m \in Messages :
    /\ message[m] = "push" => wasOn[m] = FALSE
    /\ message[m] = "done" => way[m] = IF wasOn[m] THEN "socket" ELSE "push"

MessageTypes ==
  /\ DOMAIN message = Messages /\ DOMAIN receiver = Messages
  /\ DOMAIN way = Messages /\ DOMAIN wasOn = Messages
  /\ \A m \in Messages : message[m] \in {"find", "save", "look", "push"} => receiver[m] \in Chatters

ChatInv ==
  /\ ChatTypes /\ SocketsInStep /\ MessageTypes
  /\ chatIncidents = {} => EntriesAreEntered /\ EnteredHaveEntry /\ MessagesWent

LEMMA ChatInitInv == ChatInit => ChatInv
<1> SUFFICES ASSUME ChatInit PROVE ChatInv
  OBVIOUS
<1>1. ChatTypes /\ MessageTypes
  BY DEF ChatInit, ChatTypes, MessageTypes
<1>2. SocketsInStep
  BY DEF ChatInit, SocketsInStep
<1>3. EntriesAreEntered /\ EnteredHaveEntry /\ MessagesWent
  BY DEF ChatInit, EntriesAreEntered, EnteredHaveEntry, MessagesWent, Entered
<1> QED
  BY <1>1, <1>2, <1>3 DEF ChatInv

(* Opening and closing a socket. *)
LEMMA SocketStep ==
  ASSUME ChatInv, NEW s \in ChatSockets,
         \/ \E u \in Chatters : OpenSocket(s, u)
         \/ EnterSocket(s) \/ EnterUser(s) \/ CloseSocket(s) \/ DropSocket(s) \/ DropUser(s)
  PROVE  ChatInv'
<1>0. ChatTypes /\ SocketsInStep /\ MessageTypes
  BY DEF ChatInv
<1>1. /\ chatIncidents' = {} => chatIncidents = {}
      /\ UNCHANGED messageVars
  BY DEF OpenSocket, EnterSocket, EnterUser, CloseSocket, DropSocket, DropUser
<1>2. MessageTypes' /\ MessagesWent' = MessagesWent
  BY <1>0, <1>1 DEF messageVars, MessageTypes, MessagesWent
<1>3. CASE \E u \in Chatters : OpenSocket(s, u)
  <2>1. ChatTypes' /\ SocketsInStep'
    BY <1>0, <1>3, ChatAssumption DEF OpenSocket, ChatTypes, SocketsInStep
  <2>2. \A t \in ChatSockets : /\ Entered(t)' = Entered(t) /\ Doomed(t)' = Doomed(t)
                               /\ Entered(t) \/ Doomed(t) => owner'[t] = owner[t] /\ owner[t] # "none"
    BY <1>0, <1>3 DEF OpenSocket, ChatTypes, SocketsInStep, Entered, Doomed
  <2>3. EntriesAreEntered => EntriesAreEntered'
    BY <1>0, <1>3, <2>2, ChatAssumption DEF OpenSocket, EntriesAreEntered, ChatTypes
  <2>4. EnteredHaveEntry => EnteredHaveEntry'
    BY <1>0, <1>3, <2>2 DEF OpenSocket, EnteredHaveEntry
  <2> QED
    BY <1>1, <1>2, <2>1, <2>3, <2>4 DEF ChatInv
<1>4. CASE EnterSocket(s)
  <2>1. ChatTypes' /\ SocketsInStep'
    BY <1>0, <1>4, ChatAssumption DEF EnterSocket, ChatTypes, SocketsInStep
  <2>2. \A t \in ChatSockets : Entered(t)' = Entered(t) /\ (Doomed(t) => Doomed(t)')
    BY <1>0, <1>4 DEF EnterSocket, ChatTypes, Entered, Doomed
  <2>3. EntriesAreEntered => EntriesAreEntered'
    BY <1>0, <1>4, <2>2, ChatAssumption DEF EnterSocket, EntriesAreEntered, ChatTypes
  <2>4. EnteredHaveEntry => EnteredHaveEntry'
    BY <1>0, <1>4, <2>2 DEF EnterSocket, EnteredHaveEntry
  <2> QED
    BY <1>1, <1>2, <2>1, <2>3, <2>4 DEF ChatInv
<1>5. CASE EnterUser(s)
  <2>1. ChatTypes' /\ SocketsInStep'
    BY <1>0, <1>5, ChatAssumption DEF EnterUser, ChatTypes, SocketsInStep
  <2>2. ASSUME chatIncidents' = {}, EntriesAreEntered, EnteredHaveEntry
        PROVE  EntriesAreEntered' /\ EnteredHaveEntry'
    <3>1. closing[s] = "none" /\ ~Another(s) /\ owner[s] \in Chatters
      BY <1>0, <1>5, <2>2 DEF EnterUser, When, ChatTypes, SocketsInStep
    <3>2. Entered(s)' /\ \A t \in ChatSockets \ {s} : Entered(t)' = Entered(t) /\ Doomed(t)' = Doomed(t)
      BY <1>0, <1>5, <3>1 DEF EnterUser, ChatTypes, Entered, Doomed
    <3>3. ~Doomed(s)
      BY <3>1 DEF Doomed
    <3>4. \A t \in ChatSockets \ {s} : Entered(t) => owner[t] # owner[s]
      BY <3>1 DEF Another, Entered
    <3>5. EntriesAreEntered'
      BY <1>0, <1>5, <2>2, <3>1, <3>2, <3>4 DEF EnterUser, EntriesAreEntered, ChatTypes
    <3>6. EnteredHaveEntry'
      BY <1>0, <1>5, <2>2, <3>1, <3>2, <3>3, <3>4 DEF EnterUser, EnteredHaveEntry, ChatTypes
    <3> QED
      BY <3>5, <3>6
  <2> QED
    BY <1>1, <1>2, <2>1, <2>2 DEF ChatInv
<1>6. CASE CloseSocket(s)
  <2>1. ChatTypes' /\ SocketsInStep'
    BY <1>0, <1>6 DEF CloseSocket, ChatTypes, SocketsInStep
  <2>2. EntriesAreEntered' = EntriesAreEntered /\ EnteredHaveEntry' = EnteredHaveEntry
    BY <1>6 DEF CloseSocket, EntriesAreEntered, EnteredHaveEntry, Entered, Doomed
  <2> QED
    BY <1>1, <1>2, <2>1, <2>2 DEF ChatInv
<1>7. CASE DropSocket(s)
  <2>1. ChatTypes' /\ SocketsInStep'
    BY <1>0, <1>7, ChatAssumption DEF DropSocket, ChatTypes, SocketsInStep
  <2>2. opening[s] = "done" => closing'[s] = "user"
    BY <1>0, <1>7, ChatAssumption DEF DropSocket, ChatTypes, SocketsInStep
  <2>3. \A t \in ChatSockets : Entered(t)' = Entered(t) /\ (Doomed(t) => Doomed(t)')
    BY <1>0, <1>7, <2>2 DEF DropSocket, ChatTypes, Entered, Doomed
  <2>4. EntriesAreEntered => EntriesAreEntered'
    BY <1>0, <1>7, <2>3, ChatAssumption DEF DropSocket, EntriesAreEntered, ChatTypes
  <2>5. EnteredHaveEntry => EnteredHaveEntry'
    BY <1>0, <1>7, <2>3 DEF DropSocket, EnteredHaveEntry
  <2> QED
    BY <1>1, <1>2, <2>1, <2>4, <2>5 DEF ChatInv
<1>8. CASE DropUser(s)
  <2>0. owner[s] \in Chatters /\ opening[s] \in {"user", "done"} /\ closing[s] = "user"
    BY <1>0, <1>8 DEF DropUser, ChatTypes, SocketsInStep
  <2>1. ChatTypes' /\ SocketsInStep'
    BY <1>0, <1>8, ChatAssumption DEF DropUser, ChatTypes, SocketsInStep
  <2>2. /\ ~Entered(s)' /\ (opening[s] = "user" => Doomed(s)')
        /\ \A t \in ChatSockets \ {s} : Entered(t)' = Entered(t)
        /\ \A t \in ChatSockets : Doomed(t) => Doomed(t)'
    BY <1>0, <1>8, <2>0 DEF DropUser, ChatTypes, Entered, Doomed
  <2>3. ASSUME EntriesAreEntered, EnteredHaveEntry
        PROVE  EntriesAreEntered' /\ EnteredHaveEntry'
    <3>1. EntriesAreEntered'
      BY <1>0, <1>8, <2>0, <2>2, <2>3, ChatAssumption DEF DropUser, EntriesAreEntered, ChatTypes
    <3>2. ASSUME NEW t \in ChatSockets, Entered(t)'
          PROVE  userKey'[owner'[t]] = t \/ \E d \in ChatSockets : owner'[d] = owner'[t] /\ Doomed(d)'
      <4>1. t # s /\ Entered(t) /\ UNCHANGED owner
        BY <1>8, <2>2, <3>2 DEF DropUser
      <4>2. CASE owner[t] # owner[s]
        BY <1>0, <1>8, <2>2, <2>3, <4>1, <4>2 DEF DropUser, EnteredHaveEntry, ChatTypes
      <4>3. CASE owner[t] = owner[s] /\ opening[s] = "user"
        BY <2>2, <4>1, <4>3
      <4>4. CASE owner[t] = owner[s] /\ opening[s] = "done"
        <5>1. Entered(s)
          BY <2>0, <4>4 DEF Entered
        <5>2. \E d \in ChatSockets : owner[d] = owner[t] /\ Doomed(d)
          BY <2>3, <4>1, <4>4, <5>1 DEF EnteredHaveEntry
        <5> QED
          BY <2>2, <4>1, <5>2
      <4> QED
        BY <2>0, <4>2, <4>3, <4>4
    <3> QED
      BY <3>1, <3>2 DEF EnteredHaveEntry
  <2> QED
    BY <1>1, <1>2, <2>1, <2>3 DEF ChatInv
<1> QED
  BY <1>3, <1>4, <1>5, <1>6, <1>7, <1>8

(* A message that leaves calmly finds its receiver where he is. *)
LEMMA ReceiverFound ==
  ASSUME ChatInv, chatIncidents = {}, NEW u \in Chatters, ~Unnoticed(u), ~Unentered(u)
  PROVE  /\ userKey[u] # "none" => HasLink(u) /\ linked[userKey[u]]
         /\ userKey[u] = "none" => ~HasLink(u)
<1>1. ASSUME userKey[u] # "none"
      PROVE  HasLink(u) /\ linked[userKey[u]]
  <2>1. userKey[u] \in ChatSockets /\ owner[userKey[u]] = u /\ Entered(userKey[u])
    BY <1>1 DEF ChatInv, ChatTypes, EntriesAreEntered
  <2>2. linked[userKey[u]]
    BY <2>1 DEF Unnoticed, Entered
  <2> QED
    BY <2>1, <2>2 DEF HasLink
<1>2. ASSUME userKey[u] = "none", HasLink(u)
      PROVE  FALSE
  <2>1. PICK s \in ChatSockets : owner[s] = u /\ linked[s]
    BY <1>2 DEF HasLink
  <2>2. Entered(s)
    BY <2>1, ChatAssumption DEF ChatInv, ChatTypes, SocketsInStep, Unentered, Entered
  <2>3. \A t \in ChatSockets : owner[t] = owner[s] => ~Doomed(t)
    BY <2>1 DEF Unentered, Doomed
  <2>4. userKey[u] = s
    BY <2>1, <2>2, <2>3 DEF ChatInv, EnteredHaveEntry
  <2> QED
    BY <1>2, <2>4, ChatAssumption
<1> QED
  BY <1>1, <1>2

LEMMA TwoChatters == \A u : \E v \in Chatters : v # u
<1> SUFFICES ASSUME NEW u, \A v \in Chatters : v = u
             PROVE  FALSE
  OBVIOUS
<1>1. Chatters = {} \/ Chatters = {u}
  OBVIOUS
<1>2. Cardinality({}) = 0 /\ Cardinality({u}) = 1
  BY FS_EmptySet, FS_Singleton
<1>3. Cardinality(Chatters) = 2
  BY ChatAssumption
<1> QED
  BY <1>1, <1>2, <1>3

LEMMA MessageStep ==
  ASSUME ChatInv, NEW m \in Messages,
         \/ \E s \in ChatSockets, o \in ChatOrders : SendMessage(m, s, o)
         \/ GetOrCreateConversation(m) \/ SaveMessage(m) \/ LookUpReceiver(m) \/ PushMessage(m)
  PROVE  ChatInv'
<1>0. ChatTypes /\ SocketsInStep /\ MessageTypes
  BY DEF ChatInv
<1>1. /\ chatIncidents' = {} => chatIncidents = {}
      /\ UNCHANGED linkVars
  BY DEF SendMessage, GetOrCreateConversation, SaveMessage, LookUpReceiver, PushMessage
<1>2. /\ ChatTypes' /\ SocketsInStep'
      /\ EntriesAreEntered' = EntriesAreEntered /\ EnteredHaveEntry' = EnteredHaveEntry
  BY <1>0, <1>1
     DEF linkVars, ChatTypes, SocketsInStep, EntriesAreEntered, EnteredHaveEntry, Entered, Doomed
<1>3. CASE \E s \in ChatSockets, o \in ChatOrders : SendMessage(m, s, o)
  <2>1. PICK s \in ChatSockets, o \in ChatOrders : SendMessage(m, s, o)
    BY <1>3
  <2>2. (CHOOSE u \in Chatters : u # socketKey[s]) \in Chatters
    BY TwoChatters
  <2>3. MessageTypes' /\ (MessagesWent => MessagesWent')
    BY <1>0, <2>1, <2>2 DEF SendMessage, At, MessageTypes, MessagesWent
  <2> QED
    BY <1>1, <1>2, <2>3 DEF ChatInv
<1>4. CASE GetOrCreateConversation(m) \/ SaveMessage(m) \/ PushMessage(m)
  <2>1. MessageTypes' /\ (MessagesWent => MessagesWent')
    BY <1>0, <1>4 DEF GetOrCreateConversation, SaveMessage, PushMessage, At, MessageTypes, MessagesWent
  <2> QED
    BY <1>1, <1>2, <2>1 DEF ChatInv
<1>5. CASE LookUpReceiver(m)
  <2>1. receiver[m] \in Chatters
    BY <1>0, <1>5 DEF LookUpReceiver, MessageTypes
  <2>2. MessageTypes'
    BY <1>0, <1>5, <2>1 DEF LookUpReceiver, At, MessageTypes
  <2>3. ASSUME chatIncidents' = {}
        PROVE  MessagesWent'
    <3>1. /\ chatIncidents = {} /\ ~Unnoticed(receiver[m]) /\ ~Unentered(receiver[m])
          /\ MessagesWent
      BY <1>5, <2>3 DEF LookUpReceiver, When, ChatInv
    <3>2. \A n \in Messages \ {m} : message'[n] = message[n] /\ way'[n] = way[n] /\ wasOn'[n] = wasOn[n]
      BY <1>0, <1>5 DEF LookUpReceiver, At, MessageTypes
    <3>3. wasOn'[m] = HasLink(receiver[m])
      BY <1>0, <1>5 DEF LookUpReceiver, MessageTypes
    <3>4. CASE userKey[receiver[m]] # "none"
      <4>1. HasLink(receiver[m]) /\ linked[userKey[receiver[m]]]
        BY <2>1, <3>1, <3>4, ReceiverFound
      <4>2. message'[m] = "done" /\ way'[m] = "socket"
        BY <1>0, <1>5, <3>4, <4>1 DEF LookUpReceiver, At, MessageTypes
      <4> QED
        BY <3>1, <3>2, <3>3, <4>1, <4>2 DEF MessagesWent
    <3>5. CASE userKey[receiver[m]] = "none"
      <4>1. ~HasLink(receiver[m])
        BY <2>1, <3>1, <3>5, ReceiverFound
      <4>2. message'[m] = "push"
        BY <1>0, <1>5, <3>5 DEF LookUpReceiver, At, MessageTypes
      <4> QED
        BY <3>1, <3>2, <3>3, <4>1, <4>2 DEF MessagesWent
    <3> QED
      BY <3>4, <3>5
  <2> QED
    BY <1>1, <1>2, <2>2, <2>3 DEF ChatInv
<1> QED
  BY <1>3, <1>4, <1>5

LEMMA RestartStep == ChatInv /\ RestartChat => ChatInv'
<1> SUFFICES ASSUME ChatInv, RestartChat PROVE ChatInv'
  OBVIOUS
<1>1. ChatTypes' /\ SocketsInStep' /\ MessageTypes'
  BY ChatAssumption DEF RestartChat, ChatInv, ChatTypes, SocketsInStep, MessageTypes
<1>2. chatIncidents' = {} => chatIncidents = {} /\ \A u \in Chatters : userKey[u] = "none"
  BY DEF RestartChat, When
<1>3. chatIncidents' = {} => EntriesAreEntered'
  BY <1>2 DEF RestartChat, EntriesAreEntered
<1>4. EnteredHaveEntry'
  BY DEF RestartChat, EnteredHaveEntry, Entered
<1>5. MessagesWent => MessagesWent'
  BY DEF RestartChat, MessagesWent, ChatInv, MessageTypes
<1> QED
  BY <1>1, <1>2, <1>3, <1>4, <1>5 DEF ChatInv

LEMMA ChatStepInv == ChatInv /\ [ChatNext]_chatVars => ChatInv'
<1> SUFFICES ASSUME ChatInv, [ChatNext]_chatVars PROVE ChatInv'
  OBVIOUS
<1>1. CASE UNCHANGED chatVars
  BY <1>1 DEF chatVars, linkVars, messageVars, ChatInv, ChatTypes, SocketsInStep, MessageTypes,
              EntriesAreEntered, EnteredHaveEntry, MessagesWent, Entered, Doomed
<1> QED
  BY <1>1, SocketStep, MessageStep, RestartStep DEF ChatNext

(* A message goes to the socket of a receiver who has one and is pushed to  *)
(* one who has none, for any sockets, messages and restarts, unless the     *)
(* incidents named have happened.                                          *)
THEOREM MessagesArrive == ChatSpec => []MessageArrives
<1>1. ChatInv => MessageArrives
  BY DEF ChatInv, MessagesWent, MessageArrives
<1> QED
  BY <1>1, ChatInitInv, ChatStepInv, PTL DEF ChatSpec
=============================================================================
