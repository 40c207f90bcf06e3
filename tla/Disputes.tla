------------------------------ MODULE Disputes ------------------------------
(***************************************************************************)
(* The disputes of one order that had a rider, and the appeals against     *)
(* them.  The administrator decides a dispute by a refund to the customer, *)
(* which the company bears or shares with the rider, and decides an appeal *)
(* by another refund, by reopening the dispute, or by rejecting it.        *)
(*                                                                         *)
(* Every request reads and checks first and writes afterwards in one       *)
(* transaction (or one statement) that looks at nothing again.  There is   *)
(* no unique constraint on the disputes of an order or on the appeals of a *)
(* dispute.  The code never writes the statuses AWAITING_INFO and REJECTED *)
(* of a dispute and UNDER_REVIEW of an appeal.                             *)
(***************************************************************************)
EXTENDS Integers, FiniteSets, Incident

CONSTANTS
  Disputes,   \* rows that may be created for the order
  Appeals,    \* rows that may be created for its disputes
  Refund,     \* totalAmount of a decision
  Shares,     \* what a decision may make the rider bear (0: FULL)
  RiderOpening,    \* the rider's balance at first
  DisputeCalls,      \* requests in flight at once
  NoRow,      \* the dispute or appeal of a call that has none
  MaxDecided  \* bound: decisions asked for

ASSUME DisputesAssumption ==
  /\ IsFiniteSet(Disputes)
  /\ Refund \in Nat \ {0}
  /\ Shares \subseteq 0 .. Refund
  /\ RiderOpening \in Nat
  /\ NoRow \notin Disputes \cup Appeals
  /\ MaxDecided \in Nat

VARIABLES
  dispute,           \* dispute[d]: its status, "none" before the row is created
  closed,            \* disputes with is_closed
  appeal,            \* appeal[a]: its status
  against,           \* against[a]: the dispute it appeals
  refunds,           \* refunds[d]: refunds credited to the customer for dispute d
  accepted,          \* accepted[d]: appeals against d that were decided by a refund
  riderBalance,
  dStep, dOn, share, \* per call: its step, its row, the rider's share,
  dSeen, dFound,     \* the balance it read, and the rows or the status it checked
  decided,           \* decisions asked for so far (see MaxDecided)
  disputeIncidents   \* what went between the check and the write of a call so far

disputeCallVars == <<dStep, dOn, share, dSeen, dFound>>
disputeRowVars == <<dispute, closed, appeal, against>>
disputeMoneyVars == <<refunds, accepted, riderBalance>>
disputeVars == <<disputeRowVars, disputeMoneyVars, disputeCallVars, decided, disputeIncidents>>

ActiveStatus == {"PENDING", "UNDER_REVIEW"}

(*   "filed_twice"     a dispute or an appeal was created after the rows the *)
(*                     call had checked for changed                         *)
(*   "reopened"        an accepted appeal put its dispute under review       *)
(*   "beside"          it did so while another dispute was active            *)
(*   "resolved_again"  resolve decided a dispute that was not active        *)
(*   "decided_twice"   an appeal was decided after another decision of it   *)
(*   "stale_share"     the rider's share was taken after a check on an      *)
(*                     older balance                                        *)
DisputeIncidents == {"filed_twice", "reopened", "beside", "resolved_again", "decided_twice", "stale_share"}

DisputesTypeOK ==
  /\ dispute \in [Disputes -> {"none", "deleted", "RESOLVED"} \cup ActiveStatus]
  /\ closed \subseteq Disputes
  /\ appeal \in [Appeals -> {"none", "deleted", "PENDING", "ACCEPTED", "REJECTED"}]
  /\ against \in [Appeals -> Disputes \cup {NoRow}]
  /\ refunds \in [Disputes -> Nat]
  /\ accepted \in [Disputes -> Nat]
  /\ riderBalance \in Int
  /\ dStep \in [DisputeCalls -> {"idle", "file", "resolve", "appeal", "pay", "reopen", "reject"}]
  /\ dOn \in [DisputeCalls -> Disputes \cup Appeals \cup {NoRow}]
  /\ share \in [DisputeCalls -> 0 .. Refund]
  /\ dSeen \in [DisputeCalls -> Int]
  /\ dFound \in [DisputeCalls -> SUBSET (Disputes \cup Appeals \cup {"PENDING", "ACCEPTED", "REJECTED"})]
  /\ decided \in 0 .. MaxDecided
  /\ disputeIncidents \subseteq DisputeIncidents

DisputesInit ==
  /\ dispute = [d \in Disputes |-> "none"]
  /\ closed = {}
  /\ appeal = [a \in Appeals |-> "none"]
  /\ against = [a \in Appeals |-> NoRow]
  /\ refunds = [d \in Disputes |-> 0]
  /\ accepted = [d \in Disputes |-> 0]
  /\ riderBalance = RiderOpening
  /\ dStep = [c \in DisputeCalls |-> "idle"]
  /\ dOn = [c \in DisputeCalls |-> NoRow]
  /\ share = [c \in DisputeCalls |-> 0]
  /\ dSeen = [c \in DisputeCalls |-> 0]
  /\ dFound = [c \in DisputeCalls |-> {}]
  /\ decided = 0
  /\ disputeIncidents = {}

Filed(d) == dispute[d] \notin {"none", "deleted"}
ActiveDisputes == {d \in Disputes : dispute[d] \in ActiveStatus}
AppealsOf(d) == {a \in Appeals : appeal[a] \notin {"none", "deleted"} /\ against[a] = d}

-----------------------------------------------------------------------------
(* Calls *)

Ask(c, step, row, s, f) ==
  /\ dStep[c] = "idle"
  /\ dStep' = [dStep EXCEPT ![c] = step]
  /\ dOn' = [dOn EXCEPT ![c] = row]
  /\ share' = [share EXCEPT ![c] = s]
  /\ dSeen' = [dSeen EXCEPT ![c] = riderBalance]
  /\ dFound' = [dFound EXCEPT ![c] = f]
  /\ UNCHANGED <<disputeRowVars, disputeMoneyVars, disputeIncidents>>

Answer(c) ==
  /\ dStep' = [dStep EXCEPT ![c] = "idle"]
  /\ dOn' = [dOn EXCEPT ![c] = NoRow]
  /\ share' = [share EXCEPT ![c] = 0]
  /\ dSeen' = [dSeen EXCEPT ![c] = 0]
  /\ dFound' = [dFound EXCEPT ![c] = {}]

(* The transaction fails, because the database does or because the row it   *)
(* writes has been deleted; it changes nothing.                            *)
AskFails(c) ==
  /\ dStep[c] # "idle"
  /\ Answer(c)
  /\ UNCHANGED <<disputeRowVars, disputeMoneyVars, decided, disputeIncidents>>

(* The rider's share is taken and the customer credited with the refund     *)
(* (creditWallet).                                                         *)
Settle(c, d) ==
  /\ riderBalance' = riderBalance - share[c]
  /\ refunds' = [refunds EXCEPT ![d] = @ + 1]

StaleShare(c) == When(share[c] > 0 /\ riderBalance # dSeen[c], "stale_share")

-----------------------------------------------------------------------------
(* dispute.service: create, resolve, closeCase, delete *)

(* Mutant: a dispute under review does not count as active. *)
FileCheckPendingOnly(c) ==
  /\ \A d \in Disputes : dispute[d] # "PENDING"
  /\ Ask(c, "file", NoRow, 0, ActiveDisputes)
  /\ UNCHANGED decided

FileCheck(c) ==
  /\ ActiveDisputes = {}
  /\ Ask(c, "file", NoRow, 0, ActiveDisputes)
  /\ UNCHANGED decided

File(c, d) ==
  /\ dStep[c] = "file"
  /\ dispute[d] = "none"
  /\ dispute' = [dispute EXCEPT ![d] = "PENDING"]
  /\ disputeIncidents' = disputeIncidents \cup When(ActiveDisputes # dFound[c], "filed_twice")
  /\ Answer(c)
  /\ UNCHANGED <<closed, appeal, against, disputeMoneyVars, decided>>

(* The status of the dispute is not looked at. *)
ResolveCheck(c, d, s) ==
  /\ Filed(d)
  /\ riderBalance >= s
  /\ decided < MaxDecided
  /\ decided' = decided + 1
  /\ Ask(c, "resolve", d, s, {})

Resolve(c) ==
  LET d == dOn[c] IN
  /\ dStep[c] = "resolve"
  /\ Filed(d)
  /\ dispute' = [dispute EXCEPT ![d] = "RESOLVED"]
  /\ Settle(c, d)
  /\ disputeIncidents' = disputeIncidents \cup StaleShare(c)
                            \cup When(dispute[d] \notin ActiveStatus, "resolved_again")
  /\ Answer(c)
  /\ UNCHANGED <<closed, appeal, against, accepted, decided>>

CloseCase(d) ==
  /\ Filed(d)
  /\ closed' = closed \cup {d}
  /\ UNCHANGED <<dispute, appeal, against, disputeMoneyVars, disputeCallVars, decided, disputeIncidents>>

(* The appeals of the dispute are deleted with it (onDelete: Cascade). *)
Delete(d) ==
  /\ Filed(d)
  /\ dispute' = [dispute EXCEPT ![d] = "deleted"]
  /\ appeal' = [a \in Appeals |-> IF a \in AppealsOf(d) THEN "deleted" ELSE appeal[a]]
  /\ UNCHANGED <<closed, against, disputeMoneyVars, disputeCallVars, decided, disputeIncidents>>

-----------------------------------------------------------------------------
(* dispute_appeal.service: create, resolveAppeal, delete *)

AppealCheck(c, d) ==
  /\ dispute[d] = "RESOLVED"
  /\ d \notin closed
  /\ AppealsOf(d) = {}
  /\ Ask(c, "appeal", d, 0, AppealsOf(d))
  /\ UNCHANGED decided

Appeal(c, a) ==
  LET d == dOn[c] IN
  /\ dStep[c] = "appeal"
  /\ Filed(d)
  /\ appeal[a] = "none"
  /\ appeal' = [appeal EXCEPT ![a] = "PENDING"]
  /\ against' = [against EXCEPT ![a] = d]
  /\ disputeIncidents' = disputeIncidents \cup When(AppealsOf(d) # dFound[c], "filed_twice")
  /\ Answer(c)
  /\ UNCHANGED <<dispute, closed, disputeMoneyVars, decided>>

(* Mutant: an appeal may be decided again. *)
DecideCheckAnyStatus(c, a, what, s) ==
  /\ a \in AppealsOf(against[a])
  /\ s > 0 => what = "pay" /\ riderBalance >= s
  /\ decided < MaxDecided
  /\ decided' = decided + 1
  /\ Ask(c, what, a, s, {appeal[a]})

(* "pay" is ACCEPTED with an amount, "reopen" ACCEPTED without one. *)
DecideCheck(c, a, what, s) ==
  /\ appeal[a] = "PENDING"
  /\ s > 0 => what = "pay" /\ riderBalance >= s
  /\ decided < MaxDecided
  /\ decided' = decided + 1
  /\ Ask(c, what, a, s, {appeal[a]})

Decide(c) ==
  LET a == dOn[c]
      d == against[a]
  IN
  /\ dStep[c] \in {"pay", "reopen", "reject"}
  /\ a \in AppealsOf(d)
  /\ appeal' = [appeal EXCEPT ![a] = IF dStep[c] = "reject" THEN "REJECTED" ELSE "ACCEPTED"]
  /\ dispute' = [dispute EXCEPT ![d] =
        CASE dStep[c] = "pay" -> "RESOLVED" [] dStep[c] = "reopen" -> "UNDER_REVIEW" [] OTHER -> @]
  /\ IF dStep[c] = "pay"
       THEN Settle(c, d) /\ accepted' = [accepted EXCEPT ![d] = @ + 1]
       ELSE UNCHANGED disputeMoneyVars
  /\ disputeIncidents' = disputeIncidents \cup StaleShare(c)
                            \cup When(dStep[c] = "reopen", "reopened")
                            \cup When(dStep[c] = "reopen" /\ ActiveDisputes \ {d} # {}, "beside")
                            \cup When({appeal[a]} # dFound[c], "decided_twice")
  /\ Answer(c)
  /\ UNCHANGED <<closed, against, decided>>

DeleteAppeal(a) ==
  /\ a \in AppealsOf(against[a])
  /\ appeal' = [appeal EXCEPT ![a] = "deleted"]
  /\ UNCHANGED <<dispute, closed, against, disputeMoneyVars, disputeCallVars, decided, disputeIncidents>>

-----------------------------------------------------------------------------
DisputeRequest(c) ==
  \/ FileCheck(c)
  \/ \E d \in Disputes : AppealCheck(c, d) \/ \E s \in Shares : ResolveCheck(c, d, s)
  \/ \E a \in Appeals, what \in {"pay", "reopen", "reject"}, s \in Shares : DecideCheck(c, a, what, s)

DisputeWrite(c) ==
  \/ \E d \in Disputes : File(c, d)
  \/ \E a \in Appeals : Appeal(c, a)
  \/ Resolve(c) \/ Decide(c) \/ AskFails(c)

DisputesNext ==
  \/ \E c \in DisputeCalls : DisputeRequest(c) \/ DisputeWrite(c)
  \/ \E d \in Disputes : CloseCase(d) \/ Delete(d)
  \/ \E a \in Appeals : DeleteAppeal(a)

DisputesSpec == DisputesInit /\ [][DisputesNext]_disputeVars

-----------------------------------------------------------------------------
(* Properties *)

(* An order has one active dispute at most ("Active dispute exists"),      *)
(* unless two were filed at the same time, or an accepted appeal has put   *)
(* an older one under review beside an active one.                         *)
OneActiveDispute ==
  {"filed_twice", "beside"} \cap disputeIncidents = {} => Cardinality(ActiveDisputes) <= 1

(* Every refund has its decision: a dispute is refunded once, and once more *)
(* for each appeal that was accepted with an amount.  It is refunded again *)
(* only when resolve is called for a dispute that is not active, or when   *)
(* an accepted appeal has made it active once more; and an appeal is one   *)
(* per dispute and decided once, unless requests overlap or the dispute's  *)
(* appeal is deleted in between.                                           *)
RefundPerDecision ==
  \A d \in Disputes :
    /\ {"resolved_again", "reopened"} \cap disputeIncidents = {} => refunds[d] <= 1 + accepted[d]
    /\ /\ {"filed_twice", "decided_twice"} \cap disputeIncidents = {}
       /\ \A a \in Appeals : against[a] = d => appeal[a] # "deleted"
       => accepted[d] <= 1

(* Decisions overdraw the rider's wallet only when his share is taken after *)
(* a check on a balance that has changed since.                            *)
RiderOverdrawnByRace ==
  riderBalance < 0 => "stale_share" \in disputeIncidents
=============================================================================
