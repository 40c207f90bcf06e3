----------------------------- MODULE Incentives -----------------------------
(***************************************************************************)
(* One incentive.  While it is ACTIVE and its claims are AUTO, a job that  *)
(* runs every five minutes pays it to every user who meets its rules and   *)
(* has not collected it; while its claims are MANUAL a user may collect it *)
(* himself.  The job reads the incentive and the users once and takes them *)
(* one after the other; nothing keeps two runs of it, or a run and a       *)
(* collection, apart.  The administrator edits the incentive meanwhile,    *)
(* and an hourly job disables it when its end date has passed.             *)
(*                                                                         *)
(* There is no unique constraint on collected incentives.  Whether a user  *)
(* meets the rules (an OR of groups of rules that must all hold, over      *)
(* counts of orders, stops, sessions and earnings) changes on its own.     *)
(* The schedule (isActiveOnSchedule) is open: the job does nothing on a    *)
(* day it excludes.  Rewards are counted, not added up.                    *)
(***************************************************************************)
EXTENDS Naturals, FiniteSets

CONSTANTS
  Users,
  Runs,             \* runs of the job that may be under way at once
  Requests,         \* collections that may be under way at once
  NoUser,
  Troubled,         \* users whose payments may fail every time
  MaxClaims,        \* max_clam
  MaxPaid,          \* bound: claims of a user
  MaxIncentiveEdits \* bound: edits of the administrator, and restarts

ASSUME IncentivesAssumption ==
  /\ IsFiniteSet(Users) /\ NoUser \notin Users /\ Troubled \subseteq Users
  /\ Runs \cap Requests = {}
  /\ MaxClaims \in Nat \ {0} /\ MaxPaid \in Nat /\ MaxIncentiveEdits \in Nat

VARIABLES
  incentiveStatus, \* "ACTIVE", "DISABLED", or "deleted"
  claimType,       \* claim_type: "AUTO" or "MANUAL"
  periodOver,      \* its end date, or the time to claim it, has passed
  meetsRules,      \* users that meet the rules now
  collected,       \* collected[u]: rows of CollectedIncentive
  rewarded,        \* rewarded[u]: rewards that were added to the wallet
  runTodo,         \* runTodo[c]: users that run c has still to look at
  payingUser,      \* payingUser[c]: the user that call c has found to be paid
  claimsFound,     \* claimsFound[c]: the claims of that user that it has counted
  incentiveEdits,  \* edits so far (see MaxIncentiveEdits)
  racedUsers       \* users paid by a call that had counted other claims than there were

IncentiveCalls == Runs \cup Requests
incentiveCallVars == <<runTodo, payingUser, claimsFound>>
incentiveVars == <<incentiveStatus, claimType, periodOver, meetsRules, collected, rewarded, incentiveCallVars, incentiveEdits, racedUsers>>

IncentivesTypeOK ==
  /\ incentiveStatus \in {"ACTIVE", "DISABLED", "deleted"}
  /\ claimType \in {"AUTO", "MANUAL"}
  /\ periodOver \in BOOLEAN
  /\ meetsRules \subseteq Users
  /\ collected \in [Users -> Nat] /\ rewarded \in [Users -> Nat]
  /\ runTodo \in [Runs -> SUBSET Users]
  /\ payingUser \in [IncentiveCalls -> Users \cup {NoUser}]
  /\ claimsFound \in [IncentiveCalls -> Nat]
  /\ incentiveEdits \in 0 .. MaxIncentiveEdits
  /\ racedUsers \subseteq Users

IncentivesInit ==
  /\ incentiveStatus = "ACTIVE"
  /\ claimType \in {"AUTO", "MANUAL"}
  /\ periodOver = FALSE
  /\ meetsRules \in SUBSET Users
  /\ collected = [u \in Users |-> 0]
  /\ rewarded = [u \in Users |-> 0]
  /\ runTodo = [c \in Runs |-> {}]
  /\ payingUser = [c \in IncentiveCalls |-> NoUser]
  /\ claimsFound = [c \in IncentiveCalls |-> 0]
  /\ incentiveEdits = 0
  /\ racedUsers = {}

-----------------------------------------------------------------------------
(* checkAndCollectIncentives *)

StartRun(c) ==
  /\ runTodo[c] = {} /\ payingUser[c] = NoUser
  /\ incentiveStatus = "ACTIVE" /\ claimType = "AUTO"
  /\ runTodo' = [runTodo EXCEPT ![c] = Users]
  /\ UNCHANGED <<incentiveStatus, claimType, periodOver, meetsRules, collected, rewarded, payingUser, claimsFound, incentiveEdits, racedUsers>>

PickUser(c, u) ==
  /\ u \in runTodo[c] /\ payingUser[c] = NoUser
  /\ runTodo' = [runTodo EXCEPT ![c] = @ \ {u}]

(* A user who has collected the incentive or does not meet its rules. *)
SkipUser(c, u) ==
  /\ PickUser(c, u)
  /\ collected[u] > 0 \/ u \notin meetsRules
  /\ UNCHANGED <<incentiveStatus, claimType, periodOver, meetsRules, collected, rewarded, payingUser, claimsFound, incentiveEdits, racedUsers>>

(* Mutant: what the user has collected before is not looked for. *)
QualifyAgain(c, u) ==
  /\ PickUser(c, u)
  /\ u \in meetsRules
  /\ payingUser' = [payingUser EXCEPT ![c] = u]
  /\ claimsFound' = [claimsFound EXCEPT ![c] = collected[u]]
  /\ UNCHANGED <<incentiveStatus, claimType, periodOver, meetsRules, collected, rewarded, incentiveEdits, racedUsers>>

Qualify(c, u) ==
  /\ PickUser(c, u)
  /\ collected[u] = 0 /\ u \in meetsRules
  /\ payingUser' = [payingUser EXCEPT ![c] = u]
  /\ claimsFound' = [claimsFound EXCEPT ![c] = collected[u]]
  /\ UNCHANGED <<incentiveStatus, claimType, periodOver, meetsRules, collected, rewarded, incentiveEdits, racedUsers>>

-----------------------------------------------------------------------------
(* collect: the checks *)

CollectCheck(c, u) ==
  /\ payingUser[c] = NoUser
  /\ incentiveStatus = "ACTIVE" /\ claimType = "MANUAL" /\ ~periodOver
  /\ collected[u] < MaxClaims
  /\ u \in meetsRules
  /\ payingUser' = [payingUser EXCEPT ![c] = u]
  /\ claimsFound' = [claimsFound EXCEPT ![c] = collected[u]]
  /\ UNCHANGED <<incentiveStatus, claimType, periodOver, meetsRules, collected, rewarded, runTodo, incentiveEdits, racedUsers>>

-----------------------------------------------------------------------------
(* Both: the row, the wallet and its history in one transaction *)

RewardOver(c) ==
  /\ payingUser' = [payingUser EXCEPT ![c] = NoUser]
  /\ claimsFound' = [claimsFound EXCEPT ![c] = 0]

PayReward(c) ==
  LET u == payingUser[c] IN
  /\ u # NoUser
  /\ incentiveStatus # "deleted"
  /\ collected[u] < MaxPaid
  /\ collected' = [collected EXCEPT ![u] = @ + 1]
  /\ rewarded' = [rewarded EXCEPT ![u] = @ + 1]
  /\ racedUsers' = IF collected[u] # claimsFound[c] THEN racedUsers \cup {u} ELSE racedUsers
  /\ RewardOver(c)
  /\ UNCHANGED <<incentiveStatus, claimType, periodOver, meetsRules, runTodo, incentiveEdits>>

(* Mutant: an error ends the run. *)
PayFailsEndsRun(c) ==
  /\ payingUser[c] # NoUser
  /\ RewardOver(c)
  /\ runTodo' = [r \in Runs |-> IF r = c THEN {} ELSE runTodo[r]]
  /\ UNCHANGED <<incentiveStatus, claimType, periodOver, meetsRules, collected, rewarded, incentiveEdits, racedUsers>>

(* The transaction fails (it must when the incentive is deleted).  The job  *)
(* logs the error and goes on with the next user.                          *)
PayRewardFails(c) ==
  /\ payingUser[c] # NoUser
  /\ RewardOver(c)
  /\ UNCHANGED <<incentiveStatus, claimType, periodOver, meetsRules, collected, rewarded, runTodo, incentiveEdits, racedUsers>>

(* The process dies and starts again. *)
IncentivesRestart ==
  /\ incentiveEdits < MaxIncentiveEdits
  /\ incentiveEdits' = incentiveEdits + 1
  /\ runTodo' = [c \in Runs |-> {}]
  /\ payingUser' = [c \in IncentiveCalls |-> NoUser]
  /\ claimsFound' = [c \in IncentiveCalls |-> 0]
  /\ UNCHANGED <<incentiveStatus, claimType, periodOver, meetsRules, collected, rewarded, racedUsers>>

-----------------------------------------------------------------------------
(* The administrator, the hourly job and the users' orders *)

IncentiveEdit ==
  /\ incentiveEdits < MaxIncentiveEdits
  /\ incentiveEdits' = incentiveEdits + 1
  /\ incentiveStatus # "deleted"

SetIncentiveStatus(s) ==
  /\ IncentiveEdit
  /\ s # incentiveStatus
  /\ incentiveStatus' = s
  /\ UNCHANGED <<claimType, periodOver, meetsRules, collected, rewarded, incentiveCallVars, racedUsers>>

SetClaim(t) ==
  /\ IncentiveEdit
  /\ claimType' = t
  /\ UNCHANGED <<incentiveStatus, periodOver, meetsRules, collected, rewarded, incentiveCallVars, racedUsers>>

RemoveIncentive ==
  /\ IncentiveEdit
  /\ incentiveStatus' = "deleted"
  /\ UNCHANGED <<claimType, periodOver, meetsRules, collected, rewarded, incentiveCallVars, racedUsers>>

PeriodEnds ==
  /\ ~periodOver
  /\ periodOver' = TRUE
  /\ UNCHANGED <<incentiveStatus, claimType, meetsRules, collected, rewarded, incentiveCallVars, incentiveEdits, racedUsers>>

DeactivateIncentive ==
  /\ periodOver /\ incentiveStatus = "ACTIVE"
  /\ incentiveStatus' = "DISABLED"
  /\ UNCHANGED <<claimType, periodOver, meetsRules, collected, rewarded, incentiveCallVars, incentiveEdits, racedUsers>>

RulesChange(u) ==
  /\ meetsRules' \in {meetsRules \cup {u}, meetsRules \ {u}}
  /\ UNCHANGED <<incentiveStatus, claimType, periodOver, collected, rewarded, incentiveCallVars, incentiveEdits, racedUsers>>

-----------------------------------------------------------------------------
RunStep(c) ==
  \/ StartRun(c)
  \/ \E u \in Users : SkipUser(c, u) \/ Qualify(c, u)
  \/ PayReward(c) \/ PayRewardFails(c)

IncentivesNext ==
  \/ \E c \in Runs : RunStep(c)
  \/ \E c \in Requests : (\E u \in Users : CollectCheck(c, u)) \/ PayReward(c) \/ PayRewardFails(c)
  \/ IncentivesRestart
  \/ \E s \in {"ACTIVE", "DISABLED"} : SetIncentiveStatus(s)
  \/ \E t \in {"AUTO", "MANUAL"} : SetClaim(t)
  \/ RemoveIncentive \/ PeriodEnds \/ DeactivateIncentive
  \/ \E u \in Users : RulesChange(u)

(* The job runs again and again and goes on from user to user.  Whatever    *)
(* fails every time for the users of Troubled, the transactions of another *)
(* user do not all fail.                                                   *)
IncentivesFairness ==
  \A c \in Runs :
    /\ WF_incentiveVars(StartRun(c))
    /\ WF_incentiveVars(\E u \in Users : SkipUser(c, u) \/ Qualify(c, u))
    /\ WF_incentiveVars(PayReward(c) \/ PayRewardFails(c))
    /\ \A u \in Users \ Troubled : SF_incentiveVars(payingUser[c] = u /\ PayReward(c))

IncentivesSpec == IncentivesInit /\ [][IncentivesNext]_incentiveVars /\ IncentivesFairness

-----------------------------------------------------------------------------
(* Properties *)

(* A user is paid as often as his claims are recorded, and no more often    *)
(* than the incentive allows (once by the job, max_clam times by himself), *)
(* whatever the administrator changes, unless two calls pay him at once.   *)
ClaimedWithinLimit ==
  \A u \in Users :
    /\ rewarded[u] = collected[u]
    /\ u \notin racedUsers => collected[u] <= MaxClaims

(* A user who meets the rules of an incentive that goes on is paid in the   *)
(* end: the job does not pass over him for ever, although the payments of  *)
(* other users fail each time it comes to them.                            *)
QualifiedIsPaid ==
  \A u \in Users \ Troubled :
    <>[](incentiveStatus = "ACTIVE" /\ claimType = "AUTO" /\ u \in meetsRules) => <>(collected[u] > 0)
=============================================================================
