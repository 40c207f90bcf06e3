---------------------------- MODULE RiderAccount ----------------------------
(***************************************************************************)
(* The account of one rider: his registration, the administrator's          *)
(* verdict, suspensions, the auto popup switch, and his tier, which the    *)
(* weekly evaluation and the administrator both set.                        *)
(*                                                                         *)
(* The evaluation reads all riders and all tiers first and takes each rider *)
(* from what it has read; what the administrator does meanwhile it does    *)
(* not see.  Every other operation reads, checks and writes a few columns. *)
(* Tiers are numbered from 1, BRONZE, upwards.  The rider's score, whether  *)
(* it makes him eligible for GOLD, and which tiers are active are open.    *)
(* No code sets manualTierUntil, so an override never expires.             *)
(***************************************************************************)
EXTENDS Integers, FiniteSets, Incident

CONSTANTS
  TopTier,       \* PLATINUM; GOLD is the one below
  Evaluators,    \* runs of the weekly evaluation that may go on at once
  Switches       \* requests to switch the auto popup on that may be in flight

ASSUME RiderAccountAssumption ==
  /\ TopTier \in Nat /\ TopTier > 2
  /\ Evaluators \cap Switches = {}

VARIABLES
  registered,     \* there is a RaiderRegistration
  verdict,        \* raider_verificationFromAdmin
  riderStatus,    \* raider_status: "ACTIVE" or "IN_ACTIVE"
  suspended,      \* isSuspended
  popup,          \* isAutoPopUpEnabled
  switching,      \* switching[q]: request q has seen GOLD or PLATINUM
  tier,           \* tierId, 0 when it is null
  override,       \* manualTierOverride
  chosen,         \* the tier the administrator set with the override
  evaluation,     \* evaluation[e]: what evaluation e has read, Idle if it has not
  riderIncidents

standingVars == <<registered, verdict, riderStatus, suspended>>
tierVars == <<tier, override, chosen>>
riderVars == <<standingVars, popup, switching, tierVars, evaluation, riderIncidents>>

(*   "overtaken"  an evaluation wrote a tier although an override had been  *)
(*                set since it read the rider                              *)
(*   "promoted"   a tier was set without override, by a promotion or with   *)
(*                the user's data, over one that was set with it           *)
(*   "demoted"    the tier fell while the popup was on or being switched on *)
(*   "approved_again"  a suspended rider was approved                       *)
RiderIncidents == {"overtaken", "promoted", "demoted", "approved_again"}

Tiers == 1 .. TopTier
GoldTier == TopTier - 1
PopupTiers == {GoldTier, TopTier}
Verdicts == {"PENDING", "APPROVED", "REJECTED"}
Idle == [at |-> "idle", tier |-> 0, override |-> FALSE, target |-> 0]

RiderAccountTypeOK ==
  /\ registered \in BOOLEAN
  /\ verdict \in Verdicts
  /\ riderStatus \in {"ACTIVE", "IN_ACTIVE"}
  /\ suspended \in BOOLEAN
  /\ popup \in BOOLEAN
  /\ switching \in [Switches -> BOOLEAN]
  /\ tier \in 0 .. TopTier /\ chosen \in 0 .. TopTier
  /\ override \in BOOLEAN
  /\ evaluation \in [Evaluators -> [at : {"idle", "read"}, tier : 0 .. TopTier,
                                    override : BOOLEAN, target : 0 .. TopTier]]
  /\ riderIncidents \subseteq RiderIncidents

(* The rider has signed up himself, or the administrator has created him.   *)
RiderAccountInit ==
  /\ \/ /\ registered = FALSE /\ verdict = "PENDING" /\ riderStatus = "IN_ACTIVE"
        /\ tier = 0
     \/ /\ registered = TRUE /\ verdict = "APPROVED" /\ riderStatus = "ACTIVE"
        /\ tier \in 0 .. TopTier
  /\ suspended = FALSE
  /\ popup = FALSE
  /\ switching = [q \in Switches |-> FALSE]
  /\ override = FALSE /\ chosen = 0
  /\ evaluation = [e \in Evaluators |-> Idle]
  /\ riderIncidents = {}

-----------------------------------------------------------------------------
(* Registration, verdict and suspension *)

Register ==
  /\ ~registered
  /\ registered' = TRUE
  /\ UNCHANGED <<verdict, riderStatus, suspended, popup, switching, tierVars, evaluation, riderIncidents>>

Verify(v) ==
  /\ registered
  /\ verdict' = v
  /\ riderStatus' = IF v = "APPROVED" THEN "ACTIVE" ELSE "IN_ACTIVE"
  /\ riderIncidents' = riderIncidents \cup When(v = "APPROVED" /\ suspended, "approved_again")
  /\ UNCHANGED <<registered, suspended, popup, switching, tierVars, evaluation>>

Suspend ==
  /\ suspended' = TRUE
  /\ riderStatus' = "IN_ACTIVE"
  /\ UNCHANGED <<registered, verdict, popup, switching, tierVars, evaluation, riderIncidents>>

(* raider_status stays IN_ACTIVE until he is verified again. *)
Unsuspend ==
  /\ suspended' = FALSE
  /\ UNCHANGED <<registered, verdict, riderStatus, popup, switching, tierVars, evaluation, riderIncidents>>

-----------------------------------------------------------------------------
(* updateAutoPopup *)

SwitchOnCheck(q) ==
  /\ tier \in PopupTiers
  /\ switching' = [switching EXCEPT ![q] = TRUE]
  /\ UNCHANGED <<standingVars, popup, tierVars, evaluation, riderIncidents>>

SwitchOn(q) ==
  /\ switching[q]
  /\ popup' = TRUE
  /\ switching' = [switching EXCEPT ![q] = FALSE]
  /\ UNCHANGED <<standingVars, tierVars, evaluation, riderIncidents>>

SwitchOff ==
  /\ popup' = FALSE
  /\ UNCHANGED <<standingVars, switching, tierVars, evaluation, riderIncidents>>

-----------------------------------------------------------------------------
(* The tier *)

SetTier(t, noted) ==
  /\ tier' = t
  /\ riderIncidents' = riderIncidents \cup noted
        \cup When(t \notin PopupTiers /\ (popup \/ \E q \in Switches : switching[q]), "demoted")

(* adminUpdateRiderProfile *)
SetTierByHand(t) ==
  /\ registered
  /\ SetTier(t, {})
  /\ override' = TRUE
  /\ chosen' = t
  /\ UNCHANGED <<standingVars, popup, switching, evaluation>>

(* promoteRaider, and updateUser with a tier. *)
Promote(t) ==
  /\ SetTier(t, When(override /\ t # chosen, "promoted"))
  /\ UNCHANGED <<standingVars, popup, switching, override, chosen, evaluation>>

(* resolveTierFromScore: the best active tier from the one that the score   *)
(* suggests downwards, GOLD only for those eligible, and otherwise the     *)
(* lowest active tier.  (The guard for an invitation-only PLATINUM never    *)
(* holds: PLATINUM is only looked at when the score suggests it.)          *)
ResolveTier(suggested, active, gold) ==
  LET eligible == {t \in active : t <= suggested /\ (t = GoldTier => gold)}
      lowest == CHOOSE t \in active : \A s \in active : t <= s
  IN  IF eligible = {} THEN lowest ELSE CHOOSE t \in eligible : \A s \in eligible : s <= t

(* recalculateAllRaiders reads the riders who are not suspended, and the    *)
(* active tiers; with none it stops.                                       *)
EvaluationReads(e, suggested, active, gold) ==
  /\ evaluation[e] = Idle
  /\ ~suspended
  /\ active # {}
  /\ evaluation' = [evaluation EXCEPT ![e] =
       [at |-> "read", tier |-> tier, override |-> override,
        target |-> ResolveTier(suggested, active, gold)]]
  /\ UNCHANGED <<standingVars, popup, switching, tierVars, riderIncidents>>

(* Mutant: the override is not looked at. *)
EvaluationWritesAnyway(e) ==
  LET was == evaluation[e] IN
  /\ was.at = "read"
  /\ IF was.tier = was.target
       THEN UNCHANGED <<tier, riderIncidents>>
       ELSE SetTier(was.target, When(override /\ ~was.override, "overtaken"))
  /\ evaluation' = [evaluation EXCEPT ![e] = Idle]
  /\ UNCHANGED <<standingVars, popup, switching, override, chosen>>

(* processRaider: a rider with an override is left alone. *)
EvaluationWrites(e) ==
  LET was == evaluation[e] IN
  /\ was.at = "read"
  /\ IF was.override \/ was.tier = was.target
       THEN UNCHANGED <<tier, riderIncidents>>
       ELSE SetTier(was.target, When(override, "overtaken"))
  /\ evaluation' = [evaluation EXCEPT ![e] = Idle]
  /\ UNCHANGED <<standingVars, popup, switching, override, chosen>>

EvaluationFails(e) ==
  /\ evaluation[e].at = "read"
  /\ evaluation' = [evaluation EXCEPT ![e] = Idle]
  /\ UNCHANGED <<standingVars, popup, switching, tierVars, riderIncidents>>

-----------------------------------------------------------------------------
RiderAccountNext ==
  \/ Register \/ Suspend \/ Unsuspend
  \/ \E v \in Verdicts : Verify(v)
  \/ \E q \in Switches : SwitchOnCheck(q) \/ SwitchOn(q)
  \/ SwitchOff
  \/ \E t \in Tiers : SetTierByHand(t) \/ Promote(t)
  \/ \E e \in Evaluators :
       \/ \E suggested \in Tiers, active \in SUBSET Tiers, gold \in BOOLEAN :
            EvaluationReads(e, suggested, active, gold)
       \/ EvaluationWrites(e) \/ EvaluationFails(e)

RiderAccountSpec == RiderAccountInit /\ [][RiderAccountNext]_riderVars

-----------------------------------------------------------------------------
(* Properties *)

(* The tier that the administrator set by hand stands through the weekly    *)
(* evaluations, unless one had read the rider before, or somebody promoted *)
(* the rider since.                                                        *)
OverrideStands ==
  override /\ {"overtaken", "promoted"} \cap riderIncidents = {} => tier = chosen

(* A rider takes orders (ACTIVE) only if he is approved, and during a       *)
(* suspension only if he was approved again in it; and the auto popup is on *)
(* only for GOLD and PLATINUM riders, unless they were demoted with it on. *)
ActiveIsApproved ==
  /\ riderStatus = "ACTIVE" => verdict = "APPROVED"
  /\ riderStatus = "ACTIVE" /\ suspended => "approved_again" \in riderIncidents
  /\ popup => tier \in PopupTiers \/ "demoted" \in riderIncidents

(* No evaluation gives a tier above the one the score suggests while a      *)
(* tier that low is open to the rider.                                     *)
TierByScore ==
  \A suggested \in Tiers, active \in (SUBSET Tiers) \ {{}}, gold \in BOOLEAN :
    LET t == ResolveTier(suggested, active, gold) IN
    /\ t \in active
    /\ t > suggested => \A s \in active : s <= suggested => s = GoldTier /\ ~gold
=============================================================================
