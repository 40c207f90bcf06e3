------------------------------- MODULE Rewards -------------------------------
(***************************************************************************)
(* The coins of one customer: the reward of the day's first login, the     *)
(* reward for sharing, what the customer collects, redeems and is given,   *)
(* and what the discounts of orders take and give back (see Draft).        *)
(*                                                                         *)
(* A reward is looked for in the coin history and then credited; the       *)
(* credit and its history row are separate statements.  Days pass          *)
(* meanwhile.  Every reward is one coin.                                   *)
(***************************************************************************)
EXTENDS Integers, FiniteSets, Incident

CONSTANTS
  CoinOpening,    \* the customer's coins at first
  Amounts,    \* what may be collected, redeemed, given or taken
  Configured, \* coin_amount of the reward ORDER_PLACED
  RewardCalls,      \* requests in flight at once
  MaxAsked,   \* bound: requests
  MaxDays     \* bound: days

ASSUME RewardsAssumption ==
  /\ CoinOpening \in Nat /\ Configured \in Nat
  /\ Amounts \subseteq Nat \ {0}
  /\ MaxAsked \in Nat /\ MaxDays \in Nat \ {0}

VARIABLES
  coins,                               \* User.current_coin_balance
  held,                                \* coins that discounts of orders have taken and may return
  history,                             \* signed sum of the rows of the customer's coin history
  rows,                                \* the rows of rewards: the day, role_triggered and type of each
  credited,                            \* credited[e][d]: rewards for event e that were credited on day d's account
  redeemed,                            \* value credited to the wallet for coins
  day,
  rStep, rDay, rEvent, rAmount, rSeen, \* per call: its step, day, event, amount; coins it read
  asked,                               \* requests so far (see MaxAsked)
  rewardIncidents

rewardCallVars == <<rStep, rDay, rEvent, rAmount, rSeen>>
rewardVars == <<coins, held, history, rows, credited, redeemed, day, rewardCallVars, asked, rewardIncidents>>

Events == {"DAILY_LOGIN", "SHARE_ON_SOCIAL"}
Days == 1 .. MaxDays

(*   "at_once"     a reward was looked for while another call was between  *)
(*                 its look and its row                                    *)
(*   "unrecorded"  a call ended between a credit and its row               *)
(*   "overwritten" collectCoin wrote a sum computed from an older balance  *)
(*   "misrecorded" collectCoin recorded another amount than it credited    *)
RewardIncidents == {"at_once", "unrecorded", "overwritten", "misrecorded"}

RewardsTypeOK ==
  /\ coins \in Int /\ held \in Nat /\ history \in Int /\ redeemed \in Nat
  /\ rows \subseteq [day : Days, trigger : Events, type : {"ACCUMULATION"}]
  /\ credited \in [Events -> [Days -> Nat]]
  /\ day \in Days
  /\ rStep \in [RewardCalls -> {"idle", "credit", "row", "redeem", "collect", "collected"}]
  /\ rDay \in [RewardCalls -> 0 .. MaxDays]
  /\ rEvent \in [RewardCalls -> Events \cup {"none"}]
  /\ rAmount \in [RewardCalls -> Nat]
  /\ rSeen \in [RewardCalls -> Int]
  /\ asked \in 0 .. MaxAsked
  /\ rewardIncidents \subseteq RewardIncidents

RewardsInit ==
  /\ coins = CoinOpening
  /\ held = 0
  /\ history = 0
  /\ rows = {}
  /\ credited = [e \in Events |-> [d \in Days |-> 0]]
  /\ redeemed = 0
  /\ day = 1
  /\ rStep = [c \in RewardCalls |-> "idle"]
  /\ rDay = [c \in RewardCalls |-> 0]
  /\ rEvent = [c \in RewardCalls |-> "none"]
  /\ rAmount = [c \in RewardCalls |-> 0]
  /\ rSeen = [c \in RewardCalls |-> 0]
  /\ asked = 0
  /\ rewardIncidents = {}

-----------------------------------------------------------------------------

Asked ==
  /\ asked < MaxAsked
  /\ asked' = asked + 1

StartReward(c, step, e, a) ==
  /\ rStep[c] = "idle"
  /\ Asked
  /\ rStep' = [rStep EXCEPT ![c] = step]
  /\ rDay' = [rDay EXCEPT ![c] = day]
  /\ rEvent' = [rEvent EXCEPT ![c] = e]
  /\ rAmount' = [rAmount EXCEPT ![c] = a]
  /\ rSeen' = [rSeen EXCEPT ![c] = coins]
  /\ UNCHANGED <<coins, held, history, rows, credited, redeemed, day>>

ThenReward(c, step) ==
  /\ rStep' = [rStep EXCEPT ![c] = step]
  /\ UNCHANGED <<rDay, rEvent, rAmount, rSeen>>

EndReward(c) ==
  /\ rStep' = [rStep EXCEPT ![c] = "idle"]
  /\ rDay' = [rDay EXCEPT ![c] = 0]
  /\ rEvent' = [rEvent EXCEPT ![c] = "none"]
  /\ rAmount' = [rAmount EXCEPT ![c] = 0]
  /\ rSeen' = [rSeen EXCEPT ![c] = 0]

(* The process dies or the database fails. *)
LoseReward(c) ==
  /\ rStep[c] # "idle"
  /\ EndReward(c)
  /\ rewardIncidents' = rewardIncidents \cup When(rStep[c] \in {"row", "collected"}, "unrecorded")
  /\ UNCHANGED <<coins, held, history, rows, credited, redeemed, day, asked>>

NextDay ==
  /\ day < MaxDays
  /\ day' = day + 1
  /\ UNCHANGED <<coins, held, history, rows, credited, redeemed, rewardCallVars, asked, rewardIncidents>>

-----------------------------------------------------------------------------
(* rewardDailyLogin, at each login, and rewardSocialShare *)

InFlight(e) == \E c \in RewardCalls : rStep[c] \in {"credit", "row"} /\ rEvent[c] = e

(* Mutant: the row of the day is not looked for. *)
LoginEveryTime(c) ==
  /\ StartReward(c, "credit", "DAILY_LOGIN", 1)
  /\ rewardIncidents' = rewardIncidents \cup When(InFlight("DAILY_LOGIN"), "at_once")

(* A login is rewarded unless today has a row that DAILY_LOGIN triggered. *)
Login(c) ==
  /\ \A r \in rows : ~(r.day = day /\ r.trigger = "DAILY_LOGIN")
  /\ StartReward(c, "credit", "DAILY_LOGIN", 1)
  /\ rewardIncidents' = rewardIncidents \cup When(InFlight("DAILY_LOGIN"), "at_once")

(* A share is rewarded unless today has a row of the type SHARE_ON_SOCIAL. *)
Share(c) ==
  /\ \A r \in rows : ~(r.day = day /\ r.type = "SHARE_ON_SOCIAL")
  /\ StartReward(c, "credit", "SHARE_ON_SOCIAL", 1)
  /\ rewardIncidents' = rewardIncidents \cup When(InFlight("SHARE_ON_SOCIAL"), "at_once")

(* earnCoin: the balance, then the row, which bears the day it is made on. *)
EarnCredit(c) ==
  /\ rStep[c] = "credit"
  /\ coins' = coins + rAmount[c]
  /\ credited' = [credited EXCEPT ![rEvent[c]][rDay[c]] = @ + 1]
  /\ ThenReward(c, "row")
  /\ UNCHANGED <<held, history, rows, redeemed, day, asked, rewardIncidents>>

(* Mutant: the row is written for nothing. *)
EarnRecordZero(c) ==
  /\ rStep[c] = "row"
  /\ rows' = rows \cup {[day |-> day, trigger |-> rEvent[c], type |-> "ACCUMULATION"]}
  /\ EndReward(c)
  /\ UNCHANGED <<coins, held, history, credited, redeemed, day, asked, rewardIncidents>>

EarnRecord(c) ==
  /\ rStep[c] = "row"
  /\ rows' = rows \cup {[day |-> day, trigger |-> rEvent[c], type |-> "ACCUMULATION"]}
  /\ history' = history + rAmount[c]
  /\ EndReward(c)
  /\ UNCHANGED <<coins, held, credited, redeemed, day, asked, rewardIncidents>>

-----------------------------------------------------------------------------
(* redeemCoin, collectCoin, giftCoins; the discounts of orders *)

RedeemCheck(c, a) ==
  /\ coins >= a
  /\ StartReward(c, "redeem", "none", a)
  /\ UNCHANGED rewardIncidents

Redeem(c) ==
  /\ rStep[c] = "redeem"
  /\ coins' = coins - rAmount[c]
  /\ history' = history - rAmount[c]
  /\ redeemed' = redeemed + rAmount[c]
  /\ EndReward(c)
  /\ UNCHANGED <<held, rows, credited, day, asked, rewardIncidents>>

(* The customer names the amount. *)
CollectRead(c, a) ==
  /\ StartReward(c, "collect", "none", a)
  /\ UNCHANGED rewardIncidents

Collect(c) ==
  /\ rStep[c] = "collect"
  /\ coins' = rSeen[c] + rAmount[c]
  /\ rewardIncidents' = rewardIncidents \cup When(coins # rSeen[c], "overwritten")
  /\ ThenReward(c, "collected")
  /\ UNCHANGED <<held, history, rows, credited, redeemed, day, asked>>

(* The row names the configured amount. *)
CollectRecord(c) ==
  /\ rStep[c] = "collected"
  /\ history' = history + Configured
  /\ rewardIncidents' = rewardIncidents \cup When(rAmount[c] # Configured, "misrecorded")
  /\ EndReward(c)
  /\ UNCHANGED <<coins, held, rows, credited, redeemed, day, asked>>

(* The administrator's gift is one transaction of relative updates. *)
Gift(a) ==
  /\ Asked
  /\ coins' = coins + a
  /\ history' = history + a
  /\ UNCHANGED <<held, rows, credited, redeemed, day, rewardCallVars, rewardIncidents>>

(* Discounts leave no row in the coin history. *)
DiscountTakes(a) ==
  /\ Asked
  /\ coins >= a
  /\ coins' = coins - a
  /\ held' = held + a
  /\ UNCHANGED <<history, rows, credited, redeemed, day, rewardCallVars, rewardIncidents>>

DiscountReturns(a) ==
  /\ held >= a
  /\ coins' = coins + a
  /\ held' = held - a
  /\ UNCHANGED <<history, rows, credited, redeemed, day, rewardCallVars, asked, rewardIncidents>>

-----------------------------------------------------------------------------
RewardRequest(c) ==
  \/ Login(c) \/ Share(c)
  \/ \E a \in Amounts : RedeemCheck(c, a) \/ CollectRead(c, a)

RewardStep(c) ==
  \/ EarnCredit(c) \/ EarnRecord(c)
  \/ Redeem(c)
  \/ Collect(c) \/ CollectRecord(c)
  \/ LoseReward(c)

RewardsNext ==
  \/ \E c \in RewardCalls : RewardRequest(c) \/ RewardStep(c)
  \/ \E a \in Amounts : Gift(a) \/ DiscountTakes(a) \/ DiscountReturns(a)
  \/ NextDay

RewardsSpec == RewardsInit /\ [][RewardsNext]_rewardVars

-----------------------------------------------------------------------------
(* Properties *)

(* The first login of a day is rewarded and no other, although days pass    *)
(* between the look at the history, the credit and the row, unless two     *)
(* logins are handled at once or a call ends before its row is written.    *)
DailyLoginOnce ==
  {"at_once", "unrecorded"} \cap rewardIncidents = {} =>
    \A d \in Days : credited["DAILY_LOGIN"][d] <= 1

(* The coin history explains the balance, but for what orders hold, unless  *)
(* collectCoin wrote over a change or recorded another amount than it      *)
(* credited, or a call ended between a credit and its row.                 *)
HistoryExplainsCoins ==
  /\ {"unrecorded", "overwritten", "misrecorded"} \cap rewardIncidents = {}
  /\ \A c \in RewardCalls : rStep[c] \notin {"row", "collected"}
  => coins + held = CoinOpening + history
=============================================================================
