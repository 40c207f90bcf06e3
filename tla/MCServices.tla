----------------------------- MODULE MCServices -----------------------------
(***************************************************************************)
(* Small instances of the services that share no state with one another,   *)
(* for TLC to check in one run.  The initial state chooses the service to  *)
(* look at and only that one moves, so that the state space is the sum of  *)
(* theirs and not their product.  (No symmetry: its group would be the      *)
(* product, too.)                                                          *)
(***************************************************************************)
EXTENDS Disputes, Rewards, Presence, Pushes, Notices, RiderAccount, SignIn,
  Chat, TLC

CONSTANTS
  d1, d2, a1, a2, c1, c2,     \* Disputes and Rewards
  k1, k2, o1, h1, h2,         \* Presence
  s1, s2, e1, e2, j1, j2,     \* Pushes
  n1, n2, ed1,                \* Notices
  v1, q1,                     \* RiderAccount
  m1, m2, ad1,                \* SignIn
  t1, t2, w1, w2, w3, g1      \* Chat

(* The tiers of the weekly evaluation, for every input of the instance. *)
ASSUME EvaluatedTiers == TierByScore

VARIABLE focus

serviceVars ==
  <<disputeVars, rewardVars, presenceVars, pushVars, noticeVars, riderVars, signVars, chatVars>>

(* The services that are not looked at have one initial state. *)
MCInit ==
  /\ focus \in {"disputes", "rewards", "presence", "pushes", "notices", "rider", "signin", "chat"}
  /\ DisputesInit /\ RewardsInit /\ PresenceInit /\ PushesInit
  /\ NoticesInit /\ RiderAccountInit /\ SignInInit /\ ChatInit
  /\ focus # "pushes" => route = CHOOSE r \in Routes : TRUE
  /\ focus # "notices" => marked /\ expiry = 1
  /\ focus # "rider" => ~registered
  /\ focus # "signin" => ~verified

MCNext ==
  \/ /\ focus = "disputes" /\ DisputesNext
     /\ UNCHANGED <<rewardVars, presenceVars, pushVars, noticeVars, riderVars,
                    signVars, chatVars, focus>>
  \/ /\ focus = "rewards" /\ RewardsNext
     /\ UNCHANGED <<disputeVars, presenceVars, pushVars, noticeVars, riderVars,
                    signVars, chatVars, focus>>
  \/ /\ focus = "presence" /\ PresenceNext
     /\ UNCHANGED <<disputeVars, rewardVars, pushVars, noticeVars, riderVars,
                    signVars, chatVars, focus>>
  \/ /\ focus = "pushes" /\ PushesNext
     /\ UNCHANGED <<disputeVars, rewardVars, presenceVars, noticeVars, riderVars,
                    signVars, chatVars, focus>>
  \/ /\ focus = "notices" /\ NoticesNext
     /\ UNCHANGED <<disputeVars, rewardVars, presenceVars, pushVars, riderVars,
                    signVars, chatVars, focus>>
  \/ /\ focus = "rider" /\ RiderAccountNext
     /\ UNCHANGED <<disputeVars, rewardVars, presenceVars, pushVars, noticeVars,
                    signVars, chatVars, focus>>
  \/ /\ focus = "signin" /\ SignInNext
     /\ UNCHANGED <<disputeVars, rewardVars, presenceVars, pushVars, noticeVars,
                    riderVars, chatVars, focus>>
  \/ /\ focus = "chat" /\ ChatNext
     /\ UNCHANGED <<disputeVars, rewardVars, presenceVars, pushVars, noticeVars,
                    riderVars, signVars, focus>>

MCSpec == MCInit /\ [][MCNext]_<<serviceVars, focus>>
=============================================================================
