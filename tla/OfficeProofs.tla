----------------------------- MODULE OfficeProofs -----------------------------
(***************************************************************************)
(* Proofs about the incentives, the roles, the lists and the catalogues,   *)
(* which MCOffice checks together.  They share no state; each theorem is   *)
(* about the specification of one.                                         *)
(***************************************************************************)
EXTENDS Incentives, Access, Listings, Catalogue, FiniteSetTheorems, TLAPS

-----------------------------------------------------------------------------
(* Proofs about Incentives, for every set of users, runs and requests.     *)
(* Whoever is about to be paid had claims left when the call counted them; *)
(* the payment compares its count with the claims there are now.           *)

ClaimsLeft ==
  \A c \in IncentiveCalls : payingUser[c] # NoUser => claimsFound[c] < MaxClaims

IncentivesInv ==
  /\ IncentivesTypeOK
  /\ ClaimsLeft
  /\ ClaimedWithinLimit

LEMMA IncentivesInitInv == IncentivesInit => IncentivesInv
<1> SUFFICES ASSUME IncentivesInit PROVE IncentivesInv
  OBVIOUS
<1>1. 0 \in 0 .. MaxIncentiveEdits /\ 0 <= MaxClaims
  BY IncentivesAssumption
<1>2. IncentivesTypeOK
  BY <1>1 DEF IncentivesInit, IncentivesTypeOK
<1>3. ClaimsLeft /\ ClaimedWithinLimit
  BY <1>1 DEF IncentivesInit, ClaimsLeft, ClaimedWithinLimit
<1> QED
  BY <1>2, <1>3 DEF IncentivesInv

(* A call counts the claims of a user, or is done with him. *)
LEMMA CallMoves ==
  ASSUME IncentivesInv, NEW c \in IncentiveCalls, NEW u \in Users \cup {NoUser}, NEW n \in Nat,
         u # NoUser => n < MaxClaims,
         payingUser' = [payingUser EXCEPT ![c] = u],
         claimsFound' = [claimsFound EXCEPT ![c] = n],
         runTodo' \in [Runs -> SUBSET Users],
         UNCHANGED <<incentiveStatus, claimType, periodOver, meetsRules, collected, rewarded,
                     incentiveEdits, racedUsers>>
  PROVE  IncentivesInv'
BY DEF IncentivesInv, IncentivesTypeOK, ClaimsLeft, ClaimedWithinLimit

LEMMA CountStep ==
  ASSUME IncentivesInv, NEW c \in IncentiveCalls, NEW u \in Users,
         (Qualify(c, u) /\ c \in Runs) \/ CollectCheck(c, u)
  PROVE  IncentivesInv'
<1>1. collected[u] \in Nat /\ collected[u] < MaxClaims
  BY IncentivesAssumption DEF IncentivesInv, IncentivesTypeOK, Qualify, CollectCheck
<1>2. runTodo' \in [Runs -> SUBSET Users]
  BY DEF IncentivesInv, IncentivesTypeOK, Qualify, PickUser, CollectCheck
<1> QED
  BY <1>1, <1>2, CallMoves DEF Qualify, CollectCheck

LEMMA PayStep ==
  ASSUME IncentivesInv, NEW c \in IncentiveCalls, PayReward(c)
  PROVE  IncentivesInv'
<1>1. PICK u \in Users : u = payingUser[c]
  BY DEF IncentivesInv, IncentivesTypeOK, PayReward
<1>2. /\ claimsFound[c] \in Nat /\ claimsFound[c] < MaxClaims
      /\ collected \in [Users -> Nat] /\ rewarded \in [Users -> Nat]
  BY <1>1, IncentivesAssumption DEF IncentivesInv, IncentivesTypeOK, ClaimsLeft, PayReward
<1>3. /\ collected' = [collected EXCEPT ![u] = collected[u] + 1]
      /\ rewarded' = [rewarded EXCEPT ![u] = rewarded[u] + 1]
      /\ racedUsers' = IF collected[u] # claimsFound[c] THEN racedUsers \cup {u} ELSE racedUsers
      /\ payingUser' = [payingUser EXCEPT ![c] = NoUser]
      /\ claimsFound' = [claimsFound EXCEPT ![c] = 0]
      /\ UNCHANGED <<incentiveStatus, claimType, periodOver, meetsRules, runTodo, incentiveEdits>>
  BY <1>1 DEF PayReward, RewardOver
<1>4. IncentivesTypeOK'
  BY <1>2, <1>3 DEF IncentivesInv, IncentivesTypeOK
<1>5. ClaimsLeft'
  BY <1>3 DEF IncentivesInv, IncentivesTypeOK, ClaimsLeft
<1>6. ClaimedWithinLimit'
  BY <1>2, <1>3, IncentivesAssumption DEF IncentivesInv, ClaimedWithinLimit
<1> QED
  BY <1>4, <1>5, <1>6 DEF IncentivesInv

LEMMA IncentivesStepInv == IncentivesInv /\ [IncentivesNext]_incentiveVars => IncentivesInv'
<1> SUFFICES ASSUME IncentivesInv, [IncentivesNext]_incentiveVars
             PROVE  IncentivesInv'
  OBVIOUS
<1>0. Runs \subseteq IncentiveCalls /\ Requests \subseteq IncentiveCalls
  BY DEF IncentiveCalls
<1>1. CASE UNCHANGED incentiveVars
  BY <1>1 DEF incentiveVars, incentiveCallVars, IncentivesInv, IncentivesTypeOK, ClaimsLeft,
     ClaimedWithinLimit
<1>2. ASSUME NEW c \in Runs, StartRun(c) \/ \E u \in Users : SkipUser(c, u)
      PROVE  IncentivesInv'
  BY <1>2 DEF StartRun, SkipUser, PickUser, IncentivesInv, IncentivesTypeOK, ClaimsLeft,
     ClaimedWithinLimit
<1>3. ASSUME NEW c \in IncentiveCalls, PayRewardFails(c)
      PROVE  IncentivesInv'
  <2>1. runTodo' \in [Runs -> SUBSET Users]
    BY <1>3 DEF PayRewardFails, IncentivesInv, IncentivesTypeOK
  <2> QED
    BY <1>3, <2>1, CallMoves DEF PayRewardFails, RewardOver
<1>4. CASE IncentivesRestart
  <2>1. incentiveEdits' \in 0 .. MaxIncentiveEdits
    BY <1>4, IncentivesAssumption DEF IncentivesRestart, IncentivesInv, IncentivesTypeOK
  <2> QED
    BY <1>4, <2>1 DEF IncentivesRestart, IncentivesInv, IncentivesTypeOK, ClaimsLeft, ClaimedWithinLimit
<1>5. CASE (\E s \in {"ACTIVE", "DISABLED"} : SetIncentiveStatus(s))
           \/ (\E t \in {"AUTO", "MANUAL"} : SetClaim(t)) \/ RemoveIncentive
  <2>1. incentiveEdits' \in 0 .. MaxIncentiveEdits
    BY <1>5, IncentivesAssumption DEF SetIncentiveStatus, SetClaim, RemoveIncentive, IncentiveEdit,
       IncentivesInv, IncentivesTypeOK
  <2> QED
    BY <1>5, <2>1 DEF SetIncentiveStatus, SetClaim, RemoveIncentive, incentiveCallVars, IncentivesInv,
       IncentivesTypeOK, ClaimsLeft, ClaimedWithinLimit
<1>6. CASE PeriodEnds \/ DeactivateIncentive \/ \E u \in Users : RulesChange(u)
  BY <1>6 DEF PeriodEnds, DeactivateIncentive, RulesChange, incentiveCallVars, IncentivesInv,
     IncentivesTypeOK, ClaimsLeft, ClaimedWithinLimit
<1> QED
  BY <1>0, <1>1, <1>2, <1>3, <1>4, <1>5, <1>6, CountStep, PayStep DEF IncentivesNext, RunStep

(* The types of the incentive, its claims and the calls. *)
THEOREM IncentivesTypeCorrect == IncentivesSpec => []IncentivesTypeOK
<1>1. IncentivesInv => IncentivesTypeOK
  BY DEF IncentivesInv
<1> QED
  BY <1>1, IncentivesInitInv, IncentivesStepInv, PTL DEF IncentivesSpec

(* Every reward has its claim, and a user claims no more often than the      *)
(* incentive allows, unless two calls pay him at once.                       *)
THEOREM ClaimsWithinLimit == IncentivesSpec => []ClaimedWithinLimit
<1>1. IncentivesInv => ClaimedWithinLimit
  BY DEF IncentivesInv
<1> QED
  BY <1>1, IncentivesInitInv, IncentivesStepInv, PTL DEF IncentivesSpec

-----------------------------------------------------------------------------
(* Proofs about Access, for every set of roles, users, permissions and     *)
(* calls.  The argument: what a role was last given is written at once,    *)
(* but for an update, which first removes everything.  Until it writes, the *)
(* role has no permissions and, if no other update crossed it, no other    *)
(* writer.  The seed ends with a decision about all static roles, and has  *)
(* written them all, if it found them all.                                 *)

(* A call works on a role that an administrator made. *)
CallsOnCustom ==
  \A c \in RoleCalls : roleCall[c] # "none" => roleOf[c] \in CustomRoles /\ roleState[roleOf[c]] # "unused"

(* Custom roles are made when the static ones are there. *)
StaticFirst ==
  server = "up" \/ (\E r \in CustomRoles : roleState[r] # "unused") => \A r \in StaticRoles : There(r)

SeedFoundAll ==
  seeding = "sync" /\ "half_made" \notin accessIncidents =>
    \A r \in StaticRoles : There(r) /\ (r \in seenRoles \/ granted[r] = Full)

(* Nobody joins or leaves a role unnoticed. *)
GoneIsEmpty == \A r \in RoleIds : roleState[r] = "gone" => member[r] = {}
MembersJoined ==
  "counted" \notin accessIncidents =>
    /\ member = joined
    /\ \A c \in RoleCalls : roleCall[c] = "delete" => member[roleOf[c]] = {}

(* One update at a time rewrites a role, and finds it empty. *)
RewritesAlone ==
  "crossed" \notin accessIncidents =>
    \A c \in RoleCalls : roleCall[c] = "write" =>
      /\ granted[roleOf[c]] = {}
      /\ \A d \in RoleCalls : roleCall[d] = "write" /\ roleOf[d] = roleOf[c] => d = c

GrantedAsDecided ==
  accessIncidents = {} =>
    \A r \in RoleIds :
      \/ granted[r] = decided[r]
      \/ roleState[r] = "gone"
      \/ \E c \in RoleCalls : roleCall[c] = "write" /\ roleOf[c] = r

AccessInv ==
  /\ AccessTypeOK
  /\ CallsOnCustom
  /\ StaticFirst
  /\ SeedFoundAll
  /\ GoneIsEmpty
  /\ MembersJoined
  /\ RewritesAlone
  /\ GrantedAsDecided

LEMMA AccessInitInv == AccessInit => AccessInv
<1> SUFFICES ASSUME AccessInit PROVE AccessInv
  OBVIOUS
<1>1. AccessTypeOK
  BY AccessAssumption DEF AccessInit, AccessTypeOK, AccessIncidents
<1> QED
  BY <1>1 DEF AccessInit, AccessInv, CallsOnCustom, StaticFirst, SeedFoundAll, GoneIsEmpty,
     MembersJoined, RewritesAlone, GrantedAsDecided, There, RoleIds

LEMMA AccessTypeStep == AccessTypeOK /\ [AccessNext]_accessVars => AccessTypeOK'
<1> SUFFICES ASSUME AccessTypeOK, [AccessNext]_accessVars
             PROVE  AccessTypeOK'
  OBVIOUS
<1>0. Counted => roleCalls' \in 0 .. MaxRoleCalls
  BY AccessAssumption DEF AccessTypeOK, Counted
<1> USE AccessAssumption DEF AccessTypeOK, RoleIds
<1>1. CASE UNCHANGED accessVars
  BY <1>1 DEF accessVars
<1>2. ASSUME NEW r \in StaticRoles, MakeStatic(r) \/ SeedSync(r)
      PROVE  AccessTypeOK'
  BY <1>2 DEF MakeStatic, SeedSync
<1>3. CASE Started
  BY <1>3 DEF Started
<1>4. CASE Restart
  BY <1>0, <1>4 DEF Restart, When, AccessIncidents
<1>5. CASE Seed
  BY <1>0, <1>5 DEF Seed, When, AccessIncidents
<1>6. CASE SeedInitial \/ SeedEnds
  BY <1>6 DEF SeedInitial, SeedEnds
<1>7. ASSUME NEW r \in RoleIds, NEW u \in Members, AddUserToRole(r, u)
      PROVE  AccessTypeOK'
  BY <1>0, <1>7 DEF AddUserToRole, When, AccessIncidents
<1>8. ASSUME NEW r \in RoleIds, NEW u \in Members, RemoveUserFromRole(r, u)
      PROVE  AccessTypeOK'
  BY <1>0, <1>8 DEF RemoveUserFromRole
<1>9. ASSUME NEW r \in CustomRoles, NEW ps \in SUBSET Permissions, CreateRole(r, ps)
      PROVE  AccessTypeOK'
  BY <1>0, <1>9 DEF CreateRole
<1>10. ASSUME NEW c \in RoleCalls, NEW r \in CustomRoles, NEW ps \in SUBSET Permissions,
              UpdateCheck(c, r, ps) \/ DeleteCheck(c, r)
      PROVE  AccessTypeOK'
  BY <1>0, <1>10 DEF UpdateCheck, DeleteCheck, StartRole, RoleTo
<1>11. ASSUME NEW c \in RoleCalls, UpdateClear(c)
      PROVE  AccessTypeOK'
  BY <1>11 DEF UpdateClear, RoleTo, When, AccessIncidents
<1>12. ASSUME NEW c \in RoleCalls, UpdateWrite(c)
      PROVE  AccessTypeOK'
  BY <1>12 DEF UpdateWrite, RoleEnds, RoleTo
<1>13. ASSUME NEW c \in RoleCalls, DeleteCount(c) \/ DeleteRole(c)
      PROVE  AccessTypeOK'
  BY <1>13 DEF DeleteCount, DeleteRole, RoleEnds, RoleTo
<1> QED
  BY <1>1, <1>2, <1>3, <1>4, <1>5, <1>6, <1>7, <1>8, <1>9, <1>10, <1>11, <1>12, <1>13 DEF AccessNext

LEMMA AccessStepInv == AccessInv /\ [AccessNext]_accessVars => AccessInv'
<1> SUFFICES ASSUME AccessInv, [AccessNext]_accessVars
             PROVE  AccessInv'
  OBVIOUS
<1>0. AccessTypeOK' /\ StaticRoles \cap CustomRoles = {}
  BY AccessTypeStep, AccessAssumption DEF AccessInv
<1> USE DEF AccessInv, AccessTypeOK, RoleIds, There
<1> DEFINE Rest == /\ CallsOnCustom /\ StaticFirst /\ SeedFoundAll /\ GoneIsEmpty /\ MembersJoined
                   /\ RewritesAlone /\ GrantedAsDecided
<1> USE DEF CallsOnCustom, StaticFirst, SeedFoundAll, GoneIsEmpty, MembersJoined, RewritesAlone,
            GrantedAsDecided
<1>1. CASE UNCHANGED accessVars
  BY <1>1 DEF accessVars
<1>2. ASSUME NEW r \in StaticRoles, MakeStatic(r)
      PROVE  Rest'
  BY <1>0, <1>2 DEF MakeStatic
<1>3. ASSUME NEW r \in StaticRoles, SeedSync(r)
      PROVE  Rest'
  BY <1>0, <1>3 DEF SeedSync
<1>4. CASE Started
  BY <1>0, <1>4 DEF Started
<1>5. CASE Restart
  BY <1>0, <1>5 DEF Restart, When
<1>6. CASE Seed
  BY <1>0, <1>6 DEF Seed, When
<1>7. CASE SeedInitial
  BY <1>0, <1>7 DEF SeedInitial
<1>8. CASE SeedEnds
  BY <1>0, <1>8 DEF SeedEnds
<1>9. ASSUME NEW r \in RoleIds, NEW u \in Members, AddUserToRole(r, u)
      PROVE  Rest'
  <2>1. CallsOnCustom' /\ StaticFirst' /\ SeedFoundAll' /\ RewritesAlone' /\ GrantedAsDecided'
    BY <1>0, <1>9 DEF AddUserToRole, When
  <2>2. GoneIsEmpty'
    BY <1>0, <1>9 DEF AddUserToRole
  <2>3. MembersJoined'
    BY <1>0, <1>9 DEF AddUserToRole, When
  <2> QED
    BY <2>1, <2>2, <2>3
<1>10. ASSUME NEW r \in RoleIds, NEW u \in Members, RemoveUserFromRole(r, u)
      PROVE  Rest'
  <2>1. CallsOnCustom' /\ StaticFirst' /\ SeedFoundAll' /\ RewritesAlone' /\ GrantedAsDecided'
    BY <1>0, <1>10 DEF RemoveUserFromRole
  <2>2. GoneIsEmpty'
    BY <1>0, <1>10 DEF RemoveUserFromRole
  <2>3. MembersJoined'
    BY <1>0, <1>10 DEF RemoveUserFromRole
  <2> QED
    BY <2>1, <2>2, <2>3
<1>11. ASSUME NEW r \in CustomRoles, NEW ps \in SUBSET Permissions, CreateRole(r, ps)
      PROVE  Rest'
  BY <1>0, <1>11 DEF CreateRole
<1>12. ASSUME NEW c \in RoleCalls, NEW r \in CustomRoles, NEW ps \in SUBSET Permissions,
              UpdateCheck(c, r, ps) \/ DeleteCheck(c, r)
      PROVE  Rest'
  BY <1>0, <1>12 DEF UpdateCheck, DeleteCheck, StartRole, RoleTo
<1>13. ASSUME NEW c \in RoleCalls, UpdateClear(c)
      PROVE  Rest'
  BY <1>0, <1>13 DEF UpdateClear, RoleTo, Open, When
<1>14. ASSUME NEW c \in RoleCalls, UpdateWrite(c)
      PROVE  Rest'
  <2>1. CallsOnCustom' /\ StaticFirst' /\ SeedFoundAll' /\ GoneIsEmpty' /\ MembersJoined'
    BY <1>0, <1>14 DEF UpdateWrite, RoleEnds, RoleTo
  <2>2. RewritesAlone'
    BY <1>0, <1>14 DEF UpdateWrite, RoleEnds, RoleTo
  <2>3. GrantedAsDecided'
    <3> SUFFICES ASSUME accessIncidents' = {}, NEW r \in RoleIds
                 PROVE  \/ granted'[r] = decided'[r]
                        \/ roleState'[r] = "gone"
                        \/ \E d \in RoleCalls : roleCall'[d] = "write" /\ roleOf'[d] = r
      OBVIOUS
    <3>1. accessIncidents = {} /\ granted[roleOf[c]] = {} /\ roleOf[c] \in RoleIds
      BY <1>14 DEF UpdateWrite
    <3>2. CASE r = roleOf[c]
      BY <1>0, <1>14, <3>1, <3>2 DEF UpdateWrite
    <3>3. CASE r # roleOf[c]
      BY <1>0, <1>14, <3>1, <3>3 DEF UpdateWrite, RoleEnds, RoleTo
    <3> QED
      BY <3>2, <3>3
  <2> QED
    BY <2>1, <2>2, <2>3
<1>15. ASSUME NEW c \in RoleCalls, DeleteCount(c)
      PROVE  Rest'
  BY <1>0, <1>15 DEF DeleteCount, CountUsers, RoleEnds, RoleTo
<1>16. ASSUME NEW c \in RoleCalls, DeleteRole(c)
      PROVE  Rest'
  BY <1>0, <1>16 DEF DeleteRole, RoleEnds, RoleTo
<1> QED
  BY <1>0, <1>1, <1>2, <1>3, <1>4, <1>5, <1>6, <1>7, <1>8, <1>9, <1>10, <1>11, <1>12, <1>13, <1>14,
     <1>15, <1>16 DEF AccessNext

(* A user gets through a route exactly when a role he was added to was last  *)
(* given its permission, unless the incidents named have happened.           *)
THEOREM RightsFollowDecisions == AccessSpec => []RightsAsDecided
<1>1. AccessInv => RightsAsDecided
  <2> SUFFICES ASSUME AccessInv, accessIncidents = {}, Rewritten = {},
                      NEW u \in Members, NEW p \in Permissions
               PROVE  CanActivate(u, p) <=> Entitled(u, p)
    BY DEF RightsAsDecided
  <2>1. member = joined /\ p # "none"
    BY AccessAssumption DEF AccessInv, MembersJoined
  <2>2. ASSUME NEW r \in RoleIds, u \in member[r]
        PROVE  granted[r] = decided[r]
    BY <2>2 DEF AccessInv, GrantedAsDecided, GoneIsEmpty, Rewritten
  <2> QED
    BY <2>1, <2>2 DEF CanActivate, CheckPermission, Entitled
<1> QED
  BY <1>1, AccessInitInv, AccessStepInv, PTL DEF AccessSpec

-----------------------------------------------------------------------------
(* Proofs about Listings, for every number of rows and every page size.    *)
(* A row that stays has a place that only moves down when rows enter, so   *)
(* it is on a page already read or still ahead; one that was shown moves   *)
(* up at most when rows leave, and is not met again.                       *)

Ordered == {"unordered", "page_total"} \cap listIncidents = {}

(* The places on the pages read so far. *)
Behind == Skip(IF part \in {"rows", "both"} THEN page + 1 ELSE page)

ListTyped ==
  /\ present \subseteq RowIds /\ kept \subseteq present /\ shown \subseteq RowIds
  /\ page \in Nat \ {0} /\ total \in Nat
  /\ part \in {"none", "rows", "total", "both"}
  /\ part = "rows" => list.total # "none"
  /\ part = "total" => list.total = "beside"
  /\ Ordered => sorting # "key" /\ list.total # "page"

StayersSeen ==
  Ordered /\ {"left", "total_before"} \cap listIncidents = {} =>
    /\ \A i \in kept : Place(i) <= Behind => i \in shown
    /\ part = "total" => Cardinality(present) <= total
    /\ finished \/ (part = "both" /\ ~More) => kept \subseteq shown

NoneTwice ==
  Ordered /\ "entered" \notin listIncidents =>
    /\ ~repeated
    /\ ~finished => \A i \in shown \cap present : Place(i) <= Behind

ListingsInv == ListTyped /\ StayersSeen /\ NoneTwice

-----------------------------------------------------------------------------
LEMMA Numbered ==
  /\ LastRow \in Nat /\ Limit \in Nat /\ Limit # 0 /\ FirstRows \subseteq RowIds
  /\ IsFiniteSet(RowIds) /\ RowIds \subseteq Int
BY ListingsAssumption, FS_Interval DEF RowIds

(* Pages follow each other. *)
LEMMA Pages ==
  ASSUME NEW p \in Nat \ {0}
  PROVE  /\ Skip(p) \in Nat /\ Skip(p + 1) = Skip(p) + Limit /\ Skip(p + 1) = p * Limit
         /\ \A n \in Int : n \in Places(p) <=> Skip(p) < n /\ n <= Skip(p + 1)
<1>1. p - 1 \in Nat /\ (p + 1) - 1 = p
  OBVIOUS
<1>2. \A a, b \in Nat : a * b \in Nat
  OBVIOUS
<1>3. Skip(p) \in Nat /\ p * Limit \in Nat
  BY <1>1, <1>2, Numbered DEF Skip
<1>4. p * Limit = (p - 1) * Limit + Limit
  <2>1. \A q, n \in Int : (q + 1) * n = q * n + n
    OBVIOUS
  <2>2. (p - 1) + 1 = p /\ p - 1 \in Int /\ Limit \in Int
    BY Numbered
  <2> QED
    BY <2>1, <2>2
<1>5. Skip(p + 1) = Skip(p) + Limit /\ Skip(p + 1) = p * Limit
  BY <1>1, <1>4 DEF Skip
<1>6. \A n \in Int : n \in Places(p) <=> Skip(p) < n /\ n <= Skip(p + 1)
  <2>1. Places(p) = (Skip(p) + 1) .. (Skip(p) + Limit)
    BY DEF Places
  <2> HIDE DEF Skip
  <2> QED
    BY <1>3, <1>5, <2>1, Numbered
<1> QED
  BY <1>3, <1>5, <1>6

(* The rows up to one, in the order asked for. *)
UpTo(S, i) == {j \in S : IF sorting = "oldest" THEN j <= i ELSE j >= i}

LEMMA PlacesFinite ==
  ASSUME NEW S \in SUBSET RowIds, NEW i
  PROVE  /\ IsFiniteSet(S) /\ Cardinality(S) \in Nat
         /\ Cardinality(UpTo(S, i)) \in Nat /\ Cardinality(UpTo(S, i)) <= Cardinality(S)
         /\ i \in S => Cardinality(UpTo(S, i)) >= 1
<1>1. IsFiniteSet(S)
  BY Numbered, FS_Subset
<1>2. UpTo(S, i) \in SUBSET S
  BY DEF UpTo
<1>3. IsFiniteSet(UpTo(S, i)) /\ Cardinality(UpTo(S, i)) <= Cardinality(S)
  BY <1>1, <1>2, FS_Subset
<1>4. Cardinality(S) \in Nat /\ Cardinality(UpTo(S, i)) \in Nat
  BY <1>1, <1>3, FS_CardinalityType
<1>5. ASSUME i \in S PROVE Cardinality(UpTo(S, i)) >= 1
  <2>1. i \in Int
    BY <1>5, Numbered
  <2>2. i \in UpTo(S, i)
    BY <1>5, <2>1 DEF UpTo
  <2>3. Cardinality(UpTo(S, i)) # 0
    BY <1>3, <2>2, FS_EmptySet
  <2> QED
    BY <1>4, <2>3
<1> QED
  BY <1>1, <1>3, <1>4, <1>5

LEMMA PlacesMove ==
  ASSUME NEW S \in SUBSET RowIds, NEW T \in SUBSET S, NEW i
  PROVE  Cardinality(UpTo(T, i)) <= Cardinality(UpTo(S, i))
<1>1. UpTo(S, i) \in SUBSET RowIds /\ UpTo(T, i) \in SUBSET UpTo(S, i)
  BY DEF UpTo
<1>2. IsFiniteSet(UpTo(S, i))
  BY <1>1, Numbered, FS_Subset
<1> QED
  BY <1>1, <1>2, FS_Subset

(* Rows have different places, so that every place is taken. *)
LEMMA PlacesDiffer ==
  ASSUME NEW S \in SUBSET RowIds, NEW i \in S, NEW k \in S, i # k
  PROVE  Cardinality(UpTo(S, i)) # Cardinality(UpTo(S, k))
<1>1. i \in Int /\ k \in Int /\ S \subseteq Int
  BY Numbered
<1>2. UpTo(S, i) \in SUBSET S /\ UpTo(S, k) \in SUBSET S
  BY DEF UpTo
<1>3. IsFiniteSet(UpTo(S, i)) /\ IsFiniteSet(UpTo(S, k))
  BY <1>2, PlacesFinite, FS_Subset
<1>4. UpTo(S, i) # UpTo(S, k)
  <2>1. i \in UpTo(S, i) /\ k \in UpTo(S, k)
    BY <1>1 DEF UpTo
  <2>2. ~(i \in UpTo(S, k) /\ k \in UpTo(S, i))
    BY <1>1 DEF UpTo
  <2> QED
    BY <2>1, <2>2
<1>5. UpTo(S, i) \subseteq UpTo(S, k) \/ UpTo(S, k) \subseteq UpTo(S, i)
  <2>1. CASE sorting = "oldest"
    <3>1. UpTo(S, i) = {j \in S : j <= i} /\ UpTo(S, k) = {j \in S : j <= k}
      BY <2>1 DEF UpTo
    <3>2. i <= k \/ k <= i
      BY <1>1
    <3>3. \A j \in S : (j <= i /\ i <= k => j <= k) /\ (j <= k /\ k <= i => j <= i)
      BY <1>1
    <3> QED
      BY <3>1, <3>2, <3>3
  <2>2. CASE sorting # "oldest"
    <3>1. UpTo(S, i) = {j \in S : j >= i} /\ UpTo(S, k) = {j \in S : j >= k}
      BY <2>2 DEF UpTo
    <3>2. i <= k \/ k <= i
      BY <1>1
    <3>3. \A j \in S : (j >= i /\ k <= i => j >= k) /\ (j >= k /\ i <= k => j >= i)
      BY <1>1
    <3> QED
      BY <3>1, <3>2, <3>3
  <2> QED
    BY <2>1, <2>2
<1>6. CASE UpTo(S, i) \subseteq UpTo(S, k)
  BY <1>3, <1>4, <1>6, FS_Subset
<1>7. CASE UpTo(S, k) \subseteq UpTo(S, i)
  BY <1>3, <1>4, <1>7, FS_Subset
<1> QED
  BY <1>5, <1>6, <1>7

LEMMA PlacesTaken ==
  ASSUME NEW S \in SUBSET RowIds, NEW n \in 1..Cardinality(S)
  PROVE  \E i \in S : Cardinality(UpTo(S, i)) = n
<1> DEFINE size == Cardinality(S)
           f == [i \in S |-> Cardinality(UpTo(S, i))]
<1>1. IsFiniteSet(S) /\ size \in Nat /\ \A i \in S : Cardinality(UpTo(S, i)) \in 1..size
  BY PlacesFinite
<1>2. f \in [S -> 1..size] /\ \A a, b \in S : f[a] = f[b] => a = b
  BY <1>1, PlacesDiffer
<1>3. f \in Injection(S, 1..size)
  BY <1>2 DEF Injection, IsInjective
<1>4. IsFiniteSet(1..size) /\ Cardinality(1..size) = size
  BY <1>1, FS_Interval
<1>5. f \in Surjection(S, 1..size)
  BY <1>3, <1>4, FS_Injection
<1> QED
  BY <1>5 DEF Surjection

(* A page that is not full is the last. *)
LEMMA PageFull ==
  ASSUME NEW S \in SUBSET RowIds, NEW p \in Nat \ {0}, NEW i \in S,
         Cardinality(UpTo(S, i)) > Skip(p + 1)
  PROVE  Cardinality({k \in S : Cardinality(UpTo(S, k)) \in Places(p)}) = Limit
<1> DEFINE rows == {k \in S : Cardinality(UpTo(S, k)) \in Places(p)}
           f == [k \in rows |-> Cardinality(UpTo(S, k))]
<1>1. Cardinality(S) \in Nat /\ \A k \in S : Cardinality(UpTo(S, k)) \in Nat /\ Cardinality(UpTo(S, k)) <= Cardinality(S)
  BY PlacesFinite
<1>2. Skip(p) \in Nat /\ Skip(p + 1) = Skip(p) + Limit /\ Limit \in Nat
      /\ \A n \in Int : n \in Places(p) <=> Skip(p) < n /\ n <= Skip(p + 1)
  BY Pages, Numbered
<1>3. Places(p) = (Skip(p) + 1) .. (Skip(p) + Limit)
  BY DEF Places
<1>4. IsFiniteSet(Places(p)) /\ Cardinality(Places(p)) = Limit
  <2> DEFINE a == Skip(p) + 1
             b == Skip(p) + Limit
  <2>1. a \in Int /\ b \in Int /\ (IF a > b THEN 0 ELSE b - a + 1) = Limit
    BY <1>2
  <2> HIDE DEF a, b
  <2>2. IsFiniteSet(a .. b) /\ Cardinality(a .. b) = IF a > b THEN 0 ELSE b - a + 1
    BY <2>1, FS_Interval
  <2>3. Places(p) = a .. b
    BY <1>3 DEF a, b
  <2> QED
    BY <2>1, <2>2, <2>3
<1>5. Places(p) \subseteq 1..Cardinality(S)
  <2> SUFFICES ASSUME NEW n \in Places(p) PROVE n \in 1..Cardinality(S)
    OBVIOUS
  <2>1. n \in Int
    BY <1>2, <1>3
  <2> QED
    BY <1>1, <1>2, <2>1
<1> HIDE DEF Skip, Places
<1>6. f \in [rows -> Places(p)]
  OBVIOUS
<1>7. f \in Injection(rows, Places(p))
  BY <1>6, PlacesDiffer DEF Injection, IsInjective
<1>8. f \in Surjection(rows, Places(p))
  <2>1. \A n \in Places(p) : \E k \in S : Cardinality(UpTo(S, k)) = n
    BY <1>5, PlacesTaken
  <2> QED
    BY <1>6, <2>1 DEF Surjection
<1> QED
  BY <1>4, <1>7, <1>8, FS_Injection

-----------------------------------------------------------------------------
LEMMA PlaceIs == \A i : Place(i) = Cardinality(UpTo(present, i)) /\ Place(i)' = Cardinality(UpTo(present, i))'
BY DEF Place, UpTo

LEMMA ListingsInitInv == ListingsInit => ListingsInv
<1> SUFFICES ASSUME ListingsInit PROVE ListingsInv
  OBVIOUS
<1>1. ListTyped
  BY Numbered DEF ListingsInit, ListTyped, Ordered, When
<1>2. Behind = 0
  BY Numbered DEF ListingsInit, Behind, Skip
<1>3. \A i \in kept : Place(i) >= 1
  BY Numbered, PlaceIs, PlacesFinite DEF ListingsInit
<1>4. \A i \in kept : Place(i) \in Nat
  BY Numbered, PlaceIs, PlacesFinite DEF ListingsInit
<1>5. StayersSeen
  BY <1>2, <1>3, <1>4 DEF ListingsInit, StayersSeen
<1>6. NoneTwice
  BY DEF ListingsInit, NoneTwice
<1> QED
  BY <1>1, <1>5, <1>6 DEF ListingsInv

LEMMA BehindTyped ==
  ASSUME ListTyped
  PROVE  Behind \in Nat /\ Skip(page) \in Nat /\ Skip(page + 1) \in Nat
BY Pages DEF ListTyped, Behind

LEMMA EnterInv ==
  ASSUME ListingsInv, NEW n \in RowIds, Enter(n)
  PROVE  ListingsInv'
<1>1. /\ UNCHANGED <<list, sorting, page, part, got, total, shown, repeated, finished, kept>>
      /\ present' = present \cup {n} /\ n \notin present /\ ~finished
      /\ listIncidents' = listIncidents \cup {"entered"} \cup When(part = "total", "total_before")
  BY DEF Enter, Shift
<1>2. ListTyped /\ (Ordered' => Ordered)
  BY <1>1 DEF ListingsInv, Ordered
<1>3. ListTyped'
  BY <1>1, <1>2 DEF ListTyped
<1>4. Behind' = Behind /\ (More' <=> More)
  BY <1>1 DEF Behind, Skip, More
<1>5. ASSUME NEW i PROVE Place(i) <= Place(i)' /\ Place(i) \in Nat /\ Place(i)' \in Nat
  <2>1. present' \in SUBSET RowIds /\ present \in SUBSET present' /\ present \in SUBSET RowIds
    BY <1>1, <1>2 DEF ListTyped
  <2>2. UpTo(present, i)' = UpTo(present', i)
    BY <1>1 DEF UpTo
  <2> QED
    BY <2>1, <2>2, PlaceIs, PlacesMove, PlacesFinite
<1>6. StayersSeen'
  <2> SUFFICES ASSUME Ordered', {"left", "total_before"} \cap listIncidents' = {}
               PROVE  /\ \A i \in kept : Place(i)' <= Behind => i \in shown
                      /\ part # "total"
                      /\ finished \/ (part = "both" /\ ~More) => kept \subseteq shown
    BY <1>1, <1>4 DEF StayersSeen
  <2>1. part # "total" /\ {"left", "total_before"} \cap listIncidents = {}
    BY <1>1 DEF When
  <2>2. /\ \A i \in kept : Place(i) <= Behind => i \in shown
        /\ finished \/ (part = "both" /\ ~More) => kept \subseteq shown
    BY <1>2, <2>1 DEF ListingsInv, StayersSeen
  <2> QED
    BY <1>2, <1>5, <2>1, <2>2, BehindTyped
<1>7. NoneTwice'
  BY <1>1 DEF NoneTwice
<1> QED
  BY <1>3, <1>6, <1>7 DEF ListingsInv

LEMMA LeaveInv ==
  ASSUME ListingsInv, NEW n \in RowIds, Leave(n)
  PROVE  ListingsInv'
<1>1. /\ UNCHANGED <<list, sorting, page, part, got, total, shown, repeated, finished>>
      /\ present' = present \ {n} /\ kept' = kept \ {n} /\ ~finished
      /\ listIncidents' = listIncidents \cup {"left"}
  BY DEF Leave, Shift
<1>2. ListTyped /\ (Ordered' => Ordered)
  BY <1>1 DEF ListingsInv, Ordered
<1>3. ListTyped'
  BY <1>1, <1>2 DEF ListTyped
<1>4. Behind' = Behind
  BY <1>1 DEF Behind, Skip
<1>5. ASSUME NEW i PROVE Place(i)' <= Place(i) /\ Place(i) \in Nat /\ Place(i)' \in Nat
  <2>1. present' \in SUBSET RowIds /\ present' \in SUBSET present /\ present \in SUBSET RowIds
    BY <1>1, <1>2 DEF ListTyped
  <2>2. UpTo(present, i)' = UpTo(present', i)
    BY <1>1 DEF UpTo
  <2> QED
    BY <2>1, <2>2, PlaceIs, PlacesMove, PlacesFinite
<1>6. StayersSeen'
  BY <1>1 DEF StayersSeen
<1>7. NoneTwice'
  <2> SUFFICES ASSUME Ordered', "entered" \notin listIncidents'
               PROVE  ~repeated /\ \A i \in shown \cap present' : Place(i)' <= Behind
    BY <1>1, <1>4 DEF NoneTwice
  <2>1. ~repeated /\ \A i \in shown \cap present : Place(i) <= Behind
    BY <1>1, <1>2 DEF ListingsInv, NoneTwice
  <2> QED
    BY <1>1, <1>2, <1>5, <2>1, BehindTyped
<1> QED
  BY <1>3, <1>6, <1>7 DEF ListingsInv

LEMMA ReadRowsInv ==
  ASSUME ListingsInv, ReadRows
  PROVE  ListingsInv'
<1>1. /\ UNCHANGED <<list, sorting, present, kept, page, finished, listIncidents>>
      /\ ~finished /\ got' \in PagesOf(page)
      /\ part \in (IF list.total = "beside" THEN {"none", "total"} ELSE {"none"})
      /\ part' = IF part = "total" \/ list.total \in {"page", "none"} THEN "both" ELSE "rows"
      /\ total' = IF list.total = "page" THEN Cardinality(got') ELSE total
      /\ shown' = shown \cup got'
      /\ repeated' = (repeated \/ got' \cap shown # {})
  BY DEF ReadRows
<1>2. ListTyped /\ StayersSeen /\ NoneTwice /\ (Ordered' <=> Ordered)
  BY <1>1 DEF ListingsInv, Ordered
<1>3. got' \subseteq present
  BY <1>1 DEF PagesOf
<1>4. ListTyped'
  <2>1. Cardinality(got') \in Nat
    BY <1>2, <1>3, PlacesFinite DEF ListTyped
  <2> QED
    BY <1>1, <1>2, <1>3, <2>1 DEF ListTyped
<1>5. /\ Behind = Skip(page) /\ Behind' = Skip(page + 1) /\ page \in Nat \ {0}
      /\ Skip(page) \in Nat /\ Skip(page + 1) = Skip(page) + Limit /\ Skip(page + 1) = page * Limit
      /\ \A n \in Int : n \in Places(page) <=> Skip(page) < n /\ n <= Skip(page + 1)
  BY <1>1, <1>2, Pages DEF Behind, ListTyped, Skip
<1>6. \A i : Place(i)' = Place(i)
  BY <1>1 DEF Place
<1>7. \A i \in present : Place(i) \in Nat /\ Place(i) <= Cardinality(present) /\ Cardinality(present) \in Nat
  BY <1>2, PlaceIs, PlacesFinite DEF ListTyped
<1>8. Ordered => got' = {i \in present : Place(i) \in Places(page)}
  BY <1>1, <1>2 DEF PagesOf, ListTyped
<1>9. StayersSeen'
  <2> SUFFICES ASSUME Ordered, {"left", "total_before"} \cap listIncidents = {}
               PROVE  /\ \A i \in kept : Place(i) <= Skip(page + 1) => i \in shown'
                      /\ part' = "both" /\ ~More' => kept \subseteq shown'
    BY <1>1, <1>2, <1>5, <1>6 DEF StayersSeen
  <2>1. /\ \A i \in kept : Place(i) <= Skip(page) => i \in shown
        /\ part = "total" => Cardinality(present) <= total
    BY <1>2, <1>5 DEF StayersSeen
  <2>2. kept \subseteq present
    BY <1>2 DEF ListTyped
  <2>3. \A i \in kept : Place(i) <= Skip(page + 1) => i \in shown'
    BY <1>1, <1>5, <1>7, <1>8, <2>1, <2>2
  <2>4. ASSUME part' = "both", ~More' PROVE kept \subseteq shown'
    <3>1. list.total # "page"
      BY <1>2 DEF ListTyped
    <3>2. CASE list.total = "none"
      <4>1. Cardinality(got') # Limit
        BY <1>1, <2>4, <3>2 DEF More
      <4>2. \A i \in present : ~(Place(i) > Skip(page + 1))
        <5> SUFFICES ASSUME NEW i \in present, Place(i) > Skip(page + 1) PROVE FALSE
          OBVIOUS
        <5>1. Cardinality({k \in present : Cardinality(UpTo(present, k)) \in Places(page)}) = Limit
          BY <1>2, <1>5, PlaceIs, PageFull DEF ListTyped
        <5>2. {k \in present : Cardinality(UpTo(present, k)) \in Places(page)} = {k \in present : Place(k) \in Places(page)}
          BY PlaceIs
        <5> QED
          BY <1>8, <4>1, <5>1, <5>2
      <4> QED
        BY <1>5, <1>7, <2>2, <2>3, <4>2, Numbered
    <3>3. CASE list.total # "none"
      <4>1. part = "total" /\ total' = total
        BY <1>1, <2>4, <3>1, <3>3
      <4>2. ~(page * Limit < total)
        BY <1>1, <2>4, <3>3, <4>1 DEF More
      <4>3. Cardinality(present) <= total /\ total \in Nat
        BY <1>2, <2>1, <4>1 DEF ListTyped
      <4>4. \A i \in kept : Place(i) <= Skip(page + 1)
        <5>1. Skip(page + 1) \in Nat /\ ~(Skip(page + 1) < total)
          BY <1>5, <4>2, Numbered
        <5>2. Cardinality(present) \in Nat /\ Cardinality(present) <= Skip(page + 1)
          <6>1. Cardinality(present) \in Nat
            BY <1>2, PlacesFinite DEF ListTyped
          <6> QED
            BY <4>3, <5>1, <6>1
        <5> HIDE DEF Place
        <5> QED
          BY <1>7, <2>2, <5>1, <5>2
      <4> QED
        BY <2>3, <4>4
    <3> QED
      BY <3>2, <3>3
  <2> QED
    BY <2>3, <2>4
<1>10. NoneTwice'
  <2> SUFFICES ASSUME Ordered, "entered" \notin listIncidents
               PROVE  ~repeated' /\ \A i \in shown' \cap present : Place(i) <= Skip(page + 1)
    BY <1>1, <1>2, <1>5, <1>6 DEF NoneTwice
  <2>1. ~repeated /\ \A i \in shown \cap present : Place(i) <= Skip(page)
    BY <1>1, <1>2, <1>5 DEF NoneTwice
  <2>2. \A i \in got' : i \in present /\ Skip(page) < Place(i) /\ Place(i) <= Skip(page + 1)
    BY <1>5, <1>7, <1>8
  <2>3. got' \cap shown = {}
    BY <1>5, <1>7, <2>1, <2>2
  <2>4. \A i \in shown \cap present : Place(i) <= Skip(page + 1)
    <3>1. Skip(page) <= Skip(page + 1) /\ Skip(page + 1) \in Nat
      BY <1>5, Numbered
    <3> QED
      BY <1>5, <1>7, <2>1, <3>1
  <2> QED
    BY <1>1, <2>1, <2>2, <2>3, <2>4
<1> QED
  BY <1>4, <1>9, <1>10 DEF ListingsInv

LEMMA ReadTotalInv ==
  ASSUME ListingsInv, ReadTotal
  PROVE  ListingsInv'
<1>1. /\ UNCHANGED <<list, sorting, present, kept, page, got, shown, repeated, finished, listIncidents>>
      /\ ~finished
      /\ part = "rows" \/ (part = "none" /\ list.total = "beside")
      /\ part' = IF part = "rows" THEN "both" ELSE "total"
      /\ total' = Cardinality(present) + (IF list.total = "table" THEN 1 ELSE 0)
  BY DEF ReadTotal
<1>2. ListTyped /\ StayersSeen /\ NoneTwice /\ (Ordered' <=> Ordered)
  BY <1>1 DEF ListingsInv, Ordered
<1>3. \A i \in present : Place(i) \in Nat /\ Place(i) <= Cardinality(present)
  BY <1>2, PlaceIs, PlacesFinite DEF ListTyped
<1>4. Cardinality(present) \in Nat /\ total' \in Nat /\ Cardinality(present) <= total'
  <2>1. Cardinality(present) \in Nat
    BY <1>2, PlacesFinite DEF ListTyped
  <2> HIDE DEF Place
  <2> QED
    BY <1>1, <2>1
<1>5. ListTyped'
  BY <1>1, <1>2, <1>4 DEF ListTyped
<1>6. Behind' = Behind /\ \A i : Place(i)' = Place(i)
  BY <1>1 DEF Behind, Place, Skip
<1>7. StayersSeen'
  <2> SUFFICES ASSUME Ordered, {"left", "total_before"} \cap listIncidents = {}
               PROVE  /\ \A i \in kept : Place(i) <= Behind => i \in shown
                      /\ Cardinality(present) <= total'
                      /\ part' = "both" /\ ~More' => kept \subseteq shown
    BY <1>1, <1>2, <1>6 DEF StayersSeen
  <2>1. \A i \in kept : Place(i) <= Behind => i \in shown
    BY <1>2 DEF StayersSeen
  <2>2. ASSUME part' = "both", ~More' PROVE kept \subseteq shown
    <3>1. part = "rows" /\ list.total # "none"
      BY <1>1, <1>2, <2>2 DEF ListTyped
    <3>2. Behind = page * Limit
      BY <1>2, <3>1, Pages DEF Behind, ListTyped
    <3>3. ~(page * Limit < total')
      BY <1>1, <2>2, <3>1 DEF More
    <3>4. Behind \in Nat
      BY <1>2, BehindTyped
    <3>5. \A i \in kept : Place(i) <= Behind
      BY <1>2, <1>3, <1>4, <3>2, <3>3, <3>4 DEF ListTyped
    <3> QED
      BY <2>1, <3>5
  <2> QED
    BY <1>4, <2>1, <2>2
<1>8. NoneTwice'
  BY <1>1, <1>2, <1>6 DEF NoneTwice
<1> QED
  BY <1>5, <1>7, <1>8 DEF ListingsInv

LEMMA TurnInv ==
  ASSUME ListingsInv, Turn
  PROVE  ListingsInv'
<1>1. /\ UNCHANGED <<list, sorting, present, kept, shown, repeated, listIncidents>>
      /\ ~finished /\ part = "both" /\ part' = "none" /\ total' = 0
      /\ More => page' = page + 1 /\ ~finished'
      /\ ~More => page' = page /\ finished'
  BY DEF Turn
<1>2. ListTyped /\ StayersSeen /\ NoneTwice /\ (Ordered' <=> Ordered)
  BY <1>1 DEF ListingsInv, Ordered
<1>3. ListTyped'
  BY <1>1, <1>2 DEF ListTyped
<1>4. /\ Behind = Skip(page + 1) /\ page \in Nat \ {0}
      /\ Skip(page) \in Nat /\ Skip(page + 1) = Skip(page) + Limit /\ Limit \in Nat
      /\ \A p \in Nat : Skip(p)' = Skip(p)
  BY <1>1, <1>2, Pages, Numbered DEF Behind, ListTyped, Skip
<1>5. \A i : Place(i)' = Place(i)
  BY <1>1 DEF Place
<1>6. CASE More
  <2>1. Behind' = Behind /\ ~finished'
    BY <1>1, <1>4, <1>6 DEF Behind
  <2> QED
    BY <1>1, <1>2, <1>3, <1>5, <2>1 DEF ListingsInv, StayersSeen, NoneTwice
<1>7. CASE ~More
  <2>1. finished' /\ \A i : (Place(i) \in Nat /\ Place(i) <= Behind') => Place(i) <= Behind
    BY <1>1, <1>4, <1>7 DEF Behind
  <2>2. \A i \in kept : Place(i) \in Nat
    BY <1>2, PlaceIs, PlacesFinite DEF ListTyped
  <2> QED
    BY <1>1, <1>2, <1>3, <1>5, <1>7, <2>1, <2>2 DEF ListingsInv, StayersSeen, NoneTwice
<1> QED
  BY <1>6, <1>7

(* Whoever reads a list to its end sees every row that stayed, and none     *)
(* twice, for every list, number of rows and size of the pages, unless one *)
(* of the named incidents happened.                                        *)
THEOREM ReaderAlwaysSeesAll == ListingsSpec => []ReaderSeesAll
<1>1. ListingsInv /\ UNCHANGED listVars => ListingsInv'
  BY DEF listVars, ListingsInv, ListTyped, StayersSeen, NoneTwice, Ordered, Behind, Skip, More, Place
<1>2. ListingsInv /\ ListingsNext => ListingsInv'
  BY EnterInv, LeaveInv, ReadRowsInv, ReadTotalInv, TurnInv DEF ListingsNext
<1>3. ListingsInv => ReaderSeesAll
  BY DEF ListingsInv, StayersSeen, NoneTwice, Ordered, ReaderSeesAll
<1> QED
  BY <1>1, <1>2, <1>3, ListingsInitInv, PTL DEF ListingsSpec

-----------------------------------------------------------------------------
(* Proofs about Catalogue, for every catalogue, set of ids, names and calls *)
(* in flight.  What is left of a call's script decides what it owes and    *)
(* what it relies on; Stage lists what can be left.                        *)

(* What a script looks at to find out that a name is free. *)
Looks(k, op) ==
  (UNION {Catalogues[k][op][n] : n \in DOMAIN Catalogues[k][op]}) \cap {"free", "others"}

Operations ==
  {"free", "found", "others", "create", "update", "toggle", "delete",
   "log", "logMerged", "logRow", "logDelete"}

ThenLog ==
  {<<{"create"}, {"log"}>>, <<{"update"}, {"log"}>>,
   <<{"toggle"}, {"log"}>>, <<{"delete"}, {"log"}>>}
AndLog ==
  {<<{"create", "log"}>>, <<{"update", "log"}>>,
   <<{"toggle", "log"}>>, <<{"delete", "log"}>>}
NoLog == {<<{"create"}>>, <<{"update"}>>, <<{"toggle"}>>, <<{"delete"}>>}
Creating == {<<{"create"}, {"log"}>>, <<{"create", "log"}>>, <<{"create"}>>}

(* What uses the row as it was read. *)
Reading ==
  {<<{"update", "logMerged"}>>, <<{"logRow"}, {"delete"}>>, <<{"logDelete"}, {"delete"}>>}

(* A script, or what is left of one, when it has looked at the table. *)
Stage(k, op, q) ==
  /\ op = "create" <=> q \in Creating
  /\ q \in Reading => Looks(k, op) = {}
  /\ \/ q \in ThenLog /\ (Catalogues[k].bound => q # <<{"delete"}, {"log"}>>)
     \/ q \in AndLog
     \/ q \in NoLog /\ Silent(k, op)
     \/ q = <<{"update", "logMerged"}>>
     \/ q = <<{"logRow", "delete"}>>
     \/ q = <<{"logRow"}, {"delete"}>> /\ Catalogues[k].bound /\ ~Silent(k, "remove")
     \/ q = <<{"logDelete"}, {"delete"}>> /\ ~Silent(k, "remove")

(* When it has written or entered, and the other is to come. *)
Half(k, q) ==
  \/ q = <<{"log"}>>
  \/ q = <<{"delete"}>> /\ ~Silent(k, "remove")

Look(q, what) == q # <<>> /\ Head(q) = {what} /\ Len(q) > 1

(* What may be left of a call's script. *)
Left(k, op, q) ==
  /\ q \in Seq(SUBSET Operations)
  /\ \/ Stage(k, op, q)
     \/ Half(k, q)
     \/ Look(q, "found") /\ Stage(k, op, Tail(q)) /\ Looks(k, op) = {}
     \/ Look(q, "free") /\ Stage(k, op, Tail(q)) /\ Looks(k, op) # {}
     \/ /\ Look(q, "found") /\ Look(Tail(q), "others") /\ Stage(k, op, Tail(Tail(q)))
        /\ Looks(k, op) # {}
     \/ Look(q, "others") /\ Stage(k, op, Tail(q)) /\ Looks(k, op) # {}

(* What a catalogue has to be for the proof. *)
FitsOp(k, op) ==
  Catalogues[k][op] # None =>
    /\ Left(k, op, Catalogues[k][op])
    /\ ~Half(k, Catalogues[k][op])
    /\ Catalogues[k][op] \notin Reading
    /\ Stage(k, op, Catalogues[k][op]) => Looks(k, op) = {}

Fits(k) == \A op \in Ops : FitsOp(k, op)

RowsTyped ==
  /\ catalogue \in DOMAIN Catalogues
  /\ row \in [Ids -> Rows \cup {Gone}]
  /\ trail = [i \in Ids |-> trail[i]]
  /\ call \in [Clerks -> Ops \cup {"none"}]
  /\ script = [c \in Clerks |-> script[c]]
  /\ target = [c \in Clerks |-> target[c]]
  /\ request \in [Clerks -> [name : Names \cup {"none"}, on : {{}, {TRUE}, {FALSE}}]]
  /\ seen \in [Clerks -> Rows \cup {Gone}]
  /\ wrote = [c \in Clerks |-> wrote[c]]
  /\ overtaken \in [Clerks -> BOOLEAN]

ScriptsLeft ==
  \A c \in Clerks : call[c] # "none" =>
    /\ target[c] \in Ids
    /\ Left(catalogue, call[c], script[c])
    /\ call[c] = "create" => request[c].name \in Names /\ request[c].on = {TRUE}

(* Whoever has looked for a name, and was not overtaken, may still take it. *)
NamesFree ==
  \A c \in Clerks :
    /\ call[c] # "none" /\ ~overtaken[c] /\ Stage(catalogue, call[c], script[c])
    /\ Looks(catalogue, call[c]) # {} /\ request[c].name # "none"
    => ~Taken(request[c].name, {target[c]})

NamesInv == NamesFree /\ NamesUnique

(* Whoever has read a row, and was not overtaken, knows it as it is. *)
RowsKnown ==
  \A c \in Clerks :
    call[c] # "none" /\ ~overtaken[c]
    /\ script[c] \in Reading
    => seen[c] = row[target[c]] /\ row[target[c]] # Gone

DebtsKept ==
  \A c \in Clerks : call[c] # "none" =>
    /\ script[c] = <<{"log"}>> =>
         /\ wrote[c] = row[target[c]]
         /\ Catalogues[catalogue].bound => row[target[c]] # Gone
    /\ Half(catalogue, script[c]) /\ script[c] = <<{"delete"}>> =>
         /\ row[target[c]] # Gone
         /\ ~Catalogues[catalogue].bound => trail[target[c]] = Gone

Told == \A i \in Ids : (\A c \in Clerks : target[c] = i => ~Owes(c)) => trail[i] = row[i]

TrailInv == {"cut", "overlap", "stale", "silent"} \cap catalogueIncidents = {} =>
              DebtsKept /\ Told

CatalogueInv == RowsTyped /\ ScriptsLeft /\ NamesFree /\ NamesUnique /\ RowsKnown /\ TrailInv

(* Sequences of one to four steps. *)
LEMMA OneStep ==
  ASSUME NEW a \in SUBSET Operations
  PROVE  /\ <<a>> \in Seq(SUBSET Operations) /\ Head(<<a>>) = a /\ Len(<<a>>) = 1
         /\ {<<a>>[n] : n \in DOMAIN <<a>>} = {a}
<1>1. DOMAIN <<a>> = {1}
  OBVIOUS
<1> QED
  BY <1>1

LEMMA TwoSteps ==
  ASSUME NEW a \in SUBSET Operations, NEW b \in SUBSET Operations
  PROVE  /\ <<a, b>> \in Seq(SUBSET Operations) /\ Head(<<a, b>>) = a /\ Tail(<<a, b>>) = <<b>>
         /\ Len(<<a, b>>) = 2
         /\ {<<a, b>>[n] : n \in DOMAIN <<a, b>>} = {a, b}
<1>1. DOMAIN <<a, b>> = {1, 2}
  OBVIOUS
<1> QED
  BY <1>1

LEMMA ThreeSteps ==
  ASSUME NEW a \in SUBSET Operations, NEW b \in SUBSET Operations, NEW d \in SUBSET Operations
  PROVE  /\ <<a, b, d>> \in Seq(SUBSET Operations) /\ Head(<<a, b, d>>) = a /\ Tail(<<a, b, d>>) = <<b, d>>
         /\ Len(<<a, b, d>>) = 3
         /\ {<<a, b, d>>[n] : n \in DOMAIN <<a, b, d>>} = {a, b, d}
<1>1. DOMAIN <<a, b, d>> = {1, 2, 3}
  OBVIOUS
<1> QED
  BY <1>1

LEMMA FourSteps ==
  ASSUME NEW a \in SUBSET Operations, NEW b \in SUBSET Operations, NEW d \in SUBSET Operations, NEW e \in SUBSET Operations
  PROVE  /\ <<a, b, d, e>> \in Seq(SUBSET Operations) /\ Head(<<a, b, d, e>>) = a
         /\ Tail(<<a, b, d, e>>) = <<b, d, e>>
         /\ Len(<<a, b, d, e>>) = 4
         /\ {<<a, b, d, e>>[n] : n \in DOMAIN <<a, b, d, e>>} = {a, b, d, e}
<1>1. DOMAIN <<a, b, d, e>> = {1, 2, 3, 4}
  OBVIOUS
<1> QED
  BY <1>1

(* A script that has looked begins with no look. *)
LEMMA LooksFirst ==
  ASSUME NEW k, NEW op, NEW q,
         Stage(k, op, q) \/ Half(k, q) \/ q \in Reading
  PROVE  q # <<>> /\ Head(q) \cap {"free", "found", "others"} = {}
<1>1. CASE q \in NoLog \cup AndLog
  BY <1>1 DEF NoLog, AndLog
<1>2. CASE q \in ThenLog
  BY <1>2 DEF ThenLog
<1>3. CASE q \in {<<{"update", "logMerged"}>>, <<{"logRow", "delete"}>>}
  BY <1>3
<1>4. CASE q \in {<<{"logRow"}, {"delete"}>>, <<{"logDelete"}, {"delete"}>>}
  BY <1>4
<1>5. CASE q \in {<<{"log"}>>, <<{"delete"}>>}
  BY <1>5
<1>6. q \in Reading => q \in {<<{"update", "logMerged"}>>, <<{"logRow"}, {"delete"}>>,
                              <<{"logDelete"}, {"delete"}>>}
  BY DEF Reading
<1>7. Half(k, q) => q \in {<<{"log"}>>, <<{"delete"}>>}
  BY DEF Half
<1>8. Stage(k, op, q) =>
        \/ q \in NoLog \cup AndLog \/ q \in ThenLog
        \/ q \in {<<{"update", "logMerged"}>>, <<{"logRow", "delete"}>>}
        \/ q \in {<<{"logRow"}, {"delete"}>>, <<{"logDelete"}, {"delete"}>>}
  BY DEF Stage
<1> QED
  BY <1>1, <1>2, <1>3, <1>4, <1>5, <1>6, <1>7, <1>8

LEMMA FitsNone ==
  ASSUME NEW k, NEW op, Catalogues[k][op] = None
  PROVE  FitsOp(k, op)
BY DEF FitsOp

(* No look. *)
LEMMA FitsAtOnce ==
  ASSUME NEW k, NEW op, NEW q, Catalogues[k][op] = q, q \in Seq(SUBSET Operations),
         Stage(k, op, q), ~Half(k, q), q \notin Reading, Looks(k, op) = {}
  PROVE  FitsOp(k, op)
BY DEF FitsOp, Left

LEMMA FitsOne ==
  ASSUME NEW k, NEW op, NEW a \in SUBSET Operations, Catalogues[k][op] = <<a>>,
         a \cap {"free", "others"} = {},
         Stage(k, op, <<a>>), ~Half(k, <<a>>), <<a>> \notin Reading
  PROVE  FitsOp(k, op)
<1> DEFINE q == <<a>>
<1>1. q \in Seq(SUBSET Operations) /\ {q[n] : n \in DOMAIN q} = {a}
  BY OneStep
<1>2. Catalogues[k][op] = q /\ Stage(k, op, q) /\ ~Half(k, q) /\ q \notin Reading
  OBVIOUS
<1> HIDE DEF q
<1>3. Looks(k, op) = {}
  BY <1>1, <1>2 DEF Looks
<1> QED
  BY <1>1, <1>2, <1>3, FitsAtOnce

LEMMA FitsTwo ==
  ASSUME NEW k, NEW op, NEW a \in SUBSET Operations, NEW b \in SUBSET Operations,
         Catalogues[k][op] = <<a, b>>, (a \cup b) \cap {"free", "others"} = {},
         Stage(k, op, <<a, b>>), <<a, b>> \notin Reading
  PROVE  FitsOp(k, op)
<1> DEFINE q == <<a, b>>
<1>1. q \in Seq(SUBSET Operations) /\ {q[n] : n \in DOMAIN q} = {a, b}
  BY TwoSteps
<1>2. Catalogues[k][op] = q /\ Stage(k, op, q) /\ ~Half(k, q) /\ q \notin Reading
  BY DEF Half
<1> HIDE DEF q
<1>3. Looks(k, op) = {}
  BY <1>1, <1>2 DEF Looks
<1> QED
  BY <1>1, <1>2, <1>3, FitsAtOnce

(* One look. *)
LEMMA FitsLook ==
  ASSUME NEW k, NEW op, NEW q \in Seq(SUBSET Operations), NEW w \in {"found", "free"},
         Catalogues[k][op] = q, Head(q) = {w}, q # <<>>, Len(q) > 1, Stage(k, op, Tail(q)),
         w = "found" => Looks(k, op) = {}, w = "free" => Looks(k, op) # {}
  PROVE  FitsOp(k, op)
<1>1. ~Stage(k, op, q) /\ ~Half(k, q) /\ q \notin Reading
  BY LooksFirst
<1> QED
  BY <1>1 DEF FitsOp, Left, Look

LEMMA FitsFoundOne ==
  ASSUME NEW k, NEW op, NEW a \in SUBSET Operations, Catalogues[k][op] = <<{"found"}, a>>,
         a \cap {"free", "others"} = {}, Stage(k, op, <<a>>)
  PROVE  FitsOp(k, op)
<1> DEFINE q == <<{"found"}, a>>
<1>1. {"found"} \in SUBSET Operations
  BY DEF Operations
<1>2. /\ q \in Seq(SUBSET Operations) /\ Head(q) = {"found"} /\ Tail(q) = <<a>> /\ Len(q) > 1
      /\ {q[n] : n \in DOMAIN q} = {{"found"}, a}
  BY <1>1, TwoSteps
<1>3. q # <<>> /\ Catalogues[k][op] = q /\ Stage(k, op, Tail(q))
  BY <1>2
<1> HIDE DEF q
<1>4. Looks(k, op) = {}
  BY <1>2, <1>3 DEF Looks
<1> QED
  BY <1>2, <1>3, <1>4, FitsLook

LEMMA FitsFoundTwo ==
  ASSUME NEW k, NEW op, NEW a \in SUBSET Operations, NEW b \in SUBSET Operations,
         Catalogues[k][op] = <<{"found"}, a, b>>,
         (a \cup b) \cap {"free", "others"} = {}, Stage(k, op, <<a, b>>)
  PROVE  FitsOp(k, op)
<1> DEFINE q == <<{"found"}, a, b>>
<1>1. {"found"} \in SUBSET Operations
  BY DEF Operations
<1>2. /\ q \in Seq(SUBSET Operations) /\ Head(q) = {"found"} /\ Tail(q) = <<a, b>> /\ Len(q) > 1
      /\ {q[n] : n \in DOMAIN q} = {{"found"}, a, b}
  BY <1>1, ThreeSteps
<1>3. q # <<>> /\ Catalogues[k][op] = q /\ Stage(k, op, Tail(q))
  BY <1>2
<1> HIDE DEF q
<1>4. Looks(k, op) = {}
  BY <1>2, <1>3 DEF Looks
<1> QED
  BY <1>2, <1>3, <1>4, FitsLook

LEMMA FitsFreeOne ==
  ASSUME NEW k, NEW op, NEW a \in SUBSET Operations, Catalogues[k][op] = <<{"free"}, a>>,
         Stage(k, op, <<a>>)
  PROVE  FitsOp(k, op)
<1> DEFINE q == <<{"free"}, a>>
<1>1. {"free"} \in SUBSET Operations
  BY DEF Operations
<1>2. /\ q \in Seq(SUBSET Operations) /\ Head(q) = {"free"} /\ Tail(q) = <<a>> /\ Len(q) > 1
      /\ {q[n] : n \in DOMAIN q} = {{"free"}, a}
  BY <1>1, TwoSteps
<1>3. q # <<>> /\ Catalogues[k][op] = q /\ Stage(k, op, Tail(q))
  BY <1>2
<1> HIDE DEF q
<1>4. "free" \in Looks(k, op)
  BY <1>2, <1>3 DEF Looks
<1> QED
  BY <1>2, <1>3, <1>4, FitsLook

LEMMA FitsFreeTwo ==
  ASSUME NEW k, NEW op, NEW a \in SUBSET Operations, NEW b \in SUBSET Operations,
         Catalogues[k][op] = <<{"free"}, a, b>>, Stage(k, op, <<a, b>>)
  PROVE  FitsOp(k, op)
<1> DEFINE q == <<{"free"}, a, b>>
<1>1. {"free"} \in SUBSET Operations
  BY DEF Operations
<1>2. /\ q \in Seq(SUBSET Operations) /\ Head(q) = {"free"} /\ Tail(q) = <<a, b>> /\ Len(q) > 1
      /\ {q[n] : n \in DOMAIN q} = {{"free"}, a, b}
  BY <1>1, ThreeSteps
<1>3. q # <<>> /\ Catalogues[k][op] = q /\ Stage(k, op, Tail(q))
  BY <1>2
<1> HIDE DEF q
<1>4. "free" \in Looks(k, op)
  BY <1>2, <1>3 DEF Looks
<1> QED
  BY <1>2, <1>3, <1>4, FitsLook

(* Two looks. *)
LEMMA FitsOthers ==
  ASSUME NEW k, NEW op, NEW a \in SUBSET Operations, NEW b \in SUBSET Operations,
         Catalogues[k][op] = <<{"found"}, {"others"}, a, b>>, Stage(k, op, <<a, b>>)
  PROVE  FitsOp(k, op)
<1> DEFINE q == <<{"found"}, {"others"}, a, b>>
<1>1. {"found"} \in SUBSET Operations /\ {"others"} \in SUBSET Operations
  BY DEF Operations
<1>4. q # <<>> /\ <<{"others"}, a, b>> # <<>>
  OBVIOUS
<1>5. /\ q \in Seq(SUBSET Operations) /\ Head(q) = {"found"} /\ Len(q) > 1
      /\ Tail(q) = <<{"others"}, a, b>>
  BY <1>1, FourSteps
<1>9. {q[n] : n \in DOMAIN q} = {{"found"}, {"others"}, a, b}
  BY <1>1, FourSteps
<1>6. /\ Head(Tail(q)) = {"others"} /\ Tail(Tail(q)) = <<a, b>> /\ Len(Tail(q)) > 1
  BY <1>1, <1>5, ThreeSteps
<1>7. ~Stage(k, op, q) /\ ~Half(k, q) /\ q \notin Reading
  BY <1>5, LooksFirst
<1> HIDE DEF q
<1>8. Catalogues[k][op] = q
  BY DEF q
<1>3. "others" \in Looks(k, op)
  BY <1>9, <1>8 DEF Looks
<1> QED
  BY <1>3, <1>4, <1>5, <1>6, <1>7, <1>8 DEF FitsOp, Left, Look

(* The scripts of the services, one lemma per operation. *)
LEMMA CreateScripts ==
  ASSUME NEW k,
         \/ Catalogues[k]["create"] \in
              {None, CheckedCreate, PlainCreate, <<{"free"}, {"create", "log"}>>, <<{"create", "log"}>>}
         \/ /\ Catalogues[k]["create"] \in {<<{"create"}>>, <<{"free"}, {"create"}>>}
            /\ Silent(k, "create")
  PROVE  FitsOp(k, "create")
<1> DEFINE w == {"create"}  l == {"log"}  wl == {"create", "log"}
<1>1. w \in SUBSET Operations /\ l \in SUBSET Operations /\ wl \in SUBSET Operations
  BY DEF Operations
<1>2. Stage(k, "create", <<w, l>>) /\ Stage(k, "create", <<wl>>)
  BY DEF Stage, Creating, Reading, ThenLog, AndLog
<1>3. Silent(k, "create") => Stage(k, "create", <<w>>)
  BY DEF Stage, Creating, Reading, NoLog
<1>4. <<w>> \notin Reading /\ <<wl>> \notin Reading /\ <<w, l>> \notin Reading
  BY DEF Reading
<1>5. ~Half(k, <<w>>) /\ ~Half(k, <<wl>>)
  BY DEF Half
<1>6. (w \cup l) \cap {"free", "others"} = {} /\ wl \cap {"free", "others"} = {}
  OBVIOUS
<1>7. \/ Catalogues[k]["create"] = None
      \/ Catalogues[k]["create"] = <<{"free"}, w, l>>
      \/ Catalogues[k]["create"] = <<w, l>>
      \/ Catalogues[k]["create"] = <<{"free"}, wl>>
      \/ Catalogues[k]["create"] = <<wl>>
      \/ Catalogues[k]["create"] = <<w>> /\ Silent(k, "create")
      \/ Catalogues[k]["create"] = <<{"free"}, w>> /\ Silent(k, "create")
  BY DEF CheckedCreate, PlainCreate
<1> HIDE DEF w, l, wl
<1>a. CASE Catalogues[k]["create"] = None
  BY <1>a, FitsNone
<1>b. CASE Catalogues[k]["create"] = <<{"free"}, w, l>>
  BY <1>b, <1>1, <1>2, FitsFreeTwo
<1>c. CASE Catalogues[k]["create"] = <<w, l>>
  BY <1>c, <1>1, <1>2, <1>4, <1>6, FitsTwo
<1>d. CASE Catalogues[k]["create"] = <<{"free"}, wl>>
  BY <1>d, <1>1, <1>2, FitsFreeOne
<1>e. CASE Catalogues[k]["create"] = <<wl>>
  BY <1>e, <1>1, <1>2, <1>4, <1>5, <1>6, FitsOne
<1>f. CASE Catalogues[k]["create"] = <<w>> /\ Silent(k, "create")
  <2>1. w \cap {"free", "others"} = {}
    BY <1>6
  <2> QED
    BY <2>1, <1>f, <1>1, <1>3, <1>4, <1>5, FitsOne
<1>g. CASE Catalogues[k]["create"] = <<{"free"}, w>> /\ Silent(k, "create")
  BY <1>g, <1>1, <1>3, FitsFreeOne
<1> QED
  BY <1>7, <1>a, <1>b, <1>c, <1>d, <1>e, <1>f, <1>g

LEMMA UpdateScripts ==
  ASSUME NEW k,
         \/ Catalogues[k]["update"] \in
              {PlainUpdate, <<{"update"}, {"log"}>>, <<{"found"}, {"update", "log"}>>,
               <<{"found"}, {"update", "logMerged"}>>,
               <<{"found"}, {"others"}, {"update"}, {"log"}>>}
         \/ /\ Catalogues[k]["update"] \in {<<{"update"}>>, <<{"found"}, {"update"}>>}
            /\ Silent(k, "update")
  PROVE  FitsOp(k, "update")
<1> DEFINE w == {"update"}  l == {"log"}  wl == {"update", "log"}  wm == {"update", "logMerged"}
<1>1. /\ w \in SUBSET Operations /\ l \in SUBSET Operations /\ wl \in SUBSET Operations
      /\ wm \in SUBSET Operations /\ {"found"} \in SUBSET Operations
  BY DEF Operations
<1>2. Stage(k, "update", <<w, l>>) /\ Stage(k, "update", <<wl>>)
  BY DEF Stage, Creating, Reading, ThenLog, AndLog
<1>3. Silent(k, "update") => Stage(k, "update", <<w>>)
  BY DEF Stage, Creating, Reading, NoLog
<1>4. <<w>> \notin Reading /\ <<w, l>> \notin Reading
  BY DEF Reading
<1>5. ~Half(k, <<w>>)
  BY DEF Half
<1>6. /\ (w \cup l) \cap {"free", "others"} = {} /\ wl \cap {"free", "others"} = {}
      /\ wm \cap {"free", "others"} = {} /\ w \cap {"free", "others"} = {}
  OBVIOUS
<1>7. \/ Catalogues[k]["update"] = <<{"found"}, w, l>>
      \/ Catalogues[k]["update"] = <<w, l>>
      \/ Catalogues[k]["update"] = <<{"found"}, wl>>
      \/ Catalogues[k]["update"] = <<{"found"}, wm>>
      \/ Catalogues[k]["update"] = <<{"found"}, {"others"}, w, l>>
      \/ Catalogues[k]["update"] = <<w>> /\ Silent(k, "update")
      \/ Catalogues[k]["update"] = <<{"found"}, w>> /\ Silent(k, "update")
  BY DEF PlainUpdate
<1>8. ASSUME Catalogues[k]["update"] = <<{"found"}, wm>>
      PROVE  Stage(k, "update", <<wm>>)
  <2>1. {<<{"found"}, wm>>[n] : n \in DOMAIN <<{"found"}, wm>>} = {{"found"}, wm}
    BY <1>1, TwoSteps
  <2>2. Looks(k, "update") = {}
    BY <1>8, <2>1 DEF Looks
  <2> QED
    BY <2>2 DEF Stage, Creating
<1> HIDE DEF w, l, wl, wm
<1>a. CASE Catalogues[k]["update"] = <<{"found"}, w, l>>
  BY <1>a, <1>1, <1>2, <1>6, FitsFoundTwo
<1>b. CASE Catalogues[k]["update"] = <<w, l>>
  BY <1>b, <1>1, <1>2, <1>4, <1>6, FitsTwo
<1>c. CASE Catalogues[k]["update"] = <<{"found"}, wl>>
  BY <1>c, <1>1, <1>2, <1>6, FitsFoundOne
<1>d. CASE Catalogues[k]["update"] = <<{"found"}, wm>>
  BY <1>d, <1>1, <1>8, <1>6, FitsFoundOne
<1>e. CASE Catalogues[k]["update"] = <<{"found"}, {"others"}, w, l>>
  BY <1>e, <1>1, <1>2, FitsOthers
<1>f. CASE Catalogues[k]["update"] = <<w>> /\ Silent(k, "update")
  BY <1>f, <1>1, <1>3, <1>4, <1>5, <1>6, FitsOne
<1>g. CASE Catalogues[k]["update"] = <<{"found"}, w>> /\ Silent(k, "update")
  BY <1>g, <1>1, <1>3, <1>6, FitsFoundOne
<1> QED
  BY <1>7, <1>a, <1>b, <1>c, <1>d, <1>e, <1>f, <1>g

LEMMA ToggleScripts ==
  ASSUME NEW k,
         \/ Catalogues[k]["toggle"] \in {None, PlainToggle, <<{"found"}, {"toggle", "log"}>>}
         \/ Catalogues[k]["toggle"] = <<{"found"}, {"toggle"}>> /\ Silent(k, "toggle")
  PROVE  FitsOp(k, "toggle")
<1> DEFINE w == {"toggle"}  l == {"log"}  wl == {"toggle", "log"}
<1>1. w \in SUBSET Operations /\ l \in SUBSET Operations /\ wl \in SUBSET Operations
  BY DEF Operations
<1>2. Stage(k, "toggle", <<w, l>>) /\ Stage(k, "toggle", <<wl>>)
  BY DEF Stage, Creating, Reading, ThenLog, AndLog
<1>3. Silent(k, "toggle") => Stage(k, "toggle", <<w>>)
  BY DEF Stage, Creating, Reading, NoLog
<1>4. /\ (w \cup l) \cap {"free", "others"} = {} /\ wl \cap {"free", "others"} = {}
      /\ w \cap {"free", "others"} = {}
  OBVIOUS
<1>5. \/ Catalogues[k]["toggle"] = None
      \/ Catalogues[k]["toggle"] = <<{"found"}, w, l>>
      \/ Catalogues[k]["toggle"] = <<{"found"}, wl>>
      \/ Catalogues[k]["toggle"] = <<{"found"}, w>> /\ Silent(k, "toggle")
  BY DEF PlainToggle
<1> HIDE DEF w, l, wl
<1>a. CASE Catalogues[k]["toggle"] = None
  BY <1>a, FitsNone
<1>b. CASE Catalogues[k]["toggle"] = <<{"found"}, w, l>>
  BY <1>b, <1>1, <1>2, <1>4, FitsFoundTwo
<1>c. CASE Catalogues[k]["toggle"] = <<{"found"}, wl>>
  BY <1>c, <1>1, <1>2, <1>4, FitsFoundOne
<1>d. CASE Catalogues[k]["toggle"] = <<{"found"}, w>> /\ Silent(k, "toggle")
  BY <1>d, <1>1, <1>3, <1>4, FitsFoundOne
<1> QED
  BY <1>5, <1>a, <1>b, <1>c, <1>d

LEMMA RemoveScripts ==
  ASSUME NEW k,
         \/ Catalogues[k]["remove"] \in
              {None, <<{"found"}, {"delete", "log"}>>, <<{"found"}, {"logRow", "delete"}>>}
         \/ Catalogues[k]["remove"] \in {PlainRemove, <<{"delete"}, {"log"}>>} /\ ~Catalogues[k].bound
         \/ /\ Catalogues[k]["remove"] = <<{"found"}, {"logDelete"}, {"delete"}>>
            /\ ~Silent(k, "remove")
         \/ /\ Catalogues[k]["remove"] = <<{"found"}, {"logRow"}, {"delete"}>>
            /\ Catalogues[k].bound /\ ~Silent(k, "remove")
         \/ Catalogues[k]["remove"] \in {<<{"delete"}>>, <<{"found"}, {"delete"}>>} /\ Silent(k, "remove")
  PROVE  FitsOp(k, "remove")
<1> DEFINE w == {"delete"}  l == {"log"}  wl == {"delete", "log"}
           d == {"logDelete"}  r == {"logRow"}  rw == {"logRow", "delete"}
<1>1. /\ w \in SUBSET Operations /\ l \in SUBSET Operations /\ wl \in SUBSET Operations
      /\ d \in SUBSET Operations /\ r \in SUBSET Operations /\ rw \in SUBSET Operations
      /\ {"found"} \in SUBSET Operations
  BY DEF Operations
<1>2. /\ ~Catalogues[k].bound => Stage(k, "remove", <<w, l>>)
      /\ Stage(k, "remove", <<wl>>) /\ Stage(k, "remove", <<rw>>)
  BY DEF Stage, Creating, Reading, ThenLog, AndLog
<1>3. Silent(k, "remove") => Stage(k, "remove", <<w>>) /\ ~Half(k, <<w>>)
  BY DEF Stage, Creating, Reading, NoLog, Half
<1>4. <<w>> \notin Reading /\ <<w, l>> \notin Reading
  BY DEF Reading
<1>5. /\ (w \cup l) \cap {"free", "others"} = {} /\ wl \cap {"free", "others"} = {}
      /\ w \cap {"free", "others"} = {} /\ rw \cap {"free", "others"} = {}
      /\ (d \cup w) \cap {"free", "others"} = {} /\ (r \cup w) \cap {"free", "others"} = {}
  OBVIOUS
<1>6. \/ Catalogues[k]["remove"] = None
      \/ Catalogues[k]["remove"] = <<{"found"}, w, l>> /\ ~Catalogues[k].bound
      \/ Catalogues[k]["remove"] = <<w, l>> /\ ~Catalogues[k].bound
      \/ Catalogues[k]["remove"] = <<{"found"}, wl>>
      \/ Catalogues[k]["remove"] = <<{"found"}, rw>>
      \/ Catalogues[k]["remove"] = <<{"found"}, d, w>> /\ ~Silent(k, "remove")
      \/ /\ Catalogues[k]["remove"] = <<{"found"}, r, w>>
         /\ Catalogues[k].bound /\ ~Silent(k, "remove")
      \/ Catalogues[k]["remove"] = <<w>> /\ Silent(k, "remove")
      \/ Catalogues[k]["remove"] = <<{"found"}, w>> /\ Silent(k, "remove")
  BY DEF PlainRemove
<1>7. ASSUME NEW x \in {d, r}, Catalogues[k]["remove"] = <<{"found"}, x, w>>
      PROVE  Looks(k, "remove") = {}
  <2>1. {<<{"found"}, x, w>>[n] : n \in DOMAIN <<{"found"}, x, w>>} = {{"found"}, x, w}
    BY <1>1, ThreeSteps
  <2> QED
    BY <1>7, <2>1 DEF Looks
<1>8. ASSUME Catalogues[k]["remove"] = <<{"found"}, d, w>>, ~Silent(k, "remove")
      PROVE  Stage(k, "remove", <<d, w>>)
  BY <1>7, <1>8 DEF Stage, Creating
<1>9. ASSUME Catalogues[k]["remove"] = <<{"found"}, r, w>>, ~Silent(k, "remove"), Catalogues[k].bound
      PROVE  Stage(k, "remove", <<r, w>>)
  BY <1>7, <1>9 DEF Stage, Creating
<1> HIDE DEF w, l, wl, d, r, rw
<1>a. CASE Catalogues[k]["remove"] = None
  BY <1>a, FitsNone
<1>b. CASE Catalogues[k]["remove"] = <<{"found"}, w, l>> /\ ~Catalogues[k].bound
  BY <1>b, <1>1, <1>2, <1>5, FitsFoundTwo
<1>c. CASE Catalogues[k]["remove"] = <<w, l>> /\ ~Catalogues[k].bound
  BY <1>c, <1>1, <1>2, <1>4, <1>5, FitsTwo
<1>d. CASE Catalogues[k]["remove"] = <<{"found"}, wl>>
  BY <1>d, <1>1, <1>2, <1>5, FitsFoundOne
<1>e. CASE Catalogues[k]["remove"] = <<{"found"}, rw>>
  BY <1>e, <1>1, <1>2, <1>5, FitsFoundOne
<1>f. CASE Catalogues[k]["remove"] = <<{"found"}, d, w>> /\ ~Silent(k, "remove")
  BY <1>f, <1>1, <1>8, <1>5, FitsFoundTwo
<1>g. CASE /\ Catalogues[k]["remove"] = <<{"found"}, r, w>>
           /\ Catalogues[k].bound /\ ~Silent(k, "remove")
  BY <1>g, <1>1, <1>9, <1>5, FitsFoundTwo
<1>h. CASE Catalogues[k]["remove"] = <<w>> /\ Silent(k, "remove")
  BY <1>h, <1>1, <1>3, <1>4, <1>5, FitsOne
<1>i. CASE Catalogues[k]["remove"] = <<{"found"}, w>> /\ Silent(k, "remove")
  BY <1>i, <1>1, <1>3, <1>5, FitsFoundOne
<1> QED
  BY <1>6, <1>a, <1>b, <1>c, <1>d, <1>e, <1>f, <1>g, <1>h, <1>i

(* Every catalogue there is has scripts of these kinds. *)
LEMMA ScriptsFit ==
  ASSUME NEW k \in DOMAIN Catalogues
  PROVE  Fits(k)
<1> USE CreateScripts, UpdateScripts, ToggleScripts, RemoveScripts
<1>0. \A x : (/\ FitsOp(x, "create") /\ FitsOp(x, "update")
              /\ FitsOp(x, "toggle") /\ FitsOp(x, "remove")) => Fits(x)
  BY DEF Fits, Ops
<1>1. Fits("vehicleType")
  <2>1. Catalogues["vehicleType"] = VehicleTypes
    BY DEF Catalogues
  <2> QED
    BY <1>0, <2>1 DEF VehicleTypes, Service, Silent, NoTrail
<1>2. Fits("deliveryType")
  <2>1. Catalogues["deliveryType"] = DeliveryTypes
    BY DEF Catalogues
  <2> QED
    BY <1>0, <2>1 DEF DeliveryTypes, Service, Silent, NoTrail
<1>3. Fits("serviceZone")
  <2>1. Catalogues["serviceZone"] = ServiceZones
    BY DEF Catalogues
  <2> QED
    BY <1>0, <2>1 DEF ServiceZones, Service, Silent, NoTrail
<1>4. Fits("commissionRate")
  <2>1. Catalogues["commissionRate"] = CommissionRates
    BY DEF Catalogues
  <2> QED
    BY <1>0, <2>1 DEF CommissionRates, Service, Silent, NoTrail
<1>5. Fits("feeStructure")
  <2>1. Catalogues["feeStructure"] = FeeStructures
    BY DEF Catalogues
  <2> QED
    BY <1>0, <2>1 DEF FeeStructures, Service, Silent, NoTrail
<1>6. Fits("dynamicSurge")
  <2>1. Catalogues["dynamicSurge"] = DynamicSurges
    BY DEF Catalogues
  <2> QED
    BY <1>0, <2>1 DEF DynamicSurges, Service, Silent, NoTrail
<1>7. Fits("deductionFee")
  <2>1. Catalogues["deductionFee"] = DeductionFees
    BY DEF Catalogues
  <2> QED
    BY <1>0, <2>1 DEF DeductionFees, Service, Silent, NoTrail
<1>8. Fits("compensationRole")
  <2>1. Catalogues["compensationRole"] = CompensationRoles
    BY DEF Catalogues
  <2> QED
    BY <1>0, <2>1 DEF CompensationRoles, Service, Silent, NoTrail
<1>9. Fits("promoCode")
  <2>1. Catalogues["promoCode"] = PromoCodes
    BY DEF Catalogues
  <2> QED
    BY <1>0, <2>1 DEF PromoCodes, Service, Unique, Silent, NoTrail
<1>10. Fits("additionalServices")
  <2>1. Catalogues["additionalServices"] = AdditionalServices
    BY DEF Catalogues
  <2> QED
    BY <1>0, <2>1 DEF AdditionalServices, Service, Silent, NoTrail
<1>11. Fits("serviceConfig")
  <2>1. Catalogues["serviceConfig"] = ServiceConfig
    BY DEF Catalogues
  <2> QED
    BY <1>0, <2>1 DEF ServiceConfig, Service, Silent, NoTrail
<1>12. Fits("advertise")
  <2>1. Catalogues["advertise"] = Advertisements
    BY DEF Catalogues
  <2> QED
    BY <1>0, <2>1 DEF Advertisements, Service, Bound, Silent, NoTrail
<1>13. Fits("quiz")
  <2>1. Catalogues["quiz"] = Quizzes
    BY DEF Catalogues
  <2> QED
    BY <1>0, <2>1 DEF Quizzes, Service, Bound, Silent, NoTrail
<1>14. Fits("coin")
  <2>1. Catalogues["coin"] = CoinRules
    BY DEF Catalogues
  <2> QED
    BY <1>0, <2>1 DEF CoinRules, Service, Unique, Bound, Silent, NoTrail
<1>15. Fits("content")
  <2>1. Catalogues["content"] = Contents
    BY DEF Catalogues
  <2> QED
    BY <1>0, <2>1 DEF Contents, Service, Bound, Silent, NoTrail
<1>16. Fits("policy")
  <2>1. Catalogues["policy"] = Policies
    BY DEF Catalogues
  <2> QED
    BY <1>0, <2>1 DEF Policies, Service, Silent, NoTrail
<1>17. Fits("orderConfirmation")
  <2>1. Catalogues["orderConfirmation"] = OrderConfirmations
    BY DEF Catalogues
  <2> QED
    BY <1>0, <2>1 DEF OrderConfirmations, Service, Silent, NoTrail
<1>18. Fits("competitionConfig")
  <2>1. Catalogues["competitionConfig"] = CompetitionConfigs
    BY DEF Catalogues
  <2> QED
    BY <1>0, <2>1 DEF CompetitionConfigs, Service, Silent, NoTrail
<1>19. Fits("notificationRule")
  <2>1. Catalogues["notificationRule"] = NotificationRules
    BY DEF Catalogues
  <2> QED
    BY <1>0, <2>1 DEF NotificationRules, Service, Silent, NoTrail
<1>20. Fits("triggerEvent")
  <2>1. Catalogues["triggerEvent"] = TriggerEvents
    BY DEF Catalogues
  <2> QED
    BY <1>0, <2>1 DEF TriggerEvents, Service, Unique, Silent, NoTrail
<1>21. Fits("dashboardPopup")
  <2>1. Catalogues["dashboardPopup"] = DashboardPopups
    BY DEF Catalogues
  <2> QED
    BY <1>0, <2>1 DEF DashboardPopups, Service, Silent, NoTrail
<1>22. Fits("faq")
  <2>1. Catalogues["faq"] = Faqs
    BY DEF Catalogues
  <2> QED
    BY <1>0, <2>1 DEF Faqs, Service, Silent, NoTrail
<1>23. Fits("article")
  <2>1. Catalogues["article"] = Articles
    BY DEF Catalogues
  <2> QED
    BY <1>0, <2>1 DEF Articles, Service, Silent, NoTrail
<1>24. Fits("aboutUs")
  <2>1. Catalogues["aboutUs"] = AboutUs
    BY DEF Catalogues
  <2> QED
    BY <1>0, <2>1 DEF AboutUs, Service, Silent, NoTrail
<1>25. Fits("disputeType")
  <2>1. Catalogues["disputeType"] = DisputeTypes
    BY DEF Catalogues
  <2> QED
    BY <1>0, <2>1 DEF DisputeTypes, Service, Silent, NoTrail
<1>26. Fits("question")
  <2>1. Catalogues["question"] = Questions
    BY DEF Catalogues
  <2> QED
    BY <1>0, <2>1 DEF Questions, Service, Silent, NoTrail
<1>27. Fits("myRaider")
  <2>1. Catalogues["myRaider"] = MyRaiders
    BY DEF Catalogues
  <2> QED
    BY <1>0, <2>1 DEF MyRaiders, Service, Silent, NoTrail
<1>28. Fits("destination")
  <2>1. Catalogues["destination"] = Destinations
    BY DEF Catalogues
  <2> QED
    BY <1>0, <2>1 DEF Destinations, Service, Silent, NoTrail
<1>29. Fits("rating")
  <2>1. Catalogues["rating"] = Ratings
    BY DEF Catalogues
  <2> QED
    BY <1>0, <2>1 DEF Ratings, Service, Unique, Silent, NoTrail
<1>30. DOMAIN Catalogues =
        {"vehicleType", "deliveryType", "serviceZone", "commissionRate",
         "feeStructure", "dynamicSurge", "deductionFee", "compensationRole",
         "promoCode", "additionalServices", "serviceConfig", "advertise",
         "quiz", "coin", "content", "policy", "orderConfirmation",
         "competitionConfig", "notificationRule", "triggerEvent",
         "dashboardPopup", "faq", "article", "aboutUs", "disputeType",
         "question", "myRaider", "destination", "rating"}
  BY DEF Catalogues
<1> QED
  BY <1>30, <1>1, <1>2, <1>3, <1>4, <1>5, <1>6, <1>7, <1>8, <1>9, <1>10, <1>11, <1>12,
     <1>13, <1>14, <1>15, <1>16, <1>17, <1>18, <1>19, <1>20, <1>21, <1>22, <1>23, <1>24,
     <1>25, <1>26, <1>27, <1>28, <1>29

(* All the operations of a script, and whether they amount to a debt. *)
All(q) == UNION {q[n] : n \in DOMAIN q}
Owing(k, q) ==
  \/ "log" \in All(q) /\ All(q) \cap Writes = {}
  \/ All(q) = {"delete"} /\ "logDelete" \notin All(q) /\ ~Silent(k, "remove")

LEMMA SilentRemoves ==
  ASSUME NEW k, NEW op, Silent(k, op), op # "create"
  PROVE  Silent(k, "remove")
BY DEF Silent

LEMMA AllOne ==
  ASSUME NEW a \in SUBSET Operations
  PROVE  All(<<a>>) = a
BY OneStep DEF All

LEMMA AllTwo ==
  ASSUME NEW a \in SUBSET Operations, NEW b \in SUBSET Operations
  PROVE  All(<<a, b>>) = a \cup b
<1>1. All(<<a, b>>) = UNION {a, b}
  BY TwoSteps DEF All
<1> QED
  BY <1>1

LEMMA HalfOwes ==
  ASSUME NEW k, NEW q, Half(k, q)
  PROVE  Owing(k, q)
<1>1. {"log"} \in SUBSET Operations /\ {"delete"} \in SUBSET Operations
  BY DEF Operations
<1>2. CASE q = <<{"log"}>>
  <2>1. All(q) = {"log"}
    BY <1>1, <1>2, AllOne
  <2> QED
    BY <2>1 DEF Owing, Writes
<1>3. CASE q = <<{"delete"}>> /\ ~Silent(k, "remove")
  <2>1. All(q) = {"delete"}
    BY <1>1, <1>3, AllOne
  <2> QED
    BY <2>1, <1>3 DEF Owing
<1> QED
  BY <1>2, <1>3 DEF Half

LEMMA StageOwesNot ==
  ASSUME NEW k, NEW op, NEW q, Stage(k, op, q)
  PROVE  ~Owing(k, q) /\ All(q) \cap Writes # {}
<1> DEFINE W == {{"create"}, {"update"}, {"toggle"}, {"delete"}}
           WL == {{"create", "log"}, {"update", "log"}, {"toggle", "log"}, {"delete", "log"}}
<1>1. /\ W \subseteq SUBSET Operations /\ WL \subseteq SUBSET Operations
      /\ {"log"} \in SUBSET Operations /\ {"update", "logMerged"} \in SUBSET Operations
      /\ {"logRow", "delete"} \in SUBSET Operations /\ {"logRow"} \in SUBSET Operations
      /\ {"logDelete"} \in SUBSET Operations /\ {"delete"} \in SUBSET Operations
  BY DEF Operations
<1>2. CASE q \in ThenLog
  <2>1. PICK a \in W : q = <<a, {"log"}>>
    BY <1>2 DEF ThenLog
  <2>2. All(q) = a \cup {"log"}
    BY <1>1, <2>1, AllTwo
  <2> QED
    BY <2>2 DEF Owing, Writes
<1>3. CASE q \in AndLog
  <2>1. PICK a \in WL : q = <<a>>
    BY <1>3 DEF AndLog
  <2>2. All(q) = a
    BY <1>1, <2>1, AllOne
  <2> QED
    BY <2>2 DEF Owing, Writes
<1>4. CASE q \in NoLog /\ Silent(k, op)
  <2>1. PICK a \in W : q = <<a>>
    BY <1>4 DEF NoLog
  <2>2. All(q) = a
    BY <1>1, <2>1, AllOne
  <2>3. a = {"delete"} => op # "create"
    BY <2>1 DEF Stage, Creating
  <2>4. a = {"delete"} => Silent(k, "remove")
    BY <2>3, <1>4, SilentRemoves
  <2> QED
    BY <2>2, <2>4 DEF Owing, Writes
<1>5. CASE q = <<{"update", "logMerged"}>>
  <2>1. All(q) = {"update", "logMerged"}
    BY <1>1, <1>5, AllOne
  <2> QED
    BY <2>1 DEF Owing, Writes
<1>6. CASE q = <<{"logRow", "delete"}>>
  <2>1. All(q) = {"logRow", "delete"}
    BY <1>1, <1>6, AllOne
  <2> QED
    BY <2>1 DEF Owing, Writes
<1>7. CASE q = <<{"logRow"}, {"delete"}>>
  <2>1. All(q) = {"logRow", "delete"}
    BY <1>1, <1>7, AllTwo
  <2> QED
    BY <2>1 DEF Owing, Writes
<1>8. CASE q = <<{"logDelete"}, {"delete"}>>
  <2>1. All(q) = {"logDelete", "delete"}
    BY <1>1, <1>8, AllTwo
  <2> QED
    BY <2>1 DEF Owing, Writes
<1> QED
  BY <1>2, <1>3, <1>4, <1>5, <1>6, <1>7, <1>8 DEF Stage

LEMMA LookOwesNot ==
  ASSUME NEW k, NEW q \in Seq(SUBSET Operations), NEW w \in {"found", "free", "others"},
         Look(q, w), All(Tail(q)) \cap Writes # {}
  PROVE  ~Owing(k, q) /\ All(q) \cap Writes # {}
<1>1. PICK n \in DOMAIN Tail(q) : Tail(q)[n] \cap Writes # {}
  BY DEF All
<1>2. q # <<>> /\ Head(q) = {w}
  BY DEF Look
<1>3. n + 1 \in DOMAIN q /\ q[n + 1] = Tail(q)[n] /\ 1 \in DOMAIN q /\ q[1] = {w}
  BY <1>1, <1>2
<1>4. w \in All(q)
  BY <1>3 DEF All
<1>5. All(q) \cap Writes # {}
  BY <1>1, <1>3 DEF All
<1> QED
  BY <1>4, <1>5 DEF Owing

LEMMA LeftOwes ==
  ASSUME NEW k, NEW op, NEW q, Left(k, op, q)
  PROVE  Owing(k, q) <=> Half(k, q)
<1>1. CASE Stage(k, op, q)
  BY <1>1, StageOwesNot, HalfOwes
<1>2. CASE Half(k, q)
  BY <1>2, HalfOwes
<1>3. q \in Seq(SUBSET Operations)
  BY DEF Left
<1>4. ASSUME NEW w \in {"found", "free", "others"}, Look(q, w), Stage(k, op, Tail(q))
      PROVE  Owing(k, q) <=> Half(k, q)
  <2>1. All(Tail(q)) \cap Writes # {}
    BY <1>4, StageOwesNot
  <2> QED
    BY <1>3, <1>4, <2>1, LookOwesNot, HalfOwes
<1>5. CASE Look(q, "found") /\ Look(Tail(q), "others") /\ Stage(k, op, Tail(Tail(q)))
  <2>1. All(Tail(Tail(q))) \cap Writes # {}
    BY <1>5, StageOwesNot
  <2>2. Tail(q) \in Seq(SUBSET Operations)
    BY <1>3, <1>5 DEF Look
  <2>3. All(Tail(q)) \cap Writes # {}
    BY <1>5, <2>1, <2>2, LookOwesNot
  <2> QED
    BY <1>3, <1>5, <2>3, LookOwesNot, HalfOwes
<1> QED
  BY <1>1, <1>2, <1>4, <1>5 DEF Left

LEMMA OwesHalf ==
  ASSUME NEW c \in Clerks, call[c] # "none", Left(catalogue, call[c], script[c])
  PROVE  Owes(c) <=> Half(catalogue, script[c])
<1>1. Owes(c) <=> Owing(catalogue, script[c])
  BY DEF Owes, Owing, Ahead, All
<1> QED
  BY <1>1, LeftOwes

(* A step that writes makes one write, and a create is of a create. *)
LEMMA HeadWrites ==
  ASSUME NEW k, NEW op, NEW q, Left(k, op, q), Head(q) \cap Writes # {}
  PROVE  /\ Stage(k, op, q) \/ q = <<{"delete"}>>
         /\ \E x \in Writes : Head(q) \cap Writes = {x} /\ (x = "create" => op = "create")
<1>1. ASSUME NEW w \in {"found", "free", "others"}
      PROVE  ~Look(q, w)
  BY DEF Look, Writes
<1>2. Stage(k, op, q) \/ Half(k, q)
  BY <1>1 DEF Left
<1>3. CASE Half(k, q)
  <2>1. CASE q = <<{"log"}>>
    BY <2>1 DEF Writes
  <2>2. CASE q = <<{"delete"}>>
    <3>1. Head(q) \cap Writes = {"delete"}
      BY <2>2 DEF Writes
    <3> QED
      BY <2>2, <3>1 DEF Writes
  <2> QED
    BY <1>3, <2>1, <2>2 DEF Half
<1>4. CASE Stage(k, op, q)
  <2>1. CASE q \in Creating
    <3>1. Head(q) \cap Writes = {"create"} /\ op = "create"
      BY <1>4, <2>1 DEF Creating, Writes, Stage
    <3> QED
      BY <1>4, <3>1 DEF Writes
  <2>2. CASE q \notin Creating
    <3>1. \/ q \in ThenLog \ Creating \/ q \in AndLog \ Creating \/ q \in NoLog \ Creating
          \/ q = <<{"update", "logMerged"}>> \/ q = <<{"logRow", "delete"}>>
          \/ q = <<{"logRow"}, {"delete"}>> \/ q = <<{"logDelete"}, {"delete"}>>
      BY <1>4, <2>2 DEF Stage
    <3>2. CASE q \in ThenLog \ Creating
      BY <1>4, <3>2 DEF ThenLog, Creating, Writes
    <3>3. CASE q \in AndLog \ Creating
      <4>1. CASE q = <<{"update", "log"}>>
        <5>1. Head(q) \cap Writes = {"update"}
          BY <4>1 DEF Writes
        <5> QED
          BY <1>4, <5>1 DEF Writes
      <4>2. CASE q = <<{"toggle", "log"}>>
        <5>1. Head(q) \cap Writes = {"toggle"}
          BY <4>2 DEF Writes
        <5> QED
          BY <1>4, <5>1 DEF Writes
      <4>3. CASE q = <<{"delete", "log"}>>
        <5>1. Head(q) \cap Writes = {"delete"}
          BY <4>3 DEF Writes
        <5> QED
          BY <1>4, <5>1 DEF Writes
      <4> QED
        BY <3>3, <4>1, <4>2, <4>3 DEF AndLog, Creating
    <3>4. CASE q \in NoLog \ Creating
      BY <1>4, <3>4 DEF NoLog, Creating, Writes
    <3>5. CASE q = <<{"update", "logMerged"}>>
      <4>1. Head(q) \cap Writes = {"update"}
        BY <3>5 DEF Writes
      <4> QED
        BY <1>4, <4>1 DEF Writes
    <3>6. CASE q = <<{"logRow", "delete"}>>
      <4>1. Head(q) \cap Writes = {"delete"}
        BY <3>6 DEF Writes
      <4> QED
        BY <1>4, <4>1 DEF Writes
    <3>7. CASE q = <<{"logRow"}, {"delete"}>> \/ q = <<{"logDelete"}, {"delete"}>>
      BY <3>7 DEF Writes
    <3> QED
      BY <3>1, <3>2, <3>3, <3>4, <3>5, <3>6, <3>7
  <2> QED
    BY <2>1, <2>2
<1> QED
  BY <1>2, <1>3, <1>4

(* The row a step writes. *)
LEMMA WrittenIs ==
  ASSUME RowsTyped, ScriptsLeft, NEW c \in Clerks, call[c] # "none",
         NEW s, s = Head(script[c]), Allowed(c, s), s \cap Writes # {}
  PROVE  /\ Written(c, s) \in Rows \cup {Gone}
         /\ s \cap {"create", "update"} = {} /\ Written(c, s) # Gone
              => row[target[c]] # Gone /\ Written(c, s).name = row[target[c]].name
         /\ "delete" \notin s => Written(c, s) \in Rows
         /\ s \cap {"create", "update"} # {} =>
              IF request[c].name = "none"
              THEN row[target[c]] # Gone /\ Written(c, s).name = row[target[c]].name
              ELSE Written(c, s).name = request[c].name
         /\ "delete" \in s => Written(c, s) = Gone /\ row[target[c]] # Gone
<1> DEFINE i == target[c]  r == row[target[c]]  w == request[c]
<1>0. Left(catalogue, call[c], script[c])
  BY DEF ScriptsLeft
<1>1. PICK x \in Writes : s \cap Writes = {x} /\ (x = "create" => call[c] = "create")
  BY <1>0, HeadWrites
<1>2. i \in Ids /\ r \in Rows \cup {Gone} /\ seen[c] \in Rows \cup {Gone}
  BY DEF RowsTyped, ScriptsLeft
<1>3. w \in [name : Names \cup {"none"}, on : {{}, {TRUE}, {FALSE}}]
  BY DEF RowsTyped
<1>4. x # "create" => r # Gone
  BY <1>1 DEF Allowed, Refused, Writes
<1>5. /\ ("create" \in s <=> x = "create") /\ ("update" \in s <=> x = "update")
      /\ ("toggle" \in s <=> x = "toggle") /\ ("delete" \in s <=> x = "delete")
  BY <1>1 DEF Writes
<1>6. \A b \in BOOLEAN : (CHOOSE a \in {b} : TRUE) = b
  OBVIOUS
<1>7. w.on # {} => (CHOOSE b \in w.on : TRUE) \in BOOLEAN
  BY <1>3, <1>6
<1>8. "none" \notin Names /\ Gone.name = "none" /\ Gone.on \in BOOLEAN
  BY CatalogueAssumption DEF Gone
<1>9. r # Gone => r \in Rows /\ r.name \in Names /\ r.on \in BOOLEAN
  BY <1>2 DEF Rows
<1>a. CASE x = "create"
  <2>1. w.name \in Names /\ w.on = {TRUE}
    BY <1>1, <1>a DEF ScriptsLeft
  <2>2. Written(c, s) = [name |-> w.name, on |-> TRUE]
    BY <1>5, <1>6, <1>8, <1>a, <2>1 DEF Written, Merge
  <2>3. Written(c, s) \in Rows
    <3>1. \A n \in Names : [name |-> n, on |-> TRUE] \in Rows
      BY DEF Rows
    <3> QED
      BY <2>1, <2>2, <3>1
  <2> QED
    BY <1>5, <1>8, <1>a, <2>1, <2>2, <2>3
<1>b. CASE x = "update"
  <2>1. Written(c, s) = Merge(r, w)
    BY <1>5, <1>b DEF Written
  <2>2. Merge(r, w).on \in BOOLEAN
    BY <1>4, <1>7, <1>9, <1>b DEF Merge
  <2>3. Merge(r, w).name = IF w.name = "none" THEN r.name ELSE w.name
    BY DEF Merge
  <2>4. Merge(r, w) = [name |-> Merge(r, w).name, on |-> Merge(r, w).on]
    BY DEF Merge
  <2>5. Merge(r, w).name \in Names
    BY <1>3, <1>4, <1>9, <1>b, <2>3
  <2>6. Written(c, s) \in Rows
    BY <2>1, <2>2, <2>4, <2>5 DEF Rows
  <2> QED
    BY <1>4, <1>5, <1>b, <2>1, <2>3, <2>6
<1>c. CASE x = "toggle"
  <2>1. Written(c, s) = [r EXCEPT !.on = Flipped(seen[c]).on]
    BY <1>5, <1>c DEF Written
  <2>2. Flipped(seen[c]).on \in BOOLEAN
    BY <1>2 DEF Flipped, Rows, Gone
  <2>3. Written(c, s) \in Rows /\ Written(c, s).name = r.name
    BY <1>4, <1>9, <1>c, <2>1, <2>2 DEF Rows
  <2> QED
    BY <1>4, <1>5, <1>c, <2>3
<1>d. CASE x = "delete"
  <2>1. Written(c, s) = Gone
    BY <1>5, <1>d DEF Written
  <2> QED
    BY <1>4, <1>5, <1>d, <2>1
<1> QED
  BY <1>a, <1>b, <1>c, <1>d DEF Writes

LEMMA HalfNotStage ==
  ASSUME NEW k, NEW op, NEW q, Half(k, q)
  PROVE  ~Stage(k, op, q) /\ q \notin Reading
<1>1. CASE q = <<{"log"}>>
  BY <1>1 DEF Stage, ThenLog, AndLog, NoLog, Reading
<1>2. CASE q = <<{"delete"}>> /\ ~Silent(k, "remove")
  <2>1. q \notin Reading
    BY <1>2 DEF Reading
  <2>2. ~(q \in NoLog /\ Silent(k, op)) \/ op = "create"
    BY <1>2, SilentRemoves
  <2>3. q \notin Creating
    BY <1>2 DEF Creating
  <2>4. q \notin ThenLog /\ q \notin AndLog
    BY <1>2 DEF ThenLog, AndLog
  <2>5. q # <<{"update", "logMerged"}>> /\ q # <<{"logRow", "delete"}>>
    BY <1>2
  <2> QED
    BY <1>2, <2>1, <2>2, <2>3, <2>4, <2>5 DEF Stage
<1> QED
  BY <1>1, <1>2 DEF Half

(* A step is a look, the first of a write and its entry, or the last. *)
LastOnes(k, op, q) ==
  \/ q \in AndLog
  \/ q \in NoLog /\ Silent(k, op)
  \/ q = <<{"update", "logMerged"}>>
  \/ q = <<{"logRow", "delete"}>>
  \/ Half(k, q)

FirstOnes(k, op, q) ==
  \/ q \in ThenLog /\ (Catalogues[k].bound => q # <<{"delete"}, {"log"}>>)
  \/ q = <<{"logRow"}, {"delete"}>> /\ Catalogues[k].bound /\ ~Silent(k, "remove")
  \/ q = <<{"logDelete"}, {"delete"}>> /\ ~Silent(k, "remove")

LookOnes(k, op, q) ==
  \/ Look(q, "found") /\ Stage(k, op, Tail(q)) /\ Looks(k, op) = {}
  \/ Look(q, "free") /\ Stage(k, op, Tail(q)) /\ Looks(k, op) # {}
  \/ /\ Look(q, "found") /\ Look(Tail(q), "others") /\ Stage(k, op, Tail(Tail(q)))
     /\ Looks(k, op) # {}
  \/ Look(q, "others") /\ Stage(k, op, Tail(q)) /\ Looks(k, op) # {}

LEMMA ThreeKinds ==
  ASSUME NEW k, NEW op, NEW q, Left(k, op, q)
  PROVE  /\ q \in Seq(SUBSET Operations)
         /\ \/ LastOnes(k, op, q) /\ (Stage(k, op, q) \/ Half(k, q))
            \/ FirstOnes(k, op, q) /\ Stage(k, op, q)
            \/ LookOnes(k, op, q)
BY DEF Left, LastOnes, FirstOnes, LookOnes, Stage

LEMMA Lasts ==
  ASSUME NEW k, NEW op, NEW q, LastOnes(k, op, q)
  PROVE  Len(q) = 1 /\ q = <<Head(q)>>
<1>1. CASE q \in AndLog
  BY <1>1 DEF AndLog
<1>2. CASE q \in NoLog
  BY <1>2 DEF NoLog
<1>3. CASE q = <<{"update", "logMerged"}>> \/ q = <<{"logRow", "delete"}>>
  BY <1>3
<1>4. CASE Half(k, q)
  BY <1>4 DEF Half
<1> QED
  BY <1>1, <1>2, <1>3, <1>4 DEF LastOnes

LEMMA Firsts ==
  ASSUME NEW k, NEW op, NEW q, FirstOnes(k, op, q)
  PROVE  /\ Len(q) = 2 /\ Half(k, Tail(q)) /\ Tail(q) \in Seq(SUBSET Operations)
         /\ Tail(q) \in {<<{"log"}>>, <<{"delete"}>>}
         /\ Head(q) \cap {"free", "found", "others"} = {}
         /\ Tail(q) = <<{"log"}>> <=> q \in ThenLog
<1>1. {"log"} \in SUBSET Operations /\ {"delete"} \in SUBSET Operations
  BY DEF Operations
<1>2. CASE q \in ThenLog
  <2>2. PICK a \in {{"create"}, {"update"}, {"toggle"}, {"delete"}} : q = <<a, {"log"}>>
    BY <1>2 DEF ThenLog
  <2>3. Len(q) = 2 /\ Tail(q) = <<{"log"}>> /\ Head(q) = a
    BY <2>2
  <2>1. Len(q) = 2 /\ Tail(q) = <<{"log"}>> /\ Head(q) \cap {"free", "found", "others"} = {}
    BY <2>3
  <2> QED
    BY <1>1, <1>2, <2>1, OneStep DEF Half
<1>3. CASE q \in {<<{"logRow"}, {"delete"}>>, <<{"logDelete"}, {"delete"}>>} /\ ~Silent(k, "remove")
  <2>4. PICK a \in {{"logRow"}, {"logDelete"}} : q = <<a, {"delete"}>>
    BY <1>3
  <2>3. Len(q) = 2 /\ Tail(q) = <<{"delete"}>> /\ Head(q) = a
    BY <2>4
  <2>1. Len(q) = 2 /\ Tail(q) = <<{"delete"}>> /\ Head(q) \cap {"free", "found", "others"} = {}
    BY <2>3
  <2>2. q \notin ThenLog /\ <<{"delete"}>> # <<{"log"}>>
    BY <1>3 DEF ThenLog
  <2> QED
    BY <1>1, <1>3, <2>1, <2>2, OneStep DEF Half
<1> QED
  BY <1>2, <1>3 DEF FirstOnes

LEMMA Looking ==
  ASSUME NEW k, NEW op, NEW q \in Seq(SUBSET Operations), LookOnes(k, op, q)
  PROVE  /\ Len(q) > 1 /\ Left(k, op, Tail(q)) /\ ~Half(k, Tail(q))
         /\ Head(q) \in {{"found"}, {"free"}, {"others"}}
         /\ Tail(q) \in Reading => Head(q) = {"found"}
         /\ Stage(k, op, Tail(q)) /\ Looks(k, op) # {} => Head(q) \in {{"free"}, {"others"}}
<1>1. Len(q) > 1 /\ Tail(q) \in Seq(SUBSET Operations) /\ Head(q) \in {{"found"}, {"free"}, {"others"}}
  BY DEF LookOnes, Look
<1>2. Stage(k, op, Tail(q)) => ~Half(k, Tail(q))
  BY HalfNotStage
<1>3. ASSUME Look(Tail(q), "others")
      PROVE  ~Half(k, Tail(q)) /\ Tail(q) \notin Reading /\ ~Stage(k, op, Tail(q))
  BY <1>3, LooksFirst DEF Look
<1>4. Left(k, op, Tail(q)) /\ ~Half(k, Tail(q))
  BY <1>1, <1>2, <1>3 DEF LookOnes, Left
<1>5. Tail(q) \in Reading => Head(q) = {"found"}
  BY <1>3 DEF LookOnes, Look, Stage
<1>6. Stage(k, op, Tail(q)) /\ Looks(k, op) # {} => Head(q) \in {{"free"}, {"others"}}
  BY <1>3 DEF LookOnes, Look
<1> QED
  BY <1>1, <1>4, <1>5, <1>6

LEMMA LeftLater ==
  ASSUME NEW k, NEW op, NEW q, Left(k, op, q), Len(q) # 1
  PROVE  Left(k, op, Tail(q)) /\ Len(q) > 1
<1>1. CASE LastOnes(k, op, q)
  BY <1>1, Lasts
<1>2. CASE FirstOnes(k, op, q)
  BY <1>2, Firsts DEF Left
<1>3. CASE LookOnes(k, op, q)
  BY <1>3, Looking, ThreeKinds
<1> QED
  BY <1>1, <1>2, <1>3, ThreeKinds

(* A step of another call leaves a call where it is. *)
Untouched(d) ==
  /\ call'[d] = call[d] /\ script'[d] = script[d] /\ target'[d] = target[d]
  /\ request'[d] = request[d] /\ seen'[d] = seen[d] /\ wrote'[d] = wrote[d]

LEMMA EndTyped ==
  ASSUME RowsTyped, NEW c \in Clerks, EndEdit(c)
  PROVE  /\ call' \in [Clerks -> Ops \cup {"none"}]
         /\ script' = [d \in Clerks |-> script'[d]] /\ target' = [d \in Clerks |-> target'[d]]
         /\ request' \in [Clerks -> [name : Names \cup {"none"}, on : {{}, {TRUE}, {FALSE}}]]
         /\ seen' \in [Clerks -> Rows \cup {Gone}] /\ wrote' = [d \in Clerks |-> wrote'[d]]
         /\ call'[c] = "none" /\ target'[c] = "none"
         /\ \A d \in Clerks \ {c} : Untouched(d)
<1>1. NoWish \in [name : Names \cup {"none"}, on : {{}, {TRUE}, {FALSE}}]
  BY DEF NoWish
<1>2. request' \in [Clerks -> [name : Names \cup {"none"}, on : {{}, {TRUE}, {FALSE}}]]
  BY <1>1 DEF RowsTyped, EndEdit
<1>3. /\ call' \in [Clerks -> Ops \cup {"none"}] /\ seen' \in [Clerks -> Rows \cup {Gone}]
      /\ script' = [d \in Clerks |-> script'[d]] /\ target' = [d \in Clerks |-> target'[d]]
      /\ wrote' = [d \in Clerks |-> wrote'[d]]
  BY DEF RowsTyped, EndEdit
<1>4. call'[c] = "none" /\ target'[c] = "none"
  BY DEF RowsTyped, EndEdit
<1>5. ASSUME NEW d \in Clerks \ {c}
      PROVE  Untouched(d)
  BY DEF RowsTyped, EndEdit, Untouched
<1> QED
  BY <1>2, <1>3, <1>4, <1>5

(* What a call that is not done has left of itself. *)
LEMMA GoOnTyped ==
  ASSUME RowsTyped, NEW c \in Clerks, NEW r \in Rows \cup {Gone}, NEW v,
         script' = [script EXCEPT ![c] = Tail(@)],
         seen' = [seen EXCEPT ![c] = r], wrote' = [wrote EXCEPT ![c] = v],
         UNCHANGED <<call, target, request>>
  PROVE  /\ call' \in [Clerks -> Ops \cup {"none"}]
         /\ script' = [d \in Clerks |-> script'[d]] /\ target' = [d \in Clerks |-> target'[d]]
         /\ request' \in [Clerks -> [name : Names \cup {"none"}, on : {{}, {TRUE}, {FALSE}}]]
         /\ seen' \in [Clerks -> Rows \cup {Gone}] /\ wrote' = [d \in Clerks |-> wrote'[d]]
         /\ script'[c] = Tail(script[c]) /\ seen'[c] = r /\ wrote'[c] = v
         /\ \A d \in Clerks \ {c} : Untouched(d)
<1>1. /\ call' \in [Clerks -> Ops \cup {"none"}] /\ seen' \in [Clerks -> Rows \cup {Gone}]
      /\ script' = [d \in Clerks |-> script'[d]] /\ target' = [d \in Clerks |-> target'[d]]
      /\ wrote' = [d \in Clerks |-> wrote'[d]]
      /\ request' \in [Clerks -> [name : Names \cup {"none"}, on : {{}, {TRUE}, {FALSE}}]]
  BY DEF RowsTyped
<1>2. script'[c] = Tail(script[c]) /\ seen'[c] = r /\ wrote'[c] = v
  BY DEF RowsTyped
<1>3. ASSUME NEW d \in Clerks \ {c}
      PROVE  Untouched(d)
  BY DEF RowsTyped, Untouched
<1> QED
  BY <1>1, <1>2, <1>3

LEMMA PerformRows ==
  ASSUME RowsTyped, ScriptsLeft, NEW c \in Clerks, Perform(c), NEW s, s = Head(script[c])
  PROVE  /\ call[c] # "none" /\ Allowed(c, s) /\ catalogue' = catalogue
         /\ target[c] \in Ids /\ Left(catalogue, call[c], script[c])
         /\ s \cap Writes = {} => row' = row
         /\ s \cap Writes # {} => row' = [row EXCEPT ![target[c]] = Written(c, s)]
         /\ row' \in [Ids -> Rows \cup {Gone}]
         /\ \A j \in Ids : j # target[c] => row'[j] = row[j]
         /\ s \cap Writes # {} => row'[target[c]] = Written(c, s)
<1>1. call[c] # "none" /\ Allowed(c, s) /\ catalogue' = catalogue
  BY DEF Perform
<1>2. target[c] \in Ids /\ Left(catalogue, call[c], script[c])
  BY <1>1 DEF ScriptsLeft
<1>3. /\ s \cap Writes = {} => row' = row
      /\ s \cap Writes # {} => row' = [row EXCEPT ![target[c]] = Written(c, s)]
  BY DEF Perform
<1>4. s \cap Writes # {} => Written(c, s) \in Rows \cup {Gone}
  BY <1>1, WrittenIs
<1>5. row \in [Ids -> Rows \cup {Gone}]
  BY DEF RowsTyped
<1> QED
  BY <1>1, <1>2, <1>3, <1>4, <1>5

LEMMA PerformCalls ==
  ASSUME RowsTyped, ScriptsLeft, NEW c \in Clerks, Perform(c), NEW s, s = Head(script[c])
  PROVE  /\ \A d \in Clerks \ {c} : Untouched(d)
         /\ \A d \in Clerks \ {c} :
              overtaken'[d] = (overtaken[d] \/ (s \cap Writes # {} /\ call[d] # "none"))
         /\ overtaken' \in [Clerks -> BOOLEAN]
         /\ Len(script[c]) = 1 => call'[c] = "none" /\ target'[c] = "none"
         /\ Len(script[c]) # 1 =>
              /\ call' = call /\ target' = target /\ request' = request
              /\ script'[c] = Tail(script[c])
              /\ seen'[c] = IF "found" \in s THEN row[target[c]] ELSE seen[c]
              /\ wrote'[c] = IF s \cap Writes # {} THEN Written(c, s) ELSE wrote[c]
              /\ ~overtaken'[c] => ~overtaken[c] \/ s \cap {"free", "found", "others"} # {}
         /\ RowsTyped'
<1> DEFINE r == IF "found" \in s THEN row[target[c]] ELSE seen[c]
           v == IF s \cap Writes # {} THEN Written(c, s) ELSE wrote[c]
<1>1. /\ overtaken' = [d \in Clerks |->
                        IF d = c THEN overtaken[c] /\ s \cap {"free", "found", "others"} = {}
                                      /\ Len(script[c]) > 1
                        ELSE overtaken[d] \/ (s \cap Writes # {} /\ call[d] # "none")]
      /\ Len(script[c]) = 1 => EndEdit(c)
      /\ Len(script[c]) # 1 =>
           /\ script' = [script EXCEPT ![c] = Tail(@)]
           /\ seen' = [seen EXCEPT ![c] = r] /\ wrote' = [wrote EXCEPT ![c] = v]
           /\ UNCHANGED <<call, target, request>>
  BY DEF Perform, RowsTyped
<1>2. target[c] \in Ids /\ Left(catalogue, call[c], script[c]) /\ catalogue' = catalogue
  BY PerformRows
<1>3. r \in Rows \cup {Gone}
  BY <1>2 DEF RowsTyped
<1>4. Len(script[c]) # 1 => Len(script[c]) > 1
  BY <1>2, LeftLater
<1>5. /\ overtaken' \in [Clerks -> BOOLEAN]
      /\ \A d \in Clerks \ {c} :
              overtaken'[d] = (overtaken[d] \/ (s \cap Writes # {} /\ call[d] # "none"))
  <2>1. overtaken \in [Clerks -> BOOLEAN]
    BY DEF RowsTyped
  <2> QED
    BY <1>1, <2>1
<1>6. Len(script[c]) # 1 /\ ~overtaken'[c] => ~overtaken[c] \/ s \cap {"free", "found", "others"} # {}
  BY <1>1, <1>4
<1>7. row' \in [Ids -> Rows \cup {Gone}]
  BY PerformRows
<1>8. trail' = [j \in Ids |-> trail'[j]]
  BY DEF Perform, RowsTyped
<1>9. CASE Len(script[c]) = 1
  <2>1. EndEdit(c)
    BY <1>1, <1>9
  <2>2. RowsTyped'
    BY <1>2, <1>5, <1>7, <1>8, <2>1, EndTyped DEF RowsTyped
  <2> QED
    BY <1>5, <1>9, <2>1, <2>2, EndTyped
<1>10. CASE Len(script[c]) # 1
  <2> HIDE DEF r, v
  <2>1. /\ script' = [script EXCEPT ![c] = Tail(@)]
        /\ seen' = [seen EXCEPT ![c] = r] /\ wrote' = [wrote EXCEPT ![c] = v]
        /\ UNCHANGED <<call, target, request>>
    BY <1>1, <1>10
  <2>2. /\ call' \in [Clerks -> Ops \cup {"none"}]
        /\ script' = [d \in Clerks |-> script'[d]] /\ target' = [d \in Clerks |-> target'[d]]
        /\ request' \in [Clerks -> [name : Names \cup {"none"}, on : {{}, {TRUE}, {FALSE}}]]
        /\ seen' \in [Clerks -> Rows \cup {Gone}] /\ wrote' = [d \in Clerks |-> wrote'[d]]
        /\ script'[c] = Tail(script[c]) /\ seen'[c] = r /\ wrote'[c] = v
        /\ \A d \in Clerks \ {c} : Untouched(d)
    BY <1>3, <2>1, GoOnTyped
  <2>3. RowsTyped'
    BY <1>2, <1>5, <1>7, <1>8, <2>2 DEF RowsTyped
  <2> QED
    BY <1>5, <1>6, <1>10, <2>1, <2>2, <2>3 DEF r, v
<1> QED
  BY <1>9, <1>10

LEMMA PerformIncidents ==
  ASSUME NEW c \in Clerks, Perform(c), NEW s, s = Head(script[c])
  PROVE  /\ catalogueIncidents \subseteq catalogueIncidents'
         /\ "overlap" \notin catalogueIncidents' /\ s \cap (Writes \cup Entries) # {} =>
              \A d \in Clerks \ {c} : target[d] = target[c] => ~Owes(d)
         /\ "silent" \notin catalogueIncidents' /\ s \cap Writes # {} => ~Silent(catalogue, call[c])
         /\ "stale" \notin catalogueIncidents' /\ s \cap {"toggle", "logMerged", "logRow", "logDelete"} # {}
              => ~overtaken[c]
         /\ /\ {"raced", "unchecked"} \cap catalogueIncidents' = {}
            /\ s \cap {"create", "update"} # {} /\ request[c].name # "none"
            => \/ ~overtaken[c] /\ Looks(catalogue, call[c]) # {}
               \/ Catalogues[catalogue].unique
<1> DEFINE writes == s \cap Writes # {}
           enters == s \cap Entries # {}
           W1 == When((writes \/ enters) /\ \E d \in Clerks \ {c} : target[d] = target[c] /\ Owes(d), "overlap")
           W2 == When(writes /\ Silent(catalogue, call[c]), "silent")
           W3 == When(overtaken[c] /\ s \cap {"toggle", "logMerged", "logRow", "logDelete"} # {}, "stale")
           W4 == When(/\ s \cap {"create", "update"} # {} /\ request[c].name # "none"
                      /\ Checks(c) # {} /\ overtaken[c], "raced")
           W5 == When(/\ s \cap {"create", "update"} # {} /\ request[c].name # "none"
                      /\ Checks(c) = {} /\ ~Catalogues[catalogue].unique, "unchecked")
<1>1. catalogueIncidents' = catalogueIncidents \cup W1 \cup W2 \cup W3 \cup W4 \cup W5
  BY DEF Perform
<1>2. Checks(c) = Looks(catalogue, call[c])
  BY DEF Checks, Looks
<1>3. /\ W1 \subseteq catalogueIncidents' /\ W2 \subseteq catalogueIncidents'
      /\ W3 \subseteq catalogueIncidents' /\ W4 \subseteq catalogueIncidents'
      /\ W5 \subseteq catalogueIncidents' /\ catalogueIncidents \subseteq catalogueIncidents'
  <2> HIDE DEF W1, W2, W3, W4, W5
  <2> QED
    BY <1>1
<1>4. "overlap" \notin catalogueIncidents' /\ s \cap (Writes \cup Entries) # {} =>
        \A d \in Clerks \ {c} : target[d] = target[c] => ~Owes(d)
  <2>1. s \cap (Writes \cup Entries) # {} => writes \/ enters
    OBVIOUS
  <2>2. "overlap" \notin W1 => ~((writes \/ enters) /\ \E d \in Clerks \ {c} : target[d] = target[c] /\ Owes(d))
    BY DEF When
  <2> HIDE DEF W1
  <2> QED
    BY <1>3, <2>1, <2>2
<1>5. "silent" \notin catalogueIncidents' /\ s \cap Writes # {} => ~Silent(catalogue, call[c])
  BY <1>3 DEF When
<1>6. "stale" \notin catalogueIncidents' /\ s \cap {"toggle", "logMerged", "logRow", "logDelete"} # {}
              => ~overtaken[c]
  BY <1>3 DEF When
<1>7. /\ "raced" \notin catalogueIncidents' /\ s \cap {"create", "update"} # {}
      /\ request[c].name # "none" /\ Looks(catalogue, call[c]) # {}
      => ~overtaken[c]
  BY <1>2, <1>3 DEF When
<1>8. /\ "unchecked" \notin catalogueIncidents' /\ s \cap {"create", "update"} # {}
      /\ request[c].name # "none" /\ Looks(catalogue, call[c]) = {}
      => Catalogues[catalogue].unique
  BY <1>2, <1>3 DEF When
<1> QED
  BY <1>3, <1>4, <1>5, <1>6, <1>7, <1>8

(* How calls begin and end. *)
LEMMA BeginsTyped ==
  ASSUME RowsTyped, ScriptsLeft, NEW c \in Clerks, NEW op \in Ops, NEW i \in Ids,
         NEW w \in Wishes(op), Begin(c, op, i, w), Fits(catalogue)
  PROVE  /\ RowsTyped' /\ ScriptsLeft'
         /\ \A d \in Clerks \ {c} : Untouched(d)
         /\ call[c] = "none" /\ call'[c] = op /\ script'[c] = Catalogues[catalogue][op]
         /\ ~Half(catalogue, script'[c]) /\ script'[c] \notin Reading
         /\ Stage(catalogue, op, script'[c]) => Looks(catalogue, op) = {}
<1> DEFINE Asked == [name : Names \cup {"none"}, on : {{}, {TRUE}, {FALSE}}]
           k == catalogue
<1>1. /\ call[c] = "none" /\ Catalogues[k][op] # None
      /\ call' = [call EXCEPT ![c] = op]
      /\ script' = [script EXCEPT ![c] = Catalogues[k][op]]
      /\ target' = [target EXCEPT ![c] = i]
      /\ request' = [request EXCEPT ![c] = w]
      /\ UNCHANGED <<catalogue, row, trail, seen, wrote, overtaken, catalogueIncidents>>
  BY DEF Begin
<1>2. w \in Asked /\ (op = "create" => w.name \in Names /\ w.on = {TRUE})
  <2>1. CASE op = "create"
    <3>1. PICK n \in Names : w = [name |-> n, on |-> {TRUE}]
      BY <2>1 DEF Wishes
    <3> QED
      BY <3>1
  <2>2. CASE op = "update"
    <3>1. (\E n \in Names : w = [name |-> n, on |-> {}])
          \/ \E b \in BOOLEAN : w = [name |-> "none", on |-> {b}]
      BY <2>2 DEF Wishes
    <3>2. \A b \in BOOLEAN : {b} \in {{}, {TRUE}, {FALSE}}
      OBVIOUS
    <3>3. CASE \E n \in Names : w = [name |-> n, on |-> {}]
      BY <2>2, <3>3
    <3>4. CASE \E b \in BOOLEAN : w = [name |-> "none", on |-> {b}]
      <4>1. PICK b \in BOOLEAN : w = [name |-> "none", on |-> {b}]
        BY <3>4
      <4> DEFINE e == {b}
      <4>2. e \in {{}, {TRUE}, {FALSE}} /\ w = [name |-> "none", on |-> e]
        BY <3>2, <4>1
      <4> HIDE DEF e
      <4> QED
        BY <2>2, <4>2
    <3> QED
      BY <3>1, <3>3, <3>4
  <2>3. CASE op \notin {"create", "update"}
    <3>1. w = NoWish
      BY <2>3 DEF Wishes
    <3> QED
      BY <2>3, <3>1 DEF NoWish
  <2> QED
    BY <2>1, <2>2, <2>3
<1>3. \A d \in Clerks \ {c} : Untouched(d)
  BY <1>1 DEF RowsTyped, Untouched
<1>4. call'[c] = op /\ script'[c] = Catalogues[k][op] /\ target'[c] = i /\ request'[c] = w
  BY <1>1 DEF RowsTyped
<1>5. FitsOp(k, op)
  BY DEF Fits
<1>6. /\ Left(k, op, script'[c]) /\ ~Half(k, script'[c]) /\ script'[c] \notin Reading
      /\ Stage(k, op, script'[c]) => Looks(k, op) = {}
  BY <1>1, <1>4, <1>5 DEF FitsOp
<1>7. RowsTyped'
  <2>1. request' \in [Clerks -> Asked]
    BY <1>1, <1>2 DEF RowsTyped
  <2>2. call' \in [Clerks -> Ops \cup {"none"}]
    BY <1>1 DEF RowsTyped
  <2>3. script' = [d \in Clerks |-> script'[d]] /\ target' = [d \in Clerks |-> target'[d]]
    BY <1>1 DEF RowsTyped
  <2> QED
    BY <1>1, <2>1, <2>2, <2>3 DEF RowsTyped
<1>8. ScriptsLeft'
  <2> SUFFICES ASSUME NEW d \in Clerks, call'[d] # "none"
               PROVE  /\ target'[d] \in Ids
                      /\ Left(catalogue', call'[d], script'[d])
                      /\ call'[d] = "create" => request'[d].name \in Names /\ request'[d].on = {TRUE}
    BY DEF ScriptsLeft
  <2>1. CASE d = c
    BY <1>1, <1>2, <1>4, <1>6, <2>1
  <2>2. CASE d # c
    BY <1>1, <1>3, <2>2 DEF ScriptsLeft, Untouched
  <2> QED
    BY <2>1, <2>2
<1> QED
  BY <1>1, <1>3, <1>4, <1>6, <1>7, <1>8

LEMMA StopsTyped ==
  ASSUME RowsTyped, ScriptsLeft, NEW c \in Clerks, EndEdit(c),
         overtaken' = [overtaken EXCEPT ![c] = FALSE],
         UNCHANGED <<catalogue, row, trail>>
  PROVE  RowsTyped' /\ ScriptsLeft'
<1>1. RowsTyped'
  BY EndTyped DEF RowsTyped
<1>2. call'[c] = "none" /\ \A d \in Clerks \ {c} : Untouched(d)
  BY EndTyped
<1>3. ScriptsLeft'
  BY <1>2 DEF ScriptsLeft, Untouched
<1> QED
  BY <1>1, <1>3

LEMMA PerformTyped ==
  ASSUME RowsTyped, ScriptsLeft, NEW c \in Clerks, Perform(c)
  PROVE  RowsTyped' /\ ScriptsLeft'
<1>1. /\ RowsTyped' /\ \A d \in Clerks \ {c} : Untouched(d)
      /\ Len(script[c]) = 1 => call'[c] = "none"
      /\ Len(script[c]) # 1 => /\ call' = call /\ target' = target /\ request' = request
                               /\ script'[c] = Tail(script[c])
  BY PerformCalls
<1>2. /\ catalogue' = catalogue /\ target[c] \in Ids /\ Left(catalogue, call[c], script[c])
      /\ call[c] # "none"
  BY PerformRows
<1>3. Len(script[c]) # 1 => Left(catalogue, call[c], Tail(script[c]))
  BY <1>2, LeftLater
<1>4. ScriptsLeft'
  <2> SUFFICES ASSUME NEW d \in Clerks, call'[d] # "none"
               PROVE  /\ target'[d] \in Ids
                      /\ Left(catalogue', call'[d], script'[d])
                      /\ call'[d] = "create" => request'[d].name \in Names /\ request'[d].on = {TRUE}
    BY DEF ScriptsLeft
  <2>1. CASE d = c
    BY <1>1, <1>2, <1>3, <2>1 DEF ScriptsLeft
  <2>2. CASE d # c
    BY <1>1, <1>2, <2>2 DEF ScriptsLeft, Untouched
  <2> QED
    BY <2>1, <2>2
<1> QED
  BY <1>1, <1>4

-----------------------------------------------------------------------------
(* Names. *)
LEMMA PerformNames ==
  ASSUME RowsTyped, ScriptsLeft, NamesFree, NEW c \in Clerks, Perform(c)
  PROVE  NamesFree' /\ (NamesUnique => NamesUnique')
<1> DEFINE s == Head(script[c])  i == target[c]  k == catalogue
<1>1. /\ call[c] # "none" /\ Allowed(c, s) /\ catalogue' = catalogue
      /\ i \in Ids /\ Left(k, call[c], script[c])
      /\ s \cap Writes = {} => row' = row
      /\ row' \in [Ids -> Rows \cup {Gone}]
      /\ \A j \in Ids : j # i => row'[j] = row[j]
      /\ s \cap Writes # {} => row'[i] = Written(c, s)
  BY PerformRows
<1>2. /\ \A d \in Clerks \ {c} : Untouched(d)
      /\ \A d \in Clerks \ {c} :
              overtaken'[d] = (overtaken[d] \/ (s \cap Writes # {} /\ call[d] # "none"))
      /\ Len(script[c]) = 1 => call'[c] = "none"
      /\ Len(script[c]) # 1 =>
              /\ call' = call /\ target' = target /\ request' = request
              /\ script'[c] = Tail(script[c])
  BY PerformCalls
<1>3. NamesFree'
  <2> SUFFICES ASSUME NEW d \in Clerks,
                      call'[d] # "none", ~overtaken'[d], Stage(catalogue', call'[d], script'[d]),
                      Looks(catalogue', call'[d]) # {}, request'[d].name # "none"
               PROVE  ~\E j \in Ids \ {target'[d]} : row'[j] # Gone /\ row'[j].name = request'[d].name
    BY DEF NamesFree, Taken
  <2>1. CASE d # c
    <3>1. Untouched(d) /\ ~overtaken[d] /\ s \cap Writes = {}
      BY <1>2, <2>1 DEF Untouched
    <3>2. row' = row
      BY <1>1, <3>1
    <3>3. ~Taken(request[d].name, {target[d]})
      BY <1>1, <3>1 DEF NamesFree, Untouched
    <3> QED
      BY <3>1, <3>2, <3>3 DEF Taken, Untouched
  <2>2. CASE d = c
    <3>1. /\ call' = call /\ target' = target /\ request' = request
          /\ script'[c] = Tail(script[c]) /\ Len(script[c]) # 1
      BY <1>2, <2>2
    <3>2. Stage(k, call[c], Tail(script[c])) /\ Looks(k, call[c]) # {}
      BY <1>1, <2>2, <3>1
    <3>3. ~LastOnes(k, call[c], script[c])
      BY <3>1, Lasts
    <3>4. ~FirstOnes(k, call[c], script[c])
      BY <3>2, Firsts, HalfNotStage
    <3>5. s \in {{"free"}, {"others"}}
      BY <1>1, <3>2, <3>3, <3>4, ThreeKinds, Looking
    <3>6. row' = row
      BY <1>1, <3>5 DEF Writes
    <3>7. ~Taken(request[c].name, {target[c]})
      BY <1>1, <2>2, <3>1, <3>5 DEF Allowed, Free, OthersFree, Taken
    <3> QED
      BY <2>2, <3>1, <3>6, <3>7 DEF Taken
  <2> QED
    BY <2>1, <2>2
<1>4. ASSUME NamesUnique, {"raced", "unchecked"} \cap catalogueIncidents' = {},
             NEW a \in Ids, NEW b \in Ids, row'[a] # Gone, row'[b] # Gone, row'[a].name = row'[b].name
      PROVE  a = b
  <2>1. catalogueIncidents \subseteq catalogueIncidents'
    BY PerformIncidents
  <2>2. \A e, f \in Ids : row[e] # Gone /\ row[f] # Gone /\ row[e].name = row[f].name => e = f
    BY <1>4, <2>1 DEF NamesUnique
  <2>3. CASE s \cap Writes = {}
    BY <1>1, <1>4, <2>2, <2>3
  <2>4. CASE s \cap Writes # {}
    <3> DEFINE x == Written(c, s)
    <3>1. row'[i] = x
      BY <1>1, <2>4
    <3>2. CASE x = Gone \/ (row[i] # Gone /\ x.name = row[i].name)
      BY <1>1, <1>4, <2>2, <3>1, <3>2
    <3>3. CASE ~Taken(x.name, {i})
      BY <1>1, <1>4, <2>2, <3>1, <3>3 DEF Taken
    <3>4. CASE s \cap {"create", "update"} # {} /\ request[c].name # "none"
      <4>1. x.name = request[c].name
        BY <1>1, <2>4, <3>4, WrittenIs
      <4>2. CASE Catalogues[k].unique
        <5>1. ~Taken(request[c].name, {i})
          BY <1>1, <3>4, <4>2 DEF Allowed, Refused
        <5> QED
          BY <3>3, <4>1, <5>1
      <4>3. CASE ~overtaken[c] /\ Looks(k, call[c]) # {}
        <5>1. Stage(k, call[c], script[c]) \/ script[c] = <<{"delete"}>>
          BY <1>1, <2>4, HeadWrites
        <5>2. script[c] # <<{"delete"}>>
          <6>1. Head(<<{"delete"}>>) = {"delete"}
            OBVIOUS
          <6> QED
            BY <3>4, <6>1
        <5>3. ~Taken(request[c].name, {i})
          BY <1>1, <3>4, <4>3, <5>1, <5>2 DEF NamesFree
        <5> QED
          BY <3>3, <4>1, <5>3
      <4> QED
        BY <1>4, <3>4, <4>2, <4>3, PerformIncidents
    <3>5. CASE ~(s \cap {"create", "update"} # {} /\ request[c].name # "none")
      BY <1>1, <2>4, <3>2, <3>5, WrittenIs
    <3> QED
      BY <3>4, <3>5
  <2> QED
    BY <2>3, <2>4
<1> QED
  BY <1>3, <1>4 DEF NamesUnique

(* Rows that were read. *)
LEMMA PerformKnown ==
  ASSUME RowsTyped, ScriptsLeft, RowsKnown, NEW c \in Clerks, Perform(c)
  PROVE  RowsKnown'
<1> DEFINE s == Head(script[c])  i == target[c]  k == catalogue
<1>1. /\ call[c] # "none" /\ Allowed(c, s) /\ Left(k, call[c], script[c])
      /\ s \cap Writes = {} => row' = row
  BY PerformRows
<1>2. /\ \A d \in Clerks \ {c} : Untouched(d)
      /\ \A d \in Clerks \ {c} :
              overtaken'[d] = (overtaken[d] \/ (s \cap Writes # {} /\ call[d] # "none"))
      /\ Len(script[c]) = 1 => call'[c] = "none"
      /\ Len(script[c]) # 1 =>
              /\ target' = target /\ script'[c] = Tail(script[c])
              /\ seen'[c] = IF "found" \in s THEN row[i] ELSE seen[c]
  BY PerformCalls
<1> SUFFICES ASSUME NEW d \in Clerks, call'[d] # "none", ~overtaken'[d], script'[d] \in Reading
             PROVE  seen'[d] = row'[target'[d]] /\ row'[target'[d]] # Gone
  BY DEF RowsKnown
<1>3. CASE d # c
  <2>1. Untouched(d) /\ ~overtaken[d] /\ s \cap Writes = {}
    BY <1>2, <1>3 DEF Untouched
  <2>2. row' = row
    BY <1>1, <2>1
  <2>3. seen[d] = row[target[d]] /\ row[target[d]] # Gone
    BY <2>1 DEF RowsKnown, Untouched
  <2> QED
    BY <2>1, <2>2, <2>3 DEF Untouched
<1>4. CASE d = c
  <2>1. /\ Len(script[c]) # 1 /\ target' = target /\ script'[c] = Tail(script[c])
        /\ seen'[c] = IF "found" \in s THEN row[i] ELSE seen[c]
    BY <1>2, <1>4
  <2>2. ~LastOnes(k, call[c], script[c])
    BY <2>1, Lasts
  <2>3. ~FirstOnes(k, call[c], script[c])
    BY <1>4, <2>1, Firsts, HalfNotStage
  <2>4. s = {"found"}
    BY <1>1, <1>4, <2>1, <2>2, <2>3, ThreeKinds, Looking
  <2>5. row' = row /\ row[i] # Gone
    BY <1>1, <2>4 DEF Allowed, Writes
  <2> QED
    BY <1>4, <2>1, <2>4, <2>5
<1> QED
  BY <1>3, <1>4

-----------------------------------------------------------------------------
(* The trail. *)
Clean == {"cut", "overlap", "stale", "silent"} \cap catalogueIncidents = {}

Debt(c) ==
  /\ script[c] = <<{"log"}>> =>
       /\ wrote[c] = row[target[c]]
       /\ Catalogues[catalogue].bound => row[target[c]] # Gone
  /\ Half(catalogue, script[c]) /\ script[c] = <<{"delete"}>> =>
       /\ row[target[c]] # Gone
       /\ ~Catalogues[catalogue].bound => trail[target[c]] = Gone

(* Debts of the others at the row that a step writes are excluded. *)
LEMMA OthersKept ==
  ASSUME RowsTyped, ScriptsLeft, DebtsKept, NEW c \in Clerks, NEW d \in Clerks \ {c},
         Untouched(d), call[d] # "none", catalogue' = catalogue, NEW i,
         \A j \in Ids : j # i => row'[j] = row[j] /\ trail'[j] = trail[j],
         (row' = row /\ trail' = trail) \/ (target[d] = i => ~Owes(d))
  PROVE  Debt(d)'
<1>1. target[d] \in Ids /\ Left(catalogue, call[d], script[d])
  BY DEF ScriptsLeft
<1>2. Owes(d) <=> Half(catalogue, script[d])
  BY <1>1, OwesHalf
<1>3. Debt(d)
  BY DEF DebtsKept, Debt
<1>4. CASE Half(catalogue, script[d])
  <2>1. row'[target[d]] = row[target[d]] /\ trail'[target[d]] = trail[target[d]]
    BY <1>1, <1>2, <1>4
  <2> QED
    BY <1>3, <2>1 DEF Debt, Untouched, Half
<1>5. CASE ~Half(catalogue, script[d])
  <2>1. script[d] # <<{"log"}>>
    BY <1>5 DEF Half
  <2> QED
    BY <1>5, <2>1 DEF Debt, Untouched, Half
<1> QED
  BY <1>4, <1>5

(* An entry about a row tells it, when the others owe none. *)
LEMMA ToldAfter ==
  ASSUME RowsTyped, ScriptsLeft, Told, NEW c \in Clerks, NEW i \in Ids,
         call[c] # "none", target[c] = i,
         \A d \in Clerks \ {c} : Untouched(d), catalogue' = catalogue,
         \A j \in Ids : j # i => row'[j] = row[j] /\ trail'[j] = trail[j],
         target'[c] = i \/ target'[c] = "none" \/ call'[c] = "none",
         \/ trail'[i] = row'[i]
         \/ target'[c] = i /\ Owes(c)'
         \/ ~Owes(c) /\ row' = row /\ trail' = trail
  PROVE  Told'
<1> SUFFICES ASSUME NEW j \in Ids, \A d \in Clerks : target'[d] = j => ~Owes(d)'
             PROVE  trail'[j] = row'[j]
  BY DEF Told
<1>1. \A d \in Clerks \ {c} : Owes(d)' <=> Owes(d)
  BY DEF Owes, Ahead, Untouched
<1>2. \A d \in Clerks \ {c} : target[d] = j => ~Owes(d)
  BY <1>1 DEF Untouched
<1>3. CASE j # i
  <2>1. \A d \in Clerks : target[d] = j => ~Owes(d)
    BY <1>2, <1>3
  <2>2. trail[j] = row[j]
    BY <2>1 DEF Told
  <2> QED
    BY <1>3, <2>2
<1>4. CASE j = i
  <2>1. CASE trail'[i] = row'[i]
    BY <1>4, <2>1
  <2>2. CASE target'[c] = i /\ Owes(c)'
    BY <1>4, <2>2
  <2>3. CASE ~Owes(c) /\ row' = row /\ trail' = trail
    <3>1. \A d \in Clerks : target[d] = i => ~Owes(d)
      BY <1>2, <1>4, <2>3
    <3>2. trail[i] = row[i]
      BY <3>1 DEF Told
    <3> QED
      BY <1>4, <2>3, <3>2
  <2> QED
    BY <2>1, <2>2, <2>3
<1> QED
  BY <1>3, <1>4

LEMMA PerformTrailed ==
  ASSUME RowsTyped, ScriptsLeft, NEW c \in Clerks, Perform(c), NEW s, s = Head(script[c])
  PROVE  /\ s \cap Entries # {} => trail'[target[c]] = Entry(c, s)
         /\ s \cap Entries = {} /\ "delete" \in s /\ Catalogues[catalogue].bound
              => trail'[target[c]] = Gone
         /\ s \cap Entries = {} /\ ~("delete" \in s /\ Catalogues[catalogue].bound) => trail' = trail
         /\ \A j \in Ids : j # target[c] => trail'[j] = trail[j]
<1>1. target[c] \in Ids
  BY PerformRows
<1>2. trail = [j \in Ids |-> trail[j]]
  BY DEF RowsTyped
<1>3. trail' = IF s \cap Entries # {} THEN [trail EXCEPT ![target[c]] = Entry(c, s)]
               ELSE IF "delete" \in s /\ Catalogues[catalogue].bound
               THEN [trail EXCEPT ![target[c]] = Gone]
               ELSE trail
  BY DEF Perform
<1> QED
  BY <1>1, <1>2, <1>3

LEMMA RowThere ==
  ASSUME NEW r \in Rows
  PROVE  r # Gone
BY CatalogueAssumption DEF Rows, Gone

(* The last step of a call leaves its row told. *)
LEMMA LastTells ==
  ASSUME RowsTyped, ScriptsLeft, RowsKnown, DebtsKept, NEW c \in Clerks, Perform(c),
         Clean', LastOnes(catalogue, call[c], script[c])
  PROVE  trail'[target[c]] = row'[target[c]]
<1> DEFINE s == Head(script[c])  i == target[c]  k == catalogue
<1>1. /\ call[c] # "none" /\ Allowed(c, s) /\ i \in Ids /\ Left(k, call[c], script[c])
      /\ s \cap Writes = {} => row' = row
      /\ s \cap Writes # {} => row'[i] = Written(c, s)
  BY PerformRows
<1>2. /\ s \cap Entries # {} => trail'[i] = Entry(c, s)
      /\ s \cap Entries = {} /\ "delete" \in s /\ Catalogues[k].bound => trail'[i] = Gone
      /\ s \cap Entries = {} /\ ~("delete" \in s /\ Catalogues[k].bound) => trail' = trail
  BY PerformTrailed
<1>3. /\ s \cap Writes # {} => ~Silent(k, call[c])
      /\ s \cap {"toggle", "logMerged", "logRow", "logDelete"} # {} => ~overtaken[c]
  <2>1. "silent" \notin catalogueIncidents' /\ "stale" \notin catalogueIncidents'
    BY DEF Clean
  <2> QED
    BY <2>1, PerformIncidents
<1>4. Debt(c)
  BY <1>1 DEF DebtsKept, Debt
<1>5. CASE script[c] \in AndLog
  <2>1. s \in {{"create", "log"}, {"update", "log"}, {"toggle", "log"}, {"delete", "log"}}
    BY <1>5 DEF AndLog
  <2>2. s \cap Writes # {} /\ s \cap Entries # {} /\ "log" \in s
    BY <2>1 DEF Writes, Entries
  <2>3. "logDelete" \notin s /\ "logRow" \notin s /\ "logMerged" \notin s
    BY <2>1
  <2>4. Entry(c, s) = Written(c, s)
    BY <2>2, <2>3 DEF Entry
  <2> QED
    BY <1>1, <1>2, <2>2, <2>4
<1>6. CASE script[c] \in NoLog /\ Silent(k, call[c])
  <2>1. s \in {{"create"}, {"update"}, {"toggle"}, {"delete"}}
    BY <1>6 DEF NoLog
  <2> QED
    BY <1>3, <1>6, <2>1 DEF Writes
<1>7. CASE script[c] = <<{"update", "logMerged"}>>
  <2>1. s = {"update", "logMerged"}
    BY <1>7
  <2>2. s \cap Writes # {} /\ s \cap Entries # {}
    BY <2>1 DEF Writes, Entries
  <2>3. Entry(c, s) = Merge(seen[c], request[c])
    BY <2>1 DEF Entry
  <2>4. Written(c, s) = Merge(row[i], request[c])
    BY <2>1 DEF Written
  <2>5. seen[c] = row[i]
    BY <1>1, <1>3, <1>7, <2>1 DEF RowsKnown, Reading
  <2> QED
    BY <1>1, <1>2, <2>2, <2>3, <2>4, <2>5
<1>8. CASE script[c] = <<{"logRow", "delete"}>>
  <2>1. s = {"logRow", "delete"}
    BY <1>8
  <2>2. s \cap Writes # {} /\ s \cap Entries # {}
    BY <2>1 DEF Writes, Entries
  <2>3. Entry(c, s) = Gone
    BY <2>1 DEF Entry
  <2>4. Written(c, s) = Gone
    BY <2>1 DEF Written
  <2> QED
    BY <1>1, <1>2, <2>2, <2>3, <2>4
<1>9. CASE script[c] = <<{"log"}>>
  <2>1. s = {"log"}
    BY <1>9
  <2>2. s \cap Writes = {} /\ s \cap Entries # {}
    BY <2>1 DEF Writes, Entries
  <2>3. Entry(c, s) = wrote[c]
    BY <2>1, <2>2 DEF Entry
  <2> QED
    BY <1>1, <1>2, <1>4, <1>9, <2>2, <2>3 DEF Debt
<1>10. CASE script[c] = <<{"delete"}>> /\ ~Silent(k, "remove")
  <2>1. s = {"delete"} /\ Half(k, script[c])
    BY <1>10 DEF Half
  <2>2. s \cap Writes # {} /\ s \cap Entries = {}
    BY <2>1 DEF Writes, Entries
  <2>3. row'[i] = Gone
    BY <1>1, <2>1, <2>2 DEF Written
  <2> QED
    BY <1>2, <1>4, <1>10, <2>1, <2>2, <2>3 DEF Debt
<1> QED
  BY <1>5, <1>6, <1>7, <1>8, <1>9, <1>10 DEF LastOnes, Half

(* The first of a write and its entry leaves a debt. *)
LEMMA FirstOwes ==
  ASSUME RowsTyped, ScriptsLeft, RowsKnown, NEW c \in Clerks, Perform(c),
         Clean', FirstOnes(catalogue, call[c], script[c])
  PROVE  Debt(c)' /\ Owes(c)' /\ target'[c] = target[c] /\ call'[c] # "none"
<1> DEFINE s == Head(script[c])  i == target[c]  k == catalogue
<1>1. /\ call[c] # "none" /\ Allowed(c, s) /\ i \in Ids /\ Left(k, call[c], script[c])
      /\ s \cap Writes = {} => row' = row
      /\ s \cap Writes # {} => row'[i] = Written(c, s)
      /\ catalogue' = catalogue
  BY PerformRows
<1>2. s \cap Entries # {} => trail'[i] = Entry(c, s)
  BY PerformTrailed
<1>3. s \cap {"toggle", "logMerged", "logRow", "logDelete"} # {} => ~overtaken[c]
  <2>1. "stale" \notin catalogueIncidents'
    BY DEF Clean
  <2> QED
    BY <2>1, PerformIncidents
<1>4. /\ Len(script[c]) # 1 /\ Half(k, Tail(script[c]))
      /\ Tail(script[c]) \in {<<{"log"}>>, <<{"delete"}>>}
      /\ Tail(script[c]) = <<{"log"}>> <=> script[c] \in ThenLog
  <2>1. /\ Len(script[c]) = 2 /\ Half(k, Tail(script[c]))
        /\ Tail(script[c]) \in {<<{"log"}>>, <<{"delete"}>>}
        /\ Tail(script[c]) = <<{"log"}>> <=> script[c] \in ThenLog
    BY Firsts
  <2> QED
    BY <2>1
<1>5. /\ call' = call /\ target' = target /\ script'[c] = Tail(script[c])
      /\ wrote'[c] = IF s \cap Writes # {} THEN Written(c, s) ELSE wrote[c]
  BY <1>4, PerformCalls
<1>6. Owes(c)'
  <2>1. Owing(k, Tail(script[c]))
    BY <1>4, HalfOwes
  <2> QED
    BY <1>1, <1>5, <2>1 DEF Owes, Owing, Ahead, All
<1>7. <<{"log"}>> # <<{"delete"}>>
  OBVIOUS
<1>8. CASE script[c] \in ThenLog /\ (Catalogues[k].bound => script[c] # <<{"delete"}, {"log"}>>)
  <2>1. PICK a \in {{"create"}, {"update"}, {"toggle"}, {"delete"}} : script[c] = <<a, {"log"}>>
    BY <1>8 DEF ThenLog
  <2>2. s = a
    BY <2>1
  <2>3. s \cap Writes # {}
    BY <2>1, <2>2 DEF Writes
  <2>4. wrote'[c] = row'[target'[c]]
    BY <1>1, <1>5, <2>3
  <2>5. ASSUME Catalogues[k].bound
        PROVE  row'[target'[c]] # Gone
    <3>1. "delete" \notin s
      BY <1>8, <2>1, <2>2, <2>5
    <3>2. Written(c, s) \in Rows
      BY <1>1, <2>3, <3>1, WrittenIs
    <3> QED
      BY <1>1, <1>5, <2>3, <3>2, RowThere
  <2>6. script'[c] # <<{"delete"}>>
    BY <1>4, <1>5, <1>7, <1>8
  <2>7. Debt(c)'
    BY <1>1, <2>4, <2>5, <2>6 DEF Debt
  <2> QED
    BY <1>1, <1>5, <1>6, <2>7
<1>9. ASSUME script[c] \in {<<{"logRow"}, {"delete"}>>, <<{"logDelete"}, {"delete"}>>},
             s = {"logDelete"} \/ (s = {"logRow"} /\ Catalogues[k].bound)
      PROVE  Debt(c)'
  <2>1. s \cap Writes = {} /\ s \cap Entries # {}
    BY <1>9 DEF Writes, Entries
  <2>2. row[i] # Gone
    BY <1>1, <1>3, <1>9 DEF RowsKnown, Reading
  <2>3. row'[target'[c]] # Gone
    BY <1>1, <1>5, <2>1, <2>2
  <2>4. s = {"logDelete"} => trail'[target'[c]] = Gone
    BY <1>2, <1>5, <2>1 DEF Entry
  <2>5. script[c] \notin ThenLog
    BY <1>9 DEF ThenLog
  <2>6. script'[c] # <<{"log"}>>
    BY <1>4, <1>5, <2>5
  <2> QED
    BY <1>1, <1>9, <2>3, <2>4, <2>6 DEF Debt
<1>10. CASE script[c] = <<{"logRow"}, {"delete"}>> /\ Catalogues[k].bound
  <2>1. s = {"logRow"}
    BY <1>10
  <2> QED
    BY <1>1, <1>5, <1>6, <1>9, <1>10, <2>1
<1>11. CASE script[c] = <<{"logDelete"}, {"delete"}>>
  <2>1. s = {"logDelete"}
    BY <1>11
  <2> QED
    BY <1>1, <1>5, <1>6, <1>9, <1>11, <2>1
<1> QED
  BY <1>8, <1>10, <1>11 DEF FirstOnes

LEMMA PerformTrail ==
  ASSUME RowsTyped, ScriptsLeft, RowsKnown, TrailInv, NEW c \in Clerks, Perform(c)
  PROVE  TrailInv'
<1> SUFFICES ASSUME Clean'
             PROVE  DebtsKept' /\ Told'
  BY DEF TrailInv, Clean
<1> DEFINE s == Head(script[c])  i == target[c]  k == catalogue
<1>1. Clean /\ DebtsKept /\ Told
  <2>1. catalogueIncidents \subseteq catalogueIncidents'
    BY PerformIncidents
  <2>2. Clean
    BY <2>1 DEF Clean
  <2> QED
    BY <2>2 DEF TrailInv, Clean
<1>2. /\ call[c] # "none" /\ i \in Ids /\ Left(k, call[c], script[c])
      /\ s \cap Writes = {} => row' = row
      /\ \A j \in Ids : j # i => row'[j] = row[j]
      /\ catalogue' = catalogue
  BY PerformRows
<1>3. /\ s \cap Entries = {} /\ "delete" \notin s => trail' = trail
      /\ \A j \in Ids : j # i => trail'[j] = trail[j]
  BY PerformTrailed
<1>4. \A d \in Clerks \ {c} : Untouched(d)
  BY PerformCalls
<1>5. ASSUME NEW d \in Clerks \ {c}
      PROVE  (row' = row /\ trail' = trail) \/ (target[d] = i => ~Owes(d))
  <2>1. CASE s \cap (Writes \cup Entries) = {}
    <3>1. s \cap Writes = {} /\ s \cap Entries = {} /\ "delete" \notin s
      BY <2>1 DEF Writes
    <3> QED
      BY <1>2, <1>3, <3>1
  <2>2. CASE s \cap (Writes \cup Entries) # {}
    <3>1. "overlap" \notin catalogueIncidents'
      BY DEF Clean
    <3> QED
      BY <2>2, <3>1, PerformIncidents
  <2> QED
    BY <2>1, <2>2
<1>6. ASSUME NEW d \in Clerks \ {c}, call'[d] # "none"
      PROVE  Debt(d)'
  <2>1. Untouched(d) /\ call[d] # "none"
    BY <1>4, <1>6 DEF Untouched
  <2>2. \A j \in Ids : j # i => row'[j] = row[j] /\ trail'[j] = trail[j]
    BY <1>2, <1>3
  <2> QED
    BY <1>1, <1>2, <1>5, <2>1, <2>2, OthersKept
<1>7. ASSUME call'[c] # "none" => Debt(c)'
      PROVE  DebtsKept'
  BY <1>6, <1>7 DEF DebtsKept, Debt
<1>8. \A j \in Ids : j # i => row'[j] = row[j] /\ trail'[j] = trail[j]
  BY <1>2, <1>3
<1>9. CASE LastOnes(k, call[c], script[c])
  <2>1. call'[c] = "none"
    BY <1>9, Lasts, PerformCalls
  <2>2. trail'[i] = row'[i]
    BY <1>1, <1>9, LastTells
  <2>3. Told'
    BY <1>1, <1>2, <1>4, <1>8, <2>1, <2>2, ToldAfter
  <2> QED
    BY <1>7, <2>1, <2>3
<1>10. CASE FirstOnes(k, call[c], script[c])
  <2>1. Debt(c)' /\ Owes(c)' /\ target'[c] = i
    BY <1>10, FirstOwes
  <2>2. Told'
    BY <1>1, <1>2, <1>4, <1>8, <2>1, ToldAfter
  <2> QED
    BY <1>7, <2>1, <2>2
<1>11. CASE LookOnes(k, call[c], script[c])
  <2>8. script[c] \in Seq(SUBSET Operations)
    BY <1>2, ThreeKinds
  <2>9. /\ Len(script[c]) > 1 /\ ~Half(k, Tail(script[c]))
        /\ s \in {{"found"}, {"free"}, {"others"}}
    BY <1>11, <2>8, Looking
  <2>1. /\ Len(script[c]) # 1 /\ ~Half(k, Tail(script[c]))
        /\ s \in {{"found"}, {"free"}, {"others"}}
    <3>1. Len(script[c]) \in Nat
      BY <2>8
    <3>2. \A n \in Nat : n > 1 => n # 1
      OBVIOUS
    <3>3. Len(script[c]) # 1
      BY <2>9, <3>1, <3>2
    <3> QED
      BY <2>9, <3>3
  <2>2. row' = row /\ trail' = trail
    <3>1. s \cap Writes = {} /\ s \cap Entries = {} /\ "delete" \notin s
      BY <2>1 DEF Writes, Entries
    <3> QED
      BY <1>2, <1>3, <3>1
  <2>3. ~Half(k, script[c])
    BY <2>1, LooksFirst
  <2>4. ~Owes(c)
    BY <1>2, <2>3, OwesHalf
  <2>5. script'[c] = Tail(script[c]) /\ target'[c] = i
    BY <2>1, PerformCalls
  <2>6. Debt(c)'
    BY <1>2, <2>1, <2>5 DEF Debt, Half
  <2>7. Told'
    BY <1>1, <1>2, <1>4, <1>8, <2>2, <2>4, <2>5, ToldAfter
  <2> QED
    BY <1>7, <2>6, <2>7
<1> QED
  BY <1>2, <1>9, <1>10, <1>11, ThreeKinds

LEMMA CatalogueInitInv == CatalogueInit /\ Fits(catalogue) => CatalogueInv
<1> SUFFICES ASSUME CatalogueInit, Fits(catalogue)
             PROVE  CatalogueInv
  OBVIOUS
<1> DEFINE first == CHOOSE j \in Ids : TRUE
           n == CHOOSE m \in Names : TRUE
<1>1. n \in Names
  BY CatalogueAssumption
<1>2. [name |-> n, on |-> TRUE] \in Rows
  BY <1>1 DEF Rows
<1> HIDE DEF first, n
<1>3. row = [j \in Ids |-> IF j = first THEN [name |-> n, on |-> TRUE] ELSE Gone]
  BY DEF CatalogueInit, first, n
<1>4. \A c \in Clerks : call[c] = "none"
  BY DEF CatalogueInit
<1>5. RowsTyped
  <2>1. row \in [Ids -> Rows \cup {Gone}]
    BY <1>2, <1>3
  <2>2. NoWish \in [name : Names \cup {"none"}, on : {{}, {TRUE}, {FALSE}}]
    BY DEF NoWish
  <2>3. request \in [Clerks -> [name : Names \cup {"none"}, on : {{}, {TRUE}, {FALSE}}]]
    BY <2>2 DEF CatalogueInit
  <2>4. trail = [i \in Ids |-> trail[i]]
    BY <2>1 DEF CatalogueInit
  <2> QED
    BY <2>1, <2>3, <2>4 DEF CatalogueInit, RowsTyped
<1>6. ScriptsLeft /\ NamesFree /\ RowsKnown
  BY <1>4 DEF ScriptsLeft, NamesFree, RowsKnown
<1>7. NamesUnique
  BY <1>3 DEF NamesUnique
<1>8. TrailInv
  BY <1>4 DEF TrailInv, DebtsKept, Told, CatalogueInit
<1> QED
  BY <1>5, <1>6, <1>7, <1>8 DEF CatalogueInv

(* A call begins. *)
LEMMA BeginInv ==
  ASSUME CatalogueInv, NEW c \in Clerks, NEW op \in Ops, NEW i \in Ids,
         NEW w \in Wishes(op), Begin(c, op, i, w), Fits(catalogue)
  PROVE  CatalogueInv'
<1>1. /\ RowsTyped' /\ ScriptsLeft'
      /\ \A d \in Clerks \ {c} : Untouched(d)
      /\ call[c] = "none" /\ call'[c] = op /\ script'[c] = Catalogues[catalogue][op]
      /\ ~Half(catalogue, script'[c]) /\ script'[c] \notin Reading
      /\ Stage(catalogue, op, script'[c]) => Looks(catalogue, op) = {}
  BY BeginsTyped DEF CatalogueInv
<1>2. UNCHANGED <<catalogue, row, trail, seen, wrote, overtaken, catalogueIncidents>>
  BY DEF Begin
<1>3. NamesFree'
  <2> SUFFICES ASSUME NEW d \in Clerks,
                      call'[d] # "none", ~overtaken'[d], Stage(catalogue', call'[d], script'[d]),
                      Looks(catalogue', call'[d]) # {}, request'[d].name # "none"
               PROVE  ~\E j \in Ids \ {target'[d]} : row'[j] # Gone /\ row'[j].name = request'[d].name
    BY DEF NamesFree, Taken
  <2>1. d # c
    BY <1>1, <1>2
  <2>2. ~Taken(request[d].name, {target[d]})
    BY <1>1, <1>2, <2>1 DEF CatalogueInv, NamesFree, Untouched
  <2> QED
    BY <1>1, <1>2, <2>1, <2>2 DEF Taken, Untouched
<1>4. NamesUnique'
  BY <1>2 DEF CatalogueInv, NamesUnique
<1>5. RowsKnown'
  BY <1>1, <1>2 DEF CatalogueInv, RowsKnown, Untouched
<1>6. TrailInv'
  <2> SUFFICES ASSUME Clean'
               PROVE  DebtsKept' /\ Told'
    BY DEF TrailInv, Clean
  <2>1. DebtsKept /\ Told
    BY <1>2 DEF CatalogueInv, TrailInv, Clean
  <2>2. script'[c] # <<{"log"}>>
    BY <1>1 DEF Half
  <2>3. DebtsKept'
    BY <1>1, <1>2, <2>1, <2>2 DEF DebtsKept, Untouched
  <2>4. ASSUME NEW j \in Ids, \A d \in Clerks : target'[d] = j => ~Owes(d)'
        PROVE  trail'[j] = row'[j]
    <3>1. \A d \in Clerks \ {c} : Owes(d)' <=> Owes(d)
      BY <1>1, <1>2 DEF Owes, Ahead, Untouched
    <3>2. ~Owes(c)
      BY <1>1 DEF Owes
    <3>3. \A d \in Clerks : target[d] = j => ~Owes(d)
      BY <1>1, <2>4, <3>1, <3>2 DEF Untouched
    <3> QED
      BY <1>2, <2>1, <3>3 DEF Told
  <2> QED
    BY <2>3, <2>4 DEF Told
<1> QED
  BY <1>1, <1>3, <1>4, <1>5, <1>6 DEF CatalogueInv

(* A call ends that owes nothing, or it is an incident. *)
LEMMA StopInv ==
  ASSUME CatalogueInv, NEW c \in Clerks, EndEdit(c), call[c] # "none",
         overtaken' = [overtaken EXCEPT ![c] = FALSE],
         UNCHANGED <<catalogue, row, trail>>,
         catalogueIncidents \subseteq catalogueIncidents',
         Clean' /\ DebtsKept => ~Owes(c)
  PROVE  CatalogueInv'
<1>1. RowsTyped' /\ ScriptsLeft'
  BY StopsTyped DEF CatalogueInv
<1>2. call'[c] = "none" /\ target'[c] = "none" /\ \A d \in Clerks \ {c} : Untouched(d)
  BY EndTyped DEF CatalogueInv
<1>3. \A d \in Clerks \ {c} : overtaken'[d] = overtaken[d]
  BY DEF CatalogueInv, RowsTyped
<1>4. NamesFree'
  <2> SUFFICES ASSUME NEW d \in Clerks,
                      call'[d] # "none", ~overtaken'[d], Stage(catalogue', call'[d], script'[d]),
                      Looks(catalogue', call'[d]) # {}, request'[d].name # "none"
               PROVE  ~\E j \in Ids \ {target'[d]} : row'[j] # Gone /\ row'[j].name = request'[d].name
    BY DEF NamesFree, Taken
  <2>1. d # c
    BY <1>2
  <2>2. ~Taken(request[d].name, {target[d]})
    BY <1>2, <1>3, <2>1 DEF CatalogueInv, NamesFree, Untouched
  <2> QED
    BY <1>2, <2>1, <2>2 DEF Taken, Untouched
<1>5. NamesUnique'
  BY DEF CatalogueInv, NamesUnique
<1>6. RowsKnown'
  BY <1>2, <1>3 DEF CatalogueInv, RowsKnown, Untouched
<1>7. TrailInv'
  <2> SUFFICES ASSUME Clean'
               PROVE  DebtsKept' /\ Told'
    BY DEF TrailInv, Clean
  <2>1. DebtsKept /\ Told
    BY DEF CatalogueInv, TrailInv, Clean
  <2>2. DebtsKept'
    BY <1>2, <2>1 DEF DebtsKept, Untouched
  <2>3. ASSUME NEW j \in Ids, \A d \in Clerks : target'[d] = j => ~Owes(d)'
        PROVE  trail'[j] = row'[j]
    <3>1. \A d \in Clerks \ {c} : Owes(d)' <=> Owes(d)
      BY <1>2 DEF Owes, Ahead, Untouched
    <3>2. \A d \in Clerks : target[d] = j => ~Owes(d)
      BY <1>2, <2>1, <2>3, <3>1 DEF Untouched
    <3> QED
      BY <2>1, <3>2 DEF Told
  <2> QED
    BY <2>2, <2>3 DEF Told
<1> QED
  BY <1>1, <1>4, <1>5, <1>6, <1>7 DEF CatalogueInv

LEMMA FailInv ==
  ASSUME CatalogueInv, NEW c \in Clerks, Fail(c)
  PROVE  CatalogueInv'
<1> DEFINE s == Head(script[c])
<1>1. /\ call[c] # "none" /\ ~Allowed(c, s) /\ EndEdit(c)
      /\ overtaken' = [overtaken EXCEPT ![c] = FALSE]
      /\ UNCHANGED <<catalogue, row, trail, catalogueIncidents>>
  BY DEF Fail
<1>2. Left(catalogue, call[c], script[c])
  BY <1>1 DEF CatalogueInv, ScriptsLeft
(* A call that owes an entry cannot fail: its row is there. *)
<1>3. ASSUME DebtsKept, Owes(c)
      PROVE  FALSE
  <2>1. Half(catalogue, script[c])
    BY <1>1, <1>2, <1>3, OwesHalf
  <2>2. CASE script[c] = <<{"log"}>>
    <3>1. s = {"log"}
      BY <2>2
    <3>2. Catalogues[catalogue].bound => row[target[c]] # Gone
      BY <1>1, <1>3, <2>2 DEF DebtsKept
    <3> QED
      BY <1>1, <3>1, <3>2 DEF Allowed, Refused
  <2>3. CASE script[c] = <<{"delete"}>>
    <3>1. s = {"delete"} /\ s # {"log"}
      BY <2>3
    <3>2. row[target[c]] # Gone
      BY <1>1, <1>3, <2>1, <2>3 DEF DebtsKept
    <3> QED
      BY <1>1, <3>1, <3>2 DEF Allowed, Refused
  <2> QED
    BY <2>1, <2>2, <2>3 DEF Half
<1> QED
  BY <1>1, <1>3, StopInv

LEMMA CutInv ==
  ASSUME CatalogueInv, NEW c \in Clerks, CutEdit(c)
  PROVE  CatalogueInv'
<1>1. /\ call[c] # "none" /\ EndEdit(c)
      /\ overtaken' = [overtaken EXCEPT ![c] = FALSE]
      /\ UNCHANGED <<catalogue, row, trail>>
      /\ catalogueIncidents' = catalogueIncidents \cup When(Owes(c), "cut")
  BY DEF CutEdit
<1>2. Clean' => ~Owes(c)
  BY <1>1 DEF Clean, When
<1> QED
  BY <1>1, <1>2, StopInv

LEMMA CatalogueNextInv ==
  ASSUME CatalogueInv, Fits(catalogue), [CatalogueNext]_catalogueVars
  PROVE  CatalogueInv'
<1>1. CASE UNCHANGED catalogueVars
  <2> USE <1>1 DEF catalogueVars, editVars
  <2>1. RowsTyped' /\ ScriptsLeft'
    BY DEF CatalogueInv, RowsTyped, ScriptsLeft
  <2>2. NamesFree' /\ NamesUnique'
    BY DEF CatalogueInv, NamesFree, NamesUnique, Taken
  <2>3. RowsKnown'
    BY DEF CatalogueInv, RowsKnown
  <2>4. \A c \in Clerks : Owes(c)' <=> Owes(c)
    BY DEF Owes, Ahead
  <2>5. Told => Told'
    BY <2>4 DEF Told
  <2>6. DebtsKept => DebtsKept'
    BY DEF DebtsKept
  <2>7. TrailInv'
    BY <2>5, <2>6 DEF CatalogueInv, TrailInv
  <2> QED
    BY <2>1, <2>2, <2>3, <2>7 DEF CatalogueInv
<1>2. ASSUME NEW c \in Clerks, NEW i \in Ids, NEW w \in Wishes("create"), BeginCreate(c, i, w)
      PROVE  CatalogueInv'
  BY <1>2, BeginInv DEF BeginCreate, Ops
<1>3. ASSUME NEW c \in Clerks, NEW i \in Ids, NEW op \in Ops \ {"create"}, NEW w \in Wishes(op),
             Begin(c, op, i, w)
      PROVE  CatalogueInv'
  BY <1>3, BeginInv
<1>4. ASSUME NEW c \in Clerks, Perform(c)
      PROVE  CatalogueInv'
  BY <1>4, PerformTyped, PerformNames, PerformKnown, PerformTrail DEF CatalogueInv
<1>5. ASSUME NEW c \in Clerks, Fail(c) \/ CutEdit(c)
      PROVE  CatalogueInv'
  BY <1>5, FailInv, CutInv
<1> QED
  BY <1>1, <1>2, <1>3, <1>4, <1>5 DEF CatalogueNext

LEMMA CatalogueSafety == CatalogueSpec => []CatalogueInv
<1>1. CatalogueInit => CatalogueInv
  BY CatalogueInitInv, ScriptsFit DEF CatalogueInit
<1>2. CatalogueInv /\ [CatalogueNext]_catalogueVars => CatalogueInv'
  BY CatalogueNextInv, ScriptsFit DEF CatalogueInv, RowsTyped
<1> QED
  BY <1>1, <1>2, PTL DEF CatalogueSpec

(* Two rows never have the same name unless a name was looked for before    *)
(* another call wrote, or is written without being looked for: in every    *)
(* catalogue, whatever its scripts share a transaction with.               *)
THEOREM NamesAlwaysUnique == CatalogueSpec => []NamesUnique
<1>1. CatalogueInv => NamesUnique
  BY DEF CatalogueInv
<1> QED
  BY <1>1, CatalogueSafety, PTL

(* Once no call owes an entry, the latest entry about a row tells what it  *)
(* is now, unless one of the incidents named has happened.                 *)
THEOREM TrailAlwaysTells == CatalogueSpec => []TrailTellsState
<1>1. ASSUME CatalogueInv
      PROVE  TrailTellsState
  <2> SUFFICES ASSUME {"cut", "overlap", "stale", "silent"} \cap catalogueIncidents = {},
                      \A c \in Clerks : ~Owes(c)
               PROVE  trail = row
    BY DEF TrailTellsState
  <2>1. \A i \in Ids : trail[i] = row[i]
    BY <1>1 DEF CatalogueInv, TrailInv, Told
  <2>2. trail = [i \in Ids |-> trail[i]] /\ row = [i \in Ids |-> row[i]]
    BY <1>1 DEF CatalogueInv, RowsTyped
  <2> QED
    BY <2>1, <2>2
<1> QED
  BY <1>1, CatalogueSafety, PTL
=============================================================================
