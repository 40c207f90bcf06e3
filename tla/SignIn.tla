------------------------------- MODULE SignIn -------------------------------
(***************************************************************************)
(* How one user signs in and out on his devices: the one-time code kept    *)
(* for him in Redis, the one refresh token kept in his row, and the rows   *)
(* of his logins; and what the administrator does to the account           *)
(* meanwhile.                                                              *)
(*                                                                         *)
(* There is one code and one token per user, so that each new one replaces *)
(* that of another device, and every request reads and writes at separate  *)
(* awaits.  A request that fails its checks changes nothing and is left    *)
(* out, and so is the day's reward, with which a login ends (see Rewards), *)
(* and what a logout does to a rider's presence (see Presence).            *)
(***************************************************************************)
EXTENDS Integers, FiniteSets, Incident

CONSTANTS
  Devices,    \* devices of the user
  NoDevice,   \* nobody's token
  Admins,     \* requests of administrators to switch the account on or off
  MaxCodes,   \* bound: one-time codes
  MaxLogins,  \* bound: UserLogin rows
  MaxSignIns  \* bound: requests

ASSUME SignInAssumption ==
  /\ NoDevice \notin Devices
  /\ MaxCodes \in Nat /\ MaxLogins \in Nat /\ MaxSignIns \in Nat

VARIABLES
  codeKept,      \* the code in Redis, 0 if none
  codesMade,     \* codes so far (see MaxCodes)
  codeOf,        \* codeOf[d]: the code that is typed on device d, 0 if none
  holder,        \* the device whose refresh token the row keeps
  loginRows,     \* UserLogin rows, numbered in order of loginAt
  openLogins,    \* those without logoutAt
  verified,      \* is_verified
  accountActive, \* is_active
  removed,       \* is_deleted
  signStep,      \* signStep[d]: the next step of the request of device d
  loginSeen,     \* loginSeen[d]: the open login it has seen, 0 if none
  switchSaw,     \* switchSaw[a]: the is_active that request a has read
  signIns,       \* requests so far (see MaxSignIns)
  signIncidents

codeVars == <<codeKept, codesMade, codeOf>>
loginVars == <<holder, loginRows, openLogins>>
accountVars == <<verified, accountActive, removed>>
signVars == <<codeVars, loginVars, accountVars, signStep, loginSeen, switchSaw, signIns, signIncidents>>

(*   "crossed"     a token was saved or cleared while a request of another  *)
(*                 device was under way                                    *)
(*   "cut_short"   a request was interrupted                                *)
(*   "removed"     the administrator deleted the user                       *)
SignIncidents == {"crossed", "cut_short", "removed"}

SignStep == {"idle", "mark", "clear", "token", "look", "open", "refresh", "leave", "close"}

SignInTypeOK ==
  /\ codeKept \in 0 .. MaxCodes /\ codesMade \in 0 .. MaxCodes
  /\ codeOf \in [Devices -> 0 .. MaxCodes]
  /\ holder \in Devices \cup {NoDevice}
  /\ loginRows \in 0 .. MaxLogins /\ openLogins \subseteq 1 .. loginRows
  /\ verified \in BOOLEAN /\ accountActive \in BOOLEAN /\ removed \in BOOLEAN
  /\ signStep \in [Devices -> SignStep]
  /\ loginSeen \in [Devices -> 0 .. MaxLogins]
  /\ switchSaw \in [Admins -> {"none", "on", "off"}]
  /\ signIns \in 0 .. MaxSignIns
  /\ signIncidents \subseteq SignIncidents

(* The user has just signed up, or the administrator has created him.       *)
SignInInit ==
  /\ \E made \in BOOLEAN : verified = made /\ accountActive = made
  /\ removed = FALSE
  /\ codeKept = 0 /\ codesMade = 0
  /\ codeOf = [d \in Devices |-> 0]
  /\ holder = NoDevice
  /\ loginRows = 0 /\ openLogins = {}
  /\ signStep = [d \in Devices |-> "idle"]
  /\ loginSeen = [d \in Devices |-> 0]
  /\ switchSaw = [a \in Admins |-> "none"]
  /\ signIns = 0
  /\ signIncidents = {}

-----------------------------------------------------------------------------
SignRequest(d, step) ==
  /\ signStep[d] = "idle"
  /\ signIns < MaxSignIns
  /\ signIns' = signIns + 1
  /\ signStep' = [signStep EXCEPT ![d] = step]
  /\ UNCHANGED <<loginSeen, switchSaw>>

SignGoto(d, step, seen) ==
  /\ signStep' = [signStep EXCEPT ![d] = step]
  /\ loginSeen' = [loginSeen EXCEPT ![d] = seen]
  /\ UNCHANGED <<switchSaw, signIns>>

SignEnd(d) == SignGoto(d, "idle", 0)

NewestLogin == IF openLogins = {} THEN 0 ELSE CHOOSE r \in openLogins : \A q \in openLogins : q <= r

(* Another device's request is under way between its token and its row. *)
Crossing(d) == \E e \in Devices \ {d} : signStep[e] \notin {"idle", "mark", "clear"}

-----------------------------------------------------------------------------
(* otp.service *)

(* generateOtp, for signup, login, and a forgotten password. *)
GenerateCode(d) ==
  /\ codesMade < MaxCodes
  /\ codesMade' = codesMade + 1
  /\ codeKept' = codesMade'
  /\ codeOf' = [codeOf EXCEPT ![d] = codesMade']
  /\ UNCHANGED <<loginVars, accountVars, signStep, loginSeen, switchSaw, signIns, signIncidents>>

CodeExpires ==
  /\ codeKept # 0
  /\ codeKept' = 0
  /\ UNCHANGED <<codesMade, codeOf, loginVars, accountVars, signStep, loginSeen, switchSaw, signIns, signIncidents>>

CodeMatches(d) == codeKept # 0 /\ codeOf[d] = codeKept

(* verifyOtp *)
VerifyCode(d) ==
  /\ CodeMatches(d)
  /\ SignRequest(d, "mark")
  /\ UNCHANGED <<codeVars, loginVars, accountVars, signIncidents>>

MarkVerified(d) ==
  /\ signStep[d] = "mark"
  /\ verified' = TRUE /\ accountActive' = TRUE
  /\ SignGoto(d, "clear", 0)
  /\ UNCHANGED <<codeVars, loginVars, removed, signIncidents>>

(* verifyOtpForLoginAndClear *)
VerifyLoginCode(d) ==
  /\ verified
  /\ CodeMatches(d)
  /\ SignRequest(d, "clear")
  /\ UNCHANGED <<codeVars, loginVars, accountVars, signIncidents>>

(* The key is deleted, whatever code it holds by then. *)
ClearCode(d) ==
  /\ signStep[d] = "clear"
  /\ codeKept' = 0
  /\ SignGoto(d, "token", 0)
  /\ UNCHANGED <<codesMade, codeOf, loginVars, accountVars, signIncidents>>

-----------------------------------------------------------------------------
(* auth.service: loginWithOtp, loginWithCredentials, refreshTokens, logout *)

LoginWithCredentials(d) ==
  /\ SignRequest(d, "token")
  /\ UNCHANGED <<codeVars, loginVars, accountVars, signIncidents>>

(* The token is compared with the one in the row. *)
RefreshCheck(d) ==
  /\ holder = d
  /\ SignRequest(d, "refresh")
  /\ UNCHANGED <<codeVars, loginVars, accountVars, signIncidents>>

(* updateRefreshToken *)
SaveToken(d) ==
  /\ signStep[d] \in {"token", "refresh"}
  /\ holder' = d
  /\ IF signStep[d] = "token" THEN SignGoto(d, "look", 0) ELSE SignEnd(d)
  /\ signIncidents' = signIncidents \cup When(Crossing(d), "crossed")
  /\ UNCHANGED <<codeVars, loginRows, openLogins, accountVars>>

(* handlePostLogin *)
LookForLogin(d) ==
  /\ signStep[d] = "look"
  /\ SignGoto(d, "open", NewestLogin)
  /\ UNCHANGED <<codeVars, loginVars, accountVars, signIncidents>>

(* Mutant: every login makes a row. *)
MakeLoginAlways(d) ==
  /\ signStep[d] = "open"
  /\ loginRows < MaxLogins
  /\ loginRows' = loginRows + 1
  /\ openLogins' = openLogins \cup {loginRows + 1}
  /\ SignEnd(d)
  /\ UNCHANGED <<codeVars, holder, accountVars, signIncidents>>

MakeLogin(d) ==
  /\ signStep[d] = "open"
  /\ IF loginSeen[d] = 0
       THEN /\ loginRows < MaxLogins
            /\ loginRows' = loginRows + 1
            /\ openLogins' = openLogins \cup {loginRows + 1}
       ELSE UNCHANGED <<loginRows, openLogins>>
  /\ SignEnd(d)
  /\ UNCHANGED <<codeVars, holder, accountVars, signIncidents>>

(* logout: the token first, of whichever device it is. *)
Logout(d) ==
  /\ loginRows > 0
  /\ SignRequest(d, "leave")
  /\ holder' = NoDevice
  /\ signIncidents' = signIncidents \cup When(Crossing(d), "crossed")
  /\ UNCHANGED <<codeVars, loginRows, openLogins, accountVars>>

FindLogin(d) ==
  /\ signStep[d] = "leave"
  /\ SignGoto(d, "close", NewestLogin)
  /\ UNCHANGED <<codeVars, loginVars, accountVars, signIncidents>>

CloseLogin(d) ==
  /\ signStep[d] = "close"
  /\ openLogins' = openLogins \ {loginSeen[d]}
  /\ SignEnd(d)
  /\ UNCHANGED <<codeVars, holder, loginRows, accountVars, signIncidents>>

SignFails(d) ==
  /\ signStep[d] # "idle"
  /\ SignEnd(d)
  /\ signIncidents' = signIncidents \cup {"cut_short"}
  /\ UNCHANGED <<codeVars, loginVars, accountVars>>

-----------------------------------------------------------------------------
(* users.service: activeStatusChange, softDeleteMultiple *)

SwitchRead(a) ==
  /\ switchSaw[a] = "none"
  /\ switchSaw' = [switchSaw EXCEPT ![a] = IF accountActive THEN "on" ELSE "off"]
  /\ UNCHANGED <<codeVars, loginVars, accountVars, signStep, loginSeen, signIns, signIncidents>>

SwitchWrite(a) ==
  /\ switchSaw[a] # "none"
  /\ accountActive' = (switchSaw[a] = "off")
  /\ switchSaw' = [switchSaw EXCEPT ![a] = "none"]
  /\ UNCHANGED <<codeVars, loginVars, verified, removed, signStep, loginSeen, signIns, signIncidents>>

SoftDelete ==
  /\ removed' = TRUE
  /\ accountActive' = FALSE /\ verified' = FALSE
  /\ holder' = NoDevice
  /\ signIncidents' = signIncidents \cup {"removed"}
  /\ UNCHANGED <<codeVars, loginRows, openLogins, signStep, loginSeen, switchSaw, signIns>>

-----------------------------------------------------------------------------
SignInStep(d) ==
  \/ VerifyCode(d) \/ MarkVerified(d) \/ VerifyLoginCode(d) \/ ClearCode(d)
  \/ LoginWithCredentials(d) \/ RefreshCheck(d) \/ SaveToken(d)
  \/ LookForLogin(d) \/ MakeLogin(d)
  \/ Logout(d) \/ FindLogin(d) \/ CloseLogin(d)
  \/ SignFails(d)

SignInNext ==
  \/ \E d \in Devices : GenerateCode(d) \/ SignInStep(d)
  \/ CodeExpires
  \/ \E a \in Admins : SwitchRead(a) \/ SwitchWrite(a)
  \/ SoftDelete

SignInSpec == SignInInit /\ [][SignInNext]_signVars

-----------------------------------------------------------------------------
(* Properties *)

(* When no request is under way the user has one open login exactly if the  *)
(* row keeps a token, on whichever devices he signed in and out: unless a   *)
(* token changed under another device's login or logout, a request was     *)
(* interrupted, or the user was deleted.                                   *)
LoginFollowsToken ==
  signIncidents = {} /\ (\A d \in Devices : signStep[d] = "idle") =>
    Cardinality(openLogins) = (IF holder = NoDevice THEN 0 ELSE 1)
=============================================================================
