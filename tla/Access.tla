------------------------------- MODULE Access -------------------------------
(***************************************************************************)
(* Roles and the permission check of every route (rbac.service.ts,         *)
(* permission.guard.ts), with the two programs that make the static roles: *)
(* the server when it starts, with a few permissions each, and the seed    *)
(* script (prisma/seed.ts), with all of them.                              *)
(*                                                                         *)
(* Left out: the names of roles, and their activity, which no check reads. *)
(***************************************************************************)
EXTENDS Integers, FiniteSets, Incident

CONSTANTS
  StaticRoles,       \* admin, raider, user
  CustomRoles,       \* ids of roles that administrators make
  Members,           \* users
  Permissions,
  Basic, Full,       \* permissions of a static role: the server's and the seed's
  RoleCalls,         \* calls to the role service in flight at once
  MaxRoleCalls       \* bound: calls, memberships and runs of the seed

ASSUME AccessAssumption ==
  /\ StaticRoles \cap CustomRoles = {}
  /\ Basic \subseteq Permissions /\ Full \subseteq Permissions
  /\ "none" \notin Permissions
  /\ MaxRoleCalls \in Nat

VARIABLES
  roleState,              \* "unused", "there", "gone" (an id is given once)
  granted,                \* the permissions of a role, by its rows
  member,                 \* role -> users connected to it
  decided,                \* the permissions last asked for with success
  joined,                 \* role -> users added and not removed
  server,                 \* "starting" | "up"
  seeding, seenRoles,     \* the seed: "idle" | "initial" | "sync"; the static roles it found
  roleCall, roleOf, perms,   \* per call: step, role, permissions asked for
  roleCalls,
  accessIncidents

accessVars == <<roleState, granted, member, decided, joined, server, seeding, seenRoles,
                roleCall, roleOf, perms, roleCalls, accessIncidents>>

RoleIds == StaticRoles \cup CustomRoles

(*   "cut"         an update ended after it had removed the permissions    *)
(*   "crossed"     two updates of a role removed and added alternately     *)
(*   "counted"     a user joined a role after its users had been counted   *)
(*   "half_made"   the seed found some of the static roles and not others  *)
AccessIncidents == {"cut", "crossed", "counted", "half_made"}

AccessTypeOK ==
  /\ roleState \in [RoleIds -> {"unused", "there", "gone"}]
  /\ granted \in [RoleIds -> SUBSET Permissions] /\ decided \in [RoleIds -> SUBSET Permissions]
  /\ member \in [RoleIds -> SUBSET Members] /\ joined \in [RoleIds -> SUBSET Members]
  /\ server \in {"starting", "up"}
  /\ seeding \in {"idle", "initial", "sync"} /\ seenRoles \subseteq StaticRoles
  /\ roleCall \in [RoleCalls -> {"none", "update", "write", "count", "delete"}]
  /\ roleOf \in [RoleCalls -> RoleIds \cup {"none"}]
  /\ perms \in [RoleCalls -> SUBSET Permissions]
  /\ roleCalls \in 0 .. MaxRoleCalls
  /\ accessIncidents \subseteq AccessIncidents

(* An empty database, or one that the seed has filled. *)
AccessInit ==
  /\ \E made \in {{}, StaticRoles} :
       /\ roleState = [r \in RoleIds |-> IF r \in made THEN "there" ELSE "unused"]
       /\ granted = [r \in RoleIds |-> IF r \in made THEN Full ELSE {}]
  /\ decided = granted
  /\ member = [r \in RoleIds |-> {}] /\ joined = member
  /\ server = "starting"
  /\ seeding = "idle" /\ seenRoles = {}
  /\ roleCall = [c \in RoleCalls |-> "none"]
  /\ roleOf = [c \in RoleCalls |-> "none"]
  /\ perms = [c \in RoleCalls |-> {}]
  /\ roleCalls = 0
  /\ accessIncidents = {}

There(r) == roleState[r] = "there"

Counted == roleCalls < MaxRoleCalls /\ roleCalls' = roleCalls + 1

-----------------------------------------------------------------------------
(* The server starts: it makes the static roles that are missing, one after *)
(* the other, and takes requests then.  (A role that the seed makes between *)
(* its look and its create ends the start, and the server starts again.)    *)

MakeStatic(r) ==
  /\ server = "starting"
  /\ r \in StaticRoles /\ ~There(r)
  /\ roleState' = [roleState EXCEPT ![r] = "there"]
  /\ granted' = [granted EXCEPT ![r] = Basic]
  /\ decided' = [decided EXCEPT ![r] = Basic]
  /\ UNCHANGED <<member, joined, server, seeding, seenRoles, roleCall, roleOf, perms,
                 roleCalls, accessIncidents>>

Started ==
  /\ server = "starting"
  /\ \A r \in StaticRoles : There(r)
  /\ server' = "up"
  /\ UNCHANGED <<roleState, granted, member, decided, joined, seeding, seenRoles,
                 roleCall, roleOf, perms, roleCalls, accessIncidents>>

(* The seed looks whether there are roles; when there are, it reads the     *)
(* static ones.                                                            *)
Seed ==
  /\ seeding = "idle"
  /\ Counted
  /\ LET found == {r \in StaticRoles : There(r)}
     IN /\ seeding' = IF \E r \in RoleIds : There(r) THEN "sync" ELSE "initial"
        /\ seenRoles' = found
        /\ accessIncidents' = accessIncidents \cup When(found \notin {{}, StaticRoles}, "half_made")
  /\ UNCHANGED <<roleState, granted, member, decided, joined, server, roleCall, roleOf, perms>>

(* The first time it makes them all in one transaction, which fails when    *)
(* one is there by now.                                                    *)
SeedInitial ==
  /\ seeding = "initial"
  /\ seeding' = "idle"
  /\ LET fails == \E r \in StaticRoles : There(r)
         made(f, v) == IF fails THEN f ELSE [r \in RoleIds |-> IF r \in StaticRoles THEN v ELSE f[r]]
     IN /\ roleState' = made(roleState, "there")
        /\ granted' = made(granted, Full)
        /\ decided' = made(decided, Full)
  /\ UNCHANGED <<member, joined, server, seenRoles, roleCall, roleOf, perms, roleCalls,
                 accessIncidents>>

(* After that it brings each role it found up to date, one after the other; *)
(* the permissions of a static role have no other writer.                  *)
SeedSync(r) ==
  /\ seeding = "sync" /\ r \in seenRoles
  /\ granted' = [granted EXCEPT ![r] = Full]
  /\ decided' = [decided EXCEPT ![r] = Full]
  /\ seenRoles' = seenRoles \ {r}
  /\ UNCHANGED <<roleState, member, joined, server, seeding, roleCall, roleOf, perms,
                 roleCalls, accessIncidents>>

(* At its end the seed has asked for all static roles. *)
SeedEnds ==
  /\ seeding = "sync" /\ seenRoles = {}
  /\ seeding' = "idle"
  /\ decided' = [r \in RoleIds |-> IF r \in StaticRoles THEN Full ELSE decided[r]]
  /\ UNCHANGED <<roleState, granted, member, joined, server, seenRoles, roleCall, roleOf, perms,
                 roleCalls, accessIncidents>>

-----------------------------------------------------------------------------
(* Roles of the administrators.  Every call first reads its role and fails  *)
(* when it is missing or static.                                           *)

RoleTo(c, step) == roleCall' = [roleCall EXCEPT ![c] = step]

RoleEnds(c) ==
  /\ RoleTo(c, "none")
  /\ roleOf' = [roleOf EXCEPT ![c] = "none"]
  /\ perms' = [perms EXCEPT ![c] = {}]

StartRole(c, r, ps, step) ==
  /\ server = "up"
  /\ roleCall[c] = "none"
  /\ Counted
  /\ RoleTo(c, step)
  /\ roleOf' = [roleOf EXCEPT ![c] = r]
  /\ perms' = [perms EXCEPT ![c] = ps]
  /\ UNCHANGED <<roleState, granted, member, decided, joined, server, seeding, seenRoles,
                 accessIncidents>>

(* The name is unique in the database, so that looking for it and making    *)
(* the role are one.                                                       *)
CreateRole(r, ps) ==
  /\ server = "up"
  /\ r \in CustomRoles /\ roleState[r] = "unused"
  /\ Counted
  /\ roleState' = [roleState EXCEPT ![r] = "there"]
  /\ granted' = [granted EXCEPT ![r] = ps]
  /\ decided' = [decided EXCEPT ![r] = ps]
  /\ UNCHANGED <<member, joined, server, seeding, seenRoles, roleCall, roleOf, perms,
                 accessIncidents>>

UpdateCheck(c, r, ps) ==
  /\ r \in CustomRoles /\ There(r)
  /\ StartRole(c, r, ps, "update")

(* Another update of the role has removed its permissions and not added. *)
Open(c) == \E d \in RoleCalls \ {c} : roleOf[d] = roleOf[c] /\ roleCall[d] = "write"

UpdateClear(c) ==
  /\ roleCall[c] = "update"
  /\ granted' = [granted EXCEPT ![roleOf[c]] = {}]
  /\ accessIncidents' = accessIncidents \cup When(Open(c), "crossed")
  /\ RoleTo(c, "write")
  /\ UNCHANGED <<roleState, member, decided, joined, server, seeding, seenRoles, roleOf,
                 perms, roleCalls>>

(* It fails when the role is gone. *)
UpdateWrite(c) ==
  /\ roleCall[c] = "write"
  /\ IF There(roleOf[c])
     THEN /\ granted' = [granted EXCEPT ![roleOf[c]] = @ \cup perms[c]]
          /\ decided' = [decided EXCEPT ![roleOf[c]] = perms[c]]
     ELSE UNCHANGED <<granted, decided>>
  /\ RoleEnds(c)
  /\ UNCHANGED <<roleState, member, joined, server, seeding, seenRoles, roleCalls,
                 accessIncidents>>

DeleteCheck(c, r) ==
  /\ r \in CustomRoles /\ There(r)
  /\ StartRole(c, r, {}, "count")

(* Mutant: the users of the role are not counted. *)
CountUsersNot(c) == TRUE

CountUsers(c) == member[roleOf[c]] = {}

DeleteCount(c) ==
  /\ roleCall[c] = "count"
  /\ IF CountUsers(c)
     THEN RoleTo(c, "delete") /\ UNCHANGED <<roleOf, perms>>
     ELSE RoleEnds(c)
  /\ UNCHANGED <<roleState, granted, member, decided, joined, server, seeding, seenRoles,
                 roleCalls, accessIncidents>>

(* Permissions and memberships go with the role. *)
DeleteRole(c) ==
  /\ roleCall[c] = "delete"
  /\ LET r == roleOf[c]
     IN /\ roleState' = [roleState EXCEPT ![r] = "gone"]
        /\ granted' = [granted EXCEPT ![r] = {}]
        /\ member' = [member EXCEPT ![r] = {}]
  /\ RoleEnds(c)
  /\ UNCHANGED <<decided, joined, server, seeding, seenRoles, roleCalls, accessIncidents>>

AddUserToRole(r, u) ==
  /\ server = "up"
  /\ There(r) /\ u \notin member[r]
  /\ Counted
  /\ member' = [member EXCEPT ![r] = @ \cup {u}]
  /\ joined' = [joined EXCEPT ![r] = @ \cup {u}]
  /\ accessIncidents' = accessIncidents
       \cup When(\E c \in RoleCalls : roleOf[c] = r /\ roleCall[c] = "delete", "counted")
  /\ UNCHANGED <<roleState, granted, decided, server, seeding, seenRoles, roleCall, roleOf,
                 perms>>

RemoveUserFromRole(r, u) ==
  /\ server = "up"
  /\ r \in CustomRoles /\ There(r) /\ u \in member[r]
  /\ Counted
  /\ member' = [member EXCEPT ![r] = @ \ {u}]
  /\ joined' = [joined EXCEPT ![r] = @ \ {u}]
  /\ UNCHANGED <<roleState, granted, decided, server, seeding, seenRoles, roleCall, roleOf,
                 perms,
                 accessIncidents>>

(* The process ends: its calls do, too, and it starts again. *)
Restart ==
  /\ server = "up"
  /\ Counted
  /\ server' = "starting"
  /\ roleCall' = [c \in RoleCalls |-> "none"]
  /\ roleOf' = [c \in RoleCalls |-> "none"]
  /\ perms' = [c \in RoleCalls |-> {}]
  /\ accessIncidents' = accessIncidents \cup When(\E c \in RoleCalls : roleCall[c] = "write", "cut")
  /\ UNCHANGED <<roleState, granted, member, decided, joined, seeding, seenRoles>>

AccessNext ==
  \/ \E r \in StaticRoles : MakeStatic(r) \/ SeedSync(r)
  \/ Started \/ Restart
  \/ Seed \/ SeedInitial \/ SeedEnds
  \/ \E r \in RoleIds, u \in Members : AddUserToRole(r, u) \/ RemoveUserFromRole(r, u)
  \/ \E r \in CustomRoles, ps \in SUBSET Permissions : CreateRole(r, ps)
  \/ \E c \in RoleCalls :
       \/ \E r \in CustomRoles, ps \in SUBSET Permissions : UpdateCheck(c, r, ps)
       \/ \E r \in CustomRoles : DeleteCheck(c, r)
       \/ UpdateClear(c) \/ UpdateWrite(c) \/ DeleteCount(c) \/ DeleteRole(c)

AccessSpec == AccessInit /\ [][AccessNext]_accessVars

-----------------------------------------------------------------------------
(* The permission check of a route that needs p: does a role of the user    *)
(* have it?                                                                *)
CheckPermission(u, p) == \E r \in RoleIds : u \in member[r] /\ p \in granted[r]

(* The guard: a route needs a permission, or none. *)
CanActivate(u, need) == need = "none" \/ CheckPermission(u, need)

(* What the decisions of the administrators say. *)
Entitled(u, p) == \E r \in RoleIds : u \in joined[r] /\ p \in decided[r]

(* Roles an update is rewriting. *)
Rewritten == {roleOf[c] : c \in {d \in RoleCalls : roleCall[d] = "write"}}

(* A route lets exactly those users through whose roles were last given the *)
(* permission, while no update is between its removal and its writing (a    *)
(* user of the role is refused then) and unless one was cut there or        *)
(* crossed another, a user joined a role that was about to be removed, or   *)
(* the seed ran when the server had made some of the static roles.         *)
RightsAsDecided ==
  accessIncidents = {} /\ Rewritten = {} =>
    \A u \in Members, p \in Permissions : CanActivate(u, p) <=> Entitled(u, p)
=============================================================================
