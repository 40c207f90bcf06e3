------------------------------ MODULE MCOffice ------------------------------
(***************************************************************************)
(* Small instances of the incentives, the catalogues, the lists and the     *)
(* roles, which share no state: the initial state chooses the one to look   *)
(* at and only that one moves (see MCServices).  Fairness is the incentives', *)
(* the only ones with a property that needs it: QualifiedIsPaid is about    *)
(* the behaviours that look at them, and the others are checked for safety. *)
(***************************************************************************)
EXTENDS Incentives, Catalogue, Listings, Access, TLC

CONSTANTS
  u1, u2, run1, run2, req1,           \* Incentives
  i1, i2, n1, n2,                     \* Catalogue
  admin, rider, r1, r2, p1, p2, c1, c2   \* Access

VARIABLE focus

officeVars == <<incentiveVars, catalogueVars, listVars, accessVars>>

(* One of the catalogues that have the same scripts. *)
Kind(k) ==
  <<Catalogues[k], {op \in {"create", "update", "toggle", "remove"} : Silent(k, op)}>>
Distinct == {CHOOSE k \in DOMAIN Catalogues : Kind(k) = q : q \in {Kind(k) : k \in DOMAIN Catalogues}}

(* What is not looked at has one initial state. *)
MCInit ==
  /\ focus \in {"incentives", "catalogue", "listings", "access"}
  /\ IncentivesInit /\ CatalogueInit /\ ListingsInit /\ AccessInit
  /\ focus # "incentives" => claimType = "AUTO" /\ meetsRules = {}
  /\ catalogue \in IF focus = "catalogue" THEN Distinct ELSE {"faq"}
  /\ focus # "listings" => list = TestFeed /\ sorting = "newest"
  /\ focus # "access" => roleState[admin] = "there"

MCNext ==
  \/ /\ focus = "incentives" /\ IncentivesNext
     /\ UNCHANGED <<catalogueVars, listVars, accessVars, focus>>
  \/ /\ focus = "catalogue" /\ CatalogueNext
     /\ UNCHANGED <<incentiveVars, listVars, accessVars, focus>>
  \/ /\ focus = "listings" /\ ListingsNext
     /\ UNCHANGED <<incentiveVars, catalogueVars, accessVars, focus>>
  \/ /\ focus = "access" /\ AccessNext
     /\ UNCHANGED <<incentiveVars, catalogueVars, listVars, focus>>

MCSpec == MCInit /\ [][MCNext]_<<officeVars, focus>> /\ IncentivesFairness
=============================================================================
