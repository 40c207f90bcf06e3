------------------------------ MODULE Catalogue ------------------------------
(***************************************************************************)
(* The catalogues of the administration: vehicle types, fees, zones,       *)
(* promotion codes, policies and so on.  Their services have one shape:    *)
(* look at the table, write one row, add a row to a trail of changes; and  *)
(* they differ in what they look at, in which statements share a           *)
(* transaction and in what they leave out.  So a handler is a script here, *)
(* a sequence of steps, each the set of operations that commit together,   *)
(* and a catalogue is the record of its scripts.                           *)
(*                                                                         *)
(* The customers' own small tables have the same shape, without a trail.   *)
(* A row is its name (the title, code or scenario, the owner or the order  *)
(* that is to be unique) and its status.  An update writes the fields its  *)
(* request names.                                                          *)
(***************************************************************************)
EXTENDS Integers, Sequences, FiniteSets, Incident

CONSTANTS
  Ids,        \* of rows
  Names,      \* of rows
  Clerks,     \* calls in flight at once
  MaxEdits    \* bound: calls

ASSUME CatalogueAssumption ==
  Cardinality(Ids) >= 1 /\ Names # {} /\ "none" \notin Names /\ MaxEdits \in Nat

VARIABLES
  catalogue,                                   \* the catalogue looked at
  row,                                         \* its rows, Gone where there is none
  trail,                                       \* what the latest entry about an id says
  call, script, target, request,               \* per call: operation, steps left, row, request,
  seen, wrote,                                 \* row read, row written,
  overtaken,                                   \* another call has written since it last read
  edits,                                       \* calls so far (see MaxEdits)
  catalogueIncidents

editVars == <<call, script, target, request, seen, wrote, overtaken>>
catalogueVars == <<catalogue, row, trail, editVars, edits, catalogueIncidents>>

Rows == [name : Names, on : BOOLEAN]
Gone == [name |-> "none", on |-> FALSE]

(*   "cut"          a call ended between its write and its entry           *)
(*   "overlap"      a row was written, or an entry about it made, while    *)
(*                  another call owed an entry about it                    *)
(*   "silent"       an operation wrote that is written without an entry    *)
(*   "stale"        an entry or a toggle used a row read before a write    *)
(*   "raced"        a name was looked for before another call's write      *)
(*   "unchecked"    a name was written that nobody looked for              *)
CatalogueIncidents == {"cut", "overlap", "silent", "stale", "raced", "unchecked"}

-----------------------------------------------------------------------------
(* The operations of a step:                                               *)
(*   free    nobody has the name      others     no other row has the name *)
(*   found   the row is there         log        an entry, as written      *)
(*   create, update, toggle, delete   logMerged  an entry, from the request *)
(*                                               and the row as read       *)
(*   logRow  an entry with the row    logDelete  an entry of its removal   *)

CheckedCreate == <<{"free"}, {"create"}, {"log"}>>
PlainCreate == <<{"create"}, {"log"}>>
PlainUpdate == <<{"found"}, {"update"}, {"log"}>>
PlainToggle == <<{"found"}, {"toggle"}, {"log"}>>
PlainRemove == <<{"found"}, {"delete"}, {"log"}>>
None == <<>>

(* A catalogue: its scripts; unique, an index on the name; bound, entries   *)
(* refer to the row by a foreign key that its removal sets to null.        *)
Service(create, update, toggle, remove) ==
  [create |-> create, update |-> update, toggle |-> toggle, remove |-> remove,
   unique |-> FALSE, bound |-> FALSE]
Unique(s) == [s EXCEPT !.unique = TRUE]
Bound(s) == [s EXCEPT !.bound = TRUE]

VehicleTypes == Service(CheckedCreate, PlainUpdate, None, PlainRemove)
DeliveryTypes == Service(CheckedCreate, PlainUpdate, None, <<{"found"}, {"logDelete"}, {"delete"}>>)
ServiceZones == Service(PlainCreate, PlainUpdate, PlainToggle, PlainRemove)
CommissionRates == Service(CheckedCreate, PlainUpdate, None, <<{"found"}, {"delete"}>>)
FeeStructures == Service(CheckedCreate, PlainUpdate, None, <<{"found"}, {"delete"}>>)
DynamicSurges ==
  Service(CheckedCreate, PlainUpdate, <<{"found"}, {"toggle"}>>, <<{"found"}, {"delete"}>>)
DeductionFees == Service(CheckedCreate, PlainUpdate, None, <<{"found"}, {"delete"}>>)
CompensationRoles == Service(CheckedCreate, PlainUpdate, None, <<{"found"}, {"delete"}>>)
PromoCodes ==
  Unique(Service(<<{"free"}, {"create", "log"}>>, <<{"found"}, {"update", "log"}>>, None,
                 <<{"found"}, {"delete", "log"}>>))
AdditionalServices == Service(PlainCreate, PlainUpdate, None, PlainRemove)
ServiceConfig == Service(None, <<{"update"}, {"log"}>>, None, <<{"delete"}, {"log"}>>)
Advertisements ==
  Bound(Service(CheckedCreate, <<{"update"}, {"log"}>>, PlainToggle,
                <<{"found"}, {"logRow", "delete"}>>))
Quizzes ==
  Bound(Service(CheckedCreate, PlainUpdate, None, <<{"found"}, {"logRow"}, {"delete"}>>))
CoinRules ==
  Unique(Bound(Service(CheckedCreate, PlainUpdate, None, <<{"found"}, {"logRow"}, {"delete"}>>)))
Contents ==
  Bound(Service(CheckedCreate, PlainUpdate, None, <<{"found"}, {"logRow", "delete"}>>))
Policies ==
  Service(CheckedCreate, <<{"found"}, {"others"}, {"update"}, {"log"}>>, PlainToggle, PlainRemove)
OrderConfirmations == Service(<<{"create"}>>, PlainUpdate, None, None)
CompetitionConfigs ==
  Service(<<{"create"}>>, <<{"found"}, {"update", "logMerged"}>>, None, None)
NotificationRules ==
  Service(<<{"create", "log"}>>, <<{"found"}, {"update", "log"}>>,
          <<{"found"}, {"toggle", "log"}>>, <<{"found"}, {"delete", "log"}>>)
TriggerEvents ==
  Unique(Service(<<{"free"}, {"create", "log"}>>, <<{"found"}, {"update", "log"}>>,
                 <<{"found"}, {"toggle", "log"}>>, <<{"found"}, {"delete", "log"}>>))
DashboardPopups == Service(PlainCreate, PlainUpdate, None, PlainRemove)
Faqs == Service(<<{"create"}>>, <<{"update"}>>, <<{"found"}, {"toggle"}>>, <<{"delete"}>>)
Articles ==
  Service(<<{"create"}>>, <<{"found"}, {"update"}>>, <<{"found"}, {"toggle"}>>, <<{"found"}, {"delete"}>>)
AboutUs ==
  Service(<<{"create"}>>, <<{"found"}, {"update"}>>, <<{"found"}, {"toggle"}>>, <<{"found"}, {"delete"}>>)
DisputeTypes == Service(<<{"create"}>>, <<{"update"}>>, None, <<{"delete"}>>)
Questions == Service(<<{"create"}>>, <<{"found"}, {"update"}>>, None, <<{"found"}, {"delete"}>>)
MyRaiders ==
  Service(<<{"free"}, {"create"}>>, <<{"update"}>>, <<{"found"}, {"toggle"}>>, <<{"delete"}>>)
Destinations ==
  Service(<<{"free"}, {"create"}>>, <<{"found"}, {"update"}>>, None, <<{"found"}, {"delete"}>>)
Ratings ==
  Unique(Service(<<{"free"}, {"create"}>>, <<{"found"}, {"update"}>>, None,
                 <<{"found"}, {"delete"}>>))

Catalogues ==
  [vehicleType |-> VehicleTypes, deliveryType |-> DeliveryTypes, serviceZone |-> ServiceZones,
   commissionRate |-> CommissionRates, feeStructure |-> FeeStructures,
   dynamicSurge |-> DynamicSurges, deductionFee |-> DeductionFees,
   compensationRole |-> CompensationRoles, promoCode |-> PromoCodes,
   additionalServices |-> AdditionalServices, serviceConfig |-> ServiceConfig,
   advertise |-> Advertisements, quiz |-> Quizzes, coin |-> CoinRules, content |-> Contents,
   policy |-> Policies, orderConfirmation |-> OrderConfirmations,
   competitionConfig |-> CompetitionConfigs, notificationRule |-> NotificationRules,
   triggerEvent |-> TriggerEvents, dashboardPopup |-> DashboardPopups,
   faq |-> Faqs, article |-> Articles, aboutUs |-> AboutUs,
   disputeType |-> DisputeTypes, question |-> Questions, myRaider |-> MyRaiders,
   destination |-> Destinations, rating |-> Ratings]

(* What is written without an entry. *)
NoTrail == {"faq", "article", "aboutUs", "disputeType", "question",
            "myRaider", "destination", "rating"}
Silent(s, op) ==
  \/ s \in NoTrail
  \/ op = "create" /\ s \in {"orderConfirmation", "competitionConfig"}
  \/ op = "toggle" /\ s = "dynamicSurge"
  \/ op = "remove"
     /\ s \in {"commissionRate", "feeStructure", "dynamicSurge", "deductionFee", "compensationRole"}

-----------------------------------------------------------------------------
Ops == {"create", "update", "toggle", "remove"}

CatalogueTypeOK ==
  /\ catalogue \in DOMAIN Catalogues
  /\ row \in [Ids -> Rows \cup {Gone}] /\ trail \in [Ids -> Rows \cup {Gone}]
  /\ call \in [Clerks -> Ops \cup {"none"}]
  /\ \A c \in Clerks : \A i \in DOMAIN script[c] : script[c][i] \subseteq STRING
  /\ target \in [Clerks -> Ids \cup {"none"}]
  /\ request \in [Clerks -> [name : Names \cup {"none"}, on : {{}, {TRUE}, {FALSE}}]]
  /\ seen \in [Clerks -> Rows \cup {Gone}] /\ wrote \in [Clerks -> Rows \cup {Gone}]
  /\ overtaken \in [Clerks -> BOOLEAN]
  /\ edits \in 0 .. MaxEdits
  /\ catalogueIncidents \subseteq CatalogueIncidents

NoWish == [name |-> "none", on |-> {}]

(* One row is there, made and entered. *)
CatalogueInit ==
  /\ catalogue \in DOMAIN Catalogues
  /\ LET first == CHOOSE j \in Ids : TRUE
         n == CHOOSE m \in Names : TRUE
     IN row = [j \in Ids |-> IF j = first THEN [name |-> n, on |-> TRUE] ELSE Gone]
  /\ trail = row
  /\ call = [c \in Clerks |-> "none"]
  /\ script = [c \in Clerks |-> <<>>]
  /\ target = [c \in Clerks |-> "none"]
  /\ request = [c \in Clerks |-> NoWish]
  /\ seen = [c \in Clerks |-> Gone]
  /\ wrote = [c \in Clerks |-> Gone]
  /\ overtaken = [c \in Clerks |-> FALSE]
  /\ edits = 0
  /\ catalogueIncidents = {}

(* The requests: a create names everything, an update a name or a status. *)
Wishes(op) ==
  CASE op = "create" -> {[name |-> n, on |-> {TRUE}] : n \in Names}
    [] op = "update" -> {[name |-> n, on |-> {}] : n \in Names}
                          \cup {[name |-> "none", on |-> {b}] : b \in BOOLEAN}
    [] OTHER -> {NoWish}

Begin(c, op, i, w) ==
  /\ call[c] = "none"
  /\ edits < MaxEdits
  /\ Catalogues[catalogue][op] # None
  /\ edits' = edits + 1
  /\ call' = [call EXCEPT ![c] = op]
  /\ script' = [script EXCEPT ![c] = Catalogues[catalogue][op]]
  /\ target' = [target EXCEPT ![c] = i]
  /\ request' = [request EXCEPT ![c] = w]
  /\ UNCHANGED <<catalogue, row, trail, seen, wrote, overtaken, catalogueIncidents>>

EndEdit(c) ==
  /\ call' = [call EXCEPT ![c] = "none"]
  /\ script' = [script EXCEPT ![c] = <<>>]
  /\ target' = [target EXCEPT ![c] = "none"]
  /\ request' = [request EXCEPT ![c] = NoWish]
  /\ seen' = [seen EXCEPT ![c] = Gone]
  /\ wrote' = [wrote EXCEPT ![c] = Gone]

-----------------------------------------------------------------------------
(* The steps *)

Entries == {"log", "logMerged", "logRow", "logDelete"}
Writes == {"create", "update", "toggle", "delete"}
Ahead(c) == UNION {script[c][k] : k \in DOMAIN script[c]}

(* A call owes an entry when it has written and not entered it, or when it  *)
(* has entered a removal that is to come.                                  *)
Owes(c) ==
  /\ call[c] # "none"
  /\ \/ "log" \in Ahead(c) /\ Ahead(c) \cap Writes = {}
     \/ Ahead(c) = {"delete"} /\ "logDelete" \notin Ahead(c) /\ ~Silent(catalogue, "remove")

Taken(n, except) == \E i \in Ids \ except : row[i] # Gone /\ row[i].name = n

(* Mutant: the name is not looked for. *)
FreeAnyway(c) == TRUE

Free(c) == ~Taken(request[c].name, {})

OthersFree(c) == request[c].name # "none" => ~Taken(request[c].name, {target[c]})

(* The row a request makes of another. *)
Merge(r, w) ==
  [name |-> IF w.name = "none" THEN r.name ELSE w.name,
   on |-> IF w.on = {} THEN r.on ELSE CHOOSE b \in w.on : TRUE]

Flipped(r) == [r EXCEPT !.on = ~@]

(* The row that step s writes, if it writes one. *)
Written(c, s) ==
  CASE "create" \in s -> Merge(Gone, request[c])
    [] "update" \in s -> Merge(row[target[c]], request[c])
    [] "toggle" \in s -> [row[target[c]] EXCEPT !.on = Flipped(seen[c]).on]
    [] OTHER -> Gone

(* What the database refuses. *)
Refused(c, s) ==
  \/ s \cap {"update", "toggle", "delete"} # {} /\ row[target[c]] = Gone
  \/ /\ Catalogues[catalogue].unique
     /\ s \cap {"create", "update"} # {} /\ request[c].name # "none"
     /\ Taken(request[c].name, {target[c]})
  \/ Catalogues[catalogue].bound /\ s = {"log"} /\ row[target[c]] = Gone

Allowed(c, s) ==
  /\ "free" \in s => Free(c)
  /\ "others" \in s => OthersFree(c)
  /\ "found" \in s => row[target[c]] # Gone
  /\ ~Refused(c, s)

(* Mutant: an update enters the row as it was read. *)
EntryAsRead(c, s) == IF "logDelete" \in s THEN Gone ELSE seen[c]

(* What the entry of step s says. *)
Entry(c, s) ==
  CASE "logDelete" \in s -> Gone
    [] "logRow" \in s -> IF "delete" \in s THEN Gone ELSE seen[c]
    [] "logMerged" \in s -> Merge(seen[c], request[c])
    [] "log" \in s /\ s \cap Writes # {} -> Written(c, s)
    [] OTHER -> wrote[c]

Checks(c) ==
  (UNION {Catalogues[catalogue][call[c]][k] : k \in DOMAIN Catalogues[catalogue][call[c]]})
    \cap {"free", "others"}

Perform(c) ==
  /\ call[c] # "none"
  /\ LET s == Head(script[c])
         i == target[c]
         writes == s \cap Writes # {}
         enters == s \cap Entries # {}
     IN /\ Allowed(c, s)
        /\ row' = IF writes THEN [row EXCEPT ![i] = Written(c, s)] ELSE row
        /\ trail' = IF enters THEN [trail EXCEPT ![i] = Entry(c, s)]
                    ELSE IF "delete" \in s /\ Catalogues[catalogue].bound
                    THEN [trail EXCEPT ![i] = Gone]
                    ELSE trail
        /\ overtaken' = [d \in Clerks |->
                        IF d = c THEN overtaken[c] /\ s \cap {"free", "found", "others"} = {}
                                      /\ Len(script[c]) > 1
                        ELSE overtaken[d] \/ (writes /\ call[d] # "none")]
        /\ catalogueIncidents' = catalogueIncidents
             \cup When((writes \/ enters) /\ \E d \in Clerks \ {c} : target[d] = i /\ Owes(d), "overlap")
             \cup When(writes /\ Silent(catalogue, call[c]), "silent")
             \cup When(overtaken[c] /\ s \cap {"toggle", "logMerged", "logRow", "logDelete"} # {}, "stale")
             \cup When(/\ s \cap {"create", "update"} # {} /\ request[c].name # "none"
                       /\ Checks(c) # {} /\ overtaken[c], "raced")
             \cup When(/\ s \cap {"create", "update"} # {} /\ request[c].name # "none"
                       /\ Checks(c) = {} /\ ~Catalogues[catalogue].unique, "unchecked")
        /\ IF Len(script[c]) = 1
           THEN EndEdit(c)
           ELSE /\ script' = [script EXCEPT ![c] = Tail(@)]
                /\ seen' = [seen EXCEPT ![c] = IF "found" \in s THEN row[i] ELSE @]
                /\ wrote' = [wrote EXCEPT ![c] = IF writes THEN Written(c, s) ELSE @]
                /\ UNCHANGED <<call, target, request>>
  /\ UNCHANGED <<catalogue, edits>>

(* A check fails or the database refuses. *)
Fail(c) ==
  /\ call[c] # "none"
  /\ ~Allowed(c, Head(script[c]))
  /\ EndEdit(c)
  /\ overtaken' = [overtaken EXCEPT ![c] = FALSE]
  /\ UNCHANGED <<catalogue, row, trail, edits, catalogueIncidents>>

(* The process dies or the connection to the database is lost. *)
CutEdit(c) ==
  /\ call[c] # "none"
  /\ EndEdit(c)
  /\ overtaken' = [overtaken EXCEPT ![c] = FALSE]
  /\ catalogueIncidents' = catalogueIncidents \cup When(Owes(c), "cut")
  /\ UNCHANGED <<catalogue, row, trail, edits>>

(* An id is given once: a row that is gone does not come back, so a create  *)
(* takes an id that has no row and no entry.                               *)
BeginCreate(c, i, w) ==
  /\ row[i] = Gone /\ trail[i] = Gone
  /\ \A d \in Clerks : target[d] # i
  /\ Begin(c, "create", i, w)

CatalogueNext ==
  \E c \in Clerks :
    \/ \E i \in Ids : \E w \in Wishes("create") : BeginCreate(c, i, w)
    \/ \E i \in Ids, op \in Ops \ {"create"} : \E w \in Wishes(op) : Begin(c, op, i, w)
    \/ Perform(c)
    \/ Fail(c)
    \/ CutEdit(c)

CatalogueSpec == CatalogueInit /\ [][CatalogueNext]_catalogueVars

-----------------------------------------------------------------------------
(* Properties *)

(* The latest entry about a row tells what it is now: in every catalogue    *)
(* that keeps a trail, once no call owes an entry, unless a call was cut    *)
(* short, wrote or entered a row while another call owed an entry about    *)
(* it, entered what it had read before another call's write, or is one     *)
(* that is written without an entry.                                       *)
TrailTellsState ==
  /\ {"cut", "overlap", "stale", "silent"} \cap catalogueIncidents = {}
  /\ \A c \in Clerks : ~Owes(c)
  => trail = row

(* Two rows never have the same name unless a name was looked for before    *)
(* another call wrote, or is written without being looked for.             *)
NamesUnique ==
  {"raced", "unchecked"} \cap catalogueIncidents = {} =>
    \A i, j \in Ids : row[i] # Gone /\ row[j] # Gone /\ row[i].name = row[j].name => i = j
=============================================================================
