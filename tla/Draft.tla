-------------------------------- MODULE Draft --------------------------------
(***************************************************************************)
(* One order while its customer puts it together: stops are added, removed *)
(* and put in order, discounts and additional services come and go, the    *)
(* price is calculated again and again, and at last the order is placed    *)
(* and perhaps given priority.                                             *)
(*                                                                         *)
(* The customer's devices may send edits at the same time.  An edit reads  *)
(* the order, checks it, and writes what it computed from the row it read; *)
(* no lock is held in between, within a transaction either (Read           *)
(* Committed).  The reads that an edit makes before its first write are    *)
(* one step of the model, and so is every transaction's writing.           *)
(*                                                                         *)
(* The price of a stop is Fare, whatever the route, zone and demand are;   *)
(* the rider's earnings, which move with the price, are left out.  What    *)
(* the wallet does when an order is placed is the subject of Placement.    *)
(* An order that is not placed has the payment type WALLET (the default of *)
(* its column), so the COD parts of applyDiscount and removeDiscount,      *)
(* which act on orders of type COD only, are never reached.                *)
(***************************************************************************)
EXTENDS Integers, FiniteSets, Incident

CONSTANTS
  Rows,         \* rows of stops that may be created
  Dests,        \* destinations a drop may go to
  Services,     \* additional services
  Fare,         \* price of one drop
  ServiceValue, \* price of one additional service
  PromoValue,   \* discount of the promo code
  Fee,          \* priority fee
  Spend,        \* coins that a discount asks for
  CoinValue,    \* average value of a coin
  Coins,        \* the customer's coins at first
  Calls,        \* edits in flight at once
  MaxEdits      \* bound: edits that are asked for

ASSUME DraftAssumption ==
  /\ IsFiniteSet(Rows) /\ IsFiniteSet(Services)
  /\ {Fare, ServiceValue, PromoValue, Fee, Spend, CoinValue} \subseteq Nat \ {0}
  /\ Coins \in Nat
  /\ MaxEdits \in Nat

VARIABLES
  order,     \* the columns of the order's row that prices depend on
  stops,     \* stops[r]: type, destination, sequence; has its payment an amount
  coins,     \* User.current_coin_balance (and reward_points) of the customer
  charged,   \* what was paid, or is to be paid, by placing the order
  collect,   \* what the rider is to collect on delivery (-1: not COD)
  fees,      \* priority fees that were paid
  at, edit, saw, \* per call: its step, the edit it is asked for, what it read
  edits,     \* edits so far (see MaxEdits)
  incidents  \* what happened so far that a price or a sequence may suffer from

moneyVars == <<coins, charged, collect, fees>>
callVars == <<at, edit, saw>>
vars == <<order, stops, moneyVars, callVars, edits, incidents>>

(*   "overlapped"    a call wrote what it had computed from an older order  *)
(*   "unpriced"      a call changed the stops and ended before the price   *)
(*   "frozen"        the price was calculated after originalCost was set,  *)
(*                   or for an order with services or a discount           *)
(*   "no_base"       originalCost is 0 and is taken from a total that is   *)
(*                   not the price alone                                   *)
(*   "bare_discount" a discount was applied to an order with services      *)
(*   "bare_removal"  a discount was removed before originalCost was set    *)
(*   "counted_coins" a promo code was removed and its coins taken at their *)
(*                   number, not at their value                           *)
(*   "below_zero"    a fee was added to a price that had been cut off at 0 *)
(*   "stale_removal" a discount was removed whose coins had changed        *)
(*   "partial_list"  only some of the drops were put in order              *)
(*   "late_pickup"   the pickup was created when a drop had its sequence   *)
Incidents == {"overlapped", "unpriced", "frozen", "no_base", "bare_discount", "bare_removal",
              "counted_coins", "below_zero", "stale_removal", "partial_list", "late_pickup"}

Of(type) == {r \in Rows : stops[r].type = type}
Drops == Of("DROP")
Pickups == Of("PICKUP")

Unused == [type |-> "none", dest |-> "none", sequence |-> 0, priced |-> FALSE]
NewOrder == [status |-> "PROGRESS", total |-> 0, original |-> 0, discount |-> 0,
             coins |-> 0, promo |-> 0, services |-> {}, fee |-> 0]
NoEdit == [op |-> "none", arg |-> "none"]
Nothing == [order |-> NewOrder, stops |-> [r \in Rows |-> Unused]]

(* A new order, or one that has its pickup and its first drop. *)
Init ==
  /\ \/ order = NewOrder /\ stops = [r \in Rows |-> Unused]
     \/ \E p, d \in Rows, to \in Dests :
          /\ p # d
          /\ order = [NewOrder EXCEPT !.total = Fare]
          /\ stops = [r \in Rows |->
               CASE r = p -> [Unused EXCEPT !.type = "PICKUP", !.sequence = 1]
                 [] r = d -> [type |-> "DROP", dest |-> to, sequence |-> 2, priced |-> TRUE]
                 [] OTHER -> Unused]
  /\ coins = Coins
  /\ charged = 0
  /\ collect = -1
  /\ fees = 0
  /\ at = [c \in Calls |-> "idle"]
  /\ edit = [c \in Calls |-> NoEdit]
  /\ saw = [c \in Calls |-> Nothing]
  /\ edits = 0
  /\ incidents = {}

-----------------------------------------------------------------------------
(* Calls *)

Changed(c) == saw[c] # [order |-> order, stops |-> stops]
NoteAll(c, S) == incidents' = incidents \cup S \cup When(Changed(c), "overlapped")

Base(o) == IF o.original # 0 THEN o.original ELSE o.total
Extras(o) == ServiceValue * Cardinality(o.services) + o.fee
NoBase(o) == When(o.original = 0 /\ Extras(o) # o.discount, "no_base")

AtLeast0(n) == IF n < 0 THEN 0 ELSE n

(* An edit whose checks passed on the order it read. *)
Begin(c, op, arg) ==
  /\ at[c] = "idle"
  /\ edits < MaxEdits
  /\ edits' = edits + 1
  /\ at' = [at EXCEPT ![c] = "write"]
  /\ edit' = [edit EXCEPT ![c] = [op |-> op, arg |-> arg]]
  /\ saw' = [saw EXCEPT ![c] = [order |-> order, stops |-> stops]]
  /\ UNCHANGED <<order, stops, moneyVars, incidents>>

Writing(c, op) == at[c] = "write" /\ edit[c].op = op

(* The call goes on from what it has just written. *)
Goto(c, step) ==
  /\ at' = [at EXCEPT ![c] = step]
  /\ saw' = [saw EXCEPT ![c] = [order |-> order', stops |-> stops']]
  /\ UNCHANGED edit

End(c) ==
  /\ at' = [at EXCEPT ![c] = "idle"]
  /\ edit' = [edit EXCEPT ![c] = NoEdit]
  /\ saw' = [saw EXCEPT ![c] = Nothing]

(* A check fails, a row is gone, the database fails or the process dies:    *)
(* what the call has written so far stays.                                 *)
Fail(c) ==
  /\ at[c] # "idle"
  /\ End(c)
  /\ incidents' = incidents \cup When(at[c] # "write", "unpriced")
  /\ UNCHANGED <<order, stops, moneyVars, edits>>

-----------------------------------------------------------------------------
(* addDestinationToOrder *)

AddPickup(c) ==
  /\ order.status = "PROGRESS"
  /\ Begin(c, "pickup", "none")

(* Mutant: a destination may be added again. *)
AddDropAgain(c, to) ==
  /\ order.status = "PROGRESS"
  /\ Begin(c, "drop", to)

AddDrop(c, to) ==
  /\ order.status = "PROGRESS"
  /\ \A r \in Drops : stops[r].dest # to
  /\ Begin(c, "drop", to)

(* If the call has seen a pickup, that pickup moves to the new destination. *)
CreatePickup(c) ==
  LET seen == {r \in Rows : saw[c].stops[r].type = "PICKUP"} IN
  /\ Writing(c, "pickup")
  /\ IF seen = {}
       THEN \E r \in Of("none") :
              stops' = [stops EXCEPT ![r] = [Unused EXCEPT !.type = "PICKUP", !.sequence = 1]]
       ELSE seen \subseteq Pickups /\ UNCHANGED stops
  /\ NoteAll(c, When(seen = {} /\ \E r \in Drops : stops[r].sequence = 1, "late_pickup"))
  /\ UNCHANGED <<order, moneyVars, edits>>
  /\ Goto(c, "recalculate")

(* The sequence follows the largest one the call has seen. *)
CreateDrop(c) ==
  LET used == {saw[c].stops[r].sequence : r \in Rows} \cup {1}
      last == CHOOSE n \in used : \A m \in used : m <= n
  IN
  /\ Writing(c, "drop")
  /\ \E r \in Of("none") :
       stops' = [stops EXCEPT ![r] =
         [type |-> "DROP", dest |-> edit[c].arg, sequence |-> last + 1, priced |-> FALSE]]
  /\ NoteAll(c, {})
  /\ UNCHANGED <<order, moneyVars, edits>>
  /\ Goto(c, "recalculate")

-----------------------------------------------------------------------------
(* removeDestinationFromOrder *)

RemoveStop(c, r) ==
  /\ order.status = "PROGRESS"
  /\ stops[r].type \in {"PICKUP", "DROP"}
  /\ stops[r].type = "PICKUP" => Drops = {}
  /\ Begin(c, "remove", r)

DeleteStop(c) ==
  /\ Writing(c, "remove")
  /\ stops[edit[c].arg].type # "gone"
  /\ stops' = [stops EXCEPT ![edit[c].arg] = [Unused EXCEPT !.type = "gone"]]
  /\ NoteAll(c, {})
  /\ UNCHANGED <<order, moneyVars, edits>>
  /\ Goto(c, "list")

(* The remaining stops are read ... *)
ListStops(c) ==
  /\ at[c] = "list"
  /\ NoteAll(c, {})
  /\ UNCHANGED <<order, stops, moneyVars, edits>>
  /\ Goto(c, "resequence")

(* ... and numbered in the order of their sequences; the transaction fails  *)
(* if one of them is gone.                                                 *)
Resequence(c) ==
  LET s == saw[c].stops
      remaining == {r \in Rows : s[r].type \in {"PICKUP", "DROP"}}
  IN
  /\ at[c] = "resequence"
  /\ \A r \in remaining : stops[r].type # "gone"
  /\ \E index \in [remaining -> 1 .. Cardinality(remaining)] :
       /\ \A r, q \in remaining : s[r].sequence < s[q].sequence => index[r] < index[q]
       /\ \A r, q \in remaining : index[r] = index[q] => r = q
       /\ stops' = [r \in Rows |-> IF r \in remaining
                                     THEN [stops[r] EXCEPT !.sequence = index[r]]
                                     ELSE stops[r]]
  /\ NoteAll(c, {})
  /\ UNCHANGED <<order, moneyVars, edits>>
  /\ Goto(c, "recalculate")

-----------------------------------------------------------------------------
(* updateOrderDetails (a vehicle, a delivery type or a route that changes   *)
(* the price) and recalculateOrderPrice                                    *)

(* Mutant: an order that was placed may still be changed. *)
UpdateDetailsAnyStatus(c) ==
  Begin(c, "details", "none")

UpdateDetails(c) ==
  /\ order.status = "PROGRESS"
  /\ Begin(c, "details", "none")

WriteDetails(c) ==
  /\ Writing(c, "details")
  /\ NoteAll(c, {})
  /\ UNCHANGED <<order, stops, moneyVars, edits>>
  /\ Goto(c, "recalculate")

(* The order and its stops are read again, whatever its status is ... *)
Recalculate(c) ==
  /\ at[c] = "recalculate"
  /\ NoteAll(c, {})
  /\ UNCHANGED <<order, stops, moneyVars, edits>>
  /\ Goto(c, "reprice")

(* ... and the total becomes the price of the stops alone: a discount, the  *)
(* services and the fee are not looked at.  An order without a pickup or   *)
(* without drops costs nothing, and its payments keep their amounts.       *)
Reprice(c) ==
  LET s == saw[c].stops
      drops == {r \in Rows : s[r].type = "DROP"}
      complete == drops # {} /\ \E r \in Rows : s[r].type = "PICKUP"
  IN
  /\ at[c] = "reprice"
  /\ complete => \A r \in drops : stops[r].type # "gone"
  /\ order' = [order EXCEPT !.total = IF complete THEN Fare * Cardinality(drops) ELSE 0]
  /\ stops' = [r \in Rows |-> IF complete /\ r \in drops
                                THEN [stops[r] EXCEPT !.priced = TRUE]
                                ELSE stops[r]]
  /\ NoteAll(c, When(order.original # 0 \/ Extras(order) # order.discount, "frozen"))
  /\ End(c)
  /\ UNCHANGED <<moneyVars, edits>>

-----------------------------------------------------------------------------
(* reorderStops: any drops in any order, whatever the order's status is *)

ReorderStops(c, list) ==
  /\ Pickups # {}
  /\ DOMAIN list \subseteq Drops
  /\ Begin(c, "reorder", list)

WriteSequences(c) ==
  LET list == edit[c].arg
      seen == {r \in Rows : saw[c].stops[r].type = "PICKUP"}
  IN
  /\ Writing(c, "reorder")
  /\ \A r \in DOMAIN list : stops[r].type # "gone"
  /\ \E pickup \in seen :
       /\ stops[pickup].type # "gone"
       /\ stops' = [r \in Rows |->
            CASE r = pickup -> [stops[r] EXCEPT !.sequence = 1]
              [] r \in DOMAIN list -> [stops[r] EXCEPT !.sequence = list[r] + 1]
              [] OTHER -> stops[r]]
  /\ NoteAll(c, When(DOMAIN list # Drops, "partial_list"))
  /\ End(c)
  /\ UNCHANGED <<order, moneyVars, edits>>

-----------------------------------------------------------------------------
(* applyDiscount and removeDiscount *)

ApplyDiscount(c, with) ==
  /\ order.status = "PROGRESS"
  /\ "coins" \in with => order.coins = 0 /\ Base(order) >= Spend * CoinValue
  /\ "promo" \in with => order.promo = 0
  /\ Begin(c, "discount", with)

(* The coins are compared and taken in the transaction; the order is        *)
(* computed from the row read before it, services left out.                *)
WriteDiscount(c) ==
  LET o == saw[c].order
      spent == IF "coins" \in edit[c].arg THEN Spend ELSE 0
      promo == IF "promo" \in edit[c].arg THEN PromoValue ELSE 0
      discount == o.discount + spent * CoinValue + promo
  IN
  /\ Writing(c, "discount")
  /\ coins >= spent
  /\ coins' = coins - spent
  /\ order' = [order EXCEPT !.original = Base(o), !.discount = discount,
                            !.coins = @ + spent, !.promo = o.promo + promo,
                            !.total = AtLeast0(Base(o) - discount)]
  /\ NoteAll(c, When(o.services # {}, "bare_discount") \cup NoBase(o))
  /\ End(c)
  /\ UNCHANGED <<stops, charged, collect, fees, edits>>

RemoveDiscount(c, type) ==
  /\ order.status = "PROGRESS"
  /\ Begin(c, "undiscount", type)

(* Mutant: the coins stay on the order. *)
WriteRemovalKeepsCoins(c) ==
  LET o == saw[c].order
      left == IF edit[c].arg = "coins" THEN o.promo ELSE o.coins
  IN
  /\ Writing(c, "undiscount")
  /\ coins' = IF edit[c].arg = "coins" THEN coins + o.coins ELSE coins
  /\ order' = [order EXCEPT !.discount = left,
                            !.promo = IF edit[c].arg = "coins" THEN o.promo ELSE 0,
                            !.total = AtLeast0(o.original + Extras(o) - left)]
  /\ NoteAll(c, When(o.original = 0, "bare_removal")
                \cup When(order.coins # o.coins, "stale_removal"))
  /\ End(c)
  /\ UNCHANGED <<stops, charged, collect, fees, edits>>

(* What is left of the discount is the promo code, or the number of coins.  *)
WriteRemoval(c) ==
  LET o == saw[c].order
      left == IF edit[c].arg = "coins" THEN o.promo ELSE o.coins
  IN
  /\ Writing(c, "undiscount")
  /\ coins' = IF edit[c].arg = "coins" THEN coins + o.coins ELSE coins
  /\ order' = [order EXCEPT !.discount = left,
                            !.coins = IF edit[c].arg = "coins" THEN 0 ELSE o.coins,
                            !.promo = IF edit[c].arg = "coins" THEN o.promo ELSE 0,
                            !.total = AtLeast0(o.original + Extras(o) - left)]
  /\ NoteAll(c, When(o.original = 0, "bare_removal")
                \cup When(edit[c].arg = "promo" /\ o.coins * CoinValue # o.coins, "counted_coins")
                \cup When(order.coins # o.coins, "stale_removal"))
  /\ End(c)
  /\ UNCHANGED <<stops, charged, collect, fees, edits>>

-----------------------------------------------------------------------------
(* additionalService and removeAdditionalService; the list of services and  *)
(* their cost are written from the row that was read.                      *)

AddService(c, s) ==
  /\ order.status = "PROGRESS"
  /\ s \notin order.services
  /\ Begin(c, "service", s)

(* Mutant: the cost of the services the order already has is left out. *)
WriteServiceAlone(c) ==
  LET o == saw[c].order IN
  /\ Writing(c, "service")
  /\ order' = [order EXCEPT !.original = Base(o), !.services = o.services \cup {edit[c].arg},
                            !.total = AtLeast0(Base(o) + ServiceValue + o.fee - o.discount)]
  /\ NoteAll(c, {})
  /\ End(c)
  /\ UNCHANGED <<stops, moneyVars, edits>>

WriteService(c) ==
  LET o == saw[c].order
      more == o.services \cup {edit[c].arg}
  IN
  /\ Writing(c, "service")
  /\ order' = [order EXCEPT !.original = Base(o), !.services = more,
                            !.total = AtLeast0(Base(o) + Extras([o EXCEPT !.services = more])
                                               - o.discount)]
  /\ NoteAll(c, NoBase(o))
  /\ End(c)
  /\ UNCHANGED <<stops, moneyVars, edits>>

RemoveService(c, s) ==
  /\ order.status = "PROGRESS"
  /\ s \in order.services
  /\ Begin(c, "unservice", s)

WriteServiceRemoval(c) ==
  LET o == saw[c].order
      less == o.services \ {edit[c].arg}
  IN
  /\ Writing(c, "unservice")
  /\ order' = [order EXCEPT !.services = less,
                            !.total = AtLeast0(Base(o) + Extras([o EXCEPT !.services = less])
                                               - o.discount)]
  /\ NoteAll(c, NoBase(o))
  /\ End(c)
  /\ UNCHANGED <<stops, moneyVars, edits>>

-----------------------------------------------------------------------------
(* placeOrder, its price; prioritizing a placed order *)

(* collected: "SENDER" or "RECEIVER" for COD, "none" for an order paid at once *)
Place(c, collected) ==
  /\ order.status = "PROGRESS"
  /\ Pickups # {} /\ Drops # {}
  /\ Begin(c, "place", collected)

(* The total that was read is charged, or collected from the sender; the    *)
(* receivers are asked for the amounts of their own stops.                 *)
WritePlaced(c) ==
  LET o == saw[c].order
      s == saw[c].stops
      drops == {r \in Rows : s[r].type = "DROP"}
  IN
  /\ Writing(c, "place")
  /\ \A r \in drops : stops[r].type # "gone"
  /\ order' = [order EXCEPT !.status = "PENDING"]
  /\ charged' = charged + o.total
  /\ collect' = CASE edit[c].arg = "SENDER" -> o.total
                  [] edit[c].arg = "RECEIVER" -> Fare * Cardinality({r \in drops : s[r].priced})
                  [] OTHER -> -1
  /\ NoteAll(c, {})
  /\ End(c)
  /\ UNCHANGED <<stops, coins, fees, edits>>

Prioritize(c) ==
  /\ order.status = "PENDING"
  /\ order.fee = 0
  /\ Begin(c, "prioritize", "none")

(* The fee is paid with the transaction, from the wallet or a saved card. *)
WritePriority(c) ==
  LET o == saw[c].order IN
  /\ Writing(c, "prioritize")
  /\ order' = [order EXCEPT !.fee = Fee, !.original = Base(o), !.total = o.total + Fee]
  /\ fees' = fees + Fee
  /\ NoteAll(c, When(Base(o) + Extras(o) < o.discount, "below_zero") \cup NoBase(o))
  /\ End(c)
  /\ UNCHANGED <<stops, coins, charged, collect, edits>>

-----------------------------------------------------------------------------
(* The lists reorderStops may be given: drops and their places. *)
Lists ==
  {list \in UNION {[D -> 1 .. Cardinality(D)] : D \in SUBSET Rows \ {{}}} :
     \A r, q \in DOMAIN list : list[r] = list[q] => r = q}

Read(c) ==
  \/ AddPickup(c) \/ UpdateDetails(c) \/ Prioritize(c)
  \/ \E to \in Dests : AddDrop(c, to)
  \/ \E r \in Rows : RemoveStop(c, r)
  \/ \E list \in Lists : ReorderStops(c, list)
  \/ \E with \in SUBSET {"coins", "promo"} \ {{}} : ApplyDiscount(c, with)
  \/ \E type \in {"coins", "promo"} : RemoveDiscount(c, type)
  \/ \E s \in Services : AddService(c, s) \/ RemoveService(c, s)
  \/ \E collected \in {"SENDER", "RECEIVER", "none"} : Place(c, collected)

Write(c) ==
  \/ CreatePickup(c) \/ CreateDrop(c)
  \/ DeleteStop(c) \/ ListStops(c) \/ Resequence(c)
  \/ WriteDetails(c) \/ Recalculate(c) \/ Reprice(c) \/ WriteSequences(c)
  \/ WriteDiscount(c) \/ WriteRemoval(c)
  \/ WriteService(c) \/ WriteServiceRemoval(c)
  \/ WritePlaced(c) \/ WritePriority(c)
  \/ Fail(c)

Next == \E c \in Calls : Read(c) \/ Write(c)

Spec == Init /\ [][Next]_vars

-----------------------------------------------------------------------------
(* Properties *)

Quiet == \A c \in Calls : at[c] \in {"idle", "write"}

(* The stops of an order have different sequences, one of them is the       *)
(* pickup and no destination is served twice, whatever is added, removed   *)
(* and put in order, and between the steps of an edit too, unless edits    *)
(* overlap, only some of the drops are put in order, or the pickup is      *)
(* created when a removal has already given its sequence to a drop.        *)
StopsInOrder ==
  {"overlapped", "partial_list", "late_pickup"} \cap incidents = {}
  => /\ Cardinality(Pickups) <= 1
     /\ \A r, q \in Pickups \cup Drops : r # q =>
          /\ stops[r].sequence # stops[q].sequence
          /\ {r, q} \subseteq Drops => stops[r].dest # stops[q].dest

(* Coins are neither made nor lost: what the order holds and what the       *)
(* customer has left are what there was, also when edits overlap, unless a *)
(* discount is removed whose coins have changed since the order was read.  *)
CoinsConserved ==
  "stale_removal" \notin incidents => coins + order.coins = Coins

(* The total is the price of the stops, or the price at which it was        *)
(* frozen, with the services and the fee and without the discount ("total  *)
(* cost = originalCost + all additional fees + priority - discount"), and  *)
(* the discount is the value of the order's coins and its promo code, when *)
(* the edits come one after the other and none of them is of the kinds     *)
(* that leave a term out.                                                  *)
PriceExplained ==
  LET price == IF Pickups = {} THEN 0 ELSE Fare * Cardinality(Drops)
      base == IF order.original # 0 THEN order.original ELSE price
  IN
  /\ {"overlapped", "unpriced", "frozen", "bare_discount", "bare_removal", "counted_coins",
      "below_zero", "no_base"} \cap incidents = {}
  /\ Quiet
  => /\ order.total = AtLeast0(base + Extras(order) - order.discount)
     /\ order.discount = order.coins * CoinValue + order.promo

(* The price of a placed order is the one that was charged, and the fee     *)
(* that was paid for its priority: no edit changes it any more, unless one *)
(* overlaps the placement.  And what the rider collects on delivery is that *)
(* price from the sender, or from the receivers the price of their stops,   *)
(* which is the same only for an order that has neither discount nor       *)
(* services.                                                               *)
PlacedPriceStands ==
  /\ order.status = "PENDING" /\ "overlapped" \notin incidents
     => order.total = charged + fees
  /\ /\ collect >= 0 /\ Quiet
     /\ {"overlapped", "unpriced", "frozen", "no_base", "bare_removal"} \cap incidents = {}
     => /\ collect \in {charged, Fare * Cardinality(Drops)}
        /\ order.discount = 0 /\ order.services = {} => collect = charged
=============================================================================
