----------------------------- MODULE DraftProofs -----------------------------
(***************************************************************************)
(* Proofs about Draft, for every set of rows, services, calls and prices.  *)
(* Only applyDiscount and removeDiscount touch coins.  The first takes     *)
(* from the customer what it adds to the order, relatively; the second     *)
(* gives back what it read, and that is what the order holds unless the    *)
(* write leaves the incident "stale_removal".  Then come, on what each     *)
(* call has checked, the prices and the sequences of the stops.            *)
(***************************************************************************)
EXTENDS Draft, FiniteSetTheorems, WellFoundedInduction, TLAPS

(* An order has these columns, whatever is in them. *)
IsOrder(o) ==
  o = [status |-> o.status, total |-> o.total, original |-> o.original, discount |-> o.discount,
       coins |-> o.coins, promo |-> o.promo, services |-> o.services, fee |-> o.fee]

CoinsSeen ==
  /\ saw = [c \in Calls |-> saw[c]]
  /\ \A c \in Calls : saw[c].order.coins \in Int

DraftInv ==
  /\ IsOrder(order)
  /\ coins \in Int /\ order.coins \in Int
  /\ CoinsSeen
  /\ CoinsConserved

-----------------------------------------------------------------------------
LEMMA DraftInitInv == Init => DraftInv
<1> SUFFICES ASSUME Init PROVE DraftInv
  OBVIOUS
<1>1. IsOrder(order) /\ order.coins = 0
  BY DEF Init, NewOrder, IsOrder
<1>2. coins = Coins /\ Coins \in Int
  BY DraftAssumption DEF Init
<1>3. CoinsSeen
  BY DEF Init, CoinsSeen, Nothing, NewOrder
<1> QED
  BY <1>1, <1>2, <1>3 DEF DraftInv, CoinsConserved

(* What a call has read or written holds a number of coins. *)
LEMMA SeenStep ==
  ASSUME CoinsSeen, NEW c \in Calls, NEW o, NEW s, o.coins \in Int,
         saw' = [saw EXCEPT ![c] = [order |-> o, stops |-> s]]
  PROVE  CoinsSeen'
BY DEF CoinsSeen

LEMMA EndSeen ==
  ASSUME CoinsSeen, NEW c \in Calls, End(c)
  PROVE  CoinsSeen'
<1>1. saw' = [saw EXCEPT ![c] = [order |-> NewOrder, stops |-> [r \in Rows |-> Unused]]]
  BY DEF End, Nothing
<1>2. NewOrder.coins \in Int
  BY DEF NewOrder
<1> QED
  BY <1>1, <1>2, SeenStep

(* A step that leaves the coins alone. *)
LEMMA KeepsCoins ==
  ASSUME DraftInv, NEW c \in Calls, IsOrder(order'), UNCHANGED <<coins, order.coins>>,
         incidents \subseteq incidents',
         \/ End(c)
         \/ \E step : Goto(c, step)
         \/ saw' = [saw EXCEPT ![c] = [order |-> order, stops |-> stops]]
  PROVE  DraftInv'
<1>1. CoinsSeen'
  <2>1. CASE End(c)
    BY <2>1, EndSeen DEF DraftInv
  <2>2. CASE \E step : Goto(c, step)
    <3>1. saw' = [saw EXCEPT ![c] = [order |-> order', stops |-> stops']] /\ order'.coins \in Int
      BY <2>2 DEF Goto, DraftInv
    <3> QED
      BY <3>1, SeenStep DEF DraftInv
  <2>3. CASE saw' = [saw EXCEPT ![c] = [order |-> order, stops |-> stops]]
    BY <2>3, SeenStep DEF DraftInv
  <2> QED
    BY <2>1, <2>2, <2>3
<1> QED
  BY <1>1 DEF DraftInv, CoinsConserved

LEMMA ReadStep ==
  ASSUME DraftInv, NEW c \in Calls, Read(c)
  PROVE  DraftInv'
<1>1. PICK op, arg : Begin(c, op, arg)
  BY DEF Read, AddPickup, UpdateDetails, Prioritize, AddDrop, RemoveStop, ReorderStops, ApplyDiscount,
     RemoveDiscount, AddService, RemoveService, Place
<1> QED
  BY <1>1, KeepsCoins DEF Begin, moneyVars, DraftInv

(* The steps that write stops only. *)
LEMMA StopSteps ==
  ASSUME DraftInv, NEW c \in Calls,
         \/ CreatePickup(c) \/ CreateDrop(c) \/ DeleteStop(c) \/ ListStops(c) \/ Resequence(c)
         \/ WriteDetails(c) \/ Recalculate(c) \/ WriteSequences(c) \/ Fail(c)
  PROVE  DraftInv'
<1>1. UNCHANGED <<order, coins>> /\ incidents \subseteq incidents'
  BY DEF CreatePickup, CreateDrop, DeleteStop, ListStops, Resequence, WriteDetails, Recalculate,
     WriteSequences, Fail, NoteAll, moneyVars
<1>2. End(c) \/ \E step : Goto(c, step)
  BY DEF CreatePickup, CreateDrop, DeleteStop, ListStops, Resequence, WriteDetails, Recalculate,
     WriteSequences, Fail
<1> QED
  BY <1>1, <1>2, KeepsCoins DEF DraftInv

(* The steps that write the price, the services, the status or the fee. *)
LEMMA PriceSteps ==
  ASSUME DraftInv, NEW c \in Calls,
         Reprice(c) \/ WriteService(c) \/ WriteServiceRemoval(c) \/ WritePlaced(c) \/ WritePriority(c)
  PROVE  DraftInv'
<1>1. UNCHANGED coins /\ incidents \subseteq incidents' /\ End(c)
  BY DEF Reprice, WriteService, WriteServiceRemoval, WritePlaced, WritePriority, NoteAll, moneyVars
<1>2. IsOrder(order') /\ order'.coins = order.coins
  <2>0. IsOrder(order)
    BY DEF DraftInv
  <2>1. ASSUME NEW n, order' = [order EXCEPT !.total = n]
        PROVE  IsOrder(order') /\ order'.coins = order.coins
    BY <2>0, <2>1 DEF IsOrder
  <2>2. ASSUME NEW n, NEW m, NEW more, order' = [order EXCEPT !.original = n, !.services = more, !.total = m]
        PROVE  IsOrder(order') /\ order'.coins = order.coins
    BY <2>0, <2>2 DEF IsOrder
  <2>3. ASSUME NEW n, NEW less, order' = [order EXCEPT !.services = less, !.total = n]
        PROVE  IsOrder(order') /\ order'.coins = order.coins
    BY <2>0, <2>3 DEF IsOrder
  <2>4. ASSUME order' = [order EXCEPT !.status = "PENDING"]
        PROVE  IsOrder(order') /\ order'.coins = order.coins
    BY <2>0, <2>4 DEF IsOrder
  <2>5. ASSUME NEW f, NEW n, NEW m, order' = [order EXCEPT !.fee = f, !.original = n, !.total = m]
        PROVE  IsOrder(order') /\ order'.coins = order.coins
    BY <2>0, <2>5 DEF IsOrder
  <2>6. CASE Reprice(c)
    BY <2>1, <2>6 DEF Reprice
  <2>7. CASE WriteService(c)
    BY <2>2, <2>7 DEF WriteService
  <2>8. CASE WriteServiceRemoval(c)
    BY <2>3, <2>8 DEF WriteServiceRemoval
  <2>9. CASE WritePlaced(c)
    BY <2>4, <2>9 DEF WritePlaced
  <2>10. CASE WritePriority(c)
    BY <2>5, <2>10 DEF WritePriority
  <2> QED
    BY <2>6, <2>7, <2>8, <2>9, <2>10
<1> QED
  BY <1>1, <1>2, KeepsCoins

LEMMA DiscountStep ==
  ASSUME DraftInv, NEW c \in Calls, WriteDiscount(c)
  PROVE  DraftInv'
<1>1. PICK spent \in {Spend, 0} : \E n, d, p, t :
        /\ coins' = coins - spent
        /\ order' = [order EXCEPT !.original = n, !.discount = d, !.coins = @ + spent,
                                  !.promo = p, !.total = t]
  BY DEF WriteDiscount
<1>2. spent \in Int
  BY <1>1, DraftAssumption
<1>3. IsOrder(order') /\ order'.coins = order.coins + spent
  BY <1>1 DEF DraftInv, IsOrder
<1>4. CoinsSeen' /\ incidents \subseteq incidents'
  BY EndSeen DEF DraftInv, WriteDiscount, NoteAll
<1>5. Coins \in Int
  BY DraftAssumption
<1> QED
  BY <1>1, <1>2, <1>3, <1>4, <1>5 DEF DraftInv, CoinsConserved

LEMMA RemovalStep ==
  ASSUME DraftInv, NEW c \in Calls, WriteRemoval(c)
  PROVE  DraftInv'
<1> DEFINE o == saw[c].order
<1>1. PICK d, p, t :
        /\ coins' = IF edit[c].arg = "coins" THEN coins + o.coins ELSE coins
        /\ order' = [order EXCEPT !.discount = d,
                                  !.coins = IF edit[c].arg = "coins" THEN 0 ELSE o.coins,
                                  !.promo = p, !.total = t]
  BY DEF WriteRemoval
<1>2. o.coins \in Int /\ Coins \in Int
  BY DraftAssumption DEF DraftInv, CoinsSeen
<1>3. IsOrder(order') /\ order'.coins = IF edit[c].arg = "coins" THEN 0 ELSE o.coins
  BY <1>1 DEF DraftInv, IsOrder
<1>4. CoinsSeen' /\ incidents \subseteq incidents'
  BY EndSeen DEF DraftInv, WriteRemoval, NoteAll
<1>5. order.coins # o.coins => "stale_removal" \in incidents'
  BY DEF WriteRemoval, NoteAll, When
<1> QED
  BY <1>1, <1>2, <1>3, <1>4, <1>5 DEF DraftInv, CoinsConserved

LEMMA DraftStepInv == DraftInv /\ [Next]_vars => DraftInv'
<1> SUFFICES ASSUME DraftInv, [Next]_vars
             PROVE  DraftInv'
  OBVIOUS
<1>1. CASE UNCHANGED vars
  BY <1>1 DEF vars, moneyVars, callVars, DraftInv, CoinsSeen, CoinsConserved
<1>2. ASSUME NEW c \in Calls, Read(c) \/ Write(c)
      PROVE  DraftInv'
  BY <1>2, ReadStep, StopSteps, PriceSteps, DiscountStep, RemovalStep DEF Write
<1> QED
  BY <1>1, <1>2 DEF Next

(* Coins are neither made nor lost by the discounts of an order, however its *)
(* edits overlap, unless a discount is removed whose coins have changed      *)
(* since the order was read.                                                 *)
THEOREM DiscountsConserveCoins == Spec => []CoinsConserved
<1>1. DraftInv => CoinsConserved
  BY DEF DraftInv
<1> QED
  BY <1>1, DraftInitInv, DraftStepInv, PTL DEF Spec

-----------------------------------------------------------------------------
(* Edits one after the other.  A call that writes without noting           *)
(* "overlapped" writes what it computed from the order as it is; so what   *)
(* it checked when it began still holds, and what is proved below is about *)
(* the order alone.                                                        *)

InOrder == "overlapped" \notin incidents

IsStop(s) == s = [type |-> s.type, dest |-> s.dest, sequence |-> s.sequence, priced |-> s.priced]

CallsAre ==
  /\ at = [c \in Calls |-> at[c]]
  /\ edit = [c \in Calls |-> edit[c]]
  /\ saw = [c \in Calls |-> saw[c]]

(* What a call has checked on what it read. *)
Checked(c) ==
  /\ edit[c].op \notin {"reorder", "prioritize"} => saw[c].order.status = "PROGRESS"
  /\ edit[c].op = "prioritize" => saw[c].order.status = "PENDING" /\ saw[c].order.fee = 0
  /\ at[c] # "write" => edit[c].op \notin {"reorder", "prioritize"}
  /\ at[c] = "write" /\ edit[c].op = "place" => \E r \in Rows : saw[c].stops[r].type = "PICKUP"
  /\ at[c] = "write" /\ edit[c].op = "drop" =>
       \A r \in Rows : saw[c].stops[r].type = "DROP" => saw[c].stops[r].dest # edit[c].arg
  /\ at[c] = "write" /\ edit[c].op = "reorder" => edit[c].arg \in Lists
  /\ at[c] = "write" /\ edit[c].op = "undiscount" => edit[c].arg \in {"coins", "promo"}

CallsChecked == \A c \in Calls : at[c] # "idle" => Checked(c)

OrderTypes ==
  /\ IsOrder(order)
  /\ order.status \in {"PROGRESS", "PENDING"}
  /\ order.total \in Int /\ order.original \in Int /\ order.discount \in Int
  /\ order.coins \in Int /\ order.promo \in Int /\ order.fee \in Int
  /\ IsFiniteSet(order.services)

StopTypes ==
  /\ stops = [r \in Rows |-> stops[r]]
  /\ \A r \in Rows : IsStop(stops[r])

MoneyTypes == charged \in Int /\ fees \in Int /\ collect \in Int

(* Nothing is paid before the order is placed; its price is, afterwards. *)
Paid ==
  /\ order.status = "PROGRESS" => order.fee = 0 /\ charged = 0 /\ fees = 0 /\ collect = -1
  /\ order.status = "PENDING" => order.total = charged + fees

EditsInv ==
  /\ CallsAre
  /\ InOrder => CallsChecked /\ OrderTypes /\ StopTypes /\ MoneyTypes /\ Paid

-----------------------------------------------------------------------------
LEMMA Numbers ==
  /\ Fare \in Nat /\ ServiceValue \in Nat /\ PromoValue \in Nat /\ Fee \in Nat /\ Spend \in Nat
  /\ CoinValue \in Nat /\ Coins \in Nat /\ Fee # 0
  /\ IsFiniteSet(Rows)
BY DraftAssumption

LEMMA DropsFinite ==
  /\ IsFiniteSet(Drops) /\ Cardinality(Drops) \in Nat
BY Numbers, FS_Subset, FS_CardinalityType DEF Drops, Of

(* A call that notes nothing wrong read the order as it is. *)
LEMMA Fresh ==
  ASSUME NEW c \in Calls, NEW S, NoteAll(c, S), InOrder'
  PROVE  /\ InOrder
         /\ saw[c].order = order /\ saw[c].stops = stops
         /\ incidents \subseteq incidents' /\ S \subseteq incidents'
BY DEF NoteAll, Changed, When, InOrder

LEMMA Totals ==
  ASSUME OrderTypes
  PROVE  /\ Base(order) \in Int /\ Extras(order) \in Int
         /\ \A n \in Int : AtLeast0(n) \in Int
         /\ \A S : IsFiniteSet(S) => /\ Cardinality(S) \in Nat
                                     /\ Extras([order EXCEPT !.services = S]) = ServiceValue * Cardinality(S) + order.fee
                                     /\ ServiceValue * Cardinality(S) + order.fee \in Int
<1>1. \A S : IsFiniteSet(S) => Cardinality(S) \in Nat
  BY FS_CardinalityType
<1>2. \A S : [order EXCEPT !.services = S].services = S /\ [order EXCEPT !.services = S].fee = order.fee
  BY DEF OrderTypes, IsOrder
<1>3. \A n \in Int : AtLeast0(n) \in Int
  BY DEF AtLeast0
<1>4. ASSUME NEW S, IsFiniteSet(S)
      PROVE  ServiceValue * Cardinality(S) + order.fee \in Int
  BY <1>1, <1>4, Numbers DEF OrderTypes
<1>5. \A S : IsFiniteSet(S) => Extras([order EXCEPT !.services = S]) = ServiceValue * Cardinality(S) + order.fee
  BY <1>2 DEF Extras
<1>6. Base(order) \in Int
  BY DEF Base, OrderTypes
<1>7. Extras(order) \in Int
  BY <1>4 DEF Extras, OrderTypes
<1> QED
  BY <1>1, <1>3, <1>4, <1>5, <1>6, <1>7

(* What the writes of the order make of it, when edits are in order. *)
LEMMA RepriceWrites ==
  ASSUME OrderTypes, NEW c \in Calls, Reprice(c), InOrder'
  PROVE  LET complete == Drops # {} /\ Pickups # {} IN
         /\ order' = [status |-> order.status,
                      total |-> IF complete THEN Fare * Cardinality(Drops) ELSE 0,
                      original |-> order.original, discount |-> order.discount,
                      coins |-> order.coins, promo |-> order.promo,
                      services |-> order.services, fee |-> order.fee]
         /\ stops' = [r \in Rows |-> IF complete /\ r \in Drops
                                       THEN [stops[r] EXCEPT !.priced = TRUE] ELSE stops[r]]
<1> DEFINE s == saw[c].stops
           drops == {r \in Rows : s[r].type = "DROP"}
           complete == drops # {} /\ \E r \in Rows : s[r].type = "PICKUP"
<1>1. saw[c].stops = stops
  BY Fresh DEF Reprice
<1>2. drops = Drops /\ (complete <=> Drops # {} /\ Pickups # {})
  BY <1>1 DEF Drops, Pickups, Of
<1>3. /\ order' = [order EXCEPT !.total = IF complete THEN Fare * Cardinality(drops) ELSE 0]
      /\ stops' = [r \in Rows |-> IF complete /\ r \in drops
                                    THEN [stops[r] EXCEPT !.priced = TRUE] ELSE stops[r]]
  BY DEF Reprice
<1> HIDE DEF drops, complete
<1> QED
  BY <1>2, <1>3 DEF OrderTypes, IsOrder

LEMMA DiscountWrites ==
  ASSUME OrderTypes, NEW c \in Calls, WriteDiscount(c), InOrder'
  PROVE  \E spent, promo \in Nat :
           LET discount == order.discount + spent * CoinValue + promo IN
           order' = [status |-> order.status, total |-> AtLeast0(Base(order) - discount),
                     original |-> Base(order), discount |-> discount,
                     coins |-> order.coins + spent, promo |-> order.promo + promo,
                     services |-> order.services, fee |-> order.fee]
<1> DEFINE spent == IF "coins" \in edit[c].arg THEN Spend ELSE 0
           promo == IF "promo" \in edit[c].arg THEN PromoValue ELSE 0
           discount == order.discount + spent * CoinValue + promo
<1>1. saw[c].order = order
  BY Fresh DEF WriteDiscount
<1>2. order' = [order EXCEPT !.original = Base(order), !.discount = discount,
                             !.coins = @ + spent, !.promo = order.promo + promo,
                             !.total = AtLeast0(Base(order) - discount)]
  BY <1>1 DEF WriteDiscount
<1>3. spent \in Nat /\ promo \in Nat
  BY Numbers
<1> HIDE DEF spent, promo
<1>4. order' = [status |-> order.status, total |-> AtLeast0(Base(order) - discount),
                original |-> Base(order), discount |-> discount,
                coins |-> order.coins + spent, promo |-> order.promo + promo,
                services |-> order.services, fee |-> order.fee]
  BY <1>2 DEF OrderTypes, IsOrder
<1> QED
  BY <1>3, <1>4

LEMMA RemovalWrites ==
  ASSUME OrderTypes, NEW c \in Calls, WriteRemoval(c), InOrder', edit[c].arg \in {"coins", "promo"}
  PROVE  \/ order' = [status |-> order.status,
                      total |-> AtLeast0(order.original + Extras(order) - order.promo),
                      original |-> order.original, discount |-> order.promo,
                      coins |-> 0, promo |-> order.promo,
                      services |-> order.services, fee |-> order.fee]
         \/ /\ order' = [status |-> order.status,
                         total |-> AtLeast0(order.original + Extras(order) - order.coins),
                         original |-> order.original, discount |-> order.coins,
                         coins |-> order.coins, promo |-> 0,
                         services |-> order.services, fee |-> order.fee]
            /\ order.coins * CoinValue # order.coins => "counted_coins" \in incidents'
<1> DEFINE left == IF edit[c].arg = "coins" THEN order.promo ELSE order.coins
<1>1. saw[c].order = order
  BY Fresh DEF WriteRemoval
<1>2. order' = [order EXCEPT !.discount = left,
                             !.coins = IF edit[c].arg = "coins" THEN 0 ELSE order.coins,
                             !.promo = IF edit[c].arg = "coins" THEN order.promo ELSE 0,
                             !.total = AtLeast0(order.original + Extras(order) - left)]
  BY <1>1 DEF WriteRemoval
<1>3. edit[c].arg = "promo" /\ order.coins * CoinValue # order.coins => "counted_coins" \in incidents'
  BY <1>1 DEF WriteRemoval, NoteAll, When
<1>5. CASE edit[c].arg = "coins"
  BY <1>2, <1>5 DEF OrderTypes, IsOrder
<1>6. CASE edit[c].arg # "coins"
  BY <1>2, <1>3, <1>6 DEF OrderTypes, IsOrder
<1> QED
  BY <1>5, <1>6

LEMMA ServiceWrites ==
  ASSUME OrderTypes, NEW c \in Calls, WriteService(c), InOrder'
  PROVE  LET more == order.services \cup {edit[c].arg} IN
         order' = [status |-> order.status,
                   total |-> AtLeast0(Base(order) + (ServiceValue * Cardinality(more) + order.fee) - order.discount),
                   original |-> Base(order), discount |-> order.discount,
                   coins |-> order.coins, promo |-> order.promo, services |-> more, fee |-> order.fee]
<1> DEFINE more == order.services \cup {edit[c].arg}
<1>1. saw[c].order = order
  BY Fresh DEF WriteService
<1>2. IsFiniteSet(more)
  BY FS_AddElement DEF OrderTypes
<1>3. order' = [order EXCEPT !.original = Base(order), !.services = more,
                             !.total = AtLeast0(Base(order) + Extras([order EXCEPT !.services = more])
                                                - order.discount)]
  BY <1>1 DEF WriteService
<1> HIDE DEF more
<1>4. Extras([order EXCEPT !.services = more]) = ServiceValue * Cardinality(more) + order.fee
  BY <1>2, Totals
<1> QED
  BY <1>3, <1>4 DEF OrderTypes, IsOrder, more

LEMMA ServiceRemovalWrites ==
  ASSUME OrderTypes, NEW c \in Calls, WriteServiceRemoval(c), InOrder'
  PROVE  LET less == order.services \ {edit[c].arg} IN
         order' = [status |-> order.status,
                   total |-> AtLeast0(Base(order) + (ServiceValue * Cardinality(less) + order.fee) - order.discount),
                   original |-> order.original, discount |-> order.discount,
                   coins |-> order.coins, promo |-> order.promo, services |-> less, fee |-> order.fee]
<1> DEFINE less == order.services \ {edit[c].arg}
<1>1. saw[c].order = order
  BY Fresh DEF WriteServiceRemoval
<1>2. IsFiniteSet(less)
  BY FS_RemoveElement DEF OrderTypes
<1>3. order' = [order EXCEPT !.services = less,
                             !.total = AtLeast0(Base(order) + Extras([order EXCEPT !.services = less])
                                                - order.discount)]
  BY <1>1 DEF WriteServiceRemoval
<1> HIDE DEF less
<1>4. Extras([order EXCEPT !.services = less]) = ServiceValue * Cardinality(less) + order.fee
  BY <1>2, Totals
<1> QED
  BY <1>3, <1>4 DEF OrderTypes, IsOrder, less

LEMMA PlacedWrites ==
  ASSUME OrderTypes, NEW c \in Calls, WritePlaced(c), InOrder'
  PROVE  /\ order' = [status |-> "PENDING", total |-> order.total, original |-> order.original,
                      discount |-> order.discount, coins |-> order.coins, promo |-> order.promo,
                      services |-> order.services, fee |-> order.fee]
         /\ charged' = charged + order.total
         /\ collect' \in {order.total, Fare * Cardinality({r \in Drops : stops[r].priced}), -1}
<1>1. saw[c].order = order /\ saw[c].stops = stops
  BY Fresh DEF WritePlaced
<1>2. {r \in {q \in Rows : stops[q].type = "DROP"} : stops[r].priced} = {r \in Drops : stops[r].priced}
  BY DEF Drops, Of
<1>3. order' = [order EXCEPT !.status = "PENDING"] /\ charged' = charged + order.total
  BY <1>1 DEF WritePlaced
<1>4. collect' \in {order.total, Fare * Cardinality({r \in {q \in Rows : stops[q].type = "DROP"} : stops[r].priced}), -1}
  BY <1>1 DEF WritePlaced
<1> QED
  BY <1>2, <1>3, <1>4 DEF OrderTypes, IsOrder

LEMMA PriorityWrites ==
  ASSUME OrderTypes, NEW c \in Calls, WritePriority(c), InOrder'
  PROVE  /\ order' = [status |-> order.status, total |-> order.total + Fee, original |-> Base(order),
                      discount |-> order.discount, coins |-> order.coins, promo |-> order.promo,
                      services |-> order.services, fee |-> Fee]
         /\ fees' = fees + Fee
         /\ Base(order) + Extras(order) < order.discount => "below_zero" \in incidents'
<1>1. saw[c].order = order
  BY Fresh DEF WritePriority
<1>2. order' = [order EXCEPT !.fee = Fee, !.original = Base(order), !.total = order.total + Fee]
  BY <1>1 DEF WritePriority
<1>3. Base(order) + Extras(order) < order.discount => "below_zero" \in incidents'
  BY <1>1 DEF WritePriority, NoteAll, When
<1> QED
  BY <1>2, <1>3 DEF OrderTypes, IsOrder, WritePriority

-----------------------------------------------------------------------------
LEMMA NewStops ==
  /\ [Unused EXCEPT !.type = "PICKUP", !.sequence = 1]
     = [type |-> "PICKUP", dest |-> "none", sequence |-> 1, priced |-> FALSE]
  /\ [Unused EXCEPT !.type = "gone"]
     = [type |-> "gone", dest |-> "none", sequence |-> 0, priced |-> FALSE]
<1>1. ASSUME NEW s, s = [Unused EXCEPT !.type = "PICKUP", !.sequence = 1]
      PROVE  s = [type |-> "PICKUP", dest |-> "none", sequence |-> 1, priced |-> FALSE]
  BY <1>1 DEF Unused
<1>2. ASSUME NEW s, s = [Unused EXCEPT !.type = "gone"]
      PROVE  s = [type |-> "gone", dest |-> "none", sequence |-> 0, priced |-> FALSE]
  BY <1>2 DEF Unused
<1> QED
  BY <1>1, <1>2

LEMMA EditsInit == Init => EditsInv
<1> SUFFICES ASSUME Init PROVE EditsInv
  OBVIOUS
<1>1. CallsAre /\ CallsChecked
  BY DEF Init, CallsAre, CallsChecked
<1>2. OrderTypes /\ order.status = "PROGRESS" /\ order.fee = 0
  <2>1. order = [status |-> "PROGRESS", total |-> order.total, original |-> 0, discount |-> 0,
                 coins |-> 0, promo |-> 0, services |-> {}, fee |-> 0] /\ order.total \in {0, Fare}
    BY DEF Init, NewOrder
  <2> QED
    BY <2>1, Numbers, FS_EmptySet DEF OrderTypes, IsOrder
<1>3. StopTypes
  <2>1. IsStop(Unused) /\ IsStop([Unused EXCEPT !.type = "PICKUP", !.sequence = 1])
    BY NewStops DEF IsStop, Unused
  <2>2. \A to : IsStop([type |-> "DROP", dest |-> to, sequence |-> 2, priced |-> TRUE])
    BY DEF IsStop
  <2>3. CASE stops = [r \in Rows |-> Unused]
    BY <2>1, <2>3 DEF StopTypes
  <2>4. ASSUME NEW p \in Rows, NEW d \in Rows, NEW to,
               stops = [r \in Rows |->
                 CASE r = p -> [Unused EXCEPT !.type = "PICKUP", !.sequence = 1]
                   [] r = d -> [type |-> "DROP", dest |-> to, sequence |-> 2, priced |-> TRUE]
                   [] OTHER -> Unused]
        PROVE  StopTypes
    BY <2>1, <2>2, <2>4 DEF StopTypes
  <2> QED
    BY <2>3, <2>4 DEF Init
<1> QED
  BY <1>1, <1>2, <1>3 DEF Init, EditsInv, MoneyTypes, Paid

(* An edit begins, and has checked what it read. *)
BeginsChecked(c) ==
  \E op, arg :
    /\ Begin(c, op, arg)
    /\ op \notin {"reorder", "prioritize"} => order.status = "PROGRESS"
    /\ op = "prioritize" => order.status = "PENDING" /\ order.fee = 0
    /\ op = "place" => \E r \in Rows : stops[r].type = "PICKUP"
    /\ op = "drop" => \A r \in Rows : stops[r].type = "DROP" => stops[r].dest # arg
    /\ op = "reorder" => arg \in Lists
    /\ op = "undiscount" => arg \in {"coins", "promo"}

LEMMA ReadChecks ==
  ASSUME NEW c \in Calls, Read(c)
  PROVE  BeginsChecked(c)
<1> USE DEF BeginsChecked
<1>1. CASE AddPickup(c)
  BY <1>1 DEF AddPickup
<1>2. CASE UpdateDetails(c)
  BY <1>2 DEF UpdateDetails
<1>3. CASE Prioritize(c)
  BY <1>3 DEF Prioritize
<1>4. ASSUME NEW to \in Dests, AddDrop(c, to) PROVE BeginsChecked(c)
  BY <1>4 DEF AddDrop, Drops, Of
<1>5. ASSUME NEW r \in Rows, RemoveStop(c, r) PROVE BeginsChecked(c)
  BY <1>5 DEF RemoveStop
<1>6. ASSUME NEW l \in Lists, ReorderStops(c, l) PROVE BeginsChecked(c)
  BY <1>6 DEF ReorderStops
<1>7. ASSUME NEW with, ApplyDiscount(c, with) PROVE BeginsChecked(c)
  BY <1>7 DEF ApplyDiscount
<1>8. ASSUME NEW type \in {"coins", "promo"}, RemoveDiscount(c, type) PROVE BeginsChecked(c)
  BY <1>8 DEF RemoveDiscount
<1>9. ASSUME NEW s \in Services, AddService(c, s) \/ RemoveService(c, s) PROVE BeginsChecked(c)
  BY <1>9 DEF AddService, RemoveService
<1>10. ASSUME NEW collected, Place(c, collected) PROVE BeginsChecked(c)
  BY <1>10 DEF Place, Pickups, Of
<1> HIDE DEF BeginsChecked
<1> QED
  BY <1>1, <1>2, <1>3, <1>4, <1>5, <1>6, <1>7, <1>8, <1>9, <1>10 DEF Read

LEMMA EditsBegin ==
  ASSUME EditsInv, NEW c \in Calls, Read(c)
  PROVE  EditsInv'
<1>1. PICK op, arg :
        /\ Begin(c, op, arg)
        /\ op \notin {"reorder", "prioritize"} => order.status = "PROGRESS"
        /\ op = "prioritize" => order.status = "PENDING" /\ order.fee = 0
        /\ op = "place" => \E r \in Rows : stops[r].type = "PICKUP"
        /\ op = "drop" => \A r \in Rows : stops[r].type = "DROP" => stops[r].dest # arg
        /\ op = "reorder" => arg \in Lists
        /\ op = "undiscount" => arg \in {"coins", "promo"}
  BY ReadChecks DEF BeginsChecked
<1>2. UNCHANGED <<order, stops, charged, collect, fees, incidents>>
  BY <1>1 DEF Begin, moneyVars
<1>3. CallsAre'
  BY <1>1 DEF EditsInv, CallsAre, Begin
<1>4. ASSUME CallsChecked PROVE CallsChecked'
  <2>1. at'[c] = "write" /\ edit'[c] = [op |-> op, arg |-> arg] /\ saw'[c] = [order |-> order, stops |-> stops]
    BY <1>1 DEF EditsInv, CallsAre, Begin
  <2>2. Checked(c)'
    BY <1>1, <2>1 DEF Checked
  <2>3. \A d \in Calls \ {c} : at'[d] = at[d] /\ edit'[d] = edit[d] /\ saw'[d] = saw[d]
    BY <1>1 DEF EditsInv, CallsAre, Begin
  <2> QED
    BY <1>4, <2>2, <2>3 DEF CallsChecked, Checked
<1> QED
  BY <1>2, <1>3, <1>4 DEF EditsInv, InOrder, OrderTypes, StopTypes, MoneyTypes, Paid

(* An edit ends. *)
LEMMA EditsEnd ==
  ASSUME EditsInv, NEW c \in Calls, End(c), incidents \subseteq incidents',
         InOrder' => OrderTypes' /\ StopTypes' /\ MoneyTypes' /\ Paid'
  PROVE  EditsInv'
<1>1. CallsAre'
  BY DEF EditsInv, CallsAre, End
<1>2. ASSUME CallsChecked PROVE CallsChecked'
  BY <1>2 DEF EditsInv, CallsAre, CallsChecked, Checked, End
<1>3. InOrder' => InOrder
  BY DEF InOrder
<1> QED
  BY <1>1, <1>2, <1>3 DEF EditsInv

(* An edit goes on from what it has written; the order is left alone. *)
LEMMA EditsGoOn ==
  ASSUME EditsInv, NEW c \in Calls, NEW S, NoteAll(c, S), at[c] # "idle",
         NEW step \in {"recalculate", "list", "resequence", "reprice"}, Goto(c, step),
         edit[c].op \notin {"reorder", "prioritize"} \/ at[c] # "write",
         UNCHANGED <<order, charged, collect, fees>>,
         InOrder' => StopTypes'
  PROVE  EditsInv'
<1>1. CallsAre'
  BY DEF EditsInv, CallsAre, Goto
<1>2. ASSUME InOrder' PROVE CallsChecked /\ CallsChecked'
  <2>1. CallsChecked /\ saw[c].order = order
    BY <1>2, Fresh DEF EditsInv
  <2>2. at'[c] = step /\ edit' = edit /\ saw'[c].order = order
    BY DEF EditsInv, CallsAre, Goto
  <2>3. Checked(c)'
    BY <2>1, <2>2 DEF CallsChecked, Checked
  <2>4. \A d \in Calls \ {c} : at'[d] = at[d] /\ edit'[d] = edit[d] /\ saw'[d] = saw[d]
    BY DEF EditsInv, CallsAre, Goto
  <2> QED
    BY <2>1, <2>3, <2>4 DEF CallsChecked, Checked
<1>3. InOrder' => InOrder
  BY Fresh
<1> QED
  BY <1>1, <1>2, <1>3 DEF EditsInv, OrderTypes, MoneyTypes, Paid

(* The steps that write stops keep their columns. *)
LEMMA StopsTyped ==
  ASSUME StopTypes, NEW c \in Calls,
         \/ CreatePickup(c) \/ CreateDrop(c) \/ DeleteStop(c) \/ ListStops(c) \/ Resequence(c)
         \/ WriteDetails(c) \/ Recalculate(c) \/ WriteSequences(c) \/ Reprice(c)
  PROVE  StopTypes'
<1>1. CASE CreatePickup(c)
  <2>1. IsStop([Unused EXCEPT !.type = "PICKUP", !.sequence = 1])
    BY NewStops DEF IsStop
  <2> QED
    BY <1>1, <2>1 DEF CreatePickup, StopTypes
<1>2. CASE CreateDrop(c)
  <2>1. PICK r, n : stops' = [stops EXCEPT ![r] = [type |-> "DROP", dest |-> edit[c].arg, sequence |-> n, priced |-> FALSE]]
    BY <1>2 DEF CreateDrop
  <2>2. IsStop([type |-> "DROP", dest |-> edit[c].arg, sequence |-> n, priced |-> FALSE])
    BY DEF IsStop
  <2> QED
    BY <2>1, <2>2 DEF StopTypes
<1>3. CASE DeleteStop(c)
  <2>1. IsStop([Unused EXCEPT !.type = "gone"])
    BY NewStops DEF IsStop
  <2> QED
    BY <1>3, <2>1 DEF DeleteStop, StopTypes
<1>4. CASE ListStops(c) \/ WriteDetails(c) \/ Recalculate(c)
  BY <1>4 DEF ListStops, WriteDetails, Recalculate, StopTypes
<1>5. \A r \in Rows : \A n : IsStop([stops[r] EXCEPT !.sequence = n]) /\ IsStop([stops[r] EXCEPT !.priced = n])
  BY DEF StopTypes, IsStop
<1>6. CASE Resequence(c)
  <2> DEFINE remaining == {r \in Rows : saw[c].stops[r].type \in {"PICKUP", "DROP"}}
  <2>1. PICK index \in [remaining -> 1 .. Cardinality(remaining)] :
          stops' = [r \in Rows |-> IF r \in remaining
                                     THEN [stops[r] EXCEPT !.sequence = index[r]]
                                     ELSE stops[r]]
    BY <1>6 DEF Resequence
  <2> HIDE DEF remaining
  <2> QED
    BY <1>5, <2>1 DEF StopTypes
<1>7. CASE WriteSequences(c)
  <2>1. PICK pickup : stops' = [r \in Rows |->
            CASE r = pickup -> [stops[r] EXCEPT !.sequence = 1]
              [] r \in DOMAIN edit[c].arg -> [stops[r] EXCEPT !.sequence = edit[c].arg[r] + 1]
              [] OTHER -> stops[r]]
    BY <1>7 DEF WriteSequences
  <2>2. \A r \in Rows : IsStop(stops'[r])
    BY <1>5, <2>1 DEF StopTypes
  <2> QED
    BY <2>1, <2>2 DEF StopTypes
<1>8. CASE Reprice(c)
  <2>1. PICK drops : stops' = [r \in Rows |-> IF r \in drops THEN [stops[r] EXCEPT !.priced = TRUE] ELSE stops[r]]
    <3> DEFINE drops == {r \in Rows : saw[c].stops[r].type = "DROP"}
               complete == drops # {} /\ \E r \in Rows : saw[c].stops[r].type = "PICKUP"
    <3>1. stops' = [r \in Rows |-> IF r \in {q \in drops : complete} THEN [stops[r] EXCEPT !.priced = TRUE] ELSE stops[r]]
      BY <1>8 DEF Reprice
    <3> QED
      BY <3>1
  <2> QED
    BY <1>5, <2>1 DEF StopTypes
<1> QED
  BY <1>1, <1>2, <1>3, <1>4, <1>6, <1>7, <1>8

LEMMA EditsStop ==
  ASSUME EditsInv, NEW c \in Calls,
         \/ CreatePickup(c) \/ CreateDrop(c) \/ DeleteStop(c) \/ ListStops(c) \/ Resequence(c)
         \/ WriteDetails(c) \/ Recalculate(c)
  PROVE  EditsInv'
<1>1. UNCHANGED <<order, charged, collect, fees>> /\ at[c] # "idle"
  BY DEF CreatePickup, CreateDrop, DeleteStop, ListStops, Resequence, WriteDetails, Recalculate, moneyVars, Writing
<1>2. PICK S : NoteAll(c, S)
  BY DEF CreatePickup, CreateDrop, DeleteStop, ListStops, Resequence, WriteDetails, Recalculate
<1>3. \E step \in {"recalculate", "list", "resequence", "reprice"} : Goto(c, step)
  BY DEF CreatePickup, CreateDrop, DeleteStop, ListStops, Resequence, WriteDetails, Recalculate
<1>4. edit[c].op \notin {"reorder", "prioritize"} \/ at[c] # "write"
  BY DEF CreatePickup, CreateDrop, DeleteStop, ListStops, Resequence, WriteDetails, Recalculate, Writing
<1>5. InOrder' => StopTypes
  BY <1>2, Fresh DEF EditsInv
<1> QED
  BY <1>1, <1>2, <1>3, <1>4, <1>5, StopsTyped, EditsGoOn

LEMMA EditsFail ==
  ASSUME EditsInv, NEW c \in Calls, Fail(c)
  PROVE  EditsInv'
<1>1. UNCHANGED <<order, stops, charged, collect, fees>> /\ incidents \subseteq incidents' /\ End(c)
  BY DEF Fail, moneyVars
<1>2. InOrder' => InOrder
  BY <1>1 DEF InOrder
<1>3. InOrder' => OrderTypes' /\ StopTypes' /\ MoneyTypes' /\ Paid'
  BY <1>1, <1>2 DEF EditsInv, OrderTypes, StopTypes, MoneyTypes, Paid
<1> QED
  BY <1>1, <1>3, EditsEnd

(* An edit other than reorder and prioritize that writes in order, writes an order that is not placed. *)
LEMMA NotPlaced ==
  ASSUME EditsInv, NEW c \in Calls, NEW S, NoteAll(c, S), InOrder', at[c] # "idle",
         edit[c].op \notin {"reorder", "prioritize"} \/ at[c] # "write"
  PROVE  order.status = "PROGRESS"
BY Fresh DEF EditsInv, CallsChecked, Checked

LEMMA EditsWrite ==
  ASSUME EditsInv, NEW c \in Calls,
         \/ Reprice(c) \/ WriteSequences(c) \/ WriteDiscount(c) \/ WriteRemoval(c)
         \/ WriteService(c) \/ WriteServiceRemoval(c) \/ WritePlaced(c) \/ WritePriority(c)
  PROVE  EditsInv'
<1>1. PICK S : NoteAll(c, S)
  BY DEF Reprice, WriteSequences, WriteDiscount, WriteRemoval, WriteService, WriteServiceRemoval,
     WritePlaced, WritePriority
<1>2. End(c) /\ incidents \subseteq incidents' /\ at[c] # "idle"
  BY <1>1 DEF Reprice, WriteSequences, WriteDiscount, WriteRemoval, WriteService, WriteServiceRemoval,
     WritePlaced, WritePriority, NoteAll, Writing
<1> SUFFICES ASSUME InOrder' PROVE OrderTypes' /\ StopTypes' /\ MoneyTypes' /\ Paid'
  BY <1>2, EditsEnd
<1>3. CallsChecked /\ OrderTypes /\ StopTypes /\ MoneyTypes /\ Paid /\ saw[c].order = order /\ saw[c].stops = stops
  BY <1>1, Fresh DEF EditsInv
<1>4. Base(order) \in Int /\ Extras(order) \in Int /\ \A n \in Int : AtLeast0(n) \in Int
  BY <1>3, Totals
<1>5. Cardinality(Drops) \in Nat /\ Fare * Cardinality(Drops) \in Nat
  BY DropsFinite, Numbers
<1>6. ~WritePriority(c) /\ ~WriteSequences(c) => order.status = "PROGRESS"
  <2>1. ~WritePriority(c) /\ ~WriteSequences(c) => edit[c].op \notin {"reorder", "prioritize"} \/ at[c] # "write"
    BY DEF Reprice, WriteDiscount, WriteRemoval, WriteService, WriteServiceRemoval, WritePlaced, Writing
  <2> QED
    BY <1>1, <1>2, <2>1, NotPlaced
<1>7. CASE Reprice(c)
  <2>1. OrderTypes' /\ UNCHANGED <<order.status, order.fee>>
    BY <1>3, <1>5, <1>7, RepriceWrites DEF OrderTypes, IsOrder
  <2>2. UNCHANGED <<charged, collect, fees>> /\ order.status = "PROGRESS"
    BY <1>6, <1>7 DEF Reprice, moneyVars, WritePriority, WriteSequences, Writing
  <2> QED
    BY <1>3, <1>7, <2>1, <2>2, StopsTyped DEF MoneyTypes, Paid
<1>8. CASE WriteSequences(c)
  <2>1. UNCHANGED <<order, charged, collect, fees>>
    BY <1>8 DEF WriteSequences, moneyVars
  <2> QED
    BY <1>3, <1>8, <2>1, StopsTyped DEF OrderTypes, MoneyTypes, Paid
<1>9. ASSUME UNCHANGED <<stops, charged, collect, fees>>, order.status = "PROGRESS",
             OrderTypes', UNCHANGED <<order.status, order.fee>>
      PROVE  OrderTypes' /\ StopTypes' /\ MoneyTypes' /\ Paid'
  BY <1>3, <1>9 DEF StopTypes, MoneyTypes, Paid
<1>10. CASE WriteDiscount(c)
  <2>1. OrderTypes' /\ UNCHANGED <<order.status, order.fee>>
    <3>1. PICK spent \in Nat, promo \in Nat :
           order' = [status |-> order.status, total |-> AtLeast0(Base(order) - (order.discount + spent * CoinValue + promo)),
                     original |-> Base(order), discount |-> order.discount + spent * CoinValue + promo,
                     coins |-> order.coins + spent, promo |-> order.promo + promo,
                     services |-> order.services, fee |-> order.fee]
      BY <1>3, <1>10, DiscountWrites
    <3>2. order.discount + spent * CoinValue + promo \in Int
      BY <1>3, <3>1, Numbers DEF OrderTypes
    <3>3. AtLeast0(Base(order) - (order.discount + spent * CoinValue + promo)) \in Int
      BY <1>4, <3>2
    <3> QED
      BY <1>3, <1>4, <3>1, <3>2, <3>3 DEF OrderTypes, IsOrder
  <2>2. UNCHANGED <<stops, charged, collect, fees>> /\ order.status = "PROGRESS"
    BY <1>6, <1>10 DEF WriteDiscount, WritePriority, WriteSequences, Writing
  <2> QED
    BY <1>9, <2>1, <2>2
<1>11. CASE WriteRemoval(c)
  <2>1. OrderTypes' /\ UNCHANGED <<order.status, order.fee>>
    <3>1. edit[c].arg \in {"coins", "promo"}
      BY <1>2, <1>3, <1>11 DEF CallsChecked, Checked, WriteRemoval, Writing
    <3>2. AtLeast0(order.original + Extras(order) - order.promo) \in Int
          /\ AtLeast0(order.original + Extras(order) - order.coins) \in Int
      BY <1>3, <1>4 DEF OrderTypes
    <3> QED
      BY <1>3, <1>11, <3>1, <3>2, RemovalWrites DEF OrderTypes, IsOrder
  <2>2. UNCHANGED <<stops, charged, collect, fees>> /\ order.status = "PROGRESS"
    BY <1>6, <1>11 DEF WriteRemoval, WritePriority, WriteSequences, Writing
  <2> QED
    BY <1>9, <2>1, <2>2
<1>12. ASSUME NEW S2, IsFiniteSet(S2)
       PROVE  AtLeast0(Base(order) + (ServiceValue * Cardinality(S2) + order.fee) - order.discount) \in Int
  <2>1. ServiceValue * Cardinality(S2) + order.fee \in Int
    BY <1>3, <1>12, Totals
  <2> QED
    BY <1>3, <1>4, <2>1 DEF OrderTypes
<1>13. CASE WriteService(c)
  <2>1. OrderTypes' /\ UNCHANGED <<order.status, order.fee>>
    <3>1. IsFiniteSet(order.services \cup {edit[c].arg})
      BY <1>3, FS_AddElement DEF OrderTypes
    <3> DEFINE others == order.services \cup {edit[c].arg}
               total == AtLeast0(Base(order) + (ServiceValue * Cardinality(others) + order.fee) - order.discount)
    <3>2. total \in Int
      BY <1>12, <3>1
    <3>3. order' = [status |-> order.status, total |-> total, original |-> Base(order),
                    discount |-> order.discount, coins |-> order.coins, promo |-> order.promo,
                    services |-> others, fee |-> order.fee]
      BY <1>3, <1>13, ServiceWrites
    <3> HIDE DEF others, total
    <3> QED
      BY <1>3, <1>4, <3>1, <3>2, <3>3 DEF OrderTypes, IsOrder, others
  <2>2. UNCHANGED <<stops, charged, collect, fees>> /\ order.status = "PROGRESS"
    BY <1>6, <1>13 DEF WriteService, moneyVars, WritePriority, WriteSequences, Writing
  <2> QED
    BY <1>9, <2>1, <2>2
<1>14. CASE WriteServiceRemoval(c)
  <2>1. OrderTypes' /\ UNCHANGED <<order.status, order.fee>>
    <3>1. IsFiniteSet(order.services \ {edit[c].arg})
      BY <1>3, FS_RemoveElement DEF OrderTypes
    <3> DEFINE others == order.services \ {edit[c].arg}
               total == AtLeast0(Base(order) + (ServiceValue * Cardinality(others) + order.fee) - order.discount)
    <3>2. total \in Int
      BY <1>12, <3>1
    <3>3. order' = [status |-> order.status, total |-> total, original |-> order.original,
                    discount |-> order.discount, coins |-> order.coins, promo |-> order.promo,
                    services |-> others, fee |-> order.fee]
      BY <1>3, <1>14, ServiceRemovalWrites
    <3> HIDE DEF others, total
    <3> QED
      BY <1>3, <1>4, <3>1, <3>2, <3>3 DEF OrderTypes, IsOrder, others
  <2>2. UNCHANGED <<stops, charged, collect, fees>> /\ order.status = "PROGRESS"
    BY <1>6, <1>14 DEF WriteServiceRemoval, moneyVars, WritePriority, WriteSequences, Writing
  <2> QED
    BY <1>9, <2>1, <2>2
<1>15. CASE WritePlaced(c)
  <2>1. OrderTypes' /\ order'.status = "PENDING" /\ order'.total = order.total
    <3>1. order' = [status |-> "PENDING", total |-> order.total, original |-> order.original,
                    discount |-> order.discount, coins |-> order.coins, promo |-> order.promo,
                    services |-> order.services, fee |-> order.fee]
      BY <1>3, <1>15, PlacedWrites
    <3> QED
      BY <1>3, <3>1 DEF OrderTypes, IsOrder
  <2>2. UNCHANGED <<stops, fees>> /\ order.status = "PROGRESS"
    BY <1>6, <1>15 DEF WritePlaced, WritePriority, WriteSequences, Writing
  <2>3. charged = 0 /\ fees = 0 /\ charged' = charged + order.total
    BY <1>3, <1>15, <2>2, PlacedWrites DEF Paid
  <2>4. collect' \in Int
    <3>1. IsFiniteSet({r \in Drops : stops[r].priced})
      BY DropsFinite, FS_Subset
    <3>2. Fare * Cardinality({r \in Drops : stops[r].priced}) \in Int
      BY <3>1, FS_CardinalityType, Numbers
    <3> QED
      BY <1>3, <1>15, <3>2, PlacedWrites DEF OrderTypes
  <2>5. charged' \in Int /\ order'.total = charged' + fees'
    BY <1>3, <2>1, <2>2, <2>3 DEF OrderTypes
  <2> QED
    BY <1>3, <2>1, <2>2, <2>3, <2>4, <2>5 DEF StopTypes, MoneyTypes, Paid
<1>16. CASE WritePriority(c)
  <2>1. order.status = "PENDING"
    BY <1>2, <1>3, <1>16 DEF CallsChecked, Checked, WritePriority, Writing
  <2>2. order.total + Fee \in Int /\ fees' = fees + Fee
    BY <1>3, <1>16, PriorityWrites, Numbers DEF OrderTypes
  <2>3. OrderTypes' /\ order'.status = "PENDING" /\ order'.total = order.total + Fee
    BY <1>3, <1>4, <1>16, <2>1, <2>2, PriorityWrites, Numbers DEF OrderTypes, IsOrder
  <2>4. UNCHANGED <<stops, charged, collect>>
    BY <1>16 DEF WritePriority
  <2>5. fees' \in Int /\ order'.total = charged' + fees'
    BY <1>3, <2>1, <2>2, <2>3, <2>4, Numbers DEF Paid, MoneyTypes, OrderTypes
  <2> QED
    BY <1>3, <2>3, <2>4, <2>5 DEF StopTypes, MoneyTypes, Paid
<1> QED
  BY <1>7, <1>8, <1>10, <1>11, <1>13, <1>14, <1>15, <1>16

LEMMA EditsStep == EditsInv /\ [Next]_vars => EditsInv'
<1> SUFFICES ASSUME EditsInv, [Next]_vars PROVE EditsInv'
  OBVIOUS
<1>1. CASE UNCHANGED vars
  BY <1>1 DEF vars, moneyVars, callVars, EditsInv, CallsAre, InOrder, CallsChecked, Checked, OrderTypes, StopTypes,
     MoneyTypes, Paid
<1>2. ASSUME NEW c \in Calls, Read(c) \/ Write(c) PROVE EditsInv'
  BY <1>2, EditsBegin, EditsStop, EditsFail, EditsWrite DEF Write
<1> QED
  BY <1>1, <1>2 DEF Next

-----------------------------------------------------------------------------
(* The price.  Between edits, the total is explained by the order's other  *)
(* columns; what a write computes it from, is explained too, because the   *)
(* incidents name the writes that leave a term out.                        *)

Price == IF Pickups = {} THEN 0 ELSE Fare * Cardinality(Drops)

FullPrice == IF order.original # 0 THEN order.original ELSE Price

Plain ==
  {"overlapped", "unpriced", "frozen", "bare_discount", "bare_removal", "counted_coins",
   "below_zero", "no_base"} \cap incidents = {}

TotalExplained ==
  Plain /\ Quiet => order.total = AtLeast0(FullPrice + Extras(order) - order.discount)

DiscountExplained ==
  InOrder /\ "counted_coins" \notin incidents =>
    order.discount = order.coins * CoinValue + order.promo

(* What holds between edits until and after the order is placed. *)
Clean == {"overlapped", "unpriced", "frozen", "no_base", "bare_removal"} \cap incidents = {}

PlacedFacts ==
  /\ Pickups # {} => \A r \in Drops : stops[r].priced
  /\ order.original # 0 => order.original = Price
  /\ order.original = 0 /\ Extras(order) = order.discount => order.total = Price
  /\ order.original # 0 /\ order.discount = 0 /\ order.services = {} /\ order.fee = 0
     => order.total = AtLeast0(order.original)

CollectFacts ==
  collect >= 0 =>
    /\ collect \in {charged, Fare * Cardinality(Drops)}
    /\ order.discount = 0 /\ order.services = {} => collect = charged

PlacedExplained == Clean /\ Quiet => PlacedFacts /\ CollectFacts

PricesInv == TotalExplained /\ DiscountExplained /\ PlacedExplained

LEMMA PriceType == Price \in Nat
<1>1. Cardinality(Drops) \in Nat /\ Fare \in Nat
  BY DropsFinite, Numbers
<1>2. Fare * Cardinality(Drops) \in Nat
  BY <1>1
<1> QED
  BY <1>2 DEF Price

LEMMA PricesInit == Init => PricesInv
<1> SUFFICES ASSUME Init PROVE PricesInv
  OBVIOUS
<1>1. /\ order.original = 0 /\ order.discount = 0 /\ order.services = {} /\ order.fee = 0
      /\ order.coins = 0 /\ order.promo = 0 /\ collect = -1
  BY DEF Init, NewOrder
<1>2. Extras(order) = 0
  BY <1>1, FS_EmptySet, Numbers DEF Extras
<1>3. order.total = Price /\ \A r \in Drops : stops[r].priced
  <2>1. CASE order = NewOrder /\ stops = [r \in Rows |-> Unused]
    BY <2>1 DEF Price, Pickups, Drops, Of, Unused, NewOrder
  <2>2. ASSUME NEW p \in Rows, NEW d \in Rows, NEW to, p # d, order = [NewOrder EXCEPT !.total = Fare],
               stops = [r \in Rows |->
                 CASE r = p -> [Unused EXCEPT !.type = "PICKUP", !.sequence = 1]
                   [] r = d -> [type |-> "DROP", dest |-> to, sequence |-> 2, priced |-> TRUE]
                   [] OTHER -> Unused]
        PROVE  order.total = Price /\ \A r \in Drops : stops[r].priced
    <3>1. stops[p].type = "PICKUP" /\ stops[d].type = "DROP" /\ stops[d].priced
          /\ \A r \in Rows \ {p, d} : stops[r].type = "none"
      BY <2>2, NewStops DEF Unused
    <3>2. Pickups # {} /\ Drops = {d}
      BY <3>1 DEF Pickups, Drops, Of
    <3>3. Cardinality(Drops) = 1
      BY <3>2, FS_Singleton
    <3> QED
      BY <2>2, <3>1, <3>2, <3>3, Numbers DEF Price, NewOrder
  <2> QED
    BY <2>1, <2>2 DEF Init
<1>4. Price \in Nat
  BY PriceType
<1>5. order.total = AtLeast0(FullPrice + Extras(order) - order.discount)
  BY <1>1, <1>2, <1>3, <1>4 DEF FullPrice, AtLeast0
<1>6. order.discount = order.coins * CoinValue + order.promo
  BY <1>1, Numbers
<1> QED
  BY <1>1, <1>3, <1>5, <1>6 DEF PricesInv, TotalExplained, DiscountExplained, PlacedExplained, PlacedFacts, CollectFacts

(* A step that is not the price's leaves it explained. *)
LEMMA PricesStay ==
  ASSUME PricesInv, UNCHANGED <<order, charged, collect>>, incidents \subseteq incidents',
         Quiet' /\ "unpriced" \notin incidents' => Quiet, 
         Quiet' /\ InOrder' => Drops' = Drops /\ Pickups' = Pickups /\ \A r \in Drops : stops[r].priced => stops'[r].priced
  PROVE  PricesInv'
<1>1. (Plain' => Plain) /\ (Clean' => Clean) /\ (InOrder' => InOrder) /\ (Plain' \/ Clean' => InOrder' /\ "unpriced" \notin incidents')
  BY DEF Plain, Clean, InOrder
<1>2. DiscountExplained'
  BY <1>1 DEF PricesInv, DiscountExplained
<1>3. TotalExplained'
  BY <1>1 DEF PricesInv, TotalExplained, FullPrice, Price
<1>4. PlacedExplained'
  <2> SUFFICES ASSUME Clean', Quiet' PROVE PlacedFacts' /\ CollectFacts'
    BY DEF PlacedExplained
  <2>1. PlacedFacts /\ CollectFacts /\ Drops' = Drops /\ Pickups' = Pickups /\ \A r \in Drops : stops[r].priced => stops'[r].priced
    BY <1>1 DEF PricesInv, PlacedExplained
  <2>2. Price' = Price
    BY <2>1 DEF Price
  <2> QED
    BY <2>1, <2>2 DEF PlacedFacts, CollectFacts
<1> QED
  BY <1>2, <1>3, <1>4 DEF PricesInv

(* The writes of the price, each between two quiet states. *)
LEMMA QuietBefore ==
  ASSUME EditsInv, NEW c \in Calls, at[c] \in {"idle", "write"}, \A d \in Calls \ {c} : at'[d] = at[d], Quiet'
  PROVE  Quiet
BY DEF Quiet

LEMMA SamePlaces ==
  ASSUME UNCHANGED stops
  PROVE  Drops' = Drops /\ Pickups' = Pickups /\ Price' = Price
BY DEF Drops, Pickups, Of, Price

LEMMA DiscountPrices ==
  ASSUME EditsInv, PricesInv, NEW c \in Calls, WriteDiscount(c)
  PROVE  PricesInv'
<1>0. End(c) /\ at[c] = "write" /\ UNCHANGED <<stops, charged, collect>>
  BY DEF WriteDiscount, Writing
<1>1. incidents \subseteq incidents'
  BY DEF WriteDiscount, NoteAll
<1>2. Drops' = Drops /\ Pickups' = Pickups /\ Price' = Price /\ Price \in Nat
  BY <1>0, SamePlaces, PriceType
<1>3. Quiet' => Quiet
  BY <1>0, QuietBefore DEF End, EditsInv, CallsAre
<1>4. ASSUME InOrder' PROVE InOrder /\ OrderTypes /\ Paid /\ order.status = "PROGRESS" /\ saw[c].order = order
  <2>1. InOrder /\ saw[c].order = order
    BY <1>4, Fresh DEF WriteDiscount
  <2>2. order.status = "PROGRESS"
    BY <1>4, NotPlaced DEF WriteDiscount, Writing
  <2> QED
    BY <2>1, <2>2 DEF EditsInv
<1>5. ASSUME InOrder'
      PROVE  \E spent, promo \in Nat :
               /\ order'.original = Base(order) /\ Extras(order') = Extras(order)
               /\ order'.services = order.services /\ order'.fee = order.fee
               /\ order'.discount = order.discount + spent * CoinValue + promo
               /\ order'.coins = order.coins + spent /\ order'.promo = order.promo + promo
               /\ order'.total = AtLeast0(Base(order) - order'.discount)
  <2>1. OrderTypes
    BY <1>4, <1>5
  <2>2. PICK spent \in Nat, promo \in Nat :
           order' = [status |-> order.status, total |-> AtLeast0(Base(order) - (order.discount + spent * CoinValue + promo)),
                     original |-> Base(order), discount |-> order.discount + spent * CoinValue + promo,
                     coins |-> order.coins + spent, promo |-> order.promo + promo,
                     services |-> order.services, fee |-> order.fee]
    BY <1>5, <2>1, DiscountWrites
  <2> QED
    BY <2>2 DEF Extras
<1>6. ASSUME InOrder'
      PROVE  /\ order.services # {} => "bare_discount" \in incidents'
             /\ order.original = 0 /\ Extras(order) # order.discount => "no_base" \in incidents'
             /\ order.fee = 0
             /\ order.discount \in Int /\ order.total \in Int /\ order.original \in Int /\ order'.discount \in Int
             /\ Extras(order) \in Int /\ (order.services = {} => Extras(order) = 0) /\ Extras(order) >= 0
  <2>1. OrderTypes /\ saw[c].order = order /\ order.fee = 0
    BY <1>4, <1>6 DEF Paid
  <2>2. /\ order.services # {} => "bare_discount" \in incidents'
        /\ order.original = 0 /\ Extras(order) # order.discount => "no_base" \in incidents'
    BY <2>1 DEF WriteDiscount, NoteAll, NoBase, When
  <2>3. order'.discount \in Int
    BY <1>5, <1>6, <2>1, Numbers DEF OrderTypes
  <2>4. Extras(order) \in Int /\ Extras(order) >= 0
    <3>1. Cardinality(order.services) \in Nat
      BY <2>1, FS_CardinalityType DEF OrderTypes
    <3>2. ServiceValue * Cardinality(order.services) \in Nat
      BY <3>1, Numbers
    <3> QED
      BY <2>1, <3>2 DEF Extras
  <2>5. order.services = {} => Extras(order) = 0
    BY <2>1, FS_EmptySet, Numbers DEF Extras
  <2> QED
    BY <2>1, <2>2, <2>3, <2>4, <2>5 DEF OrderTypes
<1>7. DiscountExplained'
  <2> SUFFICES ASSUME InOrder', "counted_coins" \notin incidents'
               PROVE  order'.discount = order'.coins * CoinValue + order'.promo
    BY DEF DiscountExplained
  <2>1. order.discount = order.coins * CoinValue + order.promo
    BY <1>1, <1>4 DEF PricesInv, DiscountExplained
  <2>2. order.coins \in Int /\ order.promo \in Int /\ CoinValue \in Int
    BY <1>4, Numbers DEF OrderTypes
  <2>3. ASSUME NEW spent \in Nat PROVE (order.coins + spent) * CoinValue = order.coins * CoinValue + spent * CoinValue
    BY <2>2
  <2> QED
    BY <1>5, <2>1, <2>2, <2>3
<1>8. TotalExplained'
  <2> SUFFICES ASSUME Plain', Quiet' PROVE (order.total = AtLeast0(FullPrice + Extras(order) - order.discount))'
    BY DEF TotalExplained
  <2>1. InOrder' /\ Plain /\ Quiet /\ {"bare_discount", "no_base"} \cap incidents' = {}
    BY <1>1, <1>3 DEF Plain, InOrder
  <2>2. order.total = AtLeast0(FullPrice + Extras(order) - order.discount)
    BY <2>1 DEF PricesInv, TotalExplained
  <2>3. order.services = {} /\ Extras(order) = 0 /\ (order.original = 0 => order.discount = 0)
    BY <1>6, <2>1
  <2>4. order.original = 0 => order.total = Price
    BY <1>2, <1>6, <2>1, <2>2, <2>3 DEF FullPrice, AtLeast0
  <2>5. FullPrice' = Base(order)
    BY <1>2, <1>5, <2>1, <2>4 DEF FullPrice, Base
  <2>6. Base(order) \in Int
    BY <1>6, <2>1 DEF Base
  <2>7. Extras(order') = 0 /\ order'.total = AtLeast0(Base(order) - order'.discount)
    BY <1>5, <2>1, <2>3
  <2> QED
    BY <1>6, <2>1, <2>5, <2>6, <2>7
<1>9. PlacedExplained'
  <2> SUFFICES ASSUME Clean', Quiet' PROVE PlacedFacts' /\ CollectFacts'
    BY DEF PlacedExplained
  <2>1. InOrder' /\ Clean /\ Quiet /\ "no_base" \notin incidents'
    BY <1>1, <1>3 DEF Clean, InOrder
  <2>2. PlacedFacts /\ collect = -1
    BY <1>4, <2>1 DEF PricesInv, PlacedExplained, Paid
  <2>3. CollectFacts'
    BY <1>0, <2>2 DEF CollectFacts
  <2>4. order.original = 0 => order.total = Price
    BY <1>6, <2>1, <2>2 DEF PlacedFacts
  <2>5. order'.original = Base(order) /\ (Base(order) = 0 => Price = 0) /\ (Base(order) # 0 => Base(order) = Price)
    BY <1>5, <2>1, <2>2, <2>4 DEF Base, PlacedFacts
  <2>6. /\ order'.original # 0 => order'.original = Price'
        /\ order'.original = 0 /\ Extras(order') = order'.discount => order'.total = Price'
    BY <1>2, <1>5, <1>6, <2>1, <2>5 DEF AtLeast0
  <2>7. order'.discount = 0 => order'.total = AtLeast0(order'.original)
    BY <1>2, <1>5, <2>1, <2>5
  <2> QED
    BY <1>0, <1>2, <2>2, <2>3, <2>6, <2>7 DEF PlacedFacts
<1> QED
  BY <1>7, <1>8, <1>9 DEF PricesInv

LEMMA BetweenEdits ==
  ASSUME EditsInv, NEW c \in Calls, NEW S, NoteAll(c, S), End(c), at[c] = "write", UNCHANGED stops
  PROVE  /\ incidents \subseteq incidents'
         /\ Drops' = Drops /\ Pickups' = Pickups /\ Price' = Price /\ Price \in Nat
         /\ Quiet' => Quiet
         /\ InOrder' => InOrder /\ CallsChecked /\ OrderTypes /\ Paid /\ MoneyTypes /\ saw[c].order = order
         /\ InOrder' /\ edit[c].op \notin {"reorder", "prioritize"} => order.status = "PROGRESS" /\ collect = -1
<1>1. incidents \subseteq incidents'
  BY DEF NoteAll
<1>2. Quiet' => Quiet
  BY QuietBefore DEF End, EditsInv, CallsAre
<1>3. ASSUME InOrder' PROVE InOrder /\ saw[c].order = order
  BY <1>3, Fresh
<1>4. ASSUME InOrder', edit[c].op \notin {"reorder", "prioritize"} PROVE order.status = "PROGRESS"
  BY <1>4, NotPlaced
<1> QED
  BY <1>1, <1>2, <1>3, <1>4, SamePlaces, PriceType DEF EditsInv, Paid

LEMMA ExtrasType ==
  ASSUME OrderTypes
  PROVE  Extras(order) \in Int /\ order.total \in Int /\ order.original \in Int /\ order.discount \in Int
         /\ order.coins \in Int /\ order.promo \in Int /\ Base(order) \in Int
BY Totals DEF OrderTypes

LEMMA RemovalPrices ==
  ASSUME EditsInv, PricesInv, NEW c \in Calls, WriteRemoval(c)
  PROVE  PricesInv'
<1>0. End(c) /\ at[c] = "write" /\ edit[c].op = "undiscount" /\ UNCHANGED <<stops, charged, collect>>
  BY DEF WriteRemoval, Writing
<1>1. PICK S : NoteAll(c, S) /\ S = When(saw[c].order.original = 0, "bare_removal")
                \cup When(edit[c].arg = "promo" /\ saw[c].order.coins * CoinValue # saw[c].order.coins, "counted_coins")
                \cup When(order.coins # saw[c].order.coins, "stale_removal")
  BY DEF WriteRemoval
<1>2. /\ incidents \subseteq incidents'
      /\ Drops' = Drops /\ Pickups' = Pickups /\ Price' = Price /\ Price \in Nat
      /\ Quiet' => Quiet
      /\ InOrder' => InOrder /\ CallsChecked /\ OrderTypes /\ saw[c].order = order /\ collect = -1
  BY <1>0, <1>1, BetweenEdits
<1>3. ASSUME InOrder'
      PROVE  /\ order'.original = order.original /\ Extras(order') = Extras(order)
             /\ order'.services = order.services /\ order'.fee = order.fee
             /\ order'.total = AtLeast0(order.original + Extras(order) - order'.discount)
             /\ order'.discount \in Int
             /\ \/ order'.discount = order.promo /\ order'.coins = 0 /\ order'.promo = order.promo
                \/ /\ order'.discount = order.coins /\ order'.coins = order.coins /\ order'.promo = 0
                   /\ order.coins * CoinValue # order.coins => "counted_coins" \in incidents'
             /\ order.original = 0 => "bare_removal" \in incidents'
             /\ order.coins \in Int /\ order.promo \in Int
  <2>1. edit[c].arg \in {"coins", "promo"}
    BY <1>0, <1>2, <1>3 DEF CallsChecked, Checked
  <2>2. order.original = 0 => "bare_removal" \in incidents'
    BY <1>1, <1>2, <1>3 DEF NoteAll, When
  <2>3. \/ order' = [status |-> order.status,
                      total |-> AtLeast0(order.original + Extras(order) - order.promo),
                      original |-> order.original, discount |-> order.promo,
                      coins |-> 0, promo |-> order.promo,
                      services |-> order.services, fee |-> order.fee]
        \/ /\ order' = [status |-> order.status,
                         total |-> AtLeast0(order.original + Extras(order) - order.coins),
                         original |-> order.original, discount |-> order.coins,
                         coins |-> order.coins, promo |-> 0,
                         services |-> order.services, fee |-> order.fee]
           /\ order.coins * CoinValue # order.coins => "counted_coins" \in incidents'
    BY <1>2, <1>3, <2>1, RemovalWrites
  <2>4. order.coins \in Int /\ order.promo \in Int
    BY <1>2, <1>3, ExtrasType
  <2>5. order'.services = order.services /\ order'.fee = order.fee
    BY <2>3
  <2>6. Extras(order') = Extras(order)
    BY <2>5 DEF Extras
  <2> QED
    BY <2>2, <2>3, <2>4, <2>5, <2>6
<1>4. DiscountExplained'
  BY <1>2, <1>3, Numbers DEF DiscountExplained
<1>5. ASSUME InOrder', order.original # 0
      PROVE  FullPrice' = order.original
  BY <1>3, <1>5 DEF FullPrice
<1>6. TotalExplained'
  <2> SUFFICES ASSUME Plain', Quiet' PROVE (order.total = AtLeast0(FullPrice + Extras(order) - order.discount))'
    BY DEF TotalExplained
  <2>1. InOrder' /\ "bare_removal" \notin incidents'
    BY DEF Plain, InOrder
  <2>2. order.original # 0 /\ order'.total = AtLeast0(order.original + Extras(order) - order'.discount)
    BY <1>3, <2>1
  <2> QED
    BY <1>3, <1>5, <2>1, <2>2
<1>7. PlacedExplained'
  <2> SUFFICES ASSUME Clean', Quiet' PROVE PlacedFacts' /\ CollectFacts'
    BY DEF PlacedExplained
  <2>1. InOrder' /\ Clean /\ Quiet /\ "bare_removal" \notin incidents'
    BY <1>2 DEF Clean, InOrder
  <2>2. PlacedFacts /\ order.original # 0 /\ order.original \in Int
    BY <1>2, <1>3, <2>1, ExtrasType DEF PricesInv, PlacedExplained
  <2>3. CollectFacts'
    BY <1>0, <1>2, <2>1 DEF CollectFacts
  <2>4. order'.original # 0 /\ order'.original = Price'
    BY <1>2, <1>3, <2>1, <2>2 DEF PlacedFacts
  <2>5. ASSUME order'.discount = 0, order'.services = {}, order'.fee = 0 PROVE order'.total = AtLeast0(order'.original)
    <3>1. Extras(order) = 0
      BY <1>3, <2>1, <2>5, FS_EmptySet, Numbers DEF Extras
    <3> QED
      BY <1>3, <2>1, <2>2, <2>5, <3>1
  <2> QED
    BY <1>0, <1>2, <2>2, <2>3, <2>4, <2>5 DEF PlacedFacts
<1> QED
  BY <1>4, <1>6, <1>7 DEF PricesInv

(* The two writes of the services take the base as it is. *)
LEMMA ServicePrices ==
  ASSUME EditsInv, PricesInv, NEW c \in Calls, WriteService(c) \/ WriteServiceRemoval(c)
  PROVE  PricesInv'
<1>0. End(c) /\ at[c] = "write" /\ edit[c].op \in {"service", "unservice"} /\ UNCHANGED <<stops, charged, collect>>
  BY DEF WriteService, WriteServiceRemoval, Writing, moneyVars
<1>1. NoteAll(c, NoBase(saw[c].order))
  BY DEF WriteService, WriteServiceRemoval
<1>2. /\ incidents \subseteq incidents'
      /\ Drops' = Drops /\ Pickups' = Pickups /\ Price' = Price /\ Price \in Nat
      /\ Quiet' => Quiet
      /\ InOrder' => InOrder /\ OrderTypes /\ saw[c].order = order /\ collect = -1
  BY <1>0, <1>1, BetweenEdits
<1>3. ASSUME InOrder'
      PROVE  /\ order'.original \in {order.original, Base(order)}
             /\ order'.discount = order.discount /\ order'.coins = order.coins /\ order'.promo = order.promo
             /\ order'.total = AtLeast0(Base(order) + Extras(order') - order.discount)
             /\ Extras(order') \in Int
             /\ order.original = 0 /\ Extras(order) # order.discount => "no_base" \in incidents'
  <2>1. OrderTypes /\ saw[c].order = order
    BY <1>2, <1>3
  <2>2. order.original = 0 /\ Extras(order) # order.discount => "no_base" \in incidents'
    BY <1>1, <2>1 DEF NoteAll, NoBase, When
  <2>3. CASE WriteService(c)
    <3> DEFINE more == order.services \cup {edit[c].arg}
    <3>1. IsFiniteSet(more)
      BY <2>1, FS_AddElement DEF OrderTypes
    <3>2. order' = [status |-> order.status,
                   total |-> AtLeast0(Base(order) + (ServiceValue * Cardinality(more) + order.fee) - order.discount),
                   original |-> Base(order), discount |-> order.discount,
                   coins |-> order.coins, promo |-> order.promo, services |-> more, fee |-> order.fee]
      BY <1>3, <2>1, <2>3, ServiceWrites
    <3> HIDE DEF more
    <3>3. Extras(order') = ServiceValue * Cardinality(more) + order.fee
      BY <3>2 DEF Extras
    <3>4. Extras(order') \in Int
      BY <2>1, <3>1, <3>3, Totals
    <3> QED
      BY <2>2, <3>2, <3>3, <3>4
  <2>4. CASE WriteServiceRemoval(c)
    <3> DEFINE less == order.services \ {edit[c].arg}
    <3>1. IsFiniteSet(less)
      BY <2>1, FS_RemoveElement DEF OrderTypes
    <3>2. order' = [status |-> order.status,
                   total |-> AtLeast0(Base(order) + (ServiceValue * Cardinality(less) + order.fee) - order.discount),
                   original |-> order.original, discount |-> order.discount,
                   coins |-> order.coins, promo |-> order.promo, services |-> less, fee |-> order.fee]
      BY <1>3, <2>1, <2>4, ServiceRemovalWrites
    <3> HIDE DEF less
    <3>3. Extras(order') = ServiceValue * Cardinality(less) + order.fee
      BY <3>2 DEF Extras
    <3>4. Extras(order') \in Int
      BY <2>1, <3>1, <3>3, Totals
    <3> QED
      BY <2>2, <3>2, <3>3, <3>4
  <2> QED
    BY <2>3, <2>4
<1>4. DiscountExplained'
  BY <1>2, <1>3 DEF PricesInv, DiscountExplained
<1>5. ASSUME InOrder', "no_base" \notin incidents', order.original = 0 /\ Extras(order) = order.discount => order.total = Price
      PROVE  /\ FullPrice' = Base(order) /\ Base(order) \in Int /\ order.discount \in Int
             /\ order.original = 0 => Base(order) = Price
  <2>1. order.original = 0 => order.total = Price
    BY <1>3, <1>5
  <2>2. Base(order) \in Int /\ order.discount \in Int
    BY <1>2, <1>5, ExtrasType
  <2>3. order.original = 0 => Base(order) = Price
    BY <2>1 DEF Base
  <2>4. order.original # 0 => Base(order) = order.original
    BY DEF Base
  <2>5. FullPrice' = Base(order)
    BY <1>2, <1>3, <1>5, <2>3, <2>4 DEF FullPrice
  <2> QED
    BY <2>2, <2>3, <2>5
<1>6. TotalExplained'
  <2> SUFFICES ASSUME Plain', Quiet' PROVE (order.total = AtLeast0(FullPrice + Extras(order) - order.discount))'
    BY DEF TotalExplained
  <2>1. InOrder' /\ Plain /\ Quiet /\ "no_base" \notin incidents'
    BY <1>2 DEF Plain, InOrder
  <2>2. order.total = AtLeast0(FullPrice + Extras(order) - order.discount)
    BY <2>1 DEF PricesInv, TotalExplained
  <2>3. order.original = 0 /\ Extras(order) = order.discount => order.total = Price
    <3>1. Extras(order) \in Int /\ order.discount \in Int
      BY <1>2, <2>1, ExtrasType
    <3> QED
      BY <1>2, <2>2, <3>1 DEF FullPrice, AtLeast0
  <2>4. FullPrice' = Base(order)
    BY <1>5, <2>1, <2>3
  <2> QED
    BY <1>3, <2>1, <2>4
<1>7. PlacedExplained'
  <2> SUFFICES ASSUME Clean', Quiet' PROVE PlacedFacts' /\ CollectFacts'
    BY DEF PlacedExplained
  <2>1. InOrder' /\ Clean /\ Quiet /\ "no_base" \notin incidents'
    BY <1>2 DEF Clean, InOrder
  <2>2. PlacedFacts
    BY <2>1 DEF PricesInv, PlacedExplained
  <2>3. CollectFacts'
    BY <1>0, <1>2, <2>1 DEF CollectFacts
  <2>4. /\ FullPrice' = Base(order) /\ Base(order) \in Int /\ order.discount \in Int
        /\ order.original = 0 => Base(order) = Price
    BY <1>5, <2>1, <2>2 DEF PlacedFacts
  <2>5. order'.original # 0 => order'.original = Price'
    BY <1>2, <1>3, <2>1, <2>2, <2>4 DEF PlacedFacts, Base
  <2>6. ASSUME order'.original = 0, Extras(order') = order'.discount PROVE order'.total = Price'
    <3>1. Base(order) = Price
      BY <1>2, <2>4, <2>6 DEF FullPrice
    <3> QED
      BY <1>2, <1>3, <2>1, <2>4, <2>6, <3>1 DEF AtLeast0
  <2>7. ASSUME order'.original # 0, order'.discount = 0, order'.services = {}, order'.fee = 0
        PROVE  order'.total = AtLeast0(order'.original)
    <3>1. Extras(order') = 0
      BY <2>7, FS_EmptySet, Numbers DEF Extras
    <3>2. Base(order) = order'.original
      BY <2>4, <2>7 DEF FullPrice
    <3> QED
      BY <1>3, <2>1, <2>4, <2>7, <3>1, <3>2
  <2> QED
    BY <1>0, <1>2, <2>2, <2>3, <2>5, <2>6, <2>7 DEF PlacedFacts
<1> QED
  BY <1>4, <1>6, <1>7 DEF PricesInv

LEMMA PlacedPrices ==
  ASSUME EditsInv, PricesInv, NEW c \in Calls, WritePlaced(c)
  PROVE  PricesInv'
<1>0. End(c) /\ at[c] = "write" /\ edit[c].op = "place" /\ UNCHANGED stops /\ NoteAll(c, {})
  BY DEF WritePlaced, Writing
<1>1. /\ incidents \subseteq incidents'
      /\ Drops' = Drops /\ Pickups' = Pickups /\ Price' = Price /\ Price \in Nat
      /\ Quiet' => Quiet
      /\ InOrder' => InOrder /\ CallsChecked /\ OrderTypes /\ Paid /\ order.status = "PROGRESS"
  BY <1>0, BetweenEdits
<1>2. ASSUME InOrder'
      PROVE  /\ order'.total = order.total /\ order'.original = order.original
             /\ order'.discount = order.discount /\ order'.coins = order.coins /\ order'.promo = order.promo
             /\ order'.services = order.services /\ order'.fee = order.fee
             /\ Extras(order') = Extras(order)
             /\ charged' = order.total
             /\ collect' \in {order.total, Fare * Cardinality({r \in Drops : stops[r].priced}), -1}
             /\ Pickups # {}
  <2>1. OrderTypes /\ charged = 0 /\ order.total \in Int /\ saw[c].stops = stops
    BY <1>0, <1>1, <1>2, ExtrasType, Fresh DEF Paid
  <2>2. order' = [status |-> "PENDING", total |-> order.total, original |-> order.original,
                  discount |-> order.discount, coins |-> order.coins, promo |-> order.promo,
                  services |-> order.services, fee |-> order.fee]
        /\ charged' = charged + order.total
        /\ collect' \in {order.total, Fare * Cardinality({r \in Drops : stops[r].priced}), -1}
    BY <1>2, <2>1, PlacedWrites
  <2>3. \E r \in Rows : stops[r].type = "PICKUP"
    BY <1>0, <1>1, <1>2, <2>1 DEF CallsChecked, Checked
  <2> QED
    BY <2>1, <2>2, <2>3 DEF Extras, Pickups, Of
<1>3. DiscountExplained'
  BY <1>1, <1>2 DEF PricesInv, DiscountExplained
<1>4. TotalExplained'
  <2>1. Plain' /\ Quiet' => InOrder' /\ Plain /\ Quiet
    BY <1>1 DEF Plain, InOrder
  <2> QED
    BY <1>1, <1>2, <2>1 DEF PricesInv, TotalExplained, FullPrice
<1>5. PlacedExplained'
  <2> SUFFICES ASSUME Clean', Quiet' PROVE PlacedFacts' /\ CollectFacts'
    BY DEF PlacedExplained
  <2>1. InOrder' /\ Clean /\ Quiet
    BY <1>1 DEF Clean, InOrder
  <2>2. PlacedFacts /\ order.fee = 0 /\ order.original \in Int
    BY <1>1, <2>1, ExtrasType DEF PricesInv, PlacedExplained, Paid
  <2>3. PlacedFacts'
    BY <1>0, <1>1, <1>2, <2>1, <2>2 DEF PlacedFacts
  <2>4. {r \in Drops : stops[r].priced} = Drops /\ Price = Fare * Cardinality(Drops)
    BY <1>2, <2>1, <2>2 DEF PlacedFacts, Price
  <2>5. ASSUME order.discount = 0, order.services = {} PROVE order.total = Price
    <3>1. Extras(order) = 0
      BY <2>2, <2>5, FS_EmptySet, Numbers DEF Extras
    <3>2. CASE order.original = 0
      BY <2>2, <2>5, <3>1, <3>2 DEF PlacedFacts
    <3>3. CASE order.original # 0
      BY <1>1, <2>2, <2>5, <3>3 DEF PlacedFacts, AtLeast0
    <3> QED
      BY <3>2, <3>3
  <2>6. CollectFacts'
    <3>1. collect' \in {order.total, Fare * Cardinality(Drops), -1}
      BY <1>2, <2>1, <2>4
    <3>2. collect' >= 0 => collect' \in {order.total, Fare * Cardinality(Drops)}
      BY <3>1
    <3>3. collect' >= 0 /\ order.discount = 0 /\ order.services = {} => collect' = order.total
      BY <2>4, <2>5, <3>2
    <3>4. charged' = order.total /\ order'.discount = order.discount /\ order'.services = order.services
          /\ Cardinality(Drops)' = Cardinality(Drops)
      BY <1>1, <1>2, <2>1
    <3> QED
      BY <3>2, <3>3, <3>4 DEF CollectFacts
  <2> QED
    BY <2>3, <2>6
<1> QED
  BY <1>3, <1>4, <1>5 DEF PricesInv

LEMMA PriorityPrices ==
  ASSUME EditsInv, PricesInv, NEW c \in Calls, WritePriority(c)
  PROVE  PricesInv'
<1>0. End(c) /\ at[c] = "write" /\ edit[c].op = "prioritize" /\ UNCHANGED <<stops, charged, collect>>
  BY DEF WritePriority, Writing
<1>1. PICK S : NoteAll(c, S) /\ NoBase(saw[c].order) \subseteq S
  BY DEF WritePriority
<1>2. /\ incidents \subseteq incidents'
      /\ Drops' = Drops /\ Pickups' = Pickups /\ Price' = Price /\ Price \in Nat
      /\ Quiet' => Quiet
      /\ InOrder' => InOrder /\ CallsChecked /\ OrderTypes /\ saw[c].order = order
  BY <1>0, <1>1, BetweenEdits
<1>3. ASSUME InOrder'
      PROVE  /\ order'.total = order.total + Fee /\ order'.original = Base(order)
             /\ order'.discount = order.discount /\ order'.coins = order.coins /\ order'.promo = order.promo
             /\ order'.services = order.services /\ order'.fee = Fee
             /\ Extras(order') = Extras(order) + Fee
             /\ Base(order) + Extras(order) < order.discount => "below_zero" \in incidents'
             /\ order.original = 0 /\ Extras(order) # order.discount => "no_base" \in incidents'
             /\ order.total \in Int /\ order.original \in Int /\ order.discount \in Int
             /\ Extras(order) \in Int /\ Base(order) \in Int
  <2>1. OrderTypes /\ order.fee = 0 /\ saw[c].order = order
    BY <1>0, <1>2, <1>3 DEF CallsChecked, Checked
  <2>2. order' = [status |-> order.status, total |-> order.total + Fee, original |-> Base(order),
                      discount |-> order.discount, coins |-> order.coins, promo |-> order.promo,
                      services |-> order.services, fee |-> Fee]
        /\ (Base(order) + Extras(order) < order.discount => "below_zero" \in incidents')
    BY <1>3, <2>1, PriorityWrites
  <2>3. order.original = 0 /\ Extras(order) # order.discount => "no_base" \in incidents'
    BY <1>1, <2>1 DEF NoteAll, NoBase, When
  <2>4. Extras(order') = Extras(order) + Fee
    <3>1. Cardinality(order.services) \in Nat
      BY <2>1, FS_CardinalityType DEF OrderTypes
    <3>2. ServiceValue * Cardinality(order.services) \in Int
      BY <3>1, Numbers
    <3>3. Extras(order) = ServiceValue * Cardinality(order.services) + 0
          /\ Extras(order') = ServiceValue * Cardinality(order.services) + Fee
      BY <2>1, <2>2 DEF Extras
    <3> QED
      BY <3>2, <3>3, Numbers
  <2>5. /\ order.total \in Int /\ order.original \in Int /\ order.discount \in Int
        /\ Extras(order) \in Int /\ Base(order) \in Int
    BY <2>1, ExtrasType
  <2> QED
    BY <2>2, <2>3, <2>4, <2>5
<1>4. DiscountExplained'
  BY <1>2, <1>3 DEF PricesInv, DiscountExplained
<1>5. TotalExplained'
  <2> SUFFICES ASSUME Plain', Quiet' PROVE (order.total = AtLeast0(FullPrice + Extras(order) - order.discount))'
    BY DEF TotalExplained
  <2>1. InOrder' /\ Plain /\ Quiet /\ "no_base" \notin incidents' /\ "below_zero" \notin incidents'
    BY <1>2 DEF Plain, InOrder
  <2>2. order.total = AtLeast0(FullPrice + Extras(order) - order.discount)
    BY <2>1 DEF PricesInv, TotalExplained
  <2>3. order.original = 0 => order.total = Price
    BY <1>2, <1>3, <2>1, <2>2 DEF FullPrice, AtLeast0
  <2>4. FullPrice = Base(order) /\ FullPrice' = Base(order)
    BY <1>2, <1>3, <2>1, <2>3 DEF FullPrice, Base
  <2>5. order.total = Base(order) + Extras(order) - order.discount
    BY <1>3, <2>1, <2>2, <2>4 DEF AtLeast0
  <2> QED
    BY <1>3, <2>1, <2>4, <2>5, Numbers DEF AtLeast0
<1>6. PlacedExplained'
  <2> SUFFICES ASSUME Clean', Quiet' PROVE PlacedFacts' /\ CollectFacts'
    BY DEF PlacedExplained
  <2>1. InOrder' /\ Clean /\ Quiet /\ "no_base" \notin incidents'
    BY <1>2 DEF Clean, InOrder
  <2>2. PlacedFacts /\ CollectFacts
    BY <2>1 DEF PricesInv, PlacedExplained
  <2>3. CollectFacts'
    BY <1>0, <1>2, <1>3, <2>1, <2>2 DEF CollectFacts
  <2>4. order.original = 0 => order.total = Price
    BY <1>3, <2>1, <2>2 DEF PlacedFacts
  <2>5. order'.original # 0 => order'.original = Price'
    BY <1>2, <1>3, <2>1, <2>2, <2>4 DEF PlacedFacts, Base
  <2>6. order'.original = 0 => Extras(order') # order'.discount
    BY <1>3, <2>1, Numbers DEF Base
  <2>7. order'.fee # 0
    BY <1>3, <2>1, Numbers
  <2> QED
    BY <1>0, <1>2, <2>2, <2>3, <2>5, <2>6, <2>7 DEF PlacedFacts
<1> QED
  BY <1>4, <1>5, <1>6 DEF PricesInv

(* The price of the stops alone. *)
LEMMA RepricePrices ==
  ASSUME EditsInv, PricesInv, NEW c \in Calls, Reprice(c)
  PROVE  PricesInv'
<1>0. End(c) /\ at[c] = "reprice" /\ UNCHANGED <<charged, collect>>
      /\ NoteAll(c, When(order.original # 0 \/ Extras(order) # order.discount, "frozen"))
  BY DEF Reprice, moneyVars
<1>1. incidents \subseteq incidents'
  BY <1>0 DEF NoteAll
<1>2. (Plain' \/ Clean') => order.original = 0 /\ Extras(order) = order.discount /\ InOrder'
  BY <1>0 DEF Plain, Clean, InOrder, NoteAll, When
<1>3. ASSUME InOrder'
      PROVE  /\ order'.total = Price /\ order'.original = order.original
             /\ order'.discount = order.discount /\ order'.coins = order.coins /\ order'.promo = order.promo
             /\ Extras(order') = Extras(order)
             /\ Drops' = Drops /\ Pickups' = Pickups /\ Price' = Price
             /\ Pickups # {} => \A r \in Drops : stops'[r].priced
             /\ collect' = -1 /\ InOrder /\ order.discount \in Int
  <2>1. InOrder /\ OrderTypes /\ StopTypes /\ Paid /\ order.status = "PROGRESS"
    BY <1>0, <1>3, Fresh, NotPlaced DEF EditsInv
  <2> DEFINE complete == Drops # {} /\ Pickups # {}
  <2>2. /\ order' = [status |-> order.status,
                      total |-> IF complete THEN Fare * Cardinality(Drops) ELSE 0,
                      original |-> order.original, discount |-> order.discount,
                      coins |-> order.coins, promo |-> order.promo,
                      services |-> order.services, fee |-> order.fee]
         /\ stops' = [r \in Rows |-> IF complete /\ r \in Drops
                                       THEN [stops[r] EXCEPT !.priced = TRUE] ELSE stops[r]]
    BY <1>3, <2>1, RepriceWrites
  <2>3. \A r \in Rows : [stops[r] EXCEPT !.priced = TRUE].type = stops[r].type
                        /\ [stops[r] EXCEPT !.priced = TRUE].priced = TRUE
    BY <2>1 DEF StopTypes, IsStop
  <2>4. \A r \in Rows : stops'[r].type = stops[r].type
    BY <2>2, <2>3
  <2>5. Drops' = Drops /\ Pickups' = Pickups /\ Price' = Price
    BY <2>4 DEF Drops, Pickups, Of, Price
  <2>6. Pickups # {} => \A r \in Drops : stops'[r].priced
    BY <2>2, <2>3 DEF Drops, Of
  <2>7. Drops = {} => Fare * Cardinality(Drops) = 0
    BY FS_EmptySet, Numbers
  <2>8. order'.total = Price
    BY <2>2, <2>7 DEF Price
  <2> QED
    BY <1>0, <2>1, <2>2, <2>5, <2>6, <2>8 DEF Extras, Paid, OrderTypes
<1>4. DiscountExplained'
  BY <1>1, <1>3 DEF PricesInv, DiscountExplained
<1>5. TotalExplained'
  <2> SUFFICES ASSUME Plain' PROVE (order.total = AtLeast0(FullPrice + Extras(order) - order.discount))'
    BY DEF TotalExplained
  <2>1. FullPrice' = Price /\ Price \in Nat
    BY <1>2, <1>3, PriceType DEF FullPrice
  <2> QED
    BY <1>2, <1>3, <2>1 DEF AtLeast0
<1>6. PlacedExplained'
  BY <1>2, <1>3 DEF PlacedExplained, PlacedFacts, CollectFacts
<1> QED
  BY <1>4, <1>5, <1>6 DEF PricesInv

(* The other steps. *)
LEMMA OtherPrices ==
  ASSUME EditsInv, PricesInv, NEW c \in Calls,
         \/ Read(c)
         \/ CreatePickup(c) \/ CreateDrop(c) \/ DeleteStop(c) \/ ListStops(c) \/ Resequence(c)
         \/ WriteDetails(c) \/ Recalculate(c) \/ WriteSequences(c) \/ Fail(c)
  PROVE  PricesInv'
<1>1. CASE Read(c)
  <2>1. PICK op, arg : Begin(c, op, arg)
    BY <1>1, ReadChecks DEF BeginsChecked
  <2>2. UNCHANGED <<order, stops, charged, collect, incidents>>
    BY <2>1 DEF Begin, moneyVars
  <2>3. Quiet' => Quiet
    BY <2>1, QuietBefore DEF Begin, EditsInv, CallsAre
  <2> QED
    BY <2>2, <2>3, SamePlaces, PricesStay
<1>2. CASE \/ CreatePickup(c) \/ CreateDrop(c) \/ DeleteStop(c) \/ ListStops(c) \/ Resequence(c)
           \/ WriteDetails(c) \/ Recalculate(c)
  <2>1. UNCHANGED <<order, charged, collect>>
    BY <1>2 DEF CreatePickup, CreateDrop, DeleteStop, ListStops, Resequence, WriteDetails, Recalculate, moneyVars
  <2>2. incidents \subseteq incidents'
    BY <1>2 DEF CreatePickup, CreateDrop, DeleteStop, ListStops, Resequence, WriteDetails, Recalculate, NoteAll
  <2>3. PICK step \in {"recalculate", "list", "resequence", "reprice"} : Goto(c, step)
    BY <1>2 DEF CreatePickup, CreateDrop, DeleteStop, ListStops, Resequence, WriteDetails, Recalculate
  <2>4. ~Quiet'
    BY <2>3 DEF Goto, Quiet, EditsInv, CallsAre
  <2> QED
    BY <2>1, <2>2, <2>4, PricesStay
<1>3. CASE WriteSequences(c)
  <2>1. UNCHANGED <<order, charged, collect>> /\ incidents \subseteq incidents' /\ End(c) /\ at[c] = "write"
    BY <1>3 DEF WriteSequences, moneyVars, NoteAll, Writing
  <2>2. Quiet' => Quiet
    BY <2>1, QuietBefore DEF End, EditsInv, CallsAre
  <2>3. ASSUME InOrder' PROVE Drops' = Drops /\ Pickups' = Pickups /\ \A r \in Drops : stops[r].priced => stops'[r].priced
    <3>1. StopTypes
      BY <1>3, <2>3, Fresh DEF WriteSequences, EditsInv
    <3>2. PICK pickup : stops' = [r \in Rows |->
            CASE r = pickup -> [stops[r] EXCEPT !.sequence = 1]
              [] r \in DOMAIN edit[c].arg -> [stops[r] EXCEPT !.sequence = edit[c].arg[r] + 1]
              [] OTHER -> stops[r]]
      BY <1>3 DEF WriteSequences
    <3>3. \A r \in Rows : \A n : [stops[r] EXCEPT !.sequence = n].type = stops[r].type
                             /\ [stops[r] EXCEPT !.sequence = n].priced = stops[r].priced
      BY <3>1 DEF StopTypes, IsStop
    <3>4. \A r \in Rows : stops'[r].type = stops[r].type /\ stops'[r].priced = stops[r].priced
      BY <3>2, <3>3
    <3> QED
      BY <3>4 DEF Drops, Pickups, Of
  <2> QED
    BY <2>1, <2>2, <2>3, PricesStay
<1>4. CASE Fail(c)
  <2>1. UNCHANGED <<order, stops, charged, collect>> /\ incidents \subseteq incidents' /\ End(c) /\ at[c] # "idle"
    BY <1>4 DEF Fail, moneyVars
  <2>2. at[c] # "write" => "unpriced" \in incidents'
    BY <1>4 DEF Fail, When
  <2>3. Quiet' /\ at[c] = "write" => Quiet
    BY <2>1, QuietBefore DEF End, EditsInv, CallsAre
  <2> QED
    BY <2>1, <2>2, <2>3, SamePlaces, PricesStay
<1> QED
  BY <1>1, <1>2, <1>3, <1>4

LEMMA PricesStep == EditsInv /\ PricesInv /\ [Next]_vars => PricesInv'
<1> SUFFICES ASSUME EditsInv, PricesInv, [Next]_vars PROVE PricesInv'
  OBVIOUS
<1>1. CASE UNCHANGED vars
  <2>1. UNCHANGED <<order, stops, charged, collect, incidents, at>>
    BY <1>1 DEF vars, moneyVars, callVars
  <2>2. Quiet' => Quiet
    BY <2>1 DEF Quiet
  <2> QED
    BY <2>1, <2>2, SamePlaces, PricesStay
<1>2. ASSUME NEW c \in Calls, Read(c) \/ Write(c) PROVE PricesInv'
  BY <1>2, OtherPrices, RepricePrices, DiscountPrices, RemovalPrices, ServicePrices, PlacedPrices, PriorityPrices DEF Write
<1> QED
  BY <1>1, <1>2 DEF Next

(* While no write overlapped, the types hold, every call in flight has      *)
(* checked what it relies on, nothing is paid before the order is placed,  *)
(* and afterwards the total is what was charged and the fees.              *)
THEOREM EditsChecked == Spec => []EditsInv
BY EditsInit, EditsStep, PTL DEF Spec

(* Between edits that came one after the other, the total is explained by   *)
(* the stops, the services, the discount and the fee, and the discount by  *)
(* the coins and the promo code.                                           *)
THEOREM PricesAlwaysExplained == Spec => []PriceExplained
<1>1. PricesInv => PriceExplained
  BY DEF PricesInv, TotalExplained, DiscountExplained, Plain, InOrder, FullPrice, Price, PriceExplained
<1> QED
  BY <1>1, EditsChecked, PricesInit, PricesStep, PTL DEF Spec

(* The total of a placed order is what was charged for it and paid for its  *)
(* priority, and what the rider is to collect is that price, or the price  *)
(* of the stops, which is the same for an order without discount and       *)
(* services.                                                               *)
THEOREM PlacedPricesStand == Spec => []PlacedPriceStands
<1>1. EditsInv /\ PricesInv => PlacedPriceStands
  BY DEF EditsInv, InOrder, Paid, PricesInv, PlacedExplained, Clean, CollectFacts, PlacedPriceStands
<1> QED
  BY <1>1, EditsChecked, PricesInit, PricesStep, PTL DEF Spec

-----------------------------------------------------------------------------
(* The stops.  Between two writes there is one pickup at most, and no two  *)
(* places share a sequence, no two drops a destination.                    *)

StopsRuled == {"overlapped", "partial_list", "late_pickup"} \cap incidents = {}

Places == Pickups \cup Drops

StopsFacts ==
  /\ \A r \in Rows : stops[r].sequence \in Nat
  /\ \A r, q \in Pickups : r = q
  /\ \A r, q \in Places : r # q => stops[r].sequence # stops[q].sequence
  /\ \A r, q \in Drops : r # q => stops[r].dest # stops[q].dest

StopsInv == StopsRuled => StopsFacts

(* A set of numbers has a least one. *)
LEMMA LeastNumber ==
  ASSUME NEW T \in SUBSET Nat, T # {}
  PROVE  \E i \in T : \A k \in T : i <= k
<1>1. PICK i \in T : \A k \in T : <<k, i>> \notin OpToRel(<, Nat)
  BY NatLessThanWellFounded, WFMin
<1>2. \A k \in T : ~(k < i)
  BY <1>1 DEF OpToRel
<1> QED
  BY <1>2

(* A finite set of numbers has a largest one. *)
LEMMA LargestNumber ==
  ASSUME NEW S, IsFiniteSet(S), S \subseteq Nat, S # {}
  PROVE  \E n \in S : \A m \in S : m <= n
<1> DEFINE Without == {T \in SUBSET S : T # {} /\ ~\E n \in T : \A m \in T : m <= n}
           Sizes == {k \in Nat : \E T \in Without : Cardinality(T) = k}
<1>1. SUFFICES ASSUME Without # {} PROVE FALSE
  OBVIOUS
<1>2. \A T \in SUBSET S : IsFiniteSet(T) /\ Cardinality(T) \in Nat
  BY FS_Subset, FS_CardinalityType
<1>3. Sizes # {} /\ Sizes \subseteq Nat
  BY <1>1, <1>2
<1>4. PICK k \in Sizes : \A m \in Sizes : k <= m
  BY <1>3, LeastNumber
<1>5. PICK T \in Without : Cardinality(T) = k
  OBVIOUS
<1>6. PICK x \in T : TRUE
  OBVIOUS
<1>7. Cardinality(T \ {x}) = Cardinality(T) - 1 /\ Cardinality(T) \in Nat /\ T \ {x} \in SUBSET S
  BY <1>2, <1>5, <1>6, FS_RemoveElement
<1>8. T \ {x} \notin Without
  <2>1. Cardinality(T \ {x}) < k /\ Cardinality(T \ {x}) \in Nat
    BY <1>2, <1>5, <1>7
  <2>2. Cardinality(T \ {x}) \notin Sizes
    <3> HIDE DEF Sizes
    <3>1. k \in Nat /\ (\A m \in Sizes : k <= m)
      BY <1>3, <1>4
    <3> DEFINE size == Cardinality(T \ {x})
    <3>2. size < k /\ size \in Nat
      BY <2>1
    <3> HIDE DEF size
    <3>3. size \notin Sizes
      BY <3>1, <3>2
    <3> QED
      BY <3>3 DEF size
  <2> QED
    BY <2>1, <2>2
<1>9. CASE T \ {x} = {}
  BY <1>5, <1>6, <1>9
<1>10. CASE T \ {x} # {}
  <2>1. PICK n \in T \ {x} : \A m \in T \ {x} : m <= n
    BY <1>7, <1>8, <1>10
  <2>2. n \in Nat /\ x \in Nat
    BY <1>5, <1>6
  <2>3. CASE x <= n
    BY <1>5, <2>1, <2>3
  <2>4. CASE ~(x <= n)
    <3>1. \A m \in T : m <= x
      BY <1>5, <2>1, <2>2, <2>4
    <3> QED
      BY <1>5, <1>6, <3>1
  <2> QED
    BY <2>3, <2>4
<1> QED
  BY <1>9, <1>10

-----------------------------------------------------------------------------
LEMMA StopsInit == Init => StopsInv
<1> SUFFICES ASSUME Init PROVE StopsFacts
  BY DEF StopsInv
<1> USE DEF StopsFacts, Places, Pickups, Drops, Of
<1>1. CASE stops = [r \in Rows |-> Unused]
  BY <1>1 DEF Unused
<1>2. ASSUME NEW p \in Rows, NEW d \in Rows, NEW to, p # d,
               stops = [r \in Rows |->
                 CASE r = p -> [Unused EXCEPT !.type = "PICKUP", !.sequence = 1]
                   [] r = d -> [type |-> "DROP", dest |-> to, sequence |-> 2, priced |-> TRUE]
                   [] OTHER -> Unused]
      PROVE  StopsFacts
  <2>1. stops[p].type = "PICKUP" /\ stops[d].type = "DROP" /\ stops[p].sequence = 1 /\ stops[d].sequence = 2
          /\ \A r \in Rows \ {p, d} : stops[r].type = "none" /\ stops[r].sequence = 0
    BY <1>2, NewStops DEF Unused
  <2> QED
    BY <1>2, <2>1
<1> QED
  BY <1>1, <1>2 DEF Init

(* A write that keeps the places, their sequences and destinations. *)
LEMMA StopsStay ==
  ASSUME StopsInv, incidents \subseteq incidents',
         StopsRuled' => \A r \in Rows : /\ stops'[r].type = stops[r].type
                                        /\ stops'[r].sequence = stops[r].sequence
                                        /\ stops'[r].dest = stops[r].dest
  PROVE  StopsInv'
BY DEF StopsInv, StopsRuled, StopsFacts, Places, Pickups, Drops, Of

(* Ruling the incidents out rules out overlapping writes. *)
LEMMA RuledInOrder == (StopsRuled => InOrder) /\ (StopsRuled' => InOrder')
BY DEF StopsRuled, InOrder

(* The writes of the stops, one lemma for each. *)
LEMMA PickupStops ==
  ASSUME EditsInv, StopsInv, NEW c \in Calls, CreatePickup(c)
  PROVE  StopsInv'
<1> SUFFICES ASSUME StopsRuled' PROVE StopsFacts'
  BY DEF StopsInv
<1> DEFINE seen == {r \in Rows : saw[c].stops[r].type = "PICKUP"}
<1>1. PICK S : NoteAll(c, S) /\ S = When(seen = {} /\ \E r \in Drops : stops[r].sequence = 1, "late_pickup")
  BY DEF CreatePickup
<1>2. saw[c].stops = stops /\ InOrder /\ incidents \subseteq incidents' /\ S \subseteq incidents'
  BY <1>1, RuledInOrder, Fresh
<1>3. StopsFacts /\ StopTypes /\ seen = Pickups
  BY <1>2 DEF StopsInv, StopsRuled, EditsInv, Pickups, Of
<1>4. CASE seen # {}
  <2>1. stops' = stops
    BY <1>4 DEF CreatePickup
  <2> QED
    BY <1>3, <2>1 DEF StopsFacts, Places, Pickups, Drops, Of
<1>5. CASE seen = {}
  <2>1. PICK r \in Of("none") : stops' = [stops EXCEPT ![r] = [Unused EXCEPT !.type = "PICKUP", !.sequence = 1]]
    BY <1>5 DEF CreatePickup
  <2>2. r \in Rows /\ stops'[r].type = "PICKUP" /\ stops'[r].sequence = 1 /\ \A q \in Rows \ {r} : stops'[q] = stops[q]
    BY <1>3, <2>1, NewStops DEF StopTypes, Of
  <2>3. \A q \in Drops : stops[q].sequence # 1
    BY <1>1, <1>2, <1>5 DEF StopsRuled, When
  <2>4. Pickups' = {r} /\ Drops' = Drops /\ r \notin Drops
    BY <1>3, <1>5, <2>1, <2>2 DEF Pickups, Drops, Of
  <2> QED
    BY <1>3, <2>2, <2>3, <2>4 DEF StopsFacts, Places, Drops, Of
<1> QED
  BY <1>4, <1>5

LEMMA DropStops ==
  ASSUME EditsInv, StopsInv, NEW c \in Calls, CreateDrop(c)
  PROVE  StopsInv'
<1> SUFFICES ASSUME StopsRuled' PROVE StopsFacts'
  BY DEF StopsInv
<1> DEFINE used == {saw[c].stops[r].sequence : r \in Rows} \cup {1}
           last == CHOOSE n \in used : \A m \in used : m <= n
<1>1. NoteAll(c, {})
  BY DEF CreateDrop
<1>2. saw[c].stops = stops /\ InOrder /\ incidents \subseteq incidents'
  BY <1>1, RuledInOrder, Fresh
<1>3. StopsFacts /\ StopTypes /\ CallsChecked
  BY <1>2 DEF StopsInv, StopsRuled, EditsInv
<1>4. used = {stops[r].sequence : r \in Rows} \cup {1}
  BY <1>2
<1>5. last \in Nat /\ \A r \in Rows : stops[r].sequence <= last
  <2> DEFINE numbers == {stops[r].sequence : r \in Rows}
             f == [r \in Rows |-> stops[r].sequence]
  <2>1. f \in Surjection(Rows, numbers)
    BY DEF Surjection
  <2>2. IsFiniteSet(numbers)
    BY <2>1, Numbers, FS_Surjection
  <2>3. used = numbers \cup {1} /\ numbers \subseteq Nat
    BY <1>3, <1>4 DEF StopsFacts
  <2> HIDE DEF numbers, f, used
  <2>4. IsFiniteSet(numbers \cup {1})
    BY <2>2, FS_AddElement
  <2>5. IsFiniteSet(used) /\ used \subseteq Nat /\ used # {}
    BY <2>3, <2>4
  <2>6. \E n \in used : \A m \in used : m <= n
    BY <2>5, LargestNumber
  <2>7. last \in used /\ \A m \in used : m <= last
    BY <2>6
  <2>8. \A r \in Rows : stops[r].sequence \in used
    BY <2>3 DEF numbers
  <2> HIDE DEF last
  <2> QED
    BY <2>5, <2>7, <2>8
<1>6. PICK r \in Of("none") :
       stops' = [stops EXCEPT ![r] = [type |-> "DROP", dest |-> edit[c].arg, sequence |-> last + 1, priced |-> FALSE]]
  BY DEF CreateDrop
<1> HIDE DEF last, used
<1>7. /\ r \in Rows /\ stops[r].type = "none" /\ \A q \in Rows \ {r} : stops'[q] = stops[q]
      /\ stops'[r].type = "DROP" /\ stops'[r].sequence = last + 1 /\ stops'[r].dest = edit[c].arg
  BY <1>3, <1>6 DEF StopTypes, Of
<1>8. \A q \in Drops : stops[q].dest # edit[c].arg
  BY <1>2, <1>3 DEF CreateDrop, Writing, CallsChecked, Checked, Drops, Of
<1>9. Pickups' = Pickups /\ Drops' = Drops \cup {r} /\ r \notin Pickups \cup Drops
  BY <1>7 DEF Pickups, Drops, Of
<1>10. \A q \in Rows : stops[q].sequence # last + 1
  BY <1>3, <1>5 DEF StopsFacts
<1>11. \A q \in Pickups \cup Drops : q \in Rows
  BY DEF Pickups, Drops, Of
<1> QED
  BY <1>3, <1>5, <1>7, <1>8, <1>9, <1>10, <1>11 DEF StopsFacts, Places

LEMMA DeleteStops ==
  ASSUME EditsInv, StopsInv, NEW c \in Calls, DeleteStop(c)
  PROVE  StopsInv'
<1> SUFFICES ASSUME StopsRuled' PROVE StopsFacts'
  BY DEF StopsInv
<1>1. NoteAll(c, {}) /\ stops' = [stops EXCEPT ![edit[c].arg] = [Unused EXCEPT !.type = "gone"]]
  BY DEF DeleteStop
<1>2. InOrder /\ incidents \subseteq incidents'
  BY <1>1, RuledInOrder, Fresh
<1>3. StopsFacts /\ StopTypes
  BY <1>2 DEF StopsInv, StopsRuled, EditsInv
<1>4. \A r \in Rows : \/ stops'[r] = stops[r]
                      \/ stops'[r].type = "gone" /\ stops'[r].sequence = 0
  BY <1>1, <1>3, NewStops DEF StopTypes
<1> QED
  BY <1>3, <1>4 DEF StopsFacts, Places, Pickups, Drops, Of

LEMMA ResequenceStops ==
  ASSUME EditsInv, StopsInv, NEW c \in Calls, Resequence(c)
  PROVE  StopsInv'
<1> SUFFICES ASSUME StopsRuled' PROVE StopsFacts'
  BY DEF StopsInv
<1> DEFINE remaining == {r \in Rows : saw[c].stops[r].type \in {"PICKUP", "DROP"}}
<1>1. NoteAll(c, {})
  BY DEF Resequence
<1>2. InOrder /\ incidents \subseteq incidents' /\ saw[c].stops = stops
  BY <1>1, RuledInOrder, Fresh
<1>3. StopsFacts /\ StopTypes /\ remaining = Places
  BY <1>2 DEF StopsInv, StopsRuled, EditsInv, Places, Pickups, Drops, Of
<1>4. PICK index \in [remaining -> 1 .. Cardinality(remaining)] :
         /\ \A r, q \in remaining : index[r] = index[q] => r = q
         /\ stops' = [r \in Rows |-> IF r \in remaining
                                       THEN [stops[r] EXCEPT !.sequence = index[r]]
                                       ELSE stops[r]]
  BY DEF Resequence
<1> HIDE DEF remaining
<1>5. \A r \in Rows : \A n : [stops[r] EXCEPT !.sequence = n].type = stops[r].type
                         /\ [stops[r] EXCEPT !.sequence = n].dest = stops[r].dest
                         /\ [stops[r] EXCEPT !.sequence = n].sequence = n
  BY <1>3 DEF StopTypes, IsStop
<1>6. \A r \in Rows : /\ stops'[r].type = stops[r].type /\ stops'[r].dest = stops[r].dest
                      /\ stops'[r].sequence = IF r \in remaining THEN index[r] ELSE stops[r].sequence
  BY <1>4, <1>5
<1>7. Pickups' = Pickups /\ Drops' = Drops /\ Places' = Places /\ Places \subseteq Rows
  BY <1>6 DEF Places, Pickups, Drops, Of
<1>8. \A r \in remaining : index[r] \in Nat
  BY <1>4
<1> QED
  BY <1>3, <1>4, <1>6, <1>7, <1>8 DEF StopsFacts, Places

LEMMA SequenceStops ==
  ASSUME EditsInv, StopsInv, NEW c \in Calls, WriteSequences(c)
  PROVE  StopsInv'
<1> SUFFICES ASSUME StopsRuled' PROVE StopsFacts'
  BY DEF StopsInv
<1> DEFINE list == edit[c].arg
<1>1. PICK S : NoteAll(c, S) /\ S = When(DOMAIN list # Drops, "partial_list")
  BY DEF WriteSequences
<1>2. InOrder /\ incidents \subseteq incidents' /\ saw[c].stops = stops /\ S \subseteq incidents'
  BY <1>1, RuledInOrder, Fresh
<1>3. StopsFacts /\ StopTypes /\ DOMAIN list = Drops
  BY <1>1, <1>2 DEF StopsInv, StopsRuled, EditsInv, When
<1>4. list \in Lists
  BY <1>2 DEF EditsInv, CallsChecked, Checked, WriteSequences, Writing
<1>5. (\A r \in Drops : list[r] \in Nat \ {0}) /\ \A r, q \in Drops : list[r] = list[q] => r = q
  BY <1>3, <1>4 DEF Lists
<1>6. PICK pickup \in Pickups :
         stops' = [r \in Rows |->
            CASE r = pickup -> [stops[r] EXCEPT !.sequence = 1]
              [] r \in Drops -> [stops[r] EXCEPT !.sequence = list[r] + 1]
              [] OTHER -> stops[r]]
  BY <1>2, <1>3 DEF WriteSequences, Pickups, Of
<1> HIDE DEF list
<1>7. \A r \in Rows : \A n : [stops[r] EXCEPT !.sequence = n].type = stops[r].type
                         /\ [stops[r] EXCEPT !.sequence = n].dest = stops[r].dest
                         /\ [stops[r] EXCEPT !.sequence = n].sequence = n
  BY <1>3 DEF StopTypes, IsStop
<1>8. pickup \notin Drops /\ Pickups = {pickup}
  BY <1>3, <1>6 DEF Pickups, Drops, Of, StopsFacts
<1>9. \A r \in Rows : /\ stops'[r].type = stops[r].type /\ stops'[r].dest = stops[r].dest
                      /\ r = pickup => stops'[r].sequence = 1
                      /\ r \in Drops => stops'[r].sequence = list[r] + 1
                      /\ r # pickup /\ r \notin Drops => stops'[r].sequence = stops[r].sequence
  BY <1>6, <1>7, <1>8
<1>10. Pickups' = Pickups /\ Drops' = Drops /\ Places' = Places /\ Places = {pickup} \cup Drops /\ Places \subseteq Rows
  BY <1>8, <1>9 DEF Places, Pickups, Drops, Of
<1> QED
  BY <1>3, <1>5, <1>8, <1>9, <1>10 DEF StopsFacts

LEMMA StopsStep == EditsInv /\ StopsInv /\ [Next]_vars => StopsInv'
<1> SUFFICES ASSUME EditsInv, StopsInv, [Next]_vars PROVE StopsInv'
  OBVIOUS
<1>1. CASE UNCHANGED vars
  BY <1>1, StopsStay DEF vars
<1>2. ASSUME NEW c \in Calls, Read(c) PROVE StopsInv'
  <2>1. UNCHANGED <<stops, incidents>>
    BY <1>2, ReadChecks DEF BeginsChecked, Begin
  <2> QED
    BY <2>1, StopsStay
<1>3. ASSUME NEW c \in Calls, ListStops(c) \/ WriteDetails(c) \/ Recalculate(c) \/ Fail(c)
             \/ WriteDiscount(c) \/ WriteRemoval(c) \/ WriteService(c) \/ WriteServiceRemoval(c)
             \/ WritePlaced(c) \/ WritePriority(c)
      PROVE  StopsInv'
  <2>1. UNCHANGED stops /\ incidents \subseteq incidents'
    BY <1>3 DEF ListStops, WriteDetails, Recalculate, Fail, WriteDiscount, WriteRemoval, WriteService,
       WriteServiceRemoval, WritePlaced, WritePriority, NoteAll
  <2> QED
    BY <2>1, StopsStay
<1>4. ASSUME NEW c \in Calls, Reprice(c) PROVE StopsInv'
  <2>1. incidents \subseteq incidents'
    BY <1>4 DEF Reprice, NoteAll
  <2>2. ASSUME StopsRuled'
        PROVE  \A r \in Rows : /\ stops'[r].type = stops[r].type
                               /\ stops'[r].sequence = stops[r].sequence
                               /\ stops'[r].dest = stops[r].dest
    <3>1. StopTypes /\ OrderTypes /\ InOrder'
      BY <1>4, <2>2, RuledInOrder, Fresh DEF Reprice, EditsInv
    <3>2. stops' = [r \in Rows |-> IF (Drops # {} /\ Pickups # {}) /\ r \in Drops
                                       THEN [stops[r] EXCEPT !.priced = TRUE] ELSE stops[r]]
      BY <1>4, <3>1, RepriceWrites
    <3>3. \A r \in Rows : LET new == [stops[r] EXCEPT !.priced = TRUE] IN
            new.type = stops[r].type /\ new.sequence = stops[r].sequence /\ new.dest = stops[r].dest
      BY <3>1 DEF StopTypes, IsStop
    <3> QED
      BY <3>2, <3>3
  <2> QED
    BY <2>1, <2>2, StopsStay
<1>5. ASSUME NEW c \in Calls, Write(c) PROVE StopsInv'
  BY <1>3, <1>4, <1>5, PickupStops, DropStops, DeleteStops, ResequenceStops, SequenceStops DEF Write
<1> QED
  BY <1>1, <1>2, <1>5 DEF Next

(* One pickup, distinct sequences and distinct destinations, in the middle  *)
(* of an edit too, when edits come one after the other.                    *)
THEOREM StopsAlwaysInOrder == Spec => []StopsInOrder
<1>1. StopsInv => StopsInOrder
  <2> SUFFICES ASSUME StopsFacts
               PROVE  /\ Cardinality(Pickups) <= 1
                      /\ \A r, q \in Pickups \cup Drops : r # q =>
                           /\ stops[r].sequence # stops[q].sequence
                           /\ {r, q} \subseteq Drops => stops[r].dest # stops[q].dest
    BY DEF StopsInv, StopsRuled, StopsInOrder
  <2>1. Cardinality(Pickups) <= 1
    <3>1. CASE Pickups = {}
      BY <3>1, FS_EmptySet
    <3>2. ASSUME NEW p \in Pickups PROVE Cardinality(Pickups) <= 1
      <4>1. Pickups = {p}
        BY <3>2 DEF StopsFacts
      <4>2. Cardinality({p}) = 1
        BY FS_Singleton
      <4>3. Cardinality(Pickups) = 1
        BY <4>1, <4>2, Zenon
      <4> QED
        BY <4>3
    <3> QED
      BY <3>1, <3>2
  <2> QED
    BY <2>1 DEF StopsFacts, Places
<1> QED
  BY <1>1, EditsChecked, StopsInit, StopsStep, PTL DEF Spec

=============================================================================
