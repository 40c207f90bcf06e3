------------------------------- MODULE Listings -------------------------------
(***************************************************************************)
(* The lists of the application: users, orders, disputes, logs and so on,  *)
(* which clients read page by page.  A page is cut out of the rows that    *)
(* match at that moment by its number, so rows that enter or leave the     *)
(* list between two pages shift the others.  Rows and total are two        *)
(* queries, and each sees what is committed when it starts, also in a      *)
(* transaction.                                                            *)
(*                                                                         *)
(* A list is the orders it can be asked for and the way its total is made; *)
(* the filters only decide what enters and leaves.  Two rows do not have   *)
(* the same time of creation.                                              *)
(***************************************************************************)
EXTENDS Integers, FiniteSets, Incident

CONSTANTS
  LastRow,      \* rows are 1 .. LastRow, in the order of their creation
  FirstRows,    \* those in the list when the reader starts
  Limit,        \* rows of a page
  MaxShifts     \* bound: rows that enter or leave

ASSUME ListingsAssumption ==
  /\ LastRow \in Nat /\ MaxShifts \in Nat
  /\ Limit \in Nat \ {0} /\ FirstRows \subseteq 1 .. LastRow

VARIABLES
  list, sorting,       \* the list read, and the order asked for
  present,             \* rows in the list
  kept,                \* rows that were in it throughout
  page, part,          \* the page being read; what of it was read: "none", "rows", "total", "both"
  got, total,          \* the rows of the page; the total of the answer
  shown, repeated,     \* rows shown so far; a row was shown again
  finished,
  shifts,              \* see MaxShifts
  listIncidents

listVars == <<list, sorting, present, kept, page, part, got, total, shown, repeated,
              finished, shifts, listIncidents>>

(*   "left"          a row left the list while it was read                 *)
(*   "entered"       a row entered it                                      *)
(*   "unordered"     the order does not tell all rows apart, or changes    *)
(*   "page_total"    the total is that of the page                         *)
(*   "total_before"  a row entered between the total and the rows          *)
ListIncidents == {"left", "entered", "unordered", "page_total", "total_before"}

-----------------------------------------------------------------------------
(* Orders: newest first, oldest first, or by a key that rows share or that  *)
(* changes, or none.  Totals: "then", counted after the rows; "beside",     *)
(* in parallel with them; "table", after the rows and without the filter;   *)
(* "page", the rows of the page; "none".                                    *)

Lists(orders, how) == [orders |-> orders, total |-> how]
Newest == {"newest"}
BothWays == {"newest", "oldest"}
Sortable == {"newest", "oldest", "key"}

AllUsers == Lists(Sortable, "then")
PortalUsers == Lists(Sortable, "then")
OnlyUsers == Lists(Sortable, "then")
FavouriteRaiders == Lists(Newest, "then")
SavedDestinations == Lists({"key"}, "none")
CustomerOrders == Lists(Newest, "table")
RaiderOrders == Lists(Newest, "then")
OrdersOfUser == Lists(Newest, "then")
AllOrders == Lists(Newest, "then")
LiveOrders == Lists(Newest, "then")
BulkOrders == Lists(Newest, "then")
TestFeed == Lists(Newest, "then")
WalletsOfUsers == Lists({"key"}, "beside")
WalletEntries == Lists(Newest, "beside")
Transactions == Lists(Newest, "none")
DisputeList == Lists(Newest, "then")
AppealList == Lists(Newest, "then")
RiderList == Lists(BothWays, "beside")
MessageList == Lists(Newest, "beside")
NotificationInbox == Lists(Newest, "beside")
NotificationList == Lists(Newest, "beside")
NotificationHistory == Lists(Newest, "beside")
IncentiveList == Lists(BothWays, "then")
IncentiveLogs == Lists(Newest, "then")
RoleList == Lists({"oldest"}, "beside")
SurgeRules == Lists(Newest, "then")
VehicleTypeList == Lists(Newest, "beside")
DeliveryTypeList == Lists({"key"}, "beside")
ZoneList == Lists({"key"}, "page")
ActivityLogs == Lists(Newest, "beside")
FeeLogs == Lists(Newest, "then")
CoinLogs == Lists(Newest, "then")
QuizLogs == Lists(Newest, "then")
QuizResults == Lists(Sortable, "page")
ContentLogs == Lists(Newest, "then")
ConfirmationLogs == Lists(Newest, "then")
AdvertiseList == Lists(Newest, "then")
AdvertiseOfRole == Lists(Newest, "table")
AdvertiseLogs == Lists(Newest, "then")

AllLists ==
  {AllUsers, PortalUsers, OnlyUsers, FavouriteRaiders, SavedDestinations, CustomerOrders,
   RaiderOrders, OrdersOfUser, AllOrders, LiveOrders, BulkOrders, TestFeed, WalletsOfUsers,
   WalletEntries, Transactions, DisputeList, AppealList, RiderList, MessageList,
   NotificationInbox, NotificationList, NotificationHistory, IncentiveList, IncentiveLogs,
   RoleList, SurgeRules, VehicleTypeList, DeliveryTypeList, ZoneList, ActivityLogs, FeeLogs,
   CoinLogs, QuizLogs, QuizResults, ContentLogs, ConfirmationLogs, AdvertiseList,
   AdvertiseOfRole, AdvertiseLogs}

-----------------------------------------------------------------------------
RowIds == 1 .. LastRow

ListingsTypeOK ==
  /\ list \in AllLists /\ sorting \in list.orders
  /\ present \subseteq RowIds /\ kept \subseteq present
  /\ page \in Nat \ {0}
  /\ part \in {"none", "rows", "total", "both"}
  /\ got \subseteq RowIds /\ total \in Nat /\ shown \subseteq RowIds
  /\ repeated \in BOOLEAN /\ finished \in BOOLEAN
  /\ shifts \in 0 .. MaxShifts
  /\ listIncidents \subseteq ListIncidents

ListingsInit ==
  /\ list \in AllLists /\ sorting \in list.orders
  /\ present = FirstRows /\ kept = FirstRows
  /\ page = 1 /\ part = "none"
  /\ got = {} /\ total = 0
  /\ shown = {} /\ repeated = FALSE /\ finished = FALSE
  /\ shifts = 0
  /\ listIncidents = When(sorting = "key", "unordered") \cup When(list.total = "page", "page_total")

Shift ==
  /\ ~finished
  /\ shifts < MaxShifts
  /\ shifts' = shifts + 1
  /\ UNCHANGED <<list, sorting, page, part, got, total, shown, repeated, finished>>

(* A row is made, or comes to match the filter. *)
Enter(i) ==
  /\ i \notin present
  /\ Shift
  /\ present' = present \cup {i}
  /\ listIncidents' = listIncidents \cup {"entered"} \cup When(part = "total", "total_before")
  /\ UNCHANGED kept

Leave(i) ==
  /\ i \in present
  /\ Shift
  /\ present' = present \ {i}
  /\ kept' = kept \ {i}
  /\ listIncidents' = listIncidents \cup {"left"}

-----------------------------------------------------------------------------
(* Mutant: the first page skips a page. *)
SkipOneMore(p) == p * Limit

(* (page - 1) * limit *)
Skip(p) == (p - 1) * Limit

Places(p) == Skip(p) + 1 .. Skip(p) + Limit

(* The place of a row, and the page cut out of the rows. *)
Place(i) ==
  Cardinality({j \in present : IF sorting = "oldest" THEN j <= i ELSE j >= i})

(* Without an order that tells rows apart the database takes any rows. *)
PagesOf(p) ==
  IF sorting = "key"
  THEN {s \in SUBSET present : Cardinality(s) = Cardinality(Places(p) \cap 1 .. Cardinality(present))}
  ELSE {{i \in present : Place(i) \in Places(p)}}

ReadRows ==
  /\ ~finished
  /\ part \in (IF list.total = "beside" THEN {"none", "total"} ELSE {"none"})
  /\ got' \in PagesOf(page)
  /\ part' = IF part = "total" \/ list.total \in {"page", "none"} THEN "both" ELSE "rows"
  /\ total' = IF list.total = "page" THEN Cardinality(got') ELSE total
  /\ shown' = shown \cup got'
  /\ repeated' = (repeated \/ got' \cap shown # {})
  /\ UNCHANGED <<list, sorting, present, kept, page, finished, shifts, listIncidents>>

(* A total without the filter counts rows that are never listed; one here. *)
ReadTotal ==
  /\ ~finished
  /\ \/ part = "rows"
     \/ part = "none" /\ list.total = "beside"
  /\ total' = Cardinality(present) + (IF list.total = "table" THEN 1 ELSE 0)
  /\ part' = IF part = "rows" THEN "both" ELSE "total"
  /\ UNCHANGED <<list, sorting, present, kept, page, got, shown, repeated, finished,
                 shifts, listIncidents>>

(* The client goes on to the next page while the total says that there is   *)
(* one or, without a total, while pages are full.                          *)
More == IF list.total = "none" THEN Cardinality(got) = Limit ELSE page * Limit < total

Turn ==
  /\ ~finished /\ part = "both"
  /\ IF More
     THEN page' = page + 1 /\ finished' = FALSE
     ELSE page' = page /\ finished' = TRUE
  /\ part' = "none" /\ got' = {} /\ total' = 0
  /\ UNCHANGED <<list, sorting, present, kept, shown, repeated, shifts, listIncidents>>

ListingsNext ==
  \/ \E i \in RowIds : Enter(i) \/ Leave(i)
  \/ ReadRows
  \/ ReadTotal
  \/ Turn

ListingsSpec == ListingsInit /\ [][ListingsNext]_listVars

-----------------------------------------------------------------------------
(* Properties *)

(* Whoever reads a list to its end has been shown every row that was in it  *)
(* all the time, although others entered, and none twice unless some did:  *)
(* unless a row left meanwhile, the order does not tell rows apart, the    *)
(* total is that of the page, or was counted before a row entered.         *)
ReaderSeesAll ==
  {"unordered", "page_total"} \cap listIncidents = {} =>
    /\ finished /\ {"left", "total_before"} \cap listIncidents = {} => kept \subseteq shown
    /\ "entered" \notin listIncidents => ~repeated
=============================================================================
