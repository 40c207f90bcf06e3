------------------------------ MODULE Presence ------------------------------
(***************************************************************************)
(* One rider's presence: the columns is_online and is_available of his     *)
(* row, his online sessions, and the cache in Redis that says which        *)
(* customers are to follow his position.  His sockets connect, disconnect  *)
(* and report positions; he goes online and offline by hand; meanwhile he  *)
(* is given orders and finishes them.                                      *)
(*                                                                         *)
(* Every event has a handler of its own, and handlers interleave at each   *)
(* await.  Nothing ties a session, the row or the cache to the socket that *)
(* made it: the last handler to write wins.  The status and position keys  *)
(* of Redis are written and never read here and are left out.              *)
(***************************************************************************)
EXTENDS Integers, FiniteSets, Incident

CONSTANTS
  Sockets,     \* sockets of the rider's devices
  Orders,      \* orders he may be given
  Handlers,    \* handlers that may run at once
  MaxSessions, \* bound: RaiderOnlineSession rows
  MaxEvents    \* bound: events that start a handler

ASSUME PresenceAssumption ==
  /\ IsFiniteSet(Sockets) /\ IsFiniteSet(Orders)
  /\ MaxSessions \in Nat /\ MaxEvents \in Nat

VARIABLES
  sockets,        \* sockets that are connected
  online,         \* Raider.is_online
  available,      \* Raider.is_available
  sessionRows,    \* RaiderOnlineSession rows, numbered in order of startAt
  openSessions,   \* those without endAt
  ongoing,        \* ONGOING orders assigned to the rider
  tracked,        \* rider:<id>:active_order_users
  loaded,         \* rider:<id>:active_order_users_loaded
  wish,           \* the rider connected or went online last, and not offline
  doing,          \* doing[h]: the event of handler h, "none" when it is free
  nextStep,       \* nextStep[h]: its next step
  heldRead,       \* heldRead[h]: the session, or the orders, it has read
  presenceEvents, \* events so far (see MaxEvents)
  presenceMishaps \* what has happened that the presence may suffer from

presenceRowVars == <<online, available, sessionRows, openSessions>>
cacheVars == <<tracked, loaded>>
presenceHandlerVars == <<doing, nextStep, heldRead>>
presenceVars == <<sockets, presenceRowVars, ongoing, cacheVars, wish, presenceHandlerVars, presenceEvents, presenceMishaps>>

(*   "overlapped"  a handler started, or an order came or went, while a     *)
(*                 handler was running                                     *)
(*   "closed_one"  a socket was closed while another one stayed connected  *)
(*   "unmapped"    an order was given without an entry in the cache        *)
(*   "cut_short"   a handler failed, or the process died                   *)
(*   "part loaded" an entry was made in a cache that was not loaded        *)
PresenceMishaps == {"overlapped", "closed_one", "unmapped", "cut_short", "part loaded"}

NothingRead == [session |-> 0, orders |-> {}]

PresenceTypeOK ==
  /\ sockets \subseteq Sockets
  /\ online \in BOOLEAN /\ available \in BOOLEAN
  /\ sessionRows \in 0 .. MaxSessions /\ openSessions \subseteq 1 .. sessionRows
  /\ ongoing \subseteq Orders /\ tracked \subseteq Orders
  /\ loaded \in BOOLEAN /\ wish \in BOOLEAN
  /\ doing \in [Handlers -> {"none", "connect", "online", "offline", "disconnect", "location"}]
  /\ nextStep \in [Handlers -> {"idle", "open", "look", "row", "list", "clear", "fill", "close"}]
  /\ heldRead \in [Handlers -> [session : 0 .. MaxSessions, orders : SUBSET Orders]]
  /\ presenceEvents \in 0 .. MaxEvents
  /\ presenceMishaps \subseteq PresenceMishaps

PresenceInit ==
  /\ sockets = {}
  /\ online = FALSE /\ available = FALSE
  /\ sessionRows = 0 /\ openSessions = {}
  /\ ongoing = {} /\ tracked = {} /\ loaded = FALSE
  /\ wish = FALSE
  /\ doing = [h \in Handlers |-> "none"]
  /\ nextStep = [h \in Handlers |-> "idle"]
  /\ heldRead = [h \in Handlers |-> NothingRead]
  /\ presenceEvents = 0
  /\ presenceMishaps = {}

-----------------------------------------------------------------------------
(* Handlers *)
Busy == \E h \in Handlers : doing[h] # "none"
Newest == IF openSessions = {} THEN 0 ELSE CHOOSE s \in openSessions : \A t \in openSessions : t <= s

(* An event starts a handler, whose first step reads r. *)
Start(h, event, step, r) ==
  /\ doing[h] = "none"
  /\ presenceEvents < MaxEvents
  /\ presenceEvents' = presenceEvents + 1
  /\ doing' = [doing EXCEPT ![h] = event]
  /\ nextStep' = [nextStep EXCEPT ![h] = step]
  /\ heldRead' = [heldRead EXCEPT ![h] = r]

Continue(h, step, r) ==
  /\ nextStep' = [nextStep EXCEPT ![h] = step]
  /\ heldRead' = [heldRead EXCEPT ![h] = r]
  /\ UNCHANGED <<doing, presenceEvents, sockets, wish, presenceMishaps>>

Finish(h) ==
  /\ doing' = [doing EXCEPT ![h] = "none"]
  /\ nextStep' = [nextStep EXCEPT ![h] = "idle"]
  /\ heldRead' = [heldRead EXCEPT ![h] = NothingRead]
  /\ UNCHANGED <<presenceEvents, sockets, wish>>

-----------------------------------------------------------------------------
(* handleConnection, handleGoOnline and setOnline *)

Online(h, event) ==
  /\ wish' = TRUE
  /\ Start(h, event, "open", [NothingRead EXCEPT !.session = Newest])
  /\ presenceMishaps' = presenceMishaps \cup When(Busy, "overlapped")
  /\ UNCHANGED <<presenceRowVars, ongoing, cacheVars>>

Connect(h, s) ==
  /\ s \notin sockets
  /\ sockets' = sockets \cup {s}
  /\ Online(h, "connect")

GoOnline(h) ==
  /\ sockets # {}
  /\ Online(h, "online")
  /\ UNCHANGED sockets

(* Mutant: a session is opened although there is one. *)
OpenSessionAnyway(h) ==
  /\ nextStep[h] = "open"
  /\ sessionRows < MaxSessions
  /\ sessionRows' = sessionRows + 1
  /\ openSessions' = openSessions \cup {sessionRows + 1}
  /\ Continue(h, "look", NothingRead)
  /\ UNCHANGED <<online, available, ongoing, cacheVars>>

OpenSession(h) ==
  /\ nextStep[h] = "open"
  /\ IF heldRead[h].session = 0
       THEN /\ sessionRows < MaxSessions
            /\ sessionRows' = sessionRows + 1
            /\ openSessions' = openSessions \cup {sessionRows + 1}
       ELSE UNCHANGED <<sessionRows, openSessions>>
  /\ Continue(h, "look", NothingRead)
  /\ UNCHANGED <<online, available, ongoing, cacheVars>>

LookForOrder(h) ==
  /\ nextStep[h] = "look"
  /\ Continue(h, "row", [NothingRead EXCEPT !.orders = ongoing])
  /\ UNCHANGED <<presenceRowVars, ongoing, cacheVars>>

SetOnline(h) ==
  /\ nextStep[h] = "row" /\ doing[h] \in {"connect", "online"}
  /\ online' = TRUE
  /\ available' = (heldRead[h].orders = {})
  /\ IF doing[h] = "connect"
       THEN Continue(h, "list", NothingRead)
       ELSE Finish(h) /\ UNCHANGED presenceMishaps
  /\ UNCHANGED <<sessionRows, openSessions, ongoing, cacheVars>>

(* The cache is filled from the database. *)
ListOrders(h) ==
  /\ nextStep[h] = "list"
  /\ Continue(h, "clear", [NothingRead EXCEPT !.orders = ongoing])
  /\ UNCHANGED <<presenceRowVars, ongoing, cacheVars>>

ClearCache(h) ==
  /\ nextStep[h] = "clear" /\ doing[h] = "connect"
  /\ tracked' = {}
  /\ Continue(h, "fill", heldRead[h])
  /\ UNCHANGED <<presenceRowVars, ongoing, loaded>>

FillCache(h) ==
  /\ nextStep[h] = "fill"
  /\ tracked' = tracked \cup heldRead[h].orders
  /\ loaded' = TRUE
  /\ Finish(h)
  /\ UNCHANGED <<presenceRowVars, ongoing, presenceMishaps>>

-----------------------------------------------------------------------------
(* handleDisconnect, handleGoOffline and setOffline *)

Disconnect(h, s) ==
  /\ s \in sockets
  /\ sockets' = sockets \ {s}
  /\ wish' = (wish /\ sockets' # {})
  /\ Start(h, "disconnect", "close", [NothingRead EXCEPT !.session = Newest])
  /\ presenceMishaps' = presenceMishaps \cup When(Busy, "overlapped") \cup When(sockets' # {}, "closed_one")
  /\ UNCHANGED <<presenceRowVars, ongoing, cacheVars>>

GoOffline(h) ==
  /\ sockets # {}
  /\ wish' = FALSE
  /\ Start(h, "offline", "close", [NothingRead EXCEPT !.session = Newest])
  /\ presenceMishaps' = presenceMishaps \cup When(Busy, "overlapped")
  /\ UNCHANGED <<sockets, presenceRowVars, ongoing, cacheVars>>

CloseSession(h) ==
  /\ nextStep[h] = "close"
  /\ openSessions' = openSessions \ {heldRead[h].session}
  /\ Continue(h, "row", NothingRead)
  /\ UNCHANGED <<online, available, sessionRows, ongoing, cacheVars>>

SetOffline(h) ==
  /\ nextStep[h] = "row" /\ doing[h] \in {"disconnect", "offline"}
  /\ online' = FALSE
  /\ available' = FALSE
  /\ IF doing[h] = "disconnect"
       THEN Continue(h, "clear", NothingRead)
       ELSE Finish(h) /\ UNCHANGED presenceMishaps
  /\ UNCHANGED <<sessionRows, openSessions, ongoing, cacheVars>>

DropCache(h) ==
  /\ nextStep[h] = "clear" /\ doing[h] = "disconnect"
  /\ tracked' = {}
  /\ loaded' = FALSE
  /\ Finish(h)
  /\ UNCHANGED <<presenceRowVars, ongoing, presenceMishaps>>

-----------------------------------------------------------------------------
(* handleLocation: the customers in the cache are told the position; only   *)
(* if it is empty and not loaded are the orders read from the database.    *)

Missed == ~loaded /\ tracked = {}

Location(h) ==
  /\ sockets # {}
  /\ Missed
  /\ Start(h, "location", "fill", [NothingRead EXCEPT !.orders = ongoing])
  /\ presenceMishaps' = presenceMishaps \cup When(Busy, "overlapped")
  /\ UNCHANGED <<sockets, wish, presenceRowVars, ongoing, cacheVars>>

Followed == IF Missed THEN ongoing ELSE tracked

-----------------------------------------------------------------------------
(* The competition and the administrator give an order and make its entry;  *)
(* the popup chain makes none.  The competition's winner is not available.  *)

GiveOrder(o, by) ==
  /\ o \notin ongoing
  /\ ongoing' = ongoing \cup {o}
  /\ tracked' = IF by = "popup" THEN tracked ELSE tracked \cup {o}
  /\ available' = (available /\ by # "competition")
  /\ presenceMishaps' = presenceMishaps \cup When(Busy, "overlapped")
                        \cup When(by = "popup", "unmapped")
                        \cup When(by # "popup" /\ ~loaded, "part loaded")
  /\ UNCHANGED <<sockets, online, sessionRows, openSessions, loaded, wish, presenceHandlerVars, presenceEvents>>

(* Mutant: the entry of an order that is over stays. *)
EndOrderKeepsEntry(o) ==
  /\ o \in ongoing
  /\ ongoing' = ongoing \ {o}
  /\ presenceMishaps' = presenceMishaps \cup When(Busy, "overlapped")
  /\ UNCHANGED <<sockets, presenceRowVars, cacheVars, wish, presenceHandlerVars, presenceEvents>>

(* completeStop, for the last stop, and cancelOrder. *)
EndOrder(o) ==
  /\ o \in ongoing
  /\ ongoing' = ongoing \ {o}
  /\ tracked' = tracked \ {o}
  /\ presenceMishaps' = presenceMishaps \cup When(Busy, "overlapped")
  /\ UNCHANGED <<sockets, presenceRowVars, loaded, wish, presenceHandlerVars, presenceEvents>>

(* The mark that the cache is loaded lives for an hour. *)
LoadedExpires ==
  /\ loaded
  /\ loaded' = FALSE
  /\ UNCHANGED <<sockets, presenceRowVars, ongoing, tracked, wish, presenceHandlerVars, presenceEvents, presenceMishaps>>

HandlerFails(h) ==
  /\ doing[h] # "none"
  /\ Finish(h)
  /\ presenceMishaps' = presenceMishaps \cup {"cut_short"}
  /\ UNCHANGED <<presenceRowVars, ongoing, cacheVars>>

(* The process dies: nobody is told that the sockets are gone. *)
Crash ==
  /\ sockets # {} /\ "cut_short" \notin presenceMishaps
  /\ sockets' = {} /\ wish' = FALSE
  /\ doing' = [h \in Handlers |-> "none"]
  /\ nextStep' = [h \in Handlers |-> "idle"]
  /\ heldRead' = [h \in Handlers |-> NothingRead]
  /\ presenceMishaps' = presenceMishaps \cup {"cut_short"}
  /\ UNCHANGED <<presenceRowVars, ongoing, cacheVars, presenceEvents>>

-----------------------------------------------------------------------------
HandlerStep(h) ==
  \/ OpenSession(h) \/ LookForOrder(h) \/ SetOnline(h)
  \/ ListOrders(h) \/ ClearCache(h) \/ FillCache(h)
  \/ CloseSession(h) \/ SetOffline(h) \/ DropCache(h)
  \/ HandlerFails(h)

PresenceNext ==
  \/ \E h \in Handlers :
       \/ \E s \in Sockets : Connect(h, s) \/ Disconnect(h, s)
       \/ GoOnline(h) \/ GoOffline(h) \/ Location(h)
       \/ HandlerStep(h)
  \/ \E o \in Orders :
       \/ \E by \in {"competition", "admin", "popup"} : GiveOrder(o, by)
       \/ EndOrder(o)
  \/ LoadedExpires
  \/ Crash

PresenceSpec == PresenceInit /\ [][PresenceNext]_presenceVars

-----------------------------------------------------------------------------
(* Properties *)

(* A rider is online, and has exactly one open session, when he connected   *)
(* or went online last, and otherwise neither: unless handlers overlapped,  *)
(* one of two sockets was closed (the other's session ends and its rider is *)
(* taken offline), or a handler was cut short.                             *)
OnlineSession ==
  ~Busy /\ {"overlapped", "closed_one", "cut_short"} \cap presenceMishaps = {} =>
    /\ online = wish
    /\ Cardinality(openSessions) = (IF wish THEN 1 ELSE 0)
    /\ available => online

(* The customers who are told a connected rider's position are those of the *)
(* orders he has under way, whatever he connects, goes on- and offline and  *)
(* the mark in the cache expires, unless handlers overlapped or were cut    *)
(* short, one of two sockets was closed, or an order came through the popup *)
(* chain or into a cache that was not loaded.                              *)
CustomersFollow ==
  ~Busy /\ sockets # {} /\ presenceMishaps = {} => Followed = ongoing
=============================================================================
