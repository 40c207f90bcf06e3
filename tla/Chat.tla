-------------------------------- MODULE Chat --------------------------------
(***************************************************************************)
(* The chat of customer and rider (message.gateway.ts, message.service.ts): *)
(* the server keeps in Redis which socket a user has and which user a      *)
(* socket has, saves a message, and sends it to the receiver's socket, or  *)
(* as a push notification when the receiver has none.                      *)
(*                                                                         *)
(* A pair of users has one conversation, which keeps the order it was made *)
(* for.  Receivers have a device token; the push queue is module Pushes.   *)
(***************************************************************************)
EXTENDS Integers, FiniteSets, Incident

CONSTANTS
  Chatters,     \* the two users
  Writers,      \* bound: those of them who write
  ChatSockets,  \* each is opened once
  Messages,
  ChatOrders,   \* orders they write about
  MaxRestarts   \* bound

ASSUME ChatAssumption ==
  /\ Cardinality(Chatters) = 2 /\ Writers \subseteq Chatters
  /\ "none" \notin Chatters \cup ChatSockets \cup ChatOrders /\ MaxRestarts \in Nat

VARIABLES
  owner,              \* whose socket it is; "none" before it is opened
  linked,             \* the socket is open on the client's side
  opening, closing,   \* its handleConnection and handleDisconnect: the step that is next
  socketKey,          \* Redis socket:<id> -> user
  userKey,            \* Redis user:<id> -> socket
  conversation,       \* the order of the pair's conversation, "none" before it is made
  message,            \* its step: "none", "find", "save", "look", "push", "done", "cut"
  receiver, about,    \* whom it is for, and the order it is about
  way,                \* how it left: "none", "socket", "push"
  wasOn,              \* whether its receiver had an open socket when it left
  restarts,           \* see MaxRestarts
  chatIncidents

linkVars == <<owner, linked, opening, closing, socketKey, userKey>>
messageVars == <<message, receiver, about, way, wasOn>>
chatVars == <<linkVars, conversation, messageVars, restarts, chatIncidents>>

(*   "two_sockets"  a user's socket was entered while another one was, or   *)
(*                  while that one's entries were being removed            *)
(*   "late_entry"   a socket was entered after it had been closed          *)
(*   "under_way"    a message left before the opening or closing of the    *)
(*                  receiver's socket was dealt with                       *)
(*   "restart"      the server ended with sockets entered                  *)
ChatIncidents == {"two_sockets", "late_entry", "under_way", "restart"}

ChatTypeOK ==
  /\ owner \in [ChatSockets -> Chatters \cup {"none"}]
  /\ linked \in [ChatSockets -> BOOLEAN]
  /\ opening \in [ChatSockets -> {"none", "socket", "user", "done"}]
  /\ closing \in [ChatSockets -> {"none", "socket", "user", "done"}]
  /\ socketKey \in [ChatSockets -> Chatters \cup {"none"}]
  /\ userKey \in [Chatters -> ChatSockets \cup {"none"}]
  /\ conversation \in ChatOrders \cup {"none"}
  /\ message \in [Messages -> {"none", "find", "save", "look", "push", "done", "cut"}]
  /\ receiver \in [Messages -> Chatters \cup {"none"}] /\ about \in [Messages -> ChatOrders \cup {"none"}]
  /\ way \in [Messages -> {"none", "socket", "push"}] /\ wasOn \in [Messages -> BOOLEAN]
  /\ restarts \in 0 .. MaxRestarts
  /\ chatIncidents \subseteq ChatIncidents

ChatInit ==
  /\ owner = [s \in ChatSockets |-> "none"] /\ linked = [s \in ChatSockets |-> FALSE]
  /\ opening = [s \in ChatSockets |-> "none"] /\ closing = opening
  /\ socketKey = [s \in ChatSockets |-> "none"] /\ userKey = [u \in Chatters |-> "none"]
  /\ conversation = "none"
  /\ message = [m \in Messages |-> "none"]
  /\ receiver = message /\ about = message /\ way = message
  /\ wasOn = [m \in Messages |-> FALSE]
  /\ restarts = 0
  /\ chatIncidents = {}

-----------------------------------------------------------------------------
(* Sockets *)

(* handleConnection has verified the token and found the user.  The ids of  *)
(* sockets are all alike, so that the next one is any that is not taken.   *)
OpenSocket(s, u) ==
  /\ owner[s] = "none"
  /\ s = CHOOSE t \in ChatSockets : owner[t] = "none"
  /\ owner' = [owner EXCEPT ![s] = u]
  /\ linked' = [linked EXCEPT ![s] = TRUE]
  /\ opening' = [opening EXCEPT ![s] = "socket"]
  /\ UNCHANGED <<closing, socketKey, userKey, conversation, messageVars, restarts,
                 chatIncidents>>

EnterSocket(s) ==
  /\ opening[s] = "socket"
  /\ socketKey' = [socketKey EXCEPT ![s] = owner[s]]
  /\ opening' = [opening EXCEPT ![s] = "user"]
  /\ chatIncidents' = chatIncidents \cup When(closing[s] # "none", "late_entry")
  /\ UNCHANGED <<owner, linked, closing, userKey, conversation, messageVars, restarts>>

(* Another socket of the user is entered or its entries are being removed. *)
Another(s) ==
  \E t \in ChatSockets \ {s} :
    /\ owner[t] = owner[s]
    /\ opening[t] \in {"user", "done"} /\ closing[t] # "done"

EnterUser(s) ==
  /\ opening[s] = "user"
  /\ userKey' = [userKey EXCEPT ![owner[s]] = s]
  /\ opening' = [opening EXCEPT ![s] = "done"]
  /\ chatIncidents' = chatIncidents
       \cup When(closing[s] # "none", "late_entry") \cup When(Another(s), "two_sockets")
  /\ UNCHANGED <<owner, linked, closing, socketKey, conversation, messageVars, restarts>>

(* The client goes, or the connection is lost. *)
CloseSocket(s) ==
  /\ linked[s]
  /\ linked' = [linked EXCEPT ![s] = FALSE]
  /\ UNCHANGED <<owner, opening, closing, socketKey, userKey, conversation, messageVars,
                 restarts, chatIncidents>>

(* handleDisconnect: whose socket it was, and its entry; a socket without   *)
(* one ends it.                                                            *)
DropSocket(s) ==
  /\ owner[s] # "none" /\ ~linked[s] /\ closing[s] = "none"
  /\ closing' = [closing EXCEPT ![s] = IF socketKey[s] = "none" THEN "done" ELSE "user"]
  /\ socketKey' = [socketKey EXCEPT ![s] = "none"]
  /\ UNCHANGED <<owner, linked, opening, userKey, conversation, messageVars, restarts,
                 chatIncidents>>

(* Mutant: the user's entry stays. *)
DropUserKeeps(s) ==
  /\ closing[s] = "user"
  /\ closing' = [closing EXCEPT ![s] = "done"]
  /\ UNCHANGED <<owner, linked, opening, socketKey, userKey, conversation, messageVars,
                 restarts, chatIncidents>>

(* ... and the entry of the user, whichever socket it names by now. *)
DropUser(s) ==
  /\ closing[s] = "user"
  /\ closing' = [closing EXCEPT ![s] = "done"]
  /\ userKey' = [userKey EXCEPT ![owner[s]] = "none"]
  /\ UNCHANGED <<owner, linked, opening, socketKey, conversation, messageVars, restarts,
                 chatIncidents>>

-----------------------------------------------------------------------------
(* Messages *)

At(m, step) == message' = [message EXCEPT ![m] = step]

(* send_message, on a socket that is entered. *)
SendMessage(m, s, o) ==
  /\ message[m] = "none"
  /\ linked[s] /\ socketKey[s] \in Writers
  /\ At(m, "find")
  /\ receiver' = [receiver EXCEPT ![m] = CHOOSE u \in Chatters : u # socketKey[s]]
  /\ about' = [about EXCEPT ![m] = o]
  /\ UNCHANGED <<linkVars, conversation, way, wasOn, restarts, chatIncidents>>

(* The pair is unique in the database: when it has a conversation, be it    *)
(* for another order, the insert fails and that one is taken.  So looking  *)
(* for it and making it are one.                                           *)
GetOrCreateConversation(m) ==
  /\ message[m] = "find"
  /\ conversation' = IF conversation = "none" THEN about[m] ELSE conversation
  /\ At(m, "save")
  /\ UNCHANGED <<linkVars, receiver, about, way, wasOn, restarts, chatIncidents>>

SaveMessage(m) ==
  /\ message[m] = "save"
  /\ At(m, "look")
  /\ UNCHANGED <<linkVars, conversation, receiver, about, way, wasOn, restarts, chatIncidents>>

HasLink(u) == \E s \in ChatSockets : owner[s] = u /\ linked[s]

(* Sockets of u whose closing, or opening, is not dealt with. *)
Unnoticed(u) ==
  \E s \in ChatSockets : owner[s] = u /\ ~linked[s] /\ closing[s] # "done" /\ opening[s] # "none"
Unentered(u) == \E s \in ChatSockets : owner[s] = u /\ opening[s] \in {"socket", "user"}

(* Where is the receiver?  The answer and the sending are one. *)
LookUpReceiver(m) ==
  /\ message[m] = "look"
  /\ LET u == receiver[m]
     IN /\ IF userKey[u] # "none"
           THEN At(m, "done") /\ way' = [way EXCEPT ![m] = IF linked[userKey[u]] THEN "socket" ELSE "none"]
           ELSE At(m, "push") /\ UNCHANGED way
        /\ wasOn' = [wasOn EXCEPT ![m] = HasLink(u)]
        /\ chatIncidents' = chatIncidents
             \cup When(Unnoticed(u) \/ Unentered(u), "under_way")
  /\ UNCHANGED <<linkVars, conversation, receiver, about, restarts>>

PushMessage(m) ==
  /\ message[m] = "push"
  /\ way' = [way EXCEPT ![m] = "push"]
  /\ At(m, "done")
  /\ UNCHANGED <<linkVars, conversation, receiver, about, wasOn, restarts, chatIncidents>>

(* The server ends: sockets close and nothing removes their entries. *)
RestartChat ==
  /\ restarts < MaxRestarts
  /\ restarts' = restarts + 1
  /\ linked' = [s \in ChatSockets |-> FALSE]
  /\ opening' = [s \in ChatSockets |-> IF owner[s] = "none" THEN "none" ELSE "done"]
  /\ closing' = [s \in ChatSockets |-> IF owner[s] = "none" THEN "none" ELSE "done"]
  /\ message' = [m \in Messages |-> IF message[m] \in {"none", "done"} THEN message[m] ELSE "cut"]
  /\ chatIncidents' = chatIncidents
       \cup When(\E u \in Chatters : userKey[u] # "none", "restart")
  /\ UNCHANGED <<owner, socketKey, userKey, conversation, receiver, about, way, wasOn>>

ChatNext ==
  \/ \E s \in ChatSockets :
       \/ \E u \in Chatters : OpenSocket(s, u)
       \/ EnterSocket(s) \/ EnterUser(s)
       \/ CloseSocket(s) \/ DropSocket(s) \/ DropUser(s)
  \/ \E m \in Messages :
       \/ \E s \in ChatSockets, o \in ChatOrders : SendMessage(m, s, o)
       \/ GetOrCreateConversation(m) \/ SaveMessage(m)
       \/ LookUpReceiver(m) \/ PushMessage(m)
  \/ RestartChat

ChatSpec == ChatInit /\ [][ChatNext]_chatVars

-----------------------------------------------------------------------------
(* A message is sent to the socket of a receiver who has one open, and      *)
(* pushed to a receiver who has none, in every order of connecting,        *)
(* reconnecting and sending; unless sockets of the receiver were open side *)
(* by side, one was entered after its end, an opening or closing was still *)
(* under way when the message left, or the server ended meanwhile.         *)
MessageArrives ==
  chatIncidents = {} =>
    \A m \in Messages : message[m] = "done" =>
      way[m] = (IF wasOn[m] THEN "socket" ELSE "push")
=============================================================================
