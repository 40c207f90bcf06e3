------------------------------ MODULE AutoPopup ------------------------------
(***************************************************************************)
(* The popup chain of one order (AutoPopupService): eligible drivers are   *)
(* ranked, and the order is offered to one after the other until a driver  *)
(* accepts; a driver who declines, or does not answer in 15 seconds, makes *)
(* room for the next; when the list is exhausted the order goes public.    *)
(*                                                                         *)
(* The chain's state is three Redis keys and one delayed BullMQ job per    *)
(* driver.  Four kinds of handler work on it, with no lock: placeOrder's   *)
(* call that starts the chain, the socket calls accept and decline, and    *)
(* the timeout job.  Every await is a step boundary.                       *)
(***************************************************************************)
EXTENDS OrderRow, Naturals, Sequences, FiniteSets, Functions

CONSTANTS
  Calls,        \* socket calls that may be in flight at once
  RiderOf,      \* RiderOf[c]: the rider authenticated on the socket of call c
  Placer,       \* the call of placeOrder
  MaxListed,    \* bound: length of the list of eligible drivers
  SlowHandlers, \* TRUE: a handler may still be running 15 s after it started
  SlowWorker,   \* TRUE: a timeout job may run later than the 5 s buffer allows
  MaxRestarts   \* bound: how often the server process may restart

(* A handler is named by the call that runs it; the handler of the timeout *)
(* job of rider r is named r.                                              *)
Handlers == {Placer} \cup Calls \cup Riders

ASSUME PopupAssumption ==
  /\ RiderOf \in [Calls -> Riders]
  /\ Calls \cap Riders = {}
  /\ Placer \notin Calls \cup Riders
  /\ MaxListed \in Nat
  /\ SlowHandlers \in BOOLEAN
  /\ SlowWorker \in BOOLEAN
  /\ MaxRestarts \in Nat

VARIABLES
  eligible,   \* the ranked list findEligibleDrivers returned
  queue,      \* key popup:queue, <<>> when absent
  active,     \* key popup:active: the driver being asked
  accepted,   \* key popup:accepted
  timer,      \* timer[r]: the job popup-timeout:<order>:<r>
  offered,    \* drivers whose phone got the popup
  declined,   \* rows of order_declines
  public,     \* the order was broadcast as public
  at,         \* at[h]: where handler h stands
  taken,      \* taken[h]: the queue as h read it
  restarts

popVars == <<eligible, queue, active, accepted, timer, offered, declined, public,
             at, taken, restarts>>

vars == <<rowVars, popVars>>

Steps ==
  {"idle", "start", "nextCheck", "nextRead", "nextSave", "nextMark", "nextOffer",
   "nextTimer", "toPublic", "accMark", "accDropQueue", "accDropActive", "accTimer",
   "accAssign", "decTimer", "decRow", "outAccepted", "outActive",
   "completing"}

(* Rankings of drivers: nobody is listed twice. *)
Rankings == UNION {Injection(1..n, Riders) : n \in 0..MaxListed}

PopTypeOK ==
  /\ eligible \in Seq(Riders)
  /\ queue \in Seq(Riders)
  /\ active \in RiderOrNone
  /\ accepted \in RiderOrNone
  /\ timer \in [Riders -> {"none", "waiting", "active"}]
  /\ offered \subseteq Riders
  /\ declined \subseteq Riders
  /\ public \in BOOLEAN
  /\ at \in [Handlers -> Steps]
  /\ taken \in [Handlers -> Seq(Riders)]
  /\ restarts \in 0..MaxRestarts

PopInit ==
  /\ eligible = <<>>
  /\ queue = <<>>
  /\ active = NoRider
  /\ accepted = NoRider
  /\ timer = [r \in Riders |-> "none"]
  /\ offered = {}
  /\ declined = {}
  /\ public = FALSE
  /\ at = [h \in Handlers |-> IF h = Placer THEN "start" ELSE "idle"]
  /\ taken = [h \in Handlers |-> <<>>]
  /\ restarts = 0

-----------------------------------------------------------------------------
Goto(h, step) == at' = [at EXCEPT ![h] = step]

(* A handler returns or throws.  The worker then completes its job, which  *)
(* removes it either way (removeOnComplete, removeOnFail).                 *)
Return(h) == Goto(h, IF h \in Riders THEN "completing" ELSE "idle")

(* Mutant: the job is retried after it ran. *)
CompleteRetries(r) ==
  /\ at[r] = "completing"
  /\ timer' = [timer EXCEPT ![r] = "waiting"]
  /\ Goto(r, "idle")
  /\ UNCHANGED <<rowVars, eligible, queue, active, accepted, offered, declined, public,
                 taken, restarts>>

Complete(r) ==
  /\ at[r] = "completing"
  /\ timer' = [timer EXCEPT ![r] = "none"]
  /\ Goto(r, "idle")
  /\ UNCHANGED <<rowVars, eligible, queue, active, accepted, offered, declined, public,
                 taken, restarts>>

-----------------------------------------------------------------------------
(* startPopupChain                                                         *)

StartChain ==
  /\ at[Placer] = "start"
  /\ \E q \in Rankings :
       /\ eligible' = q
       /\ queue' = q
       /\ Goto(Placer, IF q = <<>> THEN "toPublic" ELSE "nextCheck")
  /\ UNCHANGED <<rowVars, active, accepted, timer, offered, declined, public, taken,
                 restarts>>

-----------------------------------------------------------------------------
(* popupNextDriver, run by the chain's start, a decline or a timeout.      *)

(* Mutant: the queue is shortened by two. *)
RestTwoOff(h) == SubSeq(taken[h], 3, Len(taken[h]))

(* queue.shift() on the list a handler has read. *)
Chosen(h) == Head(taken[h])
Rest(h) == Tail(taken[h])

NextCheck(h) ==
  /\ at[h] = "nextCheck"
  /\ IF accepted = NoRider THEN Goto(h, "nextRead") ELSE Return(h)
  /\ UNCHANGED <<rowVars, eligible, queue, active, accepted, timer, offered, declined,
                 public, taken, restarts>>

NextRead(h) ==
  /\ at[h] = "nextRead"
  /\ taken' = [taken EXCEPT ![h] = queue]
  /\ Goto(h, IF queue = <<>> THEN "toPublic" ELSE "nextSave")
  /\ UNCHANGED <<rowVars, eligible, queue, active, accepted, timer, offered, declined,
                 public, restarts>>

NextSave(h) ==
  /\ at[h] = "nextSave"
  /\ queue' = Rest(h)
  /\ Goto(h, "nextMark")
  /\ UNCHANGED <<rowVars, eligible, active, accepted, timer, offered, declined, public,
                 taken, restarts>>

NextMark(h) ==
  /\ at[h] = "nextMark"
  /\ active' = Chosen(h)
  /\ Goto(h, "nextOffer")
  /\ UNCHANGED <<rowVars, eligible, queue, accepted, timer, offered, declined, public,
                 taken, restarts>>

NextOffer(h) ==
  /\ at[h] = "nextOffer"
  /\ offered' = offered \cup {Chosen(h)}
  /\ Goto(h, "nextTimer")
  /\ UNCHANGED <<rowVars, eligible, queue, active, accepted, timer, declined, public,
                 taken, restarts>>

(* A job whose id exists already is not added again. *)
TimersWith(r) == [timer EXCEPT ![r] = IF @ = "none" THEN "waiting" ELSE @]

NextTimer(h) ==
  /\ at[h] = "nextTimer"
  /\ timer' = TimersWith(Chosen(h))
  /\ taken' = [taken EXCEPT ![h] = <<>>]
  /\ Return(h)
  /\ UNCHANGED <<rowVars, eligible, queue, active, accepted, offered, declined, public,
                 restarts>>

(* moveToPublicQueue writes PENDING whatever the order has become.         *)
ToPublic(h) ==
  /\ at[h] = "toPublic"
  /\ status' = "PENDING"
  /\ public' = TRUE
  /\ Return(h)
  /\ UNCHANGED <<assigned, closed, confirmed, eligible, queue, active, accepted, timer,
                 offered, declined, taken, restarts>>

PopupNext(h) ==
  \/ NextCheck(h) \/ NextRead(h) \/ NextSave(h) \/ NextMark(h) \/ NextOffer(h)
  \/ NextTimer(h) \/ ToPublic(h)

-----------------------------------------------------------------------------
(* A phone answers a popup it was shown.  Unless handlers are slow, those  *)
(* that ran when the popup was sent have returned before a human answers;  *)
(* only the same driver's other answers and his timer may be under way.    *)
MayAnswer(c) ==
  /\ at[c] = "idle"
  /\ RiderOf[c] \in offered
  /\ \/ SlowHandlers
     \/ \A h \in Handlers :
          \/ at[h] = "idle"
          \/ h = RiderOf[c]
          \/ h \in Calls /\ RiderOf[h] = RiderOf[c]

(* handleDriverAccepted throws, changing nothing, unless its driver is the *)
(* one being asked.                                                        *)
Accept(c) ==
  /\ MayAnswer(c)
  /\ active = RiderOf[c]
  /\ Goto(c, "accMark")
  /\ UNCHANGED <<rowVars, eligible, queue, active, accepted, timer, offered, declined,
                 public, taken, restarts>>

(* Mutant: the acceptance is not recorded in Redis. *)
AccMarkNothing(c) ==
  /\ at[c] = "accMark"
  /\ Goto(c, "accDropQueue")
  /\ UNCHANGED <<rowVars, eligible, queue, active, accepted, timer, offered, declined,
                 public, taken, restarts>>

AccMark(c) ==
  /\ at[c] = "accMark"
  /\ accepted' = RiderOf[c]
  /\ Goto(c, "accDropQueue")
  /\ UNCHANGED <<rowVars, eligible, queue, active, timer, offered, declined, public,
                 taken, restarts>>

AccDropQueue(c) ==
  /\ at[c] = "accDropQueue"
  /\ queue' = <<>>
  /\ Goto(c, "accDropActive")
  /\ UNCHANGED <<rowVars, eligible, active, accepted, timer, offered, declined, public,
                 taken, restarts>>

AccDropActive(c) ==
  /\ at[c] = "accDropActive"
  /\ active' = NoRider
  /\ Goto(c, "accTimer")
  /\ UNCHANGED <<rowVars, eligible, queue, accepted, timer, offered, declined, public,
                 taken, restarts>>

(* getJob and remove: removing a job that a worker is processing throws,   *)
(* and ends the call.                                                      *)
RemoveTimer(c, next) ==
  IF timer[RiderOf[c]] = "active"
  THEN Goto(c, "idle") /\ UNCHANGED timer
  ELSE Goto(c, next) /\ timer' = [timer EXCEPT ![RiderOf[c]] = "none"]

AccTimer(c) ==
  /\ at[c] = "accTimer"
  /\ RemoveTimer(c, "accAssign")
  /\ UNCHANGED <<rowVars, eligible, queue, active, accepted, offered, declined, public,
                 taken, restarts>>

AccAssign(c) ==
  /\ at[c] = "accAssign"
  /\ GiveTo(RiderOf[c])
  /\ confirmed' = TRUE
  /\ Goto(c, "idle")
  /\ UNCHANGED <<closed, eligible, queue, active, accepted, timer, offered, declined,
                 public, taken, restarts>>

-----------------------------------------------------------------------------
(* handleDriverDeclined                                                    *)

Decline(c) ==
  /\ MayAnswer(c)
  /\ active = RiderOf[c]
  /\ Goto(c, "decTimer")
  /\ UNCHANGED <<rowVars, eligible, queue, active, accepted, timer, offered, declined,
                 public, taken, restarts>>

DecTimer(c) ==
  /\ at[c] = "decTimer"
  /\ RemoveTimer(c, "decRow")
  /\ UNCHANGED <<rowVars, eligible, queue, active, accepted, offered, declined, public,
                 taken, restarts>>

(* order_declines is unique on (orderId, raiderId): a second row throws.   *)
DecRow(c) ==
  /\ at[c] = "decRow"
  /\ declined' = declined \cup {RiderOf[c]}
  /\ Goto(c, IF RiderOf[c] \in declined THEN "idle" ELSE "nextCheck")
  /\ UNCHANGED <<rowVars, eligible, queue, active, accepted, timer, offered, public,
                 taken, restarts>>

(* declineOrder, the decline button of the feed, writes the same rows.     *)
FeedDecline(r) ==
  /\ status = "PENDING"
  /\ r \notin declined
  /\ declined' = declined \cup {r}
  /\ UNCHANGED <<rowVars, eligible, queue, active, accepted, timer, offered, public, at,
                 taken, restarts>>

-----------------------------------------------------------------------------
(* handlePopupTimeout, run by AutoPopupWorker.                             *)

(* When the 15 s of the driver being asked are over, the handlers that ran *)
(* when his timer was armed have returned, unless handlers are slow; an    *)
(* answer he gives at the last moment may be under way.  The timer of a    *)
(* driver who is no longer being asked may fire at any time.               *)
LastMomentAnswer(h, r) ==
  /\ h \in Calls
  /\ RiderOf[h] = r
  /\ at[h] \in {"accMark", "accDropQueue", "accDropActive", "accTimer", "decTimer"}

MayFire(r) ==
  \/ SlowHandlers
  \/ active # r
  \/ \A h \in Handlers : at[h] = "idle" \/ LastMomentAnswer(h, r)

FireTimeout(r) ==
  /\ timer[r] = "waiting"
  /\ MayFire(r)
  /\ timer' = [timer EXCEPT ![r] = "active"]
  /\ Goto(r, "outAccepted")
  /\ UNCHANGED <<rowVars, eligible, queue, active, accepted, offered, declined, public,
                 taken, restarts>>

OutAccepted(r) ==
  /\ at[r] = "outAccepted"
  /\ IF accepted = NoRider THEN Goto(r, "outActive") ELSE Return(r)
  /\ UNCHANGED <<rowVars, eligible, queue, active, accepted, timer, offered, declined,
                 public, taken, restarts>>

(* Mutant: the timeout is noted, but nobody else is asked. *)
OutActiveStops(r) ==
  /\ at[r] = "outActive"
  /\ Return(r)
  /\ UNCHANGED <<rowVars, eligible, queue, active, accepted, timer, offered, declined,
                 public, taken, restarts>>

OutActive(r) ==
  /\ at[r] = "outActive"
  /\ IF active = r THEN Goto(r, "nextCheck") ELSE Return(r)
  /\ UNCHANGED <<rowVars, eligible, queue, active, accepted, timer, offered, declined,
                 public, taken, restarts>>

-----------------------------------------------------------------------------
(* popup:active has a TTL of 20 s, five more than the timer.  It elapses   *)
(* when nobody is being asked any more, or when the worker is late.        *)
ActiveExpires ==
  /\ active # NoRider
  /\ SlowWorker \/ (timer[active] = "none" /\ \A h \in Handlers : at[h] = "idle")
  /\ active' = NoRider
  /\ UNCHANGED <<rowVars, eligible, queue, accepted, timer, offered, declined, public,
                 at, taken, restarts>>

(* The Node process dies: its handlers are lost; Redis, its delayed jobs   *)
(* and the database survive, and a job that was running is run again.      *)
RequeuedTimers == [r \in Riders |-> IF timer[r] = "active" THEN "waiting" ELSE timer[r]]

PopRestart ==
  /\ restarts < MaxRestarts
  /\ restarts' = restarts + 1
  /\ at' = [h \in Handlers |-> "idle"]
  /\ taken' = [h \in Handlers |-> <<>>]
  /\ timer' = RequeuedTimers
  /\ UNCHANGED <<rowVars, eligible, queue, active, accepted, offered, declined, public>>

-----------------------------------------------------------------------------
AcceptStep(c) ==
  \/ AccMark(c) \/ AccDropQueue(c) \/ AccDropActive(c) \/ AccTimer(c) \/ AccAssign(c)

HandlerStep(h) ==
  \/ PopupNext(h)
  \/ h \in Calls /\ (AcceptStep(h) \/ DecTimer(h) \/ DecRow(h))
  \/ h \in Riders /\ (OutAccepted(h) \/ OutActive(h) \/ Complete(h))

PopNext ==
  \/ StartChain
  \/ \E h \in Handlers : HandlerStep(h)
  \/ \E c \in Calls : Accept(c) \/ Decline(c)
  \/ \E r \in Riders : FireTimeout(r) \/ FeedDecline(r)
  \/ ActiveExpires
  \/ PopRestart

Init == RowInit /\ PopInit

PopSpec == Init /\ [][PopNext]_vars

(* A handler that started runs on, placeOrder starts the chain, and the    *)
(* worker takes jobs that are due.  Drivers need not answer.               *)
PopFairSpec ==
  /\ PopSpec
  /\ WF_vars(StartChain)
  /\ \A h \in Handlers : WF_vars(HandlerStep(h))
  /\ \A r \in Riders : WF_vars(FireTimeout(r))
-----------------------------------------------------------------------------
PopupTypeOK == RowTypeOK /\ PopTypeOK

(* A handler has chosen him and not sent the popup. *)
BeingAsked(r) ==
  \E h \in Handlers :
    at[h] \in {"nextSave", "nextMark", "nextOffer"} /\ Chosen(h) = r

(* Drivers are asked in the order of the ranking and none is skipped: nobody *)
(* gets the popup before everybody ranked better got it, and until a driver *)
(* accepts, every eligible driver is still queued, has been asked, or is    *)
(* just being asked, so that no update of the queue is lost and the order   *)
(* goes public only when everybody's turn has come.  (A crash between       *)
(* taking a driver from the queue and sending the popup skips that driver.) *)
AskedInTurn ==
  restarts = 0 =>
    \A i \in 1..Len(eligible) :
      LET r == eligible[i]
      IN  /\ \A j \in 1 .. i - 1 : r \in offered => eligible[j] \in offered
          /\ accepted = NoRider => r \in Range(queue) \cup offered \/ BeingAsked(r)

(* An assigned order is guarded by the accepted key, which stops the chain, *)
(* and its driver was asked.                                                *)
AssignedIsGuarded ==
  assigned # NoRider => accepted # NoRider /\ assigned \in offered /\ confirmed

-----------------------------------------------------------------------------
AtRest == \A h \in Handlers : at[h] = "idle"

Ended == assigned # NoRider \/ public

Waiting == active # NoRider /\ timer[active] = "waiting"

(* The accept call failed because the timeout job was running. *)
AcceptLost == accepted # NoRider

(* The driver being asked had declined the order in his feed, so that his   *)
(* answer to the popup failed after its timer was removed.                  *)
DeclineLost == Cardinality(offered) > 0 /\ eligible[Cardinality(offered)] \in declined

(* When no handler runs, the chain has ended well, or is waiting for an     *)
(* answer with the clock running, or is stalled for one of three reasons.   *)
OnlyKnownStalls ==
  AtRest => Ended \/ Waiting \/ AcceptLost \/ DeclineLost \/ restarts > 0

Asking ==
  \/ \E r \in Riders : timer[r] # "none"
  \/ \E h \in Handlers : at[h] \in {"nextCheck", "nextRead", "nextSave", "nextMark",
                                     "nextOffer", "nextTimer", "toPublic"}

(* The chain stops asking by itself, whether or not anybody answers. *)
ChainEnds == <>[]~Asking

=============================================================================
