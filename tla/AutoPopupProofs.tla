-------------------------- MODULE AutoPopupProofs --------------------------
(***************************************************************************)
(* Proofs about AutoPopup, for every number of drivers, devices and        *)
(* restarts.                                                               *)
(*                                                                         *)
(* The guard, whatever SlowHandlers and SlowWorker are: no step takes the  *)
(* accepted key or an offer away, and a handler that gives the order to    *)
(* its driver has passed the step that sets the key, on behalf of a driver *)
(* who was asked.                                                          *)
(*                                                                         *)
(* The turns, when handlers are not slow: one handler at a time moves the  *)
(* chain on, and the queue is the rest of the ranking.  The stalls, when   *)
(* the worker is not late either: somebody always has the turn.            *)
(***************************************************************************)
EXTENDS AutoPopup, FiniteSetTheorems, TLAPS

AcceptSteps == {"accMark", "accDropQueue", "accDropActive", "accTimer", "accAssign"}

AcceptorsAsked == \A c \in Calls : at[c] \in AcceptSteps => RiderOf[c] \in offered

AcceptorsMarked ==
  \A c \in Calls : at[c] \in AcceptSteps \ {"accMark"} => accepted # NoRider

GuardInv ==
  /\ at \in [Handlers -> Steps]
  /\ AcceptorsAsked
  /\ AcceptorsMarked
  /\ AssignedIsGuarded

-----------------------------------------------------------------------------
LEMMA GuardInitInv == Init => GuardInv
BY PopupAssumption DEF Init, RowInit, PopInit, GuardInv, AcceptorsAsked, AcceptorsMarked, AcceptSteps,
   AssignedIsGuarded, Handlers, Steps

(* A handler goes on, and not to a step of an acceptance. *)
LEMMA HandlerMoves ==
  ASSUME GuardInv, NEW h \in Handlers, NEW step \in Steps \ AcceptSteps, Goto(h, step),
         offered \subseteq offered',
         UNCHANGED <<assigned, confirmed, accepted>>
  PROVE  GuardInv'
BY DEF GuardInv, Goto, AcceptorsAsked, AcceptorsMarked, AssignedIsGuarded

(* A call goes on with its driver's acceptance. *)
LEMMA AcceptanceMoves ==
  ASSUME GuardInv, NEW c \in Calls, NEW step \in Steps, Goto(c, step),
         RiderOf[c] \in offered, accepted = NoRider => step = "accMark",
         UNCHANGED <<assigned, confirmed, accepted, offered>>
  PROVE  GuardInv'
BY DEF GuardInv, Goto, AcceptorsAsked, AcceptorsMarked, AssignedIsGuarded, Handlers

(* Nothing that the guard is about changes. *)
LEMMA NothingGuarded ==
  ASSUME GuardInv, UNCHANGED <<assigned, confirmed, accepted, offered, at>>
  PROVE  GuardInv'
BY DEF GuardInv, AcceptorsAsked, AcceptorsMarked, AssignedIsGuarded

LEMMA PopupNextStep ==
  ASSUME GuardInv, NEW h \in Handlers, PopupNext(h)
  PROVE  GuardInv'
<1>1. PICK step \in Steps \ AcceptSteps : Goto(h, step)
  BY DEF PopupNext, NextCheck, NextRead, NextSave, NextMark, NextOffer, NextTimer, ToPublic, Return,
     Steps, AcceptSteps
<1>2. offered \subseteq offered' /\ UNCHANGED <<assigned, confirmed, accepted>>
  BY DEF PopupNext, NextCheck, NextRead, NextSave, NextMark, NextOffer, NextTimer, ToPublic, rowVars
<1> QED
  BY <1>1, <1>2, HandlerMoves

LEMMA AcceptanceStep ==
  ASSUME GuardInv, NEW c \in Calls, AcceptStep(c)
  PROVE  GuardInv'
<1>0. /\ at[c] \in AcceptSteps /\ RiderOf[c] \in offered
      /\ c \in Handlers /\ RiderOf[c] # NoRider
  BY PopupAssumption, NoRiderAssumption DEF AcceptStep, AccMark, AccDropQueue, AccDropActive, AccTimer,
     AccAssign, AcceptSteps, GuardInv, AcceptorsAsked, Handlers
<1>1. CASE AccMark(c)
  BY <1>0, <1>1 DEF AccMark, Goto, GuardInv, AcceptorsAsked, AcceptorsMarked, AssignedIsGuarded,
     AcceptSteps, Steps, Handlers, rowVars
<1>2. CASE AccDropQueue(c) \/ AccDropActive(c) \/ AccTimer(c)
  <2>1. accepted # NoRider
    BY <1>2 DEF AccDropQueue, AccDropActive, AccTimer, AcceptSteps, GuardInv, AcceptorsMarked
  <2>2. PICK step \in Steps : Goto(c, step)
    BY <1>2 DEF AccDropQueue, AccDropActive, AccTimer, RemoveTimer, Steps
  <2>3. UNCHANGED <<assigned, confirmed, accepted, offered>>
    BY <1>2 DEF AccDropQueue, AccDropActive, AccTimer, rowVars
  <2> QED
    BY <1>0, <2>1, <2>2, <2>3, AcceptanceMoves
<1>3. CASE AccAssign(c)
  <2>1. accepted # NoRider
    BY <1>3 DEF AccAssign, AcceptSteps, GuardInv, AcceptorsMarked
  <2> QED
    BY <1>0, <1>3, <2>1 DEF AccAssign, GiveTo, Goto, GuardInv, AcceptorsAsked, AcceptorsMarked,
       AssignedIsGuarded, AcceptSteps, Steps
<1> QED
  BY <1>1, <1>2, <1>3 DEF AcceptStep

LEMMA OtherHandlerStep ==
  ASSUME GuardInv, NEW h \in Handlers,
         \/ h \in Calls /\ (DecTimer(h) \/ DecRow(h) \/ Decline(h))
         \/ h \in Riders /\ (OutAccepted(h) \/ OutActive(h) \/ Complete(h) \/ FireTimeout(h))
  PROVE  GuardInv'
<1>1. PICK step \in Steps \ AcceptSteps : Goto(h, step)
  BY DEF DecTimer, DecRow, Decline, RemoveTimer, OutAccepted, OutActive, Complete, FireTimeout, Return,
     Steps, AcceptSteps
<1>2. UNCHANGED <<assigned, confirmed, accepted, offered>>
  BY DEF DecTimer, DecRow, Decline, OutAccepted, OutActive, Complete, FireTimeout, rowVars
<1> QED
  BY <1>1, <1>2, HandlerMoves

LEMMA GuardStepInv == GuardInv /\ [PopNext]_vars => GuardInv'
<1> SUFFICES ASSUME GuardInv, [PopNext]_vars
             PROVE  GuardInv'
  OBVIOUS
<1>0. Placer \in Handlers /\ Calls \subseteq Handlers /\ Riders \subseteq Handlers
  BY DEF Handlers
<1>1. CASE UNCHANGED vars
  BY <1>1, NothingGuarded DEF vars, rowVars, popVars
<1>2. CASE StartChain
  <2>1. PICK step \in Steps \ AcceptSteps : Goto(Placer, step)
    BY <1>2 DEF StartChain, Steps, AcceptSteps
  <2> QED
    BY <1>0, <1>2, <2>1, HandlerMoves DEF StartChain, rowVars
<1>3. ASSUME NEW h \in Handlers, HandlerStep(h)
      PROVE  GuardInv'
  BY <1>3, PopupNextStep, AcceptanceStep, OtherHandlerStep DEF HandlerStep
<1>4. ASSUME NEW c \in Calls, Accept(c)
      PROVE  GuardInv'
  <2>1. Goto(c, "accMark") /\ RiderOf[c] \in offered /\ "accMark" \in Steps
    BY <1>4 DEF Accept, MayAnswer, Steps
  <2>2. UNCHANGED <<assigned, confirmed, accepted, offered>>
    BY <1>4 DEF Accept, rowVars
  <2> QED
    BY <2>1, <2>2, AcceptanceMoves
<1>5. ASSUME NEW r \in Riders, FeedDecline(r)
      PROVE  GuardInv'
  BY <1>5, NothingGuarded DEF FeedDecline, rowVars
<1>6. CASE ActiveExpires
  BY <1>6, NothingGuarded DEF ActiveExpires, rowVars
<1>7. CASE PopRestart
  BY <1>7 DEF PopRestart, GuardInv, AcceptorsAsked, AcceptorsMarked, AcceptSteps, AssignedIsGuarded,
     Steps, Handlers, rowVars
<1> QED
  BY <1>0, <1>1, <1>2, <1>3, <1>4, <1>5, <1>6, <1>7, OtherHandlerStep DEF PopNext

(* A driver has the order only after he was asked and the accepted key was   *)
(* set, whatever answers, timeouts, restarts and slow handlers interleave.   *)
THEOREM AssignedAlwaysGuarded == PopSpec => []AssignedIsGuarded
<1>1. GuardInv => AssignedIsGuarded
  BY DEF GuardInv
<1> QED
  BY <1>1, GuardInitInv, GuardStepInv, PTL DEF PopSpec

-----------------------------------------------------------------------------
(* Turns.  While the process has not restarted and handlers are not slow,  *)
(* handlers of two drivers are never under way at once, so one handler at  *)
(* a time moves the chain on, and what it took from the queue is the rest  *)
(* of the ranking.                                                         *)

Moving == {"nextCheck", "nextRead", "nextSave", "nextMark", "nextOffer", "nextTimer", "toPublic"}

(* The drivers asked so far. *)
Turn == Cardinality(offered)

(* Those that are left when the queue has been shortened for the next one. *)
Ahead == IF \E h \in Handlers : at[h] \in {"nextMark", "nextOffer"} THEN Turn + 1 ELSE Turn

IsRest(s, k) ==
  /\ s \in Seq(Riders)
  /\ k \in Nat /\ Len(s) + k = Len(eligible)
  /\ \A i \in 1..Len(s) : s[i] = eligible[k + i]

Ranked ==
  /\ eligible \in Seq(Riders)
  /\ \A i, j \in 1..Len(eligible) : eligible[i] = eligible[j] => i = j
  /\ at[Placer] = "start" => eligible = <<>>

OfferedInTurn ==
  /\ IsFiniteSet(offered)
  /\ Turn \in 0..Len(eligible)
  /\ offered = {eligible[i] : i \in 1..Turn}

QueueIsRest == \/ queue = <<>> /\ accepted # NoRider
               \/ IsRest(queue, Ahead)

TakenIsRest ==
  \A h \in Handlers :
    /\ at[h] \in {"nextSave", "nextMark", "nextOffer"} => IsRest(taken[h], Turn) /\ taken[h] # <<>>
    /\ at[h] = "nextTimer" =>
         /\ Turn > 0 /\ IsRest(taken[h], Turn - 1)
         /\ timer[Chosen(h)] = "none"
         /\ \A c \in Calls : RiderOf[c] = Chosen(h) => at[c] = "idle"

JobsRun ==
  \A r \in Riders : /\ timer[r] = "active" <=> at[r] # "idle"
                    /\ timer[r] # "none" => r \in offered

CallsAnswer ==
  \A c \in Calls : /\ at[c] # "idle" => RiderOf[c] \in offered
                   /\ at[c] \in {"decRow"} \cup Moving => timer[RiderOf[c]] = "none"
                   /\ at[c] \in Moving => RiderOf[c] \in declined

Who(h) == IF h \in Calls THEN RiderOf[h] ELSE h

(* A timeout of a driver who is not being asked does nothing. *)
Live(h) == /\ at[h] \notin {"idle", "completing"}
           /\ at[h] \in {"outAccepted", "outActive"} => h \in Riders /\ active = h

OneDriver == \A h, g \in Handlers : Live(h) /\ Live(g) => Who(h) = Who(g)

OneMoves == \A h, g \in Handlers : at[h] \in Moving /\ at[g] \in Moving => h = g

Typed ==
  /\ at \in [Handlers -> Steps]
  /\ taken = [h \in Handlers |-> taken[h]]
  /\ timer \in [Riders -> {"none", "waiting", "active"}]

TurnFacts == /\ Typed /\ Ranked /\ OfferedInTurn /\ QueueIsRest /\ TakenIsRest
             /\ JobsRun /\ CallsAnswer /\ OneDriver /\ OneMoves

TurnInv == restarts \in Nat /\ (restarts = 0 => TurnFacts)

(* Somebody is being asked, or will be. *)
Pending(q) ==
  \/ q \in declined
  \/ active = q /\ (timer[q] = "waiting" \/ at[q] \in {"outAccepted", "outActive"})
  \/ \E c \in Calls : RiderOf[c] = q /\ at[c] = "decRow"

GoesOn ==
  \/ accepted # NoRider \/ public \/ at[Placer] = "start"
  \/ \E h \in Handlers : at[h] \in Moving
  \/ Turn > 0 /\ Pending(eligible[Turn])

AsksChosen ==
  \A h \in Handlers : at[h] \in {"nextOffer", "nextTimer"} => accepted # NoRider \/ active = Chosen(h)

ProgressInv == restarts = 0 => GoesOn /\ AsksChosen

-----------------------------------------------------------------------------
LEMMA Kinds ==
  /\ Placer \in Handlers /\ Calls \subseteq Handlers /\ Riders \subseteq Handlers
  /\ Placer \notin Calls \cup Riders /\ Calls \cap Riders = {}
  /\ \A c \in Calls : RiderOf[c] \in Riders
  /\ NoRider \notin Riders
BY PopupAssumption, NoRiderAssumption DEF Handlers

(* A rest, and what remains when its first driver is taken. *)
LEMMA RestShortens ==
  ASSUME NEW s, NEW k, IsRest(s, k), s # <<>>, eligible \in Seq(Riders)
  PROVE  /\ k \in Nat /\ k < Len(eligible)
         /\ Head(s) = eligible[k + 1] /\ Head(s) \in Riders
         /\ IsRest(Tail(s), k + 1)
<1>1. s \in Seq(Riders) /\ Len(s) \in Nat /\ Len(s) # 0 /\ Len(eligible) \in Nat
  BY DEF IsRest
<1>2. Head(s) = s[1] /\ s[1] \in Riders /\ s[1] = eligible[k + 1] /\ k < Len(eligible) /\ k \in Nat
  BY <1>1 DEF IsRest
<1>3. Tail(s) \in Seq(Riders) /\ Len(Tail(s)) = Len(s) - 1 /\ \A i \in 1..Len(s) - 1 : Tail(s)[i] = s[i + 1]
  BY <1>1
<1>4. Len(Tail(s)) + (k + 1) = Len(eligible)
  BY <1>1, <1>2, <1>3 DEF IsRest
<1>5. \A i \in 1..Len(Tail(s)) : Tail(s)[i] = eligible[(k + 1) + i]
  <2> SUFFICES ASSUME NEW i \in 1..Len(s) - 1 PROVE s[i + 1] = eligible[(k + 1) + i]
    BY <1>3
  <2>1. i + 1 \in 1..Len(s) /\ k + (i + 1) = (k + 1) + i
    BY <1>1, <1>2
  <2>2. s[i + 1] = eligible[k + (i + 1)]
    BY <2>1 DEF IsRest
  <2> QED
    BY <2>1, <2>2
<1> QED
  BY <1>1, <1>2, <1>3, <1>4, <1>5 DEF IsRest

Placing == {"nextSave", "nextMark", "nextOffer", "nextTimer"}

(* A handler goes on, and chooses nobody. *)
LEMMA ChoosesNobody ==
  ASSUME TurnFacts, NEW h \in Handlers, NEW step \in Steps, at' = [at EXCEPT ![h] = step],
         at[h] \notin Placing, step \notin Placing \cup {"start"},
         UNCHANGED <<eligible, offered>>,
         taken' = [g \in Handlers |-> taken'[g]],
         \A g \in Handlers : g # h => taken'[g] = taken[g],
         \/ queue' = queue /\ (accepted # NoRider => accepted' # NoRider)
         \/ queue' = <<>> /\ accepted' # NoRider,
         timer' \in [Riders -> {"none", "waiting", "active"}],
         \A r \in Riders : timer[r] = "none" => timer'[r] = "none",
         h \in Calls /\ at[h] = "idle" => \A g \in Handlers : at[g] = "nextTimer" => Chosen(g) # RiderOf[h]
  PROVE  Typed' /\ Ranked' /\ OfferedInTurn' /\ QueueIsRest' /\ TakenIsRest' /\ Turn' = Turn
<1> USE Kinds
<1>1. Typed'
  BY DEF TurnFacts, Typed
<1>2. \A g \in Handlers : at'[g] = IF g = h THEN step ELSE at[g]
  BY DEF TurnFacts, Typed
<1>3. Ranked'
  BY <1>2 DEF TurnFacts, Ranked
<1>4. Turn' = Turn
  BY DEF Turn
<1>5. OfferedInTurn'
  BY <1>4 DEF TurnFacts, OfferedInTurn
<1>6. (\E g \in Handlers : at'[g] \in {"nextMark", "nextOffer"}) <=> \E g \in Handlers : at[g] \in {"nextMark", "nextOffer"}
  BY <1>2 DEF Placing
<1>7. Ahead' = Ahead
  BY <1>4, <1>6 DEF Ahead
<1>8. QueueIsRest'
  BY <1>7 DEF TurnFacts, QueueIsRest, IsRest
<1>9. ASSUME NEW g \in Handlers
      PROVE  /\ at'[g] \in {"nextSave", "nextMark", "nextOffer"} => IsRest(taken[g], Turn)' /\ taken'[g] # <<>>
             /\ at'[g] = "nextTimer" =>
                  /\ Turn' > 0 /\ IsRest(taken[g], Turn - 1)'
                  /\ timer'[Chosen(g)'] = "none"
                  /\ \A c \in Calls : RiderOf[c] = Chosen(g)' => at'[c] = "idle"
  <2>1. CASE g = h
    BY <2>1, <1>2 DEF Placing
  <2>2. CASE g # h
    <3>1. at'[g] = at[g] /\ taken'[g] = taken[g] /\ Chosen(g)' = Chosen(g)
      BY <2>2, <1>2 DEF Chosen
    <3>2. at[g] \in {"nextSave", "nextMark", "nextOffer"} => IsRest(taken[g], Turn)' /\ taken'[g] # <<>>
      BY <3>1, <1>4 DEF TurnFacts, TakenIsRest, IsRest
    <3>3. ASSUME at[g] = "nextTimer"
          PROVE  /\ Turn' > 0 /\ IsRest(taken[g], Turn - 1)'
                 /\ timer'[Chosen(g)] = "none"
                 /\ \A c \in Calls : RiderOf[c] = Chosen(g) => at'[c] = "idle"
      <4>1. /\ Turn > 0 /\ IsRest(taken[g], Turn - 1) /\ timer[Chosen(g)] = "none"
            /\ \A c \in Calls : RiderOf[c] = Chosen(g) => at[c] = "idle"
        BY <3>3 DEF TurnFacts, TakenIsRest
      <4>2. Turn' > 0 /\ IsRest(taken[g], Turn - 1)'
        BY <4>1, <3>1, <1>4 DEF IsRest
      <4>3. timer'[Chosen(g)] = "none"
        <5>1. CASE Chosen(g) \in Riders
          BY <5>1, <4>1
        <5>2. Chosen(g) \in Riders
          <6>1. OfferedInTurn /\ Ranked
            BY DEF TurnFacts
          <6>2. taken[g] # <<>>
            BY <4>1, <6>1 DEF IsRest, OfferedInTurn, Ranked
          <6> QED
            BY <6>1, <6>2, <4>1, RestShortens DEF Chosen, Ranked
        <5> QED
          BY <5>1, <5>2
      <4>4. \A c \in Calls : RiderOf[c] = Chosen(g) => at'[c] = "idle"
        BY <4>1, <3>3, <1>2
      <4> QED
        BY <4>2, <4>3, <4>4
    <3> QED
      BY <3>1, <3>2, <3>3
  <2> QED
    BY <2>1, <2>2
<1>10. TakenIsRest'
  BY <1>9 DEF TakenIsRest
<1> QED
  BY <1>1, <1>3, <1>4, <1>5, <1>8, <1>10

(* No new handler is under way, or moves the chain on. *)
LEMMA NobodyStarts ==
  ASSUME OneDriver, \A h \in Handlers : Live(h)' => Live(h)
  PROVE  OneDriver'
BY DEF OneDriver, Who

LEMMA NobodyNewMoves ==
  ASSUME OneMoves, \A h \in Handlers : at'[h] \in Moving => at[h] \in Moving
  PROVE  OneMoves'
BY DEF OneMoves

-----------------------------------------------------------------------------
(* What a handler under way leaves to the others, when it changes no job    *)
(* and goes on to a step that does not move the chain on.                  *)
LEMMA LeavesJobs ==
  ASSUME TurnFacts, NEW h \in Handlers, NEW step \in Steps, at' = [at EXCEPT ![h] = step],
         UNCHANGED timer, offered \subseteq offered', declined \subseteq declined',
         at[h] # "idle", h \in Riders => step # "idle",
         h \in Calls /\ step \in {"decRow"} \cup Moving => at[h] \in {"decRow"} \cup Moving,
         h \in Calls /\ step \in Moving => RiderOf[h] \in declined'
  PROVE  JobsRun' /\ CallsAnswer'
<1> USE Kinds
<1>1. \A g \in Handlers : at'[g] = IF g = h THEN step ELSE at[g]
  BY DEF TurnFacts, Typed
<1>2. JobsRun'
  BY <1>1 DEF TurnFacts, JobsRun
<1>3. CallsAnswer'
  BY <1>1 DEF TurnFacts, CallsAnswer
<1> QED
  BY <1>2, <1>3

LEMMA Alone ==
  ASSUME TurnFacts, NEW h \in Handlers, NEW step, at' = [at EXCEPT ![h] = step],
         Live(h) \/ step \in {"idle", "completing"},
         \A r \in Riders : active' = r => active = r
  PROVE  OneDriver'
<1>1. \A g \in Handlers : at'[g] = IF g = h THEN step ELSE at[g]
  BY DEF TurnFacts, Typed
<1>2. \A g \in Handlers : Live(g)' => Live(g)
  BY <1>1, Kinds DEF Live
<1> QED
  BY <1>2, NobodyStarts DEF TurnFacts

-----------------------------------------------------------------------------
(* The steps of a handler that moves the chain on. *)
LEMMA CheckTurns ==
  ASSUME GuardInv, TurnFacts, NEW h \in Handlers,
         NextCheck(h) \/ ToPublic(h) \/ (NextRead(h) /\ queue = <<>>)
  PROVE  TurnFacts'
<1> USE Kinds
<1>1. PICK step \in {"nextRead", "toPublic", "idle", "completing"} :
         /\ at' = [at EXCEPT ![h] = step]
         /\ h \in Riders => step # "idle"
  BY DEF NextCheck, ToPublic, NextRead, Return, Goto
<1>2. /\ at[h] \in {"nextCheck", "nextRead", "toPublic"} /\ at[h] \notin Placing /\ at[h] \in Moving /\ Live(h)
      /\ step \in Steps /\ step \notin Placing \cup {"start"}
      /\ UNCHANGED <<eligible, offered, queue, accepted, timer, declined, active>>
      /\ \A g \in Handlers : g # h => taken'[g] = taken[g]
      /\ taken' = [g \in Handlers |-> taken'[g]]
  BY <1>1 DEF NextCheck, ToPublic, NextRead, Placing, Moving, Live, Steps, TurnFacts, Typed
<1>3. Typed' /\ Ranked' /\ OfferedInTurn' /\ QueueIsRest' /\ TakenIsRest'
  <2>1. timer' \in [Riders -> {"none", "waiting", "active"}]
    BY <1>2 DEF TurnFacts, Typed
  <2> QED
    BY <1>1, <1>2, <2>1, ChoosesNobody
<1>4. JobsRun' /\ CallsAnswer'
  <2>1. h \in Calls => RiderOf[h] \in declined'
    BY <1>2 DEF TurnFacts, CallsAnswer
  <2> QED
    BY <1>1, <1>2, <2>1, LeavesJobs DEF Moving
<1>5. OneDriver'
  BY <1>1, <1>2, Alone
<1>6. OneMoves'
  <2>1. \A g \in Handlers : at'[g] \in Moving => at[g] \in Moving
    BY <1>1, <1>2 DEF TurnFacts, Typed
  <2> QED
    BY <2>1, NobodyNewMoves DEF TurnFacts
<1> QED
  BY <1>3, <1>4, <1>5, <1>6 DEF TurnFacts

(* What a move leaves alone when it chooses a driver. *)
LEMMA Chooses ==
  ASSUME TurnFacts, NEW h \in Handlers, NEW step \in Placing, at' = [at EXCEPT ![h] = step],
         at[h] \in Moving, UNCHANGED <<timer, declined>>, offered \subseteq offered',
         active' = active \/ (active' \in Riders /\ at[active'] = "idle"),
         taken' = [g \in Handlers |-> taken'[g]],
         UNCHANGED eligible
  PROVE  /\ Typed' /\ Ranked' /\ JobsRun' /\ CallsAnswer' /\ OneDriver' /\ OneMoves'
         /\ \A g \in Handlers : at'[g] = IF g = h THEN step ELSE at[g]
         /\ \A g \in Handlers \ {h} : at[g] \notin Moving /\ at'[g] \notin Moving
<1> USE Kinds
<1>1. \A g \in Handlers : at'[g] = IF g = h THEN step ELSE at[g]
  BY DEF TurnFacts, Typed
<1>2. step \in Steps /\ step \in Moving /\ step # "start" /\ step \notin {"idle", "completing", "outAccepted", "outActive"}
  BY DEF Placing, Moving, Steps
<1>3. at[h] \notin {"idle", "completing", "outAccepted", "outActive", "start"}
  BY DEF Moving
<1>4. Typed' /\ Ranked'
  BY <1>1, <1>2 DEF TurnFacts, Typed, Ranked
<1>5. JobsRun' /\ CallsAnswer'
  <2>1. h \in Calls => RiderOf[h] \in declined'
    BY DEF TurnFacts, CallsAnswer
  <2> QED
    BY <1>2, <1>3, <2>1, LeavesJobs
<1>6. OneDriver'
  <2>1. \A g \in Handlers : Live(g)' => Live(g)
    BY <1>1, <1>2, <1>3 DEF Live
  <2> QED
    BY <2>1, NobodyStarts DEF TurnFacts
<1>7. OneMoves'
  <2>1. \A g \in Handlers : at'[g] \in Moving => at[g] \in Moving
    BY <1>1
  <2> QED
    BY <2>1, NobodyNewMoves DEF TurnFacts
<1>8. \A g \in Handlers \ {h} : at[g] \notin Moving /\ at'[g] \notin Moving
  BY <1>1 DEF TurnFacts, OneMoves
<1> QED
  BY <1>1, <1>4, <1>5, <1>6, <1>7, <1>8

LEMMA ReadTurns ==
  ASSUME TurnFacts, NEW h \in Handlers, NextRead(h), queue # <<>>
  PROVE  TurnFacts'
<1> USE Kinds
<1>1. /\ at[h] = "nextRead" /\ at' = [at EXCEPT ![h] = "nextSave"] /\ taken' = [taken EXCEPT ![h] = queue]
      /\ UNCHANGED <<eligible, offered, queue, accepted, timer, declined, active>>
  BY DEF NextRead, Goto
<1>2. taken'[h] = queue /\ taken' = [g \in Handlers |-> taken'[g]]
  BY <1>1 DEF TurnFacts, Typed
<1>3. /\ Typed' /\ Ranked' /\ JobsRun' /\ CallsAnswer' /\ OneDriver' /\ OneMoves'
      /\ \A g \in Handlers : at'[g] = IF g = h THEN "nextSave" ELSE at[g]
      /\ \A g \in Handlers \ {h} : at[g] \notin Moving /\ at'[g] \notin Moving
  <2>1. "nextSave" \in Placing /\ at[h] \in Moving
    BY <1>1 DEF Placing, Moving
  <2> QED
    BY <1>1, <1>2, <2>1, Chooses
<1>4. Turn' = Turn
  BY <1>1 DEF Turn
<1>5. OfferedInTurn'
  BY <1>1, <1>4 DEF TurnFacts, OfferedInTurn
<1>6. Ahead = Turn /\ Ahead' = Turn
  BY <1>1, <1>3, <1>4 DEF Ahead, Moving
<1>7. IsRest(queue, Turn)
  BY <1>6 DEF TurnFacts, QueueIsRest
<1>8. QueueIsRest'
  BY <1>1, <1>6, <1>7 DEF QueueIsRest, IsRest
<1>9. TakenIsRest'
  <2>1. IsRest(taken[h], Turn)'
    BY <1>1, <1>2, <1>4, <1>7 DEF IsRest
  <2> QED
    BY <1>2, <1>3, <2>1 DEF TakenIsRest, Moving
<1> QED
  BY <1>3, <1>5, <1>8, <1>9 DEF TurnFacts

LEMMA SaveTurns ==
  ASSUME TurnFacts, NEW h \in Handlers, NextSave(h)
  PROVE  TurnFacts'
<1> USE Kinds
<1>1. /\ at[h] = "nextSave" /\ at' = [at EXCEPT ![h] = "nextMark"] /\ queue' = Tail(taken[h])
      /\ UNCHANGED <<eligible, offered, accepted, timer, declined, active, taken>>
  BY DEF NextSave, Goto, Rest
<1>2. taken' = [g \in Handlers |-> taken'[g]]
  BY <1>1 DEF TurnFacts, Typed
<1>3. /\ Typed' /\ Ranked' /\ JobsRun' /\ CallsAnswer' /\ OneDriver' /\ OneMoves'
      /\ \A g \in Handlers : at'[g] = IF g = h THEN "nextMark" ELSE at[g]
      /\ \A g \in Handlers \ {h} : at[g] \notin Moving /\ at'[g] \notin Moving
  <2>1. "nextMark" \in Placing /\ at[h] \in Moving
    BY <1>1 DEF Placing, Moving
  <2> QED
    BY <1>1, <1>2, <2>1, Chooses
<1>4. Turn' = Turn
  BY <1>1 DEF Turn
<1>5. OfferedInTurn'
  BY <1>1, <1>4 DEF TurnFacts, OfferedInTurn
<1>6. Ahead' = Turn + 1
  BY <1>3, <1>4 DEF Ahead
<1>7. IsRest(taken[h], Turn) /\ taken[h] # <<>> /\ eligible \in Seq(Riders)
  BY <1>1 DEF TurnFacts, TakenIsRest, Ranked
<1>8. QueueIsRest'
  <2>1. IsRest(Tail(taken[h]), Turn + 1)
    BY <1>7, RestShortens
  <2>2. IsRest(queue, Ahead)'
    BY <1>1, <1>6, <2>1 DEF IsRest
  <2> QED
    BY <2>2 DEF QueueIsRest
<1>9. TakenIsRest'
  <2>1. IsRest(taken[h], Turn)' /\ taken'[h] # <<>>
    BY <1>1, <1>4, <1>7 DEF IsRest
  <2> QED
    BY <1>3, <2>1 DEF TakenIsRest, Moving
<1> QED
  BY <1>3, <1>5, <1>8, <1>9 DEF TurnFacts

(* Nobody who was not asked is under way, and the next one was not asked. *)
LEMMA NextIsNew ==
  ASSUME TurnFacts, NEW h \in Handlers, at[h] \in {"nextSave", "nextMark", "nextOffer"}
  PROVE  /\ Chosen(h) \in Riders /\ Chosen(h) = eligible[Turn + 1] /\ Turn < Len(eligible) /\ Turn \in Nat
         /\ Chosen(h) \notin offered /\ timer[Chosen(h)] = "none" /\ at[Chosen(h)] = "idle"
         /\ \A c \in Calls : RiderOf[c] = Chosen(h) => at[c] = "idle"
<1>1. IsRest(taken[h], Turn) /\ taken[h] # <<>> /\ eligible \in Seq(Riders)
  BY DEF TurnFacts, TakenIsRest, Ranked
<1>2. Chosen(h) \in Riders /\ Chosen(h) = eligible[Turn + 1] /\ Turn < Len(eligible) /\ Turn \in Nat
  BY <1>1, RestShortens DEF Chosen
<1>3. Chosen(h) \notin offered
  <2> SUFFICES ASSUME NEW i \in 1..Turn, eligible[i] = eligible[Turn + 1] PROVE FALSE
    BY <1>2 DEF TurnFacts, OfferedInTurn
  <2>1. i \in 1..Len(eligible) /\ Turn + 1 \in 1..Len(eligible) /\ i # Turn + 1
    BY <1>1, <1>2
  <2> QED
    BY <2>1 DEF TurnFacts, Ranked
<1>4. timer[Chosen(h)] = "none" /\ at[Chosen(h)] = "idle"
  BY <1>2, <1>3 DEF TurnFacts, JobsRun, Typed
<1>5. \A c \in Calls : RiderOf[c] = Chosen(h) => at[c] = "idle"
  BY <1>3 DEF TurnFacts, CallsAnswer
<1> QED
  BY <1>2, <1>3, <1>4, <1>5

LEMMA MarkTurns ==
  ASSUME TurnFacts, NEW h \in Handlers, NextMark(h)
  PROVE  TurnFacts'
<1> USE Kinds
<1>1. /\ at[h] = "nextMark" /\ at' = [at EXCEPT ![h] = "nextOffer"] /\ active' = Chosen(h)
      /\ UNCHANGED <<eligible, offered, accepted, timer, declined, queue, taken>>
  BY DEF NextMark, Goto
<1>2. taken' = [g \in Handlers |-> taken'[g]]
  BY <1>1 DEF TurnFacts, Typed
<1>3. /\ Typed' /\ Ranked' /\ JobsRun' /\ CallsAnswer' /\ OneDriver' /\ OneMoves'
      /\ \A g \in Handlers : at'[g] = IF g = h THEN "nextOffer" ELSE at[g]
      /\ \A g \in Handlers \ {h} : at[g] \notin Moving /\ at'[g] \notin Moving
  <2>1. "nextOffer" \in Placing /\ at[h] \in Moving
    BY <1>1 DEF Placing, Moving
  <2>2. active' \in Riders /\ at[active'] = "idle"
    BY <1>1, NextIsNew
  <2> QED
    BY <1>1, <1>2, <2>1, <2>2, Chooses
<1>4. Turn' = Turn
  BY <1>1 DEF Turn
<1>5. OfferedInTurn'
  BY <1>1, <1>4 DEF TurnFacts, OfferedInTurn
<1>6. Ahead = Turn + 1 /\ Ahead' = Turn + 1
  BY <1>1, <1>3, <1>4 DEF Ahead
<1>7. QueueIsRest'
  BY <1>1, <1>6 DEF TurnFacts, QueueIsRest, IsRest
<1>8. TakenIsRest'
  <2>1. IsRest(taken[h], Turn)' /\ taken'[h] # <<>>
    BY <1>1, <1>4 DEF TurnFacts, TakenIsRest, IsRest
  <2> QED
    BY <1>3, <2>1 DEF TakenIsRest, Moving
<1> QED
  BY <1>3, <1>5, <1>7, <1>8 DEF TurnFacts

LEMMA OfferTurns ==
  ASSUME TurnFacts, NEW h \in Handlers, NextOffer(h)
  PROVE  TurnFacts'
<1> USE Kinds
<1> DEFINE x == Chosen(h)
<1>1. /\ at[h] = "nextOffer" /\ at' = [at EXCEPT ![h] = "nextTimer"] /\ offered' = offered \cup {x}
      /\ UNCHANGED <<eligible, active, accepted, timer, declined, queue, taken>>
  BY DEF NextOffer, Goto
<1>2. taken' = [g \in Handlers |-> taken'[g]]
  BY <1>1 DEF TurnFacts, Typed
<1>3. /\ Typed' /\ Ranked' /\ JobsRun' /\ CallsAnswer' /\ OneDriver' /\ OneMoves'
      /\ \A g \in Handlers : at'[g] = IF g = h THEN "nextTimer" ELSE at[g]
      /\ \A g \in Handlers \ {h} : at[g] \notin Moving /\ at'[g] \notin Moving
  <2>1. "nextTimer" \in Placing /\ at[h] \in Moving
    BY <1>1 DEF Placing, Moving
  <2> QED
    BY <1>1, <1>2, <2>1, Chooses
<1>4. /\ x \in Riders /\ x = eligible[Turn + 1] /\ Turn < Len(eligible) /\ Turn \in Nat
      /\ x \notin offered /\ timer[x] = "none"
      /\ \A c \in Calls : RiderOf[c] = x => at[c] = "idle"
  BY <1>1, NextIsNew
<1>5. IsFiniteSet(offered') /\ Turn' = Turn + 1
  <2>1. IsFiniteSet(offered)
    BY DEF TurnFacts, OfferedInTurn
  <2> QED
    BY <1>1, <1>4, <2>1, FS_AddElement DEF Turn
<1>6. OfferedInTurn'
  <2>1. offered = {eligible[i] : i \in 1..Turn} /\ Len(eligible) \in Nat
    BY DEF TurnFacts, OfferedInTurn, Ranked
  <2>2. offered' = {eligible[i] : i \in 1..Turn + 1}
    <3>1. 1..Turn + 1 = (1..Turn) \cup {Turn + 1}
      BY <1>4
    <3> QED
      BY <1>1, <1>4, <2>1, <3>1
  <2>3. Turn + 1 \in 0..Len(eligible)
    BY <1>4, <2>1
  <2> QED
    BY <1>1, <1>5, <2>2, <2>3 DEF OfferedInTurn
<1>7. Ahead = Turn + 1 /\ Ahead' = Turn + 1
  BY <1>1, <1>3, <1>5 DEF Ahead, Moving
<1>8. QueueIsRest'
  BY <1>1, <1>7 DEF TurnFacts, QueueIsRest, IsRest
<1>9. TakenIsRest'
  <2>1. IsRest(taken[h], Turn)
    BY <1>1 DEF TurnFacts, TakenIsRest
  <2>2. Turn' - 1 = Turn /\ Turn' > 0
    BY <1>4, <1>5
  <2>3. IsRest(taken[h], Turn - 1)'
    BY <1>1, <2>1, <2>2 DEF IsRest
  <2>4. timer'[Chosen(h)'] = "none" /\ \A c \in Calls : RiderOf[c] = Chosen(h)' => at'[c] = "idle"
    BY <1>1, <1>3, <1>4 DEF Chosen
  <2> QED
    BY <1>3, <2>2, <2>3, <2>4 DEF TakenIsRest, Moving
<1> QED
  BY <1>3, <1>6, <1>8, <1>9 DEF TurnFacts

LEMMA TimerTurns ==
  ASSUME TurnFacts, NEW h \in Handlers, NextTimer(h)
  PROVE  TurnFacts'
<1> USE Kinds
<1> DEFINE x == Chosen(h)
<1>1. PICK step \in {"idle", "completing"} :
        /\ at[h] = "nextTimer" /\ at' = [at EXCEPT ![h] = step]
        /\ h \in Riders => step = "completing"
        /\ timer' = TimersWith(x) /\ taken' = [taken EXCEPT ![h] = <<>>]
        /\ UNCHANGED <<eligible, offered, active, accepted, declined, queue>>
  BY DEF NextTimer, Return, Goto
<1>2. /\ Turn > 0 /\ IsRest(taken[h], Turn - 1) /\ timer[x] = "none" /\ Turn \in 0..Len(eligible)
      /\ \A c \in Calls : RiderOf[c] = x => at[c] = "idle"
  BY <1>1 DEF TurnFacts, TakenIsRest, OfferedInTurn
<1>3. x \in Riders /\ x \in offered
  <2>1. eligible \in Seq(Riders) /\ taken[h] # <<>>
    BY <1>2 DEF TurnFacts, Ranked, IsRest
  <2>2. Head(taken[h]) \in Riders /\ Head(taken[h]) = eligible[(Turn - 1) + 1]
    BY <1>2, <2>1, RestShortens
  <2>3. (Turn - 1) + 1 = Turn /\ Turn \in 1..Turn
    BY <1>2
  <2> QED
    BY <2>2, <2>3 DEF Chosen, TurnFacts, OfferedInTurn
<1>4. timer' = [timer EXCEPT ![x] = "waiting"]
  BY <1>1, <1>2, <1>3 DEF TimersWith, TurnFacts, Typed
<1> HIDE DEF x
<1>5. /\ \A g \in Handlers : at'[g] = IF g = h THEN step ELSE at[g]
      /\ \A g \in Handlers \ {h} : at[g] \notin Moving /\ at'[g] \notin Moving
      /\ \A r \in Riders : timer'[r] = IF r = x THEN "waiting" ELSE timer[r]
  BY <1>1, <1>4 DEF TurnFacts, Typed, OneMoves, Moving
<1>6. Typed' /\ Ranked'
  <2>1. at' \in [Handlers -> Steps]
    BY <1>1 DEF TurnFacts, Typed, Steps
  <2>2. taken' = [g \in Handlers |-> taken'[g]]
    BY <1>1 DEF TurnFacts, Typed
  <2>3. timer' \in [Riders -> {"none", "waiting", "active"}]
    BY <1>3, <1>4 DEF TurnFacts, Typed
  <2>4. Ranked'
    BY <1>1, <1>5 DEF TurnFacts, Ranked
  <2> QED
    BY <2>1, <2>2, <2>3, <2>4 DEF Typed
<1>7. Turn' = Turn
  BY <1>1 DEF Turn
<1>8. OfferedInTurn'
  BY <1>1, <1>7 DEF TurnFacts, OfferedInTurn
<1>9. Ahead = Turn /\ Ahead' = Turn
  BY <1>1, <1>5, <1>7 DEF Ahead, Moving
<1>10. QueueIsRest'
  BY <1>1, <1>9 DEF TurnFacts, QueueIsRest, IsRest
<1>11. TakenIsRest'
  BY <1>5 DEF TakenIsRest, Moving
<1>12. JobsRun'
  <2>1. at[x] = "idle"
    BY <1>2, <1>3 DEF TurnFacts, JobsRun
  <2> QED
    BY <1>1, <1>3, <1>5, <2>1 DEF TurnFacts, JobsRun
<1>13. CallsAnswer'
  BY <1>1, <1>2, <1>5 DEF TurnFacts, CallsAnswer, Moving
<1>14. OneDriver'
  BY <1>1, Alone
<1>15. OneMoves'
  BY <1>5 DEF OneMoves, TurnFacts
<1> QED
  BY <1>6, <1>8, <1>10, <1>11, <1>12, <1>13, <1>14, <1>15 DEF TurnFacts

LEMMA StartTurns ==
  ASSUME TurnFacts, StartChain
  PROVE  TurnFacts'
<1> USE Kinds
<1>1. PICK q \in Rankings, step \in {"toPublic", "nextCheck"} :
        /\ at[Placer] = "start" /\ at' = [at EXCEPT ![Placer] = step] /\ eligible' = q /\ queue' = q
        /\ UNCHANGED <<offered, active, accepted, declined, timer, taken>>
  BY DEF StartChain, Goto
<1>2. q \in Seq(Riders) /\ Len(q) \in Nat /\ \A i, j \in 1..Len(q) : q[i] = q[j] => i = j
  <2>1. PICK n \in 0..MaxListed : q \in Injection(1..n, Riders)
    BY DEF Rankings
  <2>2. n \in Nat /\ q \in [1..n -> Riders] /\ \A i, j \in 1..n : q[i] = q[j] => i = j
    BY <2>1, PopupAssumption DEF Injection, IsInjective
  <2>3. q \in Seq(Riders) /\ Len(q) = n
    BY <2>2
  <2> QED
    BY <2>2, <2>3
<1>3. eligible = <<>> /\ Turn = 0 /\ offered = {}
  <2>1. eligible = <<>>
    BY <1>1 DEF TurnFacts, Ranked
  <2> QED
    BY <2>1 DEF TurnFacts, OfferedInTurn
<1>4. \A h \in Handlers : h # Placer => at[h] = "idle"
  BY <1>3 DEF Handlers, TurnFacts, JobsRun, CallsAnswer, Typed
<1>5. \A h \in Handlers : at'[h] = IF h = Placer THEN step ELSE "idle"
  BY <1>1, <1>4 DEF TurnFacts, Typed
<1>6. Typed' /\ Ranked'
  BY <1>1, <1>2, <1>5 DEF TurnFacts, Typed, Ranked, Steps
<1>7. Turn' = 0 /\ Ahead' = 0
  BY <1>1, <1>3, <1>5 DEF Turn, Ahead
<1>8. OfferedInTurn'
  BY <1>1, <1>2, <1>3, <1>7 DEF TurnFacts, OfferedInTurn
<1>9. QueueIsRest'
  <2>1. \A i \in 1..Len(q) : q[i] = q[0 + i]
    OBVIOUS
  <2> QED
    BY <1>1, <1>2, <1>7, <2>1 DEF QueueIsRest, IsRest
<1>10. TakenIsRest'
  BY <1>5 DEF TakenIsRest
<1>11. JobsRun' /\ CallsAnswer'
  BY <1>1, <1>3, <1>5 DEF TurnFacts, JobsRun, CallsAnswer
<1>12. OneDriver' /\ OneMoves'
  BY <1>5 DEF OneDriver, OneMoves, Live, Moving
<1> QED
  BY <1>6, <1>8, <1>9, <1>10, <1>11, <1>12 DEF TurnFacts

(* A driver answers: no other driver's handler is under way. *)
LEMMA AnswerTurns ==
  ASSUME TurnFacts, ~SlowHandlers, NEW c \in Calls, Accept(c) \/ Decline(c)
  PROVE  TurnFacts'
<1> USE Kinds
<1>1. PICK step \in {"accMark", "decTimer"} :
        /\ at[c] = "idle" /\ at' = [at EXCEPT ![c] = step] /\ RiderOf[c] \in offered
        /\ UNCHANGED <<eligible, offered, active, accepted, declined, timer, taken, queue>>
  BY DEF Accept, Decline, MayAnswer, Goto
<1>2. \A h \in Handlers : at[h] = "idle" \/ Who(h) = RiderOf[c]
  BY DEF Accept, Decline, MayAnswer, Who
<1>3. c \in Handlers /\ step \in Steps \ (Placing \cup {"start"} \cup Moving) /\ at[c] \notin Placing
  BY <1>1 DEF Steps, Placing, Moving
<1>4. \A g \in Handlers : at[g] = "nextTimer" => Chosen(g) # RiderOf[c]
  <2> SUFFICES ASSUME NEW g \in Handlers, at[g] = "nextTimer", Chosen(g) = RiderOf[c] PROVE FALSE
    OBVIOUS
  <2>1. timer[RiderOf[c]] = "none" /\ \A d \in Calls : RiderOf[d] = RiderOf[c] => at[d] = "idle"
    BY DEF TurnFacts, TakenIsRest
  <2>2. at[RiderOf[c]] = "idle"
    BY <2>1 DEF TurnFacts, JobsRun, Typed
  <2> QED
    BY <1>2, <2>1, <2>2 DEF Who
<1>5. Typed' /\ Ranked' /\ OfferedInTurn' /\ QueueIsRest' /\ TakenIsRest'
  <2>1. /\ timer' \in [Riders -> {"none", "waiting", "active"}] /\ taken' = [g \in Handlers |-> taken'[g]]
        /\ \A r \in Riders : timer[r] = "none" => timer'[r] = "none"
        /\ \A g \in Handlers : g # c => taken'[g] = taken[g]
    BY <1>1 DEF TurnFacts, Typed
  <2>2. queue' = queue /\ (accepted # NoRider => accepted' # NoRider)
    BY <1>1
  <2>3. UNCHANGED <<eligible, offered>>
    BY <1>1
  <2> QED
    BY <1>1, <1>3, <1>4, <2>1, <2>2, <2>3, ChoosesNobody
<1>6. \A g \in Handlers : at'[g] = IF g = c THEN step ELSE at[g]
  BY <1>1, <1>3 DEF TurnFacts, Typed
<1>7. JobsRun' /\ CallsAnswer'
  BY <1>1, <1>3, <1>6 DEF TurnFacts, JobsRun, CallsAnswer
<1>8. OneDriver'
  <2>1. \A g \in Handlers : Live(g)' => Who(g)' = RiderOf[c]
    BY <1>1, <1>2, <1>6 DEF Live, Who
  <2> QED
    BY <2>1 DEF OneDriver
<1>9. OneMoves'
  <2>1. \A g \in Handlers : at'[g] \in Moving => at[g] \in Moving
    BY <1>3, <1>6
  <2> QED
    BY <2>1, NobodyNewMoves DEF TurnFacts
<1> QED
  BY <1>5, <1>7, <1>8, <1>9 DEF TurnFacts

(* An answer goes on, and does not move the chain on. *)
LEMMA AnswerGoesOn ==
  ASSUME GuardInv, TurnFacts, NEW c \in Calls,
         \/ AcceptStep(c) \/ DecTimer(c) \/ (DecRow(c) /\ RiderOf[c] \in declined)
  PROVE  TurnFacts'
<1> USE Kinds
<1>1. PICK step \in {"idle", "accDropQueue", "accDropActive", "accTimer", "accAssign", "decRow"} :
        /\ at' = [at EXCEPT ![c] = step] /\ UNCHANGED <<eligible, offered, taken>>
        /\ at[c] \in {"accMark", "accDropQueue", "accDropActive", "accTimer", "accAssign", "decTimer", "decRow"}
        /\ timer' = timer \/ (timer[RiderOf[c]] # "active" /\ timer' = [timer EXCEPT ![RiderOf[c]] = "none"])
        /\ step = "decRow" => timer' = [timer EXCEPT ![RiderOf[c]] = "none"]
        /\ declined \subseteq declined'
        /\ active' = active \/ active' = NoRider
  BY DEF AcceptStep, AccMark, AccDropQueue, AccDropActive, AccTimer, AccAssign, DecTimer, DecRow, RemoveTimer, Goto
<1>2. \/ queue' = queue /\ (accepted # NoRider => accepted' # NoRider)
      \/ queue' = <<>> /\ accepted' # NoRider
  BY DEF AcceptStep, AccMark, AccDropQueue, AccDropActive, AccTimer, AccAssign, DecTimer, DecRow,
     GuardInv, AcceptorsMarked, AcceptSteps
<1>3. /\ c \in Handlers /\ step \in Steps /\ step \notin Placing \cup {"start"} /\ step \notin Moving
      /\ at[c] \notin Placing /\ at[c] # "idle" /\ Live(c)
  BY <1>1 DEF Steps, Placing, Moving, Live
<1>4. /\ timer' \in [Riders -> {"none", "waiting", "active"}] /\ taken' = [g \in Handlers |-> taken'[g]]
      /\ \A r \in Riders : timer[r] = "none" => timer'[r] = "none"
      /\ \A r \in Riders : timer'[r] = timer[r] \/ (timer[r] # "active" /\ timer'[r] = "none")
      /\ step = "decRow" => timer'[RiderOf[c]] = "none"
  <2>1. /\ timer \in [Riders -> {"none", "waiting", "active"}] /\ taken = [g \in Handlers |-> taken[g]]
        /\ RiderOf[c] \in Riders
    BY DEF TurnFacts, Typed
  <2>2. CASE timer' = timer
    BY <1>1, <2>1, <2>2
  <2>3. CASE timer[RiderOf[c]] # "active" /\ timer' = [timer EXCEPT ![RiderOf[c]] = "none"]
    BY <1>1, <2>1, <2>3
  <2> QED
    BY <1>1, <2>2, <2>3
<1>5. Typed' /\ Ranked' /\ OfferedInTurn' /\ QueueIsRest' /\ TakenIsRest'
  BY <1>1, <1>2, <1>3, <1>4, ChoosesNobody
<1>6. \A g \in Handlers : at'[g] = IF g = c THEN step ELSE at[g]
  BY <1>1, <1>3 DEF TurnFacts, Typed
<1>7. JobsRun'
  <2> SUFFICES ASSUME NEW r \in Riders PROVE (timer'[r] = "active" <=> at'[r] # "idle") /\ (timer'[r] # "none" => r \in offered')
    BY DEF JobsRun
  <2>1. at'[r] = at[r]
    BY <1>6
  <2> QED
    BY <1>1, <1>4, <2>1 DEF TurnFacts, JobsRun
<1>8. CallsAnswer'
  BY <1>1, <1>3, <1>4, <1>6 DEF TurnFacts, CallsAnswer
<1>9. OneDriver'
  <2>1. \A g \in Handlers : Live(g)' => Live(g)
    BY <1>1, <1>3, <1>6 DEF Live
  <2> QED
    BY <2>1, NobodyStarts DEF TurnFacts
<1>10. OneMoves'
  <2>1. \A g \in Handlers : at'[g] \in Moving => at[g] \in Moving
    BY <1>3, <1>6
  <2> QED
    BY <2>1, NobodyNewMoves DEF TurnFacts
<1> QED
  BY <1>5, <1>7, <1>8, <1>9, <1>10 DEF TurnFacts

(* The two ways to pass the turn on: the decline, and the timeout. *)
LEMMA PassesOn ==
  ASSUME TurnFacts, NEW h \in Handlers, at' = [at EXCEPT ![h] = "nextCheck"],
         at[h] \in {"decRow", "outActive"}, Live(h), h \in Calls => timer[RiderOf[h]] = "none",
         h \in Calls => RiderOf[h] \in declined',
         \A g \in Handlers : at[g] \in Moving /\ Who(g) = Who(h) => FALSE,
         UNCHANGED <<eligible, offered, taken, queue, accepted, timer, active>>,
         declined \subseteq declined'
  PROVE  TurnFacts'
<1> USE Kinds
<1>1. "nextCheck" \in Steps /\ "nextCheck" \notin Placing \cup {"start", "idle"} /\ at[h] \notin Placing \cup {"idle"}
  BY DEF Steps, Placing
<1>2. \A g \in Handlers : at'[g] = IF g = h THEN "nextCheck" ELSE at[g]
  BY DEF TurnFacts, Typed
<1>3. Typed' /\ Ranked' /\ OfferedInTurn' /\ QueueIsRest' /\ TakenIsRest'
  <2>1. timer' \in [Riders -> {"none", "waiting", "active"}] /\ taken' = [g \in Handlers |-> taken'[g]]
    BY DEF TurnFacts, Typed
  <2> QED
    BY <1>1, <2>1, ChoosesNobody
<1>4. JobsRun'
  BY <1>1, <1>2 DEF TurnFacts, JobsRun
<1>5. CallsAnswer'
  BY <1>1, <1>2 DEF TurnFacts, CallsAnswer
<1>6. OneDriver'
  BY Alone
<1>7. OneMoves'
  <2>1. \A g \in Handlers : at[g] \in Moving => Live(g)
    BY DEF Live, Moving
  <2>2. \A g \in Handlers : at[g] \in Moving => FALSE
    BY <2>1 DEF TurnFacts, OneDriver
  <2> QED
    BY <1>2, <2>2 DEF OneMoves
<1> QED
  BY <1>3, <1>4, <1>5, <1>6, <1>7 DEF TurnFacts

LEMMA DeclineTurns ==
  ASSUME TurnFacts, NEW c \in Calls, DecRow(c), RiderOf[c] \notin declined
  PROVE  TurnFacts'
<1> USE Kinds
<1>1. /\ at[c] = "decRow" /\ at' = [at EXCEPT ![c] = "nextCheck"] /\ declined' = declined \cup {RiderOf[c]}
      /\ UNCHANGED <<eligible, offered, taken, queue, accepted, timer, active>>
  BY DEF DecRow, Goto
<1>2. timer[RiderOf[c]] = "none"
  BY <1>1 DEF TurnFacts, CallsAnswer
<1>3. ASSUME NEW g \in Handlers, at[g] \in Moving, Who(g) = Who(c) PROVE FALSE
  <2>1. CASE g \in Calls
    BY <1>3, <2>1 DEF TurnFacts, CallsAnswer, Who
  <2>2. CASE g \in Riders
    <3>1. g = RiderOf[c] /\ at[g] # "idle"
      BY <1>3, <2>2 DEF Who, Moving
    <3> QED
      BY <1>2, <3>1 DEF TurnFacts, JobsRun
  <2>3. CASE g = Placer
    BY <1>3, <2>3 DEF Who
  <2> QED
    BY <2>1, <2>2, <2>3 DEF Handlers
<1>4. Live(c) /\ c \in Handlers
  BY <1>1 DEF Live
<1> QED
  BY <1>1, <1>2, <1>3, <1>4, PassesOn

LEMMA TimeoutTurns ==
  ASSUME TurnFacts, NEW r \in Riders, OutActive(r), active = r
  PROVE  TurnFacts'
<1> USE Kinds
<1>1. /\ at[r] = "outActive" /\ at' = [at EXCEPT ![r] = "nextCheck"]
      /\ UNCHANGED <<eligible, offered, taken, queue, accepted, timer, active, declined>>
  BY DEF OutActive, Goto
<1>2. timer[r] = "active"
  BY <1>1 DEF TurnFacts, JobsRun
<1>3. ASSUME NEW g \in Handlers, at[g] \in Moving, Who(g) = Who(r) PROVE FALSE
  <2>1. CASE g \in Calls
    BY <1>2, <1>3, <2>1 DEF TurnFacts, CallsAnswer, Who
  <2>2. CASE g \in Riders
    BY <1>1, <1>3, <2>2 DEF Who, Moving
  <2>3. CASE g = Placer
    BY <1>3, <2>3 DEF Who
  <2> QED
    BY <2>1, <2>2, <2>3 DEF Handlers
<1>4. Live(r) /\ r \in Handlers /\ r \notin Calls
  BY <1>1 DEF Live
<1> QED
  BY <1>1, <1>3, <1>4, PassesOn

(* The other steps of a timeout job. *)
LEMMA JobTurns ==
  ASSUME TurnFacts, NEW r \in Riders, OutAccepted(r) \/ (OutActive(r) /\ active # r)
  PROVE  TurnFacts'
<1> USE Kinds
<1>1. PICK step \in {"completing", "outActive"} :
        /\ at[r] \in {"outAccepted", "outActive"} /\ at' = [at EXCEPT ![r] = step]
        /\ UNCHANGED <<eligible, offered, taken, queue, accepted, timer, active, declined>>
  BY DEF OutAccepted, OutActive, Goto, Return
<1>2. /\ r \in Handlers /\ step \in Steps /\ step \notin Placing \cup {"start", "idle", "decRow"} \cup Moving
      /\ at[r] \notin Placing /\ at[r] # "idle" /\ r \notin Calls
  BY <1>1 DEF Steps, Placing, Moving
<1>3. Typed' /\ Ranked' /\ OfferedInTurn' /\ QueueIsRest' /\ TakenIsRest'
  <2>1. timer' \in [Riders -> {"none", "waiting", "active"}] /\ taken' = [g \in Handlers |-> taken'[g]]
    BY <1>1 DEF TurnFacts, Typed
  <2> QED
    BY <1>1, <1>2, <2>1, ChoosesNobody
<1>4. \A g \in Handlers : at'[g] = IF g = r THEN step ELSE at[g]
  BY <1>1 DEF TurnFacts, Typed
<1>5. JobsRun' /\ CallsAnswer'
  BY <1>1, <1>2, <1>4 DEF TurnFacts, JobsRun, CallsAnswer
<1>6. OneDriver'
  <2>1. \A g \in Handlers : Live(g)' => Live(g)
    BY <1>1, <1>4 DEF Live
  <2> QED
    BY <2>1, NobodyStarts DEF TurnFacts
<1>7. OneMoves'
  <2>1. \A g \in Handlers : at'[g] \in Moving => at[g] \in Moving
    BY <1>2, <1>4
  <2> QED
    BY <2>1, NobodyNewMoves DEF TurnFacts
<1> QED
  BY <1>3, <1>5, <1>6, <1>7 DEF TurnFacts

(* The worker takes up a job, or is done with it. *)
LEMMA WorkerTurns ==
  ASSUME TurnFacts, ~SlowHandlers, NEW r \in Riders, FireTimeout(r) \/ Complete(r)
  PROVE  TurnFacts'
<1> USE Kinds
<1>1. PICK step \in {"idle", "outAccepted"}, job \in {"none", "active"} :
        /\ at' = [at EXCEPT ![r] = step] /\ timer' = [timer EXCEPT ![r] = job]
        /\ job = "active" <=> step = "outAccepted"
        /\ step = "outAccepted" => timer[r] = "waiting"
        /\ step = "idle" => at[r] = "completing"
        /\ UNCHANGED <<eligible, offered, taken, queue, accepted, active, declined>>
  <2>1. CASE FireTimeout(r)
    BY <2>1 DEF FireTimeout, Goto
  <2>2. CASE Complete(r)
    BY <2>2 DEF Complete, Goto
  <2> QED
    BY <2>1, <2>2
<1>2. /\ timer[r] \in {"waiting", "active"} /\ at[r] \in {"idle", "completing"}
      /\ timer[r] = "waiting" => at[r] = "idle"
  BY <1>1 DEF TurnFacts, JobsRun
<1>3. /\ r \in Handlers /\ step \in Steps /\ step \notin Placing \cup {"start", "decRow"} \cup Moving
      /\ at[r] \notin Placing /\ r \notin Calls
  BY <1>1, <1>2 DEF Steps, Placing, Moving
<1>4. /\ timer' \in [Riders -> {"none", "waiting", "active"}] /\ taken' = [g \in Handlers |-> taken'[g]]
      /\ \A q \in Riders : timer'[q] = IF q = r THEN job ELSE timer[q]
      /\ \A q \in Riders : timer[q] = "none" => timer'[q] = "none"
  <2>1. timer \in [Riders -> {"none", "waiting", "active"}] /\ taken = [g \in Handlers |-> taken[g]]
    BY DEF TurnFacts, Typed
  <2>2. \A q \in Riders : timer'[q] = IF q = r THEN job ELSE timer[q]
    BY <1>1, <2>1
  <2>3. timer' \in [Riders -> {"none", "waiting", "active"}]
    BY <1>1, <2>1
  <2>4. taken' = [g \in Handlers |-> taken'[g]]
    BY <1>1, <2>1
  <2> QED
    BY <1>2, <2>2, <2>3, <2>4
<1>5. Typed' /\ Ranked' /\ OfferedInTurn' /\ QueueIsRest' /\ TakenIsRest'
  <2>1. /\ UNCHANGED <<eligible, offered>> /\ queue' = queue /\ (accepted # NoRider => accepted' # NoRider)
        /\ \A g \in Handlers : g # r => taken'[g] = taken[g]
    BY <1>1
  <2> QED
    BY <1>1, <1>3, <1>4, <2>1, ChoosesNobody
<1>6. \A g \in Handlers : at'[g] = IF g = r THEN step ELSE at[g]
  BY <1>1 DEF TurnFacts, Typed
<1>7. JobsRun'
  BY <1>1, <1>2, <1>4, <1>6 DEF TurnFacts, JobsRun
<1>8. CallsAnswer'
  <2> SUFFICES ASSUME NEW c \in Calls
               PROVE  /\ at'[c] # "idle" => RiderOf[c] \in offered'
                      /\ at'[c] \in {"decRow"} \cup Moving => timer'[RiderOf[c]] = "none"
                      /\ at'[c] \in Moving => RiderOf[c] \in declined'
    BY DEF CallsAnswer
  <2>1. at'[c] = at[c] /\ RiderOf[c] \in Riders
    BY <1>3, <1>6
  <2> QED
    BY <1>1, <1>4, <2>1 DEF TurnFacts, CallsAnswer
<1>9. OneDriver'
  <2>1. CASE step = "idle" \/ active # r
    <3>1. \A g \in Handlers : Live(g)' => Live(g)
      BY <1>1, <1>6, <2>1 DEF Live
    <3> QED
      BY <3>1, NobodyStarts DEF TurnFacts
  <2>2. CASE step = "outAccepted" /\ active = r
    <3>1. FireTimeout(r)
      BY <1>1, <1>2, <2>2 DEF FireTimeout, Complete
    <3>2. \A g \in Handlers : at[g] = "idle" \/ Who(g) = r
      BY <2>2, <3>1 DEF FireTimeout, MayFire, LastMomentAnswer, Who
    <3>3. \A g \in Handlers : Live(g)' => Who(g)' = r
      BY <1>3, <1>6, <3>2 DEF Live, Who
    <3> QED
      BY <3>3 DEF OneDriver
  <2> QED
    BY <2>1, <2>2, <1>1
<1>10. OneMoves'
  <2>1. \A g \in Handlers : at'[g] \in Moving => at[g] \in Moving
    BY <1>3, <1>6
  <2> QED
    BY <2>1, NobodyNewMoves DEF TurnFacts
<1> QED
  BY <1>5, <1>7, <1>8, <1>9, <1>10 DEF TurnFacts

LEMMA NobodyTurns ==
  ASSUME TurnFacts, UNCHANGED <<at, eligible, offered, taken, queue, accepted, timer>>,
         declined \subseteq declined', active' = active \/ active' = NoRider
  PROVE  TurnFacts'
<1>1. Typed' /\ Ranked' /\ JobsRun' /\ CallsAnswer' /\ OneMoves'
  BY DEF TurnFacts, Typed, Ranked, JobsRun, CallsAnswer, OneMoves
<1>2. Turn' = Turn /\ Ahead' = Ahead
  BY DEF Turn, Ahead
<1>3. OfferedInTurn' /\ QueueIsRest'
  BY <1>2 DEF TurnFacts, OfferedInTurn, QueueIsRest, IsRest
<1>4. TakenIsRest'
  BY <1>2 DEF TurnFacts, TakenIsRest, IsRest, Chosen
<1>5. OneDriver'
  <2>1. \A g \in Handlers : Live(g)' => Live(g)
    BY Kinds DEF Live
  <2> QED
    BY <2>1, NobodyStarts DEF TurnFacts
<1> QED
  BY <1>1, <1>3, <1>4, <1>5 DEF TurnFacts

LEMMA TurnInit == Init => TurnInv
<1> SUFFICES ASSUME Init PROVE restarts \in Nat /\ TurnFacts
  BY DEF TurnInv
<1> USE Kinds DEF Init, PopInit
<1>1. Typed
  BY DEF Typed, Steps
<1>2. Ranked /\ JobsRun /\ CallsAnswer /\ OneMoves /\ OneDriver
  BY DEF Ranked, JobsRun, CallsAnswer, OneMoves, OneDriver, Moving, Live
<1>3. Turn = 0 /\ IsFiniteSet(offered)
  BY FS_EmptySet DEF Turn
<1>4. OfferedInTurn
  BY <1>3 DEF OfferedInTurn
<1>5. Ahead = 0
  BY <1>3 DEF Ahead
<1>6. QueueIsRest
  BY <1>5 DEF QueueIsRest, IsRest
<1>7. TakenIsRest
  BY DEF TakenIsRest
<1> QED
  BY <1>1, <1>2, <1>4, <1>6, <1>7 DEF TurnFacts

LEMMA TurnStep ==
  ASSUME ~SlowHandlers, GuardInv, TurnInv, [PopNext]_vars
  PROVE  TurnInv'
<1> USE Kinds
<1>1. restarts \in Nat
  BY DEF TurnInv
<1>2. CASE PopRestart
  BY <1>1, <1>2 DEF PopRestart, TurnInv
<1>3. CASE ~PopRestart /\ restarts # 0
  <2>1. UNCHANGED restarts
    BY <1>3 DEF vars, popVars, PopNext, StartChain, HandlerStep, PopupNext, NextCheck, NextRead, NextSave,
       NextMark, NextOffer, NextTimer, ToPublic, AcceptStep, AccMark, AccDropQueue, AccDropActive, AccTimer,
       AccAssign, DecTimer, DecRow, OutAccepted, OutActive, Complete, Accept, Decline, FireTimeout, FeedDecline,
       ActiveExpires
  <2> QED
    BY <1>1, <1>3, <2>1 DEF TurnInv
<1>4. CASE TurnFacts /\ ~PopRestart
  <2> SUFFICES TurnFacts' /\ UNCHANGED restarts
    BY <1>1 DEF TurnInv
  <2>1. CASE UNCHANGED vars
    BY <1>4, <2>1, NobodyTurns DEF vars, popVars
  <2>2. CASE StartChain
    BY <1>4, <2>2, StartTurns DEF StartChain
  <2>3. ASSUME NEW h \in Handlers, PopupNext(h) PROVE TurnFacts' /\ UNCHANGED restarts
    <3>1. UNCHANGED restarts
      BY <2>3 DEF PopupNext, NextCheck, NextRead, NextSave, NextMark, NextOffer, NextTimer, ToPublic
    <3> QED
      BY <1>4, <2>3, <3>1, CheckTurns, ReadTurns, SaveTurns, MarkTurns, OfferTurns, TimerTurns DEF PopupNext
  <2>4. ASSUME NEW c \in Calls, AcceptStep(c) \/ DecTimer(c) \/ DecRow(c) PROVE TurnFacts' /\ UNCHANGED restarts
    <3>1. UNCHANGED restarts
      BY <2>4 DEF AcceptStep, AccMark, AccDropQueue, AccDropActive, AccTimer, AccAssign, DecTimer, DecRow
    <3> QED
      BY <1>4, <2>4, <3>1, AnswerGoesOn, DeclineTurns
  <2>5. ASSUME NEW r \in Riders, OutAccepted(r) \/ OutActive(r) \/ Complete(r) \/ FireTimeout(r)
        PROVE  TurnFacts' /\ UNCHANGED restarts
    <3>1. UNCHANGED restarts
      BY <2>5 DEF OutAccepted, OutActive, Complete, FireTimeout
    <3> QED
      BY <1>4, <2>5, <3>1, JobTurns, TimeoutTurns, WorkerTurns
  <2>6. ASSUME NEW c \in Calls, Accept(c) \/ Decline(c) PROVE TurnFacts' /\ UNCHANGED restarts
    BY <1>4, <2>6, AnswerTurns DEF Accept, Decline
  <2>7. ASSUME NEW r \in Riders, FeedDecline(r) PROVE TurnFacts' /\ UNCHANGED restarts
    BY <1>4, <2>7, NobodyTurns DEF FeedDecline
  <2>8. CASE ActiveExpires
    BY <1>4, <2>8, NobodyTurns DEF ActiveExpires
  <2> QED
    BY <1>4, <2>1, <2>2, <2>3, <2>4, <2>5, <2>6, <2>7, <2>8 DEF PopNext, HandlerStep
<1> QED
  BY <1>2, <1>3, <1>4 DEF TurnInv

LEMMA TurnAlways == ~SlowHandlers => (PopSpec => [](GuardInv /\ TurnInv))
<1> SUFFICES ASSUME ~SlowHandlers PROVE PopSpec => [](GuardInv /\ TurnInv)
  OBVIOUS
<1>1. TurnInv /\ GuardInv /\ [PopNext]_vars => TurnInv'
  BY TurnStep
<1> QED
  BY <1>1, TurnInit, GuardInitInv, GuardStepInv, PTL DEF PopSpec

(* A driver of the ranking is in the queue, was asked, or is being chosen. *)
LEMMA EverybodysTurn == TurnInv => AskedInTurn
<1> SUFFICES ASSUME TurnFacts, NEW i \in 1..Len(eligible)
             PROVE  /\ \A j \in 1 .. i - 1 : eligible[i] \in offered => eligible[j] \in offered
                    /\ accepted = NoRider => eligible[i] \in Range(queue) \cup offered \/ BeingAsked(eligible[i])
  BY DEF TurnInv, AskedInTurn
<1>0. eligible \in Seq(Riders) /\ Len(eligible) \in Nat /\ Turn \in 0..Len(eligible)
      /\ \A j \in 1..Len(eligible) : eligible[j] = eligible[i] => i = j
  BY DEF TurnFacts, Ranked, OfferedInTurn
<1>1. \A j \in 1..Len(eligible) : eligible[j] \in offered <=> j <= Turn
  <2> SUFFICES ASSUME NEW j \in 1..Len(eligible) PROVE eligible[j] \in offered <=> j <= Turn
    OBVIOUS
  <2>1. \A k \in 1..Turn : k \in 1..Len(eligible) /\ (eligible[k] = eligible[j] => k = j)
    BY <1>0 DEF TurnFacts, Ranked
  <2>2. j <= Turn <=> j \in 1..Turn
    BY <1>0
  <2> QED
    BY <2>1, <2>2 DEF TurnFacts, OfferedInTurn
<1>2. \A j \in 1 .. i - 1 : eligible[i] \in offered => eligible[j] \in offered
  BY <1>0, <1>1
<1>3. ASSUME accepted = NoRider, i > Turn
      PROVE  eligible[i] \in Range(queue) \/ BeingAsked(eligible[i])
  <2>1. IsRest(queue, Ahead)
    BY <1>3 DEF TurnFacts, QueueIsRest
  <2>2. CASE i > Ahead
    <3>1. Ahead \in Nat /\ Len(queue) \in Nat /\ Len(queue) + Ahead = Len(eligible) /\ queue \in Seq(Riders)
      BY <2>1 DEF IsRest
    <3>2. i - Ahead \in 1..Len(queue) /\ Ahead + (i - Ahead) = i
      BY <2>2, <3>1
    <3>3. queue[i - Ahead] = eligible[i]
      BY <2>1, <3>2 DEF IsRest
    <3>4. i - Ahead \in DOMAIN queue
      BY <3>1, <3>2
    <3> QED
      BY <3>3, <3>4 DEF Range
  <2>3. CASE ~(i > Ahead)
    <3>1. PICK h \in Handlers : at[h] \in {"nextMark", "nextOffer"}
      BY <1>0, <1>3, <2>3 DEF Ahead
    <3>2. i = Turn + 1
      BY <1>0, <1>3, <2>3 DEF Ahead
    <3>3. Chosen(h) = eligible[i]
      BY <3>1, <3>2, NextIsNew
    <3> QED
      BY <3>1, <3>3 DEF BeingAsked
  <2> QED
    BY <2>2, <2>3
<1> QED
  BY <1>0, <1>1, <1>2, <1>3

(* Drivers are asked in the order of the ranking and none is skipped, for   *)
(* every ranking, every number of devices and a worker that may be late, as *)
(* long as handlers return before the next driver's 15 s are over.         *)
THEOREM AlwaysAskedInTurn == ~SlowHandlers => (PopSpec => []AskedInTurn)
<1> SUFFICES ASSUME ~SlowHandlers PROVE PopSpec => []AskedInTurn
  OBVIOUS
<1>1. PopSpec => [](GuardInv /\ TurnInv)
  BY TurnAlways
<1> QED
  BY <1>1, EverybodysTurn, PTL

-----------------------------------------------------------------------------
(* Stalls.  Until a driver accepts or the order is public, a handler moves  *)
(* the chain on, or the driver asked last is pending: his timer runs, its  *)
(* job or his decline is being handled, or he has declined in his feed.    *)

LEMMA ProgressInit == Init => ProgressInv
BY Kinds DEF Init, PopInit, ProgressInv, GoesOn, AsksChosen

(* A step that starts or ends no move. *)
LEMMA KeepsAsking ==
  ASSUME AsksChosen, UNCHANGED taken, accepted # NoRider => accepted' # NoRider,
         active' = active \/ accepted' # NoRider,
         \A h \in Handlers : at'[h] \in {"nextOffer", "nextTimer"} => at'[h] = at[h]
  PROVE  AsksChosen'
BY DEF AsksChosen, Chosen

LEMMA MoverGoesOn ==
  ASSUME TurnFacts, NEW h \in Handlers, NEW step \in Moving, at' = [at EXCEPT ![h] = step]
  PROVE  GoesOn'
BY DEF TurnFacts, Typed, GoesOn

(* The driver being asked, if any, is in the ranking. *)
LEMMA Asked ==
  ASSUME TurnFacts, Turn > 0
  PROVE  eligible[Turn] \in Riders /\ eligible[Turn] \in offered
<1>1. Turn \in 1..Len(eligible) /\ Turn \in 1..Turn
  BY DEF TurnFacts, OfferedInTurn, Ranked
<1> QED
  BY <1>1 DEF TurnFacts, OfferedInTurn, Ranked

(* A step of a handler that does not move the chain on. *)
LEMMA PendingStays ==
  ASSUME TurnFacts, GoesOn, UNCHANGED <<eligible, offered>>, NEW h \in Handlers, NEW step, at' = [at EXCEPT ![h] = step],
         at[h] \notin Moving \cup {"start"},
         accepted # NoRider => accepted' # NoRider, public => public',
         declined \subseteq declined',
         \A q \in Riders : accepted' = NoRider /\ Pending(q) => Pending(q)'
  PROVE  GoesOn'
<1>1. \A g \in Handlers : at'[g] = IF g = h THEN step ELSE at[g]
  BY DEF TurnFacts, Typed
<1>2. Turn' = Turn
  BY DEF Turn
<1>3. CASE \E g \in Handlers : at[g] \in Moving
  BY <1>1, <1>3 DEF GoesOn
<1>4. CASE at[Placer] = "start"
  BY <1>1, <1>4, Kinds DEF GoesOn
<1>5. CASE accepted # NoRider \/ public
  BY <1>5 DEF GoesOn
<1>6. CASE Turn > 0 /\ Pending(eligible[Turn])
  <2>1. eligible[Turn] \in Riders
    BY <1>6, Asked
  <2>2. accepted' = NoRider => Pending(eligible[Turn])'
    BY <1>2, <1>6, <2>1 DEF Pending
  <2> QED
    BY <1>2, <1>6, <2>2 DEF GoesOn
<1> QED
  BY <1>3, <1>4, <1>5, <1>6 DEF GoesOn

LEMMA MovesGoOn ==
  ASSUME TurnFacts, GoesOn, AsksChosen, NEW h \in Handlers, PopupNext(h)
  PROVE  GoesOn' /\ AsksChosen'
<1> USE Kinds
<1>1. CASE NextCheck(h)
  <2>1. at[h] = "nextCheck" /\ accepted' = accepted /\ taken' = taken /\ active' = active
    BY <1>1 DEF NextCheck
  <2>2. GoesOn'
    <3>1. CASE accepted = NoRider
      BY <1>1, <3>1, MoverGoesOn DEF NextCheck, Goto, Moving
    <3>2. CASE accepted # NoRider
      BY <2>1, <3>2 DEF GoesOn
    <3> QED
      BY <3>1, <3>2
  <2>3. AsksChosen'
    <3>1. \A g \in Handlers : at'[g] \in {"nextOffer", "nextTimer"} => at'[g] = at[g]
      BY <1>1 DEF NextCheck, Goto, Return, TurnFacts, Typed
    <3> QED
      BY <2>1, <3>1, KeepsAsking
  <2> QED
    BY <2>2, <2>3
<1>2. CASE NextRead(h)
  <2>1. GoesOn'
    BY <1>2, MoverGoesOn DEF NextRead, Goto, Moving
  <2>2. AsksChosen'
    <3>1. \A g \in Handlers : at'[g] \in {"nextOffer", "nextTimer"} => at[g] = at'[g] /\ g # h
      BY <1>2 DEF NextRead, Goto, TurnFacts, Typed
    <3>2. \A g \in Handlers : g # h => taken'[g] = taken[g]
      BY <1>2 DEF NextRead, TurnFacts, Typed
    <3> QED
      BY <1>2, <3>1, <3>2 DEF NextRead, AsksChosen, Chosen
  <2> QED
    BY <2>1, <2>2
<1>3. CASE NextSave(h)
  <2>1. GoesOn'
    BY <1>3, MoverGoesOn DEF NextSave, Goto, Moving
  <2>2. \A g \in Handlers : at'[g] \in {"nextOffer", "nextTimer"} => at'[g] = at[g]
    BY <1>3 DEF NextSave, Goto, TurnFacts, Typed
  <2> QED
    BY <1>3, <2>1, <2>2, KeepsAsking DEF NextSave
<1>4. CASE NextMark(h)
  <2>1. GoesOn'
    BY <1>4, MoverGoesOn DEF NextMark, Goto, Moving
  <2>2. \A g \in Handlers : g # h => at'[g] = at[g] /\ at[g] \notin Moving
    BY <1>4 DEF NextMark, Goto, TurnFacts, Typed, OneMoves, Moving
  <2>3. AsksChosen'
    BY <1>4, <2>2 DEF NextMark, AsksChosen, Chosen, Moving
  <2> QED
    BY <2>1, <2>3
<1>5. CASE NextOffer(h)
  <2>1. GoesOn'
    BY <1>5, MoverGoesOn DEF NextOffer, Goto, Moving
  <2>2. \A g \in Handlers : at'[g] \in {"nextOffer", "nextTimer"} => at[g] \in {"nextOffer", "nextTimer"}
    BY <1>5 DEF NextOffer, Goto, TurnFacts, Typed
  <2>3. AsksChosen'
    BY <1>5, <2>2 DEF NextOffer, AsksChosen, Chosen
  <2> QED
    BY <2>1, <2>3
<1>6. CASE NextTimer(h)
  <2> DEFINE x == Chosen(h)
  <2>1. at[h] = "nextTimer" /\ timer' = TimersWith(x) /\ UNCHANGED <<accepted, active, eligible, offered>>
    BY <1>6 DEF NextTimer
  <2>2. \A g \in Handlers \ {h} : at'[g] = at[g] /\ at[g] \notin Moving /\ at'[h] \notin Moving
    BY <1>6 DEF NextTimer, Goto, Return, TurnFacts, Typed, OneMoves, Moving
  <2>3. AsksChosen'
    BY <1>6, <2>2 DEF NextTimer, Goto, Return, TurnFacts, Typed, AsksChosen, Moving
  <2>4. GoesOn'
    <3>1. CASE accepted # NoRider
      BY <2>1, <3>1 DEF GoesOn
    <3>2. CASE accepted = NoRider
      <4>1. active = x
        BY <2>1, <3>2 DEF AsksChosen
      <4>2. /\ Turn > 0 /\ IsRest(taken[h], Turn - 1) /\ timer[x] = "none" /\ Turn \in 0..Len(eligible)
            /\ eligible \in Seq(Riders)
        BY <2>1 DEF TurnFacts, TakenIsRest, OfferedInTurn, Ranked
      <4>3. x = eligible[Turn] /\ x \in Riders
        <5>1. taken[h] # <<>>
          BY <4>2 DEF IsRest
        <5>2. Head(taken[h]) \in Riders /\ Head(taken[h]) = eligible[(Turn - 1) + 1]
          BY <4>2, <5>1, RestShortens
        <5>3. (Turn - 1) + 1 = Turn
          BY <4>2
        <5> QED
          BY <5>2, <5>3 DEF Chosen
      <4>4. timer'[x] = "waiting"
        BY <2>1, <4>2, <4>3 DEF TimersWith, TurnFacts, Typed
      <4>5. Turn' = Turn
        BY <2>1 DEF Turn
      <4> HIDE DEF x
      <4>6. Pending(eligible[Turn])'
        BY <2>1, <4>1, <4>3, <4>4, <4>5 DEF Pending
      <4> QED
        BY <4>2, <4>5, <4>6 DEF GoesOn
    <3> QED
      BY <3>1, <3>2
  <2> QED
    BY <2>3, <2>4
<1>7. CASE ToPublic(h)
  <2>1. \A g \in Handlers : at'[g] \in {"nextOffer", "nextTimer"} => at'[g] = at[g]
    BY <1>7 DEF ToPublic, Goto, Return, TurnFacts, Typed
  <2>2. public' /\ UNCHANGED <<taken, accepted, active>>
    BY <1>7 DEF ToPublic
  <2> QED
    BY <2>1, <2>2, KeepsAsking DEF GoesOn
<1> QED
  BY <1>1, <1>2, <1>3, <1>4, <1>5, <1>6, <1>7 DEF PopupNext

LEMMA AnswersGoOn ==
  ASSUME GuardInv, TurnFacts, GoesOn, AsksChosen, NEW c \in Calls,
         Accept(c) \/ Decline(c) \/ AcceptStep(c) \/ DecTimer(c) \/ DecRow(c)
  PROVE  GoesOn' /\ AsksChosen'
<1> USE Kinds
<1>1. PICK step \in Steps \ {"nextOffer", "nextTimer"} :
        /\ at' = [at EXCEPT ![c] = step] /\ UNCHANGED <<eligible, offered, taken, public>>
        /\ at[c] \notin Moving \cup {"start"}
        /\ declined \subseteq declined'
        /\ accepted # NoRider => accepted' # NoRider
        /\ active' = active \/ accepted' # NoRider
  <2>1. CASE Accept(c) \/ Decline(c)
    BY <2>1 DEF Accept, Decline, MayAnswer, Goto, Moving, Steps
  <2>2. CASE AcceptStep(c)
    BY <2>2 DEF AcceptStep, AccMark, AccDropQueue, AccDropActive, AccTimer, AccAssign, RemoveTimer, Goto, Moving,
       Steps, GuardInv, AcceptorsMarked, AcceptSteps
  <2>3. CASE DecTimer(c) \/ DecRow(c)
    BY <2>3 DEF DecTimer, DecRow, RemoveTimer, Goto, Moving, Steps
  <2> QED
    BY <2>1, <2>2, <2>3
<1>2. \A g \in Handlers : at'[g] = IF g = c THEN step ELSE at[g]
  BY <1>1 DEF TurnFacts, Typed
<1>3. AsksChosen'
  <2>1. \A g \in Handlers : at'[g] \in {"nextOffer", "nextTimer"} => at'[g] = at[g]
    BY <1>2
  <2> QED
    BY <1>1, <2>1, KeepsAsking
<1>4. CASE step \in Moving
  BY <1>1, <1>3, <1>4, MoverGoesOn
<1>5. CASE step \notin Moving
  <2>1. ASSUME NEW q \in Riders, accepted' = NoRider, Pending(q) PROVE Pending(q)'
    <3>1. at'[q] = at[q] /\ active' = active
      BY <1>1, <1>2, <2>1
    <3>2. CASE q \in declined
      BY <1>1, <3>2 DEF Pending
    <3>3. CASE active = q /\ at[q] \in {"outAccepted", "outActive"}
      BY <3>1, <3>3 DEF Pending
    <3>4. CASE active = q /\ timer[q] = "waiting"
      <4>1. CASE timer' = timer
        BY <3>1, <3>4, <4>1 DEF Pending
      <4>2. CASE timer' # timer
        <5>1. DecTimer(c)
          BY <2>1, <4>2 DEF Accept, Decline, AcceptStep, AccMark, AccDropQueue, AccDropActive, AccTimer, AccAssign,
             DecTimer, DecRow, GuardInv, AcceptorsMarked, AcceptSteps
        <5>2. timer' = [timer EXCEPT ![RiderOf[c]] = "none"] /\ step = "decRow"
          <6>1. at'[c] = step
            BY <1>2
          <6> QED
            BY <4>2, <5>1, <6>1 DEF DecTimer, RemoveTimer, Goto, TurnFacts, Typed
        <5>3. CASE RiderOf[c] = q
          BY <1>2, <5>2, <5>3 DEF Pending
        <5>4. CASE RiderOf[c] # q
          BY <3>1, <3>4, <5>2, <5>4 DEF Pending, TurnFacts, Typed
        <5> QED
          BY <5>3, <5>4
      <4> QED
        BY <4>1, <4>2
    <3>5. ASSUME NEW d \in Calls, RiderOf[d] = q, at[d] = "decRow" PROVE Pending(q)'
      <4>1. CASE d # c
        BY <1>2, <3>5, <4>1 DEF Pending
      <4>2. CASE d = c
        <5>1. DecRow(c)
          BY <3>5, <4>2 DEF Accept, Decline, MayAnswer, AcceptStep, AccMark, AccDropQueue, AccDropActive, AccTimer, AccAssign,
             DecTimer
        <5> QED
          BY <3>5, <4>2, <5>1 DEF DecRow, Pending
      <4> QED
        BY <4>1, <4>2
    <3> QED
      BY <2>1, <3>2, <3>3, <3>4, <3>5 DEF Pending
  <2>2. GoesOn'
    BY <1>1, <2>1, PendingStays
  <2> QED
    BY <1>3, <2>2
<1> QED
  BY <1>4, <1>5

LEMMA JobsGoOn ==
  ASSUME TurnFacts, GoesOn, AsksChosen, NEW r \in Riders,
         FireTimeout(r) \/ OutAccepted(r) \/ OutActive(r) \/ Complete(r)
  PROVE  GoesOn' /\ AsksChosen'
<1> USE Kinds
<1>1. PICK step \in Steps \ {"nextOffer", "nextTimer"} :
        /\ at' = [at EXCEPT ![r] = step] /\ UNCHANGED <<eligible, offered, taken, public, declined, accepted, active>>
        /\ timer' = timer \/ \E job : timer' = [timer EXCEPT ![r] = job]
  BY DEF FireTimeout, OutAccepted, OutActive, Complete, Goto, Return, Steps
<1>2. at[r] \notin Moving \cup {"start"}
  BY DEF FireTimeout, OutAccepted, OutActive, Complete, Moving, TurnFacts, JobsRun
<1>3. \A g \in Handlers : at'[g] = IF g = r THEN step ELSE at[g]
  BY <1>1 DEF TurnFacts, Typed
<1>4. AsksChosen'
  <2>1. \A g \in Handlers : at'[g] \in {"nextOffer", "nextTimer"} => at'[g] = at[g]
    BY <1>3
  <2> QED
    BY <1>1, <2>1, KeepsAsking
<1>5. CASE step \in Moving
  BY <1>1, <1>4, <1>5, MoverGoesOn
<1>6. CASE step \notin Moving
  <2>1. ASSUME NEW q \in Riders, accepted' = NoRider, Pending(q) PROVE Pending(q)'
    <3>1. active' = active /\ declined' = declined
      BY <1>1
    <3>2. CASE q \in declined
      BY <3>1, <3>2 DEF Pending
    <3>3. CASE \E d \in Calls : RiderOf[d] = q /\ at[d] = "decRow"
      BY <1>3, <3>3 DEF Pending
    <3>4. CASE q # r /\ active = q /\ (timer[q] = "waiting" \/ at[q] \in {"outAccepted", "outActive"})
      <4>1. at'[q] = at[q] /\ timer'[q] = timer[q]
        BY <1>1, <1>3, <3>4 DEF TurnFacts, Typed
      <4> QED
        BY <3>1, <3>4, <4>1 DEF Pending
    <3>5. CASE q = r /\ active = r /\ (timer[r] = "waiting" \/ at[r] \in {"outAccepted", "outActive"})
      <4>1. at[r] # "completing" /\ accepted = NoRider
        BY <1>1, <2>1, <3>5 DEF TurnFacts, JobsRun
      <4>2. FireTimeout(r) \/ OutAccepted(r)
        <5>1. ~Complete(r)
          BY <4>1 DEF Complete
        <5>2. ASSUME OutActive(r) PROVE FALSE
          <6>1. at'[r] = "nextCheck"
            BY <3>5, <5>2 DEF OutActive, Goto, TurnFacts, Typed
          <6> QED
            BY <1>3, <1>6, <6>1 DEF Moving
        <5> QED
          BY <5>1, <5>2
      <4>3. at'[r] \in {"outAccepted", "outActive"}
        BY <1>3, <4>1, <4>2 DEF FireTimeout, OutAccepted, Goto, TurnFacts, Typed
      <4> QED
        BY <3>1, <3>5, <4>3 DEF Pending
    <3> QED
      BY <2>1, <3>2, <3>3, <3>4, <3>5 DEF Pending
  <2>2. GoesOn'
    <3>1. /\ UNCHANGED <<eligible, offered>> /\ declined \subseteq declined'
          /\ accepted # NoRider => accepted' # NoRider
          /\ public => public'
      BY <1>1
    <3> QED
      BY <1>1, <1>2, <2>1, <3>1, PendingStays
  <2> QED
    BY <1>4, <2>2
<1> QED
  BY <1>5, <1>6

LEMMA ProgressStep ==
  ASSUME ~SlowHandlers, ~SlowWorker, GuardInv, TurnInv, TurnInv', ProgressInv, [PopNext]_vars
  PROVE  ProgressInv'
<1> USE Kinds
<1>1. CASE PopRestart
  BY <1>1 DEF PopRestart, ProgressInv, TurnInv
<1>2. CASE ~PopRestart /\ restarts # 0
  <2>1. UNCHANGED restarts
    BY <1>2 DEF vars, popVars, PopNext, StartChain, HandlerStep, PopupNext, NextCheck, NextRead, NextSave,
       NextMark, NextOffer, NextTimer, ToPublic, AcceptStep, AccMark, AccDropQueue, AccDropActive, AccTimer,
       AccAssign, DecTimer, DecRow, OutAccepted, OutActive, Complete, Accept, Decline, FireTimeout, FeedDecline,
       ActiveExpires
  <2> QED
    BY <1>2, <2>1 DEF ProgressInv
<1>3. CASE restarts = 0 /\ ~PopRestart
  <2>0. TurnFacts /\ GoesOn /\ AsksChosen
    BY <1>3 DEF TurnInv, ProgressInv
  <2> SUFFICES GoesOn' /\ AsksChosen'
    BY DEF ProgressInv
  <2>1. CASE UNCHANGED vars
    BY <2>0, <2>1 DEF vars, rowVars, popVars, GoesOn, AsksChosen, Pending, Turn, Chosen
  <2>2. CASE StartChain
    <3>1. PICK step \in {"toPublic", "nextCheck"} : at' = [at EXCEPT ![Placer] = step] /\ UNCHANGED <<taken, accepted, active>>
      BY <2>2 DEF StartChain, Goto
    <3>2. \A g \in Handlers : at'[g] \in {"nextOffer", "nextTimer"} => at'[g] = at[g]
      BY <2>0, <3>1 DEF TurnFacts, Typed
    <3>3. GoesOn'
      BY <2>0, <3>1, MoverGoesOn DEF Moving
    <3> QED
      BY <2>0, <3>1, <3>2, <3>3, KeepsAsking
  <2>3. ASSUME NEW r \in Riders, FeedDecline(r) PROVE GoesOn' /\ AsksChosen'
    BY <2>0, <2>3 DEF FeedDecline, GoesOn, AsksChosen, Pending, Turn, Chosen
  <2>4. CASE ActiveExpires
    <3>1. /\ timer[active] = "none" /\ active' = NoRider
          /\ \A h \in Handlers : at[h] = "idle"
          /\ UNCHANGED <<eligible, queue, accepted, timer, offered, declined, public, at, taken>>
      BY <2>4 DEF ActiveExpires
    <3>2. AsksChosen'
      BY <3>1 DEF AsksChosen
    <3>3. Turn' = Turn
      BY <3>1 DEF Turn
    <3>4. CASE Turn > 0 /\ Pending(eligible[Turn])
      <4>1. eligible[Turn] \in Riders
        BY <2>0, <3>4, Asked
      <4>2. eligible[Turn] \in declined
        BY <3>1, <3>4, <4>1 DEF Pending
      <4> QED
        BY <3>1, <3>2, <3>3, <3>4, <4>2 DEF GoesOn, Pending
    <3>5. CASE ~(Turn > 0 /\ Pending(eligible[Turn]))
      BY <2>0, <3>1, <3>2, <3>5 DEF GoesOn
    <3> QED
      BY <3>4, <3>5
  <2> QED
    BY <2>0, <2>1, <2>2, <2>3, <2>4, <1>3, MovesGoOn, AnswersGoOn, JobsGoOn DEF PopNext, HandlerStep
<1> QED
  BY <1>1, <1>2, <1>3

(* When no handler runs, the chain has ended, is waiting for an answer with  *)
(* the clock running, or is stalled for a reason the model names: for every *)
(* ranking and number of devices, with timely handlers and a timely worker. *)
THEOREM StallsAlwaysKnown == ~SlowHandlers /\ ~SlowWorker => (PopSpec => []OnlyKnownStalls)
<1> SUFFICES ASSUME ~SlowHandlers, ~SlowWorker PROVE PopSpec => []OnlyKnownStalls
  OBVIOUS
<1>1. PopSpec => [](GuardInv /\ TurnInv)
  BY TurnAlways
<1>2. GuardInv /\ TurnInv /\ TurnInv' /\ ProgressInv /\ [PopNext]_vars => ProgressInv'
  BY ProgressStep
<1>3. TurnInv /\ ProgressInv => OnlyKnownStalls
  <2> SUFFICES ASSUME TurnInv, ProgressInv, AtRest, restarts = 0, ~Ended, ~AcceptLost
               PROVE  Waiting \/ DeclineLost
    BY DEF OnlyKnownStalls, TurnInv
  <2>1. TurnFacts /\ GoesOn
    BY DEF TurnInv, ProgressInv
  <2>2. \A h \in Handlers : at[h] = "idle"
    BY DEF AtRest
  <2>3. Turn > 0 /\ Pending(eligible[Turn])
    BY <2>1, <2>2, Kinds DEF GoesOn, Ended, AcceptLost, Moving
  <2>4. eligible[Turn] \in Riders /\ eligible[Turn] # NoRider
    BY <2>1, <2>3, Asked, Kinds
  <2>5. CASE eligible[Turn] \in declined
    BY <2>3, <2>5 DEF DeclineLost, Turn
  <2>6. CASE active = eligible[Turn] /\ timer[active] = "waiting"
    BY <2>4, <2>6 DEF Waiting
  <2> QED
    BY <2>2, <2>3, <2>4, <2>5, <2>6, Kinds DEF Pending
<1> QED
  BY <1>1, <1>2, <1>3, ProgressInit, PTL DEF PopSpec

=============================================================================
