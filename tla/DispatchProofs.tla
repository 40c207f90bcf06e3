--------------------------- MODULE DispatchProofs ---------------------------
(***************************************************************************)
(* Proofs about Dispatch, for every number of riders, sockets, devices and *)
(* restarts.  The channels do not look at one another, so nothing keeps an *)
(* order with one rider; but each gives it only to a rider it may choose:  *)
(* the job to a competitor, the chain to a driver who was asked, and       *)
(* competitors, offers and the administrator's choices are never taken     *)
(* back.  Every write of the row is one of the kinds that                  *)
(* OnlyKnownOverwrites lists, and writes a rider, never null.              *)
(***************************************************************************)
EXTENDS Dispatch, TLAPS

Competitors == Competing!Elements(competitors)

AcceptSteps == {"accMark", "accDropQueue", "accDropActive", "accTimer", "accAssign"}

(* The choice of a job that is about to award is a competitor. *)
JobsChooseCompetitors ==
  \A s \in Sessions : closeJob[s] = "active" => winner[s] \in Competitors

(* A driver whose acceptance is under way was asked. *)
AcceptorsAsked == \A c \in Calls : at[c] \in AcceptSteps => CallerOf[c] \in offered

DispatchInv ==
  /\ competitors \in Seq(Riders)
  /\ closeJob \in [Sessions -> Competing!JobStates]
  /\ winner \in [Sessions -> RiderOrNone]
  /\ at \in [Popping!Handlers -> Popping!Steps]
  /\ JobsChooseCompetitors
  /\ AcceptorsAsked
  /\ RiderWasWilling

-----------------------------------------------------------------------------
LEMMA DispatchInitInv == Init => DispatchInv
BY DispatchAssumption DEF Init, RowInit, Competing!CompInit, Popping!PopInit, DispatchInv,
   JobsChooseCompetitors, AcceptorsAsked, RiderWasWilling, AcceptSteps, RiderOrNone,
   Competing!JobStates, Popping!Handlers, Popping!Steps

(* A list of riders that grows keeps its elements. *)
LEMMA AppendKeeps ==
  ASSUME competitors \in Seq(Riders), NEW r \in Riders, competitors' = Append(competitors, r)
  PROVE  competitors' \in Seq(Riders) /\ Competitors \subseteq Competitors'
BY DEF Competitors, Competing!Elements

LEMMA CompetitorsAreRiders ==
  ASSUME competitors \in Seq(Riders)
  PROVE  Competitors \subseteq Riders
BY DEF Competitors, Competing!Elements

(* The competition's steps. *)
LEMMA JoinKeeps ==
  ASSUME DispatchInv, NEW s \in Sessions, Competing!JoinStep(s), UNCHANGED <<popOnly, officeVars>>
  PROVE  DispatchInv'
<1>1. UNCHANGED <<assigned, winner, at, offered, byAdmin>>
  BY DEF Competing!JoinStep, Competing!AcquireLock, Competing!CheckOrder, Competing!AddCompetitor,
     Competing!StartCompetition, Competing!ScheduleClose, Competing!AutoConfirm,
     Competing!ReleaseLock, Competing!rowVars, popOnly, officeVars
<1>2. competitors' \in Seq(Riders) /\ Competitors \subseteq Competitors'
  <2>1. CASE Competing!AddCompetitor(s)
    BY <2>1, AppendKeeps, DispatchAssumption DEF Competing!AddCompetitor, DispatchInv
  <2>2. CASE competitors' = competitors
    BY <2>2 DEF DispatchInv, Competitors
  <2> QED
    BY <2>1, <2>2 DEF Competing!JoinStep, Competing!AcquireLock, Competing!CheckOrder,
       Competing!StartCompetition, Competing!ScheduleClose, Competing!AutoConfirm,
       Competing!ReleaseLock
<1>3. closeJob' = closeJob \/ closeJob' = [closeJob EXCEPT ![s] = "waiting"]
  BY DEF Competing!JoinStep, Competing!AcquireLock, Competing!CheckOrder, Competing!AddCompetitor,
     Competing!StartCompetition, Competing!ScheduleClose, Competing!AutoConfirm,
     Competing!ReleaseLock
<1>4. closeJob' \in [Sessions -> Competing!JobStates] /\ JobsChooseCompetitors'
  BY <1>1, <1>2, <1>3 DEF DispatchInv, JobsChooseCompetitors, Competing!JobStates
<1>5. AcceptorsAsked'
  BY <1>1 DEF DispatchInv, AcceptorsAsked
<1>6. RiderWasWilling'
  BY <1>1, <1>2 DEF DispatchInv, RiderWasWilling, Competitors
<1> QED
  BY <1>1, <1>2, <1>4, <1>5, <1>6 DEF DispatchInv

LEMMA CloseKeeps ==
  ASSUME DispatchInv, NEW s \in Sessions, Competing!CloseStep(s), UNCHANGED <<popOnly, officeVars>>
  PROVE  DispatchInv'
<1>1. UNCHANGED <<competitors, at, offered, byAdmin>> /\ Competitors' = Competitors
  BY DEF Competing!CloseStep, Competing!PickWinner, Competing!AwardOrder, popOnly, officeVars,
     Competitors
<1>2. AcceptorsAsked'
  BY <1>1 DEF DispatchInv, AcceptorsAsked
<1>3. CASE Competing!PickWinner(s)
  <2>1. Competing!Candidates \subseteq Competitors /\ Competitors \subseteq RiderOrNone
    BY CompetitorsAreRiders DEF Competing!Candidates, Competing!Valid, Competitors, DispatchInv,
       RiderOrNone
  <2>2. /\ closeJob' \in [Sessions -> Competing!JobStates]
        /\ winner' \in [Sessions -> RiderOrNone]
        /\ JobsChooseCompetitors'
    BY <1>1, <1>3, <2>1 DEF Competing!PickWinner, DispatchInv, JobsChooseCompetitors,
       Competing!JobStates
  <2>3. RiderWasWilling'
    BY <1>1, <1>3 DEF Competing!PickWinner, Competing!rowVars, DispatchInv, RiderWasWilling
  <2> QED
    BY <1>1, <1>2, <2>2, <2>3 DEF DispatchInv
<1>4. CASE Competing!AwardOrder(s)
  <2>1. assigned' \in Competitors
    BY <1>4 DEF Competing!AwardOrder, GiveTo, Competing!GiveTo, DispatchInv, JobsChooseCompetitors
  <2>2. /\ closeJob' \in [Sessions -> Competing!JobStates]
        /\ winner' \in [Sessions -> RiderOrNone]
        /\ JobsChooseCompetitors'
    BY <1>1, <1>4 DEF Competing!AwardOrder, DispatchInv, JobsChooseCompetitors,
       Competing!JobStates, RiderOrNone
  <2>3. RiderWasWilling'
    BY <1>1, <2>1 DEF RiderWasWilling, Competitors
  <2> QED
    BY <1>1, <1>2, <2>2, <2>3 DEF DispatchInv
<1> QED
  BY <1>3, <1>4 DEF Competing!CloseStep

-----------------------------------------------------------------------------
(* The chain's steps.  What a handler does next, and that it takes back     *)
(* nothing.                                                                *)
PopKeeps == offered \subseteq offered' /\ UNCHANGED <<compOnly, officeVars>>

LEMMA PopMoves ==
  ASSUME DispatchInv, PopKeeps, NEW h \in Popping!Handlers, NEW step \in Popping!Steps,
         at' = [at EXCEPT ![h] = step],
         step \in AcceptSteps => h \in Calls /\ CallerOf[h] \in offered,
         assigned' = assigned \/ assigned' \in offered
  PROVE  DispatchInv'
<1>1. /\ Competitors' = Competitors /\ byAdmin' = byAdmin
      /\ UNCHANGED <<competitors, closeJob, winner>>
  BY DEF PopKeeps, compOnly, officeVars, Competitors
<1>2. at' \in [Popping!Handlers -> Popping!Steps]
  BY DEF DispatchInv
<1>3. JobsChooseCompetitors'
  BY <1>1 DEF DispatchInv, JobsChooseCompetitors
<1>4. AcceptorsAsked'
  BY DEF DispatchInv, AcceptorsAsked, PopKeeps, Popping!Handlers
<1>5. RiderWasWilling'
  BY <1>1 DEF DispatchInv, RiderWasWilling, PopKeeps, Competitors
<1> QED
  BY <1>1, <1>2, <1>3, <1>4, <1>5 DEF DispatchInv

LEMMA PopStays ==
  ASSUME DispatchInv, UNCHANGED <<assigned, at, offered, compOnly, officeVars>>
  PROVE  DispatchInv'
BY DEF DispatchInv, compOnly, officeVars, JobsChooseCompetitors, AcceptorsAsked, RiderWasWilling,
   Competitors

LEMMA PopupNextKeeps ==
  ASSUME DispatchInv, NEW h \in Popping!Handlers, Popping!PopupNext(h), UNCHANGED <<compOnly, officeVars>>
  PROVE  DispatchInv'
<1> USE DEF Popping!PopupNext, Popping!NextCheck, Popping!NextRead, Popping!NextSave,
        Popping!NextMark, Popping!NextOffer, Popping!NextTimer, Popping!ToPublic
<1>1. PICK step \in Popping!Steps \ AcceptSteps : at' = [at EXCEPT ![h] = step]
  BY DEF Popping!Goto, Popping!Return, Popping!Steps, AcceptSteps
<1>2. offered \subseteq offered' /\ assigned' = assigned
  BY DEF Popping!rowVars
<1> QED
  BY <1>1, <1>2, PopMoves DEF PopKeeps

LEMMA AcceptKeeps ==
  ASSUME DispatchInv, NEW c \in Calls, Popping!AcceptStep(c) \/ Popping!Accept(c),
         UNCHANGED <<compOnly, officeVars>>
  PROVE  DispatchInv'
<1> USE DEF Popping!AcceptStep, Popping!AccMark, Popping!AccDropQueue, Popping!AccDropActive,
        Popping!AccTimer, Popping!AccAssign, Popping!Accept, Popping!MayAnswer
<1>1. PICK step \in Popping!Steps : at' = [at EXCEPT ![c] = step]
  BY DEF Popping!Goto, Popping!RemoveTimer, Popping!Steps
<1>2. CallerOf[c] \in offered /\ offered' = offered
  BY DEF DispatchInv, AcceptorsAsked, AcceptSteps
<1>3. assigned' = assigned \/ assigned' = CallerOf[c]
  BY DEF Popping!rowVars, Popping!GiveTo, GiveTo
<1>4. c \in Popping!Handlers
  BY DEF Popping!Handlers
<1> QED
  BY <1>1, <1>2, <1>3, <1>4, PopMoves DEF PopKeeps

LEMMA OtherPopKeeps ==
  ASSUME DispatchInv, NEW h \in Popping!Handlers, UNCHANGED <<compOnly, officeVars>>,
         \/ Popping!StartChain /\ h = Placer
         \/ h \in Calls /\ (Popping!DecTimer(h) \/ Popping!DecRow(h) \/ Popping!Decline(h))
         \/ h \in Riders /\ (Popping!OutAccepted(h) \/ Popping!OutActive(h) \/ Popping!Complete(h)
                             \/ Popping!FireTimeout(h))
  PROVE  DispatchInv'
<1> USE DEF Popping!StartChain, Popping!DecTimer, Popping!DecRow, Popping!Decline,
        Popping!OutAccepted, Popping!OutActive, Popping!Complete, Popping!FireTimeout
<1>1. PICK step \in Popping!Steps \ AcceptSteps : at' = [at EXCEPT ![h] = step]
  BY DEF Popping!Goto, Popping!Return, Popping!RemoveTimer, Popping!Steps, AcceptSteps
<1>2. UNCHANGED <<assigned, offered>>
  BY DEF Popping!rowVars
<1> QED
  BY <1>1, <1>2, PopMoves DEF PopKeeps

LEMMA PopupStepKeeps ==
  ASSUME DispatchInv, PopupStep
  PROVE  DispatchInv'
<1>0. Placer \in Popping!Handlers /\ Calls \cup Riders \subseteq Popping!Handlers
  BY DEF Popping!Handlers
<1>1. UNCHANGED <<compOnly, officeVars>>
  BY DEF PopupStep
<1>2. ASSUME NEW h \in Popping!Handlers, Popping!HandlerStep(h)
      PROVE  DispatchInv'
  BY <1>1, <1>2, PopupNextKeeps, AcceptKeeps, OtherPopKeeps DEF Popping!HandlerStep
<1>3. CASE Popping!ActiveExpires \/ \E r \in Riders : Popping!FeedDecline(r)
  BY <1>1, <1>3, PopStays DEF Popping!ActiveExpires, Popping!FeedDecline, Popping!rowVars
<1> QED
  BY <1>0, <1>1, <1>2, <1>3, AcceptKeeps, OtherPopKeeps DEF PopupStep

-----------------------------------------------------------------------------
LEMMA DispatchStepInv == DispatchInv /\ [Next]_vars => DispatchInv'
<1> SUFFICES ASSUME DispatchInv, [Next]_vars
             PROVE  DispatchInv'
  OBVIOUS
<1>1. CASE UNCHANGED vars
  BY <1>1, PopStays DEF vars, rowVars, popOnly
<1>2. CASE CompetitionStep
  <2>1. CASE Competing!LockExpires
    BY <1>2, <2>1, PopStays DEF CompetitionStep, Competing!LockExpires, DispatchInv, Competing!rowVars, popOnly,
       officeVars, JobsChooseCompetitors, AcceptorsAsked, RiderWasWilling, Competitors
  <2> QED
    BY <1>2, <2>1, JoinKeeps, CloseKeeps DEF CompetitionStep
<1>3. CASE PopupStep
  BY <1>3, PopupStepKeeps
<1>4. CASE AdminAssign
  BY <1>4 DEF AdminAssign, GiveTo, compOnly, popOnly, DispatchInv, JobsChooseCompetitors, AcceptorsAsked,
     RiderWasWilling, Competitors
<1>5. CASE (\E r \in Riders : AdminCheck(r)) \/ CancelCheck \/ CancelCommit
  BY <1>5 DEF AdminCheck, CancelCheck, CancelCommit, rowVars, compOnly, popOnly, DispatchInv,
     JobsChooseCompetitors, AcceptorsAsked, RiderWasWilling, Competitors
<1>6. CASE Restart
  <2>1. UNCHANGED <<assigned, competitors, offered, byAdmin>>
    BY <1>6 DEF Restart, Competing!CompRestart, Popping!PopRestart, Competing!rowVars
  <2>2. /\ closeJob' \in [Sessions -> Competing!JobStates]
        /\ winner' \in [Sessions -> RiderOrNone]
        /\ JobsChooseCompetitors'
    BY <1>6 DEF Restart, Competing!CompRestart, Competing!RequeuedJobs, Competing!JobStates,
       DispatchInv, JobsChooseCompetitors, RiderOrNone
  <2>3. at' \in [Popping!Handlers -> Popping!Steps] /\ AcceptorsAsked'
    BY <1>6 DEF Restart, Popping!PopRestart, Popping!Steps, Popping!Handlers, AcceptorsAsked, AcceptSteps
  <2> QED
    BY <2>1, <2>2, <2>3 DEF DispatchInv, RiderWasWilling, Competitors
<1> QED
  BY <1>1, <1>2, <1>3, <1>4, <1>5, <1>6 DEF Next

(* Whoever has the order joined the competition, was asked by the chain or   *)
(* was chosen by the administrator, however the channels interleave.         *)
THEOREM RiderAlwaysWilling == Spec => []RiderWasWilling
<1>1. DispatchInv => RiderWasWilling
  BY DEF DispatchInv
<1> QED
  BY <1>1, DispatchInitInv, DispatchStepInv, PTL DEF Spec

-----------------------------------------------------------------------------
(* A channel gives the order to a rider, never to null.                      *)
LEMMA RowGoesToRider ==
  ASSUME NEW STATE r, GiveTo(r), r \in Riders, closed => closed'
  PROVE  KnownOverwrite
BY NoRiderAssumption DEF GiveTo, KnownOverwrite

LEMMA CompetitionOverwrites ==
  ASSUME DispatchInv, CompetitionStep
  PROVE  KnownOverwrite
<1>1. ASSUME NEW s \in Sessions, Competing!JoinStep(s)
      PROVE  KnownOverwrite
  <2>1. UNCHANGED <<status, assigned, closed>>
    BY <1>1 DEF Competing!JoinStep, Competing!AcquireLock, Competing!CheckOrder,
       Competing!AddCompetitor, Competing!StartCompetition, Competing!ScheduleClose,
       Competing!AutoConfirm, Competing!ReleaseLock, Competing!rowVars
  <2> QED
    BY <2>1, Zenon DEF KnownOverwrite
<1>2. ASSUME NEW s \in Sessions, Competing!CloseStep(s)
      PROVE  KnownOverwrite
  <2>1. CASE Competing!PickWinner(s)
    BY <2>1 DEF Competing!PickWinner, Competing!rowVars, KnownOverwrite
  <2>2. CASE Competing!AwardOrder(s)
    <3>1. winner[s] \in Riders
      BY <2>2, CompetitorsAreRiders DEF Competing!AwardOrder, DispatchInv, JobsChooseCompetitors
    <3>2. GiveTo(winner[s]) /\ closed'
      BY <2>2 DEF Competing!AwardOrder, Competing!GiveTo, GiveTo
    <3> QED
      BY <3>1, <3>2, RowGoesToRider
  <2> QED
    BY <1>2, <2>1, <2>2 DEF Competing!CloseStep
<1>3. CASE Competing!LockExpires
  BY <1>3 DEF Competing!LockExpires, Competing!rowVars, KnownOverwrite
<1> QED
  BY <1>1, <1>2, <1>3 DEF CompetitionStep

LEMMA PopupOverwrites ==
  ASSUME DispatchInv, PopupStep
  PROVE  KnownOverwrite
<1>1. ASSUME NEW h \in Popping!Handlers, Popping!PopupNext(h)
      PROVE  KnownOverwrite
  BY <1>1 DEF Popping!PopupNext, Popping!NextCheck, Popping!NextRead, Popping!NextSave,
     Popping!NextMark, Popping!NextOffer, Popping!NextTimer, Popping!ToPublic, Popping!rowVars,
     KnownOverwrite
<1>2. ASSUME NEW c \in Calls, Popping!AcceptStep(c)
      PROVE  KnownOverwrite
  <2>1. CASE Popping!AccAssign(c)
    <3>1. GiveTo(CallerOf[c]) /\ closed' = closed /\ CallerOf[c] \in Riders
      BY <2>1, DispatchAssumption DEF Popping!AccAssign, Popping!GiveTo, GiveTo
    <3> QED
      BY <3>1, RowGoesToRider
  <2> QED
    BY <1>2, <2>1 DEF Popping!AcceptStep, Popping!AccMark, Popping!AccDropQueue,
       Popping!AccDropActive, Popping!AccTimer, Popping!rowVars, KnownOverwrite
<1>3. ASSUME NEW h \in Popping!Handlers,
             \/ Popping!StartChain \/ Popping!Accept(h) \/ Popping!DecTimer(h) \/ Popping!DecRow(h)
             \/ Popping!Decline(h) \/ Popping!OutAccepted(h) \/ Popping!OutActive(h)
             \/ Popping!Complete(h) \/ Popping!FireTimeout(h) \/ Popping!FeedDecline(h)
             \/ Popping!ActiveExpires
      PROVE  KnownOverwrite
  BY <1>3 DEF Popping!StartChain, Popping!Accept, Popping!DecTimer, Popping!DecRow, Popping!Decline,
     Popping!OutAccepted, Popping!OutActive, Popping!Complete, Popping!FireTimeout,
     Popping!FeedDecline, Popping!ActiveExpires, Popping!rowVars, KnownOverwrite
<1>4. Placer \in Popping!Handlers /\ Calls \cup Riders \subseteq Popping!Handlers
  BY DEF Popping!Handlers
<1> QED
  BY <1>1, <1>2, <1>3, <1>4 DEF PopupStep, Popping!HandlerStep

LEMMA OverwriteStep == DispatchInv /\ [Next]_vars => [KnownOverwrite]_vars
<1> SUFFICES ASSUME DispatchInv, Next
             PROVE  KnownOverwrite \/ UNCHANGED vars
  OBVIOUS
<1>1. CASE AdminAssign
  BY <1>1 DEF AdminAssign, GiveTo, KnownOverwrite
<1>2. CASE (\E r \in Riders : AdminCheck(r)) \/ CancelCheck \/ CancelCommit
  BY <1>2 DEF AdminCheck, CancelCheck, CancelCommit, rowVars, KnownOverwrite
<1>3. CASE Restart
  BY <1>3 DEF Restart, Competing!CompRestart, Competing!rowVars, KnownOverwrite
<1> QED
  BY <1>1, <1>2, <1>3, CompetitionOverwrites, PopupOverwrites DEF Next

(* An order is taken from its rider only for another, a closed competition   *)
(* stays closed, and a cancelled order or one under way changes its status   *)
(* only in the ways that are listed.                                         *)
THEOREM OverwritesAreKnown == Spec => OnlyKnownOverwrites
BY DispatchInitInv, DispatchStepInv, OverwriteStep, PTL DEF Spec, OnlyKnownOverwrites
=============================================================================
