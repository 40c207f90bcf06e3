-------------------------- MODULE CompetitionProofs --------------------------
(***************************************************************************)
(* Safety of the driver competition for any riders, sessions, capacity and *)
(* number of restarts, provided a join finishes before the TTL of its key. *)
(***************************************************************************)
EXTENDS Competition, SequenceTheorems, TLAPS

(***************************************************************************)
(* Type correctness, which needs no assumption on the TTL.                 *)
(***************************************************************************)

(* The initial values have their types. *)
LEMMA TypeInit == Init => CompetitionTypeOK
<1>1. <<>> \in Seq(Riders) /\ 0 \in 0..MaxRestarts
  BY EmptySeq, CompetitionAssumption
<1> QED
  BY <1>1 DEF Init, RowInit, CompInit, CompetitionTypeOK, RowTypeOK, CompTypeOK, OrderStatus,
              RiderOrNone, JoinSteps, JobStates

(* Every step keeps the types. *)
LEMMA TypeStep ==
  ASSUME CompetitionTypeOK, [CompNext]_vars
  PROVE  CompetitionTypeOK'
<1> USE NoRiderAssumption, CompetitionAssumption
<1> USE DEF CompetitionTypeOK, RowTypeOK, CompTypeOK, OrderStatus, RiderOrNone,
            JoinSteps, JobStates, rowVars, Goto
<1>1. ASSUME NEW s \in Sessions, AcquireLock(s) PROVE CompetitionTypeOK'
  BY <1>1 DEF AcquireLock
<1>2. ASSUME NEW s \in Sessions, CheckOrder(s) PROVE CompetitionTypeOK'
  BY <1>2 DEF CheckOrder
<1>3. ASSUME NEW s \in Sessions, AddCompetitor(s) PROVE CompetitionTypeOK'
  BY <1>3 DEF AddCompetitor
<1>4. ASSUME NEW s \in Sessions, StartCompetition(s) PROVE CompetitionTypeOK'
  BY <1>4 DEF StartCompetition
<1>5. ASSUME NEW s \in Sessions, ScheduleClose(s) PROVE CompetitionTypeOK'
  BY <1>5 DEF ScheduleClose
<1>6. ASSUME NEW s \in Sessions, AutoConfirm(s) PROVE CompetitionTypeOK'
  BY <1>6 DEF AutoConfirm
<1>7. ASSUME NEW s \in Sessions, ReleaseLock(s) PROVE CompetitionTypeOK'
  BY <1>7 DEF ReleaseLock
<1>8. ASSUME NEW s \in Sessions, PickWinner(s) PROVE CompetitionTypeOK'
  BY <1>8 DEF PickWinner, Candidates, Valid
<1>9. ASSUME NEW s \in Sessions, AwardOrder(s) PROVE CompetitionTypeOK'
  BY <1>9 DEF AwardOrder, GiveTo
<1>10. CASE LockExpires
  BY <1>10 DEF LockExpires
<1>11. CASE CompRestart
  BY <1>11 DEF CompRestart, RequeuedJobs
<1>12. CASE UNCHANGED vars
  BY <1>12 DEF vars, compVars
<1> QED
  BY <1>1, <1>2, <1>3, <1>4, <1>5, <1>6, <1>7, <1>8, <1>9, <1>10, <1>11, <1>12
  DEF CompNext, JoinStep, CloseStep

(* Whatever the interleaving, the row, the Redis key and the jobs keep     *)
(* values of their types.                                                  *)
THEOREM CompetitionTypeCorrect == CompSpec => []CompetitionTypeOK
  BY TypeInit, TypeStep, PTL DEF CompSpec

-----------------------------------------------------------------------------
(***************************************************************************)
(* The inductive invariant.  The properties of the competition are not     *)
(* inductive: that the length checked in one await still holds when the    *)
(* rider is pushed in a later one rests on the key excluding every other   *)
(* join in between, and that one job is scheduled rests on the first       *)
(* joiner alone finding one competitor.                                    *)
(***************************************************************************)

(* A join that is under way holds the key, and is the only one. *)
MutualExclusion ==
  \A s \in Sessions : InCriticalSection(s) =>
    /\ lock
    /\ \A t \in Sessions : InCriticalSection(t) => s = t

(* What CheckOrder saw of compititor_id still holds at the push. *)
CheckStillHolds ==
  \A s \in Sessions : join[s] = "adding" =>
    /\ RiderOf[s] \notin Elements(competitors)
    /\ Len(competitors) < MaxCompetitors

(* Before the first joiner has scheduled the close job there is none. *)
NoJobBeforeFirst ==
  /\ competitors = <<>> => \A t \in Sessions : closeJob[t] = "none"
  /\ \A s \in Sessions : join[s] \in {"starting", "scheduling"} =>
       /\ competitors # <<>>
       /\ \A t \in Sessions : closeJob[t] = "none"

(* A running close job has chosen a competitor, and the order is open. *)
ChosenIsCompetitor ==
  \A s \in Sessions : closeJob[s] = "active" =>
    winner[s] \in Elements(competitors) /\ ~closed

CompInv ==
  /\ CompetitionTypeOK
  /\ MutualExclusion
  /\ CheckStillHolds
  /\ NoJobBeforeFirst
  /\ ChosenIsCompetitor
  /\ CompetitorsBounded
  /\ NoDuplicateCompetitor
  /\ OneCloseJob
  /\ AwardedToCompetitor

-----------------------------------------------------------------------------
(* The empty sequence has no elements. *)
LEMMA EmptyElements == Elements(<<>>) = {}
  BY DEF Elements

(* Appending adds one element and one to the length, and keeps the others. *)
LEMMA AppendElements ==
  ASSUME NEW q \in Seq(Riders), NEW r \in Riders
  PROVE  /\ Elements(Append(q, r)) = Elements(q) \cup {r}
         /\ Len(Append(q, r)) = Len(q) + 1
         /\ Append(q, r) # <<>>
         /\ \A i \in 1..Len(q) : Append(q, r)[i] = q[i]
         /\ Append(q, r)[Len(q) + 1] = r
<1>1. /\ Len(q) \in Nat
      /\ Len(Append(q, r)) = Len(q) + 1
      /\ \A i \in 1..Len(q) : Append(q, r)[i] = q[i]
      /\ Append(q, r)[Len(q) + 1] = r
  OBVIOUS
<1>2. Append(q, r) # <<>>
  BY <1>1
<1>3. ASSUME NEW x PROVE x \in Elements(Append(q, r)) <=> x \in Elements(q) \cup {r}
  <2>1. CASE x \in Elements(q)
    <3>1. PICK i \in 1..Len(q) : x = q[i]
      BY <2>1 DEF Elements
    <3>2. i \in 1..Len(Append(q, r)) /\ Append(q, r)[i] = x
      BY <1>1, <3>1
    <3> QED
      BY <2>1, <3>2 DEF Elements
  <2>2. CASE x = r
    <3>1. Len(q) + 1 \in 1..Len(Append(q, r)) /\ Append(q, r)[Len(q) + 1] = x
      BY <1>1, <2>2
    <3> QED
      BY <2>2, <3>1 DEF Elements
  <2>3. ASSUME x \in Elements(Append(q, r)) PROVE x \in Elements(q) \cup {r}
    <3>1. PICK i \in 1..Len(Append(q, r)) : x = Append(q, r)[i]
      BY <2>3 DEF Elements
    <3>2. i \in 1..Len(q) \/ i = Len(q) + 1
      BY <1>1, <3>1
    <3> QED
      BY <1>1, <3>1, <3>2 DEF Elements
  <2> QED
    BY <2>1, <2>2, <2>3
<1> QED
  BY <1>1, <1>2, <1>3

(* The invariant holds initially. *)
LEMMA InvInit == Init => CompInv
<1>1. Len(<<>>) = 0
  OBVIOUS
<1> QED
  BY <1>1, TypeInit, EmptyElements, CompetitionAssumption, NoRiderAssumption
  DEF Init, RowInit, CompInit, CompInv, MutualExclusion, InCriticalSection, CheckStillHolds,
      NoJobBeforeFirst, ChosenIsCompetitor, CompetitorsBounded, NoDuplicateCompetitor,
      OneCloseJob, AwardedToCompetitor

(* Steps of a join that only move it inside its critical section, with     *)
(* everything else as it was, keep the invariant.                          *)
LEMMA MoveWithinJoin ==
  ASSUME CompInv, CompetitionTypeOK', NEW s \in Sessions, NEW step \in JoinSteps,
         join[s] # "idle", step \notin {"adding", "starting", "scheduling"},
         join' = [join EXCEPT ![s] = step],
         UNCHANGED <<status, assigned, closed, competitors, lock, winner>>,
         \A t \in Sessions : closeJob'[t] = closeJob[t]
  PROVE  CompInv'
<1> USE DEF CompInv, CompetitionTypeOK, CompTypeOK
<1>1. MutualExclusion'
  BY DEF MutualExclusion, InCriticalSection
<1>2. CheckStillHolds'
  BY DEF CheckStillHolds, Elements
<1>3. NoJobBeforeFirst'
  BY DEF NoJobBeforeFirst
<1>4. ChosenIsCompetitor'
  BY DEF ChosenIsCompetitor, Elements
<1>5. CompetitorsBounded' /\ NoDuplicateCompetitor' /\ OneCloseJob' /\ AwardedToCompetitor'
  BY DEF CompetitorsBounded, NoDuplicateCompetitor, OneCloseJob, AwardedToCompetitor, Elements
<1> QED
  BY <1>1, <1>2, <1>3, <1>4, <1>5

(* The steps of a join keep the invariant. *)
LEMMA JoinKeepsInv ==
  ASSUME CompInv, CompetitionTypeOK', NEW s \in Sessions, JoinStep(s)
  PROVE  CompInv'
<1> USE DEF CompInv, Goto, rowVars
<1>0. /\ join \in [Sessions -> JoinSteps]
      /\ closeJob \in [Sessions -> JobStates]
      /\ competitors \in Seq(Riders)
      /\ RiderOf[s] \in Riders
  BY CompetitionAssumption DEF CompetitionTypeOK, CompTypeOK
<1>1. CASE AcquireLock(s)
  <2>1. MutualExclusion'
    BY <1>0, <1>1 DEF AcquireLock, MutualExclusion, InCriticalSection
  <2>2. CheckStillHolds' /\ NoJobBeforeFirst'
    BY <1>0, <1>1 DEF AcquireLock, CheckStillHolds, NoJobBeforeFirst, Elements
  <2> QED
    BY <1>1, <2>1, <2>2
    DEF AcquireLock, ChosenIsCompetitor, CompetitorsBounded, NoDuplicateCompetitor,
        OneCloseJob, AwardedToCompetitor, Elements
<1>2. CASE CheckOrder(s)
  <2>1. MutualExclusion'
    BY <1>0, <1>2 DEF CheckOrder, MutualExclusion, InCriticalSection
  <2>2. CheckStillHolds'
    BY <1>0, <1>2 DEF CheckOrder, MayJoin, CheckStillHolds, Elements
  <2>3. NoJobBeforeFirst'
    BY <1>0, <1>2 DEF CheckOrder, NoJobBeforeFirst
  <2> QED
    BY <1>2, <2>1, <2>2, <2>3
    DEF CheckOrder, ChosenIsCompetitor, CompetitorsBounded, NoDuplicateCompetitor,
        OneCloseJob, AwardedToCompetitor, Elements
<1>3. CASE AddCompetitor(s)
  <2>1. /\ RiderOf[s] \notin Elements(competitors)
        /\ Len(competitors) < MaxCompetitors
        /\ Len(competitors) \in Nat
    BY <1>0, <1>3 DEF AddCompetitor, CheckStillHolds
  <2>2. /\ Elements(competitors') = Elements(competitors) \cup {RiderOf[s]}
        /\ Len(competitors') = Len(competitors) + 1
        /\ competitors' # <<>>
        /\ \A i \in 1..Len(competitors) : competitors'[i] = competitors[i]
        /\ competitors'[Len(competitors) + 1] = RiderOf[s]
    BY <1>0, <1>3, AppendElements DEF AddCompetitor
  <2>3. MutualExclusion'
    BY <1>0, <1>3 DEF AddCompetitor, MutualExclusion, InCriticalSection
  <2>4. \A t \in Sessions : join'[t] # "adding"
    BY <1>0, <1>3 DEF AddCompetitor, MutualExclusion, InCriticalSection
  <2>5. CheckStillHolds'
    BY <2>4 DEF CheckStillHolds
  <2>6. NoJobBeforeFirst'
    <3>1. CASE competitors = <<>>
      <4>1. \A t \in Sessions : closeJob'[t] = "none"
        BY <1>3, <3>1 DEF AddCompetitor, NoJobBeforeFirst
      <4> QED
        BY <2>2, <4>1 DEF NoJobBeforeFirst
    <3>2. CASE competitors # <<>>
      <4>1. Len(competitors') # 1
        BY <1>0, <2>1, <2>2, <3>2
      <4>2. \A t \in Sessions : join'[t] \notin {"starting", "scheduling"}
        BY <1>0, <1>3, <4>1 DEF AddCompetitor, MutualExclusion, InCriticalSection
      <4> QED
        BY <2>2, <4>2 DEF NoJobBeforeFirst
    <3> QED
      BY <3>1, <3>2
  <2>7. ChosenIsCompetitor' /\ OneCloseJob' /\ AwardedToCompetitor'
    BY <1>3, <2>2 DEF AddCompetitor, ChosenIsCompetitor, OneCloseJob, AwardedToCompetitor
  <2>8. CompetitorsBounded'
    BY <2>1, <2>2, CompetitionAssumption DEF CompetitorsBounded
  <2>9. NoDuplicateCompetitor'
    <3>1. \A i \in 1..Len(competitors) : competitors[i] # RiderOf[s]
      BY <2>1 DEF Elements
    <3>2. \A i \in 1..Len(competitors') : i \in 1..Len(competitors) \/ i = Len(competitors) + 1
      BY <2>1, <2>2
    <3> QED
      BY <2>2, <3>1, <3>2 DEF NoDuplicateCompetitor
  <2> QED
    BY <2>3, <2>5, <2>6, <2>7, <2>8, <2>9
<1>4. CASE StartCompetition(s)
  <2>1. MutualExclusion' /\ CheckStillHolds'
    BY <1>0, <1>4 DEF StartCompetition, MutualExclusion, InCriticalSection, CheckStillHolds, Elements
  <2>2. NoJobBeforeFirst'
    BY <1>0, <1>4 DEF StartCompetition, NoJobBeforeFirst
  <2> QED
    BY <1>4, <2>1, <2>2
    DEF StartCompetition, ChosenIsCompetitor, CompetitorsBounded, NoDuplicateCompetitor,
        OneCloseJob, AwardedToCompetitor, Elements
<1>5. CASE ScheduleClose(s)
  <2>1. MutualExclusion' /\ CheckStillHolds'
    BY <1>0, <1>5 DEF ScheduleClose, MutualExclusion, InCriticalSection, CheckStillHolds, Elements
  <2>2. competitors # <<>> /\ \A t \in Sessions : closeJob[t] = "none"
    BY <1>5 DEF ScheduleClose, NoJobBeforeFirst
  <2>3. \A t \in Sessions : join'[t] \notin {"starting", "scheduling"}
    BY <1>0, <1>5 DEF ScheduleClose, MutualExclusion, InCriticalSection
  <2>4. NoJobBeforeFirst'
    BY <1>5, <2>2, <2>3 DEF ScheduleClose, NoJobBeforeFirst
  <2>5. OneCloseJob' /\ ChosenIsCompetitor'
    BY <1>0, <1>5, <2>2 DEF ScheduleClose, OneCloseJob, ChosenIsCompetitor
  <2> QED
    BY <1>5, <2>1, <2>4, <2>5
    DEF ScheduleClose, CompetitorsBounded, NoDuplicateCompetitor, AwardedToCompetitor, Elements
<1>6. CASE AutoConfirm(s)
  BY <1>0, <1>6, MoveWithinJoin DEF AutoConfirm, JoinSteps
<1>7. CASE ReleaseLock(s)
  <2>1. MutualExclusion'
    BY <1>0, <1>7 DEF ReleaseLock, MutualExclusion, InCriticalSection
  <2>2. CheckStillHolds' /\ NoJobBeforeFirst'
    BY <1>0, <1>7 DEF ReleaseLock, CheckStillHolds, NoJobBeforeFirst, Elements
  <2> QED
    BY <1>7, <2>1, <2>2
    DEF ReleaseLock, ChosenIsCompetitor, CompetitorsBounded, NoDuplicateCompetitor,
        OneCloseJob, AwardedToCompetitor, Elements
<1> QED
  BY <1>1, <1>2, <1>3, <1>4, <1>5, <1>6, <1>7 DEF JoinStep

(* The steps of the close job keep the invariant: only the one job writes  *)
(* the row, and it cannot have awarded the order before.                   *)
LEMMA CloseKeepsInv ==
  ASSUME CompInv, CompetitionTypeOK', NEW s \in Sessions, CloseStep(s)
  PROVE  CompInv'
<1> USE DEF CompInv, rowVars
<1>0. /\ closeJob \in [Sessions -> JobStates]
      /\ winner \in [Sessions -> RiderOrNone]
      /\ RiderOf \in [Sessions -> Riders]
      /\ competitors \in Seq(Riders)
  BY CompetitionAssumption DEF CompetitionTypeOK, CompTypeOK
<1>1. closeJob[s] # "none" /\ \A t \in Sessions : closeJob[t] # "none" => t = s
  BY DEF CloseStep, PickWinner, AwardOrder, OneCloseJob
<1>2. competitors # <<>> /\ \A t \in Sessions : join[t] \notin {"starting", "scheduling"}
  BY <1>1 DEF NoJobBeforeFirst
<1>3. CASE PickWinner(s)
  <2>1. closeJob'[s] # "none" /\ \A t \in Sessions : closeJob'[t] # "none" => t = s
    BY <1>0, <1>1, <1>3 DEF PickWinner
  <2>2. ChosenIsCompetitor'
    BY <1>0, <1>1, <1>3 DEF PickWinner, Candidates, Valid, ChosenIsCompetitor, Elements
  <2>3. NoJobBeforeFirst' /\ OneCloseJob'
    BY <1>2, <1>3, <2>1 DEF PickWinner, NoJobBeforeFirst, OneCloseJob
  <2> QED
    BY <1>3, <2>2, <2>3
    DEF PickWinner, MutualExclusion, InCriticalSection, CheckStillHolds,
        CompetitorsBounded, NoDuplicateCompetitor, AwardedToCompetitor, Elements
<1>4. CASE AwardOrder(s)
  <2>1. winner[s] \in Elements(competitors) /\ winner[s] # NoRider
    <3>1. winner[s] \in Elements(competitors)
      BY <1>4 DEF AwardOrder, ChosenIsCompetitor
    <3>2. Elements(competitors) \subseteq Riders
      BY <1>0 DEF Elements
    <3> QED
      BY <3>1, <3>2, NoRiderAssumption
  <2>2. \A t \in Sessions : closeJob'[t] \in {"none", "done"}
    BY <1>0, <1>1, <1>4 DEF AwardOrder
  <2>3. closeJob'[s] # "none" /\ \A t \in Sessions : closeJob'[t] # "none" => t = s
    BY <1>0, <1>1, <1>4 DEF AwardOrder
  <2>4. AwardedToCompetitor'
    BY <1>4, <2>1 DEF AwardOrder, GiveTo, AwardedToCompetitor, Elements
  <2>5. NoJobBeforeFirst' /\ OneCloseJob' /\ ChosenIsCompetitor'
    BY <1>2, <1>4, <2>2, <2>3
    DEF AwardOrder, NoJobBeforeFirst, OneCloseJob, ChosenIsCompetitor
  <2> QED
    BY <1>4, <2>4, <2>5
    DEF AwardOrder, MutualExclusion, InCriticalSection, CheckStillHolds,
        CompetitorsBounded, NoDuplicateCompetitor, Elements
<1> QED
  BY <1>3, <1>4 DEF CloseStep

(* Every step keeps the invariant while the key outlives the join.         *)
LEMMA InvStep ==
  ASSUME LockMayExpire = FALSE, CompInv, [CompNext]_vars
  PROVE  CompInv'
<1>0. CompetitionTypeOK'
  BY TypeStep DEF CompInv
<1>1. ASSUME NEW s \in Sessions, JoinStep(s) PROVE CompInv'
  BY <1>0, <1>1, JoinKeepsInv
<1>2. ASSUME NEW s \in Sessions, CloseStep(s) PROVE CompInv'
  BY <1>0, <1>2, CloseKeepsInv
<1>3. CASE LockExpires
  BY <1>0, <1>3
  DEF LockExpires, rowVars, CompInv, MutualExclusion, InCriticalSection,
      CheckStillHolds, NoJobBeforeFirst, ChosenIsCompetitor, CompetitorsBounded,
      NoDuplicateCompetitor, OneCloseJob, AwardedToCompetitor, Elements
<1>4. CASE CompRestart
  <2>1. \A t \in Sessions :
          /\ join'[t] = "idle"
          /\ closeJob'[t] # "active"
          /\ closeJob'[t] # "none" <=> closeJob[t] # "none"
    BY <1>4 DEF CompRestart, RequeuedJobs, CompInv, CompetitionTypeOK, CompTypeOK
  <2> QED
    BY <1>0, <1>4, <2>1
    DEF CompRestart, rowVars, CompInv, MutualExclusion, InCriticalSection,
        CheckStillHolds, NoJobBeforeFirst, ChosenIsCompetitor, CompetitorsBounded,
        NoDuplicateCompetitor, OneCloseJob, AwardedToCompetitor, Elements
<1>5. CASE UNCHANGED vars
  BY <1>0, <1>5
  DEF vars, rowVars, compVars, CompInv, MutualExclusion, InCriticalSection,
      CheckStillHolds, NoJobBeforeFirst, ChosenIsCompetitor, CompetitorsBounded,
      NoDuplicateCompetitor, OneCloseJob, AwardedToCompetitor, Elements
<1> QED
  BY <1>1, <1>2, <1>3, <1>4, <1>5 DEF CompNext

(* The invariant holds throughout, if the key outlives the join.           *)
THEOREM CompInvariant ==
  ASSUME LockMayExpire = FALSE
  PROVE  CompSpec => []CompInv
<1>1. CompInv /\ [CompNext]_vars => CompInv'
  BY InvStep
<1> QED
  BY <1>1, InvInit, PTL DEF CompSpec

(* The configured maximum of competitors is never exceeded, for any number *)
(* of riders and sockets joining at once.                                  *)
THEOREM CompetitorsAlwaysBounded ==
  ASSUME LockMayExpire = FALSE
  PROVE  CompSpec => []CompetitorsBounded
<1>1. CompInv => CompetitorsBounded
  BY DEF CompInv
<1> QED
  BY <1>1, CompInvariant, PTL

(* No rider is pushed to compititor_id twice, however many sockets he has. *)
THEOREM CompetitorsAlwaysDistinct ==
  ASSUME LockMayExpire = FALSE
  PROVE  CompSpec => []NoDuplicateCompetitor
<1>1. CompInv => NoDuplicateCompetitor
  BY DEF CompInv
<1> QED
  BY <1>1, CompInvariant, PTL

(* At most one close job is ever scheduled for the order.                  *)
THEOREM AtMostOneCloseJob ==
  ASSUME LockMayExpire = FALSE
  PROVE  CompSpec => []OneCloseJob
<1>1. CompInv => OneCloseJob
  BY DEF CompInv
<1> QED
  BY <1>1, CompInvariant, PTL

(* The order is closed exactly when it is awarded, and its rider competed. *)
THEOREM AlwaysAwardedToCompetitor ==
  ASSUME LockMayExpire = FALSE
  PROVE  CompSpec => []AwardedToCompetitor
<1>1. CompInv => AwardedToCompetitor
  BY DEF CompInv
<1> QED
  BY <1>1, CompInvariant, PTL

-----------------------------------------------------------------------------
(* The clock does not start before somebody competes. *)
StartedByFirst == started => competitors # <<>>

CloserInv == CompInv /\ StartedByFirst /\ CompetitionHasCloser

(* The first joiner goes on to schedule the job, nobody else has to, and a *)
(* job that is there stays.                                                *)
LEMMA CloserStep ==
  ASSUME LockMayExpire = FALSE, CloserInv, [CompNext]_vars
  PROVE  CloserInv'
<1> USE DEF CloserInv, Goto
<1>0. /\ CompInv' /\ CompInv
      /\ join \in [Sessions -> JoinSteps] /\ closeJob \in [Sessions -> JobStates]
      /\ competitors \in Seq(Riders) /\ restarts \in 0..MaxRestarts
      /\ RiderOf \in [Sessions -> Riders] /\ MaxRestarts \in Nat
  BY InvStep, CompetitionAssumption DEF CompInv, CompetitionTypeOK, CompTypeOK
<1>1. ASSUME NEW s \in Sessions,
             \/ AcquireLock(s) \/ CheckOrder(s) \/ AutoConfirm(s) \/ ReleaseLock(s)
      PROVE  CloserInv'
  <2>1. \A t \in Sessions : join[t] \in {"starting", "scheduling"} => join'[t] = join[t]
    BY <1>0, <1>1 DEF AcquireLock, CheckOrder, AutoConfirm, ReleaseLock
  <2>2. UNCHANGED <<competitors, started, closeJob, restarts>>
    BY <1>1 DEF AcquireLock, CheckOrder, AutoConfirm, ReleaseLock
  <2>3. CompetitionHasCloser'
    BY <2>1, <2>2 DEF CompetitionHasCloser
  <2> QED
    BY <1>0, <2>2, <2>3 DEF StartedByFirst
<1>2. ASSUME NEW s \in Sessions, AddCompetitor(s)
      PROVE  CloserInv'
  <2>1. /\ competitors' # <<>> /\ Len(competitors) \in Nat
        /\ Len(competitors') = Len(competitors) + 1
    BY <1>0, <1>2, AppendElements DEF AddCompetitor
  <2>2. CASE competitors = <<>>
    <3>1. join'[s] = "starting"
      BY <1>0, <1>2, <2>1, <2>2 DEF AddCompetitor, StartedByFirst
    <3> QED
      BY <1>0, <2>1, <3>1 DEF StartedByFirst, CompetitionHasCloser
  <2>3. CASE competitors # <<>>
    BY <1>0, <1>2, <2>1, <2>3 DEF AddCompetitor, StartedByFirst, CompetitionHasCloser
  <2> QED
    BY <2>2, <2>3
<1>3. ASSUME NEW s \in Sessions, StartCompetition(s) \/ ScheduleClose(s)
      PROVE  CloserInv'
  <2>1. competitors # <<>>
    BY <1>3 DEF StartCompetition, ScheduleClose, CompInv, NoJobBeforeFirst
  <2>2. join'[s] = "scheduling" \/ closeJob'[s] = "waiting"
    BY <1>0, <1>3 DEF StartCompetition, ScheduleClose
  <2> QED
    BY <1>0, <1>3, <2>1, <2>2 DEF StartCompetition, ScheduleClose, StartedByFirst, CompetitionHasCloser
<1>4. ASSUME NEW s \in Sessions, CloseStep(s)
      PROVE  CloserInv'
  BY <1>0, <1>4 DEF CloseStep, PickWinner, AwardOrder, StartedByFirst, CompetitionHasCloser
<1>5. CASE LockExpires \/ UNCHANGED vars
  BY <1>0, <1>5 DEF LockExpires, vars, compVars, StartedByFirst, CompetitionHasCloser
<1>6. CASE CompRestart
  BY <1>0, <1>6 DEF CompRestart, StartedByFirst, CompetitionHasCloser
<1> QED
  BY <1>1, <1>2, <1>3, <1>4, <1>5, <1>6 DEF CompNext, JoinStep

(* An order somebody competes for has its close job, or the first joiner is *)
(* about to schedule it, as long as the process has not died: no rider      *)
(* waits for a competition that nobody will close.                         *)
THEOREM AlwaysHasCloser ==
  ASSUME LockMayExpire = FALSE
  PROVE  CompSpec => []CompetitionHasCloser
<1>1. Init => CloserInv
  BY InvInit DEF Init, CompInit, CloserInv, StartedByFirst, CompetitionHasCloser
<1>2. CloserInv /\ [CompNext]_vars => CloserInv'
  BY CloserStep
<1>3. CloserInv => CompetitionHasCloser
  BY DEF CloserInv
<1> QED
  BY <1>1, <1>2, <1>3, PTL DEF CompSpec

-----------------------------------------------------------------------------
(***************************************************************************)
(* Refinement: the pushes of joins map to Enter, the transaction of the    *)
(* close job to Win, and every other step to a stutter.                    *)
(***************************************************************************)

(* A step from a state of the invariant is a step of the abstract award.   *)
LEMMA AwardStep ==
  ASSUME CompInv, [CompNext]_vars
  PROVE  [Abstract!Next]_<<Elements(competitors), assigned>>
<1> USE DEF rowVars
<1>1. ASSUME NEW s \in Sessions, AddCompetitor(s)
      PROVE  Abstract!Next
  <2>1. competitors \in Seq(Riders) /\ RiderOf[s] \in Riders
    BY CompetitionAssumption DEF CompInv, CompetitionTypeOK, CompTypeOK
  <2>2. RiderOf[s] \notin Elements(competitors)
    BY <1>1 DEF AddCompetitor, CompInv, CheckStillHolds
  <2>3. Elements(competitors)' = Elements(competitors) \cup {RiderOf[s]}
    BY <1>1, <2>1, AppendElements DEF AddCompetitor, Elements
  <2>4. Abstract!Enter(RiderOf[s])
    BY <1>1, <2>2, <2>3 DEF AddCompetitor, Abstract!Enter
  <2> QED
    BY <2>1, <2>4 DEF Abstract!Next
<1>2. ASSUME NEW s \in Sessions, AwardOrder(s)
      PROVE  Abstract!Next
  <2>1. winner[s] \in Elements(competitors) /\ assigned = NoRider
    BY <1>2 DEF AwardOrder, CompInv, ChosenIsCompetitor, AwardedToCompetitor
  <2>2. winner[s] \in Riders
    BY <2>1 DEF Elements, CompInv, CompetitionTypeOK, CompTypeOK
  <2>3. Abstract!Win(winner[s])
    BY <1>2, <2>1 DEF AwardOrder, GiveTo, Elements, Abstract!Win
  <2> QED
    BY <2>2, <2>3 DEF Abstract!Next
<1>3. ASSUME NEW s \in Sessions,
             \/ AcquireLock(s) \/ CheckOrder(s) \/ StartCompetition(s) \/ ScheduleClose(s)
             \/ AutoConfirm(s) \/ ReleaseLock(s) \/ PickWinner(s)
      PROVE  UNCHANGED <<Elements(competitors), assigned>>
  BY <1>3 DEF AcquireLock, CheckOrder, StartCompetition, ScheduleClose, AutoConfirm,
              ReleaseLock, PickWinner, Elements
<1>4. CASE LockExpires \/ CompRestart \/ UNCHANGED vars
  BY <1>4 DEF LockExpires, CompRestart, vars, compVars, Elements
<1> QED
  BY <1>1, <1>2, <1>3, <1>4 DEF CompNext, JoinStep, CloseStep

(* The competition, with its key, jobs and restarts, implements the award: *)
(* in particular the rider of an awarded order never changes.              *)
THEOREM CompetitionImplementsAward ==
  ASSUME LockMayExpire = FALSE
  PROVE  CompSpec => ImplementsAward
<1>1. Init => Abstract!Init
  BY EmptyElements DEF Init, RowInit, CompInit, Abstract!Init
<1>2. CompInv /\ [CompNext]_vars => [Abstract!Next]_<<Elements(competitors), assigned>>
  BY AwardStep
<1> QED
  BY <1>1, <1>2, CompInvariant, PTL DEF CompSpec, ImplementsAward, Abstract!Spec
=============================================================================
