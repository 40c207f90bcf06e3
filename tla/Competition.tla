----------------------------- MODULE Competition -----------------------------
(***************************************************************************)
(* The driver competition of one order: riders join over the socket        *)
(* (driverCompitition), the first joiner starts the clock and schedules a  *)
(* delayed `close-competition` job, and the job (CompetitionWorker) gives  *)
(* the order to the best competitor.                                       *)
(*                                                                         *)
(* Joins of one order are serialised by a Redis key set with NX and a TTL  *)
(* of three seconds and deleted unconditionally in a `finally`.  The       *)
(* worker does not take that key.  A session is one socket of a rider; its *)
(* calls are sequential, but a rider may have several sessions.            *)
(***************************************************************************)
EXTENDS OrderRow, Naturals, Sequences

CONSTANTS
  Sessions,        \* sockets through which riders join
  RiderOf,         \* RiderOf[s]: the rider authenticated on socket s
  Located,         \* riders whose raiderLocation row exists and is active
  Elite,           \* riders whose tier scores at least 1.5
  MaxCompetitors,  \* driver_order_competition.max_users_to_join
  LockMayExpire,   \* TRUE: the 3 s TTL may elapse during a critical section
  MaxRestarts      \* bound: how often the server process may restart

ASSUME CompetitionAssumption ==
  /\ RiderOf \in [Sessions -> Riders]
  /\ Located \subseteq Riders
  /\ Elite \subseteq Riders
  /\ MaxCompetitors \in Nat \ {0}
  /\ LockMayExpire \in BOOLEAN
  /\ MaxRestarts \in Nat

VARIABLES
  competitors,  \* compititor_id, an Int[] column
  started,      \* competition_started_at is set
  lock,         \* the Redis key order:competition:<id> exists
  join,         \* join[s]: where the join call of session s stands
  closeJob,     \* closeJob[s]: state of the close job that session s scheduled
  winner,       \* winner[s]: the choice of that job's handler, not yet written
  restarts

compVars == <<competitors, started, lock, join, closeJob, winner, restarts>>

JoinSteps ==
  {"idle", "checking", "adding", "starting", "scheduling", "confirming", "releasing"}

JobStates == {"none", "waiting", "active", "done"}

Elements(q) == {q[i] : i \in 1..Len(q)}

CompTypeOK ==
  /\ competitors \in Seq(Riders)
  /\ started \in BOOLEAN
  /\ lock \in BOOLEAN
  /\ join \in [Sessions -> JoinSteps]
  /\ closeJob \in [Sessions -> JobStates]
  /\ winner \in [Sessions -> RiderOrNone]
  /\ restarts \in 0..MaxRestarts

CompInit ==
  /\ competitors = <<>>
  /\ started = FALSE
  /\ lock = FALSE
  /\ join = [s \in Sessions |-> "idle"]
  /\ closeJob = [s \in Sessions |-> "none"]
  /\ winner = [s \in Sessions |-> NoRider]
  /\ restarts = 0

-----------------------------------------------------------------------------
(* The join call, one action per await.                                    *)

Goto(s, step) == join' = [join EXCEPT ![s] = step]

(* acquireLock: SET key 1 PX 3000 NX.  A held key makes the call fail with *)
(* a ConflictException, which changes nothing.                             *)
AcquireLock(s) ==
  /\ join[s] = "idle"
  /\ ~lock
  /\ lock' = TRUE
  /\ Goto(s, "checking")
  /\ UNCHANGED <<rowVars, competitors, started, closeJob, winner, restarts>>

(* Mutant: the length test is off by one. *)
MayJoinOneMore(r) ==
  /\ status = "PENDING"
  /\ ~closed
  /\ r \notin Elements(competitors)
  /\ Len(competitors) <= MaxCompetitors
(* The tests of driverCompitition on the order it read. *)
MayJoin(r) ==
  /\ status = "PENDING"
  /\ ~closed
  /\ r \notin Elements(competitors)
  /\ Len(competitors) < MaxCompetitors

(* The order is read and the four early exits are taken: they all leave    *)
(* through the `finally`.                                                  *)
CheckOrder(s) ==
  /\ join[s] = "checking"
  /\ Goto(s, IF MayJoin(RiderOf[s]) THEN "adding" ELSE "releasing")
  /\ UNCHANGED <<rowVars, competitors, started, lock, closeJob, winner, restarts>>

(* compititor_id: { push } is an array append in the database; the row it  *)
(* returns decides whether this is the first rider.                        *)
AddCompetitor(s) ==
  /\ join[s] = "adding"
  /\ competitors' = Append(competitors, RiderOf[s])
  /\ Goto(s, IF Len(competitors') = 1 /\ ~started THEN "starting" ELSE "confirming")
  /\ UNCHANGED <<rowVars, started, lock, closeJob, winner, restarts>>

(* Mutant: the clock starts but the close job is forgotten. *)
StartWithoutJob(s) ==
  /\ join[s] = "starting"
  /\ started' = TRUE
  /\ Goto(s, "confirming")
  /\ UNCHANGED <<rowVars, competitors, lock, closeJob, winner, restarts>>

(* startCompetition, first await: competition_started_at. *)
StartCompetition(s) ==
  /\ join[s] = "starting"
  /\ started' = TRUE
  /\ Goto(s, "scheduling")
  /\ UNCHANGED <<rowVars, competitors, lock, closeJob, winner, restarts>>

(* startCompetition, second await: the delayed BullMQ job. *)
ScheduleClose(s) ==
  /\ join[s] = "scheduling"
  /\ closeJob' = [closeJob EXCEPT ![s] = "waiting"]
  /\ Goto(s, "confirming")
  /\ UNCHANGED <<rowVars, competitors, started, lock, winner, restarts>>

(* checkAutoConfirmation: the score of the customer may confirm the order. *)
AutoConfirm(s) ==
  /\ join[s] = "confirming"
  /\ confirmed' \in {confirmed, TRUE}
  /\ Goto(s, "releasing")
  /\ UNCHANGED <<status, assigned, closed, competitors, started, lock, closeJob,
                 winner, restarts>>

(* releaseLock in the finally: DEL, whoever holds the key by now. *)
ReleaseLock(s) ==
  /\ join[s] = "releasing"
  /\ lock' = FALSE
  /\ Goto(s, "idle")
  /\ UNCHANGED <<rowVars, competitors, started, closeJob, winner, restarts>>

InCriticalSection(s) == join[s] # "idle"

(* The TTL of the key elapses: after its owner died with the process, or   *)
(* under a live owner when the critical section may outlast the TTL.       *)
LockExpires ==
  /\ lock
  /\ LockMayExpire \/ \A s \in Sessions : ~InCriticalSection(s)
  /\ lock' = FALSE
  /\ UNCHANGED <<rowVars, competitors, started, join, closeJob, winner, restarts>>

-----------------------------------------------------------------------------
(* The close-competition job.                                              *)

(* Mutant: every located rider is ranked, competing or not. *)
AnyLocated == Located

(* Competitors with an active location are ranked; if some of them are     *)
(* elite, only those.                                                      *)
Valid == Elements(competitors) \cap Located
Candidates == IF Valid \cap Elite # {} THEN Valid \cap Elite ELSE Valid

(* The handler's reads: the order, its competitors and their locations.    *)
(* It returns silently when the competition is closed or nobody qualifies; *)
(* otherwise the ranking picks one candidate (weights abstracted).         *)
PickWinner(s) ==
  /\ closeJob[s] = "waiting"
  /\ \/ /\ closed \/ Candidates = {}
        /\ closeJob' = [closeJob EXCEPT ![s] = "done"]
        /\ UNCHANGED winner
     \/ /\ ~closed
        /\ \E r \in Candidates : winner' = [winner EXCEPT ![s] = r]
        /\ closeJob' = [closeJob EXCEPT ![s] = "active"]
  /\ UNCHANGED <<rowVars, competitors, started, lock, join, restarts>>

(* The handler's transaction.  It re-checks nothing.  It also marks the    *)
(* rider as busy, which no step of this module reads.                      *)
AwardOrder(s) ==
  /\ closeJob[s] = "active"
  /\ GiveTo(winner[s])
  /\ closed' = TRUE
  /\ closeJob' = [closeJob EXCEPT ![s] = "done"]
  /\ winner' = [winner EXCEPT ![s] = NoRider]
  /\ UNCHANGED <<confirmed, competitors, started, lock, join, restarts>>

(* Mutant: a job that was running is lost with the process. *)
LostJobs ==
  [s \in Sessions |-> IF closeJob[s] = "active" THEN "done" ELSE closeJob[s]]

(* The Node process dies: calls in flight are lost, the Redis key stays    *)
(* until its TTL, and BullMQ hands a job that was running to a worker      *)
(* again (once: BullMQ fails a job that stalls twice, so instances with    *)
(* liveness take MaxRestarts = 1).                                         *)
RequeuedJobs ==
  [s \in Sessions |-> IF closeJob[s] = "active" THEN "waiting" ELSE closeJob[s]]

CompRestart ==
  /\ restarts < MaxRestarts
  /\ restarts' = restarts + 1
  /\ join' = [s \in Sessions |-> "idle"]
  /\ closeJob' = RequeuedJobs
  /\ winner' = [s \in Sessions |-> NoRider]
  /\ UNCHANGED <<rowVars, competitors, started, lock>>

-----------------------------------------------------------------------------
JoinStep(s) ==
  \/ AcquireLock(s) \/ CheckOrder(s) \/ AddCompetitor(s) \/ StartCompetition(s)
  \/ ScheduleClose(s) \/ AutoConfirm(s) \/ ReleaseLock(s)

CloseStep(s) == PickWinner(s) \/ AwardOrder(s)

CompNext ==
  \/ \E s \in Sessions : JoinStep(s) \/ CloseStep(s)
  \/ LockExpires
  \/ CompRestart

vars == <<rowVars, compVars>>

Init == RowInit /\ CompInit

CompSpec == Init /\ [][CompNext]_vars

(* BullMQ keeps running due jobs, so a scheduled close job is eventually   *)
(* processed.  Nothing obliges a rider to join.                            *)
CompFairSpec == CompSpec /\ \A s \in Sessions : WF_vars(CloseStep(s))
-----------------------------------------------------------------------------
CompetitionTypeOK == RowTypeOK /\ CompTypeOK

(* Properties.  They assume that the critical section of a join finishes    *)
(* before the TTL of its key (LockMayExpire = FALSE).                       *)

(* No more riders compete than the configured maximum, although the length  *)
(* is read in one await and the rider is pushed in a later one.             *)
CompetitorsBounded == Len(competitors) <= MaxCompetitors

(* A rider appears at most once in compititor_id, even when two of his      *)
(* sockets join at the same time.                                           *)
NoDuplicateCompetitor ==
  \A i, j \in 1..Len(competitors) : competitors[i] = competitors[j] => i = j

(* At most one close job is ever scheduled for the order: two would each    *)
(* pick a winner.                                                           *)
OneCloseJob ==
  \A s, t \in Sessions :
    closeJob[s] # "none" /\ closeJob[t] # "none" => s = t

(* Unless the process died in between, an order somebody competes for has   *)
(* its close job, or the first joiner is about to schedule it: nobody else  *)
(* ever will, because later joiners find more than one competitor.          *)
CompetitionHasCloser ==
  competitors # <<>> /\ restarts = 0 =>
    \E s \in Sessions :
      closeJob[s] # "none" \/ join[s] \in {"starting", "scheduling"}

(* The order is closed exactly when it is awarded, and to a competitor.     *)
AwardedToCompetitor ==
  /\ closed <=> assigned # NoRider
  /\ closed => assigned \in Elements(competitors) /\ status = "ONGOING"

(* The competition implements the abstract award. *)
Abstract == INSTANCE Award WITH entrants <- Elements(competitors), holder <- assigned
ImplementsAward == Abstract!Spec

(* Once the close job is scheduled and somebody locatable competes, the     *)
(* order gets a rider, restarts included: the job survives in Redis.        *)
ScheduledCompetitionAwards ==
  (Candidates # {} /\ \E s \in Sessions : closeJob[s] = "waiting") ~> assigned # NoRider
=============================================================================
