------------------------------- MODULE Pushes -------------------------------
(***************************************************************************)
(* What tells a customer about his order: one notification rule of the     *)
(* rule engine, fired by the rider's distance from the next stop, and the  *)
(* queue of push jobs, to which the rule and the rest of the program add.  *)
(*                                                                         *)
(* An evaluation looks up the next stop, asks for the road distance, and   *)
(* fires the rule if it matches: it reads the order again, looks for the   *)
(* row that says that the rule was fired for this order and stop index,    *)
(* queues the push and then the messages, and makes the row, which is      *)
(* unique.  The recalculation interval of a rider begins at the end of an  *)
(* evaluation, so several may run at once.                                 *)
(*                                                                         *)
(* A push job is attempted up to three times.  An attempt sends and then   *)
(* keeps a row in the notification history.  A send that fails throws      *)
(* nothing (Promise.allSettled).  A general push without data throws when  *)
(* its row is made (data.orderId), and so does one whose type the history  *)
(* does not know.                                                          *)
(***************************************************************************)
EXTENDS Integers, Sequences, FiniteSets, Incident

CONSTANTS
  RouteStops,  \* stops of the order
  Evaluations, \* evaluations of the rule that may run at once
  Jobs,        \* push jobs that may be queued
  NoStopYet,   \* the stop of an evaluation that has none
  Attempts     \* attempts of a job

ASSUME PushesAssumption ==
  /\ IsFiniteSet(RouteStops) /\ RouteStops # {}
  /\ NoStopYet \notin RouteStops
  /\ Attempts \in Nat \ {0}

VARIABLES
  route,        \* the stops in order of sequence
  passed,       \* stops COMPLETED or skipped
  fired,        \* indexes of the rows in FiredNotification
  alerts,       \* alerts[s]: pushes the rule has queued for stop s
  evalAt,       \* evalAt[e]: the step of evaluation e
  evalStop,     \* evalStop[e]: the stop it fires for
  evalIndex,    \* evalIndex[e]: the index that stop had when it was read
  job,          \* job[j]: "none", "waiting", "sent", "done" or "failed"
  sort,         \* sort[j]: "whole", or "bare" if its row cannot be made
  tries, sent,  \* per job: attempts made, pushes sent
  kept,         \* kept[j]: rows in the notification history
  pushIncidents

ruleVars == <<route, passed, fired, alerts, evalAt, evalStop, evalIndex>>
jobVars == <<job, sort, tries, sent, kept>>
pushVars == <<ruleVars, jobVars, pushIncidents>>

(*   "at_once"    a rule was looked up while an evaluation of it went on   *)
(*   "reordered"  the stops were given another order                       *)
(*   "no_phone"   an evaluation threw between its push and its row         *)
(*   "cut_short"  it was interrupted there                                 *)
(*   "trouble"    the database failed, or the process died, between a      *)
(*                push and its row in the history                          *)
PushIncidents == {"at_once", "reordered", "no_phone", "cut_short", "trouble"}

Indexes == 1 .. Cardinality(RouteStops)
Routes == {r \in [Indexes -> RouteStops] : \A i, k \in Indexes : r[i] = r[k] => i = k}

PushesTypeOK ==
  /\ route \in Routes
  /\ passed \subseteq RouteStops
  /\ fired \subseteq Indexes
  /\ alerts \in [RouteStops -> Nat]
  /\ evalAt \in [Evaluations -> {"idle", "measured", "looked", "queued"}]
  /\ evalStop \in [Evaluations -> RouteStops \cup {NoStopYet}]
  /\ evalIndex \in [Evaluations -> Indexes \cup {0}]
  /\ job \in [Jobs -> {"none", "waiting", "sent", "done", "failed"}]
  /\ sort \in [Jobs -> {"whole", "bare"}]
  /\ tries \in [Jobs -> 0 .. Attempts]
  /\ sent \in [Jobs -> Nat] /\ kept \in [Jobs -> Nat]
  /\ pushIncidents \subseteq PushIncidents

PushesInit ==
  /\ route \in Routes
  /\ passed = {}
  /\ fired = {}
  /\ alerts = [s \in RouteStops |-> 0]
  /\ evalAt = [e \in Evaluations |-> "idle"]
  /\ evalStop = [e \in Evaluations |-> NoStopYet]
  /\ evalIndex = [e \in Evaluations |-> 0]
  /\ job = [j \in Jobs |-> "none"]
  /\ sort = [j \in Jobs |-> "whole"]
  /\ tries = [j \in Jobs |-> 0]
  /\ sent = [j \in Jobs |-> 0]
  /\ kept = [j \in Jobs |-> 0]
  /\ pushIncidents = {}

-----------------------------------------------------------------------------
(* The rule engine *)

IndexOf(s) == CHOOSE i \in Indexes : route[i] = s

(* getActiveStopIndex *)
ActiveStop ==
  IF passed = RouteStops THEN NoStopYet
  ELSE route[CHOOSE i \in Indexes : /\ route[i] \notin passed
                                    /\ \A k \in 1 .. i - 1 : route[k] \in passed]

Evaluate(e, step, stop, index) ==
  /\ evalAt' = [evalAt EXCEPT ![e] = step]
  /\ evalStop' = [evalStop EXCEPT ![e] = stop]
  /\ evalIndex' = [evalIndex EXCEPT ![e] = index]
  /\ UNCHANGED <<route, passed>>

Over(e) == Evaluate(e, "idle", NoStopYet, 0)

(* maybeRecalculateEta, for a stop near enough.  The rule is fired for the *)
(* stop that is the next one by then, which may be another.                *)
Measure(e) ==
  /\ evalAt[e] = "idle"
  /\ ActiveStop # NoStopYet
  /\ Evaluate(e, "measured", NoStopYet, 0)
  /\ UNCHANGED <<fired, alerts, jobVars, pushIncidents>>

(* The rule does not match, or there is no stop left, or the row is there. *)
NotFired(e) ==
  /\ evalAt[e] = "measured"
  /\ Over(e)
  /\ UNCHANGED <<fired, alerts, jobVars, pushIncidents>>

(* Mutant: the row is not looked for. *)
LookUpAlways(e) ==
  /\ evalAt[e] = "measured"
  /\ ActiveStop # NoStopYet
  /\ Evaluate(e, "looked", ActiveStop, IndexOf(ActiveStop))
  /\ pushIncidents' = pushIncidents
        \cup When(\E d \in Evaluations : evalAt[d] \in {"looked", "queued"}, "at_once")
  /\ UNCHANGED <<fired, alerts, jobVars>>

LookUp(e) ==
  /\ evalAt[e] = "measured"
  /\ ActiveStop # NoStopYet
  /\ IndexOf(ActiveStop) \notin fired
  /\ Evaluate(e, "looked", ActiveStop, IndexOf(ActiveStop))
  /\ pushIncidents' = pushIncidents
        \cup When(\E d \in Evaluations : evalAt[d] \in {"looked", "queued"}, "at_once")
  /\ UNCHANGED <<fired, alerts, jobVars>>

(* A job is added to the queue. *)
Enqueue(j, s) ==
  /\ job[j] = "none"
  /\ job' = [job EXCEPT ![j] = "waiting"]
  /\ sort' = [sort EXCEPT ![j] = s]
  /\ UNCHANGED <<tries, sent, kept>>

(* The push first; then the messages, for which a phone number is needed. *)
QueueAlert(e, j, phone) ==
  /\ evalAt[e] = "looked"
  /\ Enqueue(j, "whole")
  /\ alerts' = [alerts EXCEPT ![evalStop[e]] = @ + 1]
  /\ IF phone
       THEN Evaluate(e, "queued", evalStop[e], evalIndex[e])
       ELSE Over(e)
  /\ pushIncidents' = pushIncidents \cup When(~phone, "no_phone")
  /\ UNCHANGED fired

(* The row's index is the one that was read; a second row fails. *)
MarkFired(e) ==
  /\ evalAt[e] = "queued"
  /\ fired' = fired \cup {evalIndex[e]}
  /\ Over(e)
  /\ UNCHANGED <<alerts, jobVars, pushIncidents>>

CutShort(e) ==
  /\ evalAt[e] \in {"looked", "queued"}
  /\ Over(e)
  /\ pushIncidents' = pushIncidents \cup When(evalAt[e] = "queued", "cut_short")
  /\ UNCHANGED <<fired, alerts, jobVars>>

(* The rider completes a stop, or the customer skips it. *)
PassStop(s) ==
  /\ s \notin passed
  /\ passed' = passed \cup {s}
  /\ UNCHANGED <<route, fired, alerts, evalAt, evalStop, evalIndex, jobVars, pushIncidents>>

(* reorderStops *)
Reorder(r) ==
  /\ r # route
  /\ route' = r
  /\ pushIncidents' = pushIncidents \cup {"reordered"}
  /\ UNCHANGED <<passed, fired, alerts, evalAt, evalStop, evalIndex, jobVars>>

-----------------------------------------------------------------------------
(* The queue *)

(* The other callers: most of their pushes carry no data. *)
QueuePush(j, s) ==
  /\ Enqueue(j, s)
  /\ UNCHANGED <<ruleVars, pushIncidents>>

Send(j) ==
  /\ job[j] = "waiting"
  /\ job' = [job EXCEPT ![j] = "sent"]
  /\ tries' = [tries EXCEPT ![j] = @ + 1]
  /\ sent' = [sent EXCEPT ![j] = @ + 1]
  /\ UNCHANGED <<ruleVars, sort, kept, pushIncidents>>

Keep(j) ==
  /\ job[j] = "sent"
  /\ sort[j] = "whole"
  /\ job' = [job EXCEPT ![j] = "done"]
  /\ kept' = [kept EXCEPT ![j] = @ + 1]
  /\ UNCHANGED <<ruleVars, sort, tries, sent, pushIncidents>>

(* The row cannot be made, or the database fails: the job is attempted      *)
(* again, from the send.                                                   *)
Throw(j) ==
  /\ job[j] = "sent"
  /\ job' = [job EXCEPT ![j] = IF tries[j] < Attempts THEN "waiting" ELSE "failed"]
  /\ pushIncidents' = pushIncidents \cup When(sort[j] = "whole", "trouble")
  /\ UNCHANGED <<ruleVars, sort, tries, sent, kept>>

-----------------------------------------------------------------------------
PushesNext ==
  \/ \E e \in Evaluations :
       \/ Measure(e) \/ NotFired(e) \/ LookUp(e) \/ MarkFired(e) \/ CutShort(e)
       \/ \E j \in Jobs, phone \in BOOLEAN : QueueAlert(e, j, phone)
  \/ \E s \in RouteStops : PassStop(s)
  \/ \E r \in Routes : Reorder(r)
  \/ \E j \in Jobs :
       \/ \E s \in {"whole", "bare"} : QueuePush(j, s)
       \/ Send(j) \/ Keep(j) \/ Throw(j)

PushesSpec == PushesInit /\ [][PushesNext]_pushVars

-----------------------------------------------------------------------------
(* Properties *)

(* The rule alerts the customer once for each stop, although stops are      *)
(* passed while it is evaluated, unless evaluations look it up at once, one *)
(* throws or is interrupted between its push and its row, or the stops are  *)
(* given another order.                                                    *)
StopAlertedOnce ==
  {"at_once", "no_phone", "cut_short", "reordered"} \cap pushIncidents = {} =>
    \A s \in RouteStops : /\ alerts[s] <= 1
                          /\ IndexOf(s) \in fired => alerts[s] = 1
=============================================================================
