------------------------------- MODULE Notices -------------------------------
(***************************************************************************)
(* One notification or promotion of the administrator, from its creation   *)
(* to its removal.  It is sent at once, or by the scheduler when its time  *)
(* has come; the column send_immediately says that it has been sent.  The  *)
(* scheduler runs every ten seconds and nothing keeps two runs apart: a    *)
(* run lists what is due, sends it and then marks it.  An hourly job       *)
(* disables what has expired.  Meanwhile the administrator edits, disables, *)
(* resends and deletes the row.  An edit reads the row and writes all its  *)
(* columns back.                                                           *)
(*                                                                         *)
(* A send throws nothing when a recipient cannot be reached, so it is one  *)
(* step here; the recipients are left out.                                 *)
(***************************************************************************)
EXTENDS Integers, FiniteSets, Incident

CONSTANTS
  SchedulerRuns, \* runs of the scheduler that may go on at once
  Edits,         \* edits that may be in flight at once
  LastTime,      \* bound: times are 0 .. LastTime
  MaxOrdered,    \* bound: sends ordered
  MaxSends       \* bound: sends made before another run may begin

ASSUME NoticesAssumption ==
  /\ SchedulerRuns \cap Edits = {} /\ IsFiniteSet(Edits)
  /\ LastTime \in Nat /\ MaxOrdered \in Nat \ {0} /\ MaxSends \in Nat

VARIABLES
  there,          \* the row exists
  marked,         \* send_immediately
  schedule,       \* schedule_to_send, 0 when it is null
  active,         \* is_active
  expiry,         \* expiry_date, LastTime + 1 when it is null
  now,
  sending,        \* sends of createNotification and resend about to be made
  sends,          \* times it was sent
  ordered,        \* sends the administrator has asked for
  runAt,          \* runAt[r]: "idle", "listed" or "sent"
  edit,           \* edit[e]: the row an edit is about to write, NoEdit if none
  noticeIncidents

noticeRow == <<there, marked, schedule, active, expiry>>
noticeVars == <<noticeRow, now, sending, sends, ordered, runAt, edit, noticeIncidents>>

(*   "overlap"    a run listed the notice while another run was about to    *)
(*                send or mark it                                          *)
(*   "cut_short"  a run or a creation was interrupted after a send, or      *)
(*                before one that the row says was made                    *)
(*   "stale_edit" an edit took the mark back that a run had set meanwhile   *)
(*   "by_hand"    an edit marked a notice that was not sent                 *)
NoticeIncidents == {"overlap", "cut_short", "stale_edit", "by_hand"}

NoEdit == [marked |-> FALSE, schedule |-> 0, active |-> FALSE, forced |-> FALSE, pending |-> FALSE]
Times == 0 .. LastTime

NoticesTypeOK ==
  /\ there \in BOOLEAN /\ marked \in BOOLEAN /\ active \in BOOLEAN
  /\ schedule \in Times /\ now \in Times
  /\ expiry \in 0 .. LastTime + 1
  /\ sending \in Nat /\ sends \in Nat
  /\ ordered \in 0 .. MaxOrdered
  /\ runAt \in [SchedulerRuns -> {"idle", "listed", "sent"}]
  /\ edit \in [Edits -> [marked : BOOLEAN, schedule : Times, active : BOOLEAN,
                         forced : BOOLEAN, pending : BOOLEAN]]
  /\ noticeIncidents \subseteq NoticeIncidents

(* createNotification and createPromotion: the row is made and, if it is to *)
(* be sent at once, marked and then sent.                                  *)
NoticesInit ==
  /\ there = TRUE /\ active = TRUE
  /\ expiry \in 1 .. LastTime + 1
  /\ \/ marked = TRUE /\ sending = 1 /\ schedule = 0
     \/ marked = FALSE /\ sending = 0 /\ schedule \in 1 .. LastTime
  /\ ordered = 1
  /\ now = 0
  /\ sends = 0
  /\ runAt = [r \in SchedulerRuns |-> "idle"]
  /\ edit = [e \in Edits |-> NoEdit]
  /\ noticeIncidents = {}

-----------------------------------------------------------------------------
(* handleScheduledNotifications *)

Due == there /\ active /\ ~marked /\ schedule # 0 /\ schedule <= now

(* Mutant: what was sent is not left out. *)
ListDueMarked(r) ==
  /\ runAt[r] = "idle"
  /\ sends < MaxSends
  /\ there /\ active /\ schedule # 0 /\ schedule <= now
  /\ runAt' = [runAt EXCEPT ![r] = "listed"]
  /\ noticeIncidents' = noticeIncidents
        \cup When(\E q \in SchedulerRuns : runAt[q] # "idle", "overlap")
  /\ UNCHANGED <<noticeRow, now, sending, sends, ordered, edit>>

ListDue(r) ==
  /\ runAt[r] = "idle"
  /\ sends < MaxSends
  /\ Due
  /\ runAt' = [runAt EXCEPT ![r] = "listed"]
  /\ noticeIncidents' = noticeIncidents
        \cup When(\E q \in SchedulerRuns : runAt[q] # "idle", "overlap")
  /\ UNCHANGED <<noticeRow, now, sending, sends, ordered, edit>>

SendListed(r) ==
  /\ runAt[r] = "listed"
  /\ runAt' = [runAt EXCEPT ![r] = "sent"]
  /\ sends' = sends + 1
  /\ UNCHANGED <<noticeRow, now, sending, ordered, edit, noticeIncidents>>

(* The update throws when the row was deleted: the run goes on. *)
MarkSent(r) ==
  /\ runAt[r] = "sent"
  /\ marked' = (marked \/ there)
  /\ runAt' = [runAt EXCEPT ![r] = "idle"]
  /\ UNCHANGED <<there, schedule, active, expiry, now, sending, sends, ordered, edit, noticeIncidents>>

(* The recipients cannot be read, or the mark cannot be set, or the process *)
(* dies.                                                                   *)
RunFails(r) ==
  /\ runAt[r] # "idle"
  /\ runAt' = [runAt EXCEPT ![r] = "idle"]
  /\ noticeIncidents' = noticeIncidents \cup When(runAt[r] = "sent", "cut_short")
  /\ UNCHANGED <<noticeRow, now, sending, sends, ordered, edit>>

(* deactivateExpiredPromotions *)
DeactivateExpired ==
  /\ there /\ active /\ expiry <= now
  /\ active' = FALSE
  /\ UNCHANGED <<there, marked, schedule, expiry, now, sending, sends, ordered, runAt, edit, noticeIncidents>>

TimePasses ==
  /\ now < LastTime
  /\ now' = now + 1
  /\ UNCHANGED <<noticeRow, sending, sends, ordered, runAt, edit, noticeIncidents>>

-----------------------------------------------------------------------------
(* The administrator *)

SendNow ==
  /\ sending > 0
  /\ sending' = sending - 1
  /\ sends' = sends + 1
  /\ UNCHANGED <<noticeRow, now, ordered, runAt, edit, noticeIncidents>>

SendFails ==
  /\ sending > 0
  /\ sending' = sending - 1
  /\ noticeIncidents' = noticeIncidents \cup {"cut_short"}
  /\ UNCHANGED <<noticeRow, now, sends, ordered, runAt, edit>>

Resend ==
  /\ there /\ active
  /\ ordered < MaxOrdered
  /\ ordered' = ordered + 1
  /\ sending' = sending + 1
  /\ UNCHANGED <<noticeRow, now, sends, runAt, edit, noticeIncidents>>

(* An edit names a new value (here: of one column) or leaves it as it is.   *)
(* To take the mark back is to order another send.                         *)
EditRead(e, what, to) ==
  LET read == [marked |-> marked, schedule |-> schedule, active |-> active,
               forced |-> what = "marked", pending |-> TRUE]
  IN
  /\ there
  /\ ~edit[e].pending
  /\ IF what = "marked" /\ ~to
       THEN ordered < MaxOrdered /\ ordered' = ordered + 1
       ELSE UNCHANGED ordered
  /\ edit' = [edit EXCEPT ![e] =
       CASE what = "marked"   -> [read EXCEPT !.marked = to]
         [] what = "active"   -> [read EXCEPT !.active = to]
         [] what = "schedule" -> [read EXCEPT !.schedule = to]
         [] what = "text"     -> read]
  /\ UNCHANGED <<noticeRow, now, sending, sends, runAt, noticeIncidents>>

EditWrite(e) ==
  /\ edit[e].pending
  /\ IF there
       THEN /\ marked' = edit[e].marked
            /\ schedule' = edit[e].schedule
            /\ active' = edit[e].active
       ELSE UNCHANGED <<marked, schedule, active>>
  /\ noticeIncidents' = noticeIncidents
        \cup When(marked /\ ~edit[e].marked /\ ~edit[e].forced, "stale_edit")
        \cup When(~marked /\ edit[e].marked, "by_hand")
  /\ edit' = [edit EXCEPT ![e] = NoEdit]
  /\ UNCHANGED <<there, expiry, now, sending, sends, ordered, runAt>>

DisablePromotion ==
  /\ there
  /\ active' = FALSE
  /\ UNCHANGED <<there, marked, schedule, expiry, now, sending, sends, ordered, runAt, edit, noticeIncidents>>

DeleteNotice ==
  /\ there
  /\ there' = FALSE
  /\ UNCHANGED <<marked, schedule, active, expiry, now, sending, sends, ordered, runAt, edit, noticeIncidents>>

-----------------------------------------------------------------------------
NoticesNext ==
  \/ \E r \in SchedulerRuns : ListDue(r) \/ SendListed(r) \/ MarkSent(r) \/ RunFails(r)
  \/ DeactivateExpired \/ TimePasses
  \/ SendNow \/ SendFails \/ Resend
  \/ \E e \in Edits :
       \/ \E to \in BOOLEAN : EditRead(e, "marked", to) \/ EditRead(e, "active", to)
       \/ \E to \in 1 .. LastTime : EditRead(e, "schedule", to)
       \/ EditRead(e, "text", 0)
       \/ EditWrite(e)
  \/ DisablePromotion \/ DeleteNotice

NoticesSpec == NoticesInit /\ [][NoticesNext]_noticeVars

-----------------------------------------------------------------------------
(* Properties *)

(* A notice is sent no more often than the administrator has asked for it,  *)
(* whatever he edits while the scheduler is at work, unless two runs take   *)
(* it, one is interrupted before its mark, or an edit of an older row takes *)
(* the mark back; and a notice that counts as sent was sent, or is about to *)
(* be, unless he marked it himself.                                        *)
SentAsOrdered ==
  /\ {"overlap", "cut_short", "stale_edit"} \cap noticeIncidents = {} =>
       sends + sending <= ordered
  /\ {"cut_short", "by_hand"} \cap noticeIncidents = {} =>
       (there /\ marked => sends + sending > 0)
=============================================================================
