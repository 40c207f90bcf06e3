-------------------------------- MODULE Award --------------------------------
(***************************************************************************)
(* What the competition promises, without locks, jobs or restarts: riders  *)
(* enter one after the other, each at most once, and the order is awarded  *)
(* once, to a rider who entered, and never moved to another rider.         *)
(* Entering after the award is possible: the close job does not take the   *)
(* lock that the join calls take.                                          *)
(***************************************************************************)
CONSTANTS Riders, NoRider

VARIABLES entrants, holder

Init == entrants = {} /\ holder = NoRider

Enter(r) ==
  /\ r \notin entrants
  /\ entrants' = entrants \cup {r}
  /\ UNCHANGED holder

Win(r) ==
  /\ holder = NoRider
  /\ r \in entrants
  /\ holder' = r
  /\ UNCHANGED entrants

Next == \E r \in Riders : Enter(r) \/ Win(r)

Spec == Init /\ [][Next]_<<entrants, holder>>
==============================================================================
