------------------------------ MODULE Deposit ------------------------------
(***************************************************************************)
(* What the wallet promises for the money a customer pays in: a payment    *)
(* intent is credited only after it was paid, and only once, however often *)
(* and in whatever order the payment service reports what happened to it.  *)
(***************************************************************************)
EXTENDS Naturals, FiniteSets

CONSTANT Intents

VARIABLES
  paidIn,    \* intents the customer has paid
  credited,  \* intents that were credited
  account    \* number of credits made

Init == paidIn = {} /\ credited = {} /\ account = 0

Pay(i) ==
  /\ paidIn' = paidIn \cup {i}
  /\ UNCHANGED <<credited, account>>

Credit(i) ==
  /\ i \in paidIn \ credited
  /\ credited' = credited \cup {i}
  /\ account' = account + 1
  /\ UNCHANGED paidIn

Next == \E i \in Intents : Pay(i) \/ Credit(i)

Spec == Init /\ [][Next]_<<paidIn, credited, account>>
=============================================================================
