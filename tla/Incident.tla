------------------------------ MODULE Incident ------------------------------
(***************************************************************************)
(* What the modules share to record incidents: the irregular things that   *)
(* have happened so far in a behaviour.  No code reads them; an invariant  *)
(* names the incidents it does not survive.                                *)
(***************************************************************************)

(* The incident "what", when the condition holds. *)
When(condition, what) == IF condition THEN {what} ELSE {}
=============================================================================
