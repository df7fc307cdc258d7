------------------------------- MODULE MCBilling -------------------------------
(***************************************************************************)
(* Two checkouts of one user and a rate limit of one check per window, so  *)
(* that the second charge can be blocked, pass because the window ended,   *)
(* or pass because fraud-detection did not answer.                         *)
(***************************************************************************)
EXTENDS Billing

MCUserOf == [c \in Checkouts |-> CHOOSE u \in Users : TRUE]
================================================================================
