------------------------------- MODULE MCCheckout -------------------------------
(***************************************************************************)
(* Instances of Checkout.  The checkouts belong to one user, so that they  *)
(* meet in the rate limit, and share one database connection.              *)
(***************************************************************************)
EXTENDS Checkout, TLC

MCUserOf == [c \in Checkouts |-> CHOOSE u \in Users : TRUE]

\* Checkouts are interchangeable; used by runs without liveness only.
Symmetry == Permutations(Checkouts)
================================================================================
