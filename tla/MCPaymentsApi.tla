----------------------------- MODULE MCPaymentsApi -----------------------------
(***************************************************************************)
(* Three checkouts compete for a pool of two connections, so that a        *)
(* request can find every connection taken, and a statement whose handler  *)
(* gave up can still be running while its connection is used by another.   *)
(***************************************************************************)
EXTENDS PaymentsApi
================================================================================
