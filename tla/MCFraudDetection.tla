---------------------------- MODULE MCFraudDetection ----------------------------
(***************************************************************************)
(* Two checks at a time, of one user or of two, who may make two checks in *)
(* a window; counts go up to four, two above the limit.  The invariants    *)
(* are proved for every number of checks in FraudDetectionProofs.          *)
(***************************************************************************)
EXTENDS FraudDetection
================================================================================
