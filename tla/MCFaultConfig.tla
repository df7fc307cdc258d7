----------------------------- MODULE MCFaultConfig -----------------------------
(***************************************************************************)
(* Three handlers: a POST can find another POST and a request in its way,  *)
(* and two requests can overlap for ever while a POST waits.  Each         *)
(* parameter is posted or left as it is, the rate out of range.            *)
(***************************************************************************)
EXTENDS FaultConfig

MCLatencies == {1}
MCErrorRates == {2}
================================================================================
