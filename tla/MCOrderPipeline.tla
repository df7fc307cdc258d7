---------------------------- MODULE MCOrderPipeline ----------------------------
(***************************************************************************)
(* Instances of OrderPipeline: one pod of each service, and a second pod   *)
(* of orders-service, which the deployments scale out.                     *)
(***************************************************************************)
EXTENDS OrderPipeline

CONSTANTS p1, p2, p3, p4

OnePodEach == [p \in Pods |-> IF p = p1 THEN "orders" ELSE IF p = p2 THEN "inventory" ELSE "shipping"]

TwoOrdersPods == [p \in Pods |-> IF p \in {p1, p4} THEN "orders" ELSE IF p = p2 THEN "inventory" ELSE "shipping"]
================================================================================
