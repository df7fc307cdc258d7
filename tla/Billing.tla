-------------------------------- MODULE Billing --------------------------------
(***************************************************************************)
(* billing-service with the services it charges through:                   *)
(*   billing-service  chargeHandler: fraud check, tax, POST payment-adapter *)
(*   payment-adapter  payHandler: POST external-payment-api                *)
(*   external-payment-api  chargeHandler: the charge                       *)
(* (environment/services/<service>/main.go).  httpPost of these services   *)
(* returns an error only when no HTTP response came back; a response with  *)
(* an error status counts as an answer.  The tax call changes the amount   *)
(* and nothing else, and is left out with the amounts.                     *)
(***************************************************************************)
EXTENDS Naturals

CONSTANTS
  Checkouts,   \* checkout ids, at most one charge request for each
  Users,
  RateLimit,
  UserOf       \* the user a checkout is for

ASSUME BillingAssumption ==
  /\ RateLimit \in Nat
  /\ UserOf \in [Checkouts -> Users]

VARIABLES
  bill,        \* phase of chargeHandler for a checkout
  ext,         \* phase of the request at external-payment-api
  extCalls,    \* requests payment-adapter made to external-payment-api
  extCharges,  \* charges external-payment-api made
  audit,       \* "billing" events handed to the Kafka producer
  rate         \* the rate limit of fraud-detection

billVars == <<bill, ext, extCalls, extCharges, audit, rate>>

F == INSTANCE FraudWindow

BillPhases == {"idle", "sent", "adapter", "paying", "ok", "blocked", "failed"}
ExtPhases == {"idle", "running", "charged", "refused"}

BillTypeOK ==
  /\ bill \in [Checkouts -> BillPhases]
  /\ ext \in [Checkouts -> ExtPhases]
  /\ extCalls \in [Checkouts -> Nat]
  /\ extCharges \in [Checkouts -> Nat]
  /\ audit \in [Checkouts -> Nat]
  /\ F!FraudTypeOK

BillInit ==
  /\ bill = [c \in Checkouts |-> "idle"]
  /\ ext = [c \in Checkouts |-> "idle"]
  /\ extCalls = [c \in Checkouts |-> 0]
  /\ extCharges = [c \in Checkouts |-> 0]
  /\ audit = [c \in Checkouts |-> 0]
  /\ F!FraudInit

Phase(c, from, to) ==
  /\ bill[c] = from
  /\ bill' = [bill EXCEPT ![c] = to]

--------------------------------------------------------------------------------

(* Mutants: plausible faults of this code; each one breaks a property below. *)

\* The 403 is written but the handler does not return and charges.
MutBlockedGoesOn(c) ==
  /\ Phase(c, "sent", "blocked")
  /\ F!CheckHigh(UserOf[c])
  /\ ext' = [ext EXCEPT ![c] = "running"]
  /\ extCalls' = [extCalls EXCEPT ![c] = @ + 1]
  /\ UNCHANGED <<extCharges, audit>>

\* billing-service tries payment-adapter again after an error.
MutRetryAdapter(c) ==
  /\ bill[c] \in {"adapter", "paying"}
  /\ bill' = [bill EXCEPT ![c] = "adapter"]
  /\ UNCHANGED <<ext, extCalls, extCharges, audit, rate>>

\* The audit event is sent before the adapter was called.
MutAuditFirst(c) ==
  /\ Phase(c, "adapter", "paying")
  /\ ext' = [ext EXCEPT ![c] = "running"]
  /\ extCalls' = [extCalls EXCEPT ![c] = @ + 1]
  /\ audit' = [audit EXCEPT ![c] = @ + 1]
  /\ UNCHANGED <<extCharges, rate>>

--------------------------------------------------------------------------------

\* checkout puts POST /billing/charge on the wire.
Send(c) ==
  /\ Phase(c, "idle", "sent")
  /\ UNCHANGED <<ext, extCalls, extCharges, audit, rate>>

\* applyFaultInjection answers 500.
Inject(c) ==
  /\ Phase(c, "sent", "failed")
  /\ UNCHANGED <<ext, extCalls, extCharges, audit, rate>>

\* The fraud check of billing-service counts a second time for the same
\* checkout; "high" ends the handler with 403.
FraudBlocks(c) ==
  /\ Phase(c, "sent", "blocked")
  /\ F!CheckHigh(UserOf[c])
  /\ UNCHANGED <<ext, extCalls, extCharges, audit>>

\* Any other answer, an error status or no answer at all lets the charge go on.
FraudPasses(c) ==
  /\ Phase(c, "sent", "adapter")
  /\ F!CheckLow(UserOf[c]) \/ F!CheckUnheard(UserOf[c])
  /\ UNCHANGED <<ext, extCalls, extCharges, audit>>

\* POST /pay reaches payment-adapter, which calls external-payment-api once.
CallAdapter(c) ==
  /\ Phase(c, "adapter", "paying")
  /\ ext' = [ext EXCEPT ![c] = "running"]
  /\ extCalls' = [extCalls EXCEPT ![c] = @ + 1]
  /\ UNCHANGED <<extCharges, audit, rate>>

\* payment-adapter answers 500 by fault injection before it calls anything.
AdapterFaults(c) ==
  /\ Phase(c, "adapter", "paying")
  /\ UNCHANGED <<ext, extCalls, extCharges, audit, rate>>

\* external-payment-api charges; its handler does not look at its context, so
\* that a caller that has given up does not stop it.
ExtCharge(c) ==
  /\ ext[c] = "running"
  /\ ext' = [ext EXCEPT ![c] = "charged"]
  /\ extCharges' = [extCharges EXCEPT ![c] = @ + 1]
  /\ UNCHANGED <<bill, extCalls, audit, rate>>

\* external-payment-api answers 500 by fault injection, or was never reached.
ExtRefuse(c) ==
  /\ ext[c] = "running"
  /\ ext' = [ext EXCEPT ![c] = "refused"]
  /\ UNCHANGED <<bill, extCalls, extCharges, audit, rate>>

\* payment-adapter has answered: 200 with the charge, 200 with the error body of
\* external-payment-api, 502 after its own 5 s timeout, or an injected 500.  None
\* is an error to httpPost: kafkaSend hands the audit event to the producer, unless
\* there is none, and the outcome is "success".
Settle(c) ==
  /\ Phase(c, "paying", "ok")
  /\ audit' \in {audit, [audit EXCEPT ![c] = @ + 1]}
  /\ UNCHANGED <<ext, extCalls, extCharges, rate>>

\* No response from payment-adapter (refused, 5 s timeout, or the request's
\* context ended because checkout hung up): 502, outcome "payment_failed".
PayFailed(c) ==
  /\ bill[c] \in {"adapter", "paying"}
  /\ bill' = [bill EXCEPT ![c] = "failed"]
  /\ UNCHANGED <<ext, extCalls, extCharges, audit, rate>>

WindowEnds(u) ==
  /\ F!WindowEnds(u)
  /\ UNCHANGED <<bill, ext, extCalls, extCharges, audit>>

BillServerStep(c) ==
  \/ Inject(c) \/ FraudBlocks(c) \/ FraudPasses(c)
  \/ CallAdapter(c) \/ AdapterFaults(c) \/ Settle(c) \/ PayFailed(c)
  \/ ExtCharge(c) \/ ExtRefuse(c)

BillNext ==
  \/ \E c \in Checkouts : Send(c) \/ BillServerStep(c)
  \/ \E u \in Users : WindowEnds(u)

BillSpec == BillInit /\ [][BillNext]_billVars

--------------------------------------------------------------------------------

\* One checkout is charged at most once at external-payment-api: no service on
\* the way repeats a request, and a charge that outlives its caller is the only
\* one there will be.
ChargedOnce == \A c \in Checkouts : extCharges[c] <= 1

\* A checkout that billing-service answers with 403 is never charged externally,
\* now or later, and leaves no billing event.
BlockedNotCharged ==
  \A c \in Checkouts : bill[c] = "blocked" => extCharges[c] = 0 /\ audit[c] = 0 /\ ext[c] # "running"

\* The charge of a checkout, by the phases of billing-service and of the external
\* service.
BillInv ==
  \A c \in Checkouts :
    /\ extCharges[c] = IF ext[c] = "charged" THEN 1 ELSE 0
    /\ bill[c] \in {"idle", "sent", "adapter", "blocked"} => ext[c] = "idle"
    /\ audit[c] <= 1
    /\ audit[c] > 0 => bill[c] = "ok"

\* The strengthening of both safety properties above, which says of a billing event that it
\* stands for a request answered by payment-adapter, and that every step of the
\* billing chain preserves.
BillIndInv == BillTypeOK /\ BillInv
================================================================================
