-------------------------------- MODULE Checkout --------------------------------
(***************************************************************************)
(* The checkout flow: api-gateway, the checkout service, and the services  *)
(* it calls in order (environment/services/checkout/main.go,               *)
(* api-gateway/main.go):                                                   *)
(*   1. cart from Redis       2. pricing-service    3. fraud-detection     *)
(*   4. payments-api          5. billing-service    6. order to Kafka      *)
(* Steps 1, 2, 3 and 5 go on when the service called is down; only "high"  *)
(* from step 3 and anything but 200 from step 4 end the handler.  The      *)
(* calls carry the context of the incoming request, which ends when        *)
(* api-gateway gives up, and each has a timeout of its own.  What a        *)
(* service called has begun goes on when its caller has given up:          *)
(* PaymentsApi and Billing are running beside the handler.                 *)
(* Amounts, cart and price contents are data no guard below depends on and *)
(* are left out.                                                           *)
(***************************************************************************)
EXTENDS Naturals, FiniteSets

CONSTANTS
  Checkouts,    \* checkout ids: 48 random bits, taken to be distinct
  Users,
  UserOf,       \* the user a checkout is for
  MaxConns,     \* connections of the payments database pool
  RateLimit,    \* fraud checks of a user per window
  MaxCopies,    \* bound: copies of one order the Kafka client may produce
  MaxCrashes    \* bound: restarts of the checkout pod

ASSUME CheckoutAssumption ==
  /\ UserOf \in [Checkouts -> Users]
  /\ MaxConns \in Nat \ {0}
  /\ RateLimit \in Nat
  /\ MaxCopies \in Nat \ {0}
  /\ MaxCrashes \in Nat

VARIABLES
  pc,           \* where the checkout handler is
  ctxLive,      \* the context of the incoming request has not ended
  result,       \* the terminal label of checkout_outcomes_total
  cutShort,     \* history: step 3 failed because the context had ended
  billTimedOut, \* history: step 5 ended without a response in 5 s
  sent,         \* SendMessage was called for the order
  orders,       \* copies of the order on topic regression-lab-orders
  producer,     \* initKafka connected: kafkaProducer is not nil
  crashes,      \* restarts of the checkout pod so far
  gw,           \* what api-gateway answered
  payReq, running, rows,                      \* PaymentsApi
  bill, ext, extCalls, extCharges, audit,     \* Billing
  rate                                        \* FraudWindow

F == INSTANCE FraudWindow
P == INSTANCE PaymentsApi
B == INSTANCE Billing

handlerVars == <<pc, ctxLive, result, cutShort, billTimedOut>>
kafkaVars == <<sent, orders, producer, crashes>>
payVars == <<payReq, running, rows>>
billOwnVars == <<bill, ext, extCalls, extCharges, audit>>
vars == <<handlerVars, kafkaVars, gw, payVars, billOwnVars, rate>>

Active == {"start", "pricing", "fraud", "pay", "paying", "bill", "billing", "publish"}
PCs == {"idle", "done", "dead"} \cup Active
Results == {"none", "error", "fraud_blocked", "payment_timeout", "payment_error", "success"}

TypeOK ==
  /\ pc \in [Checkouts -> PCs]
  /\ ctxLive \in [Checkouts -> BOOLEAN]
  /\ result \in [Checkouts -> Results]
  /\ cutShort \in [Checkouts -> BOOLEAN]
  /\ billTimedOut \in [Checkouts -> BOOLEAN]
  /\ sent \in [Checkouts -> BOOLEAN]
  /\ orders \in [Checkouts -> Nat]
  /\ producer \in BOOLEAN
  /\ crashes \in Nat
  /\ gw \in [Checkouts -> {"idle", "waiting", "ok", "blocked", "fail", "gaveup"}]
  /\ P!PayTypeOK
  /\ B!BillTypeOK

Init ==
  /\ pc = [c \in Checkouts |-> "idle"]
  /\ ctxLive = [c \in Checkouts |-> TRUE]
  /\ result = [c \in Checkouts |-> "none"]
  /\ cutShort = [c \in Checkouts |-> FALSE]
  /\ billTimedOut = [c \in Checkouts |-> FALSE]
  /\ sent = [c \in Checkouts |-> FALSE]
  /\ orders = [c \in Checkouts |-> 0]
  /\ producer \in BOOLEAN
  /\ crashes = 0
  /\ gw = [c \in Checkouts |-> "idle"]
  /\ P!PayInit
  /\ B!BillInit

Goto(c, from, to) ==
  /\ pc[c] = from
  /\ pc' = [pc EXCEPT ![c] = to]

\* The handler writes its response and counts its outcome.
Finish(c, from, outcome) ==
  /\ pc[c] \in from
  /\ pc' = [pc EXCEPT ![c] = "done"]
  /\ result' = [result EXCEPT ![c] = outcome]

--------------------------------------------------------------------------------

(* Mutants: plausible faults of this code; each one breaks a property below. *)

\* The handler takes payments-api for paid when it does not answer in time.
MutPayTimeoutFailsOpen(c) ==
  /\ Goto(c, "paying", "bill")
  /\ UNCHANGED <<ctxLive, result, cutShort, billTimedOut, kafkaVars, gw, payVars, billOwnVars, rate>>

\* The payment is retried when payments-api does not answer in time.
MutPayTimeoutRetries(c) ==
  /\ Goto(c, "paying", "pay")
  /\ payReq' = [payReq EXCEPT ![c] = "idle"]
  /\ UNCHANGED <<ctxLive, result, cutShort, billTimedOut, kafkaVars, gw, running, rows, billOwnVars, rate>>

\* The fraud check runs beside the payment instead of before it.
MutPayBesideFraud(c) ==
  /\ pc[c] \in {"fraud", "pay"}
  /\ pc' = [pc EXCEPT ![c] = IF @ = "pay" THEN "paying" ELSE @]
  /\ ctxLive[c]
  /\ P!Send(c)
  /\ UNCHANGED <<ctxLive, result, cutShort, billTimedOut, kafkaVars, gw, billOwnVars, rate>>

\* The payment is sent with a context of its own, as other services send their
\* fire-and-forget calls.
MutPayOwnContext(c) ==
  /\ Goto(c, "pay", "paying")
  /\ P!Send(c)
  /\ UNCHANGED <<ctxLive, result, cutShort, billTimedOut, kafkaVars, gw, billOwnVars, rate>>

\* A payments-api error falls through to the success response.
MutPayErrorFallsThrough(c) ==
  /\ payReq[c] = "err"
  /\ Finish(c, {"paying"}, "success")
  /\ UNCHANGED <<ctxLive, cutShort, billTimedOut, kafkaVars, gw, payVars, billOwnVars, rate>>

\* The order is published as soon as the handler starts the payment.
MutOrderFirst(c) ==
  /\ pc[c] \in {"pay", "paying", "publish"}
  /\ producer
  /\ ~ sent[c]
  /\ sent' = [sent EXCEPT ![c] = TRUE]
  /\ UNCHANGED <<handlerVars, orders, producer, crashes, gw, payVars, billOwnVars, rate>>

\* The billing call has no timeout and is not tied to the request's context.
MutBillNoTimeout(c) ==
  /\ FALSE
  /\ UNCHANGED vars

--------------------------------------------------------------------------------

(* api-gateway *)

\* checkoutHandler of api-gateway calls checkout through proxyRequest.
GwSend(c) ==
  /\ gw[c] = "idle"
  /\ gw' = [gw EXCEPT ![c] = "waiting"]
  /\ UNCHANGED <<handlerVars, kafkaVars, payVars, billOwnVars, rate>>

\* proxyRequest forwards the status of checkout's response.
GwForward(c) ==
  /\ gw[c] = "waiting"
  /\ pc[c] = "done"
  /\ gw' = [gw EXCEPT ![c] = IF result[c] = "success" THEN "ok"
                             ELSE IF result[c] = "fraud_blocked" THEN "blocked"
                             ELSE "fail"]
  /\ UNCHANGED <<handlerVars, kafkaVars, payVars, billOwnVars, rate>>

\* The 10 s deadline of proxyRequest passes (504), its own caller goes away, or
\* the connection to checkout breaks (502).
GwGiveUp(c) ==
  /\ gw[c] = "waiting"
  /\ gw' = [gw EXCEPT ![c] = "gaveup"]
  /\ UNCHANGED <<handlerVars, kafkaVars, payVars, billOwnVars, rate>>

--------------------------------------------------------------------------------

(* The checkout handler *)

Begin(c) ==
  /\ gw[c] # "idle"
  /\ Goto(c, "idle", "start")
  /\ UNCHANGED <<ctxLive, result, cutShort, billTimedOut, kafkaVars, gw, payVars, billOwnVars, rate>>

\* The HTTP server notices that the caller has closed the connection and ends
\* r.Context(), at any time after it did.
CtxEnds(c) ==
  /\ gw[c] = "gaveup"
  /\ pc[c] \in Active
  /\ ctxLive[c]
  /\ ctxLive' = [ctxLive EXCEPT ![c] = FALSE]
  /\ UNCHANGED <<pc, result, cutShort, billTimedOut, kafkaVars, gw, payVars, billOwnVars, rate>>

InjectedError(c) ==
  /\ Finish(c, {"start"}, "error")
  /\ UNCHANGED <<ctxLive, cutShort, billTimedOut, kafkaVars, gw, payVars, billOwnVars, rate>>

\* Step 1, on a context of its own bounded by 2 s; Redis decides nothing.
ReadCart(c) ==
  /\ Goto(c, "start", "pricing")
  /\ UNCHANGED <<ctxLive, result, cutShort, billTimedOut, kafkaVars, gw, payVars, billOwnVars, rate>>

\* Step 2: with or without an answer from pricing-service.
Price(c) ==
  /\ Goto(c, "pricing", "fraud")
  /\ UNCHANGED <<ctxLive, result, cutShort, billTimedOut, kafkaVars, gw, payVars, billOwnVars, rate>>

\* Step 3, answered "low" or "medium": the count lets the check pass, or Redis failed.
FraudLow(c) ==
  /\ ctxLive[c]
  /\ Goto(c, "fraud", "pay")
  /\ F!CheckLow(UserOf[c]) \/ F!CheckUnheard(UserOf[c])
  /\ UNCHANGED <<ctxLive, result, cutShort, billTimedOut, kafkaVars, gw, payVars, billOwnVars>>

\* Step 3, answered "high": 403.
FraudHigh(c) ==
  /\ ctxLive[c]
  /\ Finish(c, {"fraud"}, "fraud_blocked")
  /\ F!CheckHigh(UserOf[c])
  /\ UNCHANGED <<ctxLive, cutShort, billTimedOut, kafkaVars, gw, payVars, billOwnVars>>

\* Step 3 without a verdict: error status, no answer within 5 s, or the request's
\* context ended before or during the call.  The handler goes on.
FraudUnavailable(c) ==
  /\ Goto(c, "fraud", "pay")
  /\ cutShort' = [cutShort EXCEPT ![c] = ~ ctxLive[c]]
  /\ F!CheckUnheard(UserOf[c])
  /\ UNCHANGED <<ctxLive, result, billTimedOut, kafkaVars, gw, payVars, billOwnVars>>

\* Step 4: http.Transport sends nothing for a context that has ended.
PaySend(c) ==
  /\ ctxLive[c]
  /\ Goto(c, "pay", "paying")
  /\ P!Send(c)
  /\ UNCHANGED <<ctxLive, result, cutShort, billTimedOut, kafkaVars, gw, billOwnVars, rate>>

PayOk(c) ==
  /\ payReq[c] = "ok"
  /\ Goto(c, "paying", "bill")
  /\ UNCHANGED <<ctxLive, result, cutShort, billTimedOut, kafkaVars, gw, payVars, billOwnVars, rate>>

\* Any other status: 502.
PayNot200(c) ==
  /\ payReq[c] = "err"
  /\ Finish(c, {"paying"}, "payment_error")
  /\ UNCHANGED <<ctxLive, cutShort, billTimedOut, kafkaVars, gw, payVars, billOwnVars, rate>>

\* paymentsTimeout passes without a response: 503.
PayTimeout(c) ==
  /\ Finish(c, {"paying"}, "payment_timeout")
  /\ UNCHANGED <<ctxLive, cutShort, billTimedOut, kafkaVars, gw, payVars, billOwnVars, rate>>

\* No connection, a broken connection, or the request's context ended: 500.
PayBroken(c) ==
  /\ Finish(c, {"pay", "paying"}, "payment_error")
  /\ UNCHANGED <<ctxLive, cutShort, billTimedOut, kafkaVars, gw, payVars, billOwnVars, rate>>

\* Step 5.
BillSend(c) ==
  /\ ctxLive[c]
  /\ Goto(c, "bill", "billing")
  /\ B!Send(c)
  /\ UNCHANGED <<ctxLive, result, cutShort, billTimedOut, kafkaVars, gw, payVars>>

\* Whatever the status, the handler goes on.
BillAnswered(c) ==
  /\ bill[c] \in {"ok", "blocked", "failed"}
  /\ Goto(c, "billing", "publish")
  /\ UNCHANGED <<ctxLive, result, cutShort, billTimedOut, kafkaVars, gw, payVars, billOwnVars, rate>>

\* 5 s without a response, a connection error, or the request's context ended.
BillGiveUp(c) ==
  /\ Goto(c, "billing", "publish")
  /\ \E timeout \in BOOLEAN : billTimedOut' = [billTimedOut EXCEPT ![c] = timeout]
  /\ UNCHANGED <<ctxLive, result, cutShort, kafkaVars, gw, payVars, billOwnVars, rate>>

\* No connection to billing-service, or the context has ended already.
BillUnsent(c) ==
  /\ Goto(c, "bill", "publish")
  /\ UNCHANGED <<ctxLive, result, cutShort, billTimedOut, kafkaVars, gw, payVars, billOwnVars, rate>>

\* Step 6: SendMessage takes no context; it returns when the broker has answered
\* or its retries are used up.
SendOrder(c) ==
  /\ pc[c] = "publish"
  /\ producer
  /\ ~ sent[c]
  /\ sent' = [sent EXCEPT ![c] = TRUE]
  /\ UNCHANGED <<handlerVars, orders, producer, crashes, gw, payVars, billOwnVars, rate>>

\* An error of SendMessage is logged and no more.
Succeed(c) ==
  /\ producer => sent[c]
  /\ Finish(c, {"publish"}, "success")
  /\ UNCHANGED <<ctxLive, cutShort, billTimedOut, kafkaVars, gw, payVars, billOwnVars, rate>>

--------------------------------------------------------------------------------

(* Kafka and the pod *)

\* The broker appends a produce request: an attempt may arrive more than once
\* when its acknowledgement is lost, and after the sender has given up.
BrokerAppend(c) ==
  /\ sent[c]
  /\ orders[c] < MaxCopies
  /\ orders' = [orders EXCEPT ![c] = @ + 1]
  /\ UNCHANGED <<handlerVars, sent, producer, crashes, gw, payVars, billOwnVars, rate>>

\* The checkout pod restarts: its handlers are gone, and initKafka connects or
\* leaves kafkaProducer nil until the next restart.
Crash ==
  /\ crashes < MaxCrashes
  /\ crashes' = crashes + 1
  /\ pc' = [c \in Checkouts |-> IF pc[c] \in Active THEN "dead" ELSE pc[c]]
  /\ producer' \in BOOLEAN
  /\ UNCHANGED <<ctxLive, result, cutShort, billTimedOut, sent, orders, gw, payVars, billOwnVars, rate>>

PaymentsStep(c) ==
  /\ P!PayServerStep(c)
  /\ UNCHANGED <<handlerVars, kafkaVars, gw, billOwnVars, rate>>

BillingStep(c) ==
  /\ B!BillServerStep(c)
  /\ UNCHANGED <<handlerVars, kafkaVars, gw, payVars>>

WindowEnds(u) ==
  /\ F!WindowEnds(u)
  /\ UNCHANGED <<handlerVars, kafkaVars, gw, payVars, billOwnVars>>

--------------------------------------------------------------------------------

GatewayStep(c) == GwSend(c) \/ GwForward(c) \/ GwGiveUp(c)

HandlerStep(c) ==
  \/ InjectedError(c) \/ ReadCart(c) \/ Price(c)
  \/ FraudLow(c) \/ FraudHigh(c) \/ FraudUnavailable(c)
  \/ PaySend(c) \/ PayOk(c) \/ PayNot200(c) \/ PayTimeout(c) \/ PayBroken(c)
  \/ BillSend(c) \/ BillAnswered(c) \/ BillGiveUp(c) \/ BillUnsent(c)
  \/ SendOrder(c) \/ Succeed(c)

Next ==
  \/ \E c \in Checkouts :
       \/ GatewayStep(c) \/ Begin(c) \/ CtxEnds(c) \/ HandlerStep(c)
       \/ BrokerAppend(c) \/ PaymentsStep(c) \/ BillingStep(c)
  \/ \E u \in Users : WindowEnds(u)
  \/ Crash

Spec == Init /\ [][Next]_vars

\* The handler and the gateway are scheduled and all their calls carry timers.
\* Nothing is assumed of the services they call, of Kafka, or of the network.
Fairness == \A c \in Checkouts : WF_vars(HandlerStep(c)) /\ WF_vars(GwForward(c) \/ GwGiveUp(c))

FairSpec == Spec /\ Fairness

--------------------------------------------------------------------------------

(* What the flow promises *)

\* A checkout is charged at most once: one row of table payments, counting the
\* statement that may still commit, and one charge at external-payment-api,
\* through client timeouts, restarts and callers that give up.
ChargedAtMostOnce == P!AtMostOneRow /\ B!ChargedOnce

\* An order on the topic, a charge at external-payment-api and a billing event
\* all follow a payment that is committed: steps 5 and 6 are reached only past
\* step 4.
MoneyTrail ==
  \A c \in Checkouts :
    orders[c] > 0 \/ extCharges[c] > 0 \/ audit[c] > 0 => rows[c] = 1

\* A checkout that was answered 403 is not charged, now or later: nothing it
\* started can still commit a payment, charge it or publish its order.
BlockedNeverCharged ==
  \A c \in Checkouts :
    result[c] = "fraud_blocked" =>
      /\ rows[c] = 0 /\ running[c] = 0 /\ payReq[c] = "idle"
      /\ extCharges[c] = 0 /\ orders[c] = 0 /\ ~ sent[c]

\* Giving up on a checkout is no way around the fraud check: when the check was
\* cut short by the end of the request's context, no payment is requested, since
\* the payment carries the same context.
CancelNeverBypassesFraud ==
  \A c \in Checkouts : cutShort[c] => payReq[c] = "idle"

\* The gateway's caller is told 200 only for a committed payment, and 403 only
\* for a checkout without one.
ToldTheTruth ==
  \A c \in Checkouts :
    /\ gw[c] = "ok" => rows[c] = 1
    /\ gw[c] = "blocked" => rows[c] + running[c] = 0

\* A payment is committed while the handler waits for it, or behind the back of
\* one that gave up or died; never once the handler has gone past step 4 with a
\* 200, and never before it got there.
CommitInDoubtOnly ==
  [][\A c \in Checkouts :
       rows'[c] > rows[c] =>
         \/ pc[c] \in {"paying", "dead"}
         \/ result[c] \in {"payment_timeout", "payment_error"}]_vars

\* Every handler that began ends, whatever the services it calls do: each of its
\* calls has a timeout.
HandlerEnds == \A c \in Checkouts : pc[c] = "start" ~> pc[c] \in {"done", "dead"}

\* Scenario 09 (scenarios/09-billing-missing-timeout/README.md:49) says that when
\* checkout's call of billing-service times out, "checkout requests error out on
\* the billing leg".
BillingTimeoutFailsCheckout ==
  \A c \in Checkouts : billTimedOut[c] => result[c] # "success"

--------------------------------------------------------------------------------

(* Checkout implements OrderLedger *)

LedgerState ==
  [c \in Checkouts |->
     IF result[c] = "fraud_blocked" THEN "blocked"
     ELSE IF orders[c] > 0 THEN "ordered"
     ELSE IF rows[c] > 0 THEN "paid"
     ELSE "open"]

LedgerTold ==
  [c \in Checkouts |->
     IF gw[c] = "ok" THEN "paid"
     ELSE IF gw[c] = "blocked" THEN "blocked"
     ELSE IF gw[c] \in {"fail", "gaveup"} THEN "unknown"
     ELSE "nothing"]

Ledger == INSTANCE OrderLedger WITH state <- LedgerState, told <- LedgerTold

\* Whatever times out, breaks or restarts, the flow is an order ledger: paid or
\* blocked but not both, ordered only after paid, and the buyer told "paid" or
\* "blocked" only when it is so.
ImplementsLedger == Ledger!LedgerSpec

--------------------------------------------------------------------------------

(* The inductive invariant behind the properties above *)

\* How far the payment is, by where the handler is and what it ended with.
HandlerInv ==
  \A c \in Checkouts :
    /\ pc[c] \in {"idle", "start", "pricing", "fraud", "pay"} => payReq[c] = "idle"
    /\ pc[c] \in {"bill", "billing", "publish"} => payReq[c] = "ok"
    /\ pc[c] # "done" <=> result[c] = "none"
    /\ result[c] \in {"error", "fraud_blocked"} => payReq[c] = "idle"
    /\ result[c] = "success" => payReq[c] = "ok"

\* Billing and publishing come after the 200 of payments-api.
OrderInv ==
  \A c \in Checkouts :
    /\ bill[c] # "idle" => payReq[c] = "ok"
    /\ sent[c] => payReq[c] = "ok"
    /\ orders[c] > 0 => sent[c]
    /\ pc[c] \in {"idle", "start", "pricing", "fraud", "pay", "paying", "bill"} => bill[c] = "idle"

\* A context that has ended stays so, and nothing is sent with it.
ContextInv == \A c \in Checkouts : cutShort[c] => ~ ctxLive[c] /\ payReq[c] = "idle"

\* api-gateway repeats the outcome of the handler.
GatewayInv ==
  \A c \in Checkouts :
    /\ gw[c] = "ok" => result[c] = "success"
    /\ gw[c] = "blocked" => result[c] = "fraud_blocked"

\* The strengthening of the safety properties that every step preserves: what a
\* checkout has done to the database, to the external service and to the topic is
\* fixed by the phase of its payment request and the place of its handler.
IndInv ==
  /\ TypeOK /\ P!PayInv /\ B!BillInv /\ HandlerInv /\ OrderInv /\ ContextInv /\ GatewayInv
================================================================================
