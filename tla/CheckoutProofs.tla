----------------------------- MODULE CheckoutProofs -----------------------------
(***************************************************************************)
(* The safety of the checkout flow for every set of checkouts and users,   *)
(* every pool size, rate limit and number of restarts.                     *)
(***************************************************************************)
EXTENDS Checkout, TLAPS

LEMMA InitIndInv == Init => IndInv
  BY CheckoutAssumption
  DEF Init, IndInv, TypeOK, PCs, Results, HandlerInv, OrderInv, ContextInv, GatewayInv,
      P!PayInit, P!PayTypeOK, P!PayPhases, P!PayInv,
      B!BillInit, B!BillTypeOK, B!BillPhases, B!ExtPhases, B!BillInv,
      B!F!FraudInit, B!F!FraudTypeOK

\* A fraud check keeps the count within its range, with or without a verdict.
LEMMA RateStays ==
  ASSUME NEW u \in Users, rate \in [Users -> 0..RateLimit + 1],
         F!CheckLow(u) \/ F!CheckHigh(u) \/ F!CheckUnheard(u)
  PROVE  rate' \in [Users -> 0..RateLimit + 1]
  BY CheckoutAssumption DEF F!CheckLow, F!CheckHigh, F!CheckUnheard, F!Count, F!Counted, F!Attempts

\* Each group of steps preserves the invariant: what a step does to the payment,
\* the charge or the order of a checkout is allowed by where its handler is.
LEMMA GatewayPreserves ==
  ASSUME IndInv, NEW c \in Checkouts, GatewayStep(c) \/ Begin(c) \/ CtxEnds(c)
  PROVE  IndInv'
<1> USE DEF IndInv, TypeOK, Active, PCs, Results, HandlerInv, OrderInv, ContextInv, GatewayInv,
            P!PayTypeOK, P!PayInv, B!BillTypeOK, B!BillInv, B!F!FraudTypeOK,
            Goto, Finish, kafkaVars, handlerVars, payVars, billOwnVars
<1>1. CASE GwSend(c)
  BY <1>1 DEF GwSend
<1>2. CASE GwForward(c)
  BY <1>2 DEF GwForward
<1>3. CASE GwGiveUp(c)
  BY <1>3 DEF GwGiveUp
<1>4. CASE Begin(c)
  BY <1>4 DEF Begin
<1>5. CASE CtxEnds(c)
  BY <1>5 DEF CtxEnds
<1> QED
  BY <1>1, <1>2, <1>3, <1>4, <1>5 DEF GatewayStep

LEMMA HandlerPreserves ==
  ASSUME IndInv, NEW c \in Checkouts, HandlerStep(c)
  PROVE  IndInv'
<1> USE CheckoutAssumption
    DEF IndInv, TypeOK, Active, PCs, Results, HandlerInv, OrderInv, ContextInv, GatewayInv,
        P!PayTypeOK, P!PayInv, P!PayPhases, B!BillTypeOK, B!BillInv, B!BillPhases, B!F!FraudTypeOK,
        Goto, Finish, kafkaVars, handlerVars, payVars, billOwnVars
<1>1. CASE InjectedError(c)
  BY <1>1 DEF InjectedError
<1>2. CASE ReadCart(c) \/ Price(c)
  BY <1>2 DEF ReadCart, Price
<1>3. CASE FraudLow(c) \/ FraudHigh(c) \/ FraudUnavailable(c)
  <2>1. rate' \in [Users -> 0..RateLimit + 1]
    BY <1>3, RateStays DEF FraudLow, FraudHigh, FraudUnavailable
  <2>2. CASE FraudLow(c)
    BY <2>1, <2>2 DEF FraudLow
  <2>3. CASE FraudHigh(c)
    BY <2>1, <2>3 DEF FraudHigh
  <2>4. CASE FraudUnavailable(c)
    BY <2>1, <2>4 DEF FraudUnavailable
  <2> QED
    BY <1>3, <2>2, <2>3, <2>4
<1>4. CASE PaySend(c)
  BY <1>4 DEF PaySend, P!Send
<1>5. CASE PayOk(c)
  BY <1>5 DEF PayOk
<1>6. CASE PayNot200(c) \/ PayTimeout(c) \/ PayBroken(c)
  BY <1>6 DEF PayNot200, PayTimeout, PayBroken
<1>7. CASE BillSend(c)
  BY <1>7 DEF BillSend, B!Send, B!Phase
<1>8. CASE BillAnswered(c) \/ BillGiveUp(c) \/ BillUnsent(c)
  BY <1>8 DEF BillAnswered, BillGiveUp, BillUnsent
<1>9. CASE SendOrder(c)
  BY <1>9 DEF SendOrder
<1>10. CASE Succeed(c)
  BY <1>10 DEF Succeed
<1> QED
  BY <1>1, <1>2, <1>3, <1>4, <1>5, <1>6, <1>7, <1>8, <1>9, <1>10 DEF HandlerStep

LEMMA PaymentsPreserves ==
  ASSUME IndInv, NEW c \in Checkouts, PaymentsStep(c)
  PROVE  IndInv'
<1> USE DEF PaymentsStep, IndInv, TypeOK, HandlerInv, OrderInv, ContextInv, GatewayInv,
            P!PayTypeOK, P!PayInv, P!PayPhases, B!BillTypeOK, B!BillInv, B!F!FraudTypeOK,
            kafkaVars, handlerVars, billOwnVars
<1>1. CASE P!Receive(c)
  BY <1>1 DEF P!Receive
<1>2. CASE P!Acquire(c)
  BY <1>2 DEF P!Acquire
<1>3. CASE P!Commit(c)
  BY <1>3 DEF P!Commit
<1>4. CASE P!Abort(c)
  BY <1>4 DEF P!Abort
<1>5. CASE P!Answer(c)
  BY <1>5 DEF P!Answer
<1>6. CASE P!Fail(c)
  BY <1>6 DEF P!Fail
<1> QED
  BY <1>1, <1>2, <1>3, <1>4, <1>5, <1>6 DEF P!PayServerStep

LEMMA BillingPreserves ==
  ASSUME IndInv, NEW c \in Checkouts, BillingStep(c)
  PROVE  IndInv'
<1> USE CheckoutAssumption
    DEF BillingStep, IndInv, TypeOK, HandlerInv, OrderInv, ContextInv, GatewayInv,
        P!PayTypeOK, P!PayInv, B!BillTypeOK, B!BillInv, B!BillPhases, B!ExtPhases,
        B!Phase, B!F!FraudTypeOK, kafkaVars, handlerVars, payVars
<1>1. CASE B!Inject(c)
  BY <1>1 DEF B!Inject
<1>2. CASE B!FraudBlocks(c) \/ B!FraudPasses(c)
  <2>1. rate' \in [Users -> 0..RateLimit + 1]
    BY <1>2 DEF B!FraudBlocks, B!FraudPasses, B!F!CheckLow, B!F!CheckHigh, B!F!CheckUnheard,
                  B!F!Count, B!F!Counted, B!F!Attempts
  <2>2. CASE B!FraudBlocks(c)
    BY <2>1, <2>2 DEF B!FraudBlocks
  <2>3. CASE B!FraudPasses(c)
    BY <2>1, <2>3 DEF B!FraudPasses
  <2> QED
    BY <1>2, <2>2, <2>3
<1>3. CASE B!CallAdapter(c) \/ B!AdapterFaults(c)
  BY <1>3 DEF B!CallAdapter, B!AdapterFaults
<1>4. CASE B!Settle(c)
  BY <1>4 DEF B!Settle
<1>5. CASE B!PayFailed(c)
  BY <1>5 DEF B!PayFailed
<1>6. CASE B!ExtCharge(c) \/ B!ExtRefuse(c)
  BY <1>6 DEF B!ExtCharge, B!ExtRefuse
<1> QED
  BY <1>1, <1>2, <1>3, <1>4, <1>5, <1>6 DEF B!BillServerStep

LEMMA OutsidePreserves ==
  ASSUME IndInv, Crash \/ (\E c \in Checkouts : BrokerAppend(c)) \/ (\E u \in Users : WindowEnds(u))
  PROVE  IndInv'
<1> USE DEF IndInv, TypeOK, Active, PCs, Results, HandlerInv, OrderInv, ContextInv, GatewayInv,
            P!PayTypeOK, P!PayInv, B!BillTypeOK, B!BillInv, B!F!FraudTypeOK,
            kafkaVars, handlerVars, payVars, billOwnVars
<1>1. CASE Crash
  BY <1>1 DEF Crash
<1>2. ASSUME NEW c \in Checkouts, BrokerAppend(c) PROVE IndInv'
  BY <1>2 DEF BrokerAppend
<1>3. ASSUME NEW u \in Users, WindowEnds(u) PROVE IndInv'
  BY <1>3, CheckoutAssumption DEF WindowEnds, F!WindowEnds
<1> QED
  BY <1>1, <1>2, <1>3

LEMMA NextPreservesIndInv == IndInv /\ [Next]_vars => IndInv'
<1> SUFFICES ASSUME IndInv, [Next]_vars PROVE IndInv'
  OBVIOUS
<1>1. CASE UNCHANGED vars
  BY <1>1
  DEF vars, IndInv, TypeOK, HandlerInv, OrderInv, ContextInv, GatewayInv,
      P!PayTypeOK, P!PayInv, B!BillTypeOK, B!BillInv, B!F!FraudTypeOK,
      kafkaVars, handlerVars, payVars, billOwnVars
<1> QED
  BY <1>1, GatewayPreserves, HandlerPreserves, PaymentsPreserves, BillingPreserves, OutsidePreserves
  DEF Next

\* The inductive invariant holds of every behaviour.
THEOREM CheckoutInvariant == Spec => []IndInv
  BY InitIndInv, NextPreservesIndInv, PTL DEF Spec

\* One payments row and one external charge per checkout at most, through client
\* timeouts, callers that give up and restarts.
THEOREM CheckoutChargedAtMostOnce == Spec => []ChargedAtMostOnce
<1>1. IndInv => ChargedAtMostOnce
  BY DEF IndInv, TypeOK, ChargedAtMostOnce, P!AtMostOneRow, P!PayTypeOK, P!PayPhases, P!PayInv,
         B!ChargedOnce, B!BillTypeOK, B!BillInv
<1> QED
  BY <1>1, CheckoutInvariant, PTL

\* Orders, external charges and billing events all follow a committed payment.
THEOREM CheckoutMoneyTrail == Spec => []MoneyTrail
<1>1. IndInv => MoneyTrail
  BY DEF IndInv, TypeOK, MoneyTrail, OrderInv, P!PayInv, P!PayTypeOK,
         B!BillTypeOK, B!BillInv, B!BillPhases
<1> QED
  BY <1>1, CheckoutInvariant, PTL

\* A checkout answered 403 is never charged.
THEOREM CheckoutBlockedNeverCharged == Spec => []BlockedNeverCharged
<1>1. IndInv => BlockedNeverCharged
  BY DEF IndInv, TypeOK, BlockedNeverCharged, HandlerInv, OrderInv, P!PayInv, P!PayTypeOK,
         B!BillTypeOK, B!BillInv, B!BillPhases
<1> QED
  BY <1>1, CheckoutInvariant, PTL

\* A fraud check cut short by the end of the request's context is followed by no
\* payment.
THEOREM CheckoutCancelIsNoBypass == Spec => []CancelNeverBypassesFraud
<1>1. IndInv => CancelNeverBypassesFraud
  BY DEF IndInv, TypeOK, CancelNeverBypassesFraud, ContextInv, HandlerInv, P!PayInv, P!PayTypeOK
<1> QED
  BY <1>1, CheckoutInvariant, PTL

\* The gateway's caller is told 200 or 403 only when it is so.
THEOREM CheckoutAnswers == Spec => []ToldTheTruth
<1>1. IndInv => ToldTheTruth
  BY DEF IndInv, TypeOK, ToldTheTruth, ContextInv, GatewayInv, HandlerInv, P!PayInv, P!PayTypeOK
<1> QED
  BY <1>1, CheckoutInvariant, PTL

\* Only steps of the database change the number of rows.
LEMMA RowsChangeByCommit ==
  ASSUME IndInv, [Next]_vars, NEW c \in Checkouts, rows'[c] # rows[c]
  PROVE  /\ P!Commit(c) /\ running[c] > 0
         /\ \A d \in Checkouts \ {c} : rows'[d] = rows[d]
         /\ UNCHANGED <<handlerVars, kafkaVars, gw, billOwnVars, rate>>
<1>1. \E d \in Checkouts : PaymentsStep(d)
  BY DEF Next, vars, payVars, GatewayStep, GwSend, GwForward, GwGiveUp, Begin, CtxEnds,
         HandlerStep, InjectedError, ReadCart, Price, FraudLow, FraudHigh, FraudUnavailable,
         PaySend, P!Send, PayOk, PayNot200, PayTimeout, PayBroken, BillSend, BillAnswered,
         BillGiveUp, BillUnsent, SendOrder, Succeed, BrokerAppend, BillingStep, WindowEnds, Crash
<1>2. PICK d \in Checkouts : P!Commit(d) /\ PaymentsStep(d)
  BY <1>1 DEF PaymentsStep, P!PayServerStep, P!Receive, P!Acquire, P!Abort, P!Answer, P!Fail
<1>3. d = c
  BY <1>2 DEF P!Commit, IndInv, TypeOK, P!PayTypeOK
<1> QED
  BY <1>2, <1>3 DEF P!Commit, PaymentsStep, IndInv, TypeOK, P!PayTypeOK

\* No payment is committed once the handler has passed step 4 with a 200, nor
\* before it reached step 4.
THEOREM CheckoutCommitInDoubt == Spec => CommitInDoubtOnly
<1>1. IndInv /\ [Next]_vars =>
        [\A c \in Checkouts :
           rows'[c] > rows[c] =>
             \/ pc[c] \in {"paying", "dead"}
             \/ result[c] \in {"payment_timeout", "payment_error"}]_vars
  <2> SUFFICES ASSUME IndInv, [Next]_vars, NEW c \in Checkouts, rows'[c] > rows[c]
               PROVE  \/ pc[c] \in {"paying", "dead"}
                      \/ result[c] \in {"payment_timeout", "payment_error"}
    OBVIOUS
  <2>1. running[c] > 0
    BY RowsChangeByCommit DEF IndInv, TypeOK, P!PayTypeOK
  <2>2. payReq[c] \in {"query", "err"}
    BY <2>1 DEF IndInv, TypeOK, P!PayTypeOK, P!PayPhases, P!PayInv
  <2> QED
    BY <2>2 DEF IndInv, TypeOK, PCs, Active, Results, HandlerInv
<1> QED
  BY <1>1, CheckoutInvariant, PTL DEF Spec, CommitInDoubtOnly

--------------------------------------------------------------------------------

(* Checkout implements OrderLedger *)

LEMMA LedgerInitial == Init => Ledger!LedgerInit
  BY DEF Init, P!PayInit, Ledger!LedgerInit, LedgerState, LedgerTold

\* A step that leaves the outcome, the order, the row and the gateway's answer of
\* every checkout alone is a stuttering step of the ledger; so is one that sets an
\* outcome other than fraud_blocked.
LEMMA LedgerStutters ==
  ASSUME UNCHANGED <<orders, rows, gw>>,
         \A c \in Checkouts : (result[c] = "fraud_blocked") <=> (result'[c] = "fraud_blocked")
  PROVE  UNCHANGED <<LedgerState, LedgerTold>>
  BY DEF LedgerState, LedgerTold

\* A step that changes the ledger's view of one checkout only.
LEMMA LedgerMoves ==
  ASSUME NEW c \in Checkouts, UNCHANGED gw,
         \A d \in Checkouts \ {c} : orders'[d] = orders[d] /\ rows'[d] = rows[d] /\ result'[d] = result[d]
  PROVE  /\ LedgerState' = [LedgerState EXCEPT ![c] = LedgerState'[c]]
         /\ UNCHANGED LedgerTold
  BY DEF LedgerState, LedgerTold

LEMMA LedgerTells ==
  ASSUME NEW c \in Checkouts, UNCHANGED <<orders, rows, result>>,
         \A d \in Checkouts \ {c} : gw'[d] = gw[d]
  PROVE  /\ LedgerTold' = [LedgerTold EXCEPT ![c] = LedgerTold'[c]]
         /\ UNCHANGED LedgerState
  BY DEF LedgerState, LedgerTold

LEMMA LedgerStep == IndInv /\ [Next]_vars => [Ledger!LedgerNext]_<<LedgerState, LedgerTold>>
<1> SUFFICES ASSUME IndInv, Next
             PROVE  Ledger!LedgerNext \/ UNCHANGED <<LedgerState, LedgerTold>>
  BY LedgerStutters DEF vars, handlerVars, kafkaVars, payVars
<1> USE DEF IndInv, TypeOK
<1>1. ASSUME NEW c \in Checkouts, GwSend(c) PROVE UNCHANGED <<LedgerState, LedgerTold>>
  BY <1>1 DEF GwSend, LedgerState, LedgerTold, handlerVars, kafkaVars, payVars
<1>2. ASSUME NEW c \in Checkouts, GwGiveUp(c) PROVE Ledger!LedgerNext
  <2>1. Ledger!TellUnknown(c)
    BY <1>2, LedgerTells
    DEF GwGiveUp, handlerVars, kafkaVars, payVars, Ledger!TellUnknown, Ledger!Tell, LedgerTold
  <2> QED
    BY <2>1 DEF Ledger!LedgerNext
<1>3. ASSUME NEW c \in Checkouts, GwForward(c) PROVE Ledger!LedgerNext
  <2>1. /\ UNCHANGED LedgerState
        /\ LedgerTold[c] = "nothing"
        /\ LedgerTold' = [LedgerTold EXCEPT ![c] = LedgerTold'[c]]
    BY <1>3, LedgerTells DEF GwForward, handlerVars, kafkaVars, payVars, LedgerTold
  <2>2. CASE result[c] = "success"
    <3>1. LedgerState[c] \in {"paid", "ordered"}
      BY <2>2 DEF LedgerState, HandlerInv, P!PayInv, P!PayTypeOK
    <3>2. LedgerTold'[c] = "paid"
      BY <1>3, <2>2 DEF GwForward, LedgerTold
    <3> QED
      BY <2>1, <3>1, <3>2 DEF Ledger!LedgerNext, Ledger!TellPaid, Ledger!Tell
  <2>3. CASE result[c] = "fraud_blocked"
    <3>1. LedgerState[c] = "blocked"
      BY <2>3 DEF LedgerState
    <3>2. LedgerTold'[c] = "blocked"
      BY <1>3, <2>3 DEF GwForward, LedgerTold
    <3> QED
      BY <2>1, <3>1, <3>2 DEF Ledger!LedgerNext, Ledger!TellBlocked, Ledger!Tell
  <2>4. CASE result[c] \notin {"success", "fraud_blocked"}
    <3>1. LedgerTold'[c] = "unknown"
      BY <1>3, <2>4 DEF GwForward, LedgerTold
    <3> QED
      BY <2>1, <3>1 DEF Ledger!LedgerNext, Ledger!TellUnknown, Ledger!Tell
  <2> QED
    BY <2>2, <2>3, <2>4
<1>4. ASSUME NEW c \in Checkouts, FraudHigh(c) PROVE Ledger!LedgerNext
  <2>1. LedgerState[c] = "open"
    BY <1>4 DEF FraudHigh, Finish, LedgerState, HandlerInv, OrderInv, P!PayInv, P!PayTypeOK
  <2>2. LedgerState'[c] = "blocked"
    BY <1>4 DEF FraudHigh, Finish, LedgerState
  <2>3. LedgerState' = [LedgerState EXCEPT ![c] = LedgerState'[c]] /\ UNCHANGED LedgerTold
    BY <1>4, LedgerMoves DEF FraudHigh, Finish, kafkaVars, payVars
  <2> QED
    BY <2>1, <2>2, <2>3 DEF Ledger!LedgerNext, Ledger!Block, Ledger!Move
<1>5. ASSUME NEW c \in Checkouts, BrokerAppend(c)
      PROVE  Ledger!LedgerNext \/ UNCHANGED <<LedgerState, LedgerTold>>
  <2>1. LedgerState' = [LedgerState EXCEPT ![c] = LedgerState'[c]] /\ UNCHANGED LedgerTold
    BY <1>5, LedgerMoves DEF BrokerAppend, handlerVars, payVars
  <2>2. LedgerState'[c] = "ordered" /\ LedgerState[c] \in {"paid", "ordered"}
    BY <1>5 DEF BrokerAppend, LedgerState, handlerVars, payVars, HandlerInv, OrderInv,
                P!PayInv, P!PayTypeOK
  <2>3. CASE LedgerState[c] = "paid"
    BY <2>1, <2>2, <2>3 DEF Ledger!LedgerNext, Ledger!Order, Ledger!Move
  <2>4. CASE LedgerState[c] = "ordered"
    <3>1. [LedgerState EXCEPT ![c] = LedgerState[c]] = LedgerState
      BY DEF LedgerState
    <3> QED
      BY <2>1, <2>2, <2>4, <3>1
  <2> QED
    BY <2>2, <2>3, <2>4
<1>6. ASSUME NEW c \in Checkouts, PaymentsStep(c)
      PROVE  Ledger!LedgerNext \/ UNCHANGED <<LedgerState, LedgerTold>>
  <2>1. CASE P!Commit(c)
    <3>1. LedgerState' = [LedgerState EXCEPT ![c] = LedgerState'[c]] /\ UNCHANGED LedgerTold
      BY <1>6, <2>1, LedgerMoves
      DEF PaymentsStep, P!Commit, P!PayTypeOK, handlerVars, kafkaVars
    <3>2. LedgerState[c] = "open" /\ LedgerState'[c] = "paid"
      BY <1>6, <2>1 DEF PaymentsStep, P!Commit, P!PayInv, P!PayTypeOK, P!PayPhases,
                        LedgerState, HandlerInv, OrderInv, handlerVars, kafkaVars
    <3> QED
      BY <3>1, <3>2 DEF Ledger!LedgerNext, Ledger!Pay, Ledger!Move
  <2>2. CASE ~ P!Commit(c)
    BY <1>6, <2>2, LedgerStutters
    DEF PaymentsStep, P!PayServerStep, P!Receive, P!Acquire, P!Abort, P!Answer, P!Fail,
        handlerVars, kafkaVars
  <2> QED
    BY <2>1, <2>2
<1>7. ASSUME NEW c \in Checkouts, HandlerStep(c), ~ FraudHigh(c)
      PROVE  UNCHANGED <<LedgerState, LedgerTold>>
  <2>1. UNCHANGED <<orders, rows, gw>>
    BY <1>7 DEF HandlerStep, InjectedError, ReadCart, Price, FraudLow, FraudUnavailable,
                PaySend, P!Send, PayOk, PayNot200, PayTimeout, PayBroken, BillSend, BillAnswered,
                BillGiveUp, BillUnsent, SendOrder, Succeed, handlerVars, kafkaVars, payVars
  <2>2. \/ UNCHANGED result
        \/ Finish(c, {"start"}, "error")
        \/ Finish(c, {"pay", "paying"}, "payment_error")
        \/ Finish(c, {"paying"}, "payment_error")
        \/ Finish(c, {"paying"}, "payment_timeout")
        \/ Finish(c, {"publish"}, "success")
    BY <1>7 DEF HandlerStep, InjectedError, ReadCart, Price, FraudLow, FraudUnavailable,
                PaySend, PayOk, PayNot200, PayTimeout, PayBroken, BillSend, BillAnswered,
                BillGiveUp, BillUnsent, SendOrder, Succeed, handlerVars
  <2>3. \A d \in Checkouts : (result[d] = "fraud_blocked") <=> (result'[d] = "fraud_blocked")
    BY <2>2 DEF Finish, HandlerInv
  <2> QED
    BY <2>1, <2>3, LedgerStutters
<1>8. ASSUME NEW c \in Checkouts, Begin(c) \/ CtxEnds(c) \/ BillingStep(c)
      PROVE  UNCHANGED <<LedgerState, LedgerTold>>
  BY <1>8, LedgerStutters DEF Begin, CtxEnds, BillingStep, handlerVars, kafkaVars, payVars
<1>9. ASSUME Crash \/ (\E u \in Users : WindowEnds(u))
      PROVE  UNCHANGED <<LedgerState, LedgerTold>>
  BY <1>9, LedgerStutters DEF Crash, WindowEnds, handlerVars, kafkaVars, payVars
<1> QED
  BY <1>1, <1>2, <1>3, <1>4, <1>5, <1>6, <1>7, <1>8, <1>9 DEF Next, GatewayStep

\* The flow is an order ledger.
THEOREM CheckoutImplementsLedger == Spec => ImplementsLedger
<1>1. IndInv /\ [Next]_vars => [Ledger!LedgerNext]_(Ledger!ledgerVars)
  BY LedgerStep DEF Ledger!ledgerVars
<1> QED
  BY LedgerInitial, <1>1, CheckoutInvariant, PTL DEF Spec, ImplementsLedger, Ledger!LedgerSpec
================================================================================
