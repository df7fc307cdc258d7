----------------------------- MODULE BillingProofs -----------------------------
(* Safety of the billing chain for every set of checkouts and every limit. *)
EXTENDS Billing, TLAPS

\* What external-payment-api did for a checkout is fixed by the phase of its one
\* request, and billing-service writes an event only when its handler succeeds.
THEOREM BillingInvariant == BillSpec => []BillIndInv
<1> USE BillingAssumption DEF BillIndInv, BillTypeOK, BillInv, BillPhases, ExtPhases, F!FraudTypeOK
<1>1. BillInit => BillIndInv
  BY DEF BillInit, F!FraudInit
<1>2. BillIndInv /\ [BillNext]_billVars => BillIndInv'
  <2> SUFFICES ASSUME BillIndInv, [BillNext]_billVars PROVE BillIndInv'
    OBVIOUS
  <2> USE DEF F!Attempts, F!Count, F!Counted, F!CheckHigh, F!CheckLow, F!CheckUnheard, F!WindowEnds, Phase
  <2>1. ASSUME NEW c \in Checkouts, Send(c) \/ Inject(c) PROVE BillIndInv'
    BY <2>1 DEF Send, Inject
  <2>2. ASSUME NEW c \in Checkouts, FraudBlocks(c) PROVE BillIndInv'
    BY <2>2 DEF FraudBlocks
  <2>3. ASSUME NEW c \in Checkouts, FraudPasses(c) PROVE BillIndInv'
    BY <2>3 DEF FraudPasses
  <2>4. ASSUME NEW c \in Checkouts, CallAdapter(c) \/ AdapterFaults(c) PROVE BillIndInv'
    BY <2>4 DEF CallAdapter, AdapterFaults
  <2>5. ASSUME NEW c \in Checkouts, ExtCharge(c) \/ ExtRefuse(c) PROVE BillIndInv'
    BY <2>5 DEF ExtCharge, ExtRefuse
  <2>6. ASSUME NEW c \in Checkouts, Settle(c) \/ PayFailed(c) PROVE BillIndInv'
    BY <2>6 DEF Settle, PayFailed
  <2>7. ASSUME NEW u \in Users, WindowEnds(u) PROVE BillIndInv'
    BY <2>7 DEF WindowEnds
  <2>8. CASE UNCHANGED billVars
    BY <2>8 DEF billVars
  <2> QED
    BY <2>1, <2>2, <2>3, <2>4, <2>5, <2>6, <2>7, <2>8 DEF BillNext, BillServerStep
<1> QED
  BY <1>1, <1>2, PTL DEF BillSpec

\* One external charge per checkout at most, also by a charge that outlives its caller.
THEOREM BillingSafe == BillSpec => []ChargedOnce
<1>1. BillIndInv => ChargedOnce
  <2> SUFFICES ASSUME BillIndInv, NEW c \in Checkouts PROVE extCharges[c] <= 1
    BY DEF ChargedOnce
  <2>1. extCharges[c] = IF ext[c] = "charged" THEN 1 ELSE 0
    BY DEF BillIndInv, BillInv
  <2> QED
    BY <2>1
<1> QED
  BY <1>1, BillingInvariant, PTL

\* No external charge and no billing event for a checkout that was answered 403.
THEOREM BillingBlocked == BillSpec => []BlockedNotCharged
<1>1. BillIndInv => BlockedNotCharged
  BY DEF BillIndInv, BillTypeOK, BillPhases, ExtPhases, BillInv, BlockedNotCharged
<1> QED
  BY <1>1, BillingInvariant, PTL
================================================================================
