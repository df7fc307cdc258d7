--------------------------- MODULE PaymentsApiProofs ---------------------------
(* Safety of payments-api for every set of checkouts and every pool size. *)
EXTENDS PaymentsApi, TLAPS

\* Every request phase fixes what the database holds for its checkout, whichever
\* of handler and database moves: a statement outlives its handler only in phase
\* "err", where it is the only one there will be.
THEOREM PaymentsInvariant == PaySpec => []PayIndInv
<1> USE DEF PayIndInv, PayTypeOK, PayInv, PayPhases
<1>1. PayInit => PayIndInv
  BY DEF PayInit
<1>2. PayIndInv /\ [PayNext]_payVars => PayIndInv'
  <2> SUFFICES ASSUME PayIndInv, [PayNext]_payVars PROVE PayIndInv'
    OBVIOUS
  <2>1. ASSUME NEW c \in Checkouts, Send(c) PROVE PayIndInv'
    BY <2>1 DEF Send
  <2>2. ASSUME NEW c \in Checkouts, Receive(c) PROVE PayIndInv'
    BY <2>2 DEF Receive
  <2>3. ASSUME NEW c \in Checkouts, Acquire(c) PROVE PayIndInv'
    BY <2>3 DEF Acquire
  <2>4. ASSUME NEW c \in Checkouts, Commit(c) PROVE PayIndInv'
    BY <2>4 DEF Commit
  <2>5. ASSUME NEW c \in Checkouts, Abort(c) PROVE PayIndInv'
    BY <2>5 DEF Abort
  <2>6. ASSUME NEW c \in Checkouts, Answer(c) PROVE PayIndInv'
    BY <2>6 DEF Answer
  <2>7. ASSUME NEW c \in Checkouts, Fail(c) PROVE PayIndInv'
    BY <2>7 DEF Fail
  <2>8. CASE UNCHANGED payVars
    BY <2>8 DEF payVars
  <2> QED
    BY <2>1, <2>2, <2>3, <2>4, <2>5, <2>6, <2>7, <2>8 DEF PayNext, PayServerStep
<1> QED
  BY <1>1, <1>2, PTL DEF PaySpec

\* One row per checkout at most, also counting the statement left running.
THEOREM PaymentsSafe == PaySpec => []AtMostOneRow
<1>1. PayIndInv => AtMostOneRow
  BY DEF PayIndInv, PayTypeOK, PayPhases, PayInv, AtMostOneRow
<1> QED
  BY <1>1, PaymentsInvariant, PTL

\* 200 is answered only for a committed row.
THEOREM PaymentsOk == PaySpec => []OkMeansCommitted
<1>1. PayIndInv => OkMeansCommitted
  BY DEF PayIndInv, PayTypeOK, PayPhases, PayInv, OkMeansCommitted
<1> QED
  BY <1>1, PaymentsInvariant, PTL

\* No row appears before a connection was taken or after the 200.
THEOREM PaymentsCommitInDoubt == PaySpec => CommitInDoubtOnly
<1>1. PayIndInv /\ [PayNext]_payVars =>
        [\A c \in Checkouts : rows'[c] > rows[c] => payReq[c] \in {"query", "err"}]_payVars
  <2> SUFFICES ASSUME PayIndInv, PayNext,
                      NEW c \in Checkouts, rows'[c] > rows[c]
               PROVE  payReq[c] \in {"query", "err"}
    BY DEF payVars
  <2>1. PICK d \in Checkouts : Send(d) \/ PayServerStep(d)
    BY DEF PayNext
  <2>2. Commit(d)
    BY <2>1 DEF PayIndInv, PayTypeOK, PayServerStep, Send, Receive, Acquire, Abort, Answer, Fail
  <2>3. c = d /\ running[c] > 0
    BY <2>2 DEF Commit, PayIndInv, PayTypeOK
  <2> QED
    BY <2>3 DEF PayIndInv, PayTypeOK, PayPhases, PayInv
<1> QED
  BY <1>1, PaymentsInvariant, PTL DEF PaySpec, CommitInDoubtOnly
================================================================================
