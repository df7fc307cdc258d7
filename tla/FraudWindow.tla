------------------------------ MODULE FraudWindow ------------------------------
(***************************************************************************)
(* What fraud-detection promises its callers about the rate limit: checks  *)
(* of one user are counted, "high" is answered only when the count exceeds *)
(* RateLimit, and the count starts again from zero when its window of 60 s *)
(* ends (environment/services/fraud-detection/main.go).                    *)
(* The count is kept up to RateLimit + 1: the handler only compares it     *)
(* with RateLimit.  The amounts checkout sends lie below 1000, so that the *)
(* rate alone decides between "high" and not "high".                       *)
(***************************************************************************)
EXTENDS Naturals

CONSTANTS
  Users,
  RateLimit    \* a natural number, 20 in the code

VARIABLE rate  \* checks counted for a user in the current window

FraudTypeOK == rate \in [Users -> 0..RateLimit + 1]

FraudInit == rate = [u \in Users |-> 0]

\* The Redis client sends INCR fraud:rate:<user> again when the answer is lost,
\* up to four times in all, and each may be counted.
Attempts == 1..4

Counted(n, k) == IF n + k > RateLimit THEN RateLimit + 1 ELSE n + k

Count(u) == \E k \in Attempts : rate' = [rate EXCEPT ![u] = Counted(@, k)]

\* A check answered "high": the count that came back exceeds the limit.
CheckHigh(u) == Count(u) /\ rate'[u] > RateLimit

\* A check the count lets pass: what came back does not exceed the limit.
CheckLow(u) == Count(u) /\ rate'[u] =< RateLimit

\* A check whose count nobody hears of: Redis answered with an error, counted or not,
\* and the rate is not looked at; or the caller gets no verdict, as fraud-detection
\* is down or answers 500, or its answer is lost after the check was counted.
CheckUnheard(u) == Count(u) \/ UNCHANGED rate

\* The key expires 60 s after it was created, or Redis evicts it.
WindowEnds(u) ==
  /\ rate[u] > 0
  /\ rate' = [rate EXCEPT ![u] = 0]

FraudNext == \E u \in Users : CheckHigh(u) \/ CheckLow(u) \/ CheckUnheard(u) \/ WindowEnds(u)

FraudSpec == FraudInit /\ [][FraudNext]_rate
================================================================================
