-------------------------- MODULE FraudDetectionProofs --------------------------
(***************************************************************************)
(* The rate limit of fraud-detection for every number of checks, of users  *)
(* and every limit.                                                        *)
(***************************************************************************)
EXTENDS FraudDetection, TLAPS

\* A check that passed was counted.
PassedAreCounted == \A u \in Users : passed[u] =< count[u]

FraudDetectionIndInv ==
  FraudDetectionTypeOK /\ EveryKeyWillExpire /\ AtMostRateLimitPass /\ PassedAreCounted

\* A key without an expiry is somebody's business or is known to be lost, and the count is
\* never behind the checks it let pass, whichever of INCR, EXPIRE, an error, a restart or
\* the end of the key comes next.
THEOREM FraudDetectionInvariant == FraudDetectionSpec => []FraudDetectionIndInv
<1> USE FraudDetectionAssumption 
    DEF FraudDetectionIndInv, FraudDetectionTypeOK, EveryKeyWillExpire, AtMostRateLimitPass,
        PassedAreCounted, Phases, keyVars
<1>1. FraudDetectionInit => FraudDetectionIndInv
  BY DEF FraudDetectionInit
<1>2. FraudDetectionIndInv /\ [FraudDetectionNext]_vars => FraudDetectionIndInv'
  <2> SUFFICES ASSUME FraudDetectionIndInv, [FraudDetectionNext]_vars PROVE FraudDetectionIndInv'
    OBVIOUS
  <2> USE DEF Goto
  <2>1. ASSUME NEW k \in Checks, Begin(k) PROVE FraudDetectionIndInv'
    BY <2>1 DEF Begin
  <2>2. ASSUME NEW k \in Checks, Incr(k) PROVE FraudDetectionIndInv'
    BY <2>2 DEF Incr
  <2>3. ASSUME NEW k \in Checks, IncrRepeats(k) PROVE FraudDetectionIndInv'
    BY <2>3 DEF IncrRepeats
  <2>4. ASSUME NEW k \in Checks, IncrFails(k) \/ Answer(k) PROVE FraudDetectionIndInv'
    BY <2>4 DEF IncrFails, Answer, Done
  <2>5. ASSUME NEW k \in Checks, Expire(k) PROVE FraudDetectionIndInv'
    BY <2>5 DEF Expire
  <2>6. ASSUME NEW k \in Checks, ExpireFails(k) \/ Dies(k) PROVE FraudDetectionIndInv'
    <3>1. CASE ExpireFails(k)
      BY <3>1 DEF ExpireFails
    <3>2. CASE Dies(k)
      BY <3>2 DEF Dies, Done
    <3> QED
      BY <2>6, <3>1, <3>2
  <2>7. ASSUME NEW u \in Users, KeyExpires(u) \/ KeyEvicted(u) PROVE FraudDetectionIndInv'
    BY <2>7 DEF KeyExpires, KeyEvicted, KeyEnds
  <2>8. CASE UNCHANGED vars
    BY <2>8 DEF vars
  <2> QED
    BY <2>1, <2>2, <2>3, <2>4, <2>5, <2>6, <2>7, <2>8 DEF FraudDetectionNext, CheckStep
<1> QED
  BY <1>1, <1>2, PTL DEF FraudDetectionSpec

\* Nobody is counted without end but for an EXPIRE that was lost.
THEOREM KeysExpire == FraudDetectionSpec => []EveryKeyWillExpire
  BY FraudDetectionInvariant, PTL DEF FraudDetectionIndInv

\* While a key lives the count lets RateLimit checks pass at most, in every interleaving of
\* checks with each other and with the end of the key.
THEOREM RateIsLimited == FraudDetectionSpec => []AtMostRateLimitPass
  BY FraudDetectionInvariant, PTL DEF FraudDetectionIndInv

--------------------------------------------------------------------------------

\* The rate of the window, as the count of the key is seen from outside.
Seen == [u \in Users |-> IF count[u] > RateLimit THEN RateLimit + 1 ELSE count[u]]

\* A step that leaves the keys alone is none of the window.
LEMMA SameCountSameRate == UNCHANGED count => UNCHANGED Seen
  BY DEF Seen

\* An INCR counts one check of its user.
LEMMA IncrCounts ==
  ASSUME FraudDetectionTypeOK, NEW u \in Users, count' = [count EXCEPT ![u] = @ + 1]
  PROVE  Seen' = [Seen EXCEPT ![u] = Window!Counted(Seen[u], 1)]
<1>1. \A v \in Users : count[v] \in Nat
  BY FraudDetectionAssumption DEF FraudDetectionTypeOK
<1>2. ASSUME NEW v \in Users
      PROVE  Seen'[v] = IF v = u THEN Window!Counted(Seen[u], 1) ELSE Seen[v]
  BY <1>1, FraudDetectionAssumption DEF Seen, Window!Counted, FraudDetectionTypeOK
<1> QED
  BY <1>2 DEF Seen

\* The count of one user only: what an INCR makes of it.
LEMMA IncrIsCount ==
  ASSUME FraudDetectionTypeOK, NEW k \in Checks, Incr(k) \/ IncrRepeats(k),
         NEW u \in Users, u = user[k]
  PROVE  /\ Window!Count(u)
         /\ Seen'[u] \in Nat /\ count'[u] \in Nat
         /\ Seen'[u] =< RateLimit <=> count'[u] =< RateLimit
<1>2. count' = [count EXCEPT ![u] = @ + 1]
  BY DEF Incr, IncrRepeats
<1>3. Seen' = [Seen EXCEPT ![u] = Window!Counted(Seen[u], 1)]
  BY <1>2, IncrCounts
<1>4. Window!Count(u)
  BY <1>3 DEF Window!Count, Window!Attempts, Seen
<1>5. count'[u] \in Nat
  BY <1>2, FraudDetectionAssumption DEF FraudDetectionTypeOK
<1>6. Seen'[u] \in Nat /\ (Seen'[u] =< RateLimit <=> count'[u] =< RateLimit)
  BY <1>5, FraudDetectionAssumption DEF Seen
<1> QED
  BY <1>4, <1>5, <1>6

LEMMA FraudDetectionStep ==
  FraudDetectionTypeOK /\ [FraudDetectionNext]_vars => [Window!FraudNext]_Seen
<1> SUFFICES ASSUME FraudDetectionTypeOK, [FraudDetectionNext]_vars PROVE [Window!FraudNext]_Seen
  OBVIOUS
<1>1. ASSUME NEW k \in Checks, Incr(k) \/ IncrRepeats(k) PROVE Window!FraudNext
  <2>1. user[k] \in Users
    BY DEF FraudDetectionTypeOK
  <2>2. PICK u \in Users : u = user[k]
    BY <2>1
  <2>3. Window!Count(u)
    BY <1>1, <2>2, IncrIsCount
  <2> QED
    BY <2>3 DEF Window!FraudNext, Window!CheckUnheard
<1>2. ASSUME NEW u \in Users, KeyExpires(u) \/ KeyEvicted(u) PROVE Window!FraudNext
  <2>1. count[u] \in Nat \ {0} /\ count' = [count EXCEPT ![u] = 0]
    BY <1>2, FraudDetectionAssumption DEF KeyExpires, KeyEvicted, KeyEnds, FraudDetectionTypeOK
  <2>2. Seen[u] > 0
    BY <2>1, FraudDetectionAssumption DEF Seen
  <2>3. \A v \in Users : Seen'[v] = IF v = u THEN 0 ELSE Seen[v]
    BY <2>1, FraudDetectionAssumption DEF Seen, FraudDetectionTypeOK
  <2>4. Seen' = [Seen EXCEPT ![u] = 0]
    BY <2>3 DEF Seen
  <2>5. Window!WindowEnds(u)
    BY <2>2, <2>4 DEF Window!WindowEnds, Seen
  <2> QED
    BY <2>5, Zenon DEF Window!FraudNext
<1>3. ASSUME NEW k \in Checks,
             Begin(k) \/ IncrFails(k) \/ Expire(k) \/ ExpireFails(k) \/ Answer(k) \/ Dies(k)
      PROVE  UNCHANGED Seen
  BY <1>3, SameCountSameRate DEF Begin, IncrFails, Expire, ExpireFails, Answer, Dies, keyVars
<1>4. CASE UNCHANGED vars
  BY <1>4, SameCountSameRate DEF vars, keyVars
<1> QED
  BY <1>1, <1>2, <1>3, <1>4 DEF FraudDetectionNext, CheckStep

\* A verdict comes from an INCR that was answered, and agrees with the count it made.
LEMMA VerdictStep ==
  FraudDetectionTypeOK /\ [FraudDetectionNext]_vars => [VerdictFromCount]_vars
<1> SUFFICES ASSUME FraudDetectionTypeOK, [FraudDetectionNext]_vars PROVE [VerdictFromCount]_vars
  OBVIOUS
<1> USE FraudDetectionAssumption DEF FraudDetectionTypeOK
<1>1. ASSUME NEW k \in Checks, Incr(k), NEW u \in Users
      PROVE  /\ \A j \in Checks : user[j] = u /\ highRate'[j] /\ ~highRate[j] => Window!CheckHigh(u)
             /\ passed'[u] > passed[u] => Window!CheckLow(u)
  <2>1. CASE u = user[k]
    <3>1. /\ Window!Count(u)
          /\ Seen'[u] \in Nat /\ count'[u] \in Nat
          /\ Seen'[u] =< RateLimit <=> count'[u] =< RateLimit
      BY <1>1, <2>1, IncrIsCount
    <3>2. ASSUME NEW j \in Checks, highRate'[j], ~highRate[j] PROVE Window!CheckHigh(u)
      <4>1. count'[u] > RateLimit
        BY <1>1, <2>1, <3>2 DEF Incr
      <4>2. Seen'[u] > RateLimit
        BY <4>1, <3>1
      <4> QED
        BY <4>2, <3>1 DEF Window!CheckHigh, Seen
    <3>3. ASSUME passed'[u] > passed[u] PROVE Window!CheckLow(u)
      <4>1. count'[u] =< RateLimit
        BY <1>1, <2>1, <3>1, <3>3 DEF Incr
      <4> QED
        BY <4>1, <3>1 DEF Window!CheckLow, Seen
    <3> QED
      BY <3>2, <3>3
  <2>2. CASE u # user[k]
    BY <1>1, <2>2 DEF Incr
  <2> QED
    BY <2>1, <2>2
<1>2. ASSUME NEW k \in Checks, CheckStep(k), ~Incr(k) PROVE VerdictFromCount
  <2>1. passed' = passed /\ \A j \in Checks : highRate'[j] => highRate[j]
    BY <1>2 DEF CheckStep, Begin, IncrRepeats, IncrFails, Expire, ExpireFails, Answer, Dies, Done,
                keyVars
  <2> QED
    BY <2>1 DEF VerdictFromCount
<1>3. ASSUME NEW u \in Users, KeyExpires(u) \/ KeyEvicted(u) PROVE VerdictFromCount
  <2>1. highRate' = highRate /\ \A v \in Users : ~ passed'[v] > passed[v]
    BY <1>3 DEF KeyExpires, KeyEvicted, KeyEnds
  <2> QED
    BY <2>1 DEF VerdictFromCount
<1> QED
  BY <1>1, <1>2, <1>3 DEF FraudDetectionNext, VerdictFromCount

\* fraud-detection is the window its callers, checkout and billing-service, are proved with:
\* every INCR, counted once or again, and every end of a key is a step of FraudWindow, and
\* the verdict of a check is the one its step allows.
THEOREM FraudDetectionImplementsWindow == FraudDetectionSpec => ImplementsWindow
<1>1. FraudDetectionInit => Window!FraudInit
  BY FraudDetectionAssumption DEF FraudDetectionInit, Window!FraudInit
<1>2. FraudDetectionTypeOK /\ [FraudDetectionNext]_vars => [Window!FraudNext]_Seen
  BY FraudDetectionStep
<1>3. FraudDetectionTypeOK /\ [FraudDetectionNext]_vars => [VerdictFromCount]_vars
  BY VerdictStep
<1>4. FraudDetectionIndInv => FraudDetectionTypeOK
  BY DEF FraudDetectionIndInv
<1>5. FraudDetectionSpec => Window!FraudSpec
  BY <1>1, <1>2, <1>4, FraudDetectionInvariant, PTL DEF FraudDetectionSpec, Window!FraudSpec, Seen
<1>6. FraudDetectionSpec => [][VerdictFromCount]_vars
  BY <1>3, <1>4, FraudDetectionInvariant, PTL DEF FraudDetectionSpec
<1> QED
  BY <1>5, <1>6 DEF ImplementsWindow
================================================================================
