--------------------------- MODULE FaultConfigProofs ---------------------------
(***************************************************************************)
(* The settings a request acts on are consistent for every set of handlers *)
(* and all values posted.                                                  *)
(***************************************************************************)
EXTENDS FaultConfig, TLAPS

LEMMA InitFaultIndInv == FaultInit => FaultIndInv
  BY DEF FaultInit, FaultIndInv, FaultTypeOK, PCs, Rates, Settings, LockInv, ForceInv, SeenInv

\* A set bounds what is posted: the latency is not negative and the rate is 0 or 1.
LEMMA Bounds ==
  /\ \A l \in Latencies : BoundedLat(l) \in Nat
  /\ \A e \in ErrorRates : BoundedRate(e) \in Rates
  BY FaultAssumption DEF BoundedLat, BoundedRate, Rates

\* Steps that leave the fields and the settings in force alone.
LEMMA ReadersPreserve ==
  ASSUME FaultIndInv, NEW h \in Handlers,
         Begin(h) \/ GetLat(h) \/ GetErr(h) \/ ShowLat(h) \/ ShowErr(h) \/ Answer(h)
  PROVE  FaultIndInv'
<1> USE DEF FaultIndInv, FaultTypeOK, PCs, Rates, Settings, LockInv, ForceInv, SeenInv,
            Goto, Start, SeeLat, SeeErr, fields, lockVars
<1>1. CASE GetRLock(h)
  BY <1>1 DEF GetRLock
<1>2. CASE GetBlocks(h)
  BY <1>2 DEF GetBlocks
<1>3. CASE Post(h)
  BY <1>3 DEF Post
<1>4. CASE Show(h)
  BY <1>4 DEF Show
<1>5. CASE GetLat(h)
  BY <1>5 DEF GetLat
<1>6. CASE GetErr(h)
  <2>1. /\ h \in readers
        /\ \A g \in Handlers : pc[g] # "setErr"
    BY <1>6 DEF GetErr
  <2>2. /\ LatencyMs = inForce[1]
        /\ ErrorRate = inForce[2]
    BY <2>1
  <2>3. seen'[h] = inForce
    BY <1>6, <2>2 DEF GetErr
  <2>4. seen'[h] \in valid[h]
    BY <1>6, <2>3 DEF GetErr
  <2>5. FaultTypeOK'
    BY <1>6 DEF GetErr
  <2>6. LockInv' /\ ForceInv'
    BY <1>6 DEF GetErr
  <2>7. SeenInv'
    BY <1>6, <2>4 DEF GetErr
  <2> QED
    BY <2>5, <2>6, <2>7
<1>7. CASE ShowLat(h)
  BY <1>7 DEF ShowLat
<1>8. CASE ShowErr(h)
  BY <1>8 DEF ShowErr
<1>9. CASE Answer(h)
  BY <1>9 DEF Answer
<1> QED
  BY <1>1, <1>2, <1>3, <1>4, <1>5, <1>6, <1>7, <1>8, <1>9 DEF Begin

\* The steps of set.
LEMMA SetPreserves ==
  ASSUME FaultIndInv, NEW h \in Handlers,
         SetClaims(h) \/ SetLocks(h) \/ SetLat(h) \/ SetErr(h)
  PROVE  FaultIndInv'
<1> USE DEF FaultIndInv, FaultTypeOK, PCs, Settings, LockInv, ForceInv, SeenInv, Goto, fields, lockVars
<1>1. CASE SetClaims(h)
  BY <1>1 DEF SetClaims
<1>2. CASE SetLocks(h)
  BY <1>2 DEF SetLocks
<1>3. CASE SetLat(h)
  <2>1. LatencyMs' \in Nat
    BY <1>3, Bounds DEF SetLat
  <2> QED
    BY <1>3, <2>1 DEF SetLat
<1>4. CASE SetErr(h)
  <2>1. /\ ErrorRate' \in Rates
        /\ <<LatencyMs, ErrorRate'>> \in Settings
        /\ LatencyMs' = LatencyMs
        /\ inForce' = <<LatencyMs, ErrorRate'>>
    BY <1>4, Bounds DEF SetErr, PutInForce
  <2>2. FaultTypeOK'
    BY <1>4, <2>1 DEF SetErr, PutInForce, Unlock, BlockedReaders
  <2>3. LockInv'
    BY <1>4 DEF SetErr, Unlock, BlockedReaders
  <2>4. ForceInv'
    BY <1>4, <2>1 DEF SetErr, PutInForce, Unlock, BlockedReaders
  <2>5. SeenInv'
    BY <1>4, <2>1 DEF SetErr, PutInForce, Unlock, BlockedReaders
  <2> QED
    BY <2>2, <2>3, <2>4, <2>5
<1> QED
  BY <1>1, <1>2, <1>3, <1>4

THEOREM FaultInvariant == FaultSpec => []FaultIndInv
<1>1. FaultIndInv /\ [FaultNext]_vars => FaultIndInv'
  <2> SUFFICES ASSUME FaultIndInv, [FaultNext]_vars PROVE FaultIndInv'
    OBVIOUS
  <2>1. CASE UNCHANGED vars
    BY <2>1 DEF vars, fields, lockVars, FaultIndInv, FaultTypeOK, LockInv, ForceInv, SeenInv
  <2> QED
    BY <2>1, ReadersPreserve, SetPreserves DEF FaultNext, Continue
<1> QED
  BY <1>1, InitFaultIndInv, PTL DEF FaultSpec

\* Readers and a writer never hold the lock together, so that a request acts on a
\* pair of settings that was in force while it ran, and a POST is answered with
\* the settings it left.
THEOREM RequestsSeeOneSetting == FaultSpec => []OneSettingPerRequest
<1>1. FaultIndInv => OneSettingPerRequest
  BY DEF FaultIndInv, SeenInv, OneSettingPerRequest
<1> QED
  BY <1>1, FaultInvariant, PTL
================================================================================
