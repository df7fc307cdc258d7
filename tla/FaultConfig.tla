------------------------------ MODULE FaultConfig ------------------------------
(***************************************************************************)
(* The fault-injection settings of a service and the handlers that use     *)
(* them: injectionConfig with its RWMutex, get, set, applyFaultInjection   *)
(* and adminConfigHandler (environment/services/orders-service/main.go,    *)
(* and 31 other services alike).  Every request goes through get on a      *)
(* goroutine of its own, POST /admin/config through set, and               *)
(* GET /admin/config reads the fields.  checkout answers GET with          *)
(* snapshot, which locks and reads as get does.  sync.RWMutex lets         *)
(* no reader in while a writer holds it or waits for the readers to leave, *)
(* and lets the readers that waited in before the next writer.             *)
(***************************************************************************)
EXTENDS Integers

CONSTANTS
  Handlers,     \* goroutines serving requests
  Latencies,    \* values of latency_ms that are posted, out of range ones too
  ErrorRates    \* values of error_rate that are posted; 0..1 is in range

ASSUME FaultAssumption == Latencies \subseteq Int /\ ErrorRates \subseteq Int

VARIABLES
  LatencyMs, ErrorRate,  \* the fields of faultCfg
  readers,               \* handlers that hold mu for reading
  writer,                \* the handler that holds mu, or waits for readers: at most one
  pc,
  seen,                  \* the settings a handler has read or will answer
  inForce,               \* history: the settings the last POST left
  valid                  \* history: the settings in force while a handler runs

lockVars == <<readers, writer>>
fields == <<LatencyMs, ErrorRate>>
vars == <<fields, lockVars, pc, seen, inForce, valid>>

PCs == {"idle", "rlock", "getLat", "getErr", "gotten",
        "lock", "drain", "setLat", "setErr", "set", "showLat", "showErr", "shown"}

Rates == {0, 1}
Settings == Nat \X Rates

FaultTypeOK ==
  /\ LatencyMs \in Nat
  /\ ErrorRate \in Rates
  /\ readers \subseteq Handlers
  /\ writer \subseteq Handlers
  /\ pc \in [Handlers -> PCs]
  /\ seen \in [Handlers -> Settings]
  /\ inForce \in Settings
  /\ valid \in [Handlers -> SUBSET Settings]

FaultInit ==
  /\ LatencyMs = 0
  /\ ErrorRate = 0
  /\ readers = {}
  /\ writer = {}
  /\ pc = [h \in Handlers |-> "idle"]
  /\ seen = [h \in Handlers |-> <<0, 0>>]
  /\ inForce = <<0, 0>>
  /\ valid = [h \in Handlers |-> {}]

Goto(h, from, to) ==
  /\ pc[h] = from
  /\ pc' = [pc EXCEPT ![h] = to]

Start(h, to) ==
  /\ Goto(h, "idle", to)
  /\ valid' = [valid EXCEPT ![h] = {inForce}]

SeeLat(h) == seen' = [seen EXCEPT ![h][1] = LatencyMs]
SeeErr(h) == seen' = [seen EXCEPT ![h][2] = ErrorRate]

\* Mutant: set takes a rate above 1 as it is; it breaks FaultIndInv.
MutBoundBelowOnly(e) == IF e < 0 THEN 0 ELSE e

\* set bounds what was posted.
BoundedLat(l) == IF l < 0 THEN 0 ELSE l
BoundedRate(e) == IF e < 0 THEN 0 ELSE IF e > 1 THEN 1 ELSE e

\* Unlock lets the blocked readers in.
BlockedReaders == {h \in Handlers : pc[h] = "rlock"}

Unlock(h) ==
  /\ writer' = {}
  /\ readers' = readers \cup BlockedReaders
  /\ pc' = [g \in Handlers |-> IF g = h THEN "set" ELSE IF g \in BlockedReaders THEN "getLat" ELSE pc[g]]

\* The settings that set leaves are in force for every handler that is running.
PutInForce(s) ==
  /\ inForce' = s
  /\ valid' = [g \in Handlers |-> IF pc[g] = "idle" THEN valid[g] ELSE valid[g] \cup {s}]

--------------------------------------------------------------------------------

(* Mutants: plausible faults of this code; each one breaks a property below. *)

\* set does not take the lock.
MutSetWithoutLock(h) ==
  /\ Goto(h, "lock", "setLat")
  /\ writer' = {h}
  /\ UNCHANGED <<fields, readers, seen, valid, inForce>>

\* get returns without unlocking.
MutGetKeepsLock(h) ==
  /\ Goto(h, "getErr", "gotten")
  /\ SeeErr(h)
  /\ UNCHANGED <<fields, lockVars, valid, inForce>>

--------------------------------------------------------------------------------

(* A request of the service: get, in applyFaultInjection *)

GetRLock(h) ==
  /\ writer = {}
  /\ Start(h, "getLat")
  /\ readers' = readers \cup {h}
  /\ UNCHANGED <<fields, writer, seen, inForce>>

GetBlocks(h) ==
  /\ writer # {}
  /\ Start(h, "rlock")
  /\ UNCHANGED <<fields, lockVars, seen, inForce>>

GetLat(h) ==
  /\ Goto(h, "getLat", "getErr")
  /\ SeeLat(h)
  /\ UNCHANGED <<fields, lockVars, valid, inForce>>

\* The deferred RUnlock runs after the second read.
GetErr(h) ==
  /\ Goto(h, "getErr", "gotten")
  /\ SeeErr(h)
  /\ readers' = readers \ {h}
  /\ UNCHANGED <<fields, writer, valid, inForce>>

--------------------------------------------------------------------------------

(* POST /admin/config *)

Post(h) ==
  /\ Start(h, "lock")
  /\ UNCHANGED <<fields, lockVars, seen, inForce>>

\* The inner mutex of mu is taken and new readers are held off.
SetClaims(h) ==
  /\ writer = {}
  /\ Goto(h, "lock", "drain")
  /\ writer' = {h}
  /\ UNCHANGED <<fields, readers, seen, valid, inForce>>

SetLocks(h) ==
  /\ readers = {}
  /\ Goto(h, "drain", "setLat")
  /\ UNCHANGED <<fields, lockVars, seen, valid, inForce>>

\* latency_ms was posted, or not.
SetLat(h) ==
  /\ Goto(h, "setLat", "setErr")
  /\ LatencyMs' \in {LatencyMs} \cup {BoundedLat(l) : l \in Latencies}
  /\ UNCHANGED <<ErrorRate, lockVars, seen, valid, inForce>>

\* error_rate was posted, or not; set returns both fields and unlocks.
SetErr(h) ==
  /\ pc[h] = "setErr"
  /\ ErrorRate' \in {ErrorRate} \cup {BoundedRate(e) : e \in ErrorRates}
  /\ seen' = [seen EXCEPT ![h] = <<LatencyMs, ErrorRate'>>]
  /\ PutInForce(<<LatencyMs, ErrorRate'>>)
  /\ Unlock(h)
  /\ UNCHANGED LatencyMs

--------------------------------------------------------------------------------

(* GET /admin/config: two reads without mu *)

Show(h) ==
  /\ Start(h, "showLat")
  /\ UNCHANGED <<fields, lockVars, seen, inForce>>

ShowLat(h) ==
  /\ Goto(h, "showLat", "showErr")
  /\ SeeLat(h)
  /\ UNCHANGED <<fields, lockVars, valid, inForce>>

ShowErr(h) ==
  /\ Goto(h, "showErr", "shown")
  /\ SeeErr(h)
  /\ UNCHANGED <<fields, lockVars, valid, inForce>>

--------------------------------------------------------------------------------

\* The response is written and the goroutine serves its next request.
Answer(h) ==
  /\ pc[h] \in {"gotten", "set", "shown"}
  /\ pc' = [pc EXCEPT ![h] = "idle"]
  /\ seen' = [seen EXCEPT ![h] = <<0, 0>>]
  /\ valid' = [valid EXCEPT ![h] = {}]
  /\ UNCHANGED <<fields, lockVars, inForce>>

Begin(h) == GetRLock(h) \/ GetBlocks(h) \/ Post(h) \/ Show(h)

Continue(h) ==
  \/ GetLat(h) \/ GetErr(h) \/ SetLocks(h) \/ SetLat(h) \/ SetErr(h)
  \/ ShowLat(h) \/ ShowErr(h) \/ Answer(h)

FaultNext == \E h \in Handlers : Begin(h) \/ Continue(h) \/ SetClaims(h)

\* Goroutines that can run do run, and sync.Mutex starves nobody that waits for it.
FaultFairness == \A h \in Handlers : WF_vars(Continue(h)) /\ SF_vars(SetClaims(h))

FaultSpec == FaultInit /\ [][FaultNext]_vars

FaultFairSpec == FaultSpec /\ FaultFairness

--------------------------------------------------------------------------------

(* The inductive invariant behind OneSettingPerRequest *)

\* Who holds mu, by where its handler is; readers and a writer that is past Lock
\* exclude each other.
LockInv ==
  /\ \A h \in Handlers : h \in readers <=> pc[h] \in {"getLat", "getErr"}
  /\ \A h \in Handlers : h \in writer <=> pc[h] \in {"drain", "setLat", "setErr"}
  /\ \A g, h \in writer : g = h
  /\ \A h \in writer : pc[h] \in {"setLat", "setErr"} => readers = {}

\* The fields are the settings in force, but for the latency that a set in
\* progress has written.
ForceInv ==
  /\ ErrorRate = inForce[2]
  /\ (\A h \in Handlers : pc[h] # "setErr") => LatencyMs = inForce[1]
  /\ \A h \in Handlers : pc[h] # "idle" => inForce \in valid[h]

\* What a handler has read so far, and what it ends with.
SeenInv ==
  \A h \in Handlers :
    /\ pc[h] = "getErr" => seen[h][1] = LatencyMs
    /\ pc[h] \in {"gotten", "set"} => seen[h] \in valid[h]

FaultIndInv == FaultTypeOK /\ LockInv /\ ForceInv /\ SeenInv

--------------------------------------------------------------------------------

\* A request acts on settings that were in force, as a pair, while it was in
\* progress, and a POST is answered with the settings it left: latency and error
\* rate never come from two different POSTs.
OneSettingPerRequest ==
  \A h \in Handlers : pc[h] \in {"gotten", "set"} => seen[h] \in valid[h]

\* No handler waits for the lock forever: POSTs are not starved by the stream of
\* requests, nor requests by POSTs.
EveryHandlerAnswers ==
  \A h \in Handlers : pc[h] # "idle" ~> pc[h] = "idle"

\* "Fault injection (thread-safe)" (environment/services/orders-service/main.go:132)
\* for GET /admin/config: what it shows is a pair of settings that was in force.
ShownWasInForce ==
  \A h \in Handlers : pc[h] = "shown" => seen[h] \in valid[h]
================================================================================
