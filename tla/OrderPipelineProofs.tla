-------------------------- MODULE OrderPipelineProofs --------------------------
(***************************************************************************)
(* No pod of the order pipeline handles a message twice, and an order      *)
(* multiplies by no more than the pods of a service and the attempts of a  *)
(* send, for every number of pods of each service, of orders, of duplicated*)
(* sends and restarts.                                                     *)
(***************************************************************************)
EXTENDS OrderPipeline, FiniteSetTheorems, TLAPS

\* The offsets of an order are finitely many.
LEMMA PassedFinite ==
  ASSUME NEW log \in Seq(Orders), NEW n \in Nat, NEW o \in Orders
  PROVE  /\ IsFiniteSet(Offsets(log, o))
         /\ IsFiniteSet(Passed(log, n, o))
         /\ Cardinality(Passed(log, n, o)) \in Nat
         /\ Cardinality(Offsets(log, o)) \in Nat
         /\ Cardinality(Passed(log, n, o)) <= Cardinality(Offsets(log, o))
<1>1. IsFiniteSet(1..Len(log))
  BY FS_Interval
<1>2. /\ Offsets(log, o) \subseteq 1..Len(log)
      /\ Passed(log, n, o) \subseteq Offsets(log, o)
  BY DEF Offsets, Passed
<1>3. IsFiniteSet(Offsets(log, o)) /\ IsFiniteSet(Passed(log, n, o))
  BY <1>1, <1>2, FS_Subset
<1> QED
  BY <1>2, <1>3, FS_CardinalityType, FS_Subset

\* A log that grows at its end and a position that moves forward leave no less
\* behind than before.
LEMMA PassedGrows ==
  ASSUME NEW old \in Seq(Orders), NEW new \in Seq(Orders),
         NEW m \in Nat, NEW n \in Nat, NEW o \in Orders,
         m <= n, Len(old) <= Len(new),
         \A k \in 1..Len(old) : new[k] = old[k]
  PROVE  Cardinality(Passed(old, m, o)) <= Cardinality(Passed(new, n, o))
<1>1. Passed(old, m, o) \subseteq Passed(new, n, o)
  BY DEF Passed, Offsets
<1> QED
  BY <1>1, PassedFinite, FS_Subset

\* Going past one message of an order leaves one more of them behind.
LEMMA PassedNext ==
  ASSUME NEW log \in Seq(Orders), NEW n \in 1..Len(log)
  PROVE  Cardinality(Passed(log, n + 1, log[n])) = Cardinality(Passed(log, n, log[n])) + 1
<1>1. log[n] \in Orders
  OBVIOUS
<1>2. Passed(log, n + 1, log[n]) = Passed(log, n, log[n]) \cup {n}
  BY DEF Passed, Offsets
<1>3. n \notin Passed(log, n, log[n])
  BY DEF Passed
<1>4. IsFiniteSet(Passed(log, n, log[n]))
  BY <1>1, PassedFinite
<1> QED
  BY <1>2, <1>3, <1>4, FS_AddElement

--------------------------------------------------------------------------------

LEMMA InitPositionInv == PipeInit => PositionInv
<1> SUFFICES ASSUME PipeInit PROVE PositionInv
  OBVIOUS
<1>1. PipeTypeOK
  <2>1. 0 \in 0..MaxRestarts /\ 0 \in 0..MaxCopies
    BY PipelineAssumption
  <2>2. \A p \in Pods : pos[p] = 1 /\ topic[Source(p)] = <<>>
    BY PipelineAssumption DEF PipeInit, Source
  <2>3. Len(<<>>) = 0 /\ <<>> \in Seq(Orders)
    OBVIOUS
  <2>4. \A p \in Pods : pos[p] <= Len(topic[Source(p)]) + 1
    BY <2>2, <2>3
  <2>5. topic \in [Services -> Seq(Orders)] /\ late \in [Services -> [Orders -> Nat]]
    BY <2>3 DEF PipeInit
  <2>6. step \in [Pods -> Steps] /\ \A p \in Pods : step[p] = "idle" <=> hand[p] = NoOrder
    BY DEF PipeInit, Steps
  <2>7. /\ tries \in [Pods -> 0..MaxCopies]
        /\ restarts \in 0..MaxRestarts
        /\ pos \in [Pods -> Nat \ {0}]
    BY <2>1 DEF PipeInit
  <2> QED
    BY <2>4, <2>5, <2>6, <2>7 DEF PipeInit, PipeTypeOK
<1>2. ASSUME NEW p \in Pods, NEW o \in Orders
      PROVE  taken[p][o] <= Cardinality(Passed(topic[Source(p)], pos[p], o))
  <2>1. topic[Source(p)] = <<>>
    BY PipelineAssumption DEF PipeInit, Source
  <2>2. Passed(<<>>, 1, o) = {}
    BY DEF Passed, Offsets
  <2>3. taken[p][o] = 0 /\ pos[p] = 1
    BY DEF PipeInit
  <2>4. Cardinality({}) = 0
    BY FS_EmptySet
  <2>5. Cardinality(Passed(topic[Source(p)], pos[p], o)) = 0
    BY <2>1, <2>2, <2>3, <2>4
  <2> QED
    BY <2>3, <2>5
<1> QED
  BY <1>1, <1>2 DEF PositionInv, TakenInv

\* Steps that append no message, move no pod and take nothing.
LEMMA StayBehind ==
  ASSUME TakenInv, UNCHANGED <<topic, pos, taken>>
  PROVE  TakenInv'
  BY DEF TakenInv, Source

\* A message at the end of a topic is behind nobody.
LEMMA AppendPreserves ==
  ASSUME PositionInv, NEW s \in Services, NEW o \in Orders,
         AppendTo(s, o), UNCHANGED <<pos, taken>>
  PROVE  /\ topic' \in [Services -> Seq(Orders)]
         /\ \A p \in Pods : pos'[p] <= Len(topic'[Source(p)]) + 1
         /\ TakenInv'
<1>1. topic' \in [Services -> Seq(Orders)]
  BY DEF PositionInv, PipeTypeOK, AppendTo
<1>2. ASSUME NEW p \in Pods
      PROVE  /\ topic[Source(p)] \in Seq(Orders)
             /\ topic'[Source(p)] \in Seq(Orders)
             /\ Len(topic[Source(p)]) <= Len(topic'[Source(p)])
             /\ \A k \in 1..Len(topic[Source(p)]) : topic'[Source(p)][k] = topic[Source(p)][k]
             /\ pos[p] \in Nat
             /\ pos[p] <= Len(topic[Source(p)]) + 1
  <2> DEFINE log == topic[Source(p)]
             next == topic'[Source(p)]
  <2>1. Source(p) \in Services
    BY PipelineAssumption DEF Source
  <2>2. log \in Seq(Orders) /\ next \in Seq(Orders)
    BY <1>1, <2>1 DEF PositionInv, PipeTypeOK
  <2>3. next = log \/ next = Append(log, o)
    BY <2>1 DEF PositionInv, PipeTypeOK, AppendTo
  <2>4. Len(log) <= Len(next) /\ \A k \in 1..Len(log) : next[k] = log[k]
    BY <2>2, <2>3
  <2>5. pos[p] \in Nat /\ pos[p] <= Len(log) + 1
    BY DEF PositionInv, PipeTypeOK
  <2> QED
    BY <2>2, <2>4, <2>5
<1>3. ASSUME NEW p \in Pods, NEW q \in Orders
      PROVE  taken'[p][q] <= Cardinality(Passed(topic'[Source(p)], pos'[p], q))
  <2>1. Cardinality(Passed(topic[Source(p)], pos[p], q))
          <= Cardinality(Passed(topic'[Source(p)], pos[p], q))
    BY <1>2, PassedGrows
  <2>2. /\ Cardinality(Passed(topic[Source(p)], pos[p], q)) \in Nat
        /\ Cardinality(Passed(topic'[Source(p)], pos[p], q)) \in Nat
    BY <1>2, PassedFinite
  <2>3. taken[p][q] \in Nat /\ taken[p][q] <= Cardinality(Passed(topic[Source(p)], pos[p], q))
    BY DEF PositionInv, PipeTypeOK, TakenInv
  <2> QED
    BY <2>1, <2>2, <2>3
<1>4. \A p \in Pods : pos'[p] <= Len(topic'[Source(p)]) + 1
  BY <1>1, <1>2
<1> QED
  BY <1>1, <1>3, <1>4 DEF TakenInv, Source

LEMMA AppendsPreserve ==
  ASSUME PositionInv,
         \/ \E o \in Orders : Publish(o)
         \/ \E p \in Pods : BrokerAppend(p)
         \/ \E s \in Services, o \in Orders : LateAppend(s, o)
  PROVE  PositionInv'
<1> USE PipelineAssumption
<1>1. CASE \E o \in Orders : Publish(o)
  <2>1. PICK o \in Orders : Publish(o)
    BY <1>1
  <2>2. AppendTo("orders", o) /\ UNCHANGED <<pos, taken>> /\ "orders" \in Services
    BY <2>1 DEF Publish, podVars, Services
  <2> QED
    BY <2>1, <2>2, AppendPreserves DEF Publish, podVars, PositionInv, PipeTypeOK
<1>2. CASE \E p \in Pods : BrokerAppend(p)
  <2>1. PICK p \in Pods : BrokerAppend(p)
    BY <1>2
  <2>2. hand[p] \in Orders /\ Sink(p) \in Services
    BY <2>1 DEF BrokerAppend, PositionInv, PipeTypeOK, Sink, Feeds, Services
  <2>3. AppendTo(Sink(p), hand[p]) /\ UNCHANGED <<pos, taken>>
    BY <2>1 DEF BrokerAppend
  <2>4. tries' \in [Pods -> 0..MaxCopies]
    BY <2>1 DEF BrokerAppend, PositionInv, PipeTypeOK
  <2> QED
    BY <2>1, <2>2, <2>3, <2>4, AppendPreserves DEF BrokerAppend, PositionInv, PipeTypeOK
<1>3. CASE \E s \in Services, o \in Orders : LateAppend(s, o)
  <2>1. PICK s \in Services, o \in Orders : LateAppend(s, o)
    BY <1>3
  <2>2. AppendTo(s, o) /\ UNCHANGED <<pos, taken>>
    BY <2>1 DEF LateAppend, podVars
  <2>3. late' \in [Services -> [Orders -> Nat]]
    BY <2>1 DEF LateAppend, PositionInv, PipeTypeOK
  <2> QED
    BY <2>1, <2>2, <2>3, AppendPreserves DEF LateAppend, podVars, PositionInv, PipeTypeOK
<1> QED
  BY <1>1, <1>2, <1>3

\* The loop body ends, or the pod restarts.
LEMMA DropPreserves ==
  ASSUME PositionInv, NEW p \in Pods, Drop(p)
  PROVE  /\ step' \in [Pods -> Steps]
         /\ hand' \in [Pods -> Orders \cup {NoOrder}]
         /\ \A q \in Pods : step'[q] = "idle" <=> hand'[q] = NoOrder
         /\ tries' \in [Pods -> 0..MaxCopies]
  BY PipelineAssumption DEF PositionInv, PipeTypeOK, Drop, Steps

LEMMA LatePreserves ==
  ASSUME PositionInv, NEW p \in Pods, step[p] = "sending", GiveUpSend(p)
  PROVE  late' \in [Services -> [Orders -> Nat]] /\ lost' \subseteq Orders
<1>1. hand[p] \in Orders /\ Sink(p) \in Services
  BY DEF PositionInv, PipeTypeOK, Sink, Feeds, Services
<1>2. PICK n \in 0..MaxCopies - tries[p] :
        /\ late' = [late EXCEPT ![Sink(p)][hand[p]] = @ + n]
        /\ Lose(IF tries[p] + n = 0 THEN {hand[p]} ELSE {})
  BY DEF GiveUpSend
<1>3. n \in Nat
  BY PipelineAssumption DEF PositionInv, PipeTypeOK
<1>4. lost' \subseteq Orders
  BY <1>1, <1>2 DEF Lose, PositionInv, PipeTypeOK
<1> QED
  BY <1>1, <1>2, <1>3, <1>4 DEF PositionInv, PipeTypeOK

\* An attempt on its way is lost.
LEMMA LateLostPreserves ==
  ASSUME PositionInv, NEW s \in Services, NEW o \in Orders, LateLost(s, o)
  PROVE  PositionInv'
<1>1. UNCHANGED <<topic, pos, taken>>
  BY DEF LateLost, podVars
<1>2. TakenInv'
  BY <1>1, StayBehind DEF PositionInv
<1>3. late' \in [Services -> [Orders -> Nat]] /\ lost' \subseteq Orders
  BY DEF LateLost, Lose, PositionInv, PipeTypeOK
<1> QED
  BY <1>2, <1>3 DEF LateLost, podVars, PositionInv, PipeTypeOK, Source

LEMMA QuietPreserves ==
  ASSUME PositionInv, NEW p \in Pods,
         \/ StreamEnds(p) \/ ConnectProducer(p) \/ Restart(p)
         \/ SkipPaused(p) \/ BeginSend(p) \/ SkipSend(p)
         \/ Acked(p) \/ SendFails(p) \/ Dispatch(p)
  PROVE  PositionInv'
<1> USE PipelineAssumption
<1>1. UNCHANGED <<topic, pos, taken>>
  BY DEF StreamEnds, ConnectProducer, Restart, SkipPaused, BeginSend, SkipSend,
         Acked, SendFails, Dispatch, logVars
<1>2. TakenInv'
  BY <1>1, StayBehind DEF PositionInv
<1>3. hand[p] \in Orders \cup {NoOrder} /\ (step[p] # "idle" => hand[p] \in Orders)
  BY DEF PositionInv, PipeTypeOK
<1>4. PipeTypeOK'
  <2>2. CASE StreamEnds(p)
    BY <2>2 DEF StreamEnds, logVars, PositionInv, PipeTypeOK
  <2>3. CASE ConnectProducer(p)
    BY <2>3 DEF ConnectProducer, logVars, PositionInv, PipeTypeOK
  <2>4. CASE Restart(p)
    <3>1. late' \in [Services -> [Orders -> Nat]] /\ lost' \subseteq Orders
      <4>1. CASE step[p] = "sending"
        BY <2>4, <4>1, LatePreserves DEF Restart
      <4>2. CASE step[p] # "sending"
        BY <2>4, <4>2, <1>3 DEF Restart, Lose, PositionInv, PipeTypeOK
      <4> QED
        BY <4>1, <4>2
    <3>2. restarts' \in 0..MaxRestarts
      BY <2>4 DEF Restart, PositionInv, PipeTypeOK
    <3>3. up' \in [Pods -> BOOLEAN] /\ ready' \in [Pods -> BOOLEAN]
      BY <2>4 DEF Restart, PositionInv, PipeTypeOK
    <3>5. paused' \in BOOLEAN
      BY <2>4, Zenon DEF Restart
    <3>4. Drop(p)
      BY <2>4 DEF Restart
    <3> QED
      BY <2>4, <3>1, <3>2, <3>3, <3>4, <3>5, DropPreserves DEF Restart, PositionInv, PipeTypeOK
  <2>5. CASE SkipPaused(p)
    BY <2>5, <1>3, DropPreserves DEF SkipPaused, Lose, logVars, PositionInv, PipeTypeOK
  <2>6. CASE BeginSend(p)
    BY <2>6 DEF BeginSend, logVars, PositionInv, PipeTypeOK, Steps
  <2>7. CASE SkipSend(p)
    BY <2>7, <1>3, DropPreserves DEF SkipSend, Lose, logVars, PositionInv, PipeTypeOK
  <2>8. CASE Acked(p)
    BY <2>8, DropPreserves DEF Acked, logVars, PositionInv, PipeTypeOK
  <2>9. CASE SendFails(p)
    <3>1. late' \in [Services -> [Orders -> Nat]] /\ lost' \subseteq Orders
      BY <2>9, LatePreserves DEF SendFails
    <3> QED
      BY <2>9, <3>1, DropPreserves DEF SendFails, PositionInv, PipeTypeOK
  <2>10. CASE Dispatch(p)
    <3>1. dispatched' \in [Orders -> Nat] /\ lost' \subseteq Orders
      <4>1. dispatched \in [Orders -> Nat] /\ lost \subseteq Orders
        BY DEF PositionInv, PipeTypeOK
      <4>2. hand[p] \in Orders
        BY <2>10, <1>3 DEF Dispatch
      <4>3. dispatched[hand[p]] + 1 \in Nat
        BY <4>1, <4>2
      <4>4. CASE dispatched' = [dispatched EXCEPT ![hand[p]] = @ + 1] /\ UNCHANGED lost
        BY <4>1, <4>3, <4>4
      <4>5. CASE Lose({hand[p]}) /\ UNCHANGED dispatched
        BY <4>1, <4>2, <4>5 DEF Lose
      <4> QED
        BY <2>10, <4>4, <4>5 DEF Dispatch
    <3> QED
      BY <2>10, <3>1, DropPreserves DEF Dispatch, logVars, PositionInv, PipeTypeOK
  <2> QED
    BY <2>2, <2>3, <2>4, <2>5, <2>6, <2>7, <2>8, <2>9, <2>10
<1> QED
  BY <1>2, <1>4 DEF PositionInv

LEMMA PausePreserves == PositionInv /\ Pause => PositionInv'
<1> SUFFICES ASSUME PositionInv, Pause PROVE PositionInv'
  OBVIOUS
<1>1. UNCHANGED <<topic, pos, taken>>
  BY DEF Pause, podVars, logVars
<1>2. PipeTypeOK'
  BY <1>1, PipelineAssumption DEF Pause, podVars, logVars, PositionInv, PipeTypeOK, Source
<1> QED
  BY <1>1, <1>2, StayBehind DEF PositionInv

\* A subscription moves the pod past everything the log holds.
LEMMA SubscribePreserves ==
  ASSUME PositionInv, NEW p \in Pods, Subscribe(p)
  PROVE  PositionInv'
<1> DEFINE log == topic[Source(p)]
<1>1. log \in Seq(Orders) /\ pos[p] \in Nat /\ pos[p] <= Len(log) + 1 /\ pos[p] # 0
  BY PipelineAssumption DEF PositionInv, PipeTypeOK, Source
<1>2. pos' = [pos EXCEPT ![p] = Len(log) + 1] /\ UNCHANGED <<topic, taken>>
  BY DEF Subscribe, logVars
<1>3. lost' \subseteq Orders
  <2>1. \A k \in pos[p]..Len(log) : log[k] \in Orders
    BY <1>1
  <2> QED
    BY <2>1 DEF Subscribe, Lose, PositionInv, PipeTypeOK
<1>4. PipeTypeOK'
  <2>1. Len(log) + 1 \in Nat \ {0}
    BY <1>1
  <2>2. pos' \in [Pods -> Nat \ {0}]
    BY <1>2, <2>1 DEF PositionInv, PipeTypeOK
  <2>3. \A q \in Pods : pos'[q] <= Len(topic'[Source(q)]) + 1
    BY <1>1, <1>2 DEF PositionInv, PipeTypeOK, Source
  <2> QED
    BY <1>3, <2>2, <2>3 DEF Subscribe, logVars, PositionInv, PipeTypeOK
<1>5. ASSUME NEW q \in Pods, NEW o \in Orders
      PROVE  taken'[q][o] <= Cardinality(Passed(topic'[Source(q)], pos'[q], o))
  <2>1. /\ topic[Source(q)] \in Seq(Orders)
        /\ pos[q] \in Nat
        /\ pos'[q] \in Nat
    BY <1>4, PipelineAssumption DEF PositionInv, PipeTypeOK, Source
  <2>2. pos[q] <= pos'[q]
    BY <1>1, <1>2, <2>1 DEF PositionInv, PipeTypeOK
  <2>3. Cardinality(Passed(topic[Source(q)], pos[q], o))
          <= Cardinality(Passed(topic[Source(q)], pos'[q], o))
    BY <2>1, <2>2, PassedGrows
  <2>4. /\ Cardinality(Passed(topic[Source(q)], pos[q], o)) \in Nat
        /\ Cardinality(Passed(topic[Source(q)], pos'[q], o)) \in Nat
    BY <2>1, PassedFinite
  <2>5. taken[q][o] \in Nat /\ taken[q][o] <= Cardinality(Passed(topic[Source(q)], pos[q], o))
    BY DEF PositionInv, PipeTypeOK, TakenInv
  <2> QED
    BY <1>2, <2>3, <2>4, <2>5
<1> QED
  BY <1>4, <1>5 DEF PositionInv, TakenInv, Source

\* What a pod takes it leaves behind.
LEMMA TakePreserves ==
  ASSUME PositionInv, NEW p \in Pods, Take(p)
  PROVE  PositionInv'
<1> DEFINE log == topic[Source(p)]
<1> DEFINE msg == log[pos[p]]
<1>1. log \in Seq(Orders) /\ pos[p] \in 1..Len(log) /\ msg \in Orders /\ msg # NoOrder
  <2>1. log \in Seq(Orders) /\ pos[p] \in Nat \ {0}
    BY PipelineAssumption DEF PositionInv, PipeTypeOK, Source
  <2>2. pos[p] <= Len(log)
    BY DEF Take
  <2>3. msg \in Orders
    BY <2>1, <2>2
  <2> QED
    BY <2>1, <2>2, <2>3, PipelineAssumption
<1>2. /\ pos' = [pos EXCEPT ![p] = @ + 1]
      /\ taken' = [taken EXCEPT ![p][msg] = @ + 1]
      /\ UNCHANGED topic
  BY DEF Take, logVars
<1>3. PipeTypeOK'
  <2>1. pos' \in [Pods -> Nat \ {0}]
    BY <1>2 DEF PositionInv, PipeTypeOK
  <2>2. ASSUME NEW q \in Pods
        PROVE  pos'[q] <= Len(topic'[Source(q)]) + 1
    <3>1. pos \in [Pods -> Nat \ {0}] /\ pos[q] <= Len(topic[Source(q)]) + 1
      BY DEF PositionInv, PipeTypeOK
    <3>2. UNCHANGED topic[Source(q)]
      BY <1>2 DEF Source
    <3>3. CASE q = p
      <4>1. pos'[q] = pos[p] + 1
        BY <1>2, <3>1, <3>3
      <4> QED
        BY <1>1, <3>2, <3>3, <4>1
    <3>4. CASE q # p
      <4>1. pos'[q] = pos[q]
        BY <1>2, <3>1, <3>4
      <4> QED
        BY <3>1, <3>2, <4>1
    <3> QED
      BY <3>3, <3>4
  <2>3. taken' \in [Pods -> [Orders -> Nat]]
    <3>1. taken \in [Pods -> [Orders -> Nat]]
      BY DEF PositionInv, PipeTypeOK
    <3>2. [taken[p] EXCEPT ![msg] = @ + 1] \in [Orders -> Nat]
      BY <1>1, <3>1
    <3> HIDE DEF msg
    <3> QED
      BY <1>2, <3>1, <3>2
  <2>4. /\ step' \in [Pods -> Steps]
        /\ hand' \in [Pods -> Orders \cup {NoOrder}]
        /\ \A q \in Pods : step'[q] = "idle" <=> hand'[q] = NoOrder
    BY <1>1 DEF Take, PositionInv, PipeTypeOK, Steps
  <2> QED
    BY <2>1, <2>2, <2>3, <2>4 DEF Take, logVars, PositionInv, PipeTypeOK
<1>4. ASSUME NEW q \in Pods, NEW o \in Orders
      PROVE  taken'[q][o] <= Cardinality(Passed(topic'[Source(q)], pos'[q], o))
  <2>1. topic[Source(q)] \in Seq(Orders) /\ pos[q] \in Nat /\ pos'[q] \in Nat
    BY <1>3, PipelineAssumption DEF PositionInv, PipeTypeOK, Source
  <2>2. /\ Cardinality(Passed(topic[Source(q)], pos[q], o)) \in Nat
        /\ Cardinality(Passed(topic[Source(q)], pos'[q], o)) \in Nat
    BY <2>1, PassedFinite
  <2>3. taken[q][o] \in Nat /\ taken[q][o] <= Cardinality(Passed(topic[Source(q)], pos[q], o))
    BY DEF PositionInv, PipeTypeOK, TakenInv
  <2>4. CASE q = p /\ o = msg
    <3>1. pos'[q] = pos[p] + 1 /\ taken'[q][o] = taken[p][msg] + 1
      BY <1>1, <1>2, <2>4 DEF PositionInv, PipeTypeOK
    <3>2. Cardinality(Passed(log, pos[p] + 1, msg)) = Cardinality(Passed(log, pos[p], msg)) + 1
      BY <1>1, PassedNext
    <3> QED
      BY <1>2, <2>2, <2>3, <2>4, <3>1, <3>2
  <2>5. CASE ~ (q = p /\ o = msg)
    <3>0. taken \in [Pods -> [Orders -> Nat]] /\ pos \in [Pods -> Nat \ {0}]
      BY DEF PositionInv, PipeTypeOK
    <3>3. pos'[q] = IF q = p THEN pos[q] + 1 ELSE pos[q]
      BY <1>2, <3>0
    <3>4. taken'[q][o] = taken[q][o]
      <4> HIDE DEF msg
      <4> QED
        BY <1>2, <2>5, <3>0
    <3>1. taken'[q][o] = taken[q][o] /\ pos[q] <= pos'[q]
      BY <2>1, <3>3, <3>4
    <3>2. Cardinality(Passed(topic[Source(q)], pos[q], o))
            <= Cardinality(Passed(topic[Source(q)], pos'[q], o))
      BY <2>1, <3>1, PassedGrows
    <3> QED
      BY <1>2, <2>2, <2>3, <3>1, <3>2
  <2> QED
    BY <2>4, <2>5
<1> QED
  BY <1>3, <1>4 DEF PositionInv, TakenInv, Source

LEMMA StepPreserves == PositionInv /\ [PipeNext]_vars => PositionInv'
<1> SUFFICES ASSUME PositionInv, [PipeNext]_vars PROVE PositionInv'
  OBVIOUS
<1>1. CASE \E o \in Orders : Publish(o)
  BY <1>1, AppendsPreserve
<1>2. CASE \E p \in Pods : PodStep(p)
  <2>1. PICK p \in Pods : PodStep(p)
    BY <1>2
  <2>2. CASE Take(p)
    BY <2>2, TakePreserves
  <2>3. CASE Subscribe(p)
    BY <2>3, SubscribePreserves
  <2>4. CASE BrokerAppend(p)
    BY <2>4, AppendsPreserve
  <2>5. CASE \/ StreamEnds(p) \/ ConnectProducer(p) \/ Restart(p)
             \/ SkipPaused(p) \/ BeginSend(p) \/ SkipSend(p)
             \/ Acked(p) \/ SendFails(p) \/ Dispatch(p)
    BY <2>5, QuietPreserves
  <2> QED
    BY <2>1, <2>2, <2>3, <2>4, <2>5 DEF PodStep, LoopStep
<1>3. CASE \E s \in Services, o \in Orders : LateAppend(s, o)
  BY <1>3, AppendsPreserve
<1>4. CASE Pause
  BY <1>4, PausePreserves
<1>5. CASE UNCHANGED vars
  BY <1>5, StayBehind DEF vars, podVars, logVars, PositionInv, PipeTypeOK, Source
<1>6. ASSUME NEW s \in Services, NEW o \in Orders, LateLost(s, o) PROVE PositionInv'
  BY <1>6, LateLostPreserves
<1> QED
  BY <1>1, <1>2, <1>3, <1>4, <1>5, <1>6 DEF PipeNext

--------------------------------------------------------------------------------

(* What becomes of an order *)

\* What a pod took of an order its topic holds.
LEMMA TakenOnce ==
  ASSUME PositionInv, NEW p \in Pods, NEW o \in Orders
  PROVE  taken[p][o] \in Nat /\ Copies(topic[Source(p)], o) \in Nat
         /\ taken[p][o] <= Copies(topic[Source(p)], o)
<1>1. topic[Source(p)] \in Seq(Orders) /\ pos[p] \in Nat /\ taken[p][o] \in Nat
  BY PipelineAssumption DEF PositionInv, PipeTypeOK, Source
<1>2. /\ Cardinality(Passed(topic[Source(p)], pos[p], o)) \in Nat
      /\ Cardinality(Offsets(topic[Source(p)], o)) \in Nat
      /\ Cardinality(Passed(topic[Source(p)], pos[p], o))
           <= Cardinality(Offsets(topic[Source(p)], o))
  BY <1>1, PassedFinite
<1>3. taken[p][o] <= Cardinality(Passed(topic[Source(p)], pos[p], o))
  BY DEF PositionInv, TakenInv
<1> QED
  BY <1>1, <1>2, <1>3 DEF Copies

LEMMA CopiesAppend ==
  ASSUME NEW log \in Seq(Orders), NEW m \in Orders, NEW o \in Orders
  PROVE  /\ Copies(log, o) \in Nat
         /\ Copies(Append(log, m), o) = IF m = o THEN Copies(log, o) + 1 ELSE Copies(log, o)
<1>1. IsFiniteSet(Offsets(log, o)) /\ Cardinality(Offsets(log, o)) \in Nat
  BY PassedFinite, 0 \in Nat
<1>2. Offsets(Append(log, m), o) = IF m = o THEN Offsets(log, o) \cup {Len(log) + 1} ELSE Offsets(log, o)
  BY DEF Offsets
<1>3. Len(log) + 1 \notin Offsets(log, o)
  BY DEF Offsets
<1> QED
  BY <1>1, <1>2, <1>3, FS_AddElement DEF Copies

\* One more message in one topic.
LEMMA CopiesAppended ==
  ASSUME PositionInv, NEW s \in Services, NEW o \in Orders, AppendTo(s, o),
         NEW t \in Services, NEW q \in Orders
  PROVE  Copies(topic'[t], q) = IF t = s /\ q = o THEN Copies(topic[t], q) + 1 ELSE Copies(topic[t], q)
<1>1. topic \in [Services -> Seq(Orders)]
  BY DEF PositionInv, PipeTypeOK
<1>2. topic'[t] = IF t = s THEN Append(topic[t], o) ELSE topic[t]
  BY <1>1 DEF AppendTo
<1> QED
  BY <1>1, <1>2, CopiesAppend

LEMMA AttemptsOf ==
  /\ \A s \in Services : Attempts(s) \in Nat \ {0}
  /\ \A s \in Services : s # "shipping" => Attempts(s) = MaxCopies
  /\ Attempts("shipping") = 1
  BY PipelineAssumption DEF Attempts

LEMMA MadeNumber ==
  ASSUME PositionInv, NEW s \in Services, NEW o \in Orders
  PROVE  Made(s, o) \in Nat
<1>1. Feeds(s) \in Services
  BY DEF Feeds, Services
<1>2. topic[Feeds(s)] \in Seq(Orders) /\ late[Feeds(s)][o] \in Nat /\ dispatched[o] \in Nat
  BY <1>1 DEF PositionInv, PipeTypeOK
<1>3. Copies(topic[Feeds(s)], o) \in Nat
  BY <1>2, CopiesAppend
<1> QED
  BY <1>2, <1>3 DEF Made

LEMMA PodsFinite == \A s : IsFiniteSet(PodsOf(s)) /\ PodsOf(s) \subseteq Pods
  BY PipelineAssumption, FS_Subset DEF PodsOf

\* The chances that an order has had in a service, and no more.
LEMMA ChancesOf ==
  ASSUME PositionInv, NEW s \in Services, NEW o \in Orders
  PROVE  /\ IsFiniteSet(Chances(s, o)) /\ Cardinality(Chances(s, o)) \in Nat
         /\ Cardinality(PodsOf(s)) \in Nat /\ Copies(topic[s], o) \in Nat
         /\ Cardinality(Chances(s, o)) <= Cardinality(PodsOf(s)) * (Copies(topic[s], o) * Attempts(s))
<1> DEFINE n == Copies(topic[s], o)
           U == (1..n) \X (1..Attempts(s))
<1>1. n \in Nat /\ Attempts(s) \in Nat
  BY CopiesAppend, AttemptsOf DEF PositionInv, PipeTypeOK
<1>2. \A p \in PodsOf(s) : taken[p][o] \in Nat /\ taken[p][o] <= n
  BY TakenOnce DEF PodsOf, Source
<1> HIDE DEF n
<1>3. /\ IsFiniteSet(1..n) /\ Cardinality(1..n) = n
      /\ IsFiniteSet(1..Attempts(s)) /\ Cardinality(1..Attempts(s)) = Attempts(s)
  BY <1>1, FS_Interval
<1>4. IsFiniteSet(U) /\ Cardinality(U) = n * Attempts(s)
  <2>1. IsFiniteSet(U) /\ Cardinality(U) = Cardinality(1..n) * Cardinality(1..Attempts(s))
    BY <1>3, FS_Product, Zenon
  <2> QED
    BY <1>3, <2>1, Zenon
<1> HIDE DEF U
<1>5. /\ IsFiniteSet(PodsOf(s) \X U)
      /\ Cardinality(PodsOf(s) \X U) = Cardinality(PodsOf(s)) * (n * Attempts(s))
  BY <1>4, PodsFinite, FS_Product
<1>6. Chances(s, o) \subseteq PodsOf(s) \X U
  BY <1>1, <1>2 DEF Chances, U
<1>7. IsFiniteSet(Chances(s, o)) /\ Cardinality(Chances(s, o)) <= Cardinality(PodsOf(s) \X U)
  BY <1>5, <1>6, FS_Subset
<1> QED
  BY <1>1, <1>5, <1>7, PodsFinite, FS_CardinalityType DEF n

LEMMA TimesOne ==
  ASSUME NEW x, NEW S, IsFiniteSet(S)
  PROVE  IsFiniteSet({x} \X S) /\ Cardinality({x} \X S) = Cardinality(S)
<1>1. IsFiniteSet({x}) /\ Cardinality({x}) = 1
  BY FS_Singleton, Zenon
<1>2. IsFiniteSet({x} \X S) /\ Cardinality({x} \X S) = Cardinality({x}) * Cardinality(S)
  BY <1>1, FS_Product, Zenon
<1>3. Cardinality(S) \in Nat
  BY FS_CardinalityType
<1>4. \A n \in Nat : 1 * n = n
  OBVIOUS
<1> QED
  BY <1>1, <1>2, <1>3, <1>4, Zenon

\* The chances left for the message in hand.
LEMMA SpareOf ==
  ASSUME PositionInv, SendInv, NEW p \in Pods, hand[p] \in Orders
  PROVE  /\ IsFiniteSet(Spare(p)) /\ tries[p] \in Nat /\ Attempts(Source(p)) \in Nat
         /\ tries[p] <= Attempts(Source(p))
         /\ Cardinality(Spare(p)) = Attempts(Source(p)) - tries[p]
<1> DEFINE t == taken[p][hand[p]]
           I == (tries[p] + 1)..Attempts(Source(p))
<1>1. Source(p) \in Services /\ Attempts(Source(p)) \in Nat \ {0}
  BY AttemptsOf, PipelineAssumption DEF Source
<1>2. tries[p] \in Nat /\ tries[p] <= MaxCopies
  BY PipelineAssumption DEF PositionInv, PipeTypeOK
<1>3. tries[p] <= Attempts(Source(p))
  BY <1>1, <1>2, AttemptsOf DEF SendInv
<1>4. IsFiniteSet(I) /\ Cardinality(I) = Attempts(Source(p)) - tries[p]
  <2> DEFINE a == tries[p] + 1
             b == Attempts(Source(p))
  <2>1. a \in Int /\ b \in Int /\ a = tries[p] + 1 /\ b = Attempts(Source(p))
    BY <1>1, <1>2
  <2> HIDE DEF a, b
  <2>2. IsFiniteSet(a..b) /\ Cardinality(a..b) = IF a > b THEN 0 ELSE b - a + 1
    BY <2>1, FS_Interval
  <2>3. Cardinality(a..b) = b - tries[p]
    BY <1>2, <1>3, <2>1, <2>2
  <2>4. I = a..b
    BY <2>1
  <2> QED
    BY <2>1, <2>2, <2>3, <2>4
<1> HIDE DEF I, t
<1>5. IsFiniteSet({t} \X I) /\ Cardinality({t} \X I) = Cardinality(I)
  BY <1>4, TimesOne
<1>6. IsFiniteSet({p} \X ({t} \X I)) /\ Cardinality({p} \X ({t} \X I)) = Cardinality({t} \X I)
  BY <1>5, TimesOne
<1>7. Spare(p) = {p} \X ({t} \X I)
  BY DEF Spare, t, I
<1> QED
  BY <1>1, <1>2, <1>3, <1>4, <1>5, <1>6, <1>7

LEMMA UnusedOf ==
  ASSUME PositionInv, NEW s \in Services, NEW o \in Orders
  PROVE  IsFiniteSet(Unused(s, o)) /\ Cardinality(Unused(s, o)) \in Nat
<1> DEFINE n == Copies(topic[s], o)
           U == (0..n) \X (1..Attempts(s))
<1>1. n \in Nat /\ Attempts(s) \in Nat
  BY CopiesAppend, AttemptsOf DEF PositionInv, PipeTypeOK
<1>2. \A p \in PodsOf(s) : taken[p][o] \in Nat /\ taken[p][o] <= n /\ tries[p] \in Nat /\ Source(p) = s
  BY TakenOnce, PipelineAssumption DEF PodsOf, Source, PositionInv, PipeTypeOK
<1> HIDE DEF n
<1>3. IsFiniteSet(0..n) /\ IsFiniteSet(1..Attempts(s))
  BY <1>1, FS_Interval
<1>4. IsFiniteSet(U)
  BY <1>3, FS_Product
<1> HIDE DEF U
<1>5. IsFiniteSet(PodsOf(s) \X U)
  BY <1>4, PodsFinite, FS_Product
<1>6. ASSUME NEW p \in PodsOf(s), hand[p] = o
      PROVE  Spare(p) \subseteq PodsOf(s) \X U
  BY <1>1, <1>2, <1>6 DEF Spare, U
<1>7. Unused(s, o) \subseteq PodsOf(s) \X U
  BY <1>6 DEF Unused
<1> QED
  BY <1>5, <1>7, FS_Subset, FS_CardinalityType

\* The chances left can be counted, before a step and after it.
Countable ==
  \A s \in Services, o \in Orders :
    /\ IsFiniteSet(Unused(s, o)) /\ Cardinality(Unused(s, o)) \in Nat
    /\ Made(s, o) \in Nat

LEMMA CountableNow == PositionInv => Countable
  BY UnusedOf, MadeNumber DEF Countable

LEMMA CountableLater == PositionInv' => Countable'
  BY CountableNow, PTL

\* Chances are used, or given up: what is made of an order grows by no more than those used.
LEMMA Spent ==
  ASSUME PositionInv, PositionInv', SpreadInv, UNCHANGED taken,
         NEW s \in Services, NEW o \in Orders, NEW D \in SUBSET Unused(s, o),
         Unused(s, o)' \subseteq Unused(s, o) \ D,
         Made(s, o)' <= Made(s, o) + Cardinality(D)
  PROVE  Made(s, o)' + Cardinality(Unused(s, o)') <= Cardinality(Chances(s, o)')
<1>1. Chances(s, o)' = Chances(s, o)
  BY DEF Chances, PodsOf, Attempts
<1>2. /\ IsFiniteSet(Unused(s, o)) /\ Cardinality(Unused(s, o)) \in Nat
      /\ IsFiniteSet(Unused(s, o)') /\ Cardinality(Unused(s, o)') \in Nat
  BY CountableNow, CountableLater DEF Countable
<1>3. IsFiniteSet(D) /\ Cardinality(D) \in Nat
  BY <1>2, FS_Subset, FS_CardinalityType
<1>4. /\ IsFiniteSet(Unused(s, o) \ D)
      /\ Cardinality(Unused(s, o) \ D) = Cardinality(Unused(s, o)) - Cardinality(D)
  <2>1. Unused(s, o) \cap D = D
    OBVIOUS
  <2> QED
    BY <1>2, <2>1, FS_Difference
<1>5. Cardinality(Unused(s, o)') <= Cardinality(Unused(s, o) \ D)
  BY <1>4, FS_Subset
<1>6. Made(s, o) \in Nat /\ Made(s, o)' \in Nat /\ Cardinality(Chances(s, o)) \in Nat
  BY CountableNow, CountableLater, ChancesOf DEF Countable
<1>7. Made(s, o) + Cardinality(Unused(s, o)) <= Cardinality(Chances(s, o))
  BY DEF SpreadInv
<1> QED
  BY <1>1, <1>2, <1>3, <1>4, <1>5, <1>6, <1>7

\* Nothing is made of an order, and no chance comes of it.
LEMMA Quiet ==
  ASSUME PositionInv, PositionInv', SpreadInv, UNCHANGED taken,
         NEW s \in Services, NEW o \in Orders,
         Unused(s, o)' \subseteq Unused(s, o), Made(s, o)' = Made(s, o) \/ Made(s, o)' <= Made(s, o)
  PROVE  Made(s, o)' + Cardinality(Unused(s, o)') <= Cardinality(Chances(s, o)')
<1>1. Cardinality({}) = 0 /\ Made(s, o) \in Nat /\ {} \in SUBSET Unused(s, o)
  BY FS_EmptySet, MadeNumber
<1>2. Made(s, o)' <= Made(s, o) + Cardinality({})
  BY <1>1
<1> QED
  BY <1>1, <1>2, Spent

\* The message in hand is what it was.
LEMMA Kept ==
  ASSUME UNCHANGED <<hand, tries, taken>>, NEW s, NEW o
  PROVE  Unused(s, o)' = Unused(s, o)
  BY DEF Unused, Spare, PodsOf, Attempts, Source

\* The message in hand is dropped, and its chances with it.
LEMMA Dropped ==
  ASSUME PositionInv, NEW p \in Pods, Drop(p), UNCHANGED taken, NEW s, NEW o \in Orders
  PROVE  Unused(s, o)' \subseteq Unused(s, o) \ Spare(p)
<1>1. \A q \in Pods : /\ hand'[q] = IF q = p THEN NoOrder ELSE hand[q]
                      /\ tries'[q] = IF q = p THEN 0 ELSE tries[q]
  BY DEF Drop, PositionInv, PipeTypeOK
<1>2. ASSUME NEW q \in PodsOf(s), hand'[q] = o
      PROVE  q # p /\ hand[q] = o /\ Spare(q)' = Spare(q)
  <2>1. q # p
    BY <1>1, <1>2, PipelineAssumption DEF PodsOf
  <2>2. hand'[q] = hand[q] /\ tries'[q] = tries[q]
    BY <1>1, <2>1 DEF PodsOf
  <2> QED
    BY <1>2, <2>1, <2>2 DEF Spare, Attempts, Source
<1>3. \A q : q # p => Spare(q) \cap Spare(p) = {}
  BY DEF Spare
<1>4. Unused(s, o)' = UNION {Spare(q)' : q \in {r \in PodsOf(s) : hand'[r] = o}}
  BY DEF Unused, PodsOf
<1> QED
  BY <1>2, <1>3, <1>4 DEF Unused

\* The chances of the message in hand are among those of its order.
LEMMA SpareUnused ==
  ASSUME NEW p \in Pods
  PROVE  Spare(p) \subseteq Unused(Source(p), hand[p])
  BY DEF Unused, PodsOf, Source

LEMMA Sending ==
  ASSUME PositionInv, SendInv, NEW p \in Pods, step[p] = "sending"
  PROVE  /\ hand[p] \in Orders /\ Source(p) \in Services /\ Source(p) # "shipping"
         /\ Sink(p) = Feeds(Source(p)) /\ Feeds(Source(p)) \in Services
         /\ Attempts(Source(p)) = MaxCopies /\ tries[p] \in 0..MaxCopies
<1>1. hand[p] \in Orders /\ tries[p] \in 0..MaxCopies
  BY DEF PositionInv, PipeTypeOK
<1>2. Source(p) \in Services /\ Source(p) # "shipping"
  BY PipelineAssumption DEF SendInv, Source
<1> QED
  BY <1>1, <1>2, AttemptsOf DEF Sink, Feeds, Services

\* Services feed different topics.
LEMMA FeedsApart ==
  \A s, t \in Services : s # "shipping" /\ t # "shipping" /\ Feeds(s) = Feeds(t) => s = t
  BY DEF Feeds, Services

\* Attempts that arrive late are made of the chances the sender had left.
LEMMA LateSpread ==
  ASSUME PositionInv, PositionInv', SendInv, SpreadInv, NEW p \in Pods, step[p] = "sending",
         Drop(p), GiveUpSend(p), UNCHANGED <<topic, taken, dispatched>>
  PROVE  SpreadInv'
<1> DEFINE s == Source(p)
           m == hand[p]
<1>1. /\ m \in Orders /\ s \in Services /\ s # "shipping" /\ Sink(p) = Feeds(s)
      /\ Feeds(s) \in Services /\ Attempts(s) = MaxCopies /\ tries[p] \in 0..MaxCopies
  BY Sending
<1>2. PICK n \in 0..MaxCopies - tries[p] : late' = [late EXCEPT ![Sink(p)][hand[p]] = @ + n]
  BY Zenon DEF GiveUpSend
<1> HIDE DEF s, m
<1>3. n \in Nat /\ n <= MaxCopies - tries[p]
  BY <1>1, <1>2, PipelineAssumption
<1>4. late' = [late EXCEPT ![Feeds(s)][m] = @ + n]
  BY <1>1, <1>2 DEF m
<1>5. Cardinality(Spare(p)) = MaxCopies - tries[p] /\ Spare(p) \subseteq Unused(s, m)
  BY <1>1, SpareOf, SpareUnused DEF s, m
<1>6. late \in [Services -> [Orders -> Nat]]
  BY DEF PositionInv, PipeTypeOK
<1>7. \A t \in Services, o \in Orders :
        late'[t][o] = IF t = Feeds(s) /\ o = m THEN late[t][o] + n ELSE late[t][o]
  BY <1>1, <1>4, <1>6
<1>8. ASSUME NEW t \in Services, NEW o \in Orders
      PROVE  Made(t, o)' + Cardinality(Unused(t, o)') <= Cardinality(Chances(t, o)')
  <2>1. Unused(t, o)' \subseteq Unused(t, o) \ Spare(p)
    BY Dropped
  <2>2. Feeds(t) \in Services
    BY DEF Feeds, Services
  <2>3. CASE t = s /\ o = m
    <3>1. Made(t, o)' = Made(t, o) + n
      <4>1. late'[Feeds(t)][o] = late[Feeds(t)][o] + n /\ late[Feeds(t)][o] \in Nat
        BY <1>6, <1>7, <2>2, <2>3
      <4>2. Copies(topic[Feeds(t)], o) \in Nat
        BY <2>2, CopiesAppend DEF PositionInv, PipeTypeOK
      <4>3. Made(t, o)' = Copies(topic[Feeds(t)], o) + late'[Feeds(t)][o]
        BY <1>1, <2>3 DEF Made, Feeds
      <4>4. Made(t, o) = Copies(topic[Feeds(t)], o) + late[Feeds(t)][o]
        BY <1>1, <2>3 DEF Made
      <4> QED
        BY <1>3, <4>1, <4>2, <4>3, <4>4
    <3>2. Made(t, o)' <= Made(t, o) + Cardinality(Spare(p))
      BY <1>1, <1>3, <1>5, <3>1, MadeNumber, PipelineAssumption
    <3>3. Spare(p) \in SUBSET Unused(t, o)
      BY <1>5, <2>3
    <3> QED
      BY <2>1, <3>2, <3>3, Spent
  <2>4. CASE ~ (t = s /\ o = m)
    <3>1. t # "shipping" => late'[Feeds(t)][o] = late[Feeds(t)][o]
      BY <1>1, <1>7, <2>2, <2>4, FeedsApart
    <3>2. Made(t, o)' = Made(t, o)
      BY <3>1 DEF Made, Feeds
    <3> QED
      BY <2>1, <3>2, Quiet
  <2> QED
    BY <2>3, <2>4
<1> QED
  BY <1>8 DEF SpreadInv

\* An attempt arrives.
LEMMA AppendSpread ==
  ASSUME PositionInv, PositionInv', SendInv, SpreadInv, NEW p \in Pods, BrokerAppend(p)
  PROVE  SpreadInv'
<1> DEFINE s == Source(p)
           m == hand[p]
           x == <<p, <<taken[p][m], tries[p] + 1>>>>
<1>1. /\ step[p] = "sending" /\ tries[p] < MaxCopies /\ AppendTo(Sink(p), m)
      /\ tries' = [tries EXCEPT ![p] = @ + 1]
      /\ UNCHANGED <<hand, late, taken, dispatched>>
  BY DEF BrokerAppend
<1>2. /\ m \in Orders /\ s \in Services /\ s # "shipping" /\ Sink(p) = Feeds(s)
      /\ Feeds(s) \in Services /\ Attempts(s) = MaxCopies /\ tries[p] \in 0..MaxCopies
  BY <1>1, Sending
<1> HIDE DEF s, m
<1>3. AppendTo(Feeds(s), m)
  BY <1>1, <1>2
<1>4. \A q \in Pods : tries'[q] = IF q = p THEN tries[p] + 1 ELSE tries[q]
  BY <1>1 DEF PositionInv, PipeTypeOK
<1>5. x \in Unused(s, m)
  <2>1. tries[p] + 1 \in (tries[p] + 1)..Attempts(Source(p))
    BY <1>1, <1>2, PipelineAssumption DEF s
  <2>2. x \in Spare(p)
    BY <2>1 DEF Spare, m
  <2> QED
    BY <2>2, SpareUnused DEF s, m
<1>6. ASSUME NEW t \in Services, NEW o \in Orders
      PROVE  /\ Unused(t, o)' \subseteq Unused(t, o)
             /\ t = s /\ o = m => Unused(t, o)' \subseteq Unused(t, o) \ {x}
  <2>1. ASSUME NEW q \in PodsOf(t), hand[q] = o
        PROVE  Spare(q)' \subseteq Spare(q) \ {x}
    <3>0. q \in Pods /\ tries[p] \in Nat /\ tries[q] \in Nat
      BY <1>2 DEF PodsOf, PositionInv, PipeTypeOK
    <3>1. Spare(q)' = {q} \X ({taken[q][hand[q]]} \X ((tries'[q] + 1)..Attempts(Source(q))))
      BY <1>1 DEF Spare, Attempts, Source
    <3>2. CASE q = p
      <4>1. (tries'[q] + 1)..Attempts(Source(q)) \subseteq ((tries[q] + 1)..Attempts(Source(q))) \ {tries[p] + 1}
        BY <1>2, <1>4, <3>0, <3>2, PipelineAssumption DEF s
      <4> QED
        BY <3>1, <3>2, <4>1 DEF Spare
    <3>3. CASE q # p
      BY <1>4, <3>0, <3>1, <3>3 DEF Spare
    <3> QED
      BY <3>2, <3>3
  <2>2. Unused(t, o)' = UNION {Spare(q)' : q \in {r \in PodsOf(t) : hand[r] = o}}
    BY <1>1 DEF Unused, PodsOf
  <2> HIDE DEF x
  <2>3. Unused(t, o)' \subseteq Unused(t, o) \ {x}
    BY <2>1, <2>2 DEF Unused
  <2> QED
    BY <2>3
<1> HIDE DEF x
<1>7. ASSUME NEW t \in Services, NEW o \in Orders
      PROVE  Made(t, o)' + Cardinality(Unused(t, o)') <= Cardinality(Chances(t, o)')
  <2>1. Feeds(t) \in Services
    BY DEF Feeds, Services
  <2>2. Copies(topic'[Feeds(t)], o) =
          IF Feeds(t) = Feeds(s) /\ o = m THEN Copies(topic[Feeds(t)], o) + 1 ELSE Copies(topic[Feeds(t)], o)
    BY <1>2, <1>3, <2>1, CopiesAppended
  <2>3. CASE t = s /\ o = m
    <3>1. Copies(topic[Feeds(t)], o) \in Nat /\ late[Feeds(t)][o] \in Nat
      BY <2>1, CopiesAppend DEF PositionInv, PipeTypeOK
    <3>2. Made(t, o)' = Copies(topic'[Feeds(t)], o) + late[Feeds(t)][o]
      BY <1>1, <1>2, <2>3 DEF Made, Feeds
    <3>3. Made(t, o) = Copies(topic[Feeds(t)], o) + late[Feeds(t)][o]
      BY <1>2, <2>3 DEF Made
    <3>4. Made(t, o)' = Made(t, o) + 1
      BY <2>2, <2>3, <3>1, <3>2, <3>3
    <3>5. Cardinality({x}) = 1 /\ {x} \in SUBSET Unused(t, o)
      BY <1>5, <2>3, FS_Singleton
    <3>6. Made(t, o)' <= Made(t, o) + Cardinality({x})
      BY <3>4, <3>5, MadeNumber
    <3> QED
      BY <1>1, <1>6, <2>3, <3>5, <3>6, Spent
  <2>4. CASE ~ (t = s /\ o = m)
    <3>1. t # "shipping" => Copies(topic'[Feeds(t)], o) = Copies(topic[Feeds(t)], o)
      BY <1>2, <2>2, <2>4, FeedsApart
    <3>2. Made(t, o)' = Made(t, o)
      BY <1>1, <3>1 DEF Made, Feeds
    <3> QED
      BY <1>1, <1>6, <3>2, Quiet
  <2> QED
    BY <2>3, <2>4
<1> QED
  BY <1>7 DEF SpreadInv

\* An attempt on its way arrives: there is one less on its way.
LEMMA LateAppendSpread ==
  ASSUME PositionInv, PositionInv', SpreadInv, NEW s \in Services, NEW m \in Orders, LateAppend(s, m)
  PROVE  SpreadInv'
<1>1. /\ late[s][m] > 0 /\ late' = [late EXCEPT ![s][m] = @ - 1] /\ AppendTo(s, m)
      /\ UNCHANGED <<hand, tries, taken, dispatched>>
  BY DEF LateAppend, podVars
<1>2. late \in [Services -> [Orders -> Nat]]
  BY DEF PositionInv, PipeTypeOK
<1>3. \A t \in Services, o \in Orders :
        late'[t][o] = IF t = s /\ o = m THEN late[t][o] - 1 ELSE late[t][o]
  BY <1>1, <1>2
<1>4. ASSUME NEW t \in Services, NEW o \in Orders
      PROVE  Made(t, o)' + Cardinality(Unused(t, o)') <= Cardinality(Chances(t, o)')
  <2>1. Feeds(t) \in Services
    BY DEF Feeds, Services
  <2>2. Copies(topic[Feeds(t)], o) \in Nat /\ late[Feeds(t)][o] \in Nat
    BY <1>2, <2>1, CopiesAppend DEF PositionInv, PipeTypeOK
  <2>3. Copies(topic'[Feeds(t)], o) + late'[Feeds(t)][o] = Copies(topic[Feeds(t)], o) + late[Feeds(t)][o]
    BY <1>1, <1>3, <2>1, <2>2, CopiesAppended
  <2>4. Made(t, o)' = Made(t, o)
    BY <1>1, <2>3 DEF Made, Feeds
  <2>5. Unused(t, o)' = Unused(t, o)
    BY <1>1, Kept
  <2> QED
    BY <1>1, <2>4, <2>5, Quiet
<1> QED
  BY <1>4 DEF SpreadInv

\* An attempt on its way is lost, and its chance with it.
LEMMA LateLostSpread ==
  ASSUME PositionInv, PositionInv', SpreadInv, NEW s \in Services, NEW m \in Orders, LateLost(s, m)
  PROVE  SpreadInv'
<1>1. /\ late[s][m] > 0 /\ late' = [late EXCEPT ![s][m] = @ - 1]
      /\ UNCHANGED <<topic, hand, tries, taken, dispatched>>
  BY DEF LateLost, podVars
<1>2. late \in [Services -> [Orders -> Nat]]
  BY DEF PositionInv, PipeTypeOK
<1>3. \A t \in Services, o \in Orders : late[t][o] \in Nat /\ late'[t][o] \in Nat /\ late'[t][o] <= late[t][o]
  BY <1>1, <1>2
<1>4. ASSUME NEW t \in Services, NEW o \in Orders
      PROVE  Made(t, o)' + Cardinality(Unused(t, o)') <= Cardinality(Chances(t, o)')
  <2>1. Feeds(t) \in Services
    BY DEF Feeds, Services
  <2>2. Copies(topic[Feeds(t)], o) \in Nat
    BY <2>1, CopiesAppend DEF PositionInv, PipeTypeOK
  <2>3. Copies(topic'[Feeds(t)], o) = Copies(topic[Feeds(t)], o)
    BY <1>1
  <2>4. Made(t, o)' = Made(t, o) \/ Made(t, o)' <= Made(t, o)
    BY <1>1, <1>3, <2>1, <2>2, <2>3 DEF Made, Feeds
  <2>5. Unused(t, o)' = Unused(t, o)
    BY <1>1, Kept
  <2> QED
    BY <1>1, <2>4, <2>5, Quiet
<1> QED
  BY <1>4 DEF SpreadInv

\* The message is dispatched: the one chance it has in shipping-service.
LEMMA DispatchSpread ==
  ASSUME PositionInv, PositionInv', SendInv, SpreadInv, NEW p \in Pods, Dispatch(p)
  PROVE  SpreadInv'
<1> DEFINE m == hand[p]
<1>1. /\ step[p] = "taken" /\ Source(p) = "shipping" /\ Drop(p)
      /\ \/ dispatched' = [dispatched EXCEPT ![m] = @ + 1]
         \/ dispatched' = dispatched
      /\ UNCHANGED <<topic, late, taken>>
  BY DEF Dispatch, logVars
<1>2. m \in Orders /\ dispatched \in [Orders -> Nat]
  BY <1>1 DEF PositionInv, PipeTypeOK
<1>3. tries[p] = 0
  BY <1>1, PipelineAssumption DEF SendInv, PositionInv, PipeTypeOK
<1>4. Cardinality(Spare(p)) = 1 /\ Spare(p) \subseteq Unused("shipping", m)
  <2>1. Attempts(Source(p)) = 1
    BY <1>1, AttemptsOf
  <2> QED
    BY <1>1, <1>2, <1>3, <2>1, SpareOf, SpareUnused
<1> HIDE DEF m
<1>5. \A o \in Orders : o # m => dispatched'[o] = dispatched[o]
  BY <1>1, <1>2
<1>6. dispatched'[m] <= dispatched[m] + 1
  BY <1>1, <1>2
<1>7. ASSUME NEW t \in Services, NEW o \in Orders
      PROVE  Made(t, o)' + Cardinality(Unused(t, o)') <= Cardinality(Chances(t, o)')
  <2>1. Unused(t, o)' \subseteq Unused(t, o) \ Spare(p)
    BY <1>1, Dropped
  <2>2. CASE t = "shipping" /\ o = m
    <3>1. Made(t, o)' = dispatched'[m] /\ Made(t, o) = dispatched[m]
      BY <2>2 DEF Made
    <3>2. Made(t, o)' <= Made(t, o) + Cardinality(Spare(p))
      BY <1>4, <1>6, <3>1
    <3>3. Spare(p) \in SUBSET Unused(t, o)
      BY <1>4, <2>2
    <3> QED
      BY <1>1, <2>1, <3>2, <3>3, Spent
  <2>3. CASE ~ (t = "shipping" /\ o = m)
    <3>1. Made(t, o)' = Made(t, o)
      BY <1>1, <1>5, <2>3 DEF Made, Feeds
    <3> QED
      BY <1>1, <2>1, <3>1, Quiet
  <2> QED
    BY <2>2, <2>3
<1> QED
  BY <1>7 DEF SpreadInv

\* A message that is taken brings its chances with it, all of them unused.
LEMMA TakeSpread ==
  ASSUME PositionInv, PositionInv', SendInv, SpreadInv, NEW p \in Pods, Take(p)
  PROVE  SpreadInv'
<1> DEFINE s == Source(p)
           m == topic[s][pos[p]]
           N == {p} \X ({taken[p][m] + 1} \X (1..Attempts(s)))
<1>1. /\ step[p] = "idle" /\ pos[p] <= Len(topic[s])
      /\ hand' = [hand EXCEPT ![p] = m] /\ taken' = [taken EXCEPT ![p][m] = @ + 1]
      /\ UNCHANGED <<tries, topic, late, dispatched>>
  BY DEF Take, logVars
<1>2. s \in Services /\ Attempts(s) \in Nat \ {0}
  BY PipelineAssumption, AttemptsOf DEF Source
<1>3. m \in Orders /\ m # NoOrder
  <2>1. topic[s] \in Seq(Orders) /\ pos[p] \in Nat \ {0}
    BY <1>2 DEF PositionInv, PipeTypeOK
  <2>2. pos[p] \in 1..Len(topic[s])
    BY <1>1, <2>1
  <2> QED
    BY <2>1, <2>2, PipelineAssumption
<1>4. hand[p] = NoOrder /\ tries[p] = 0
  <2>1. hand[p] = NoOrder
    BY <1>1 DEF PositionInv, PipeTypeOK
  <2>2. tries[p] \in Nat
    BY PipelineAssumption DEF PositionInv, PipeTypeOK
  <2>3. ~ (tries[p] > 0)
    BY <1>1 DEF SendInv
  <2> QED
    BY <2>1, <2>2, <2>3
<1> HIDE DEF m
<1>5. /\ taken \in [Pods -> [Orders -> Nat]] /\ hand \in [Pods -> Orders \cup {NoOrder}]
  BY DEF PositionInv, PipeTypeOK
<1>6. \A q \in Pods : hand'[q] = IF q = p THEN m ELSE hand[q]
  BY <1>1, <1>5
<1>7. \A q \in Pods, o \in Orders :
        taken'[q][o] = IF q = p /\ o = m THEN taken[q][o] + 1 ELSE taken[q][o]
  BY <1>1, <1>3, <1>5
<1>8. ASSUME NEW q \in Pods, q # p, hand[q] \in Orders
      PROVE  Spare(q)' = Spare(q)
  <2>1. hand'[q] = hand[q] /\ taken'[q][hand[q]] = taken[q][hand[q]] /\ tries'[q] = tries[q]
    BY <1>1, <1>6, <1>7, <1>8
  <2> QED
    BY <2>1 DEF Spare, Attempts, Source
<1>9. Spare(p)' = N
  <2>1. hand'[p] = m /\ taken'[p][m] = taken[p][m] + 1 /\ tries'[p] = 0
    BY <1>1, <1>3, <1>4, <1>6, <1>7
  <2> QED
    BY <2>1 DEF Spare, Attempts, Source
<1>10. ASSUME NEW t \in Services, NEW o \in Orders
       PROVE  Made(t, o)' + Cardinality(Unused(t, o)') <= Cardinality(Chances(t, o)')
  <2>1. Made(t, o)' = Made(t, o)
    BY <1>1 DEF Made, Feeds
  <2>2. Made(t, o) + Cardinality(Unused(t, o)) <= Cardinality(Chances(t, o))
    BY DEF SpreadInv
  <2>3. /\ IsFiniteSet(Unused(t, o)) /\ Cardinality(Unused(t, o)) \in Nat /\ Made(t, o) \in Nat
        /\ IsFiniteSet(Chances(t, o)) /\ Cardinality(Chances(t, o)) \in Nat
    BY CountableNow, ChancesOf DEF Countable
  <2>4. Unused(t, o)' = UNION {Spare(q)' : q \in {r \in PodsOf(t) : hand'[r] = o}}
    BY DEF Unused, PodsOf
  <2>5. Chances(t, o)' = UNION {{q} \X ((1..taken'[q][o]) \X (1..Attempts(t))) : q \in PodsOf(t)}
    BY DEF Chances, PodsOf, Attempts
  <2>6. CASE t = s /\ o = m
    <3>1. p \in PodsOf(t)
      BY <2>6 DEF PodsOf, Source
    <3>2. Unused(t, o)' = Unused(t, o) \cup N
      <4>1. {r \in PodsOf(t) : hand'[r] = o} = {r \in PodsOf(t) : hand[r] = o} \cup {p}
        BY <1>6, <2>6, <3>1 DEF PodsOf
      <4>2. ASSUME NEW q \in PodsOf(t), hand[q] = o
            PROVE  Spare(q)' = Spare(q)
        <5>1. q \in Pods /\ q # p /\ hand[q] \in Orders
          BY <1>4, <4>2, PipelineAssumption DEF PodsOf
        <5> QED
          BY <1>8, <5>1
      <4> HIDE DEF N
      <4> QED
        BY <1>9, <2>4, <4>1, <4>2 DEF Unused
    <3>3. Chances(t, o)' = Chances(t, o) \cup N
      <4>1. \A q \in PodsOf(t) : q # p => taken'[q][o] = taken[q][o]
        BY <1>7 DEF PodsOf
      <4>2. 1..taken'[p][o] = (1..taken[p][o]) \cup {taken[p][o] + 1}
        <5>1. taken[p][o] \in Nat /\ taken'[p][o] = taken[p][o] + 1
          BY <1>5, <1>7, <2>6
        <5>2. \A n \in Nat : 1..(n + 1) = (1..n) \cup {n + 1}
          OBVIOUS
        <5> QED
          BY <5>1, <5>2
      <4>3. {p} \X ((1..taken'[p][o]) \X (1..Attempts(t)))
              = ({p} \X ((1..taken[p][o]) \X (1..Attempts(t)))) \cup N
        BY <2>6, <4>2
      <4> HIDE DEF N
      <4> QED
        BY <2>5, <3>1, <4>1, <4>3 DEF Chances
    <3>4. Chances(t, o) \cap N = {}
      <4>1. taken[p][o] \in Nat
        BY <1>5
      <4> QED
        BY <2>6, <4>1 DEF Chances
    <3>5. IsFiniteSet(N) /\ Cardinality(N) \in Nat
      <4>1. IsFiniteSet(1..Attempts(s))
        BY <1>2, FS_Interval
      <4> QED
        BY <4>1, TimesOne, FS_CardinalityType
    <3> HIDE DEF N
    <3>6. Cardinality(Chances(t, o)') = Cardinality(Chances(t, o)) + Cardinality(N)
      <4>1. Cardinality({}) = 0
        BY FS_EmptySet
      <4>2. Cardinality(Chances(t, o) \cup N)
              = Cardinality(Chances(t, o)) + Cardinality(N) - Cardinality(Chances(t, o) \cap N)
        BY <2>3, <3>5, FS_Union
      <4>3. Cardinality(Chances(t, o)')
              = Cardinality(Chances(t, o)) + Cardinality(N) - Cardinality({})
        BY <3>3, <3>4, <4>2, Zenon
      <4> QED
        BY <2>3, <3>5, <4>1, <4>3
    <3>7. Cardinality(Unused(t, o)') <= Cardinality(Unused(t, o)) + Cardinality(N)
      <4>1. Cardinality(Unused(t, o) \cup N)
              = Cardinality(Unused(t, o)) + Cardinality(N) - Cardinality(Unused(t, o) \cap N)
        BY <2>3, <3>5, FS_Union
      <4>2. Cardinality(Unused(t, o) \cap N) \in Nat
        BY <2>3, FS_Subset, FS_CardinalityType
      <4> QED
        BY <2>3, <3>2, <3>5, <4>1, <4>2
    <3>8. Cardinality(Unused(t, o)') \in Nat
      BY CountableLater DEF Countable
    <3> QED
      BY <2>1, <2>2, <2>3, <3>5, <3>6, <3>7, <3>8
  <2>7. CASE ~ (t = s /\ o = m)
    <3>1. \A q \in PodsOf(t) : taken'[q][o] = taken[q][o]
      BY <1>7, <2>7 DEF PodsOf, Source
    <3>2. Chances(t, o)' = Chances(t, o)
      BY <2>5, <3>1 DEF Chances
    <3>3. \A q \in PodsOf(t) : hand'[q] = o <=> hand[q] = o
      BY <1>4, <1>6, <2>7, PipelineAssumption DEF PodsOf, Source
    <3>4. ASSUME NEW q \in PodsOf(t), hand[q] = o
          PROVE  Spare(q)' = Spare(q)
      <4>1. q \in Pods /\ q # p /\ hand[q] \in Orders
        BY <1>4, <3>4, PipelineAssumption DEF PodsOf
      <4> QED
        BY <1>8, <4>1
    <3>5. Unused(t, o)' = Unused(t, o)
      BY <2>4, <3>3, <3>4 DEF Unused
    <3> QED
      BY <2>1, <2>2, <3>2, <3>5
  <2> QED
    BY <2>6, <2>7
<1> QED
  BY <1>10 DEF SpreadInv

\* Steps that make nothing of an order: no chance is used, and those of the message in hand
\* are kept or given up.
LEMMA IdleSpread ==
  ASSUME PositionInv, PositionInv', SpreadInv, UNCHANGED <<taken, late, dispatched>>,
         \/ UNCHANGED <<hand, tries>>
         \/ \E p \in Pods : Drop(p),
         \A o \in Orders : /\ Copies(topic'["inventory"], o) = Copies(topic["inventory"], o)
                           /\ Copies(topic'["shipping"], o) = Copies(topic["shipping"], o)
  PROVE  SpreadInv'
<1>1. ASSUME NEW t \in Services, NEW o \in Orders
      PROVE  Made(t, o)' + Cardinality(Unused(t, o)') <= Cardinality(Chances(t, o)')
  <2>1. Made(t, o)' = Made(t, o)
    BY DEF Made, Feeds
  <2>2. Unused(t, o)' \subseteq Unused(t, o)
    <3>1. CASE UNCHANGED <<hand, tries>>
      BY <3>1, Kept
    <3>2. CASE \E p \in Pods : Drop(p)
      BY <3>2, Dropped
    <3> QED
      BY <3>1, <3>2
  <2> QED
    BY <2>1, <2>2, Quiet
<1> QED
  BY <1>1 DEF SpreadInv

LEMMA SpreadStep == PipeIndInv /\ PositionInv' /\ [PipeNext]_vars => SpreadInv'
<1> SUFFICES ASSUME PipeIndInv, PositionInv', [PipeNext]_vars
             PROVE  SpreadInv'
  OBVIOUS
<1>0. PositionInv /\ SendInv /\ SpreadInv
  BY DEF PipeIndInv
<1>1. ASSUME NEW o \in Orders, Publish(o)
      PROVE  SpreadInv'
  <2>1. AppendTo("orders", o) /\ UNCHANGED <<taken, late, dispatched, hand, tries>>
    BY <1>1 DEF Publish, podVars
  <2>2. \A q \in Orders : /\ Copies(topic'["inventory"], q) = Copies(topic["inventory"], q)
                          /\ Copies(topic'["shipping"], q) = Copies(topic["shipping"], q)
    BY <1>0, <2>1, CopiesAppended DEF Services
  <2> QED
    BY <1>0, <2>1, <2>2, IdleSpread
<1>2. ASSUME NEW p \in Pods, PodStep(p)
      PROVE  SpreadInv'
  <2>1. CASE Take(p)
    BY <1>0, <2>1, TakeSpread
  <2>2. CASE BrokerAppend(p)
    BY <1>0, <2>2, AppendSpread
  <2>3. CASE Dispatch(p)
    BY <1>0, <2>3, DispatchSpread
  <2>4. CASE SendFails(p)
    BY <1>0, <2>4, LateSpread DEF SendFails
  <2>5. CASE Restart(p)
    <3>1. Drop(p) /\ UNCHANGED <<topic, taken, dispatched>>
      BY <2>5 DEF Restart
    <3>2. CASE step[p] = "sending"
      BY <1>0, <2>5, <3>1, <3>2, LateSpread DEF Restart
    <3>3. CASE step[p] # "sending"
      BY <1>0, <2>5, <3>1, <3>3, IdleSpread DEF Restart
    <3> QED
      BY <3>2, <3>3
  <2>6. CASE SkipPaused(p) \/ SkipSend(p) \/ Acked(p)
    BY <1>0, <2>6, IdleSpread DEF SkipPaused, SkipSend, Acked, logVars
  <2>7. CASE BeginSend(p) \/ Subscribe(p) \/ StreamEnds(p) \/ ConnectProducer(p)
    BY <1>0, <2>7, IdleSpread DEF BeginSend, Subscribe, StreamEnds, ConnectProducer, logVars
  <2> QED
    BY <1>2, <2>1, <2>2, <2>3, <2>4, <2>5, <2>6, <2>7 DEF PodStep, LoopStep
<1>3. ASSUME NEW s \in Services, NEW o \in Orders, LateAppend(s, o)
      PROVE  SpreadInv'
  BY <1>0, <1>3, LateAppendSpread
<1>4. CASE Pause \/ UNCHANGED vars
  BY <1>0, <1>4, IdleSpread DEF Pause, vars, podVars, logVars
<1>5. ASSUME NEW s \in Services, NEW o \in Orders, LateLost(s, o)
      PROVE  SpreadInv'
  BY <1>0, <1>5, LateLostSpread
<1> QED
  BY <1>1, <1>2, <1>3, <1>4, <1>5 DEF PipeNext

LEMMA SendStep == PipeIndInv /\ [PipeNext]_vars => SendInv'
<1> SUFFICES ASSUME PipeIndInv, [PipeNext]_vars
             PROVE  SendInv'
  OBVIOUS
<1>0. SendInv /\ step \in [Pods -> Steps] /\ tries \in [Pods -> 0..MaxCopies]
  BY DEF PipeIndInv, PositionInv, PipeTypeOK
<1>1. CASE UNCHANGED <<step, tries>>
  BY <1>0, <1>1 DEF SendInv, Source
<1>2. ASSUME NEW p \in Pods, Drop(p)
      PROVE  SendInv'
  BY <1>0, <1>2 DEF Drop, SendInv, Source
<1>3. ASSUME NEW p \in Pods, Take(p)
      PROVE  SendInv'
  BY <1>0, <1>3 DEF Take, SendInv, Source
<1>4. ASSUME NEW p \in Pods, BeginSend(p)
      PROVE  SendInv'
  BY <1>0, <1>4 DEF BeginSend, SendInv, Source
<1>5. ASSUME NEW p \in Pods, BrokerAppend(p)
      PROVE  SendInv'
  BY <1>0, <1>5 DEF BrokerAppend, SendInv, Source
<1>6. ASSUME NEW p \in Pods, PodStep(p)
      PROVE  SendInv'
  <2>1. CASE Take(p) \/ BeginSend(p) \/ BrokerAppend(p)
    BY <1>3, <1>4, <1>5, <2>1
  <2>2. CASE SkipPaused(p) \/ SkipSend(p) \/ Acked(p) \/ SendFails(p) \/ Dispatch(p) \/ Restart(p)
    BY <1>2, <2>2 DEF SkipPaused, SkipSend, Acked, SendFails, Dispatch, Restart
  <2>3. CASE Subscribe(p) \/ StreamEnds(p) \/ ConnectProducer(p)
    BY <1>1, <2>3 DEF Subscribe, StreamEnds, ConnectProducer
  <2> QED
    BY <1>6, <2>1, <2>2, <2>3 DEF PodStep, LoopStep
<1> QED
  BY <1>1, <1>6 DEF PipeNext, Publish, LateAppend, LateLost, Pause, vars, podVars

LEMMA InitSpread == PipeInit => SendInv /\ SpreadInv
<1> SUFFICES ASSUME PipeInit
             PROVE  SendInv /\ SpreadInv
  OBVIOUS
<1>1. SendInv
  BY DEF PipeInit, SendInv
<1>2. ASSUME NEW s \in Services, NEW o \in Orders
      PROVE  Made(s, o) + Cardinality(Unused(s, o)) <= Cardinality(Chances(s, o))
  <2>1. Unused(s, o) = {}
    BY PipelineAssumption DEF PipeInit, Unused, PodsOf
  <2>2. Chances(s, o) = {}
    BY DEF PipeInit, Chances, PodsOf
  <2>3. Made(s, o) = 0
    <3>1. Feeds(s) \in Services
      BY DEF Feeds, Services
    <3>2. Offsets(<<>>, o) = {}
      BY DEF Offsets
    <3>3. Copies(topic[Feeds(s)], o) = 0
      BY <3>1, <3>2, FS_EmptySet DEF PipeInit, Copies
    <3> QED
      BY <3>1, <3>3 DEF PipeInit, Made
  <2> QED
    BY <2>1, <2>2, <2>3, FS_EmptySet
<1> QED
  BY <1>1, <1>2 DEF SpreadInv

--------------------------------------------------------------------------------

(* What is proved of every behaviour *)

\* The state of the pipeline has its types, no pod is past the end of its topic, what a pod
\* took of an order lies behind its position, and what is made of an order is made of the
\* chances that a taken message has, through every reconnect, restart and late message.
THEOREM PipelineInvariant == PipeSpec => []PipeIndInv
<1>1. PipeInit => PipeIndInv
  BY InitPositionInv, InitSpread DEF PipeIndInv
<1>2. PipeIndInv /\ [PipeNext]_vars => PipeIndInv'
  BY StepPreserves, SendStep, SpreadStep DEF PipeIndInv
<1> QED
  BY <1>1, <1>2, PTL DEF PipeSpec

\* No pod handles a message twice: it takes an order at most as often as its
\* topic holds it.
THEOREM PipelineHandledAtMostOnce == PipeSpec => []HandledAtMostOnce
<1>1. PipeIndInv => HandledAtMostOnce
  BY TakenOnce DEF PipeIndInv, HandledAtMostOnce
<1> QED
  BY <1>1, PipelineInvariant, PTL

\* Each pod of a service passes on each copy it reads, and each send may arrive MaxCopies
\* times, whatever restarts and arrives late: an order multiplies by no more than that.
THEOREM PipelineAmplification == PipeSpec => []Amplification
<1>1. PipeIndInv => Amplification
  <2> SUFFICES ASSUME PipeIndInv, NEW o \in Orders
               PROVE  /\ Copies(topic["inventory"], o)
                           <= Copies(topic["orders"], o) * Cardinality(PodsOf("orders")) * MaxCopies
                      /\ Copies(topic["shipping"], o)
                           <= Copies(topic["inventory"], o) * Cardinality(PodsOf("inventory")) * MaxCopies
                      /\ dispatched[o] <= Copies(topic["shipping"], o) * Cardinality(PodsOf("shipping"))
    BY DEF Amplification
  <2>1. PositionInv /\ SpreadInv
    BY DEF PipeIndInv
  <2>2. ASSUME NEW s \in Services
        PROVE  /\ Made(s, o) <= Cardinality(PodsOf(s)) * (Copies(topic[s], o) * Attempts(s))
               /\ Cardinality(PodsOf(s)) \in Nat /\ Copies(topic[s], o) \in Nat /\ Made(s, o) \in Nat
    <3> DEFINE most == Cardinality(PodsOf(s)) * (Copies(topic[s], o) * Attempts(s))
    <3>1. Made(s, o) + Cardinality(Unused(s, o)) <= Cardinality(Chances(s, o))
      BY <2>1 DEF SpreadInv
    <3>2. /\ Made(s, o) \in Nat /\ Cardinality(Unused(s, o)) \in Nat
      BY <2>1, CountableNow DEF Countable
    <3>3. /\ Cardinality(Chances(s, o)) \in Nat /\ Cardinality(Chances(s, o)) <= most
          /\ Cardinality(PodsOf(s)) \in Nat /\ Copies(topic[s], o) \in Nat
      BY <2>1, ChancesOf
    <3>4. most \in Nat
      BY <3>3, AttemptsOf
    <3> HIDE DEF most
    <3>5. Made(s, o) <= most
      BY <3>1, <3>2, <3>3, <3>4
    <3> QED
      BY <3>2, <3>3, <3>5 DEF most
  <2>3. \A a, b, c \in Nat : a * (b * c) = b * a * c
    OBVIOUS
  <2>4. {"orders", "inventory", "shipping"} \subseteq Services /\ MaxCopies \in Nat
    BY PipelineAssumption DEF Services
  <2>5. /\ Attempts("orders") = MaxCopies /\ Attempts("inventory") = MaxCopies
        /\ Attempts("shipping") = 1
    BY <2>4, AttemptsOf
  <2>6. ASSUME NEW s \in Services, s # "shipping"
        PROVE  Copies(topic[Feeds(s)], o) <= Copies(topic[s], o) * Cardinality(PodsOf(s)) * MaxCopies
    <3>1. Made(s, o) = Copies(topic[Feeds(s)], o) + late[Feeds(s)][o]
      BY <2>6 DEF Made
    <3>2. Copies(topic[Feeds(s)], o) \in Nat /\ late[Feeds(s)][o] \in Nat
      BY <2>1, CopiesAppend DEF Feeds, Services, PositionInv, PipeTypeOK
    <3>3. Made(s, o) <= Copies(topic[s], o) * Cardinality(PodsOf(s)) * MaxCopies
      BY <2>2, <2>3, <2>4, <2>6, AttemptsOf
    <3> DEFINE most == Copies(topic[s], o) * Cardinality(PodsOf(s)) * MaxCopies
    <3>4. most \in Nat
      BY <2>2, <2>4
    <3> HIDE DEF most
    <3>5. Made(s, o) <= most
      BY <3>3 DEF most
    <3>6. Copies(topic[Feeds(s)], o) <= most
      BY <3>1, <3>2, <3>4, <3>5
    <3> QED
      BY <3>6 DEF most
  <2>7. dispatched[o] <= Copies(topic["shipping"], o) * Cardinality(PodsOf("shipping"))
    <3>1. Made("shipping", o) = dispatched[o]
      BY DEF Made
    <3>2. \A a, b \in Nat : a * (b * 1) = b * a
      OBVIOUS
    <3> QED
      BY <2>2, <2>4, <2>5, <3>1, <3>2
  <2>8. Feeds("orders") = "inventory" /\ Feeds("inventory") = "shipping"
    BY DEF Feeds
  <2> QED
    BY <2>4, <2>6, <2>7, <2>8
<1> QED
  BY <1>1, PipelineInvariant, PTL
================================================================================
