----------------------------- MODULE OrderPipeline -----------------------------
(***************************************************************************)
(* The order pipeline behind the checkout:                                 *)
(*   orders-service     regression-lab-orders -> reserve in inventory ->   *)
(*                      regression-lab-inventory-updates                   *)
(*   inventory-service  regression-lab-inventory-updates ->                *)
(*                      regression-lab-shipping-events                     *)
(*   shipping-service   regression-lab-shipping-events -> dispatch in      *)
(*                      warehouse-service                                  *)
(* (environment/services/<service>/main.go, consumeKafka and kafkaSend).   *)
(* Every pod of a service reads all of partition 0 for itself: the group   *)
(* id is not used, no offset is committed, and each subscription starts    *)
(* at the newest offset.  The reservation key in Redis and the             *)
(* notifications are read by nothing here and are left out.                *)
(***************************************************************************)
EXTENDS Naturals, Sequences, FiniteSets

CONSTANTS
  Orders,
  Pods,
  ServiceOf,    \* the service a pod runs
  NoOrder,      \* no message in hand
  MaxCopies,    \* bound: produce attempts of one SendMessage that arrive
  MaxRestarts   \* bound: restarts of pods

Services == {"orders", "inventory", "shipping"}

ASSUME PipelineAssumption ==
  /\ IsFiniteSet(Pods)
  /\ ServiceOf \in [Pods -> Services]
  /\ NoOrder \notin Orders
  /\ MaxCopies \in Nat \ {0}
  /\ MaxRestarts \in Nat

VARIABLES
  topic,        \* the log of the topic each service reads
  up,           \* the pod has a partition consumer
  pos,          \* offset the pod reads next
  step,         \* where the pod's consumer loop is
  hand,         \* the order it is working on
  tries,        \* attempts of its SendMessage the broker has appended
  ready,        \* initKafkaProducer has connected
  paused,       \* consumerPaused of inventory-service
  late,         \* attempts of a send that may arrive after its sender gave up
  restarts,
  taken,        \* history: messages of an order a pod took
  dispatched,   \* dispatches of an order in warehouse-service
  lost          \* history: orders of which a message was dropped, and will not arrive

podVars == <<up, pos, step, hand, tries, ready>>
logVars == <<topic, late>>
vars == <<podVars, logVars, paused, restarts, taken, dispatched, lost>>

Steps == {"idle", "taken", "sending"}

\* The topic a pod reads, and for the two that produce, the service it feeds.
Source(p) == ServiceOf[p]
Feeds(s) == IF s = "orders" THEN "inventory" ELSE "shipping"
Sink(p) == Feeds(Source(p))

\* Offsets at which a log holds an order.
Offsets(log, o) == {k \in 1..Len(log) : log[k] = o}
Copies(log, o) == Cardinality(Offsets(log, o))

PipeTypeOK ==
  /\ topic \in [Services -> Seq(Orders)]
  /\ up \in [Pods -> BOOLEAN]
  /\ pos \in [Pods -> Nat \ {0}]
  /\ \A p \in Pods : pos[p] <= Len(topic[Source(p)]) + 1
  /\ step \in [Pods -> Steps]
  /\ hand \in [Pods -> Orders \cup {NoOrder}]
  /\ \A p \in Pods : step[p] = "idle" <=> hand[p] = NoOrder
  /\ tries \in [Pods -> 0..MaxCopies]
  /\ ready \in [Pods -> BOOLEAN]
  /\ paused \in BOOLEAN
  /\ late \in [Services -> [Orders -> Nat]]
  /\ restarts \in 0..MaxRestarts
  /\ taken \in [Pods -> [Orders -> Nat]]
  /\ dispatched \in [Orders -> Nat]
  /\ lost \subseteq Orders

PipeInit ==
  /\ topic = [s \in Services |-> <<>>]
  /\ up = [p \in Pods |-> FALSE]
  /\ pos = [p \in Pods |-> 1]
  /\ step = [p \in Pods |-> "idle"]
  /\ hand = [p \in Pods |-> NoOrder]
  /\ tries = [p \in Pods |-> 0]
  /\ ready = [p \in Pods |-> FALSE]
  /\ paused = FALSE
  /\ late = [s \in Services |-> [o \in Orders |-> 0]]
  /\ restarts = 0
  /\ taken = [p \in Pods |-> [o \in Orders |-> 0]]
  /\ dispatched = [o \in Orders |-> 0]
  /\ lost = {}

\* The loop body is over for the message in hand.
Drop(p) ==
  /\ step' = [step EXCEPT ![p] = "idle"]
  /\ hand' = [hand EXCEPT ![p] = NoOrder]
  /\ tries' = [tries EXCEPT ![p] = 0]

Lose(orders) == lost' = lost \cup orders

AppendTo(s, o) == topic' = [topic EXCEPT ![s] = Append(@, o)]

\* The send in progress is given up: attempts may be on their way to the broker still, and
\* the message is lost when none is and none was appended.
GiveUpSend(p) ==
  \E n \in 0..MaxCopies - tries[p] :
    /\ late' = [late EXCEPT ![Sink(p)][hand[p]] = @ + n]
    /\ Lose(IF tries[p] + n = 0 THEN {hand[p]} ELSE {})

--------------------------------------------------------------------------------

(* Mutants: plausible faults of this code; each one breaks a property below. *)

\* ConsumePartition is called with OffsetOldest.
MutSubscribeOldest(p) ==
  /\ ~ up[p]
  /\ up' = [up EXCEPT ![p] = TRUE]
  /\ pos' = [pos EXCEPT ![p] = 1]
  /\ UNCHANGED <<step, hand, tries, ready, logVars, paused, restarts, taken, dispatched, lost>>

\* kafkaSend repeats a message that was acknowledged.
MutAckResends(p) ==
  /\ step[p] = "sending"
  /\ tries[p] > 0
  /\ Copies(topic[Sink(p)], hand[p]) < 3
  /\ tries' = [tries EXCEPT ![p] = 0]
  /\ UNCHANGED <<up, pos, step, hand, ready, logVars, paused, restarts, taken, dispatched, lost>>

\* SendMessage waits for the broker without a timeout.
MutSendWaits(p) ==
  /\ step[p] = "sending"
  /\ tries[p] > 0
  /\ Drop(p)
  /\ UNCHANGED <<up, pos, ready, logVars, paused, restarts, taken, dispatched, lost>>

--------------------------------------------------------------------------------

(* The producers of the first topic and the operator *)

\* checkout publishes an order; its own send may arrive more than once.
Publish(o) ==
  /\ Copies(topic["orders"], o) < MaxCopies
  /\ AppendTo("orders", o)
  /\ UNCHANGED <<podVars, late, paused, restarts, taken, dispatched, lost>>

\* POST /admin/config?pause_consumer=true or false at inventory-service.
Pause ==
  /\ paused' = ~ paused
  /\ UNCHANGED <<podVars, logVars, restarts, taken, dispatched, lost>>

--------------------------------------------------------------------------------

(* The life of a pod *)

\* NewConsumer and ConsumePartition succeed: messages appended since the last
\* subscription ended, or before the first, are never read.
Subscribe(p) ==
  LET log == topic[Source(p)]
  IN  /\ ~ up[p]
      /\ up' = [up EXCEPT ![p] = TRUE]
      /\ pos' = [pos EXCEPT ![p] = Len(log) + 1]
      /\ Lose({log[k] : k \in pos[p]..Len(log)})
      /\ UNCHANGED <<step, hand, tries, ready, logVars, paused, restarts, taken, dispatched>>

\* The client closes Messages(); the loop body in progress ends first.
StreamEnds(p) ==
  /\ up[p]
  /\ step[p] = "idle"
  /\ up' = [up EXCEPT ![p] = FALSE]
  /\ UNCHANGED <<pos, step, hand, tries, ready, logVars, paused, restarts, taken, dispatched, lost>>

\* initKafkaProducer runs beside the consumer and the HTTP server; after five
\* failures it gives up and kafkaProducer stays nil.
ConnectProducer(p) ==
  /\ ~ ready[p]
  /\ Source(p) # "shipping"
  /\ ready' = [ready EXCEPT ![p] = TRUE]
  /\ UNCHANGED <<up, pos, step, hand, tries, logVars, paused, restarts, taken, dispatched, lost>>

\* What the pod held in memory is gone; a produce request on the wire is not.
\* consumerPaused starts as 0.
Restart(p) ==
  /\ restarts < MaxRestarts
  /\ restarts' = restarts + 1
  /\ up' = [up EXCEPT ![p] = FALSE]
  /\ ready' = [ready EXCEPT ![p] = FALSE]
  /\ Drop(p)
  /\ IF step[p] = "sending" THEN GiveUpSend(p) ELSE Lose({hand[p]} \ {NoOrder}) /\ UNCHANGED late
  /\ paused' = (paused /\ Source(p) # "inventory")
  /\ UNCHANGED <<topic, pos, taken, dispatched>>

--------------------------------------------------------------------------------

(* The consumer loop *)

Take(p) ==
  LET log == topic[Source(p)]
  IN  /\ up[p]
      /\ step[p] = "idle"
      /\ pos[p] <= Len(log)
      /\ step' = [step EXCEPT ![p] = "taken"]
      /\ hand' = [hand EXCEPT ![p] = log[pos[p]]]
      /\ pos' = [pos EXCEPT ![p] = @ + 1]
      /\ taken' = [taken EXCEPT ![p][log[pos[p]]] = @ + 1]
      /\ UNCHANGED <<up, tries, ready, logVars, paused, restarts, dispatched, lost>>

\* inventory-service is paused: it sleeps 500 ms and goes on with the next
\* message.
SkipPaused(p) ==
  /\ step[p] = "taken"
  /\ Source(p) = "inventory"
  /\ paused
  /\ Drop(p)
  /\ Lose({hand[p]})
  /\ UNCHANGED <<up, pos, ready, logVars, paused, restarts, taken, dispatched>>

\* kafkaSend, in orders-service once the reservation call has returned, whatever
\* it returned, and in inventory-service when it is not paused.
BeginSend(p) ==
  /\ step[p] = "taken"
  /\ Source(p) # "shipping"
  /\ Source(p) = "inventory" => ~ paused
  /\ ready[p]
  /\ step' = [step EXCEPT ![p] = "sending"]
  /\ UNCHANGED <<up, pos, hand, tries, ready, logVars, paused, restarts, taken, dispatched, lost>>

\* kafkaSend with a nil kafkaProducer returns without a word.
SkipSend(p) ==
  /\ step[p] = "taken"
  /\ Source(p) # "shipping"
  /\ Source(p) = "inventory" => ~ paused
  /\ ~ ready[p]
  /\ Drop(p)
  /\ Lose({hand[p]})
  /\ UNCHANGED <<up, pos, ready, logVars, paused, restarts, taken, dispatched>>

\* The broker appends an attempt of SendMessage.
BrokerAppend(p) ==
  /\ step[p] = "sending"
  /\ tries[p] < MaxCopies
  /\ AppendTo(Sink(p), hand[p])
  /\ tries' = [tries EXCEPT ![p] = @ + 1]
  /\ UNCHANGED <<up, pos, step, hand, ready, late, paused, restarts, taken, dispatched, lost>>

\* SendMessage returns: an attempt was acknowledged.
Acked(p) ==
  /\ step[p] = "sending"
  /\ tries[p] > 0
  /\ Drop(p)
  /\ UNCHANGED <<up, pos, ready, logVars, paused, restarts, taken, dispatched, lost>>

\* SendMessage returns an error, which is logged; a request may still arrive.
SendFails(p) ==
  /\ step[p] = "sending"
  /\ Drop(p)
  /\ GiveUpSend(p)
  /\ UNCHANGED <<up, pos, ready, topic, paused, restarts, taken, dispatched>>

LateAppend(s, o) ==
  /\ late[s][o] > 0
  /\ late' = [late EXCEPT ![s][o] = @ - 1]
  /\ AppendTo(s, o)
  /\ UNCHANGED <<podVars, paused, restarts, taken, dispatched, lost>>

\* It never arrives.
LateLost(s, o) ==
  /\ late[s][o] > 0
  /\ late' = [late EXCEPT ![s][o] = @ - 1]
  /\ Lose({o})
  /\ UNCHANGED <<podVars, topic, paused, restarts, taken, dispatched>>

\* shipping-service: POST /warehouse/dispatch, its result ignored.
Dispatch(p) ==
  /\ step[p] = "taken"
  /\ Source(p) = "shipping"
  /\ Drop(p)
  /\ \/ dispatched' = [dispatched EXCEPT ![hand[p]] = @ + 1] /\ UNCHANGED lost
     \/ Lose({hand[p]}) /\ UNCHANGED dispatched
  /\ UNCHANGED <<up, pos, ready, logVars, paused, restarts, taken>>

--------------------------------------------------------------------------------

LoopStep(p) ==
  \/ Take(p) \/ SkipPaused(p) \/ BeginSend(p) \/ SkipSend(p)
  \/ Acked(p) \/ SendFails(p) \/ Dispatch(p)

PodStep(p) == LoopStep(p) \/ Subscribe(p) \/ StreamEnds(p) \/ ConnectProducer(p)
              \/ Restart(p) \/ BrokerAppend(p)

PipeNext ==
  \/ \E o \in Orders : Publish(o)
  \/ \E p \in Pods : PodStep(p)
  \/ \E s \in Services, o \in Orders : LateAppend(s, o) \/ LateLost(s, o)
  \/ Pause

PipeSpec == PipeInit /\ [][PipeNext]_vars

\* Loops are scheduled, their calls have timeouts, and the reconnect loop retries
\* every 5 s until Kafka answers, which it is assumed to do in the end.  A request on the
\* wire arrives in the end or is lost with its connection.
PipeFairness ==
  /\ \A p \in Pods : WF_vars(LoopStep(p)) /\ WF_vars(Subscribe(p))
  /\ \A s \in Services, o \in Orders : WF_vars(LateAppend(s, o) \/ LateLost(s, o))

PipeFairSpec == PipeSpec /\ PipeFairness

--------------------------------------------------------------------------------

\* A pod handles no message twice, through reconnects and restarts: starting at
\* the newest offset only ever moves a pod forward.
HandledAtMostOnce ==
  \A p \in Pods, o \in Orders : taken[p][o] <= Copies(topic[Source(p)], o)

PodsOf(s) == {p \in Pods : ServiceOf[p] = s}

\* How far an order can multiply: each pod of a service passes on each copy it
\* reads, and each send may arrive MaxCopies times.  One pod per service and no
\* duplicated send means at most one dispatch of each published copy.
Amplification ==
  \A o \in Orders :
    LET copies(s) == Copies(topic[s], o)
        factor(s) == Cardinality(PodsOf(s))
    IN  /\ copies("inventory") <= copies("orders") * factor("orders") * MaxCopies
        /\ copies("shipping") <= copies("inventory") * factor("inventory") * MaxCopies
        /\ dispatched[o] <= copies("shipping") * factor("shipping")

\* Every published order is dispatched in the end, or one of its messages was
\* dropped in one of the ways named above; none gets stuck.
EveryOrderAccounted ==
  \A o \in Orders :
    Copies(topic["orders"], o) > 0 ~> (dispatched[o] > 0 \/ o \in lost)

\* What inject/inject_inventory_stall.sh:8 says of pause_consumer=true:
\* "inventory-service Kafka consumer is paused (stops consuming
\* regression-lab-inventory-updates)".
PausedStopsConsuming ==
  [][\A p \in PodsOf("inventory") :
       up[p] /\ paused /\ paused' => pos'[p] = pos[p]]_vars

--------------------------------------------------------------------------------

(* The inductive invariant behind HandledAtMostOnce and Amplification *)

\* Offsets of an order that lie behind position n.
Passed(log, n, o) == {k \in Offsets(log, o) : k < n}

\* What a pod took of an order lies behind its position.
TakenInv ==
  \A p \in Pods, o \in Orders :
    taken[p][o] <= Cardinality(Passed(topic[Source(p)], pos[p], o))

\* Only a send makes attempts, and shipping-service sends nothing.
SendInv ==
  \A p \in Pods :
    /\ tries[p] > 0 => step[p] = "sending"
    /\ step[p] = "sending" => Source(p) # "shipping"

\* A message in a pod's hand has as many chances to be passed on as the pod makes
\* attempts; those of the message it has now that are not used yet.
Attempts(s) == IF s = "shipping" THEN 1 ELSE MaxCopies
Chances(s, o) == UNION {{p} \X ((1..taken[p][o]) \X (1..Attempts(s))) : p \in PodsOf(s)}
Spare(p) == {p} \X ({taken[p][hand[p]]} \X ((tries[p] + 1)..Attempts(Source(p))))
Unused(s, o) == UNION {Spare(p) : p \in {q \in PodsOf(s) : hand[q] = o}}

\* What the pods of a service have made of an order, and may still make of it once they
\* have given it up.
Made(s, o) ==
  IF s = "shipping" THEN dispatched[o] ELSE Copies(topic[Feeds(s)], o) + late[Feeds(s)][o]

\* Nothing is made of an order but by a chance to, and each chance is used once.
SpreadInv ==
  \A s \in Services, o \in Orders :
    Made(s, o) + Cardinality(Unused(s, o)) <= Cardinality(Chances(s, o))

PositionInv == PipeTypeOK /\ TakenInv

PipeIndInv == PositionInv /\ SendInv /\ SpreadInv
================================================================================
