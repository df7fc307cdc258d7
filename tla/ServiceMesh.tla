------------------------------- MODULE ServiceMesh -------------------------------
(***************************************************************************)
(* The services of the table Services at work.  A request is a chain of    *)
(* handlers, each waiting for the next; what a caller does not wait for    *)
(* becomes a request of its own.  A caller gives up when its patience is   *)
(* over: the handlers below it run on with a context that has ended.       *)
(*                                                                         *)
(* Time passes (Tick) only when every handler waits for something: a       *)
(* healthy service's own work takes no time on the scale of the timeouts.  *)
(***************************************************************************)
EXTENDS Services, FiniteSets, SequencesExt

CONSTANTS
  Slots,      \* how many requests are worked on at once
  Requests,   \* the routes that clients, loops and checkout start from
  FaultSets,  \* the sets of services a fault may hit together
  Faults      \* the faults: [lat, errors, up]

Stores == {"redis", "kafka"}
Healthy == [lat |-> 0, errors |-> FALSE, up |-> TRUE]

ASSUME MeshAssumption ==
  /\ Requests \subseteq Served \intersect DOMAIN Handler
  /\ UNION FaultSets \subseteq DOMAIN Service \union Stores
  /\ \A f \in Faults : f.lat \in Nat /\ f.lat < NoLimit /\ {f.errors, f.up} \subseteq BOOLEAN

\* Every request in the code goes to a path that the service called has a handler for.
ASSUME EveryCallIsRouted ==
  \A r \in DOMAIN Handler : \A i \in DOMAIN Handler[r].steps :
    Handler[r].steps[i].do \in {"call", "relay", "spawn"} => Handler[r].steps[i].to \in Served

\* A handler uses the stores that its service has a client of.
ASSUME StoresAreThere ==
  \A r \in DOMAIN Handler : \A i \in DOMAIN Handler[r].steps :
    Handler[r].steps[i].do \in Stores => Handler[r].steps[i].do \in Service[Handler[r].at].uses

VARIABLES
  sick,     \* the services and stores that a fault has hit
  how,      \* what the fault makes of them now
  chain,    \* the handlers of the request in a slot, each waiting for the next
  pending,  \* background requests not begun yet, in the order they were made
  asked,    \* the request of the client, and the slot it is in
  odd,      \* what it asks for is not what the code takes for granted: page 0, an
            \* identifier that is no part of a URL
  told      \* the status it was answered with, or 0

meshVars == <<sick, how, chain, pending, asked, odd, told>>

Statuses == {200, 400, 401, 403, 404, 500, 502, 504}

\* A handler at work: the step it is at (0 is applyFaultInjection), how long the
\* step takes it, how long its caller still waits, and its answer once it has one.
Frame == [route : Routes, pc : Nat, busy : Nat, left : Nat, out : Statuses \union {0}]

MeshTypeOK ==
  /\ sick \subseteq DOMAIN Service \union Stores
  /\ how \in Faults \union {Healthy}
  /\ chain \in [Slots -> Seq(Frame)]
  /\ pending \in Seq(Routes)
  /\ asked \in ((Requests \X Slots) \union {<<>>})
  /\ odd \in BOOLEAN
  /\ told \in Statuses \union {0}

MeshInit ==
  /\ sick = {}
  /\ how = Healthy
  /\ chain = [s \in Slots |-> <<>>]
  /\ pending = <<>>
  /\ asked = <<>>
  /\ odd = FALSE
  /\ told = 0

--------------------------------------------------------------------------------

\* What applyFaultInjection, the pod or the store does now.
Health(s) == IF s \in sick THEN how ELSE Healthy

At(route) == Service[Handler[route].at]
Up(route) == Health(Handler[route].at).up
Steps(f) == Handler[f.route].steps
Ended(f) == f.pc > Len(Steps(f))
Injecting(f) == f.pc = 0
Step(f) == Steps(f)[f.pc]
Does(f, what) == f.pc \in DOMAIN Steps(f) /\ Step(f).do = what

Calls(f) == Does(f, "call") \/ Does(f, "relay")

OnTo(f) == [f EXCEPT !.pc = @ + 1]
Answering(f, status) == [f EXCEPT !.out = status]

\* The handler of a route begins: with applyFaultInjection, unless it is the loop
\* of a consumer or the service has none.
Begun(route, patience) ==
  LET injects == At(route).injects /\ route \notin Loops
  IN  [route |-> route, pc |-> IF injects THEN 0 ELSE 1,
       busy |-> IF injects THEN Health(Handler[route].at).lat ELSE 0, left |-> patience, out |-> 0]

\* How long a caller waits for the step it is at.
Patience(f) == IF Step(f).do = "relay" THEN Step(f).left ELSE At(f.route).waits

\* What a caller makes of an answer to the step it is at.  The generated services
\* take any response for an answer, whatever its status.
Answered(f, status) ==
  CASE Step(f).do = "relay" -> {Answering(f, status)}
    [] Step(f).do = "call" /\ Step(f).hit /\ status = 200 -> {OnTo(f), Answering(f, Step(f).answer)}
    [] OTHER -> {OnTo(f)}

\* What a caller makes of no answer: it was refused, the connection broke (502), or
\* its patience is over (504).
Unanswered(f, status) ==
  CASE Step(f).do = "relay" -> Answering(f, status)
    [] Step(f).do = "call" /\ Step(f).otherwise > 0 -> Answering(f, Step(f).otherwise)
    [] OTHER -> OnTo(f)

\* The steps that need no other service.  A panic is no answer: net/http recovers and
\* closes the connection.
Alone(f) ==
  CASE Injecting(f) ->
         {OnTo(f)} \union IF Health(Handler[f.route].at).errors THEN {Answering(f, 500)} ELSE {}
    [] Ended(f) -> {Answering(f, 200)}
    [] Does(f, "check") -> {OnTo(f), Answering(f, Step(f).answer)}
    [] Does(f, "slice") -> {OnTo(f)} \union IF odd THEN {Answering(f, 502)} ELSE {}
    [] Does(f, "redis") ->
         LET served == [f EXCEPT !.busy = Health("redis").lat]
         IN  {OnTo(served)} \union
             IF Step(f).hit /\ Health("redis").up THEN {Answering(served, 200)} ELSE {}
    [] Does(f, "kafka") -> {OnTo([f EXCEPT !.busy = Health("kafka").lat])}
    [] OTHER -> {}

\* The chain of slot s is cut before its i-th handler: that one's caller goes on
\* without an answer, or there is nobody to tell but the client.
Cut(s, i, status) ==
  IF i = 1
  THEN /\ chain' = [chain EXCEPT ![s] = <<>>]
       /\ told' = IF asked # <<>> /\ told = 0 /\ asked[2] = s THEN status ELSE told
  ELSE /\ chain' = [chain EXCEPT ![s] =
                      Append(SubSeq(@, 1, i - 2), Unanswered(@[i - 1], status))]
       /\ UNCHANGED told

\* What a handler still does when its context has ended: asleep in applyFaultInjection
\* it returns; otherwise its own requests fail at once, and all that can be seen of it
\* are the background requests it gets to.
Fails(step) == step.do = "relay" \/ (step.do = "call" /\ step.otherwise > 0)
Aftermath(f) ==
  IF f.out > 0 \/ (Injecting(f) /\ f.busy > 0) THEN {}
  ELSE LET rest == {i \in DOMAIN Steps(f) : i >= f.pc}
       IN  {Steps(f)[i].to : i \in {j \in rest :
              Steps(f)[j].do = "spawn" /\ \A k \in rest : Fails(Steps(f)[k]) => k > j}}

\* Goroutines share nothing with one another: that they begin in order, and that a
\* request which waits already is not made twice, keeps the model small.
Awaiting(routes) == pending \o SetToSeq(routes \ Range(pending))

\* The handlers of frames are left alone; the last one, which waits for nobody, may
\* also end before it gets to its background requests.
LeftAlone(frames) ==
  LET After(n) == Awaiting(UNION {Aftermath(frames[i]) : i \in 1..n})
  IN  pending' \in {After(Len(frames))} \union
        IF frames # <<>> /\ ~Calls(Last(frames)) THEN {After(Len(frames) - 1)} ELSE {}

Working(s) == chain[s] # <<>>
Top(s) == chain[s][Len(chain[s])]
Ready(f) == f.busy = 0 /\ f.out = 0
Replace(s, f) == chain' = [chain EXCEPT ![s] = Append(Front(@), f)]

--------------------------------------------------------------------------------

\* A client, a loop or checkout starts a request; checkout waits as long as the
\* services do, the others until they are answered.
Request(s, r) ==
  /\ asked = <<>> /\ ~Working(s) /\ Up(r)
  /\ asked' = <<r, s>>
  /\ odd' \in IF r \in Loops THEN {FALSE} ELSE BOOLEAN
  /\ chain' = [chain EXCEPT ![s] =
       <<Begun(r, IF Handler[r].at \in {"billing", "pricing", "fraud"} THEN Seconds(5) ELSE NoLimit)>>]
  /\ UNCHANGED <<sick, how, pending, told>>

\* A background request begins, or finds nobody there.
Serve(s) ==
  /\ pending # <<>> /\ ~Working(s)
  /\ pending' = Tail(pending)
  /\ chain' = IF Up(Head(pending)) THEN [chain EXCEPT ![s] = <<Begun(Head(pending), Seconds(5))>>] ELSE chain
  /\ UNCHANGED <<sick, how, asked, odd, told>>

\* A handler does a step that needs no other service.
Work(s) ==
  /\ Working(s) /\ Ready(Top(s))
  /\ \E f \in Alone(Top(s)) : Replace(s, f)
  /\ UNCHANGED <<sick, how, pending, asked, odd, told>>

\* httpGet, httpPost or proxyRequest sends a request.
Call(s) ==
  LET f == Top(s) IN
  /\ Working(s) /\ Ready(f) /\ Calls(f)
  /\ Up(Step(f).to)
  /\ chain' = [chain EXCEPT ![s] = Append(@, Begun(Step(f).to, Patience(f)))]
  /\ UNCHANGED <<sick, how, pending, asked, odd, told>>

\* The service called is down.
CallRefused(s) ==
  LET f == Top(s) IN
  /\ Working(s) /\ Ready(f) /\ Calls(f)
  /\ ~Up(Step(f).to)
  /\ Replace(s, Unanswered(f, 502))
  /\ UNCHANGED <<sick, how, pending, asked, odd, told>>

\* The URL takes in what the client wrote: no request can be made of it, or the service
\* cannot read the one that was made.
CallSpoilt(s) ==
  LET f == Top(s) IN
  /\ Working(s) /\ Ready(f) /\ Calls(f)
  /\ odd /\ (Does(f, "relay") \/ <<f.route, Step(f).to>> \in Unescaped)
  /\ \E status \in {502} \union IF Up(Step(f).to) THEN {400} ELSE {} :
       Replace(s, Unanswered(f, status))
  /\ UNCHANGED <<sick, how, pending, asked, odd, told>>

\* go func: the request will be made some time later.
Spawn(s) ==
  LET f == Top(s) IN
  /\ Working(s) /\ Ready(f) /\ Does(f, "spawn")
  /\ pending' = Awaiting({Step(f).to})
  /\ Replace(s, OnTo(f))
  /\ UNCHANGED <<sick, how, asked, odd, told>>

\* The answer goes to the caller, or to the client.
Reply(s) ==
  LET f == Top(s)
      n == Len(chain[s])
  IN
  /\ Working(s) /\ f.out > 0 /\ f.busy = 0
  /\ IF n = 1
     THEN Cut(s, 1, f.out)
     ELSE /\ \E g \in Answered(chain[s][n - 1], f.out) :
               chain' = [chain EXCEPT ![s] = Append(SubSeq(@, 1, n - 2), g)]
          /\ UNCHANGED told
  /\ UNCHANGED <<sick, how, pending, asked, odd>>

\* The patience of the caller of the i-th handler is over; the contexts of this one
\* and of all those below it end.
GiveUp(s, i) ==
  /\ chain[s][i].left = 0
  /\ Cut(s, i, 504)
  /\ LeftAlone(SubSeq(chain[s], i, Len(chain[s])))
  /\ UNCHANGED <<sick, how, asked, odd>>

\* The service of the i-th handler died under it.
Break(s, i) ==
  /\ ~Up(chain[s][i].route)
  /\ Cut(s, i, 502)
  /\ LeftAlone(SubSeq(chain[s], i + 1, Len(chain[s])))
  /\ UNCHANGED <<sick, how, asked, odd>>

\* 2.5 s pass, when there is nothing left to do at once.
Tick ==
  LET Later(f) == [f EXCEPT !.busy = IF @ > 0 THEN @ - 1 ELSE 0,
                            !.left = IF @ = NoLimit THEN @ ELSE @ - 1]
  IN
  /\ \E s \in Slots : Working(s)
  /\ \A s \in Slots : Working(s) => Top(s).busy > 0
  /\ \A s \in Slots : \A i \in DOMAIN chain[s] : chain[s][i].left > 0 /\ Up(chain[s][i].route)
  /\ chain' = [s \in Slots |-> [i \in DOMAIN chain[s] |-> Later(chain[s][i])]]
  /\ UNCHANGED <<sick, how, pending, asked, odd, told>>

\* POST /admin/config of some services, an overloaded store, or pods that die: some
\* services become slow, answer errors, or are gone.
Fault(S, h) ==
  /\ sick = {}
  /\ sick' = S
  /\ how' = h
  /\ UNCHANGED <<chain, pending, asked, odd, told>>

\* The settings are reset, or the pods started again, without the handlers that died.
Restore ==
  /\ how # Healthy
  /\ \A s \in Slots : \A i \in DOMAIN chain[s] : Up(chain[s][i].route)
  /\ how' = Healthy
  /\ UNCHANGED <<sick, chain, pending, asked, odd, told>>

MeshStep ==
  \/ \E s \in Slots :
       \/ Serve(s) \/ Work(s) \/ Call(s) \/ CallRefused(s) \/ CallSpoilt(s) \/ Spawn(s) \/ Reply(s)
       \/ \E i \in DOMAIN chain[s] : GiveUp(s, i) \/ Break(s, i)
  \/ Tick

MeshNext ==
  \/ MeshStep
  \/ \E s \in Slots, r \in Requests : Request(s, r)
  \/ \E S \in FaultSets, h \in Faults : Fault(S, h)
  \/ Restore

MeshSpec == MeshInit /\ [][MeshNext]_meshVars

\* What can go on does: goroutines run, timers fire and clients time out.
MeshFairness == WF_meshVars(MeshStep)

FairMeshSpec == MeshSpec /\ MeshFairness

--------------------------------------------------------------------------------

\* The services, and stores, without which a page, or a part of one, is an error.
Essential ==
  [r \in Routes |->
     CASE r \in {"frontend.product", "gateway.product", "gateway.products"} -> {"catalog"}
       [] r \in {"frontend.cartGet", "frontend.cartAdd", "gateway.cartGet", "gateway.cartAdd"} -> {"cart"}
       [] r \in {"frontend.orders", "gateway.orders", "gateway.order"} -> {"orders"}
       [] r \in {"frontend.profile", "gateway.profile"} -> {"profile"}
       [] r = "frontend.search" -> {"search"}
       [] r = "billing.charge" -> {"billing", "adapter", "external"}
       [] r = "adapter.pay" -> {"adapter", "external"}
       [] r = "frontend.ingest" -> {"ingest"}
       [] r \in {"frontend.login", "gateway.login", "auth.login"} -> {"auth", "session", "redis"}
       [] r = "gateway.validate" -> {"auth"}
       [] OTHER -> {Handler[r].at}]

\* They, and the two services every page passes.
Behind(r) == Essential[r] \union {"frontend", "gateway"}

\* An error page (500, 502) is the fault of a request that asks for what there is not, or
\* of the one service that answers for the page, for a login of session-service too:
\* whatever else is slow, broken or dead under a page is made up for (frontend and
\* api-gateway, proxyRequest; the generated services, which go on without the answer).
OnlyEssentialServicesFailAPage ==
  told \in {500, 502} => odd \/ sick \intersect Behind(asked[1]) # {}

\* The pages whose patience is longer than what the services below may take together:
\* they never time out, unless the service that answers for them is itself slow.
Patient == {"frontend.product", "gateway.product", "frontend.orders", "gateway.order", "gateway.products"}

PatienceSuffices ==
  asked # <<>> /\ asked[1] \in Patient /\ told = 504 => sick \intersect Behind(asked[1]) # {}

\* Every request is answered, and the work it set off comes to an end: no service calls
\* itself through others, in the foreground or in the background.
MeshSettles == (asked # <<>>) ~> (told # 0 /\ pending = <<>> /\ \A s \in Slots : ~Working(s))

--------------------------------------------------------------------------------

(* The inductive invariant behind the two: what can have gone wrong with a handler  *)
(* names a service that is sick, unless the request itself is to blame, and a       *)
(* handler that must be in time has the time that what is left of it may take.      *)

Hit(S) == sick \intersect S # {}
Blamed(r) == odd \/ Hit(Behind(r))

\* The routes whose silence is an error to a caller, and all that may keep them waiting.
Awaited == {"session.create", "adapter.pay", "external.charge"}
KeptBy(r) ==
  CASE r = "session.create" -> {"session", "redis"}
    [] r = "adapter.pay" -> {"adapter", "external"}
    [] r = "external.charge" -> {"external"}

\* The handlers of the patient pages, and the time each one has from a step on, while the
\* services behind it are well.
Punctual == Patient \union {"gateway.orders", "catalog.product", "catalog.list", "orders.get", "orders.list"}
Reserve(r, step) ==
  CASE r \in {"frontend.product", "gateway.product"} -> Seconds(15)
    [] r \in {"frontend.orders", "gateway.orders", "gateway.order", "gateway.products"} -> Seconds(10)
    [] r = "catalog.product" ->
         IF step <= 2 THEN 1 + 2 * Seconds(5) ELSE IF step = 3 THEN 1 + Seconds(5) ELSE 1
    [] r = "catalog.list" -> IF step <= 1 THEN 1 + Seconds(5) ELSE 1
    [] r = "orders.get" -> IF step <= 2 THEN 1 + Seconds(5) ELSE 1
    [] OTHER -> 1

FrameOK(f, onTime) ==
  /\ f.route \in Awaited /\ (f.busy > 0 \/ f.left = 0) => Hit(KeptBy(f.route))
  /\ f.out \in {500, 502} => Blamed(f.route)
  /\ onTime => f.busy = 0 /\ f.out # 504 /\ f.left > 0

\* A handler at work, and one that waits for the next.
TopOK(f, onTime) ==
  /\ FrameOK(f, onTime)
  /\ onTime /\ f.out = 0 => f.left >= Reserve(f.route, f.pc)

WaitsOK(f, g, onTime) ==
  /\ FrameOK(f, onTime)
  /\ f.busy = 0 /\ f.out = 0
  /\ Calls(f) /\ Step(f).to = g.route
  /\ onTime =>
       /\ g.left < NoLimit
       /\ f.left >= g.left + IF Does(f, "relay") THEN 0 ELSE Reserve(f.route, f.pc + 1)

\* The i-th handler belongs to a patient page, and all behind it is well.
OnTime(c, i) == \A j \in 1..i : c[j].route \in Punctual /\ ~Hit(Behind(c[j].route))

ChainOK(c) ==
  /\ \A i \in DOMAIN c :
       IF i = Len(c) THEN TopOK(c[i], OnTime(c, i)) ELSE WaitsOK(c[i], c[i + 1], OnTime(c, i))
  /\ \A i, j \in DOMAIN c :
       i <= j /\ c[i].route \in Awaited =>
         c[j].route \in Awaited /\ KeptBy(c[j].route) \subseteq KeptBy(c[i].route)

\* The client's request is the one at the bottom of its chain.
ToldInv ==
  /\ asked = <<>> => told = 0 /\ ~odd
  /\ asked # <<>> /\ told = 0 =>
       chain[asked[2]] # <<>> /\ chain[asked[2]][1].route = asked[1]

MeshIndInv ==
  /\ MeshTypeOK
  /\ \A s \in Slots : ChainOK(chain[s])
  /\ \A i \in DOMAIN pending : pending[i] \notin Punctual
  /\ ToldInv
  /\ OnlyEssentialServicesFailAPage
  /\ PatienceSuffices
================================================================================
