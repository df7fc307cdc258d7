# A TLA+ model of regression-lab

regression-lab is a demonstration shop of 36 small Go services that talk over
HTTP, Kafka, Redis and PostgreSQL, together with scripts that break it in known
ways. This directory models the parts of it in which an order, its money and
what its buyer is told can come apart, the calls and timeouts of all the services
together, and the caches and carts that several requests share. It checks the
models with TLC and proves their safety properties with TLAPS.

Paths below are relative to the repository; `svc/x` stands for
`environment/services/x/main.go`.

## 1. Inventory

| Part | State it keeps | Operations | Talks to | Hard because of |
|---|---|---|---|---|
| frontend, api-gateway | none | forward a request with a deadline | checkout and others | the caller is told 504 while the work goes on |
| checkout | a Kafka producer or nil; per request: the step reached | checkoutHandler (six steps), initKafka | Redis, pricing, fraud-detection, payments-api, billing-service, Kafka | timeouts, cancellation, fail-open steps, a send that may be duplicated |
| payments-api + database | pool of 30 connections, table `payments` | processPaymentHandler, `process_payment` | PostgreSQL | a statement outlives its handler |
| fraud-detection | counter with expiry in Redis | fraudCheckHandler | Redis, analytics | INCR and EXPIRE are two commands, checks interleave |
| billing-service, payment-adapter, external-payment-api | none; charges at the external service | chargeHandler, payHandler, external charge | each other, fraud-detection, tax, Kafka | an error response counts as an answer, a charge outlives its caller |
| orders-, inventory-, shipping-service | position in a topic, producer or nil, pause flag | consumeKafka, kafkaSend, admin pause | Kafka, each other, warehouse | each pod reads everything, newest offset, silent drops |
| settings of fault injection (all services) | latency, error rate, RWMutex | get, set, GET and POST /admin/config | - | every request takes the lock, one reader does not |
| warehouse, notification, email | counters | dispatch, notify, send | Kafka | at-most-once consumption |
| cart-service | cart per user in Redis, pool of 50 background calls | get, add | catalog, pricing, session | read-modify-write without a lock |
| auth, session, user | sessions with expiry | login, validate | each other, Kafka | an error body taken for an answer |
| loyalty, cache, discount, pricing | caches with expiry | tier, get/set, discount, price | each other, Redis | failures are cached |
| audit-service | the last 10000 events in memory | consume, recent | Kafka | ring and tail read under one mutex |
| ingest, processing, recommendation, delivery | counters, recommendations in Redis | second Kafka pipeline | Kafka, Redis | as the order pipeline |
| search, ranking, profile, catalog, review, media, analytics, reporting, tax | caches, counters | chains of reads | each other | - |
| inject/, scenarios/, eval/, load/, k8s/ | - | scripts and manifests | /admin/config, SQL | replicas and restarts, which the models take as actions |

What makes each modelled part correct:

- **checkout flow**: a checkout is charged at most once; orders, external charges
  and billing events follow a committed payment; a blocked checkout is never
  charged; giving up is no way around the fraud check; the buyer is told 200 or
  403 only when it is so; every handler ends.
- **payments-api**: at most one row per checkout, counting the statement still
  running; 200 only for a committed row; a full pool delays nobody for ever.
- **fraud-detection**: no more checks of a user pass in a window than the limit; a user
  is blocked for a window, not for good; callers see a counter that starts again at zero.
- **billing chain**: one external charge per checkout, none for a blocked one.
- **order pipeline**: no pod handles a message twice, an order multiplies by no
  more than the replicas and duplicated sends allow, and each order is dispatched
  or was dropped in one of the known ways.
- **fault settings**: a request acts on one setting, and nobody waits for ever.
- **the services together**: a service that is slow, broken or gone costs a page
  its part and not the page, unless it is the one the page cannot do without, or the
  request itself asks for what there is not; the
  patience at the top of a page covers what is below; every request ends, with all
  the background requests it set off.
- **cart**: no add counts twice, one is lost only to a race or a failure, and the
  pool of background calls recovers.
- **accounts**: a tier is used no later than its key allows, and a session token
  has a session behind it.

## 2. Modules

| Module | Models | State and actions |
|---|---|---|
| `PaymentsApi` | svc/payments-api processPaymentHandler, the pgx pool, `process_payment` of environment/init.sql | `payReq` is the phase of a request, `running` the statements in the database, `rows` the table. `Acquire` takes a connection, `Commit`/`Abort` are the database, `Answer`/`Fail` end the handler |
| `FraudWindow` | what fraud-detection promises its callers: a count per user | `CheckHigh` above the limit, `CheckLow` below it, `CheckUnheard` when nobody learns the count; `WindowEnds` |
| `FraudDetection` | svc/fraud-detection fraudCheckHandler, one Redis command at a time | `Incr`, `Expire`, their failures and repetitions, death of a pod, expiry and eviction of the key; the history variable `passed` counts the checks of a user let pass since the key was made. Refines `FraudWindow`, verdicts included |
| `Billing` | svc/billing-service chargeHandler, svc/payment-adapter payHandler, svc/external-payment-api chargeHandler | `bill` is where chargeHandler is, `ext` the external request, `extCharges` and `audit` the traces left; uses `FraudWindow` |
| `OrderLedger` | the promise of the checkout flow, without services | a checkout is open, paid, ordered or blocked, and its buyer is told one thing |
| `Checkout` | svc/checkout checkoutHandler, svc/api-gateway proxyRequest, the checkout pod and its Kafka producer | composes `PaymentsApi`, `Billing` and `FraudWindow`: their steps run beside the handler. Refines `OrderLedger` |
| `OrderPipeline` | consumeKafka, kafkaSend and initKafkaProducer of svc/orders-service, inventory-service and shipping-service | a log per topic; per pod its position, the message in hand and the attempts of its send |
| `FaultConfig` | injectionConfig, get, set, adminConfigHandler, as in svc/orders-service and 31 more | the two fields, the RWMutex as readers and a writer, one action per lock operation and per field access |
| `Services` | the handlers, consumer loops and routes of 34 services | no state: a table. For each service its client's timeout, its stores, whether faults can be injected; for each handler its steps in order (a call it goes on without, a call it fails without, a veto or cache hit, a relay, a Redis command, a send, a background request, a slice with bounds from the client); for each service its routes |
| `ServiceMesh` | the table at work: applyFaultInjection, httpGet, httpPost, proxyRequest, `go func` in every service | `chain` is a request as the handlers that wait for one another, `pending` the background requests. `Work`, `Call`, `Reply`, `Spawn` are the steps of handlers, `GiveUp` a timeout, `Break` a pod that dies under a request, `CallSpoilt` a URL that no request can be made of or that is not understood, `Tick` 2.5 s of time, `Fault`/`Restore` an injected fault or outage; `odd` says whether the client asks for what the code takes for granted there is not |
| `Cart` | svc/cart-service addToCartHandler and fireAndForget | the Redis key and, per add, the copy it changes: GET and SET are actions of their own, and a SET that fails may have been done. `left` are clients that gave up, `pool` the slots of background calls |
| `Accounts` | loginHandler and validateHandler of svc/auth-service, createSessionHandler of session-service, getTierHandler of loyalty-service, the users of user-service | the session and where its two handlers are; the tier, its copy in Redis, the requests that carry it, the SETs that may be done late, and how many minutes ago each tier was true |

`Checkout` instantiates the modules it composes with the same variable names, so
that their operators, invariants and lemmas carry over: `P!PayInv` and `B!BillInv`
are conjuncts of its inductive invariant.

`ServiceMesh` runs `Services`, in which every service but checkout and payments-api
appears, also those that have a module of their own: that module has the state a
service keeps, the table its calls. `Services` says of a handler what it awaits and
what it does when nothing comes back; 200 with an empty list and 200 with a full one
are the same there.

What is abstracted, everywhere: amounts, names and message contents (no guard
depends on them: the amounts checkout sends stay below the limits of
fraud-detection, and the ids are taken to be distinct), tracing and metrics, and
fire-and-forget calls whose receivers are not modelled.

## 3. Runs

Each module of the first column has a `.cfg` of the name given.

| Run | Instance | Shows |
|---|---|---|
| `MCPaymentsApi` | 3 requests, 2 connections | the pool is exhausted, requests wait for it, statements outlive handlers |
| `MCFraudDetection` | 2 checks at once, 2 users, limit 2, at most 4 counted (90000 states) | the key ends between INCR and EXPIRE, an EXPIRE meets the next key, pods die; the limit holds; liveness, and refinement of `FraudWindow` in counts and verdicts |
| `MCBilling` | 2 charges of one user, limit 1 | one is blocked, passes after the window, or passes because no verdict came |
| `MCCheckout` | 1 checkout, 1 connection, limit 1, 2 copies, 1 restart | every property of the flow, with `HandlerEnds` and the refinement of `OrderLedger` |
| `MCOrderPipeline` | 1 order, 2 pods of orders-service and one of the others, 1 restart | both pods pass the order on, so that two messages meet downstream; drops, skipped messages, late producers; `EveryOrderAccounted` |
| `MCFaultConfig` | 3 handlers; a latency in range and a rate out of range, each posted or not | interleavings of lock and field accesses; no starvation; deadlock is checked (130000 states, a minute and a half) |
| `MCServiceMesh` | every route a client, a consumer loop or checkout starts from, one after the other; a fault of each of 35 services and stores, or of all but those a page needs; five faults: 2.5, 5 and 17.5 s of latency, errors, gone; with or without recovery; requests as they should be and odd ones (661000 states, two minutes) | pages survive what they should, the patient pages never time out, everything ends; the inductive invariant of the proof (`MeshIndInv`) |
| `MCCart` | 3 adds of 2 products, 2 slots | two adds of one product race, a third adds another; GET and SET fail, the key expires between them, clients give up; the pool is full and calls are skipped (111000 states) |
| `MCAccounts` | 2 requests for a tier, 2 logins, a key of 3 minutes; `MCAccountsSpec` moves the tier and the logins one at a time, since they share no variable and no property relates them (239000 states) | a slow request or a late SET overwrites a newer tier, the key expires or is evicted, user-service fails and restarts with other tiers; a session is made after its login has failed |
| `MCCheckoutScenario09`, `MCOrderPause`, `MCFaultShow` | as above | disagreements between the code and what the repository says of it, see section 6 |

Why the bounds are enough. Checkouts meet only in the rate limit and in the
connection pool: `MCPaymentsApi` has three requests for two connections,
`MCBilling` two charges at the limit of one user, so that `MCCheckout` needs one
checkout, whose two fraud checks already compete for a limit of 1 while its request
waits for one connection, and the proofs hold for any number. The
limits compare a count with a constant, so that 1 or 2 stands for 20. Copies of an
order (`MaxCopies`) and restarts (`MaxCrashes`, `MaxRestarts`) are counted only
to keep the state space finite: the theorems below hold for all their values.
`MaxCount` of `FraudDetection` exceeds the limit by two, enough for a check that
is over the limit and one after it. The lock is the same for each handler: three
of them are a writer, a reader and one that waits.
The requests of `ServiceMesh` share nothing but the faults: a second one at the same
time would multiply the states and meet nothing, so `Slots` has one, which also works
off the background requests after the page. `odd` is one flag for the page asked for, the
limit and the identifier: what an odd request may meet includes what each of them can.
Time is counted in 2.5 s, half the timeout of the services' clients, since what matters is
whether latencies add up to less or more than a timeout; equal is both. In `Cart` an add meets another in the key and in
the pool alone: two of one product and one of another are the cases. `Accounts` counts
three minutes for five: the age of a tier is compared with the lifetime, whatever it is.

Deadlock is not checked where the system comes to rest: each checkout, charge or
order of an instance happens once.

### Fairness

- `PaymentsApi`: a handler that can answer does, since its context has a timer.
  Nothing is assumed of the database.
- `Checkout`: the handler's own steps and the gateway's answer, since each call
  they make has a timeout (2 s, 5 s, `paymentsTimeout`, 10 s). Nothing is assumed
  of the services called, of Kafka or of the network: `BillGiveUp`, `PayTimeout`
  and their like are what makes the handler end.
- `FraudDetection`: Redis expires keys (it need not evict any), and a handler that is about to send
  EXPIRE gets an answer, an error or dies. A handler need not begin or answer.
- `OrderPipeline`: a loop that can move does, since its calls have timeouts, and
  the reconnect loop succeeds in the end. A message under way arrives or is lost with
  its connection. That the Kafka client keeps delivering
  is part of this: `Consumer.Return.Errors` is set and the channel of errors is
  not read, which is assumed not to fill its buffer.
- `ServiceMesh`: what can go on does (`MeshStep`): goroutines run, timers fire and
  every client has a timeout or waits for somebody who has one. Clients need not ask, and
  faults need neither come nor go.
- `Cart`: the steps of a handler that has passed the injected faults, and the end of a
  background call, after at most the 5 s of the client. A fault need not answer and a
  client need not give up.
- `FaultConfig`: runnable goroutines run (weak fairness of their steps), and the
  inner mutex of RWMutex goes to a waiting writer in the end (strong fairness of
  `SetClaims`, the promise of sync.Mutex's starvation mode).

## 4. Proofs

The `*Proofs` modules hold the theorems; constants are arbitrary but for the
assumptions named in the modules (`CheckoutAssumption`: users of checkouts are
users, the pool is not empty, the rest are numbers; `MaxConnsAssumption`,
`BillingAssumption`, `FaultAssumption`, `CartAssumption`, `AccountsAssumption`,
`FraudDetectionAssumption` likewise; `PipelineAssumption`: besides, the pods are finitely
many; `MeshAssumption`: clients ask for routes that exist, faults hit services and stores,
and latencies are numbers). That all the calls of the table are routed and its stores are
configured (`EveryCallIsRouted`, `StoresAreThere`) TLC evaluates; no proof uses it.

- `PaymentsApiProofs`. `AtMostOneRow` is not inductive: a request that gave up
  may still have a statement running, so `PayInv` says how many rows and running
  statements each phase allows. `PayIndInv` adds the types.
- `BillingProofs`. `BillInv` ties `extCharges` to `ext`, and both to the place of
  chargeHandler: the external request starts only past the fraud check.
- `CheckoutProofs`. `IndInv` takes `PayInv` and `BillInv` over and says how far
  the payment is, by where the handler is and how it ended (`HandlerInv`), that
  billing and publishing come after the 200 of payments-api (`OrderInv`), that
  nothing is sent with a context that has ended (`ContextInv`), and that the
  gateway repeats what the handler said (`GatewayInv`). Preservation is proved
  one group of actions at a time. From it follow the five safety properties, the
  action property `CommitInDoubtOnly`, and that each step is a step of
  `OrderLedger` or stutters.
- `FraudDetectionProofs`. `EveryKeyWillExpire` is inductive together with the types:
  whoever creates a key is the one who will set its expiry, and only an error, a restart or
  a repeated INCR makes it nobody's. `AtMostRateLimitPass` needs that the checks let pass
  have all been counted in the key as it is (`PassedAreCounted`), which a count made of a
  GET and a SET would not keep. Every INCR is a `Count` of `FraudWindow`, once per
  attempt, every end of a key a `WindowEnds`, and a verdict comes about only in a
  `CheckHigh` or a `CheckLow` of the user (`VerdictFromCount`, part of `ImplementsWindow`),
  so that the window `Checkout` and `Billing` are proved with is the one the two commands
  make.
- `SharedStateProofs`, the cart. `CartInv` extends the bound on the cart in Redis to the copies in the
  handlers, since those are written later: no copy has more than the adds that have come
  to their SET. For `LostOnlyToARace` it adds that, as long as adds come one by one, at
  most one is between its GET and its SET, and its copy is the cart in Redis.
- `SharedStateProofs`, the accounts. `TierIsRecent` needs the age of what is in Redis: `CachedTierAges`
  bounds it by the lifetime that has passed and one minute more, in which the request
  that wrote it, or its late SET, may have taken its time; a lifetime that begins within a
  minute sees one end more than it is long, so that the bound is `TTL + 2`; `RequestInv` bounds it for a request by where its
  handler is and whether it has seen a minute end.
- `FaultConfigProofs`. `LockInv` (readers and writer exclude each other, by where
  their handlers are), `ForceInv` (the fields are the setting in force but for
  the latency a set in progress has written) and `SeenInv`.
- `OrderPipelineProofs`. `HandledAtMostOnce` compares what a pod took with the
  whole topic and is not inductive; `TakenInv` compares it with the part of the
  topic behind the pod's position (`Passed`). Topics only grow at their end and
  positions only move forward, through reconnects and restarts too, so that
  `Passed` never shrinks, and `Take` adds to both sides alike.
  `Amplification` compares two topics, and what the pods of a service have done between
  them is a sum over pods. `SpreadInv` counts sets instead: each time a pod takes a
  message, it gets one *chance* per attempt of the send (`Chances`, triples of a pod, a
  time and an attempt); those of the message in hand that it has not come to are `Unused`;
  and the copies made, late ones included (`Made`), and the chances unused are together no
  more than the chances. A copy uses up one, a drop gives some up, a restart or a failed
  send turns some into late copies, which may be lost (`Drop`, `GiveUpSend`, `LateLost`), and `Take` adds the same new set
  to both sides. `HandledAtMostOnce`'s invariant bounds the chances by pods times copies
  times attempts. `SendInv` says that only a send makes attempts, and that shipping-service,
  the end of the pipeline, sends nothing.
- `ServiceMeshProofs`. The two properties are about 34 services at once, and the proof has
  two parts. The first is about the table `Services`: what its rows have in common. Nearly
  every handler goes on without an answer or answers for itself (`PlainRows`); frontend and
  api-gateway relay to a route whose essential services are among their own (`ProxyRows`);
  three handlers answer 502 when a service they need is silent (`NeedyRows`); and the
  handlers of the patient pages have, at each step, as much time left as the calls still to
  come may wait (`PromptRows`, `Reserve`). The second part uses only these facts, so that a
  service may be added or changed without touching it as long as its row fits.
  `MeshIndInv` speaks of each handler of a chain: an error it answers has an odd request or
  a sick service behind it (`FrameOK`, `Blamed`), and a wait where silence would be an error
  to the caller has a sick service behind it (`KeptBy`); a handler of a patient page with nothing sick behind it (`OnTime`)
  is never kept busy and has its reserve of time (`TopOK`), and while it waits, its own
  patience exceeds that of the handler it waits for by the reserve of the steps to come
  (`WaitsOK`). What a client was told comes from the bottom of the chain (`ToldInv`).
  Preservation goes by what a step does to a chain: its top is replaced (`Replaced`), a
  handler is called (`Called`), the chain ages (`AgedOK`, all handlers by the same 2.5 s),
  a handler's answer or end takes those above it away (`ChainEnds`, `CutOK`), or a fault
  makes more services sick, which only weakens what is claimed (`Sicker`).

Every safety property and every refinement that a run checks is proved. Model-checked
only: liveness (`EveryRequestAnswered`, `HandlerEnds`, `BlockedForAWindow`,
`EveryOrderAccounted`, `EveryHandlerAnswers`, `PoolRecovers`, `EveryAddEnds`,
`MeshSettles`), which the prover cannot handle under fairness. `PausedStopsConsuming`,
`BillingTimeoutFailsCheckout` and `ShownWasInForce` do not hold.

## 5. Behaviour worth knowing

The models also make plain what the code does *not* promise, and the properties
are worded accordingly.

- A buyer who is told 500, 502, 503 or 504 cannot conclude anything: the payment
  may be committed and the order published, before or after. `OrderLedger` has
  `TellUnknown` for it.
- A checkout may be paid and ordered although billing failed or blocked it.
- A user whose EXPIRE was lost between the two commands stays counted, and
  beyond the limit blocked, until the key is removed by hand
  (`BlockedForAWindow` excepts exactly these users).
- An order can be lost at each hop of the pipeline: no producer, a send that
  fails with no copy under way, a copy that never arrives, a consumer that was not
  subscribed, the pause, a failed dispatch (`EveryOrderAccounted` names them in `lost`).
- Every pod of orders-service handles every order; with its ten replicas of
  k8s/05-hpa.yaml an order is reserved and shipped ten times (`Amplification`).
- `kafkaProducer` is written by a goroutine while the consumer reads it, without
  synchronisation. A torn read of the interface would panic and restart the pod,
  which is a `Restart` of `OrderPipeline`; a stale one is a `SkipSend`.

- Not every page is patient. A search (cache, ranking and a send to Kafka in turn), a
  login (session, user, Kafka), a profile (user and avatar) and an add to the cart
  may together take longer than the frontend or api-gateway waits, although each service
  keeps its 5 s: the page ends in 504. `Patient` names the pages that do not.
- What ended in 504 goes on: an add to the cart runs to its end (`EveryAddEnds`) and, if
  its SET works, the item is stored, so that a client that tries again adds twice.
- Two adds to one cart that read the same value lose an item (`undisturbed` excepts it).
- A GET of a cart that fails is read as an empty cart. If the SET works, everything that
  was in it is gone (`undisturbed` excepts it, too).
- A login that gets an error from session-service succeeds with the token "tok-123",
  the same for everybody; a login that gets no answer fails with 502 while its session
  may be stored, with nobody who knows it. session-service does not notice that its SET
  failed (`excuses`).
- A page of 0 or a negative limit makes listProductsHandler, listUsersHandler and
  recentHandler panic on a slice, as a page near the largest integer makes the frontend's
  product list: net/http closes the connection, and the gateway answers 502 with every
  service well. An identifier that no URL can hold has the same end in proxyRequest;
  further down the services go on without the answer. `odd` is true of such requests, and
  `OnlyEssentialServicesFailAPage` excepts the page the client then gets, not the pages
  of others.
- A failure of user-service makes a user "bronze", and loyalty-service keeps that for
  five minutes, as it keeps the tiers of a user-service that has restarted with others.
- The keys "search:..." and "catalog:..." that cache-service is asked for are set by
  nobody: these lookups never hit.
- The consumer of recommendation-service stores {"items"} under the key whose value
  its handler passes on as {"recommendations"}.

## 6. Disagreements found

- `MCCheckoutScenario09`: a billing timeout does not make the checkout fail, as
  scenarios/09-billing-missing-timeout/README.md:49 says it does.
- `MCOrderPause`: a paused inventory consumer drops messages instead of leaving
  them in the topic, so that there is no lag to drain
  (inject/inject_inventory_stall.sh:8, inject/restore_inventory_stall.sh:25).
- `MCFaultShow`: GET /admin/config of the generated services reads the settings
  without their lock (svc/orders-service:162). In the trace one POST has written its
  latency and not yet its error rate, and a GET in between shows the new latency with the
  error rate from before: a pair that never was in force.

Also, without a run: payment-adapter calls external-payment-api once
(svc/payment-adapter:294), where rebuild-updated-services.sh:11 and README.md:484
speak of retries.

## 7. Not modelled

- The log of the last 10000 events of audit-service. A client that does not read its answer
  keeps the mutex, and with it the consumer and every other reader, for as long as it likes.
- The event counts that analytics-service keeps for its dashboard, and the
  Prometheus counters of all services.
- The reservation of inventory-service, a key that only its status page reads: "reserved" is
  said of an order whose reservation failed, or was never tried with Redis gone.
- The topics of the second pipeline (ingest, processing, recommendation, delivery)
  and of notifications as logs: their consumers are `OrderPipeline`'s with one or no topic
  to pass a message on to. `ServiceMesh` has each of them as a loop that handles one event.
- Prices and totals of a cart; NaN as an error rate, which passes both bounds of set and
  is never met.
- The buffer of unread errors in the Kafka client, and what is inside Redis, Kafka and
  PostgreSQL: they are modelled by what the services see of them.
- The generator of the services and of the dashboards (its output is what is modelled), tracing and
  metrics, templates, the load generator, the evaluation harness and the scripts of inject/, which keep
  no state that outlives a request or act through /admin/config and SQL.
- fraud-detection-py, a variant that no service is configured to call.

What would come next: the topics of notifications and of the second pipeline as
instances of `OrderPipeline`; the composition of `Checkout` with `OrderPipeline`
through the first topic.
