-------------------------------- MODULE Services --------------------------------
(***************************************************************************)
(* The services of the shop as a table: for each service what it does with *)
(* the answers and the patience of its HTTP client, whether faults can be  *)
(* injected into it and which stores it keeps a client of; for each handler *)
(* what it does, in order; and the routes each service registers           *)
(* (environment/services/<service>/main.go).  ServiceMesh runs the table.  *)
(*                                                                         *)
(* The handlers of checkout and payments-api, the SQL and the rate limit   *)
(* are in Checkout, PaymentsApi and FraudDetection.                        *)
(***************************************************************************)
EXTENDS Naturals, Sequences

\* Time is counted in units of 2.5 s, half the timeout of the services' client.
Seconds(n) == (2 * n) \div 5

NoLimit == 99   \* the patience of a caller that waits for ever

--------------------------------------------------------------------------------

(* What a handler is made of. *)

\* A request to another service with the request's context; the handler goes on
\* whatever comes back.
Ask(route) == [do |-> "call", to |-> route, otherwise |-> 0, hit |-> FALSE]

\* The same, but no answer at all ends the handler with a status of its own.
Need(route, status) == [Ask(route) EXCEPT !.otherwise = status]

\* The same, but the answer may end the handler: a cache hit, a veto.
Consult(route, status) == [do |-> "call", to |-> route, otherwise |-> 0, hit |-> TRUE, answer |-> status]

\* proxyRequest: the status that comes back is the status that is answered.
Relay(route, patience) == [do |-> "relay", to |-> route, left |-> patience]

\* go func: a request with a context of its own that nobody waits for.
Background(route) == [do |-> "spawn", to |-> route]

\* A Redis command: one whose value answers the request if there is one, or one
\* that does not end the handler, whatever it returns.
Lookup == [do |-> "redis", hit |-> TRUE]
Store == [do |-> "redis", hit |-> FALSE]

\* kafkaSend: a synchronous send whose error is only logged.
Publish == [do |-> "kafka"]

\* The request names nothing the handler knows.
Check(status) == [do |-> "check", answer |-> status]

\* A slice whose bounds are counted from the page or the limit the client asked for,
\* as it stands: it panics when there is no such slice.
Slice == [do |-> "slice"]

Runs(service, steps) == [at |-> service, steps |-> steps]

--------------------------------------------------------------------------------

(* Mutants: plausible faults of this code; each one breaks a property of       *)
(* ServiceMesh.                                                               *)

\* A product page without its reviews is answered with 502.
MutProductNeedsReviews ==
  Runs("catalog", <<Check(404), Need("review.get", 502), Ask("media.product"),
                    Background("pricing.calculate"), Background("inventory.status")>>)

\* The price of a product page is awaited.
MutProductAwaitsPrice ==
  Runs("catalog", <<Check(404), Ask("review.get"), Ask("media.product"), Ask("pricing.calculate"),
                    Ask("inventory.status")>>)

\* user-service refreshes the tier of the user it was asked about.
MutUserRefreshesTier == Runs("user", <<Background("loyalty.tier"), Background("cache.set")>>)

\* A session is made for a user that user-service knows.
MutSessionAwaitsUser == Runs("session", <<Ask("user.get"), Store>>)

--------------------------------------------------------------------------------

(* The services.  injects: faults can be set with POST /admin/config, and a        *)
(* handler begins with applyFaultInjection.  uses: the stores it has a client of;  *)
(* without a producer kafkaSend does nothing.  waits: the timeout of               *)
(* otelHTTPClient, with which httpGet and httpPost send: they return an error only *)
(* when no response comes, and take any response for an answer.                    *)

AnalyticsService      == [injects |-> TRUE, waits |-> Seconds(5), uses |-> {}]
AuditService          == [injects |-> TRUE, waits |-> Seconds(5), uses |-> {}]
AuthService           == [injects |-> TRUE, waits |-> Seconds(5), uses |-> {"kafka"}]
BillingService        == [injects |-> TRUE, waits |-> Seconds(5), uses |-> {"kafka"}]
CacheService          == [injects |-> TRUE, waits |-> Seconds(5), uses |-> {"redis"}]
CartService           == [injects |-> TRUE, waits |-> Seconds(5), uses |-> {"redis"}]
CatalogService        == [injects |-> TRUE, waits |-> Seconds(5), uses |-> {}]
DeliveryService       == [injects |-> TRUE, waits |-> Seconds(5), uses |-> {}]
DiscountService       == [injects |-> TRUE, waits |-> Seconds(5), uses |-> {}]
EmailService          == [injects |-> TRUE, waits |-> Seconds(5), uses |-> {}]
ExternalService       == [injects |-> TRUE, waits |-> Seconds(5), uses |-> {}]
FraudService          == [injects |-> TRUE, waits |-> Seconds(5), uses |-> {"redis"}]
IngestService         == [injects |-> TRUE, waits |-> Seconds(5), uses |-> {"kafka"}]
InventoryService      == [injects |-> TRUE, waits |-> Seconds(5), uses |-> {"redis", "kafka"}]
LoyaltyService        == [injects |-> TRUE, waits |-> Seconds(5), uses |-> {"redis"}]
MediaService          == [injects |-> TRUE, waits |-> Seconds(5), uses |-> {}]
NotificationService   == [injects |-> TRUE, waits |-> Seconds(5), uses |-> {}]
OrdersService         == [injects |-> TRUE, waits |-> Seconds(5), uses |-> {"kafka"}]
AdapterService        == [injects |-> TRUE, waits |-> Seconds(5), uses |-> {}]
PricingService        == [injects |-> TRUE, waits |-> Seconds(5), uses |-> {"redis"}]
ProcessingService     == [injects |-> TRUE, waits |-> Seconds(5), uses |-> {"kafka"}]
ProfileService        == [injects |-> TRUE, waits |-> Seconds(5), uses |-> {}]
RankingService        == [injects |-> TRUE, waits |-> Seconds(5), uses |-> {"redis"}]
RecommendationService == [injects |-> TRUE, waits |-> Seconds(5), uses |-> {"redis"}]
ReportingService      == [injects |-> TRUE, waits |-> Seconds(5), uses |-> {}]
ReviewService         == [injects |-> TRUE, waits |-> Seconds(5), uses |-> {"kafka"}]
SearchService         == [injects |-> TRUE, waits |-> Seconds(5), uses |-> {"kafka"}]
SessionService        == [injects |-> TRUE, waits |-> Seconds(5), uses |-> {"redis"}]
ShippingService       == [injects |-> TRUE, waits |-> Seconds(5), uses |-> {}]
TaxService            == [injects |-> TRUE, waits |-> Seconds(5), uses |-> {}]
UserService           == [injects |-> TRUE, waits |-> Seconds(5), uses |-> {}]
WarehouseService      == [injects |-> TRUE, waits |-> Seconds(5), uses |-> {"kafka"}]

\* Gateway and frontend have no faults of their own and a patience for each route.
Gateway               == [injects |-> FALSE, waits |-> NoLimit, uses |-> {}]
Frontend              == [injects |-> FALSE, waits |-> NoLimit, uses |-> {}]

Service ==
  [analytics |-> AnalyticsService, audit |-> AuditService, auth |-> AuthService,
   billing |-> BillingService, cache |-> CacheService, cart |-> CartService,
   catalog |-> CatalogService, delivery |-> DeliveryService, discount |-> DiscountService,
   email |-> EmailService, external |-> ExternalService, fraud |-> FraudService,
   ingest |-> IngestService, inventory |-> InventoryService, loyalty |-> LoyaltyService,
   media |-> MediaService, notification |-> NotificationService, orders |-> OrdersService,
   adapter |-> AdapterService, pricing |-> PricingService, processing |-> ProcessingService,
   profile |-> ProfileService, ranking |-> RankingService, recommendation |-> RecommendationService,
   reporting |-> ReportingService, review |-> ReviewService, search |-> SearchService,
   session |-> SessionService, shipping |-> ShippingService, tax |-> TaxService,
   user |-> UserService, warehouse |-> WarehouseService, gateway |-> Gateway, frontend |-> Frontend]

--------------------------------------------------------------------------------

(* The handlers. *)

FrontendBrowse == Runs("frontend", <<Slice>>)
FrontendSearch == Runs("frontend", <<Relay("search.search", Seconds(10))>>)
FrontendLogin == Runs("frontend", <<Relay("gateway.login", Seconds(10))>>)
FrontendOrders == Runs("frontend", <<Relay("gateway.orders", Seconds(10))>>)
FrontendProduct == Runs("frontend", <<Check(400), Relay("gateway.product", Seconds(15))>>)
FrontendCartGet == Runs("frontend", <<Check(400), Relay("gateway.cartGet", Seconds(5))>>)
FrontendCartAdd == Runs("frontend", <<Check(400), Relay("gateway.cartAdd", Seconds(5))>>)
FrontendProfile == Runs("frontend", <<Check(400), Relay("profile.get", Seconds(5))>>)
FrontendIngest == Runs("frontend", <<Relay("ingest.ingest", Seconds(5))>>)

GatewayLogin == Runs("gateway", <<Relay("auth.login", Seconds(10))>>)
GatewayValidate == Runs("gateway", <<Relay("auth.validate", Seconds(5))>>)
GatewayCartGet == Runs("gateway", <<Check(400), Relay("cart.get", Seconds(5))>>)
GatewayCartAdd == Runs("gateway", <<Check(400), Relay("cart.add", Seconds(5))>>)
GatewayProducts == Runs("gateway", <<Relay("catalog.list", Seconds(10))>>)
GatewayProduct == Runs("gateway", <<Check(400), Relay("catalog.product", Seconds(15))>>)
GatewayOrders == Runs("gateway", <<Relay("orders.list", Seconds(10))>>)
GatewayOrder == Runs("gateway", <<Check(400), Relay("orders.get", Seconds(10))>>)
GatewayProfile == Runs("gateway", <<Check(400), Relay("profile.get", Seconds(5))>>)

AuthLogin == Runs("auth", <<Need("session.create", 502), Ask("user.get"), Publish>>)
AuthValidate == Runs("auth", <<Need("session.validate", 401)>>)
SessionCreate == Runs("session", <<Store>>)
SessionValidate == Runs("session", <<Lookup>>)
UserGet == Runs("user", <<Background("cache.set")>>)
UserList == Runs("user", <<Slice>>)
LoyaltyTier == Runs("loyalty", <<Lookup, Ask("user.get"), Store, Background("cache.set")>>)
LoyaltyPoints == Runs("loyalty", <<>>)
DiscountApply == Runs("discount", <<Ask("loyalty.tier"), Background("cache.set")>>)
PricingCalculate ==
  Runs("pricing", <<Ask("discount.apply"), Store, Background("tax.calculate"), Background("cache.set")>>)
TaxCalculate == Runs("tax", <<>>)
CacheGet == Runs("cache", <<Lookup>>)
CacheSet == Runs("cache", <<Store>>)

CatalogList == Runs("catalog", <<Consult("cache.get", 200), Slice>>)
CatalogProduct ==
  Runs("catalog", <<Check(404), Ask("review.get"), Ask("media.product"),
                    Background("pricing.calculate"), Background("inventory.status")>>)
ReviewGet ==
  Runs("review", <<Ask("recommendation.get"), Publish, Background("user.get"), Background("media.product")>>)
MediaProduct == Runs("media", <<Background("cache.set")>>)
MediaAvatar == Runs("media", <<>>)
RecommendationGet ==
  Runs("recommendation", <<Lookup, Ask("analytics.signals"), Background("user.get"), Background("cache.set")>>)
AnalyticsSignals == Runs("analytics", <<Ask("reporting.summary"), Background("cache.set")>>)
AnalyticsDashboard == Runs("analytics", <<>>)
ReportingSummary == Runs("reporting", <<Background("cache.set")>>)
ReportingDetailed == Runs("reporting", <<>>)
SearchSearch ==
  Runs("search", <<Consult("cache.get", 200), Ask("ranking.rank"), Publish, Background("analytics.signals")>>)
RankingRank ==
  Runs("ranking", <<Ask("profile.preferences"), Store, Background("analytics.signals"),
                    Background("recommendation.get")>>)
ProfileGet ==
  Runs("profile", <<Ask("user.get"), Ask("media.avatar"), Background("loyalty.tier"), Background("cache.set")>>)
ProfilePreferences == Runs("profile", <<>>)

\* The background calls of an add go through fireAndForget, which drops them when
\* fifty are under way; see Cart.
CartGet == Runs("cart", <<Lookup>>)
CartAdd ==
  Runs("cart", <<Ask("catalog.product"), Store, Store, Background("pricing.calculate"),
                 Background("session.validate")>>)

OrdersGet ==
  Runs("orders", <<Check(400), Ask("inventory.status"), Background("notification.notify"),
                   Background("shipping.status")>>)
OrdersList == Runs("orders", <<>>)
InventoryReserve == Runs("inventory", <<Store, Ask("warehouse.check"), Background("notification.notify")>>)
InventoryStatus == Runs("inventory", <<Lookup>>)
ShippingGet == Runs("shipping", <<>>)
ShippingStatus == Runs("shipping", <<Background("email.send"), Background("analytics.signals")>>)
WarehouseCheck == Runs("warehouse", <<>>)
WarehouseDispatch == Runs("warehouse", <<Publish>>)
NotificationNotify == Runs("notification", <<Ask("email.send")>>)
EmailSend == Runs("email", <<>>)
DeliveryDeliver ==
  Runs("delivery", <<Ask("notification.notify"), Background("warehouse.check"), Background("email.send")>>)
IngestIngest == Runs("ingest", <<Publish>>)
ProcessingStats == Runs("processing", <<>>)
AuditRecent == Runs("audit", <<Slice>>)

BillingCharge ==
  Runs("billing", <<Consult("fraud.check", 403), Ask("tax.calculate"), Need("adapter.pay", 502), Publish,
                    Background("notification.notify")>>)
AdapterPay == Runs("adapter", <<Need("external.charge", 502), Background("notification.notify")>>)
ExternalCharge == Runs("external", <<>>)
FraudCheck == Runs("fraud", <<Store, Store, Background("analytics.signals")>>)

\* One round of a Kafka consumer, and of the loop that makes events up.
OrdersConsume == Runs("orders", <<Ask("inventory.reserve"), Publish>>)
InventoryConsume == Runs("inventory", <<Publish>>)
ShippingConsume == Runs("shipping", <<Ask("warehouse.dispatch"), Ask("notification.notify")>>)
NotificationConsume == Runs("notification", <<Ask("email.send")>>)
RecommendationConsume == Runs("recommendation", <<Store, Ask("delivery.deliver")>>)
ProcessingConsume == Runs("processing", <<Publish>>)
ProduceSynthetic == Runs("ingest", <<Publish>>)

Loops == {"orders.consume", "inventory.consume", "shipping.consume", "notification.consume",
          "recommendation.consume", "processing.consume", "ingest.synthetic"}

Routes == {
  "frontend.browse", "frontend.search", "frontend.login", "frontend.orders", "frontend.product",
  "frontend.cartGet", "frontend.cartAdd", "frontend.profile", "frontend.ingest", "gateway.login",
  "gateway.validate", "gateway.cartGet", "gateway.cartAdd", "gateway.products", "gateway.product",
  "gateway.orders", "gateway.order", "gateway.profile", "auth.login", "auth.validate",
  "session.create", "session.validate", "user.get", "user.list", "loyalty.tier", "loyalty.points",
  "discount.apply", "pricing.calculate", "tax.calculate", "cache.get", "cache.set", "catalog.list",
  "catalog.product", "review.get", "media.product", "media.avatar", "recommendation.get",
  "analytics.signals", "analytics.dashboard", "reporting.summary", "reporting.detailed",
  "search.search", "ranking.rank", "profile.get", "profile.preferences", "cart.get", "cart.add",
  "orders.get", "orders.list", "inventory.reserve", "inventory.status", "shipping.get",
  "shipping.status", "warehouse.check", "warehouse.dispatch", "notification.notify", "email.send",
  "delivery.deliver", "ingest.ingest", "processing.stats", "audit.recent", "billing.charge",
  "adapter.pay", "external.charge", "fraud.check", "orders.consume", "inventory.consume",
  "shipping.consume", "notification.consume", "recommendation.consume", "processing.consume",
  "ingest.synthetic"}

\* The calls, beside proxyRequest's, whose URL takes in what the client wrote as it is.
Unescaped == {<<"loyalty.tier", "user.get">>, <<"discount.apply", "loyalty.tier">>,
              <<"pricing.calculate", "discount.apply">>, <<"search.search", "ranking.rank">>}

Handler ==
  [r \in Routes |-> CASE
    r = "frontend.browse" -> FrontendBrowse [] r = "frontend.search" -> FrontendSearch
    [] r = "frontend.login" -> FrontendLogin [] r = "frontend.orders" -> FrontendOrders
    [] r = "frontend.product" -> FrontendProduct [] r = "frontend.cartGet" -> FrontendCartGet
    [] r = "frontend.cartAdd" -> FrontendCartAdd [] r = "frontend.profile" -> FrontendProfile
    [] r = "frontend.ingest" -> FrontendIngest [] r = "gateway.login" -> GatewayLogin
    [] r = "gateway.validate" -> GatewayValidate [] r = "gateway.cartGet" -> GatewayCartGet
    [] r = "gateway.cartAdd" -> GatewayCartAdd [] r = "gateway.products" -> GatewayProducts
    [] r = "gateway.product" -> GatewayProduct [] r = "gateway.orders" -> GatewayOrders
    [] r = "gateway.order" -> GatewayOrder [] r = "gateway.profile" -> GatewayProfile
    [] r = "auth.login" -> AuthLogin [] r = "auth.validate" -> AuthValidate
    [] r = "session.create" -> SessionCreate [] r = "session.validate" -> SessionValidate
    [] r = "user.get" -> UserGet [] r = "user.list" -> UserList
    [] r = "loyalty.tier" -> LoyaltyTier [] r = "loyalty.points" -> LoyaltyPoints
    [] r = "discount.apply" -> DiscountApply [] r = "pricing.calculate" -> PricingCalculate
    [] r = "tax.calculate" -> TaxCalculate [] r = "cache.get" -> CacheGet
    [] r = "cache.set" -> CacheSet [] r = "catalog.list" -> CatalogList
    [] r = "catalog.product" -> CatalogProduct [] r = "review.get" -> ReviewGet
    [] r = "media.product" -> MediaProduct [] r = "media.avatar" -> MediaAvatar
    [] r = "recommendation.get" -> RecommendationGet
    [] r = "analytics.signals" -> AnalyticsSignals
    [] r = "analytics.dashboard" -> AnalyticsDashboard
    [] r = "reporting.summary" -> ReportingSummary
    [] r = "reporting.detailed" -> ReportingDetailed [] r = "search.search" -> SearchSearch
    [] r = "ranking.rank" -> RankingRank [] r = "profile.get" -> ProfileGet
    [] r = "profile.preferences" -> ProfilePreferences [] r = "cart.get" -> CartGet
    [] r = "cart.add" -> CartAdd [] r = "orders.get" -> OrdersGet
    [] r = "orders.list" -> OrdersList [] r = "inventory.reserve" -> InventoryReserve
    [] r = "inventory.status" -> InventoryStatus [] r = "shipping.get" -> ShippingGet
    [] r = "shipping.status" -> ShippingStatus [] r = "warehouse.check" -> WarehouseCheck
    [] r = "warehouse.dispatch" -> WarehouseDispatch
    [] r = "notification.notify" -> NotificationNotify [] r = "email.send" -> EmailSend
    [] r = "delivery.deliver" -> DeliveryDeliver [] r = "ingest.ingest" -> IngestIngest
    [] r = "processing.stats" -> ProcessingStats [] r = "audit.recent" -> AuditRecent
    [] r = "billing.charge" -> BillingCharge [] r = "adapter.pay" -> AdapterPay
    [] r = "external.charge" -> ExternalCharge [] r = "fraud.check" -> FraudCheck
    [] r = "orders.consume" -> OrdersConsume [] r = "inventory.consume" -> InventoryConsume
    [] r = "shipping.consume" -> ShippingConsume
    [] r = "notification.consume" -> NotificationConsume
    [] r = "recommendation.consume" -> RecommendationConsume
    [] r = "processing.consume" -> ProcessingConsume [] r = "ingest.synthetic" -> ProduceSynthetic]

--------------------------------------------------------------------------------

(* What main starts: the routes it registers, but for /health, /metrics and      *)
(* /admin/config, and its loops.                                               *)

FrontendMain == {"frontend.browse", "frontend.search", "frontend.login", "frontend.orders", "frontend.product",
    "frontend.cartGet", "frontend.cartAdd", "frontend.profile", "frontend.ingest", "frontend.checkout"}
GatewayMain == {"gateway.login", "gateway.validate", "gateway.cartGet", "gateway.cartAdd", "gateway.products",
    "gateway.product", "gateway.orders", "gateway.order", "gateway.profile", "gateway.checkout"}
AuthMain == {"auth.login", "auth.validate"}
SessionMain == {"session.create", "session.validate"}
UserMain == {"user.get", "user.list"}
LoyaltyMain == {"loyalty.tier", "loyalty.points"}
DiscountMain == {"discount.apply"}
PricingMain == {"pricing.calculate"}
TaxMain == {"tax.calculate"}
CacheMain == {"cache.get", "cache.set"}
CatalogMain == {"catalog.list", "catalog.product"}
ReviewMain == {"review.get"}
MediaMain == {"media.product", "media.avatar"}
RecommendationMain == {"recommendation.get", "recommendation.consume"}
AnalyticsMain == {"analytics.signals", "analytics.dashboard"}
ReportingMain == {"reporting.summary", "reporting.detailed"}
SearchMain == {"search.search"}
RankingMain == {"ranking.rank"}
ProfileMain == {"profile.get", "profile.preferences"}
CartMain == {"cart.get", "cart.add"}
OrdersMain == {"orders.get", "orders.list", "orders.consume"}
InventoryMain == {"inventory.reserve", "inventory.status", "inventory.consume"}
ShippingMain == {"shipping.get", "shipping.status", "shipping.consume"}
WarehouseMain == {"warehouse.check", "warehouse.dispatch"}
NotificationMain == {"notification.notify", "notification.consume"}
EmailMain == {"email.send"}
DeliveryMain == {"delivery.deliver"}
IngestMain == {"ingest.ingest", "ingest.synthetic"}
ProcessingMain == {"processing.stats", "processing.consume"}
AuditMain == {"audit.recent"}
BillingMain == {"billing.charge"}
AdapterMain == {"adapter.pay"}
ExternalMain == {"external.charge"}
FraudMain == {"fraud.check"}

Served ==
  UNION {FrontendMain, GatewayMain, AuthMain, SessionMain, UserMain, LoyaltyMain, DiscountMain,
         PricingMain, TaxMain, CacheMain, CatalogMain, ReviewMain, MediaMain, RecommendationMain,
         AnalyticsMain, ReportingMain, SearchMain, RankingMain, ProfileMain, CartMain, OrdersMain,
         InventoryMain, ShippingMain, WarehouseMain, NotificationMain, EmailMain, DeliveryMain,
         IngestMain, ProcessingMain, AuditMain, BillingMain, AdapterMain, ExternalMain, FraudMain}

================================================================================
