--------------------------- MODULE ServiceMeshProofs ---------------------------
(***************************************************************************)
(* Whose fault an error page or a page that is late can be, for every       *)
(* number of requests that are worked on at once, every route a client may  *)
(* ask, and every set of services that a fault may hit.                     *)
(*                                                                         *)
(* The first part proves what the rows of the table Services have in        *)
(* common; the second that every step of ServiceMesh keeps MeshIndInv, by    *)
(* way of what each does to a chain of handlers; the last is the theorems.   *)
(***************************************************************************)
EXTENDS ServiceMesh, FiniteSetTheorems, TLAPS

--------------------------------------------------------------------------------

(* The table *)

\* What is asked for in the background.
InBackground == {"cache.set", "tax.calculate", "pricing.calculate", "inventory.status", "user.get",
                 "media.product", "analytics.signals", "recommendation.get", "loyalty.tier",
                 "session.validate", "notification.notify", "shipping.status", "email.send",
                 "warehouse.check"}

\* The steps a handler can have.
Plain(step) ==
  \/ /\ step.do = "call" /\ step.to \in Routes
     /\ step.hit \in BOOLEAN /\ step.otherwise \in {0, 401}
     /\ step.hit => step.answer \in Statuses \ {500, 502, 504}
  \/ step.do = "spawn" /\ step.to \in InBackground
  \/ step.do = "redis" /\ step.hit \in BOOLEAN
  \/ step.do \in {"kafka", "slice"}
  \/ step.do = "check" /\ step.answer \in Statuses \ {500, 502, 504}

Relays(step) == step.do = "relay" /\ step.to \in Routes /\ step.left \in Nat \ {0}

Needs(step) ==
  step.do = "call" /\ step.to \in Awaited /\ step.hit = FALSE /\ step.otherwise = 502

PlainRow(h) ==
  /\ DOMAIN h.steps = 1..Len(h.steps)
  /\ Len(h.steps) \in Nat
  /\ h.at \in DOMAIN Service
  /\ \A i \in DOMAIN h.steps : Plain(h.steps[i])

\* Every service waits for an answer, if not for ever.
LEMMA ServiceRows ==
  \A x \in DOMAIN Service : Service[x].waits \in Nat \ {0} /\ Service[x].injects \in BOOLEAN
<1> DEFINE InOrder(e) == e.waits \in Nat \ {0} /\ e.injects \in BOOLEAN
<1>1. Seconds(5) = 2
  BY DEF Seconds
<1>2. InOrder(AnalyticsService) /\ InOrder(AuditService) /\ InOrder(AuthService) /\
      InOrder(BillingService) /\ InOrder(CacheService) /\ InOrder(CartService) /\
      InOrder(CatalogService) /\ InOrder(DeliveryService) /\ InOrder(DiscountService)
  BY <1>1 DEF NoLimit, AnalyticsService, AuditService, AuthService, BillingService,
    CacheService, CartService, CatalogService, DeliveryService, DiscountService
<1>3. InOrder(EmailService) /\ InOrder(ExternalService) /\ InOrder(FraudService) /\
      InOrder(IngestService) /\ InOrder(InventoryService) /\ InOrder(LoyaltyService) /\
      InOrder(MediaService) /\ InOrder(NotificationService) /\ InOrder(OrdersService)
  BY <1>1 DEF NoLimit, EmailService, ExternalService, FraudService, IngestService,
    InventoryService, LoyaltyService, MediaService, NotificationService, OrdersService
<1>4. InOrder(AdapterService) /\ InOrder(PricingService) /\ InOrder(ProcessingService) /\
      InOrder(ProfileService) /\ InOrder(RankingService) /\ InOrder(RecommendationService)
      /\ InOrder(ReportingService) /\ InOrder(ReviewService) /\ InOrder(SearchService)
  BY <1>1 DEF NoLimit, AdapterService, PricingService, ProcessingService, ProfileService,
    RankingService, RecommendationService, ReportingService, ReviewService, SearchService
<1>5. InOrder(SessionService) /\ InOrder(ShippingService) /\ InOrder(TaxService) /\
      InOrder(UserService) /\ InOrder(WarehouseService) /\ InOrder(Gateway) /\
      InOrder(Frontend)
  BY <1>1 DEF NoLimit, SessionService, ShippingService, TaxService, UserService,
    WarehouseService, Gateway, Frontend
<1> HIDE DEF InOrder
<1>6. \A x \in DOMAIN Service : InOrder(Service[x])
  BY <1>2, <1>3, <1>4, <1>5 DEF Service
<1> QED
  BY <1>6 DEF InOrder

\* What runs where.
LEMMA HandlersOfPages ==
  /\ Handler["frontend.browse"] = FrontendBrowse /\ Handler["frontend.search"] = FrontendSearch
  /\ Handler["frontend.login"] = FrontendLogin /\ Handler["frontend.orders"] = FrontendOrders
  /\ Handler["frontend.product"] = FrontendProduct /\ Handler["frontend.cartGet"] = FrontendCartGet
  /\ Handler["frontend.cartAdd"] = FrontendCartAdd /\ Handler["frontend.profile"] = FrontendProfile
  /\ Handler["frontend.ingest"] = FrontendIngest
  BY DEF Handler, Routes

LEMMA HandlersOfGateway ==
  /\ Handler["gateway.login"] = GatewayLogin /\ Handler["gateway.validate"] = GatewayValidate
  /\ Handler["gateway.cartGet"] = GatewayCartGet /\ Handler["gateway.cartAdd"] = GatewayCartAdd
  /\ Handler["gateway.products"] = GatewayProducts /\ Handler["gateway.product"] = GatewayProduct
  /\ Handler["gateway.orders"] = GatewayOrders /\ Handler["gateway.order"] = GatewayOrder
  /\ Handler["gateway.profile"] = GatewayProfile
  BY DEF Handler, Routes

LEMMA HandlersOfUsers ==
  /\ Handler["auth.login"] = AuthLogin /\ Handler["auth.validate"] = AuthValidate
  /\ Handler["session.create"] = SessionCreate /\ Handler["session.validate"] = SessionValidate
  /\ Handler["user.get"] = UserGet /\ Handler["user.list"] = UserList
  /\ Handler["loyalty.tier"] = LoyaltyTier /\ Handler["loyalty.points"] = LoyaltyPoints
  /\ Handler["discount.apply"] = DiscountApply /\ Handler["pricing.calculate"] = PricingCalculate
  /\ Handler["tax.calculate"] = TaxCalculate /\ Handler["cache.get"] = CacheGet
  /\ Handler["cache.set"] = CacheSet
  BY DEF Handler, Routes

LEMMA HandlersOfGoods ==
  /\ Handler["catalog.list"] = CatalogList /\ Handler["catalog.product"] = CatalogProduct
  /\ Handler["review.get"] = ReviewGet /\ Handler["media.product"] = MediaProduct
  /\ Handler["media.avatar"] = MediaAvatar /\ Handler["recommendation.get"] = RecommendationGet
  /\ Handler["analytics.signals"] = AnalyticsSignals /\ Handler["analytics.dashboard"] = AnalyticsDashboard
  /\ Handler["reporting.summary"] = ReportingSummary /\ Handler["reporting.detailed"] = ReportingDetailed
  /\ Handler["search.search"] = SearchSearch /\ Handler["ranking.rank"] = RankingRank
  /\ Handler["profile.get"] = ProfileGet /\ Handler["profile.preferences"] = ProfilePreferences
  /\ Handler["cart.get"] = CartGet /\ Handler["cart.add"] = CartAdd
  BY DEF Handler, Routes

LEMMA HandlersOfOrders ==
  /\ Handler["orders.get"] = OrdersGet /\ Handler["orders.list"] = OrdersList
  /\ Handler["inventory.reserve"] = InventoryReserve /\ Handler["inventory.status"] = InventoryStatus
  /\ Handler["shipping.get"] = ShippingGet /\ Handler["shipping.status"] = ShippingStatus
  /\ Handler["warehouse.check"] = WarehouseCheck /\ Handler["warehouse.dispatch"] = WarehouseDispatch
  /\ Handler["notification.notify"] = NotificationNotify /\ Handler["email.send"] = EmailSend
  /\ Handler["delivery.deliver"] = DeliveryDeliver /\ Handler["ingest.ingest"] = IngestIngest
  /\ Handler["processing.stats"] = ProcessingStats /\ Handler["audit.recent"] = AuditRecent
  /\ Handler["billing.charge"] = BillingCharge /\ Handler["adapter.pay"] = AdapterPay
  /\ Handler["external.charge"] = ExternalCharge /\ Handler["fraud.check"] = FraudCheck
  BY DEF Handler, Routes

LEMMA HandlersOfLoops ==
  /\ Handler["orders.consume"] = OrdersConsume /\ Handler["inventory.consume"] = InventoryConsume
  /\ Handler["shipping.consume"] = ShippingConsume /\ Handler["notification.consume"] = NotificationConsume
  /\ Handler["recommendation.consume"] = RecommendationConsume /\ Handler["processing.consume"] = ProcessingConsume
  /\ Handler["ingest.synthetic"] = ProduceSynthetic
  BY DEF Handler, Routes

\* The constructors make the steps they are meant to.
LEMMA StepsMade ==
  /\ \A to \in Routes : /\ Plain(Ask(to)) /\ Plain(Need(to, 401))
                        /\ Plain(Consult(to, 200)) /\ Plain(Consult(to, 403))
  /\ \A to \in InBackground : Plain(Background(to))
  /\ Plain(Lookup) /\ Plain(Store) /\ Plain(Publish) /\ Plain(Slice)
  /\ Plain(Check(400)) /\ Plain(Check(404))
<1>1. \A to \in Routes : Plain(Ask(to))
  BY DEF Plain, Ask
<1>2. \A to \in Routes : Plain(Need(to, 401))
  BY DEF Plain, Ask, Need
<1>3. \A to \in Routes : Plain(Consult(to, 200)) /\ Plain(Consult(to, 403))
  BY DEF Plain, Consult, Statuses
<1>4. \A to \in InBackground : Plain(Background(to))
  BY DEF Plain, Background
<1>5. /\ Plain(Lookup) /\ Plain(Store) /\ Plain(Publish) /\ Plain(Slice)
      /\ Plain(Check(400)) /\ Plain(Check(404))
  BY DEF Plain, Lookup, Store, Publish, Slice, Check, Statuses
<1> QED
  BY <1>1, <1>2, <1>3, <1>4, <1>5

\* What is asked for is there.
LEMMA Targets ==
  /\ {"search.search", "gateway.login", "gateway.orders", "gateway.product", "gateway.cartGet",
      "gateway.cartAdd", "profile.get", "ingest.ingest", "auth.login", "auth.validate",
      "cart.get", "cart.add", "catalog.list", "catalog.product", "orders.list",
      "orders.get", "session.create", "user.get", "session.validate", "cache.set",
      "loyalty.tier", "discount.apply", "tax.calculate", "cache.get", "review.get",
      "media.product", "pricing.calculate", "inventory.status", "recommendation.get",
      "analytics.signals", "reporting.summary", "ranking.rank", "profile.preferences",
      "media.avatar", "notification.notify", "shipping.status", "warehouse.check",
      "email.send", "fraud.check", "adapter.pay", "external.charge", "inventory.reserve",
      "warehouse.dispatch", "delivery.deliver"} \subseteq Routes
  /\ {"cache.set", "tax.calculate", "pricing.calculate", "inventory.status", "user.get",
      "media.product", "analytics.signals", "recommendation.get", "loyalty.tier",
      "session.validate", "notification.notify", "shipping.status", "email.send",
      "warehouse.check"}
       \subseteq InBackground
  BY DEF Routes, InBackground

\* The handlers that answer for themselves: what they ask for they can do without.
LEMMA PlainRows ==
  \A h \in {FrontendBrowse, AuthValidate, SessionCreate, SessionValidate, UserGet, UserList,
           LoyaltyTier, LoyaltyPoints, DiscountApply, PricingCalculate, TaxCalculate,
           CacheGet, CacheSet, CatalogList, CatalogProduct, ReviewGet, MediaProduct,
           MediaAvatar, RecommendationGet, AnalyticsSignals, AnalyticsDashboard,
           ReportingSummary, ReportingDetailed, SearchSearch, RankingRank, ProfileGet,
           ProfilePreferences, CartGet, CartAdd, OrdersGet, OrdersList, InventoryReserve,
           InventoryStatus, ShippingGet, ShippingStatus, WarehouseCheck, WarehouseDispatch,
           NotificationNotify, EmailSend, DeliveryDeliver, IngestIngest, ProcessingStats,
           AuditRecent, ExternalCharge, FraudCheck, OrdersConsume, InventoryConsume,
           ShippingConsume, NotificationConsume, RecommendationConsume, ProcessingConsume,
           ProduceSynthetic} : PlainRow(h)
<1>1. {"frontend", "auth", "session", "user", "loyalty", "discount", "pricing", "tax", "cache",
       "catalog", "review", "media", "recommendation", "analytics", "reporting", "search",
       "ranking", "profile", "cart", "orders", "inventory", "shipping", "warehouse",
       "notification", "email", "delivery", "ingest", "processing", "audit", "external",
       "fraud"} \subseteq DOMAIN Service
  BY DEF Service
<1>2. PlainRow(FrontendBrowse) /\ PlainRow(AuthValidate) /\ PlainRow(SessionCreate) /\
      PlainRow(SessionValidate) /\ PlainRow(UserGet) /\ PlainRow(UserList)
  BY <1>1, Targets, StepsMade DEF PlainRow, Runs, FrontendBrowse, AuthValidate,
    SessionCreate, SessionValidate, UserGet, UserList
<1>3. PlainRow(LoyaltyTier) /\ PlainRow(LoyaltyPoints) /\ PlainRow(DiscountApply) /\
      PlainRow(PricingCalculate) /\ PlainRow(TaxCalculate) /\ PlainRow(CacheGet) /\
      PlainRow(CacheSet)
  BY <1>1, Targets, StepsMade DEF PlainRow, Runs, LoyaltyTier, LoyaltyPoints, DiscountApply,
    PricingCalculate, TaxCalculate, CacheGet, CacheSet
<1>4. PlainRow(CatalogList) /\ PlainRow(CatalogProduct) /\ PlainRow(ReviewGet) /\
      PlainRow(MediaProduct) /\ PlainRow(MediaAvatar) /\ PlainRow(RecommendationGet) /\
      PlainRow(RecommendationConsume)
  BY <1>1, Targets, StepsMade DEF PlainRow, Runs, CatalogList, CatalogProduct, ReviewGet,
    MediaProduct, MediaAvatar, RecommendationGet, RecommendationConsume
<1>5. PlainRow(AnalyticsSignals) /\ PlainRow(AnalyticsDashboard) /\ PlainRow(ReportingSummary) /\
      PlainRow(ReportingDetailed) /\ PlainRow(SearchSearch) /\ PlainRow(RankingRank)
  BY <1>1, Targets, StepsMade DEF PlainRow, Runs, AnalyticsSignals, AnalyticsDashboard,
    ReportingSummary, ReportingDetailed, SearchSearch, RankingRank
<1>6. PlainRow(ProfileGet) /\ PlainRow(ProfilePreferences) /\ PlainRow(CartGet) /\
      PlainRow(CartAdd) /\ PlainRow(OrdersGet) /\ PlainRow(OrdersList) /\
      PlainRow(OrdersConsume)
  BY <1>1, Targets, StepsMade DEF PlainRow, Runs, ProfileGet, ProfilePreferences, CartGet,
    CartAdd, OrdersGet, OrdersList, OrdersConsume
<1>7. PlainRow(InventoryReserve) /\ PlainRow(InventoryStatus) /\ PlainRow(InventoryConsume) /\
      PlainRow(ShippingGet) /\ PlainRow(ShippingStatus) /\ PlainRow(ShippingConsume)
  BY <1>1, Targets, StepsMade DEF PlainRow, Runs, InventoryReserve, InventoryStatus,
    InventoryConsume, ShippingGet, ShippingStatus, ShippingConsume
<1>8. PlainRow(WarehouseCheck) /\ PlainRow(WarehouseDispatch) /\ PlainRow(NotificationNotify) /\
      PlainRow(NotificationConsume) /\ PlainRow(EmailSend) /\ PlainRow(DeliveryDeliver)
  BY <1>1, Targets, StepsMade DEF PlainRow, Runs, WarehouseCheck, WarehouseDispatch,
    NotificationNotify, NotificationConsume, EmailSend, DeliveryDeliver
<1>9. PlainRow(IngestIngest) /\ PlainRow(ProduceSynthetic) /\ PlainRow(ProcessingStats) /\
      PlainRow(ProcessingConsume) /\ PlainRow(AuditRecent) /\ PlainRow(ExternalCharge)
  BY <1>1, Targets, StepsMade DEF PlainRow, Runs, IngestIngest, ProduceSynthetic,
    ProcessingStats, ProcessingConsume, AuditRecent, ExternalCharge
<1>10. PlainRow(FraudCheck)
  BY <1>1, Targets, StepsMade DEF PlainRow, Runs, FraudCheck
<1> QED
  BY <1>2, <1>3, <1>4, <1>5, <1>6, <1>7, <1>8, <1>9, <1>10

\* The handlers that hand an answer through, or that need one.
Proxies == {"frontend.search", "frontend.login", "frontend.orders", "frontend.product",
            "frontend.cartGet", "frontend.cartAdd", "frontend.profile", "frontend.ingest",
            "gateway.login", "gateway.validate", "gateway.cartGet", "gateway.cartAdd",
            "gateway.products", "gateway.product", "gateway.orders", "gateway.order",
            "gateway.profile"}
Needy == {"auth.login", "billing.charge", "adapter.pay"}

LEMMA PlainRoutes == \A r \in Routes \ (Proxies \union Needy) : PlainRow(Handler[r])
  BY PlainRows, HandlersOfPages, HandlersOfGateway, HandlersOfUsers, HandlersOfGoods, 
     HandlersOfOrders, HandlersOfLoops DEF Routes, Proxies, Needy

\* What a proxy hands through it may be blamed for, and nothing else.
ProxyRow(r) ==
  /\ DOMAIN Handler[r].steps = 1..Len(Handler[r].steps)
  /\ Len(Handler[r].steps) \in Nat
  /\ Handler[r].at \in {"frontend", "gateway"}
  /\ \A i \in DOMAIN Handler[r].steps :
       LET step == Handler[r].steps[i]
       IN  \/ Plain(step)
           \/ Relays(step) /\ Essential[step.to] \subseteq Essential[r] \union {"frontend", "gateway"}

LEMMA EssentialOfOthers == \A r \in Routes \ (Proxies \union Needy) : Essential[r] = {Handler[r].at}
<1> SUFFICES ASSUME NEW r \in Routes, r \notin Proxies, r \notin Needy
             PROVE  Essential[r] = {Handler[r].at}
  OBVIOUS
<1> QED
  BY DEF Essential, Proxies, Needy

LEMMA EssentialOf ==
  /\ Essential["catalog.product"] = {"catalog"} /\ Essential["catalog.list"] = {"catalog"}
  /\ Essential["orders.get"] = {"orders"} /\ Essential["orders.list"] = {"orders"}
  /\ Essential["cart.get"] = {"cart"} /\ Essential["cart.add"] = {"cart"}
  /\ Essential["profile.get"] = {"profile"} /\ Essential["search.search"] = {"search"}
  /\ Essential["ingest.ingest"] = {"ingest"} /\ Essential["auth.validate"] = {"auth"}
<1>1. /\ Handler["catalog.product"].at = "catalog" /\ Handler["catalog.list"].at = "catalog"
      /\ Handler["orders.get"].at = "orders" /\ Handler["orders.list"].at = "orders"
      /\ Handler["cart.get"].at = "cart" /\ Handler["cart.add"].at = "cart"
  BY HandlersOfGoods, HandlersOfOrders
     DEF CatalogProduct, CatalogList, OrdersGet, OrdersList, CartGet, CartAdd, Runs
<1>2. /\ Handler["profile.get"].at = "profile" /\ Handler["search.search"].at = "search"
      /\ Handler["ingest.ingest"].at = "ingest" /\ Handler["auth.validate"].at = "auth"
  BY HandlersOfUsers, HandlersOfGoods, HandlersOfOrders
     DEF ProfileGet, SearchSearch, IngestIngest, AuthValidate, Runs
<1>3. {"catalog.product", "catalog.list", "orders.get", "orders.list", "cart.get", "cart.add",
       "profile.get", "search.search", "ingest.ingest", "auth.validate"}
        \subseteq Routes \ (Proxies \union Needy)
  BY DEF Routes, Proxies, Needy
<1> QED
  BY <1>1, <1>2, <1>3, EssentialOfOthers

LEMMA EssentialOfPages ==
  /\ \A r \in {"frontend.product", "gateway.product", "gateway.products"} : Essential[r] = {"catalog"}
  /\ \A r \in {"frontend.cartGet", "frontend.cartAdd", "gateway.cartGet", "gateway.cartAdd"} :
       Essential[r] = {"cart"}
  /\ \A r \in {"frontend.orders", "gateway.orders", "gateway.order"} : Essential[r] = {"orders"}
  /\ \A r \in {"frontend.profile", "gateway.profile"} : Essential[r] = {"profile"}
  /\ Essential["frontend.search"] = {"search"} /\ Essential["frontend.ingest"] = {"ingest"}
  /\ \A r \in {"frontend.login", "gateway.login", "auth.login"} :
       Essential[r] = {"auth", "session", "redis"}
  /\ Essential["gateway.validate"] = {"auth"}
  /\ Essential["billing.charge"] = {"billing", "adapter", "external"}
  /\ Essential["adapter.pay"] = {"adapter", "external"}
  BY DEF Essential, Routes

LEMMA RelayRow ==
  ASSUME NEW r, NEW at \in {"frontend", "gateway"}, NEW to \in Routes, NEW n \in Nat \ {0},
         Essential[to] \subseteq Essential[r] \union {"frontend", "gateway"},
         \/ Handler[r] = Runs(at, <<Relay(to, n)>>)
         \/ Handler[r] = Runs(at, <<Check(400), Relay(to, n)>>)
  PROVE  ProxyRow(r)
<1>1. Relays(Relay(to, n)) /\ Relay(to, n).to = to
  BY DEF Relays, Relay
<1> QED
  BY <1>1, StepsMade DEF ProxyRow, Runs

LEMMA ProxyRows == \A r \in Proxies : ProxyRow(r)
<1>1. Seconds(5) \in Nat \ {0} /\ Seconds(10) \in Nat \ {0} /\ Seconds(15) \in Nat \ {0}
  BY DEF Seconds
<1>2. /\ Essential["gateway.login"] = {"auth", "session", "redis"} /\ Essential["gateway.orders"] = {"orders"}
      /\ Essential["gateway.product"] = {"catalog"}
      /\ Essential["gateway.cartGet"] = {"cart"} /\ Essential["gateway.cartAdd"] = {"cart"}
      /\ Essential["auth.login"] = {"auth", "session", "redis"}
  BY EssentialOfPages
<1>3. ProxyRow("frontend.search")
  BY <1>1, <1>2, RelayRow, Targets, EssentialOf, EssentialOfPages, HandlersOfPages DEF FrontendSearch
<1>4. ProxyRow("frontend.login")
  BY <1>1, <1>2, RelayRow, Targets, EssentialOf, EssentialOfPages, HandlersOfPages DEF FrontendLogin
<1>5. ProxyRow("frontend.orders")
  BY <1>1, <1>2, RelayRow, Targets, EssentialOf, EssentialOfPages, HandlersOfPages DEF FrontendOrders
<1>6. ProxyRow("frontend.product")
  <2> DEFINE relay == Relay("gateway.product", Seconds(15))
  <2>1. Essential["gateway.product"] \subseteq Essential["frontend.product"] \union {"frontend", "gateway"}
    BY <1>2, EssentialOfPages
  <2>2. Handler["frontend.product"] = Runs("frontend", <<Check(400), relay>>)
    BY HandlersOfPages DEF FrontendProduct
  <2>3. Relays(relay) /\ relay.to = "gateway.product"
    BY <1>1, Targets DEF Relays, Relay
  <2> HIDE DEF relay
  <2> QED
    BY <2>1, <2>2, <2>3, StepsMade DEF ProxyRow, Runs
<1>7. ProxyRow("frontend.cartGet")
  BY <1>1, <1>2, RelayRow, Targets, EssentialOf, EssentialOfPages, HandlersOfPages DEF FrontendCartGet
<1>8. ProxyRow("frontend.cartAdd")
  BY <1>1, <1>2, RelayRow, Targets, EssentialOf, EssentialOfPages, HandlersOfPages DEF FrontendCartAdd
<1>9. ProxyRow("frontend.profile")
  BY <1>1, <1>2, RelayRow, Targets, EssentialOf, EssentialOfPages, HandlersOfPages DEF FrontendProfile
<1>10. ProxyRow("frontend.ingest")
  BY <1>1, <1>2, RelayRow, Targets, EssentialOf, EssentialOfPages, HandlersOfPages DEF FrontendIngest
<1>11. ProxyRow("gateway.login")
  BY <1>1, <1>2, RelayRow, Targets, EssentialOf, EssentialOfPages, HandlersOfGateway DEF GatewayLogin
<1>12. ProxyRow("gateway.validate")
  BY <1>1, <1>2, RelayRow, Targets, EssentialOf, EssentialOfPages, HandlersOfGateway DEF GatewayValidate
<1>13. ProxyRow("gateway.cartGet")
  BY <1>1, <1>2, RelayRow, Targets, EssentialOf, EssentialOfPages, HandlersOfGateway DEF GatewayCartGet
<1>14. ProxyRow("gateway.cartAdd")
  BY <1>1, <1>2, RelayRow, Targets, EssentialOf, EssentialOfPages, HandlersOfGateway DEF GatewayCartAdd
<1>15. ProxyRow("gateway.products")
  BY <1>1, <1>2, RelayRow, Targets, EssentialOf, EssentialOfPages, HandlersOfGateway DEF GatewayProducts
<1>16. ProxyRow("gateway.product")
  <2> DEFINE relay == Relay("catalog.product", Seconds(15))
  <2>1. Essential["catalog.product"] \subseteq Essential["gateway.product"] \union {"frontend", "gateway"}
    BY EssentialOf, EssentialOfPages
  <2>2. Handler["gateway.product"] = Runs("gateway", <<Check(400), relay>>)
    BY HandlersOfGateway DEF GatewayProduct
  <2>3. Relays(relay) /\ relay.to = "catalog.product"
    BY <1>1, Targets DEF Relays, Relay
  <2> HIDE DEF relay
  <2> QED
    BY <2>1, <2>2, <2>3, StepsMade DEF ProxyRow, Runs
<1>17. ProxyRow("gateway.orders")
  BY <1>1, <1>2, RelayRow, Targets, EssentialOf, EssentialOfPages, HandlersOfGateway DEF GatewayOrders
<1>18. ProxyRow("gateway.order")
  BY <1>1, <1>2, RelayRow, Targets, EssentialOf, EssentialOfPages, HandlersOfGateway DEF GatewayOrder
<1>19. ProxyRow("gateway.profile")
  BY <1>1, <1>2, RelayRow, Targets, EssentialOf, EssentialOfPages, HandlersOfGateway DEF GatewayProfile
<1> QED
  BY <1>3, <1>4, <1>5, <1>6, <1>7, <1>8, <1>9, <1>10, <1>11, <1>12, <1>13, <1>14, <1>15,
     <1>16, <1>17, <1>18, <1>19 DEF Proxies

\* A service that needs an answer may be blamed for all that keeps it from coming.
NeedyRow(r) ==
  /\ DOMAIN Handler[r].steps = 1..Len(Handler[r].steps)
  /\ Len(Handler[r].steps) \in Nat
  /\ Handler[r].at \in DOMAIN Service \intersect Essential[r]
  /\ \A i \in DOMAIN Handler[r].steps :
       LET step == Handler[r].steps[i]
       IN  \/ Plain(step)
           \/ /\ Needs(step)
              /\ Handler[step.to].at \in KeptBy(step.to) /\ KeptBy(step.to) \subseteq Essential[r]

LEMMA KeptByOf ==
  /\ KeptBy("session.create") = {"session", "redis"} /\ Handler["session.create"].at = "session"
  /\ KeptBy("adapter.pay") = {"adapter", "external"} /\ Handler["adapter.pay"].at = "adapter"
  /\ KeptBy("external.charge") = {"external"} /\ Handler["external.charge"].at = "external"
  BY HandlersOfUsers, HandlersOfOrders DEF KeptBy, SessionCreate, AdapterPay, ExternalCharge, Runs

LEMMA NeedyRows == \A r \in Needy : NeedyRow(r)
<1>1. {"auth", "billing", "adapter"} \subseteq DOMAIN Service
  BY DEF Service
<1>2. "session.create" \in Awaited /\ "adapter.pay" \in Awaited /\ "external.charge" \in Awaited
  BY DEF Awaited
<1>3. \A to \in Awaited : Needs(Need(to, 502)) /\ Need(to, 502).to = to
  BY DEF Needs, Ask, Need
<1>4. NeedyRow("auth.login")
  <2>1. Needs(Need("session.create", 502)) /\ Need("session.create", 502).to = "session.create"
    BY <1>2, <1>3
  <2> QED
    BY <1>1, <2>1, Targets, StepsMade, EssentialOfPages, KeptByOf, HandlersOfUsers DEF NeedyRow, Runs, AuthLogin
<1>5. NeedyRow("billing.charge")
  <2>1. Needs(Need("adapter.pay", 502)) /\ Need("adapter.pay", 502).to = "adapter.pay"
    BY <1>2, <1>3
  <2> QED
    BY <1>1, <2>1, Targets, StepsMade, EssentialOfPages, KeptByOf, HandlersOfOrders DEF NeedyRow, Runs, BillingCharge
<1>6. NeedyRow("adapter.pay")
  <2>1. Needs(Need("external.charge", 502)) /\ Need("external.charge", 502).to = "external.charge"
    BY <1>2, <1>3
  <2> QED
    BY <1>1, <2>1, Targets, StepsMade, EssentialOfPages, KeptByOf, HandlersOfOrders DEF NeedyRow, Runs, AdapterPay
<1> QED
  BY <1>4, <1>5, <1>6 DEF Needy

\* The rows of all routes.
LEMMA Rows ==
  ASSUME NEW r \in Routes
  PROVE  /\ DOMAIN Handler[r].steps = 1..Len(Handler[r].steps)
         /\ Len(Handler[r].steps) \in Nat
         /\ Handler[r].at \in DOMAIN Service
         /\ \A i \in DOMAIN Handler[r].steps :
              Plain(Handler[r].steps[i]) \/ Relays(Handler[r].steps[i]) \/ Needs(Handler[r].steps[i])
<1>1. CASE r \in Proxies
  <2>1. {"frontend", "gateway"} \subseteq DOMAIN Service
    BY DEF Service
  <2> QED
    BY <1>1, <2>1, ProxyRows DEF ProxyRow
<1>2. CASE r \in Needy
  BY <1>2, NeedyRows DEF NeedyRow
<1>3. CASE r \notin Proxies \union Needy
  BY <1>3, PlainRoutes DEF PlainRow
<1> QED
  BY <1>1, <1>2, <1>3

\* Whom a handler may blame.
LEMMA Blame ==
  ASSUME NEW r \in Routes
  PROVE  /\ Handler[r].at \in Behind(r)
         /\ \A i \in DOMAIN Handler[r].steps :
              LET step == Handler[r].steps[i]
              IN  /\ step.do = "relay" => Behind(step.to) \subseteq Behind(r)
                  /\ step.do = "call" /\ step.otherwise \in {500, 502} =>
                       /\ step.to \in Awaited
                       /\ Handler[step.to].at \in KeptBy(step.to)
                       /\ KeptBy(step.to) \subseteq Behind(r)
<1>1. CASE r \in Proxies
  BY <1>1, ProxyRows DEF ProxyRow, Behind, Plain, Relays
<1>2. CASE r \in Needy
  BY <1>2, NeedyRows DEF NeedyRow, Behind, Plain, Needs
<1>3. CASE r \notin Proxies \union Needy
  <2>1. PlainRow(Handler[r]) /\ Essential[r] = {Handler[r].at}
    BY <1>3, PlainRoutes, EssentialOfOthers
  <2> QED
    BY <2>1 DEF PlainRow, Behind, Plain
<1> QED
  BY <1>1, <1>2, <1>3

\* What may keep an answer that is needed from coming.
LEMMA Keeping ==
  ASSUME NEW r \in Awaited
  PROVE  /\ r \in Routes /\ Handler[r].at \in KeptBy(r)
         /\ \A i \in DOMAIN Handler[r].steps :
              LET step == Handler[r].steps[i]
              IN  /\ step.do \in {"call", "spawn", "redis"}
                  /\ step.do = "redis" => "redis" \in KeptBy(r)
                  /\ step.do = "call" =>
                       step.to \in Awaited /\ KeptBy(step.to) \subseteq KeptBy(r)
<1>1. Awaited \subseteq Routes
  BY DEF Awaited, Routes
<1>2. CASE r = "session.create"
  BY <1>1, <1>2, KeptByOf, HandlersOfUsers DEF SessionCreate, Store, Runs
<1>3. CASE r = "adapter.pay"
  <2>1. Handler[r].steps = <<Need("external.charge", 502), Background("notification.notify")>>
    BY <1>3, HandlersOfOrders DEF AdapterPay, Runs
  <2>2. Need("external.charge", 502).do = "call" /\ Need("external.charge", 502).to = "external.charge"
    BY DEF Need, Ask
  <2>3. Background("notification.notify").do = "spawn"
    BY DEF Background
  <2>4. "external.charge" \in Awaited
    BY DEF Awaited
  <2> QED
    BY <1>1, <1>3, <2>1, <2>2, <2>3, <2>4, KeptByOf
<1>4. CASE r = "external.charge"
  BY <1>1, <1>4, KeptByOf, HandlersOfOrders DEF ExternalCharge, Runs
<1> QED
  BY <1>2, <1>3, <1>4 DEF Awaited

\* The rows of the patient pages: how long each step may take.
PromptRow(r) ==
  /\ Handler[r].at \notin {"billing", "pricing", "fraud"}
  /\ NoLimit >= Reserve(r, 0) /\ Reserve(r, 0) >= Reserve(r, 1)
  /\ \A i \in DOMAIN Handler[r].steps :
       LET step == Handler[r].steps[i]
       IN  \/ step.do \in {"spawn", "check", "slice"} /\ Reserve(r, i) >= Reserve(r, i + 1)
           \/ /\ step.do = "call" /\ step.to \notin Punctual /\ step.otherwise = 0
              /\ At(r).waits < NoLimit /\ Reserve(r, i) >= At(r).waits + Reserve(r, i + 1)
           \/ /\ step.do = "relay" /\ step.to \in Punctual
              /\ step.left < NoLimit /\ Reserve(r, i) >= step.left
              /\ step.left >= Reserve(step.to, 0) /\ step.left >= Reserve(step.to, 1)
              /\ \/ Handler[r].at = "frontend" /\ Handler[step.to].at = "gateway"
                 \/ Handler[r].at = "gateway" /\ Handler[step.to].at \in {"catalog", "orders"}

\* Every patience and every reserve is a number.
LEMMA Reserves == \A r \in Punctual, i \in Nat : Reserve(r, i) \in Nat \ {0}
  BY DEF Reserve, Seconds, Punctual, Patient

LEMMA PromptRows == \A r \in Punctual : PromptRow(r)
<1>1. Seconds(5) = 2 /\ Seconds(10) = 4 /\ Seconds(15) = 6 /\ NoLimit = 99
  BY DEF Seconds, NoLimit
<1>2. Service["catalog"].waits = 2 /\ Service["orders"].waits = 2
  BY <1>1 DEF Service, CatalogService, OrdersService
<1>3. /\ Handler["catalog.product"].at = "catalog" /\ Handler["catalog.list"].at = "catalog"
      /\ Handler["orders.get"].at = "orders" /\ Handler["orders.list"].at = "orders"
  BY HandlersOfGoods, HandlersOfOrders DEF CatalogProduct, CatalogList, OrdersGet, OrdersList, Runs
<1>4. Handler["gateway.product"].at = "gateway" /\ Handler["gateway.orders"].at = "gateway"
  BY HandlersOfGateway DEF GatewayProduct, GatewayOrders, Runs
<1>5. /\ {"gateway.product", "gateway.orders", "catalog.product", "catalog.list", "orders.get", "orders.list"}
           \subseteq Punctual
      /\ "review.get" \notin Punctual /\ "media.product" \notin Punctual
      /\ "cache.get" \notin Punctual /\ "inventory.status" \notin Punctual
  BY DEF Punctual, Patient
<1>6. /\ \A i \in Nat : Reserve("frontend.product", i) = 6 /\ Reserve("gateway.product", i) = 6
      /\ \A i \in Nat : /\ Reserve("frontend.orders", i) = 4 /\ Reserve("gateway.orders", i) = 4
                        /\ Reserve("gateway.order", i) = 4 /\ Reserve("gateway.products", i) = 4
  BY <1>1 DEF Reserve
<1>7. /\ \A i \in Nat : Reserve("catalog.product", i) = IF i <= 2 THEN 5 ELSE IF i = 3 THEN 3 ELSE 1
      /\ \A i \in Nat : Reserve("catalog.list", i) = IF i <= 1 THEN 3 ELSE 1
      /\ \A i \in Nat : Reserve("orders.get", i) = IF i <= 2 THEN 3 ELSE 1
      /\ \A i \in Nat : Reserve("orders.list", i) = 1
  BY <1>1 DEF Reserve
<1>8. PromptRow("frontend.product") /\ PromptRow("frontend.orders")
  BY <1>1, <1>4, <1>5, <1>6, HandlersOfPages
     DEF PromptRow, FrontendProduct, FrontendOrders, Runs, Check, Relay
<1>9. PromptRow("gateway.product") /\ PromptRow("gateway.products")
  BY <1>1, <1>3, <1>5, <1>6, <1>7, HandlersOfGateway
     DEF PromptRow, GatewayProduct, GatewayProducts, Runs, Check, Relay
<1>10. PromptRow("gateway.orders") /\ PromptRow("gateway.order")
  BY <1>1, <1>3, <1>5, <1>6, <1>7, HandlersOfGateway
     DEF PromptRow, GatewayOrders, GatewayOrder, Runs, Check, Relay
<1>11. PromptRow("catalog.product")
  BY <1>1, <1>2, <1>3, <1>5, <1>7, HandlersOfGoods
     DEF PromptRow, At, CatalogProduct, Runs, Check, Ask, Background
<1>12. PromptRow("catalog.list")
  BY <1>1, <1>2, <1>3, <1>5, <1>7, HandlersOfGoods DEF PromptRow, At, CatalogList, Runs, Consult, Slice
<1>13. PromptRow("orders.get")
  BY <1>1, <1>2, <1>3, <1>5, <1>7, HandlersOfOrders
     DEF PromptRow, At, OrdersGet, Runs, Check, Ask, Background
<1>14. PromptRow("orders.list")
  BY <1>1, <1>3, <1>7, HandlersOfOrders DEF PromptRow, OrdersList, Runs
<1> QED
  BY <1>8, <1>9, <1>10, <1>11, <1>12, <1>13, <1>14 DEF Punctual, Patient

--------------------------------------------------------------------------------

(* What a handler does *)

\* Who is not sick is well.
LEMMA Well ==
  ASSUME how \in Faults \union {Healthy}, NEW s
  PROVE  /\ Health(s).lat \in Nat
         /\ s \notin sick => Health(s) = Healthy
         /\ Health(s).lat > 0 \/ Health(s).errors \/ ~Health(s).up => s \in sick
<1>1. how.lat \in Nat
  BY MeshAssumption DEF Healthy
<1> QED
  BY <1>1 DEF Health, Healthy

\* The three ways a frame changes under a handler.
LEMMA Busy ==
  ASSUME NEW f \in Frame, NEW n \in Nat, NEW g, g = [f EXCEPT !.busy = n]
  PROVE  g \in Frame /\ g.busy = n /\ g.route = f.route /\ g.pc = f.pc /\ g.left = f.left /\ g.out = f.out
  BY DEF Frame

LEMMA Advanced ==
  ASSUME NEW f \in Frame
  PROVE  /\ OnTo(f) \in Frame /\ OnTo(f).pc = f.pc + 1 /\ OnTo(f).route = f.route
         /\ OnTo(f).busy = f.busy /\ OnTo(f).left = f.left /\ OnTo(f).out = f.out
  BY DEF Frame, OnTo

LEMMA Answers ==
  ASSUME NEW f \in Frame, NEW status \in Statuses
  PROVE  /\ Answering(f, status) \in Frame /\ Answering(f, status).out = status
         /\ Answering(f, status).route = f.route /\ Answering(f, status).pc = f.pc
         /\ Answering(f, status).busy = f.busy /\ Answering(f, status).left = f.left
  BY DEF Frame, Answering

\* The handler of r is late if its page must be in time and all behind it is well.
Due(r) == r \in Punctual /\ ~Hit(Behind(r))

\* A handler that begins.
LEMMA BegunOK ==
  ASSUME how \in Faults \union {Healthy}, NEW r \in Routes, NEW p \in Nat \ {0},
         NEW onTime \in BOOLEAN,
         onTime => Due(r) /\ p >= Reserve(r, 0) /\ p >= Reserve(r, 1)
  PROVE  /\ Begun(r, p) \in Frame /\ TopOK(Begun(r, p), onTime)
         /\ Begun(r, p).route = r /\ Begun(r, p).left = p
<1> DEFINE f == Begun(r, p)
<1>1. Health(Handler[r].at).lat \in Nat
  BY Well
<1>2. /\ f \in Frame /\ f.route = r /\ f.left = p /\ f.out = 0 /\ f.pc \in {0, 1}
      /\ f.busy > 0 => Health(Handler[r].at).lat > 0
  BY <1>1 DEF Begun, Frame
<1> HIDE DEF f
<1>3. f.busy > 0 => Handler[r].at \in sick
  BY <1>2, Well
<1>4. f.busy > 0 => Hit(Behind(r))
  BY <1>3, Blame DEF Hit
<1>5. f.busy > 0 /\ r \in Awaited => Hit(KeptBy(r))
  BY <1>3, Keeping DEF Hit
<1>6. FrameOK(f, onTime)
  BY <1>2, <1>4, <1>5 DEF FrameOK, Due, Frame
<1>7. onTime => f.left >= Reserve(f.route, f.pc)
  BY <1>2
<1> QED
  BY <1>2, <1>6, <1>7 DEF f, TopOK

\* A handler goes on to its next step, and has the time left that the rest may take.
LEMMA OnToOK ==
  ASSUME NEW f \in Frame, NEW onTime \in BOOLEAN, FrameOK(f, onTime), f.out = 0,
         onTime => f.left >= Reserve(f.route, f.pc + 1)
  PROVE  TopOK(OnTo(f), onTime)
  BY Advanced, Answers DEF TopOK, FrameOK

\* A handler answers.
LEMMA AnsweringOK ==
  ASSUME NEW f \in Frame, NEW onTime \in BOOLEAN, FrameOK(f, onTime), NEW status \in Statuses,
         status \in {500, 502} => Blamed(f.route),
         onTime => status # 504
  PROVE  TopOK(Answering(f, status), onTime)
<1>1. status # 0
  BY DEF Statuses
<1> QED
  BY <1>1, Advanced, Answers DEF TopOK, FrameOK

\* What a step of a handler is.
LEMMA StepOf ==
  ASSUME NEW f \in Frame, f.pc \in DOMAIN Steps(f)
  PROVE  /\ f.route \in Routes /\ Step(f) = Handler[f.route].steps[f.pc]
         /\ Plain(Step(f)) \/ Relays(Step(f)) \/ Needs(Step(f))
  BY Rows DEF Steps, Step, Frame

\* A step that needs no other service, and one that sets off a background request.
LEMMA AloneOK ==
  ASSUME how \in Faults \union {Healthy},
         NEW f \in Frame, NEW onTime \in BOOLEAN, TopOK(f, onTime), onTime => Due(f.route),
         f.out = 0, NEW g \in Alone(f)
  PROVE  g \in Frame /\ TopOK(g, onTime) /\ g.route = f.route /\ g.left = f.left
<1>1. f.route \in Routes /\ f.pc \in Nat
  BY DEF Frame
<1>5. FrameOK(f, onTime)
  BY DEF TopOK
<1>2. CASE Injecting(f)
  <2>1. onTime => f.left >= Reserve(f.route, f.pc + 1)
    <3> SUFFICES ASSUME onTime
                 PROVE  f.left >= Reserve(f.route, f.pc + 1)
      OBVIOUS
    <3>1. f.left >= Reserve(f.route, 0) /\ f.route \in Punctual
      BY <1>2 DEF Injecting, Due, TopOK
    <3>2. /\ Reserve(f.route, 0) >= Reserve(f.route, 1)
          /\ Reserve(f.route, 0) \in Nat /\ Reserve(f.route, 1) \in Nat
      BY <3>1, PromptRows, Reserves DEF PromptRow
    <3>3. f.pc + 1 = 1 /\ f.left \in Nat
      BY <1>2 DEF Injecting, Frame
    <3> QED
      BY <3>1, <3>2, <3>3
  <2>2. TopOK(OnTo(f), onTime)
    BY <1>5, <2>1, OnToOK
  <2>3. Health(Handler[f.route].at).errors => Blamed(f.route)
    BY <1>1, Well, Blame DEF Hit, Blamed
  <2>4. Health(Handler[f.route].at).errors => TopOK(Answering(f, 500), onTime)
    BY <1>5, <2>3, AnsweringOK DEF Statuses
  <2>5. ~Ended(f) /\ \A what : ~Does(f, what)
    BY <1>1, <1>2, Rows DEF Injecting, Ended, Does, Steps
  <2>6. g = OnTo(f) \/ (Health(Handler[f.route].at).errors /\ g = Answering(f, 500))
    BY <1>2, <2>5 DEF Alone
  <2> QED
    BY <2>2, <2>4, <2>6, Advanced, Answers DEF Statuses
<1>3. CASE ~Injecting(f) /\ Ended(f)
  <2>1. \A what : ~Does(f, what)
    BY <1>1, <1>3, Rows DEF Ended, Does, Steps
  <2>2. g = Answering(f, 200)
    BY <1>3, <2>1 DEF Alone
  <2>3. TopOK(Answering(f, 200), onTime)
    BY <1>5, AnsweringOK DEF Statuses
  <2> QED
    BY <2>2, <2>3, Advanced, Answers DEF Statuses
<1>4. CASE ~Injecting(f) /\ ~Ended(f)
  <2>1. f.pc \in DOMAIN Steps(f)
    BY <1>1, <1>4, Rows DEF Injecting, Ended, Steps
  <2>2. /\ Step(f) = Handler[f.route].steps[f.pc]
        /\ Plain(Step(f)) \/ Relays(Step(f)) \/ Needs(Step(f))
    BY <2>1, StepOf
  <2>3. CASE Step(f).do = "check"
    <3>1. Step(f).answer \in Statuses \ {500, 502, 504}
      BY <2>2, <2>3 DEF Plain, Relays, Needs
    <3>2. g \in {OnTo(f), Answering(f, Step(f).answer)}
      BY <1>4, <2>1, <2>3 DEF Alone, Does
    <3>3. TopOK(Answering(f, Step(f).answer), onTime)
      BY <1>5, <3>1, AnsweringOK
    <3>4. onTime => f.left >= Reserve(f.route, f.pc + 1)
      <4> SUFFICES ASSUME onTime
                   PROVE  f.left >= Reserve(f.route, f.pc + 1)
        OBVIOUS
      <4>1. f.route \in Punctual /\ f.left >= Reserve(f.route, f.pc)
        BY DEF Due, TopOK
      <4>2. Reserve(f.route, f.pc) >= Reserve(f.route, f.pc + 1)
        BY <2>1, <2>2, <2>3, <4>1, PromptRows DEF PromptRow, Steps
      <4>3. Reserve(f.route, f.pc) \in Nat /\ Reserve(f.route, f.pc + 1) \in Nat /\ f.left \in Nat
        BY <1>1, <4>1, Reserves DEF Frame
      <4> QED
        BY <4>1, <4>2, <4>3
    <3>5. TopOK(OnTo(f), onTime)
      BY <1>5, <3>4, OnToOK
    <3> QED
      BY <3>1, <3>2, <3>3, <3>5, Advanced, Answers
  <2>4. CASE Step(f).do \in {"redis", "kafka"}
    <3>1. ~onTime
      BY <2>1, <2>2, <2>4, PromptRows DEF PromptRow, Due, Steps
    <3>2. f.route \in Awaited /\ Health(Step(f).do).lat > 0 => Hit(KeptBy(f.route))
      <4> SUFFICES ASSUME f.route \in Awaited, Health(Step(f).do).lat > 0
                   PROVE  Hit(KeptBy(f.route))
        OBVIOUS
      <4>1. Step(f).do = "redis" /\ "redis" \in KeptBy(f.route)
        BY <2>1, <2>2, <2>4, Keeping DEF Steps
      <4> QED
        BY <4>1, Well DEF Hit
    <3> DEFINE served == [f EXCEPT !.busy = Health(Step(f).do).lat]
    <3>3. Health(Step(f).do).lat \in Nat
      BY Well
    <3>4. /\ served \in Frame /\ served.route = f.route /\ served.left = f.left
          /\ served.out = 0 /\ served.busy = Health(Step(f).do).lat
      BY <3>3, Busy
    <3>5. g = OnTo(served) \/ g = Answering(served, 200)
      BY <1>4, <2>1, <2>4 DEF Alone, Does
    <3> HIDE DEF served
    <3>6. FrameOK(served, onTime)
      BY <1>5, <3>1, <3>2, <3>3, <3>4 DEF FrameOK
    <3>7. TopOK(OnTo(served), onTime) /\ TopOK(Answering(served, 200), onTime)
      BY <3>1, <3>4, <3>6, OnToOK, AnsweringOK DEF Statuses
    <3> QED
      BY <3>4, <3>5, <3>7, Advanced, Answers DEF Statuses
  <2>5. CASE Step(f).do = "slice"
    <3>1. g = OnTo(f) \/ (odd /\ g = Answering(f, 502))
      BY <1>4, <2>1, <2>5 DEF Alone, Does
    <3>2. odd => TopOK(Answering(f, 502), onTime)
      BY <1>5, AnsweringOK DEF Blamed, Statuses
    <3>3. onTime => f.left >= Reserve(f.route, f.pc + 1)
      <4> SUFFICES ASSUME onTime
                   PROVE  f.left >= Reserve(f.route, f.pc + 1)
        OBVIOUS
      <4>1. f.route \in Punctual /\ f.left >= Reserve(f.route, f.pc)
        BY DEF Due, TopOK
      <4>2. Reserve(f.route, f.pc) >= Reserve(f.route, f.pc + 1)
        BY <2>1, <2>2, <2>5, <4>1, PromptRows DEF PromptRow, Steps
      <4>3. Reserve(f.route, f.pc) \in Nat /\ Reserve(f.route, f.pc + 1) \in Nat /\ f.left \in Nat
        BY <1>1, <4>1, Reserves DEF Frame
      <4> QED
        BY <4>1, <4>2, <4>3
    <3>4. TopOK(OnTo(f), onTime)
      BY <1>5, <3>3, OnToOK
    <3> QED
      BY <3>1, <3>2, <3>4, Advanced, Answers DEF Statuses
  <2>6. CASE Step(f).do \notin {"check", "redis", "kafka", "slice"}
    BY <1>4, <2>1, <2>6 DEF Alone, Does
  <2> QED
    BY <2>3, <2>4, <2>5, <2>6
<1> QED
  BY <1>2, <1>3, <1>4

LEMMA SpawnOK ==
  ASSUME NEW f \in Frame, NEW onTime \in BOOLEAN, TopOK(f, onTime), onTime => Due(f.route),
         f.out = 0, Does(f, "spawn")
  PROVE  TopOK(OnTo(f), onTime) /\ Step(f).to \in InBackground
<1>1. /\ f.pc \in DOMAIN Handler[f.route].steps /\ f.pc \in Nat
      /\ Step(f) = Handler[f.route].steps[f.pc] /\ Step(f).do = "spawn"
  BY DEF Does, Steps, Step, Frame
<1>2. Step(f).to \in InBackground
  BY <1>1, StepOf DEF Plain, Relays, Needs, Steps
<1>3. onTime => f.left >= Reserve(f.route, f.pc + 1)
  <2> SUFFICES ASSUME onTime
               PROVE  f.left >= Reserve(f.route, f.pc + 1)
    OBVIOUS
  <2>1. f.route \in Punctual /\ f.left >= Reserve(f.route, f.pc)
    BY DEF Due, TopOK
  <2>2. Reserve(f.route, f.pc) >= Reserve(f.route, f.pc + 1)
    BY <1>1, <2>1, PromptRows DEF PromptRow
  <2>3. Reserve(f.route, f.pc) \in Nat /\ Reserve(f.route, f.pc + 1) \in Nat /\ f.left \in Nat
    BY <1>1, <2>1, Reserves DEF Frame
  <2> QED
    BY <2>1, <2>2, <2>3
<1> QED
  BY <1>2, <1>3, OnToOK DEF TopOK

LEMMA ReserveNext ==
  ASSUME NEW r \in Punctual, NEW i \in Nat
  PROVE  Reserve(r, i + 1) \in Nat \ {0}
<1>1. i + 1 \in Nat
  OBVIOUS
<1> QED
  BY <1>1, Reserves

\* The step of a handler that calls another one.
LEMMA CallOf ==
  ASSUME NEW f \in Frame, Calls(f)
  PROVE  /\ f.pc \in DOMAIN Handler[f.route].steps /\ f.pc \in Nat /\ f.route \in Routes
         /\ Step(f) = Handler[f.route].steps[f.pc] /\ Step(f).to \in Routes
         /\ \/ Step(f).do = "call" /\ Plain(Step(f))
            \/ Step(f).do = "call" /\ Needs(Step(f))
            \/ Step(f).do = "relay" /\ Relays(Step(f))
         /\ Does(f, "relay") <=> Step(f).do = "relay"
         /\ Does(f, "call") <=> Step(f).do = "call"
<1>1. /\ f.pc \in DOMAIN Handler[f.route].steps /\ f.pc \in DOMAIN Steps(f)
      /\ Step(f) = Handler[f.route].steps[f.pc] /\ Step(f).do \in {"call", "relay"}
  BY DEF Calls, Does, Steps, Step
<1>2. f.pc \in Nat /\ f.route \in Routes
  BY DEF Frame
<1>3. Awaited \subseteq Routes
  BY DEF Awaited, Routes
<1>4. \/ Step(f).do = "call" /\ Plain(Step(f))
      \/ Step(f).do = "call" /\ Needs(Step(f))
      \/ Step(f).do = "relay" /\ Relays(Step(f))
  <2>1. Plain(Step(f)) \/ Relays(Step(f)) \/ Needs(Step(f))
    BY <1>1, StepOf
  <2>2. Relays(Step(f)) => Step(f).do = "relay"
    BY DEF Relays
  <2>3. Needs(Step(f)) => Step(f).do = "call"
    BY DEF Needs
  <2>4. Plain(Step(f)) => Step(f).do # "relay"
    BY DEF Plain
  <2> QED
    BY <1>1, <2>1, <2>2, <2>3, <2>4
<1>5. Step(f).to \in Routes
  BY <1>3, <1>4 DEF Plain, Relays, Needs
<1> QED
  BY <1>1, <1>2, <1>4, <1>5 DEF Does

\* A caller that is answered.
LEMMA AnsweredOK ==
  ASSUME NEW f \in Frame, NEW g \in Frame, NEW onTime \in BOOLEAN, NEW onTime2 \in BOOLEAN,
         WaitsOK(f, g, onTime), FrameOK(g, onTime2), g.out > 0,
         onTime => Due(f.route), onTime /\ Due(g.route) => onTime2,
         NEW h \in Answered(f, g.out)
  PROVE  h \in Frame /\ TopOK(h, onTime) /\ h.route = f.route /\ h.left = f.left
<1> DEFINE r == f.route
<1>1. /\ FrameOK(f, onTime) /\ f.busy = 0 /\ f.out = 0 /\ Calls(f) /\ Step(f).to = g.route
      /\ onTime => /\ g.left < NoLimit
                   /\ f.left >= g.left + IF Does(f, "relay") THEN 0 ELSE Reserve(f.route, f.pc + 1)
  BY DEF WaitsOK
<1>2. /\ f.pc \in DOMAIN Handler[f.route].steps /\ f.pc \in Nat /\ f.route \in Routes
      /\ Step(f) = Handler[f.route].steps[f.pc] /\ Step(f).to \in Routes
      /\ \/ Step(f).do = "call" /\ Plain(Step(f))
         \/ Step(f).do = "call" /\ Needs(Step(f))
         \/ Step(f).do = "relay" /\ Relays(Step(f))
      /\ Does(f, "relay") <=> Step(f).do = "relay"
  BY <1>1, CallOf
<1>3. g.out \in Statuses
  BY DEF Frame, Statuses
<1>4. CASE Step(f).do = "relay"
  <2>1. h = Answering(f, g.out)
    BY <1>4 DEF Answered
  <2>2. g.out \in {500, 502} => Blamed(f.route)
    <3>1. g.out \in {500, 502} => Blamed(g.route)
      BY DEF FrameOK
    <3>2. Behind(g.route) \subseteq Behind(f.route)
      BY <1>1, <1>2, <1>4, Blame
    <3> QED
      BY <3>1, <3>2 DEF Blamed, Hit
  <2>3. onTime => Due(g.route)
    <3> SUFFICES ASSUME onTime
                 PROVE  Due(g.route)
      OBVIOUS
    <3>1. Step(f).to \in Punctual
      BY <1>2, <1>4, PromptRows DEF PromptRow, Due
    <3>2. Behind(g.route) \subseteq Behind(f.route)
      BY <1>1, <1>2, <1>4, Blame
    <3> QED
      BY <1>1, <3>1, <3>2 DEF Due, Hit
  <2>4. onTime => g.out # 504
    BY <2>3 DEF FrameOK
  <2>5. TopOK(Answering(f, g.out), onTime)
    BY <1>1, <1>3, <2>2, <2>4, AnsweringOK
  <2> QED
    BY <1>3, <2>1, <2>5, Answers
<1>5. CASE Step(f).do = "call"
  <2>1. onTime => f.left >= Reserve(f.route, f.pc + 1)
    <3> SUFFICES ASSUME onTime
                 PROVE  f.left >= Reserve(f.route, f.pc + 1)
      OBVIOUS
    <3>1. Reserve(f.route, f.pc + 1) \in Nat
      BY <1>2, Reserves DEF Due
    <3>2. f.left >= g.left + Reserve(f.route, f.pc + 1)
      BY <1>1, <1>2, <1>5
    <3>3. f.left \in Nat /\ g.left \in Nat
      BY DEF Frame
    <3> QED
      BY <3>1, <3>2, <3>3
  <2>2. TopOK(OnTo(f), onTime)
    BY <1>1, <2>1, OnToOK
  <2>3. Step(f).hit => Step(f).answer \in Statuses \ {500, 502, 504}
    BY <1>2, <1>5 DEF Plain, Needs
  <2>4. Step(f).hit => TopOK(Answering(f, Step(f).answer), onTime)
    BY <1>1, <2>3, AnsweringOK
  <2>5. h = OnTo(f) \/ (Step(f).hit /\ h = Answering(f, Step(f).answer))
    BY <1>5 DEF Answered
  <2> QED
    BY <2>2, <2>3, <2>4, <2>5, Advanced, Answers
<1> QED
  BY <1>2, <1>4, <1>5

\* A caller that is not: of a service that is down (502), or one that is late (504).
LEMMA UnansweredOK ==
  ASSUME NEW f \in Frame, NEW onTime \in BOOLEAN, FrameOK(f, onTime), f.busy = 0, f.out = 0,
         Calls(f), onTime => Due(f.route),
         onTime /\ ~Does(f, "relay") => f.left >= Reserve(f.route, f.pc + 1),
         NEW status \in {502, 504},
         status = 502 => Handler[Step(f).to].at \in sick,
         status = 504 => /\ Step(f).to \in Awaited => Hit(KeptBy(Step(f).to))
                         /\ ~(onTime /\ Does(f, "relay"))
  PROVE  /\ Unanswered(f, status) \in Frame /\ TopOK(Unanswered(f, status), onTime)
         /\ Unanswered(f, status).route = f.route /\ Unanswered(f, status).left = f.left
<1>1. /\ f.pc \in DOMAIN Handler[f.route].steps /\ f.pc \in Nat /\ f.route \in Routes
      /\ Step(f) = Handler[f.route].steps[f.pc] /\ Step(f).to \in Routes
      /\ \/ Step(f).do = "call" /\ Plain(Step(f))
         \/ Step(f).do = "call" /\ Needs(Step(f))
         \/ Step(f).do = "relay" /\ Relays(Step(f))
      /\ Does(f, "relay") <=> Step(f).do = "relay"
  BY CallOf
<1>2. CASE Step(f).do = "relay"
  <2>1. Unanswered(f, status) = Answering(f, status) /\ status \in Statuses
    BY <1>2 DEF Unanswered, Statuses
  <2>2. status = 502 => Blamed(f.route)
    <3>1. Handler[Step(f).to].at \in Behind(Step(f).to) /\ Behind(Step(f).to) \subseteq Behind(f.route)
      BY <1>1, <1>2, Blame
    <3> QED
      BY <3>1 DEF Hit, Blamed
  <2>3. onTime => status # 504
    BY <1>1, <1>2
  <2>4. TopOK(Answering(f, status), onTime)
    BY <2>1, <2>2, <2>3, AnsweringOK
  <2> QED
    BY <2>1, <2>4, Answers
<1>3. CASE Step(f).do = "call" /\ Step(f).otherwise > 0
  <2>1. Unanswered(f, status) = Answering(f, Step(f).otherwise)
    BY <1>3 DEF Unanswered
  <2>2. Step(f).otherwise \in {401, 502}
    BY <1>1, <1>3 DEF Plain, Needs
  <2>3. Step(f).otherwise = 502 => Blamed(f.route)
    <3> SUFFICES ASSUME Step(f).otherwise = 502
                 PROVE  Hit(Behind(f.route))
      BY DEF Blamed
    <3>1. /\ Step(f).to \in Awaited /\ Handler[Step(f).to].at \in KeptBy(Step(f).to)
          /\ KeptBy(Step(f).to) \subseteq Behind(f.route)
      BY <1>1, <1>3, Blame
    <3>2. Hit(KeptBy(Step(f).to))
      BY <3>1 DEF Hit
    <3> QED
      BY <3>1, <3>2 DEF Hit
  <2>4. Step(f).otherwise \in Statuses /\ Step(f).otherwise # 504 /\ Step(f).otherwise # 500
    BY <2>2 DEF Statuses
  <2>5. TopOK(Answering(f, Step(f).otherwise), onTime)
    BY <2>3, <2>4, AnsweringOK
  <2> QED
    BY <2>1, <2>4, <2>5, Answers
<1>4. CASE Step(f).do = "call" /\ ~(Step(f).otherwise > 0)
  <2>1. Unanswered(f, status) = OnTo(f)
    BY <1>4 DEF Unanswered
  <2>2. TopOK(OnTo(f), onTime)
    BY <1>1, <1>4, OnToOK
  <2> QED
    BY <2>1, <2>2, Advanced
<1> QED
  BY <1>1, <1>2, <1>3, <1>4

\* A caller whose request cannot be made, or read.
LEMMA SpoiltOK ==
  ASSUME odd, NEW f \in Frame, NEW onTime \in BOOLEAN, FrameOK(f, onTime), f.busy = 0, f.out = 0,
         Calls(f), onTime /\ ~Does(f, "relay") => f.left >= Reserve(f.route, f.pc + 1),
         NEW status \in {400, 502}
  PROVE  /\ Unanswered(f, status) \in Frame /\ TopOK(Unanswered(f, status), onTime)
         /\ Unanswered(f, status).route = f.route /\ Unanswered(f, status).left = f.left
<1>1. /\ \/ Step(f).do = "call" /\ Plain(Step(f))
         \/ Step(f).do = "call" /\ Needs(Step(f))
         \/ Step(f).do = "relay" /\ Relays(Step(f))
      /\ Does(f, "relay") <=> Step(f).do = "relay"
  BY CallOf
<1>2. ASSUME NEW x \in Statuses, x # 504
      PROVE  /\ Answering(f, x) \in Frame /\ TopOK(Answering(f, x), onTime)
             /\ Answering(f, x).route = f.route /\ Answering(f, x).left = f.left
  <2>1. TopOK(Answering(f, x), onTime)
    BY <1>2, AnsweringOK DEF Blamed
  <2> QED
    BY <2>1, Answers
<1>3. CASE Step(f).do = "relay"
  BY <1>2, <1>3 DEF Unanswered, Statuses
<1>4. CASE Step(f).do = "call" /\ Step(f).otherwise > 0
  <2>1. Step(f).otherwise \in {401, 502}
    BY <1>1, <1>4 DEF Plain, Needs
  <2>2. Step(f).otherwise \in Statuses /\ Step(f).otherwise # 504
    BY <2>1 DEF Statuses
  <2>3. Unanswered(f, status) = Answering(f, Step(f).otherwise)
    BY <1>4 DEF Unanswered
  <2> QED
    BY <1>2, <2>2, <2>3
<1>5. CASE Step(f).do = "call" /\ ~(Step(f).otherwise > 0)
  <2>1. Unanswered(f, status) = OnTo(f)
    BY <1>5 DEF Unanswered
  <2>2. TopOK(OnTo(f), onTime)
    BY <1>1, <1>5, OnToOK
  <2> QED
    BY <2>1, <2>2, Advanced
<1> QED
  BY <1>1, <1>3, <1>4, <1>5

\* How long a caller waits leaves its page in time, whatever comes of it.
LEMMA PatienceOK ==
  ASSUME NEW f \in Frame, NEW onTime \in BOOLEAN, TopOK(f, onTime), onTime => Due(f.route),
         f.out = 0, Calls(f)
  PROVE  /\ Patience(f) \in Nat \ {0}
         /\ onTime =>
              /\ Patience(f) < NoLimit
              /\ f.left >= Patience(f) + IF Does(f, "relay") THEN 0 ELSE Reserve(f.route, f.pc + 1)
              /\ Step(f).to \in Punctual =>
                   Patience(f) >= Reserve(Step(f).to, 0) /\ Patience(f) >= Reserve(Step(f).to, 1)
         /\ onTime /\ ~Does(f, "relay") => f.left >= Reserve(f.route, f.pc + 1)
<1>1. /\ f.pc \in DOMAIN Handler[f.route].steps /\ f.pc \in Nat /\ f.route \in Routes
      /\ Step(f) = Handler[f.route].steps[f.pc] /\ Step(f).to \in Routes
      /\ \/ Step(f).do = "call" /\ Plain(Step(f))
         \/ Step(f).do = "call" /\ Needs(Step(f))
         \/ Step(f).do = "relay" /\ Relays(Step(f))
      /\ Does(f, "relay") <=> Step(f).do = "relay"
  BY CallOf
<1>2. Patience(f) = IF Step(f).do = "relay" THEN Step(f).left ELSE At(f.route).waits
  BY DEF Patience
<1>3. At(f.route).waits \in Nat \ {0}
  BY <1>1, Rows, ServiceRows DEF At
<1>4. Patience(f) \in Nat \ {0}
  BY <1>1, <1>2, <1>3 DEF Relays
<1>5. ASSUME onTime
      PROVE  /\ Patience(f) < NoLimit
             /\ f.left >= Patience(f) + IF Does(f, "relay") THEN 0 ELSE Reserve(f.route, f.pc + 1)
             /\ Step(f).to \in Punctual =>
                  Patience(f) >= Reserve(Step(f).to, 0) /\ Patience(f) >= Reserve(Step(f).to, 1)
  <2>1. f.left >= Reserve(f.route, f.pc) /\ f.route \in Punctual
    BY <1>5 DEF TopOK, Due
  <2>2. Reserve(f.route, f.pc) \in Nat /\ Reserve(f.route, f.pc + 1) \in Nat /\ f.left \in Nat
    BY <1>1, <2>1, Reserves DEF Frame
  <2>3. CASE Step(f).do = "relay"
    <3>1. /\ Step(f).left < NoLimit /\ Reserve(f.route, f.pc) >= Step(f).left
          /\ Step(f).left >= Reserve(Step(f).to, 0) /\ Step(f).left >= Reserve(Step(f).to, 1)
      BY <1>1, <2>1, <2>3, PromptRows DEF PromptRow
    <3> QED
      BY <1>1, <1>2, <1>4, <2>1, <2>2, <2>3, <3>1
  <2>4. CASE Step(f).do = "call"
    <3>1. /\ Step(f).to \notin Punctual /\ At(f.route).waits < NoLimit
          /\ Reserve(f.route, f.pc) >= At(f.route).waits + Reserve(f.route, f.pc + 1)
      BY <1>1, <2>1, <2>4, PromptRows DEF PromptRow
    <3> QED
      BY <1>1, <1>2, <1>4, <2>1, <2>2, <2>4, <3>1
  <2> QED
    BY <1>1, <2>3, <2>4
<1>6. ASSUME onTime, ~Does(f, "relay")
      PROVE  f.left >= Reserve(f.route, f.pc + 1)
  <2>1. Reserve(f.route, f.pc + 1) \in Nat /\ f.left \in Nat
    BY <1>1, <1>6, Reserves DEF Frame, Due
  <2> QED
    BY <1>4, <1>5, <1>6, <2>1
<1> QED
  BY <1>4, <1>5, <1>6

--------------------------------------------------------------------------------

(* What a step does to a chain *)

\* The handler g is what has become of the k-th one.
Fits(g, c, k) ==
  g \in Frame /\ TopOK(g, OnTime(c, k)) /\ g.route = c[k].route /\ g.left = c[k].left

\* The chain c has become d, for the same request.
Continues(d, c) == d \in Seq(Frame) /\ d # <<>> /\ d[1].route = c[1].route /\ ChainOK(d)

LEMMA OnTimes ==
  ASSUME NEW c \in Seq(Frame), NEW i \in DOMAIN c
  PROVE  /\ OnTime(c, i) \in BOOLEAN
         /\ OnTime(c, i) => Due(c[i].route)
         /\ \A j \in DOMAIN c : j <= i /\ OnTime(c, i) => OnTime(c, j)
         /\ i + 1 \in DOMAIN c => (OnTime(c, i + 1) <=> OnTime(c, i) /\ Due(c[i + 1].route))
<1>1. i \in Nat /\ i >= 1 /\ DOMAIN c = 1..Len(c) /\ Len(c) \in Nat
  OBVIOUS
<1>2. \A j \in DOMAIN c : OnTime(c, j) <=> \A k \in 1..j : Due(c[k].route)
  BY DEF OnTime, Due
<1>3. OnTime(c, i) \in BOOLEAN
  BY DEF OnTime
<1> QED
  BY <1>1, <1>2, <1>3

\* The two parts of ChainOK.
LEMMA Links ==
  ASSUME NEW c \in Seq(Frame), ChainOK(c)
  PROVE  /\ c # <<>> => /\ Len(c) \in DOMAIN c /\ c[Len(c)] \in Frame
                        /\ TopOK(c[Len(c)], OnTime(c, Len(c)))
         /\ \A i \in DOMAIN c : i # Len(c) =>
              i + 1 \in DOMAIN c /\ WaitsOK(c[i], c[i + 1], OnTime(c, i))
         /\ \A i \in DOMAIN c : FrameOK(c[i], OnTime(c, i)) /\ c[i] \in Frame
<1>1. DOMAIN c = 1..Len(c) /\ Len(c) \in Nat
  OBVIOUS
<1>2. \A i \in DOMAIN c :
        IF i = Len(c) THEN TopOK(c[i], OnTime(c, i)) ELSE WaitsOK(c[i], c[i + 1], OnTime(c, i))
  BY DEF ChainOK
<1>3. \A i \in DOMAIN c : FrameOK(c[i], OnTime(c, i))
  BY <1>2 DEF TopOK, WaitsOK
<1> QED
  BY <1>1, <1>2, <1>3

\* What is below an awaited handler is awaited too.
LEMMA Descent ==
  ASSUME NEW c, ChainOK(c), NEW i \in DOMAIN c, NEW j \in DOMAIN c, i <= j, c[i].route \in Awaited
  PROVE  c[j].route \in Awaited /\ KeptBy(c[j].route) \subseteq KeptBy(c[i].route)
  BY DEF ChainOK

\* The chain above its k-th handler is gone, and that one has gone on.
LEMMA Replaced ==
  ASSUME NEW c \in Seq(Frame), ChainOK(c), NEW k \in DOMAIN c, NEW g, Fits(g, c, k),
         NEW d, d = Append(SubSeq(c, 1, k - 1), g)
  PROVE  Continues(d, c)
<1>0. g \in Frame /\ TopOK(g, OnTime(c, k)) /\ g.route = c[k].route /\ g.left = c[k].left
  BY DEF Fits
<1>1. k \in Nat /\ k >= 1 /\ k <= Len(c) /\ DOMAIN c = 1..Len(c) /\ Len(c) \in Nat
  OBVIOUS
<1>2. /\ SubSeq(c, 1, k - 1) \in Seq(Frame) /\ Len(SubSeq(c, 1, k - 1)) = k - 1
      /\ \A i \in 1..(k - 1) : SubSeq(c, 1, k - 1)[i] = c[i]
  BY <1>1
<1>3. /\ d \in Seq(Frame) /\ Len(d) = k /\ DOMAIN d = 1..k /\ d[k] = g
      /\ \A i \in 1..k : i # k => d[i] = c[i]
  BY <1>0, <1>1, <1>2
<1>4. \A i \in 1..k : d[i].route = c[i].route /\ d[i].left = c[i].left
  <2>1. g.route = c[k].route /\ g.left = c[k].left
    BY <1>0
  <2>2. d[k].route = c[k].route /\ d[k].left = c[k].left
    BY <1>3, <2>1
  <2>3. \A i \in 1..k : i # k => d[i] = c[i]
    BY <1>3
  <2> QED
    BY <2>2, <2>3
<1>5. ASSUME NEW i \in 1..k
      PROVE  OnTime(d, i) = OnTime(c, i)
  <2>1. \A j \in 1..i : j \in 1..k
    BY <1>1
  <2>2. \A j \in 1..i : d[j].route = c[j].route
    BY <1>4, <2>1
  <2> QED
    BY <2>2 DEF OnTime
<1>6. ASSUME NEW i \in DOMAIN d
      PROVE  IF i = Len(d) THEN TopOK(d[i], OnTime(d, i)) ELSE WaitsOK(d[i], d[i + 1], OnTime(d, i))
  <2>1. CASE i = k
    BY <1>0, <1>3, <1>5, <2>1
  <2>2. CASE i # k
    <3>1. i \in DOMAIN c /\ i + 1 \in 1..k /\ i # Len(c) /\ i \in 1..k
      BY <1>1, <1>3, <2>2
    <3>2. WaitsOK(c[i], c[i + 1], OnTime(d, i))
      BY <1>5, <3>1, Links
    <3>3. d[i] = c[i] /\ d[i + 1].route = c[i + 1].route /\ d[i + 1].left = c[i + 1].left
      BY <1>3, <1>4, <2>2, <3>1
    <3>4. WaitsOK(d[i], d[i + 1], OnTime(d, i))
      BY <3>2, <3>3 DEF WaitsOK
    <3> QED
      BY <1>3, <2>2, <3>4
  <2> QED
    BY <2>1, <2>2
<1>7. ASSUME NEW i \in DOMAIN d, NEW j \in DOMAIN d, i <= j, d[i].route \in Awaited
      PROVE  d[j].route \in Awaited /\ KeptBy(d[j].route) \subseteq KeptBy(d[i].route)
  <2>1. i \in DOMAIN c /\ j \in DOMAIN c /\ i \in 1..k /\ j \in 1..k
    BY <1>1, <1>3, <1>7
  <2>2. d[i].route = c[i].route /\ d[j].route = c[j].route
    BY <1>4, <2>1
  <2> QED
    BY <1>7, <2>1, <2>2, Descent
<1>8. ChainOK(d)
  BY <1>6, <1>7 DEF ChainOK
<1>9. d # <<>> /\ d[1].route = c[1].route
  BY <1>1, <1>3, <1>4
<1> QED
  BY <1>3, <1>8, <1>9 DEF Continues

\* The handler that waits for nobody has gone on.
LEMMA TopReplaced ==
  ASSUME NEW c \in Seq(Frame), ChainOK(c), c # <<>>, NEW g, Fits(g, c, Len(c)),
         NEW d, d = Append(Front(c), g)
  PROVE  Continues(d, c)
<1>1. Len(c) \in DOMAIN c
  BY Links
<1> QED
  BY <1>1, Replaced DEF Front

\* A request of one handler.
LEMMA Single ==
  ASSUME how \in Faults \union {Healthy}, NEW r \in Routes, NEW p \in Nat \ {0},
         r \in Punctual => p >= Reserve(r, 0) /\ p >= Reserve(r, 1)
  PROVE  LET d == <<Begun(r, p)>>
         IN  d \in Seq(Frame) /\ d # <<>> /\ d[1].route = r /\ ChainOK(d)
<1> DEFINE d == <<Begun(r, p)>>
<1>1. Begun(r, p) \in Frame /\ TopOK(Begun(r, p), Due(r)) /\ Begun(r, p).route = r
  BY BegunOK DEF Due
<1>2. d \in Seq(Frame) /\ Len(d) = 1 /\ DOMAIN d = {1} /\ d[1] = Begun(r, p) /\ d # <<>>
  BY <1>1
<1> HIDE DEF d
<1>3. OnTime(d, 1) <=> Due(r)
  <2>1. \A j \in 1..1 : j = 1
    OBVIOUS
  <2>2. OnTime(d, 1) <=> Due(d[1].route)
    BY <2>1 DEF OnTime, Due
  <2> QED
    BY <1>1, <1>2, <2>2
<1>4. TopOK(d[1], OnTime(d, 1))
  BY <1>1, <1>2, <1>3 DEF TopOK, FrameOK
<1>5. ChainOK(d)
  BY <1>2, <1>4 DEF ChainOK
<1> QED
  BY <1>1, <1>2, <1>5 DEF d

\* A handler has called another one.
LEMMA Called ==
  ASSUME how \in Faults \union {Healthy}, NEW c \in Seq(Frame), ChainOK(c), c # <<>>,
         NEW f, f = c[Len(c)], Ready(f), Calls(f)
  PROVE  Continues(Append(c, Begun(Step(f).to, Patience(f))), c)
<1> DEFINE n == Len(c)
           g == Begun(Step(f).to, Patience(f))
           d == Append(c, g)
           onTime == OnTime(c, n) /\ Due(Step(f).to)
<1>1. n \in DOMAIN c /\ f \in Frame /\ TopOK(f, OnTime(c, n)) /\ n \in Nat /\ n >= 1 /\ DOMAIN c = 1..n
  BY Links
<1>2. f.busy = 0 /\ f.out = 0
  BY DEF Ready
<1>3. OnTime(c, n) \in BOOLEAN /\ (OnTime(c, n) => Due(f.route))
  BY <1>1, OnTimes
<1>4. /\ Patience(f) \in Nat \ {0}
      /\ OnTime(c, n) =>
           /\ Patience(f) < NoLimit
           /\ f.left >= Patience(f) + IF Does(f, "relay") THEN 0 ELSE Reserve(f.route, f.pc + 1)
           /\ Step(f).to \in Punctual =>
                Patience(f) >= Reserve(Step(f).to, 0) /\ Patience(f) >= Reserve(Step(f).to, 1)
  BY <1>1, <1>2, <1>3, PatienceOK
<1>5. Step(f).to \in Routes
  BY <1>1, CallOf
<1>6. onTime => Patience(f) >= Reserve(Step(f).to, 0) /\ Patience(f) >= Reserve(Step(f).to, 1)
  BY <1>4 DEF Due
<1>7. onTime \in BOOLEAN /\ (onTime => Due(Step(f).to))
  BY DEF Due
<1>8. g \in Frame /\ TopOK(g, onTime) /\ g.route = Step(f).to /\ g.left = Patience(f)
  <2> HIDE DEF onTime
  <2> QED
    BY <1>4, <1>5, <1>6, <1>7, BegunOK
<1>9. WaitsOK(f, g, OnTime(c, n))
  BY <1>1, <1>2, <1>4, <1>8 DEF WaitsOK, TopOK
<1> HIDE DEF g
<1>10. /\ d \in Seq(Frame) /\ Len(d) = n + 1 /\ DOMAIN d = 1..(n + 1) /\ d[n + 1] = g
       /\ \A i \in 1..n : d[i] = c[i]
  BY <1>1, <1>8
<1> HIDE DEF d
<1>11. \A i \in 1..n : OnTime(d, i) = OnTime(c, i)
  BY <1>1, <1>10 DEF OnTime
<1>12. n \in DOMAIN d /\ n + 1 \in DOMAIN d /\ n \in 1..n
  BY <1>1, <1>10
<1>13. OnTime(d, n + 1) = onTime
  BY <1>8, <1>10, <1>11, <1>12, OnTimes
<1> HIDE DEF onTime
<1>14. ASSUME NEW i \in DOMAIN d
       PROVE  IF i = Len(d) THEN TopOK(d[i], OnTime(d, i)) ELSE WaitsOK(d[i], d[i + 1], OnTime(d, i))
  <2>1. CASE i = n + 1
    BY <1>8, <1>10, <1>13, <2>1
  <2>2. CASE i = n
    <3>1. d[i] = f
      BY <1>10, <1>12, <2>2
    <3>3. d[i + 1] = g
      BY <1>10, <2>2
    <3>4. i # Len(d)
      <4>1. Len(d) = i + 1 /\ i \in Nat
        BY <1>1, <1>10, <2>2
      <4> QED
        BY <4>1
    <3>2. OnTime(d, i) = OnTime(c, n)
      BY <1>11, <1>12, <2>2
    <3> QED
      BY <1>9, <3>1, <3>2, <3>3, <3>4
  <2>3. CASE i \notin {n, n + 1}
    <3>1. i \in DOMAIN c /\ i # Len(c) /\ i \in 1..n /\ i + 1 \in 1..n /\ i # Len(d)
      BY <1>1, <1>10, <2>3
    <3>2. WaitsOK(c[i], c[i + 1], OnTime(c, i))
      BY <3>1, Links
    <3>3. d[i] = c[i] /\ d[i + 1] = c[i + 1] /\ OnTime(d, i) = OnTime(c, i)
      BY <1>10, <1>11, <3>1
    <3> QED
      BY <3>1, <3>2, <3>3
  <2> QED
    BY <2>1, <2>2, <2>3
<1>15. f.route \in Awaited => g.route \in Awaited /\ KeptBy(g.route) \subseteq KeptBy(f.route)
  <2> SUFFICES ASSUME f.route \in Awaited
               PROVE  g.route \in Awaited /\ KeptBy(g.route) \subseteq KeptBy(f.route)
    OBVIOUS
  <2>1. f.pc \in DOMAIN Handler[f.route].steps /\ Step(f) = Handler[f.route].steps[f.pc]
    BY <1>1, CallOf
  <2>2. Step(f).do = "call"
    <3>1. Step(f).do \in {"call", "relay"}
      BY DEF Calls, Does
    <3> QED
      BY <2>1, <3>1, Keeping
  <2>3. Step(f).to \in Awaited /\ KeptBy(Step(f).to) \subseteq KeptBy(f.route)
    BY <2>1, <2>2, Keeping
  <2> QED
    BY <1>8, <2>3
<1>16. ASSUME NEW i \in DOMAIN d, NEW j \in DOMAIN d, i <= j, d[i].route \in Awaited
       PROVE  d[j].route \in Awaited /\ KeptBy(d[j].route) \subseteq KeptBy(d[i].route)
  <2>1. \A k \in 1..n : c[k].route \in Awaited =>
          \A l \in 1..n : k <= l => c[l].route \in Awaited /\ KeptBy(c[l].route) \subseteq KeptBy(c[k].route)
    BY <1>1, Descent
  <2>2. CASE j \in 1..n
    <3>1. i \in 1..n
      BY <1>1, <1>10, <1>16, <2>2
    <3> QED
      BY <1>10, <1>16, <2>1, <2>2, <3>1
  <2>3. CASE j \notin 1..n /\ i \in 1..n
    <3>1. d[j] = g /\ d[i] = c[i]
      BY <1>10, <2>3
    <3>2. f.route \in Awaited /\ KeptBy(f.route) \subseteq KeptBy(d[i].route)
      BY <1>1, <1>16, <2>1, <2>3, <3>1
    <3> QED
      BY <1>15, <3>1, <3>2
  <2>4. CASE j \notin 1..n /\ i \notin 1..n
    BY <1>10, <1>16, <2>4
  <2> QED
    BY <2>2, <2>3, <2>4
<1>17. ChainOK(d)
  BY <1>14, <1>16 DEF ChainOK
<1>18. d # <<>> /\ d[1].route = c[1].route
  BY <1>1, <1>10
<1> QED
  BY <1>10, <1>17, <1>18 DEF d, g, Continues

\* A handler that waits for the next in time has more time left than one tick: it has
\* what it needs after the answer, or it hands the answer through and so does not have
\* less than the handler it waits for; two services hand answers through, one after the
\* other.
LEMMA Slack ==
  ASSUME NEW c \in Seq(Frame), ChainOK(c), \A i \in DOMAIN c : c[i].left > 0, ~OnTime(c, Len(c)),
         NEW k \in DOMAIN c, OnTime(c, k)
  PROVE  c[k].left >= 2
<1>1. ASSUME NEW i \in DOMAIN c, OnTime(c, i)
      PROVE  \/ c[i].left >= 2
             \/ /\ i + 1 \in DOMAIN c /\ OnTime(c, i + 1) /\ c[i].left >= c[i + 1].left
                /\ \/ Handler[c[i].route].at = "frontend" /\ Handler[c[i + 1].route].at = "gateway"
                   \/ /\ Handler[c[i].route].at = "gateway"
                      /\ Handler[c[i + 1].route].at \in {"catalog", "orders"}
  <2> DEFINE f == c[i]
             g == c[i + 1]
  <2>1. i # Len(c)
    BY <1>1
  <2>2. i + 1 \in DOMAIN c /\ WaitsOK(f, g, OnTime(c, i)) /\ f \in Frame
    BY <2>1, Links
  <2>3. g \in Frame /\ g.left > 0
    BY <2>2, Links
  <2>4. Due(f.route) /\ f.route \in Punctual
    BY <1>1, OnTimes DEF Due
  <2> HIDE DEF f, g
  <2>5. /\ Calls(f) /\ Step(f).to = g.route
        /\ f.left >= g.left + IF Does(f, "relay") THEN 0 ELSE Reserve(f.route, f.pc + 1)
    BY <1>1, <2>2 DEF WaitsOK
  <2>6. /\ f.pc \in DOMAIN Handler[f.route].steps /\ f.pc \in Nat /\ f.route \in Routes
        /\ Step(f) = Handler[f.route].steps[f.pc]
        /\ Does(f, "relay") <=> Step(f).do = "relay"
    BY <2>2, <2>5, CallOf
  <2>7. f.left \in Nat /\ g.left \in Nat /\ Reserve(f.route, f.pc + 1) \in Nat \ {0}
    <3>1. f.left \in Nat /\ g.left \in Nat
      BY <2>2, <2>3 DEF Frame
    <3>2. f.pc + 1 \in Nat
      BY <2>6
    <3> QED
      BY <2>4, <3>1, <3>2, Reserves
  <2>8. CASE Step(f).do # "relay"
    BY <2>3, <2>5, <2>6, <2>7, <2>8 DEF f
  <2>9. CASE Step(f).do = "relay"
    <3>1. /\ Step(f).to \in Punctual
          /\ \/ Handler[f.route].at = "frontend" /\ Handler[g.route].at = "gateway"
             \/ Handler[f.route].at = "gateway" /\ Handler[g.route].at \in {"catalog", "orders"}
      BY <2>4, <2>5, <2>6, <2>9, PromptRows DEF PromptRow
    <3>2. Behind(g.route) \subseteq Behind(f.route)
      BY <2>5, <2>6, <2>9, Blame
    <3>3. Due(g.route)
      BY <2>4, <2>5, <3>1, <3>2 DEF Due, Hit
    <3>4. OnTime(c, i + 1)
      BY <1>1, <2>2, <3>3, OnTimes DEF g
    <3>5. f.left >= g.left
      BY <2>5, <2>6, <2>7, <2>9
    <3> QED
      BY <2>2, <3>1, <3>4, <3>5 DEF f, g
  <2> QED
    BY <2>8, <2>9
<1>2. \A i \in DOMAIN c : c[i].left \in Nat
  BY Links DEF Frame
<1>3. ASSUME NEW i \in DOMAIN c, OnTime(c, i), Handler[c[i].route].at \in {"catalog", "orders"}
      PROVE  c[i].left >= 2
  BY <1>1, <1>3
<1>4. ASSUME NEW i \in DOMAIN c, OnTime(c, i), Handler[c[i].route].at = "gateway"
      PROVE  c[i].left >= 2
  <2> SUFFICES ASSUME ~(c[i].left >= 2)
               PROVE  FALSE
    OBVIOUS
  <2>1. /\ i + 1 \in DOMAIN c /\ OnTime(c, i + 1) /\ c[i].left >= c[i + 1].left
        /\ Handler[c[i + 1].route].at \in {"catalog", "orders"}
    BY <1>1, <1>4
  <2>2. c[i + 1].left >= 2
    BY <1>3, <2>1
  <2> QED
    BY <1>2, <2>1, <2>2
<1> SUFFICES ASSUME ~(c[k].left >= 2)
             PROVE  FALSE
  OBVIOUS
<1>5. /\ k + 1 \in DOMAIN c /\ OnTime(c, k + 1) /\ c[k].left >= c[k + 1].left
      /\ Handler[c[k + 1].route].at \in {"gateway", "catalog", "orders"}
  BY <1>1
<1>6. c[k + 1].left >= 2
  BY <1>3, <1>4, <1>5
<1> QED
  BY <1>2, <1>5, <1>6

\* Some time later.
Aged(f) == [f EXCEPT !.busy = IF @ > 0 THEN @ - 1 ELSE 0, !.left = IF @ = NoLimit THEN @ ELSE @ - 1]

LEMMA Aging ==
  ASSUME NEW f \in Frame, f.left > 0
  PROVE  /\ Aged(f) \in Frame /\ Aged(f).route = f.route /\ Aged(f).pc = f.pc /\ Aged(f).out = f.out
         /\ Aged(f).busy = IF f.busy > 0 THEN f.busy - 1 ELSE 0
         /\ Aged(f).left = IF f.left = NoLimit THEN f.left ELSE f.left - 1
<1> DEFINE busy == IF f.busy > 0 THEN f.busy - 1 ELSE 0
           left == IF f.left = NoLimit THEN f.left ELSE f.left - 1
<1>1. busy \in Nat /\ left \in Nat
  BY DEF Frame
<1>2. Aged(f) = [f EXCEPT !.busy = busy, !.left = left]
  BY DEF Aged, Frame
<1> HIDE DEF busy, left
<1>3. /\ Aged(f) \in Frame /\ Aged(f).route = f.route /\ Aged(f).pc = f.pc /\ Aged(f).out = f.out
      /\ Aged(f).busy = busy /\ Aged(f).left = left
  BY <1>1, <1>2 DEF Frame
<1> QED
  BY <1>3 DEF busy, left

LEMMA AgedOK ==
  ASSUME NEW c \in Seq(Frame), ChainOK(c), \A i \in DOMAIN c : c[i].left > 0,
         c # <<>> => c[Len(c)].busy > 0
  PROVE  LET d == [i \in DOMAIN c |-> Aged(c[i])]
         IN  d \in Seq(Frame) /\ (c # <<>> => d # <<>> /\ d[1].route = c[1].route) /\ ChainOK(d)
<1> DEFINE d == [i \in DOMAIN c |-> Aged(c[i])]
           n == Len(c)
<1>1. DOMAIN c = 1..n /\ n \in Nat
  OBVIOUS
<1>2. \A i \in DOMAIN c : /\ Aged(c[i]) \in Frame /\ c[i] \in Frame
                          /\ Aged(c[i]).route = c[i].route /\ Aged(c[i]).pc = c[i].pc
                          /\ Aged(c[i]).out = c[i].out
                          /\ Aged(c[i]).busy = IF c[i].busy > 0 THEN c[i].busy - 1 ELSE 0
                          /\ Aged(c[i]).left = IF c[i].left = NoLimit THEN c[i].left ELSE c[i].left - 1
  BY Links, Aging
<1>3. d \in Seq(Frame) /\ Len(d) = n /\ DOMAIN d = 1..n
  BY <1>1, <1>2
<1>4. \A i \in 1..n : d[i] = Aged(c[i])
  BY <1>1
<1> HIDE DEF d
<1>5. \A i \in 1..n : OnTime(d, i) = OnTime(c, i)
  <2>1. \A i \in 1..n : d[i].route = c[i].route
    BY <1>1, <1>2, <1>4
  <2> QED
    BY <1>1, <2>1 DEF OnTime
<1>6. \A i \in 1..n : n \in 1..n /\ ~OnTime(c, n)
  BY <1>1, Links DEF TopOK, FrameOK
<1>7. ASSUME NEW i \in 1..n
      PROVE  /\ d[i].route \in Awaited => Hit(KeptBy(d[i].route))
             /\ d[i].out \in {500, 502} => Blamed(d[i].route)
             /\ OnTime(d, i) => d[i].busy = 0 /\ d[i].out # 504 /\ d[i].left > 0
  <2>1. c[i] \in Frame /\ FrameOK(c[i], OnTime(c, i)) /\ d[i] = Aged(c[i]) /\ i \in DOMAIN c
    BY <1>1, <1>4, Links
  <2>2. d[i].route = c[i].route /\ d[i].out = c[i].out
    BY <1>2, <2>1
  <2>3. c[i].route \in Awaited => Hit(KeptBy(c[i].route))
    <3> SUFFICES ASSUME c[i].route \in Awaited
                 PROVE  Hit(KeptBy(c[i].route))
      OBVIOUS
    <3>1. n \in DOMAIN c /\ i <= n /\ c[n].busy > 0
      BY <1>1
    <3>2. c[n].route \in Awaited /\ KeptBy(c[n].route) \subseteq KeptBy(c[i].route)
      BY <1>1, <3>1, Descent
    <3>3. Hit(KeptBy(c[n].route))
      BY <3>1, <3>2, Links DEF FrameOK
    <3> QED
      BY <3>2, <3>3 DEF Hit
  <2>4. OnTime(c, i) => d[i].busy = 0 /\ d[i].left > 0
    <3> SUFFICES ASSUME OnTime(c, i)
                 PROVE  d[i].busy = 0 /\ d[i].left > 0
      OBVIOUS
    <3>1. c[i].busy = 0
      BY <2>1 DEF FrameOK
    <3>2. c[i].left >= 2 /\ c[i].left \in Nat
      BY <1>6, <2>1, Slack DEF Frame
    <3> QED
      BY <1>2, <2>1, <3>1, <3>2
  <2> QED
    BY <1>5, <2>1, <2>2, <2>3, <2>4 DEF FrameOK
<1>8. \A i \in 1..n : FrameOK(d[i], OnTime(d, i))
  BY <1>7 DEF FrameOK
<1>9. ASSUME NEW i \in DOMAIN d
      PROVE  IF i = Len(d) THEN TopOK(d[i], OnTime(d, i)) ELSE WaitsOK(d[i], d[i + 1], OnTime(d, i))
  <2>1. CASE i = n
    <3>1. ~OnTime(d, i) /\ FrameOK(d[i], OnTime(d, i)) /\ i = Len(d)
      BY <1>3, <1>5, <1>6, <1>8, <2>1
    <3> QED
      BY <3>1 DEF TopOK
  <2>2. CASE i # n
    <3> DEFINE f == c[i]
               g == c[i + 1]
    <3>1. i \in DOMAIN c /\ i + 1 \in DOMAIN c /\ i # Len(c) /\ i # Len(d) /\ i \in 1..n /\ i + 1 \in 1..n
      BY <1>1, <1>3, <2>2
    <3>2. WaitsOK(f, g, OnTime(c, i)) /\ f \in Frame /\ g \in Frame /\ f.left > 0 /\ g.left > 0
      BY <3>1, Links
    <3>3. d[i] = Aged(f) /\ d[i + 1] = Aged(g)
      BY <1>4, <3>1
    <3>4. OnTime(c, i) => f.left >= 2
      BY <1>6, <3>1, Slack
    <3> HIDE DEF f, g
    <3>5. /\ Aged(f).route = f.route /\ Aged(f).pc = f.pc /\ Aged(f).out = f.out
          /\ Aged(f).busy = IF f.busy > 0 THEN f.busy - 1 ELSE 0
          /\ Aged(f).left = IF f.left = NoLimit THEN f.left ELSE f.left - 1
      BY <3>2, Aging
    <3>6. Aged(g).route = g.route /\ Aged(g).left = IF g.left = NoLimit THEN g.left ELSE g.left - 1
      BY <3>2, Aging
    <3>7. /\ f.busy = 0 /\ f.out = 0 /\ Calls(f) /\ Step(f).to = g.route
          /\ OnTime(c, i) =>
               /\ g.left < NoLimit
               /\ f.left >= g.left + IF Does(f, "relay") THEN 0 ELSE Reserve(f.route, f.pc + 1)
      BY <3>2 DEF WaitsOK
    <3>8. Aged(f).busy = 0 /\ Aged(f).out = 0
      BY <3>5, <3>7
    <3>9. Calls(Aged(f)) /\ Step(Aged(f)).to = Aged(g).route
      BY <3>5, <3>6, <3>7 DEF Calls, Does, Steps, Step
    <3>10. ASSUME OnTime(c, i)
           PROVE  /\ Aged(g).left < NoLimit
                  /\ Aged(f).left >= Aged(g).left +
                       IF Does(Aged(f), "relay") THEN 0 ELSE Reserve(Aged(f).route, Aged(f).pc + 1)
      <4>1. Does(Aged(f), "relay") <=> Does(f, "relay")
        BY <3>5 DEF Does, Steps, Step
      <4>2. f.left \in Nat /\ g.left \in Nat /\ NoLimit \in Nat
        BY <3>2 DEF Frame, NoLimit
      <4>3. Reserve(f.route, f.pc + 1) \in Nat
        <5>1. Due(f.route) /\ f.pc \in Nat
          BY <3>1, <3>2, <3>10, OnTimes DEF f, Frame
        <5> QED
          BY <5>1, Reserves DEF Due
      <4>4. Aged(g).left = g.left - 1 /\ Aged(f).left >= f.left - 1
        BY <3>5, <3>6, <3>7, <3>10, <4>2
      <4>5. Aged(f).left \in Nat
        BY <3>2, Aging DEF Frame
      <4>6. CASE Does(f, "relay")
        BY <3>2, <3>7, <3>10, <4>1, <4>2, <4>4, <4>5, <4>6
      <4>7. CASE ~Does(f, "relay")
        BY <3>2, <3>5, <3>7, <3>10, <4>1, <4>2, <4>3, <4>4, <4>5, <4>7
      <4> QED
        BY <4>6, <4>7
    <3>11. WaitsOK(Aged(f), Aged(g), OnTime(c, i))
      <4>1. FrameOK(Aged(f), OnTime(c, i))
        BY <1>5, <1>8, <3>1, <3>3
      <4> QED
        BY <3>8, <3>9, <3>10, <4>1 DEF WaitsOK
    <3> QED
      BY <1>5, <3>1, <3>3, <3>11
  <2> QED
    BY <2>1, <2>2
<1>10. ASSUME NEW i \in DOMAIN d, NEW j \in DOMAIN d, i <= j, d[i].route \in Awaited
       PROVE  d[j].route \in Awaited /\ KeptBy(d[j].route) \subseteq KeptBy(d[i].route)
  <2>1. i \in DOMAIN c /\ j \in DOMAIN c /\ d[i].route = c[i].route /\ d[j].route = c[j].route
    BY <1>1, <1>2, <1>3, <1>4
  <2> QED
    BY <1>10, <2>1, Descent
<1>11. ChainOK(d)
  BY <1>9, <1>10 DEF ChainOK
<1>12. c # <<>> => d # <<>> /\ d[1].route = c[1].route
  BY <1>1, <1>2, <1>3, <1>4
<1> QED
  BY <1>3, <1>11, <1>12 DEF d

\* The services and stores that are sick only become more, and a request that is to blame
\* stays so: what could be said of a chain still can.
LEMMA Sicker ==
  ASSUME sick \subseteq sick', odd => odd', NEW c \in Seq(Frame), ChainOK(c)
  PROVE  ChainOK(c)'
<1>1. \A S : Hit(S) => Hit(S)'
  BY DEF Hit
<1>5. \A r : Blamed(r) => Blamed(r)'
  BY <1>1 DEF Blamed
<1>2. \A i \in DOMAIN c : OnTime(c, i)' => OnTime(c, i)
  BY <1>1 DEF OnTime
<1>3. ASSUME NEW i \in DOMAIN c
      PROVE  IF i = Len(c) THEN TopOK(c[i], OnTime(c, i))' ELSE WaitsOK(c[i], c[i + 1], OnTime(c, i))'
  <2>1. FrameOK(c[i], OnTime(c, i))'
    <3>1. FrameOK(c[i], OnTime(c, i))
      BY Links
    <3> QED
      BY <1>1, <1>2, <1>5, <3>1 DEF FrameOK
  <2>2. CASE i = Len(c)
    <3>1. TopOK(c[i], OnTime(c, i))
      BY <2>2, Links
    <3> QED
      BY <1>2, <2>1, <2>2, <3>1 DEF TopOK
  <2>3. CASE i # Len(c)
    <3>1. WaitsOK(c[i], c[i + 1], OnTime(c, i))
      BY <2>3, Links
    <3> QED
      BY <1>2, <2>1, <2>3, <3>1 DEF WaitsOK
  <2> QED
    BY <2>2, <2>3
<1>4. \A i, j \in DOMAIN c :
        i <= j /\ c[i].route \in Awaited =>
          c[j].route \in Awaited /\ KeptBy(c[j].route) \subseteq KeptBy(c[i].route)
  BY Descent
<1> QED
  BY <1>3, <1>4 DEF ChainOK

--------------------------------------------------------------------------------

(* What waits in the background *)

LEMMA FewInBackground == InBackground \subseteq Routes \ Punctual /\ IsFiniteSet(InBackground)
<1>1. InBackground \subseteq Routes \ Punctual
  BY DEF InBackground, Routes, Punctual, Patient
<1>2. IsFiniteSet(InBackground)
  <2>1. ASSUME NEW a, NEW b
        PROVE  IsFiniteSet({a, b})
    <3>1. IsFiniteSet({a} \union {b})
      BY FS_Singleton, FS_AddElement, Zenon
    <3>2. {a} \union {b} = {a, b}
      OBVIOUS
    <3> QED
      BY <3>1, <3>2, Zenon
  <2>2. ASSUME NEW a, NEW b, NEW c, NEW d
        PROVE  IsFiniteSet({a, b, c, d})
    <3>1. IsFiniteSet({a, b} \union {c, d})
      BY <2>1, FS_Union, Zenon
    <3>2. {a, b} \union {c, d} = {a, b, c, d}
      OBVIOUS
    <3> QED
      BY <3>1, <3>2, Zenon
  <2> DEFINE A == {"cache.set", "tax.calculate", "pricing.calculate", "inventory.status"}
             B == {"user.get", "media.product", "analytics.signals", "recommendation.get"}
             C == {"loyalty.tier", "session.validate", "notification.notify", "shipping.status"}
             D == {"email.send", "warehouse.check"}
  <2>3. IsFiniteSet(A) /\ IsFiniteSet(B) /\ IsFiniteSet(C) /\ IsFiniteSet(D)
    BY <2>1, <2>2
  <2>4. InBackground = (A \union B) \union (C \union D)
    BY DEF InBackground
  <2> HIDE DEF A, B, C, D
  <2>5. IsFiniteSet(A \union B) /\ IsFiniteSet(C \union D)
    BY <2>3, FS_Union
  <2> QED
    BY <2>4, <2>5, FS_Union
<1> QED
  BY <1>1, <1>2

\* A finite set as a sequence.
LEMMA Listed ==
  ASSUME NEW S, IsFiniteSet(S)
  PROVE  SetToSeq(S) \in Seq(S)
<1>1. Cardinality(S) \in Nat /\ ExistsBijection(1..Cardinality(S), S)
  BY FS_CardinalityType
<1>2. \E f \in [1..Cardinality(S) -> S] : IsInjective(f)
  BY <1>1 DEF ExistsBijection, Bijection, Injection
<1>3. SetToSeq(S) \in [1..Cardinality(S) -> S]
  BY <1>2 DEF SetToSeq
<1> QED
  BY <1>1, <1>3

LEMMA AwaitingOK ==
  ASSUME pending \in Seq(Routes \ Punctual), NEW R \in SUBSET InBackground
  PROVE  Awaiting(R) \in Seq(Routes \ Punctual)
<1>1. IsFiniteSet(R \ Range(pending)) /\ R \ Range(pending) \subseteq Routes \ Punctual
  BY FewInBackground, FS_Subset
<1>2. SetToSeq(R \ Range(pending)) \in Seq(R \ Range(pending))
  BY <1>1, Listed
<1>3. SetToSeq(R \ Range(pending)) \in Seq(Routes \ Punctual)
  BY <1>1, <1>2
<1> QED
  BY <1>3 DEF Awaiting

LEMMA AftermathOK ==
  ASSUME NEW f \in Frame
  PROVE  Aftermath(f) \subseteq InBackground
<1>1. f.route \in Routes
  BY DEF Frame
<1>2. \A i \in DOMAIN Handler[f.route].steps :
        Handler[f.route].steps[i].do = "spawn" => Handler[f.route].steps[i].to \in InBackground
  <2> SUFFICES ASSUME NEW i \in DOMAIN Handler[f.route].steps, Handler[f.route].steps[i].do = "spawn"
               PROVE  Handler[f.route].steps[i].to \in InBackground
    OBVIOUS
  <2> DEFINE step == Handler[f.route].steps[i]
  <2>1. Plain(step) \/ Relays(step) \/ Needs(step)
    BY <1>1, Rows
  <2> HIDE DEF step
  <2>2. step.do = "spawn" => step.to \in InBackground
    BY <2>1 DEF Plain, Relays, Needs
  <2> QED
    BY <2>2 DEF step
<1> QED
  BY <1>2 DEF Aftermath, Steps

LEMMA LeftAloneOK ==
  ASSUME pending \in Seq(Routes \ Punctual), NEW frames \in Seq(Frame), LeftAlone(frames)
  PROVE  pending' \in Seq(Routes \ Punctual)
<1>1. Len(frames) \in Nat /\ DOMAIN frames = 1..Len(frames)
  OBVIOUS
<1>2. ASSUME NEW n \in {Len(frames), Len(frames) - 1}
      PROVE  Awaiting(UNION {Aftermath(frames[i]) : i \in 1..n}) \in Seq(Routes \ Punctual)
  <2>1. \A i \in 1..n : frames[i] \in Frame
    BY <1>1
  <2>2. UNION {Aftermath(frames[i]) : i \in 1..n} \subseteq InBackground
    BY <2>1, AftermathOK
  <2> QED
    BY <2>2, AwaitingOK
<1>3. \E n \in {Len(frames), Len(frames) - 1} :
        pending' = Awaiting(UNION {Aftermath(frames[i]) : i \in 1..n})
  BY DEF LeftAlone
<1> QED
  BY <1>2, <1>3

--------------------------------------------------------------------------------

(* Every step keeps the invariant *)

LEMMA Parts ==
  ASSUME MeshIndInv
  PROVE  /\ sick \subseteq DOMAIN Service \union Stores /\ how \in Faults \union {Healthy}
         /\ chain \in [Slots -> Seq(Frame)] /\ \A s \in Slots : ChainOK(chain[s])
         /\ pending \in Seq(Routes \ Punctual)
         /\ asked \in ((Requests \X Slots) \union {<<>>}) /\ told \in Statuses \union {0}
         /\ odd \in BOOLEAN
         /\ ToldInv /\ OnlyEssentialServicesFailAPage /\ PatienceSuffices
<1>1. pending \in Seq(Routes) /\ \A i \in DOMAIN pending : pending[i] \notin Punctual
  BY DEF MeshIndInv, MeshTypeOK
<1>2. pending \in Seq(Routes \ Punctual)
  BY <1>1
<1> QED
  BY <1>2 DEF MeshIndInv, MeshTypeOK

LEMMA Together ==
  ASSUME sick \subseteq sick', sick' \subseteq DOMAIN Service \union Stores,
         how' \in Faults \union {Healthy},
         chain' \in [Slots -> Seq(Frame)], \A s \in Slots : ChainOK(chain'[s]),
         pending' \in Seq(Routes \ Punctual),
         asked' \in ((Requests \X Slots) \union {<<>>}), told' \in Statuses \union {0},
         odd' \in BOOLEAN, odd => odd',
         ToldInv', OnlyEssentialServicesFailAPage', PatienceSuffices'
  PROVE  MeshIndInv'
<1>1. pending' \in Seq(Routes) /\ \A i \in DOMAIN pending' : pending'[i] \notin Punctual
  OBVIOUS
<1>2. MeshTypeOK'
  BY <1>1 DEF MeshTypeOK
<1>3. ASSUME NEW s \in Slots
      PROVE  ChainOK(chain[s])'
  <2>1. chain'[s] \in Seq(Frame) /\ ChainOK(chain'[s])
    OBVIOUS
  <2> QED
    BY <2>1, Sicker
<1> QED
  BY <1>1, <1>2, <1>3 DEF MeshIndInv

\* The client of a request is not told anything yet.
LEMMA ChainStep ==
  ASSUME MeshIndInv, NEW s \in Slots, chain[s] # <<>>,
         chain' \in [Slots -> Seq(Frame)], \A t \in Slots \ {s} : chain'[t] = chain[t],
         Continues(chain'[s], chain[s]),
         pending' \in Seq(Routes \ Punctual), sick' = sick, how' = how,
         asked' = asked, odd' = odd, told' = told
  PROVE  MeshIndInv'
<1>1. chain \in [Slots -> Seq(Frame)] /\ \A t \in Slots : ChainOK(chain[t])
  BY Parts
<1>2. chain'[s] # <<>> /\ chain'[s][1].route = chain[s][1].route /\ ChainOK(chain'[s])
  BY DEF Continues
<1>3. \A t \in Slots : ChainOK(chain'[t])
  BY <1>1, <1>2
<1>4. ToldInv'
  <2>1. asked # <<>> => asked[2] \in Slots
    BY Parts
  <2>2. ToldInv
    BY Parts
  <2> QED
    BY <1>2, <2>1, <2>2 DEF ToldInv
<1>5. OnlyEssentialServicesFailAPage' /\ PatienceSuffices'
  BY Parts DEF OnlyEssentialServicesFailAPage, PatienceSuffices
<1> QED
  BY <1>3, <1>4, <1>5, Parts, Together

\* The client is told how its request ended.
LEMMA ChainEnds ==
  ASSUME MeshIndInv, NEW s \in Slots, chain[s] # <<>>, NEW status \in Statuses,
         status \in {500, 502} => Blamed(chain[s][1].route),
         status = 504 /\ chain[s][1].route \in Patient => Hit(Behind(chain[s][1].route)),
         Cut(s, 1, status), pending' \in Seq(Routes \ Punctual),
         sick' = sick, how' = how, asked' = asked, odd' = odd
  PROVE  MeshIndInv'
<1>1. chain \in [Slots -> Seq(Frame)] /\ \A t \in Slots : ChainOK(chain[t])
  BY Parts
<1>2. /\ chain' = [chain EXCEPT ![s] = <<>>]
      /\ told' = IF asked # <<>> /\ told = 0 /\ asked[2] = s THEN status ELSE told
  BY DEF Cut
<1>3. chain' \in [Slots -> Seq(Frame)] /\ \A t \in Slots : chain'[t] = IF t = s THEN <<>> ELSE chain[t]
  BY <1>1, <1>2
<1>4. ChainOK(<<>>)
  BY DEF ChainOK
<1>5. \A t \in Slots : ChainOK(chain'[t])
  BY <1>1, <1>3, <1>4
<1>6. /\ ToldInv /\ OnlyEssentialServicesFailAPage /\ PatienceSuffices
      /\ asked # <<>> => asked[2] \in Slots
      /\ told \in Statuses \union {0} /\ 0 \notin Statuses
  BY Parts DEF Statuses
<1>7. CASE asked # <<>> /\ told = 0 /\ asked[2] = s
  <2>1. chain[s][1].route = asked[1]
    BY <1>6, <1>7 DEF ToldInv
  <2>2. ToldInv'
    BY <1>2, <1>6, <1>7 DEF ToldInv
  <2>3. OnlyEssentialServicesFailAPage'
    BY <1>2, <1>7, <2>1 DEF OnlyEssentialServicesFailAPage, Blamed, Hit
  <2>4. PatienceSuffices'
    BY <1>2, <1>7, <2>1 DEF PatienceSuffices, Hit
  <2>5. told' \in Statuses
    BY <1>2, <1>7
  <2> QED
    BY <1>3, <1>5, <2>2, <2>3, <2>4, <2>5, Parts, Together
<1>8. CASE ~(asked # <<>> /\ told = 0 /\ asked[2] = s)
  <2>1. told' = told
    BY <1>2, <1>8
  <2>2. ToldInv'
    BY <1>3, <1>6, <1>8, <2>1 DEF ToldInv
  <2>3. OnlyEssentialServicesFailAPage' /\ PatienceSuffices'
    BY <1>6, <2>1 DEF OnlyEssentialServicesFailAPage, PatienceSuffices
  <2> QED
    BY <1>3, <1>5, <2>1, <2>2, <2>3, Parts, Together
<1> QED
  BY <1>7, <1>8

\* The i-th handler does not answer: its service is down (502), or it is late (504).
Lost(c, i, status) ==
  /\ status \in {502, 504}
  /\ status = 502 => Handler[c[i].route].at \in sick
  /\ status = 504 => c[i].left = 0

\* A handler gets no answer from the next one.
LEMMA CutChain ==
  ASSUME NEW c \in Seq(Frame), ChainOK(c), NEW i \in DOMAIN c, i # 1, NEW status, Lost(c, i, status),
         NEW d, d = Append(SubSeq(c, 1, i - 2), Unanswered(c[i - 1], status))
  PROVE  Continues(d, c)
<1>1. PICK k \in DOMAIN c : k = i - 1 /\ k # Len(c) /\ k + 1 = i /\ k - 1 = i - 2
  OBVIOUS
<1>0. k \in DOMAIN c
  BY <1>1
<1> DEFINE f == c[k]
           g == c[i]
           onTime == OnTime(c, k)
<1>2. WaitsOK(f, g, onTime) /\ f \in Frame /\ g \in Frame /\ FrameOK(g, OnTime(c, i))
  BY <1>1, Links
<1>3. onTime \in BOOLEAN /\ (onTime => Due(f.route)) /\ (onTime /\ Due(g.route) => OnTime(c, i))
  BY <1>1, OnTimes
<1>4. status = 504 => ~OnTime(c, i) /\ (g.route \in Awaited => Hit(KeptBy(g.route)))
  BY <1>2 DEF FrameOK, Lost
<1>5. status \in {502, 504} /\ (status = 502 => Handler[g.route].at \in sick)
  BY DEF Lost
<1>6. d = Append(SubSeq(c, 1, k - 1), Unanswered(f, status))
  BY <1>1
<1> HIDE DEF f, g, onTime
<1>7. /\ FrameOK(f, onTime) /\ f.busy = 0 /\ f.out = 0 /\ Calls(f) /\ Step(f).to = g.route
      /\ onTime => f.left >= g.left + IF Does(f, "relay") THEN 0 ELSE Reserve(f.route, f.pc + 1)
  BY <1>2 DEF WaitsOK
<1>8. onTime /\ ~Does(f, "relay") => f.left >= Reserve(f.route, f.pc + 1)
  <2> SUFFICES ASSUME onTime, ~Does(f, "relay")
               PROVE  f.left >= Reserve(f.route, f.pc + 1)
    OBVIOUS
  <2>1. f.pc \in Nat /\ f.left \in Nat
    BY <1>2 DEF Frame
  <2>2. g.left \in Nat
    BY <1>2 DEF Frame
  <2>3. f.route \in Punctual
    BY <1>3 DEF Due
  <2>4. Reserve(f.route, f.pc + 1) \in Nat
    BY <2>1, <2>3, ReserveNext
  <2> QED
    BY <1>7, <2>1, <2>2, <2>4
<1>9. status = 504 => ~(onTime /\ Does(f, "relay"))
  <2> SUFFICES ASSUME status = 504, onTime, Does(f, "relay")
               PROVE  FALSE
    OBVIOUS
  <2>1. /\ f.pc \in DOMAIN Handler[f.route].steps /\ f.route \in Routes
        /\ Step(f) = Handler[f.route].steps[f.pc] /\ Step(f).do = "relay"
    BY <1>2, <1>7, CallOf
  <2>2. g.route \in Punctual
    <3>1. f.route \in Punctual
      BY <1>3 DEF Due
    <3>2. Step(f).to \in Punctual
      BY <2>1, <3>1, PromptRows DEF PromptRow
    <3> QED
      BY <1>7, <3>2
  <2>3. Behind(g.route) \subseteq Behind(f.route)
    BY <1>7, <2>1, Blame
  <2> QED
    BY <1>3, <1>4, <2>2, <2>3 DEF Due, Hit
<1> DEFINE h == Unanswered(f, status)
<1>10. h \in Frame /\ TopOK(h, onTime) /\ h.route = f.route /\ h.left = f.left
  BY <1>2, <1>3, <1>4, <1>5, <1>7, <1>8, <1>9, UnansweredOK
<1> HIDE DEF h
<1>11. Fits(h, c, k)
  BY <1>10 DEF f, onTime, Fits
<1>12. d = Append(SubSeq(c, 1, k - 1), h)
  BY <1>6 DEF h
<1> QED
  BY <1>0, <1>11, <1>12, Replaced

\* A handler gets no answer from the next one, or there is none to get it.
LEMMA CutOK ==
  ASSUME MeshIndInv, NEW s \in Slots, NEW i \in DOMAIN chain[s], NEW status,
         Lost(chain[s], i, status),
         Cut(s, i, status), pending' \in Seq(Routes \ Punctual),
         sick' = sick, how' = how, asked' = asked, odd' = odd
  PROVE  MeshIndInv'
<1> DEFINE c == chain[s]
           g == c[i]
<1>1. /\ c \in Seq(Frame) /\ ChainOK(c) /\ how \in Faults \union {Healthy}
      /\ chain \in [Slots -> Seq(Frame)]
  BY Parts
<1>2. c # <<>>
  BY <1>1
<1>4. CASE i = 1
  <2>1. g \in Frame /\ FrameOK(g, OnTime(c, 1))
    BY <1>1, <1>4, Links
  <2>6. g.route \in Routes
    BY <2>1 DEF Frame
  <2>2. status = 502 => Blamed(g.route)
    BY <2>6, Blame DEF Hit, Blamed, Lost
  <2>3. OnTime(c, 1) <=> Due(g.route)
    <3>1. \A j \in 1..1 : j = 1
      OBVIOUS
    <3> QED
      BY <1>4, <3>1 DEF OnTime, Due
  <2>4. status = 504 /\ g.route \in Patient => Hit(Behind(g.route))
    BY <1>4, <2>1, <2>3 DEF Due, Punctual, FrameOK, Lost
  <2>5. status \in Statuses
    BY DEF Statuses, Lost
  <2>7. status \in {500, 502} => Blamed(chain[s][1].route)
    BY <1>4, <2>2 DEF Lost
  <2>8. status = 504 /\ chain[s][1].route \in Patient => Hit(Behind(chain[s][1].route))
    BY <1>4, <2>4
  <2>9. Cut(s, 1, status)
    BY <1>4
  <2> QED
    BY <1>2, <2>5, <2>7, <2>8, <2>9, ChainEnds
<1>5. CASE i # 1
  <2> DEFINE d == Append(SubSeq(c, 1, i - 2), Unanswered(c[i - 1], status))
  <2>1. chain' = [chain EXCEPT ![s] = d] /\ told' = told
    BY <1>5 DEF Cut
  <2> HIDE DEF d
  <2>2. Continues(d, c)
    <3>1. d = Append(SubSeq(c, 1, i - 2), Unanswered(c[i - 1], status))
      BY DEF d
    <3>2. i \in DOMAIN c /\ Lost(c, i, status)
      OBVIOUS
    <3> HIDE DEF c
    <3> QED
      BY <1>1, <1>5, <3>1, <3>2, CutChain
  <2>3. /\ chain' \in [Slots -> Seq(Frame)] /\ chain'[s] = d
        /\ \A t \in Slots \ {s} : chain'[t] = chain[t]
    BY <1>1, <2>1, <2>2 DEF Continues
  <2> QED
    BY <1>2, <2>1, <2>2, <2>3, ChainStep
<1> QED
  BY <1>4, <1>5

\* The steps that lead from one state to another with the same services sick.

\* How a chain changes in one place.
LEMMA ChainChanges ==
  ASSUME MeshIndInv, NEW s \in Slots, NEW d \in Seq(Frame), chain' = [chain EXCEPT ![s] = d]
  PROVE  /\ chain' \in [Slots -> Seq(Frame)] /\ chain'[s] = d
         /\ \A t \in Slots \ {s} : chain'[t] = chain[t]
<1>1. chain \in [Slots -> Seq(Frame)]
  BY Parts
<1> QED
  BY <1>1

LEMMA Unchanging == MeshIndInv /\ UNCHANGED meshVars => MeshIndInv'
<1> SUFFICES ASSUME MeshIndInv, UNCHANGED meshVars
             PROVE  MeshIndInv'
  OBVIOUS
<1>1. /\ sick' = sick /\ how' = how /\ chain' = chain /\ pending' = pending
      /\ asked' = asked /\ odd' = odd /\ told' = told
  BY DEF meshVars
<1>2. ToldInv' /\ OnlyEssentialServicesFailAPage' /\ PatienceSuffices'
  BY <1>1, Parts DEF ToldInv, OnlyEssentialServicesFailAPage, PatienceSuffices
<1> QED
  BY <1>1, <1>2, Parts, Together

\* A slot takes up a request.
LEMMA Begins ==
  ASSUME MeshIndInv, NEW s \in Slots, chain[s] = <<>>, NEW r \in Routes, NEW p \in Nat \ {0},
         r \in Punctual => p >= Reserve(r, 0) /\ p >= Reserve(r, 1),
         chain' = [chain EXCEPT ![s] = <<Begun(r, p)>>]
  PROVE  /\ chain' \in [Slots -> Seq(Frame)] /\ \A t \in Slots : ChainOK(chain'[t])
         /\ chain'[s] # <<>> /\ chain'[s][1].route = r
         /\ \A t \in Slots \ {s} : chain'[t] = chain[t]
<1> DEFINE d == <<Begun(r, p)>>
<1>1. how \in Faults \union {Healthy} /\ \A t \in Slots : ChainOK(chain[t])
  BY Parts
<1>2. d \in Seq(Frame) /\ d # <<>> /\ d[1].route = r /\ ChainOK(d)
  BY <1>1, Single
<1> HIDE DEF d
<1>3. /\ chain' \in [Slots -> Seq(Frame)] /\ chain'[s] = d
      /\ \A t \in Slots \ {s} : chain'[t] = chain[t]
  BY <1>2, ChainChanges DEF d
<1> QED
  BY <1>1, <1>2, <1>3

LEMMA RequestKeeps ==
  ASSUME MeshIndInv, NEW s \in Slots, NEW r \in Requests, Request(s, r)
  PROVE  MeshIndInv'
<1> DEFINE p == IF Handler[r].at \in {"billing", "pricing", "fraud"} THEN Seconds(5) ELSE NoLimit
<1>1. /\ asked = <<>> /\ chain[s] = <<>> /\ asked' = <<r, s>>
      /\ chain' = [chain EXCEPT ![s] = <<Begun(r, p)>>]
      /\ sick' = sick /\ how' = how /\ pending' = pending /\ told' = told /\ odd' \in BOOLEAN
  BY DEF Request, Working
<1>2. r \in Routes
  BY MeshAssumption DEF Handler
<1>3. p \in Nat \ {0}
  BY DEF Seconds, NoLimit
<1>4. r \in Punctual => p >= Reserve(r, 0) /\ p >= Reserve(r, 1)
  <2> SUFFICES ASSUME r \in Punctual
               PROVE  p >= Reserve(r, 0) /\ p >= Reserve(r, 1)
    OBVIOUS
  <2>1. PromptRow(r)
    BY PromptRows
  <2>2. p = NoLimit
    BY <2>1 DEF PromptRow
  <2>3. NoLimit >= Reserve(r, 0) /\ Reserve(r, 0) >= Reserve(r, 1)
    BY <2>1 DEF PromptRow
  <2>4. NoLimit \in Nat /\ Reserve(r, 0) \in Nat /\ Reserve(r, 1) \in Nat
    BY Reserves DEF NoLimit
  <2> HIDE DEF p
  <2> QED
    BY <2>2, <2>3, <2>4
<1> HIDE DEF p
<1>5. /\ chain' \in [Slots -> Seq(Frame)] /\ \A t \in Slots : ChainOK(chain'[t])
      /\ chain'[s] # <<>> /\ chain'[s][1].route = r
  BY <1>1, <1>2, <1>3, <1>4, Begins
<1>6. told = 0 /\ ~odd /\ 0 \notin {500, 502, 504}
  BY <1>1, Parts DEF ToldInv
<1>7. asked' # <<>> /\ asked'[1] = r /\ asked'[2] = s
  BY <1>1
<1>8. ToldInv'
  BY <1>5, <1>7 DEF ToldInv
<1>9. OnlyEssentialServicesFailAPage' /\ PatienceSuffices'
  BY <1>1, <1>6 DEF OnlyEssentialServicesFailAPage, PatienceSuffices
<1>10. asked' \in Requests \X Slots
  BY <1>1
<1> QED
  BY <1>1, <1>5, <1>6, <1>8, <1>9, <1>10, Parts, Together

LEMMA ServeKeeps ==
  ASSUME MeshIndInv, NEW s \in Slots, Serve(s)
  PROVE  MeshIndInv'
<1>1. /\ pending # <<>> /\ chain[s] = <<>> /\ pending' = Tail(pending)
      /\ sick' = sick /\ how' = how /\ asked' = asked /\ odd' = odd /\ told' = told
      /\ \/ chain' = chain
         \/ chain' = [chain EXCEPT ![s] = <<Begun(Head(pending), Seconds(5))>>]
  BY DEF Serve, Working
<1>2. pending \in Seq(Routes \ Punctual)
  BY Parts
<1>3. Head(pending) \in Routes \ Punctual /\ pending' \in Seq(Routes \ Punctual)
  BY <1>1, <1>2
<1>4. OnlyEssentialServicesFailAPage' /\ PatienceSuffices'
  BY <1>1, Parts DEF OnlyEssentialServicesFailAPage, PatienceSuffices
<1>5. CASE chain' = chain
  <2>1. ToldInv'
    BY <1>1, <1>5, Parts DEF ToldInv
  <2> QED
    BY <1>1, <1>3, <1>4, <1>5, <2>1, Parts, Together
<1>6. CASE chain' = [chain EXCEPT ![s] = <<Begun(Head(pending), Seconds(5))>>]
  <2>1. Seconds(5) \in Nat \ {0}
    BY DEF Seconds
  <2>2. /\ chain' \in [Slots -> Seq(Frame)] /\ \A t \in Slots : ChainOK(chain'[t])
        /\ \A t \in Slots \ {s} : chain'[t] = chain[t]
    BY <1>1, <1>3, <1>6, <2>1, Begins
  <2>3. asked # <<>> => asked[2] \in Slots
    BY Parts
  <2>4. ToldInv
    BY Parts
  <2>5. ToldInv'
    BY <1>1, <2>2, <2>3, <2>4 DEF ToldInv
  <2> QED
    BY <1>1, <1>3, <1>4, <2>2, <2>5, Parts, Together
<1> QED
  BY <1>1, <1>5, <1>6

\* A handler that waits for nobody does a step.
LEMMA TopSteps ==
  ASSUME MeshIndInv, NEW s \in Slots, Working(s), NEW g, Fits(g, chain[s], Len(chain[s])),
         Replace(s, g), pending' \in Seq(Routes \ Punctual),
         sick' = sick, how' = how, asked' = asked, odd' = odd, told' = told
  PROVE  MeshIndInv'
<1> DEFINE d == Append(Front(chain[s]), g)
<1>1. chain[s] # <<>> /\ chain[s] \in Seq(Frame) /\ ChainOK(chain[s])
  BY Parts DEF Working
<1>2. Continues(d, chain[s])
  BY <1>1, TopReplaced
<1>3. chain' = [chain EXCEPT ![s] = d]
  BY DEF Replace
<1> HIDE DEF d
<1>4. d \in Seq(Frame)
  BY <1>2 DEF Continues
<1>5. /\ chain' \in [Slots -> Seq(Frame)] /\ chain'[s] = d
      /\ \A t \in Slots \ {s} : chain'[t] = chain[t]
  BY <1>3, <1>4, ChainChanges
<1> QED
  BY <1>1, <1>2, <1>5, ChainStep

\* What is known of that handler.
LEMMA Tops ==
  ASSUME MeshIndInv, NEW s \in Slots, Working(s)
  PROVE  /\ Top(s) \in Frame /\ Top(s) = chain[s][Len(chain[s])]
         /\ how \in Faults \union {Healthy} /\ pending \in Seq(Routes \ Punctual)
         /\ OnTime(chain[s], Len(chain[s])) \in BOOLEAN
         /\ TopOK(Top(s), OnTime(chain[s], Len(chain[s])))
         /\ OnTime(chain[s], Len(chain[s])) => Due(Top(s).route)
         /\ chain[s] # <<>> /\ chain[s] \in Seq(Frame) /\ ChainOK(chain[s])
<1>1. chain[s] # <<>> /\ chain[s] \in Seq(Frame) /\ ChainOK(chain[s])
  BY Parts DEF Working
<1>2. /\ Len(chain[s]) \in DOMAIN chain[s] /\ chain[s][Len(chain[s])] \in Frame
      /\ TopOK(chain[s][Len(chain[s])], OnTime(chain[s], Len(chain[s])))
  BY <1>1, Links
<1>3. /\ OnTime(chain[s], Len(chain[s])) \in BOOLEAN
      /\ OnTime(chain[s], Len(chain[s])) => Due(chain[s][Len(chain[s])].route)
  BY <1>1, <1>2, OnTimes
<1> QED
  BY <1>1, <1>2, <1>3, Parts DEF Top

LEMMA WorkKeeps ==
  ASSUME MeshIndInv, NEW s \in Slots, Work(s)
  PROVE  MeshIndInv'
<1>1. /\ Working(s) /\ Top(s).out = 0
      /\ sick' = sick /\ how' = how /\ pending' = pending
      /\ asked' = asked /\ odd' = odd /\ told' = told
  BY DEF Work, Ready
<1>2. PICK g \in Alone(Top(s)) : Replace(s, g)
  BY DEF Work
<1>3. /\ g \in Frame /\ TopOK(g, OnTime(chain[s], Len(chain[s])))
      /\ g.route = Top(s).route /\ g.left = Top(s).left
  BY <1>1, <1>2, Tops, AloneOK
<1>4. Fits(g, chain[s], Len(chain[s]))
  BY <1>3 DEF Fits, Top
<1>5. pending' \in Seq(Routes \ Punctual)
  BY <1>1, Tops
<1> QED
  BY <1>1, <1>2, <1>4, <1>5, TopSteps

LEMMA SpawnKeeps ==
  ASSUME MeshIndInv, NEW s \in Slots, Spawn(s)
  PROVE  MeshIndInv'
<1> DEFINE f == Top(s)
<1>1. /\ Working(s) /\ f.out = 0 /\ Does(f, "spawn")
      /\ pending' = Awaiting({Step(f).to}) /\ Replace(s, OnTo(f))
      /\ sick' = sick /\ how' = how /\ asked' = asked /\ odd' = odd /\ told' = told
  BY DEF Spawn, Ready
<1>2. TopOK(OnTo(f), OnTime(chain[s], Len(chain[s]))) /\ Step(f).to \in InBackground
  BY <1>1, Tops, SpawnOK
<1>3. OnTo(f) \in Frame /\ OnTo(f).route = f.route /\ OnTo(f).left = f.left
  BY <1>1, Tops, Advanced
<1>4. Fits(OnTo(f), chain[s], Len(chain[s]))
  BY <1>2, <1>3 DEF Fits, Top
<1>5. pending' \in Seq(Routes \ Punctual)
  BY <1>1, <1>2, Tops, AwaitingOK
<1> HIDE DEF f
<1> QED
  BY <1>1, <1>4, <1>5, TopSteps

LEMMA CallKeeps ==
  ASSUME MeshIndInv, NEW s \in Slots, Call(s)
  PROVE  MeshIndInv'
<1> DEFINE f == Top(s)
           d == Append(chain[s], Begun(Step(f).to, Patience(f)))
<1>1. /\ Working(s) /\ Ready(f) /\ Calls(f) /\ chain' = [chain EXCEPT ![s] = d]
      /\ sick' = sick /\ how' = how /\ pending' = pending
      /\ asked' = asked /\ odd' = odd /\ told' = told
  BY DEF Call
<1>2. f = chain[s][Len(chain[s])]
  BY DEF Top
<1> HIDE DEF f
<1>3. Continues(d, chain[s])
  BY <1>1, <1>2, Tops, Called
<1> HIDE DEF d
<1>4. d \in Seq(Frame)
  BY <1>3 DEF Continues
<1>5. /\ chain' \in [Slots -> Seq(Frame)] /\ chain'[s] = d
      /\ \A t \in Slots \ {s} : chain'[t] = chain[t]
  BY <1>1, <1>4, ChainChanges
<1>6. pending' \in Seq(Routes \ Punctual) /\ chain[s] # <<>>
  BY <1>1, Tops
<1> QED
  BY <1>1, <1>3, <1>5, <1>6, ChainStep

LEMMA CallRefusedKeeps ==
  ASSUME MeshIndInv, NEW s \in Slots, CallRefused(s)
  PROVE  MeshIndInv'
<1> DEFINE f == Top(s)
           onTime == OnTime(chain[s], Len(chain[s]))
<1>1. /\ Working(s) /\ f.busy = 0 /\ f.out = 0 /\ Calls(f) /\ ~Up(Step(f).to)
      /\ Replace(s, Unanswered(f, 502))
      /\ sick' = sick /\ how' = how /\ pending' = pending
      /\ asked' = asked /\ odd' = odd /\ told' = told
  BY DEF CallRefused, Ready
<1>2. Handler[Step(f).to].at \in sick
  BY <1>1, Tops, Well DEF Up
<1>3. /\ f \in Frame /\ onTime \in BOOLEAN /\ TopOK(f, onTime) /\ (onTime => Due(f.route))
      /\ pending' \in Seq(Routes \ Punctual)
  BY <1>1, Tops
<1>7. f.route = chain[s][Len(chain[s])].route /\ f.left = chain[s][Len(chain[s])].left
  BY DEF Top
<1> HIDE DEF f, onTime
<1>4. FrameOK(f, onTime) /\ (onTime /\ ~Does(f, "relay") => f.left >= Reserve(f.route, f.pc + 1))
  BY <1>1, <1>3, PatienceOK DEF TopOK
<1>5. /\ Unanswered(f, 502) \in Frame /\ TopOK(Unanswered(f, 502), onTime)
      /\ Unanswered(f, 502).route = f.route /\ Unanswered(f, 502).left = f.left
  BY <1>1, <1>2, <1>3, <1>4, UnansweredOK
<1>6. Fits(Unanswered(f, 502), chain[s], Len(chain[s]))
  BY <1>5, <1>7 DEF Fits, onTime
<1> QED
  BY <1>1, <1>3, <1>6, TopSteps

LEMMA CallSpoiltKeeps ==
  ASSUME MeshIndInv, NEW s \in Slots, CallSpoilt(s)
  PROVE  MeshIndInv'
<1> DEFINE f == Top(s)
           onTime == OnTime(chain[s], Len(chain[s]))
<1>1. /\ Working(s) /\ f.busy = 0 /\ f.out = 0 /\ Calls(f) /\ odd
      /\ sick' = sick /\ how' = how /\ pending' = pending
      /\ asked' = asked /\ odd' = odd /\ told' = told
  BY DEF CallSpoilt, Ready
<1>2. PICK status \in {400, 502} : Replace(s, Unanswered(f, status))
  BY DEF CallSpoilt
<1>3. /\ f \in Frame /\ onTime \in BOOLEAN /\ TopOK(f, onTime) /\ (onTime => Due(f.route))
      /\ pending' \in Seq(Routes \ Punctual)
  BY <1>1, Tops
<1>7. f.route = chain[s][Len(chain[s])].route /\ f.left = chain[s][Len(chain[s])].left
  BY DEF Top
<1> HIDE DEF f, onTime
<1>4. FrameOK(f, onTime) /\ (onTime /\ ~Does(f, "relay") => f.left >= Reserve(f.route, f.pc + 1))
  BY <1>1, <1>3, PatienceOK DEF TopOK
<1>5. /\ Unanswered(f, status) \in Frame /\ TopOK(Unanswered(f, status), onTime)
      /\ Unanswered(f, status).route = f.route /\ Unanswered(f, status).left = f.left
  BY <1>1, <1>2, <1>3, <1>4, SpoiltOK
<1>6. Fits(Unanswered(f, status), chain[s], Len(chain[s]))
  BY <1>5, <1>7 DEF Fits, onTime
<1> QED
  BY <1>1, <1>2, <1>3, <1>6, TopSteps

\* The answer is handed to the caller below, or to the client.
LEMMA ReplyKeeps ==
  ASSUME MeshIndInv, NEW s \in Slots, Reply(s)
  PROVE  MeshIndInv'
<1> DEFINE c == chain[s]
           n == Len(c)
<1>1. /\ Working(s) /\ Top(s).out > 0
      /\ IF n = 1
         THEN Cut(s, 1, Top(s).out)
         ELSE /\ \E h \in Answered(c[n - 1], Top(s).out) :
                   chain' = [chain EXCEPT ![s] = Append(SubSeq(c, 1, n - 2), h)]
              /\ told' = told
      /\ sick' = sick /\ how' = how /\ pending' = pending /\ asked' = asked /\ odd' = odd
  BY DEF Reply
<1>2. /\ Top(s) \in Frame /\ Top(s) = c[n] /\ TopOK(Top(s), OnTime(c, n))
      /\ c # <<>> /\ c \in Seq(Frame) /\ ChainOK(c)
      /\ pending' \in Seq(Routes \ Punctual)
  BY <1>1, Tops
<1>3. FrameOK(Top(s), OnTime(c, n)) /\ Top(s).out \in Statuses
  BY <1>1, <1>2 DEF TopOK, Frame, Statuses
<1>4. CASE n = 1
  <2>1. Top(s) = chain[s][1]
    BY <1>2, <1>4
  <2>2. OnTime(c, 1) <=> Due(chain[s][1].route)
    <3>1. \A j \in 1..1 : j = 1
      OBVIOUS
    <3> QED
      BY <3>1 DEF OnTime, Due
  <2>3. Top(s).out \in {500, 502} => Blamed(chain[s][1].route)
    BY <1>3, <2>1 DEF FrameOK
  <2>4. Top(s).out = 504 /\ chain[s][1].route \in Patient => Hit(Behind(chain[s][1].route))
    BY <1>3, <1>4, <2>1, <2>2 DEF FrameOK, Due, Punctual
  <2>5. Cut(s, 1, Top(s).out)
    BY <1>1, <1>4
  <2> QED
    BY <1>1, <1>2, <1>3, <2>3, <2>4, <2>5, ChainEnds
<1>5. CASE n # 1
  <2>1. PICK k \in DOMAIN c : k = n - 1 /\ k # n /\ k + 1 = n /\ k - 1 = n - 2
    <3>1. c \in Seq(Frame) /\ n \in DOMAIN c
      BY <1>2, Links
    <3>2. n \in Nat /\ n > 1 /\ DOMAIN c = 1..n
      <4>1. n \in Nat /\ DOMAIN c = 1..n
        BY <3>1
      <4>2. n \in 1..n
        BY <3>1, <4>1
      <4> HIDE DEF n
      <4> QED
        BY <1>5, <4>1, <4>2
    <3>3. n - 1 \in DOMAIN c
      BY <3>2
    <3>4. n - 1 # n /\ (n - 1) + 1 = n /\ (n - 1) - 1 = n - 2
      BY <3>2
    <3> HIDE DEF c, n
    <3> QED
      BY <3>3, <3>4
  <2>2. k \in DOMAIN c /\ k + 1 = n /\ n \in DOMAIN c
    BY <1>2, <2>1
  <2> DEFINE f == c[k]
             g == c[n]
  <2>3. WaitsOK(f, g, OnTime(c, k)) /\ f \in Frame /\ g \in Frame
    BY <1>2, <2>1, Links
  <2>4. /\ OnTime(c, k) \in BOOLEAN /\ OnTime(c, n) \in BOOLEAN
        /\ OnTime(c, k) => Due(f.route)
        /\ OnTime(c, k) /\ Due(g.route) => OnTime(c, n)
    BY <1>2, <2>2, OnTimes
  <2>5. FrameOK(g, OnTime(c, n)) /\ g.out > 0
    BY <1>1, <1>2, <1>3
  <2>6. PICK h \in Answered(f, g.out) :
          chain' = [chain EXCEPT ![s] = Append(SubSeq(c, 1, k - 1), h)]
    BY <1>1, <1>2, <1>5, <2>1
  <2>7. h \in Answered(f, g.out)
    BY <2>6
  <2> HIDE DEF f, g
  <2>8. h \in Frame /\ TopOK(h, OnTime(c, k)) /\ h.route = f.route /\ h.left = f.left
    BY <2>3, <2>4, <2>5, <2>7, AnsweredOK
  <2>9. Fits(h, c, k)
    BY <2>8 DEF Fits, f
  <2> DEFINE d == Append(SubSeq(c, 1, k - 1), h)
  <2>10. Continues(d, c)
    BY <1>2, <2>2, <2>9, Replaced
  <2>11. chain' = [chain EXCEPT ![s] = d]
    BY <2>6
  <2> HIDE DEF d
  <2>12. d \in Seq(Frame)
    BY <2>10 DEF Continues
  <2>13. /\ chain' \in [Slots -> Seq(Frame)] /\ chain'[s] = d
         /\ \A t \in Slots \ {s} : chain'[t] = chain[t]
    BY <2>11, <2>12, ChainChanges
  <2> QED
    BY <1>1, <1>2, <1>5, <2>10, <2>13, ChainStep
<1> QED
  BY <1>4, <1>5

LEMMA GiveUpKeeps ==
  ASSUME MeshIndInv, NEW s \in Slots, NEW i \in DOMAIN chain[s], GiveUp(s, i)
  PROVE  MeshIndInv'
<1>1. /\ chain[s][i].left = 0 /\ Cut(s, i, 504) /\ LeftAlone(SubSeq(chain[s], i, Len(chain[s])))
      /\ sick' = sick /\ how' = how /\ asked' = asked /\ odd' = odd
  BY DEF GiveUp
<1>2. chain[s] \in Seq(Frame) /\ pending \in Seq(Routes \ Punctual)
  BY Parts
<1>3. SubSeq(chain[s], i, Len(chain[s])) \in Seq(Frame)
  BY <1>2
<1>4. pending' \in Seq(Routes \ Punctual)
  BY <1>1, <1>2, <1>3, LeftAloneOK
<1>5. Lost(chain[s], i, 504)
  BY <1>1 DEF Lost
<1> QED
  BY <1>1, <1>4, <1>5, CutOK

LEMMA BreakKeeps ==
  ASSUME MeshIndInv, NEW s \in Slots, NEW i \in DOMAIN chain[s], Break(s, i)
  PROVE  MeshIndInv'
<1>1. /\ ~Up(chain[s][i].route) /\ Cut(s, i, 502)
      /\ LeftAlone(SubSeq(chain[s], i + 1, Len(chain[s])))
      /\ sick' = sick /\ how' = how /\ asked' = asked /\ odd' = odd
  BY DEF Break
<1>2. /\ chain[s] \in Seq(Frame) /\ pending \in Seq(Routes \ Punctual)
      /\ how \in Faults \union {Healthy}
  BY Parts
<1>3. SubSeq(chain[s], i + 1, Len(chain[s])) \in Seq(Frame)
  BY <1>2
<1>4. pending' \in Seq(Routes \ Punctual)
  BY <1>1, <1>2, <1>3, LeftAloneOK
<1>5. Handler[chain[s][i].route].at \in sick
  BY <1>1, <1>2, Well DEF Up
<1>6. Lost(chain[s], i, 502)
  BY <1>5 DEF Lost
<1> QED
  BY <1>1, <1>4, <1>6, CutOK

\* Time passes for every chain at once.
LEMMA TickKeeps ==
  ASSUME MeshIndInv, Tick
  PROVE  MeshIndInv'
<1>1. /\ \A s \in Slots : Working(s) => Top(s).busy > 0
      /\ \A s \in Slots : \A i \in DOMAIN chain[s] : chain[s][i].left > 0
      /\ chain' = [s \in Slots |-> [i \in DOMAIN chain[s] |-> Aged(chain[s][i])]]
      /\ sick' = sick /\ how' = how /\ pending' = pending
      /\ asked' = asked /\ odd' = odd /\ told' = told
  BY DEF Tick, Aged
<1>2. ASSUME NEW s \in Slots
      PROVE  /\ chain'[s] \in Seq(Frame) /\ ChainOK(chain'[s])
             /\ chain[s] # <<>> => chain'[s] # <<>> /\ chain'[s][1].route = chain[s][1].route
  <2> DEFINE d == [i \in DOMAIN chain[s] |-> Aged(chain[s][i])]
  <2>1. chain[s] \in Seq(Frame) /\ ChainOK(chain[s])
    BY Parts
  <2>2. chain[s] # <<>> => chain[s][Len(chain[s])].busy > 0
    BY <1>1 DEF Working, Top
  <2>3. /\ d \in Seq(Frame) /\ ChainOK(d)
        /\ chain[s] # <<>> => d # <<>> /\ d[1].route = chain[s][1].route
    BY <1>1, <2>1, <2>2, AgedOK
  <2>4. chain'[s] = d
    BY <1>1
  <2> HIDE DEF d
  <2> QED
    BY <2>3, <2>4
<1>3. chain' \in [Slots -> Seq(Frame)]
  <2>1. chain' = [s \in Slots |-> chain'[s]]
    BY <1>1
  <2> QED
    BY <1>2, <2>1
<1>4. ToldInv'
  <2>1. asked # <<>> => asked[2] \in Slots
    BY Parts
  <2>2. ToldInv
    BY Parts
  <2>3. /\ asked = <<>> => told = 0 /\ ~odd
        /\ asked # <<>> /\ told = 0 => chain[asked[2]] # <<>> /\ chain[asked[2]][1].route = asked[1]
    BY <2>2 DEF ToldInv
  <2>4. asked # <<>> /\ told = 0 => chain'[asked[2]] # <<>> /\ chain'[asked[2]][1].route = asked[1]
    BY <1>2, <2>1, <2>3
  <2>5. asked' = asked /\ odd' = odd /\ told' = told
    BY <1>1
  <2> QED
    BY <2>3, <2>4, <2>5 DEF ToldInv
<1>5. OnlyEssentialServicesFailAPage' /\ PatienceSuffices'
  BY <1>1, Parts DEF OnlyEssentialServicesFailAPage, PatienceSuffices
<1>6. \A s \in Slots : ChainOK(chain'[s])
  BY <1>2
<1>7. /\ sick \subseteq sick' /\ sick' \subseteq DOMAIN Service \union Stores
      /\ how' \in Faults \union {Healthy} /\ pending' \in Seq(Routes \ Punctual)
      /\ asked' \in ((Requests \X Slots) \union {<<>>}) /\ told' \in Statuses \union {0}
      /\ odd' \in BOOLEAN /\ (odd => odd')
  BY <1>1, Parts
<1> QED
  BY <1>3, <1>4, <1>5, <1>6, <1>7, Together

\* A fault comes, or what it does to the services is over.
LEMMA FaultKeeps ==
  ASSUME MeshIndInv, (\E S \in FaultSets, h \in Faults : Fault(S, h)) \/ Restore
  PROVE  MeshIndInv'
<1>1. /\ chain' = chain /\ pending' = pending /\ asked' = asked /\ odd' = odd /\ told' = told
      /\ sick \subseteq sick' /\ sick' \subseteq DOMAIN Service \union Stores
      /\ how' \in Faults \union {Healthy}
  <2>1. CASE \E S \in FaultSets, h \in Faults : Fault(S, h)
    BY <2>1, MeshAssumption DEF Fault
  <2>2. CASE Restore
    BY <2>2, Parts DEF Restore
  <2> QED
    BY <2>1, <2>2
<1>2. ToldInv'
  BY <1>1, Parts DEF ToldInv
<1>3. OnlyEssentialServicesFailAPage' /\ PatienceSuffices'
  BY <1>1, Parts DEF OnlyEssentialServicesFailAPage, PatienceSuffices
<1> QED
  BY <1>1, <1>2, <1>3, Parts, Together

LEMMA MeshStarts == MeshInit => MeshIndInv
<1> SUFFICES ASSUME MeshInit
             PROVE  MeshIndInv
  OBVIOUS
<1>1. /\ sick = {} /\ how = Healthy /\ chain = [s \in Slots |-> <<>>] /\ pending = <<>>
      /\ asked = <<>> /\ ~odd /\ odd \in BOOLEAN /\ told = 0
  BY DEF MeshInit
<1>2. MeshTypeOK
  BY <1>1 DEF MeshTypeOK
<1>3. \A s \in Slots : ChainOK(chain[s])
  <2>1. ChainOK(<<>>)
    BY DEF ChainOK
  <2> QED
    BY <1>1, <2>1
<1>4. ToldInv /\ OnlyEssentialServicesFailAPage /\ PatienceSuffices
  BY <1>1 DEF ToldInv, OnlyEssentialServicesFailAPage, PatienceSuffices
<1> QED
  BY <1>1, <1>2, <1>3, <1>4 DEF MeshIndInv

LEMMA MeshKeeps == MeshIndInv /\ [MeshNext]_meshVars => MeshIndInv'
<1> SUFFICES ASSUME MeshIndInv, [MeshNext]_meshVars
             PROVE  MeshIndInv'
  OBVIOUS
<1>1. ASSUME NEW s \in Slots,
             \/ Serve(s) \/ Work(s) \/ Call(s) \/ CallRefused(s) \/ CallSpoilt(s)
             \/ Spawn(s) \/ Reply(s)
             \/ \E i \in DOMAIN chain[s] : GiveUp(s, i) \/ Break(s, i)
      PROVE  MeshIndInv'
  BY <1>1, ServeKeeps, WorkKeeps, CallKeeps, CallRefusedKeeps, CallSpoiltKeeps, SpawnKeeps, ReplyKeeps,
     GiveUpKeeps, BreakKeeps
<1>2. CASE MeshStep
  BY <1>1, <1>2, TickKeeps DEF MeshStep
<1>3. ASSUME NEW s \in Slots, NEW r \in Requests, Request(s, r)
      PROVE  MeshIndInv'
  BY <1>3, RequestKeeps
<1>4. CASE (\E S \in FaultSets, h \in Faults : Fault(S, h)) \/ Restore
  BY <1>4, FaultKeeps
<1>5. CASE UNCHANGED meshVars
  BY <1>5, Unchanging
<1> QED
  BY <1>2, <1>3, <1>4, <1>5 DEF MeshNext

--------------------------------------------------------------------------------

(* What is proved of every behaviour *)

\* What can have gone wrong with a handler names a service that is sick, and a handler
\* that must be in time has the time left that the rest of it may take: applyFaultInjection,
\* httpGet, httpPost and proxyRequest, whatever the order of answers, timeouts and faults.
THEOREM MeshInvariant == MeshSpec => []MeshIndInv
<1> QED
  BY MeshStarts, MeshKeeps, PTL DEF MeshSpec

\* Every variable of the mesh keeps its type: a handler is at a step of a route there is,
\* it answers with a status the services use, and only routes are asked for later.
THEOREM MeshTypes == MeshSpec => []MeshTypeOK
<1>1. MeshIndInv => MeshTypeOK
  BY DEF MeshIndInv
<1> QED
  BY <1>1, MeshInvariant, PTL

\* A client is told 500 or 502 only if one of the services that answer for its page has
\* been sick, or if it asked for what there is not (a page 0, an identifier that is no part
\* of a URL): what else fails under a page is made up for.
THEOREM MeshErrorsAreTheEssentialServices == MeshSpec => []OnlyEssentialServicesFailAPage
<1>1. MeshIndInv => OnlyEssentialServicesFailAPage
  BY DEF MeshIndInv
<1> QED
  BY <1>1, MeshInvariant, PTL

\* A patient page ends in a timeout (504) only if one of the services that answer for it has
\* been sick: the timeouts of frontend and api-gateway are longer than what catalog-service
\* and orders-service wait for those that they can do without.
THEOREM MeshPatience == MeshSpec => []PatienceSuffices
<1>1. MeshIndInv => PatienceSuffices
  BY DEF MeshIndInv
<1> QED
  BY <1>1, MeshInvariant, PTL
================================================================================
