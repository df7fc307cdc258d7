--------------------------- MODULE SharedStateProofs ---------------------------
(***************************************************************************)
(* What handlers that share a value in Redis can do to one another: whether *)
(* a cart may hold more or less than was added to it, for every number of   *)
(* adds, products and slots; how old a tier can be when a discount is given *)
(* for it, and what stands behind a session token, for every number of      *)
(* requests, logins and tiers and every lifetime of the key.                *)
(***************************************************************************)
EXTENDS Cart, Accounts, FiniteSetTheorems, TLAPS

--------------------------------------------------------------------------------

(* The cart *)

\* A count of adds grows by one with an add of the product, and is never less for more adds.
LEMMA CountOfAdds ==
  ASSUME NEW S \in SUBSET Adds, NEW p \in Products
  PROVE  /\ IsFiniteSet(Adding(S, p)) /\ Cardinality(Adding(S, p)) \in Nat
         /\ \A a \in Adds \ S : Cardinality(Adding(S \union {a}, p)) =
              IF ProductOf[a] = p THEN Cardinality(Adding(S, p)) + 1 ELSE Cardinality(Adding(S, p))
<1>1. IsFiniteSet(Adding(S, p)) /\ Cardinality(Adding(S, p)) \in Nat
  BY CartAssumption, FS_Subset, FS_CardinalityType, Adding(S, p) \subseteq Adds DEF Adding
<1>2. ASSUME NEW a \in Adds \ S
      PROVE  Cardinality(Adding(S \union {a}, p)) =
               IF ProductOf[a] = p THEN Cardinality(Adding(S, p)) + 1 ELSE Cardinality(Adding(S, p))
  <2>1. CASE ProductOf[a] = p
    <3>1. Adding(S \union {a}, p) = Adding(S, p) \union {a} /\ a \notin Adding(S, p)
      BY <2>1 DEF Adding
    <3> QED
      BY <1>1, <2>1, <3>1, FS_AddElement
  <2>2. CASE ProductOf[a] # p
    <3>1. Adding(S \union {a}, p) = Adding(S, p)
      BY <2>2 DEF Adding
    <3> QED
      BY <2>2, <3>1
  <2> QED
    BY <2>1, <2>2
<1> QED
  BY <1>1, <1>2

LEMMA CountOfNoAdds == \A p \in Products : Cardinality(Adding({}, p)) = 0
  BY FS_EmptySet DEF Adding

\* No cart, in Redis or in a handler, holds more than the adds that were written; as long as
\* the adds come one after the other, the one that is changing the cart has the cart of
\* Redis, and Redis has the adds that were written.
CartInv ==
  /\ written \subseteq Past
  /\ \A p \in Products, a \in Adds : copy[a][p] =< Cardinality(Adding(Past, p))
  /\ undisturbed => \A a \in Adds : Changing(a) =>
       copy[a] = stored /\ \A b \in Adds : Changing(b) => b = a

CartIndInv == CartTypeOK /\ NothingCountedTwice /\ LostOnlyToARace /\ CartInv

\* The type invariant, the bound on every quantity and the exact count of an undisturbed
\* cart hold together in every reachable state of addToCartHandler.
THEOREM CartInvariant == CartSpec => []CartIndInv
<1> USE CartAssumption
<1>1. CartInit => CartIndInv
  <2> SUFFICES ASSUME CartInit PROVE CartIndInv
    OBVIOUS
  <2>1. CartTypeOK
    BY DEF CartInit, CartTypeOK, CartValue, Empty, Places
  <2>2. Past = {} /\ \A a \in Adds : ~Changing(a)
    BY DEF CartInit, Past, Changing
  <2> QED
    BY <2>1, <2>2, CountOfNoAdds
       DEF CartInit, CartIndInv, CartInv, NothingCountedTwice, LostOnlyToARace, Empty
<1>2. CartIndInv /\ [CartNext]_cartVars => CartIndInv'
  <2> SUFFICES ASSUME CartIndInv, [CartNext]_cartVars PROVE CartIndInv'
    OBVIOUS
  <2> USE DEF CartIndInv
  \* A step that leaves both the cart and every copy alone, and no add starts or ends changing.
  <2>1. ASSUME Past' = Past, UNCHANGED <<stored, copy, written, undisturbed>>, CartTypeOK',
               \A b \in Adds : Changing(b)' = Changing(b)
        PROVE  CartIndInv'
    BY <2>1 DEF CartInv, NothingCountedTwice, LostOnlyToARace
  <2>2. ASSUME NEW a \in Adds, NEW fails \in BOOLEAN, Inject(a, fails) PROVE CartIndInv'
    <3>1. CartTypeOK'
      BY <2>2 DEF Inject, Goto, CartTypeOK, Places
    <3>2. Past' = Past /\ \A b \in Adds : Changing(b)' = Changing(b)
      BY <2>2 DEF Inject, Goto, CartTypeOK, Past, Changing
    <3> QED
      BY <2>1, <2>2, <3>1, <3>2 DEF Inject
  <2>3. ASSUME NEW a \in Adds, AskCatalog(a) PROVE CartIndInv'
    <3>1. CartTypeOK'
      BY <2>3 DEF AskCatalog, Goto, CartTypeOK, Places
    <3>2. Past' = Past /\ \A b \in Adds : Changing(b)' = Changing(b)
      BY <2>3 DEF AskCatalog, Goto, CartTypeOK, Past, Changing
    <3> QED
      BY <2>1, <2>3, <3>1, <3>2 DEF AskCatalog
  <2>4. ASSUME NEW a \in Adds, NEW fails \in BOOLEAN, ReadCart(a, fails) PROVE CartIndInv'
    <3>1. CartTypeOK'
      BY <2>4 DEF ReadCart, Goto, CartTypeOK, CartValue, Empty, Places
    <3>2. Past' = Past
      BY <2>4 DEF ReadCart, Goto, CartTypeOK, Past
    <3>3. \A p \in Products : Cardinality(Adding(Past, p)) \in Nat
      BY CountOfAdds, Past \subseteq Adds DEF Past
    <3>4. \A p \in Products, b \in Adds : copy'[b][p] =< Cardinality(Adding(Past, p))
      BY <2>4, <3>3 DEF ReadCart, CartTypeOK, CartInv, NothingCountedTwice, Empty
    <3>5. undisturbed' => \A b \in Adds : Changing(b)' => b = a /\ copy'[b] = stored
      BY <2>4 DEF ReadCart, Goto, Changing, CartTypeOK
    <3> QED
      BY <2>4, <3>1, <3>2, <3>4, <3>5 DEF ReadCart, CartInv, NothingCountedTwice, LostOnlyToARace
  <2>5. ASSUME NEW a \in Adds, NEW fails \in BOOLEAN, WriteCart(a, fails) PROVE CartIndInv'
    <3> DEFINE Count(S, p) == Cardinality(Adding(S, p))
    <3>1. CartTypeOK'
      <4>1. With(copy[a], ProductOf[a]) \in CartValue
        BY DEF With, CartTypeOK, CartValue
      <4> QED
        BY <2>5, <4>1 DEF WriteCart, Goto, CartTypeOK, CartValue, Empty, Places
    <3>2. Past' = Past \union {a} /\ a \in Adds \ Past /\ Past \subseteq Adds
      BY <2>5 DEF WriteCart, Changing, Goto, CartTypeOK, Past
    <3>3. a \in Adds \ written /\ written \subseteq Adds
      BY <3>2 DEF CartInv
    <3>4. \A p \in Products : /\ Count(Past, p) \in Nat
                              /\ Count(Past', p) = IF ProductOf[a] = p THEN Count(Past, p) + 1 ELSE Count(Past, p)
      BY <3>2, CountOfAdds
    <3>5. \A p \in Products : Count(written \union {a}, p) =
                                IF ProductOf[a] = p THEN Count(written, p) + 1 ELSE Count(written, p)
      BY <3>3, CountOfAdds
    <3>6. \A p \in Products : With(copy[a], ProductOf[a])[p] =
                                IF ProductOf[a] = p THEN copy[a][p] + 1 ELSE copy[a][p]
      BY DEF With, CartTypeOK, CartValue
    <3> HIDE DEF Count
    <3>7. \A p \in Products : stored'[p] =< Count(Past', p)
      <4> SUFFICES ASSUME NEW p \in Products PROVE stored'[p] =< Count(Past', p)
        OBVIOUS
      <4>1. stored[p] =< Count(Past, p) /\ copy[a][p] =< Count(Past, p)
        BY DEF CartInv, NothingCountedTwice, Count
      <4>2. stored[p] \in Nat /\ copy[a][p] \in Nat
        BY DEF CartTypeOK, CartValue
      <4>3. stored'[p] = stored[p] \/ stored'[p] = With(copy[a], ProductOf[a])[p]
        BY <2>5 DEF WriteCart
      <4> QED
        BY <3>4, <3>6, <4>1, <4>2, <4>3
    <3>8. \A p \in Products, b \in Adds : copy'[b][p] =< Count(Past', p)
      <4> SUFFICES ASSUME NEW p \in Products, NEW b \in Adds PROVE copy'[b][p] =< Count(Past', p)
        OBVIOUS
      <4>1. copy[b][p] =< Count(Past, p) /\ copy[b][p] \in Nat
        BY DEF CartInv, CartTypeOK, CartValue, Count
      <4>2. copy'[b][p] = copy[b][p] \/ copy'[b][p] = 0
        BY <2>5 DEF WriteCart, CartTypeOK, Empty
      <4> QED
        BY <3>4, <4>1, <4>2
    <3>9. undisturbed' => undisturbed /\ ~fails
      BY <2>5 DEF WriteCart, CartTypeOK
    <3>10. undisturbed' => \A p \in Products : stored'[p] = Count(written', p)
      <4> SUFFICES ASSUME undisturbed', NEW p \in Products PROVE stored'[p] = Count(written', p)
        OBVIOUS
      <4>1. copy[a] = stored /\ stored[p] = Count(written, p)
        BY <2>5, <3>9 DEF WriteCart, CartInv, LostOnlyToARace, Count
      <4>2. stored' = With(copy[a], ProductOf[a]) /\ written' = written \union {a}
        BY <2>5, <3>9 DEF WriteCart
      <4> QED
        BY <3>5, <3>6, <4>1, <4>2
    <3>11. undisturbed' => \A b \in Adds : ~Changing(b)'
      BY <2>5, <3>9 DEF WriteCart, Goto, Changing, CartInv, CartTypeOK
    <3>12. written' \subseteq Past'
      BY <2>5, <3>2 DEF WriteCart, CartInv
    <3> QED
      BY <3>1, <3>7, <3>8, <3>10, <3>11, <3>12 DEF CartInv, NothingCountedTwice, LostOnlyToARace, Count
  <2>6. ASSUME NEW a \in Adds, CallPricing(a) \/ CallSession(a) \/ ReplyAdd(a) PROVE CartIndInv'
    <3>1. CartTypeOK'
      BY <2>6 DEF CallPricing, CallSession, ReplyAdd, FireAndForget, Goto, CartTypeOK, Places
    <3>2. Past' = Past /\ \A b \in Adds : Changing(b)' = Changing(b)
      BY <2>6 DEF CallPricing, CallSession, ReplyAdd, Goto, CartTypeOK, Past, Changing
    <3> QED
      BY <2>1, <2>6, <3>1, <3>2 DEF CallPricing, CallSession, ReplyAdd
  <2>7. ASSUME NEW a \in Adds, ClientGivesUp(a) PROVE CartIndInv'
    <3>1. CartTypeOK'
      BY <2>7 DEF ClientGivesUp, CartTypeOK
    <3> QED
      BY <2>1, <2>7, <3>1 DEF ClientGivesUp, Past, Changing
  <2>8. ASSUME EndCall PROVE CartIndInv'
    <3>1. CartTypeOK'
      BY <2>8 DEF EndCall, CartTypeOK
    <3> QED
      BY <2>1, <2>8, <3>1 DEF EndCall, Past, Changing
  <2>9. ASSUME Expire PROVE CartIndInv'
    <3>1. CartTypeOK'
      BY <2>9 DEF Expire, CartTypeOK, CartValue, Empty
    <3>2. Past' = Past /\ \A b \in Adds : Changing(b)' = Changing(b)
      BY <2>9 DEF Expire, Past, Changing
    <3>3. \A p \in Products : stored'[p] = 0 /\ 0 =< Cardinality(Adding(Past, p))
      BY <2>9, CountOfAdds, Past \subseteq Adds DEF Expire, Empty, Past
    <3>4. undisturbed' => \A b \in Adds : ~Changing(b)
      BY <2>9 DEF Expire, CartTypeOK
    <3> QED
      BY <2>9, <3>1, <3>2, <3>3, <3>4, CountOfNoAdds
         DEF Expire, CartInv, NothingCountedTwice, LostOnlyToARace
  <2>10. CASE UNCHANGED cartVars
    <3>1. CartTypeOK'
      BY <2>10 DEF cartVars, CartTypeOK
    <3> QED
      BY <2>1, <2>10, <3>1 DEF cartVars, Past, Changing
  <2> QED
    BY <2>2, <2>3, <2>4, <2>5, <2>6, <2>7, <2>8, <2>9, <2>10 DEF CartNext, CartHandler
<1> QED
  BY <1>1, <1>2, PTL DEF CartSpec

\* The variables of cart-service keep their types; the pool never exceeds its size.
THEOREM CartTypes == CartSpec => []CartTypeOK
  BY CartInvariant, PTL DEF CartIndInv

\* No add is counted twice, however the adds race and whatever fails.
THEOREM CartCountsOnce == CartSpec => []NothingCountedTwice
  BY CartInvariant, PTL DEF CartIndInv

\* An add that is missing from the cart was lost to a race, a failure or an expiry.
THEOREM CartLosesOnlyToRaces == CartSpec => []LostOnlyToARace
  BY CartInvariant, PTL DEF CartIndInv

--------------------------------------------------------------------------------

(* Tiers and sessions *)

\* user-service: its tier is the user's now, and its failure is a failure now.
UserInv == sinceTier[tier] = 0 /\ (~userUp => sinceDown = 0)

\* The key ages with its expiry: what has been there for a minute is a minute older, and was
\* at most a minute old when it was written.
CachedTierAges == cachedTier # Nobody => Recent(cachedTier, TTL + 2 - expires)

\* How old what a request holds may be: a minute more once it has seen one end.
Aged(r, age) == IF r \in straddles THEN age + 1 ELSE age

\* The tier in a request's hands, by where its handler is.
RequestInv(r) ==
  /\ ~Busy(r) => r \notin straddles
  /\ asking[r] = "store" => found[r] \in Tiers /\ Recent(found[r], Aged(r, 0))
  /\ late[r] # Nobody => Recent(late[r], Aged(r, 0))
  /\ asking[r] = "answered" => found[r] \in Tiers /\ Recent(found[r], Aged(r, TTL + 1))

\* A session whose handler has come past its SET is in Redis, or has its excuse.
LoginInv ==
  \A l \in Logins : create[l] \in {"stored", "late"} => l \in sessions \union excuses

TierInv == UserInv /\ CachedTierAges /\ \A r \in Requests : RequestInv(r)
AccountsIndInv == AccountsTypeOK /\ TierInv /\ LoginInv /\ SessionBehindEveryToken

\* The types of the variables of one part of the model.
LoginTypeOK ==
  /\ login \in [Logins -> {"idle", "session", "user", "done"}]
  /\ create \in [Logins -> {"none", "running", "stored", "late"}]
  /\ token \in [Logins -> {"none", "session", "fallback"}]
  /\ sessions \subseteq Logins /\ excuses \subseteq Logins
  /\ check \in [Logins -> {"none", "valid", "invalid", "failed"}]

TierTypeOK ==
  /\ tier \in Tiers /\ cachedTier \in Tiers \union {Nobody}
  /\ userUp \in BOOLEAN
  /\ expires \in 0..TTL + 1 /\ (expires = 0 <=> cachedTier = Nobody)
  /\ asking \in [Requests -> {"idle", "redis", "user", "store", "answered"}]
  /\ found \in [Requests -> Tiers \union {Nobody}]
  /\ late \in [Requests -> Tiers \union {Nobody}]
  /\ straddles \subseteq Requests
  /\ sinceTier \in [Tiers -> 0..Old] /\ sinceDown \in 0..Old

LEMMA TypeParts ==
  /\ AccountsTypeOK <=> TierTypeOK /\ LoginTypeOK
  /\ AccountsTypeOK' <=> TierTypeOK' /\ LoginTypeOK'
  BY DEF AccountsTypeOK, TierTypeOK, LoginTypeOK

--------------------------------------------------------------------------------

\* What was recent stays so as long as no minute ends.
LEMMA RecentStays ==
  ASSUME TierTypeOK, NEW t \in Tiers, NEW age \in Nat, Recent(t, age),
         sinceTier'[t] = sinceTier[t] \/ sinceTier'[t] = 0, sinceDown' = sinceDown \/ sinceDown' = 0
  PROVE  Recent(t, age)'
BY DEF Recent

\* What is recent is recent within a longer time, too.
LEMMA RecentLonger ==
  ASSUME TierTypeOK, NEW t \in Tiers, NEW age \in Nat, NEW more \in Nat, age =< more, Recent(t, age)
  PROVE  Recent(t, more)
BY DEF Recent, TierTypeOK, Old

\* A tier is stored by a handler or by a SET it left under way.
LEMMA PutKeeps ==
  ASSUME TierTypeOK, NEW t \in Tiers, NEW age \in 0..1, Recent(t, age), Put(t),
         UNCHANGED <<sinceTier, sinceDown>>
  PROVE  CachedTierAges' /\ expires' = TTL + 1 /\ cachedTier' = t
<1>1. Recent(t, 1)
  BY RecentLonger
<1> QED
  BY <1>1, AccountsAssumption DEF Put, CachedTierAges, Recent

\* The steps of a handler, and of what it leaves under way.
LEMMA HandlerKeeps ==
  ASSUME TierTypeOK, TierInv, NEW r \in Requests,
         \/ AskTier(r) \/ FetchTier(r) \/ UseTier(r)
         \/ \E fails \in BOOLEAN : ReadTier(r, fails) \/ StoreTier(r, fails) \/ LateStore(r, fails)
  PROVE  (TierTypeOK /\ TierInv)'
<1> USE AccountsAssumption DEF Go, Old
<1>1. UNCHANGED <<tier, userUp, sinceTier, sinceDown>> /\ UserInv'
  BY DEF AskTier, FetchTier, UseTier, ReadTier, StoreTier, LateStore, TierInv, UserInv
<1>2. CASE AskTier(r)
  <2>1. /\ UNCHANGED <<cachedTier, expires, found, late, straddles>>
        /\ asking' = [asking EXCEPT ![r] = "redis"]
    BY <1>2 DEF AskTier
  <2> QED
    BY <1>1, <2>1 DEF TierTypeOK, TierInv, CachedTierAges, RequestInv, Recent, Aged, Busy
<1>3. CASE FetchTier(r)
  <2>1. TierTypeOK'
    BY <1>3 DEF FetchTier, TierTypeOK
  <2>2. found'[r] \in Tiers /\ Recent(found'[r], 0) /\ Recent(found'[r], 1)
    BY <1>3 DEF FetchTier, TierTypeOK, TierInv, UserInv, Recent
  <2> QED
    BY <1>1, <1>3, <2>1, <2>2
       DEF FetchTier, TierTypeOK, TierInv, CachedTierAges, RequestInv, Recent, Aged, Busy
<1>4. CASE UseTier(r)
  <2>1. TierTypeOK'
    BY <1>4 DEF UseTier, TierTypeOK
  <2>2. \A q \in Requests : RequestInv(q)'
    BY <1>1, <1>4 DEF UseTier, TierTypeOK, TierInv, RequestInv, Recent, Aged, Busy
  <2> QED
    BY <1>1, <1>4, <2>1, <2>2 DEF UseTier, TierInv, CachedTierAges, Recent
<1>5. ASSUME NEW fails \in BOOLEAN, ReadTier(r, fails) PROVE (TierTypeOK /\ TierInv)'
  <2>1. TierTypeOK'
    BY <1>5 DEF ReadTier, TierTypeOK
  <2>2. asking'[r] = "answered" =>
          found'[r] = cachedTier /\ cachedTier \in Tiers /\ Recent(cachedTier, TTL + 1)
    BY <1>5 DEF ReadTier, TierTypeOK, TierInv, CachedTierAges, Recent
  <2>3. Recent(cachedTier, TTL + 1) /\ cachedTier \in Tiers => Recent(cachedTier, TTL + 2)
    BY DEF TierTypeOK, Recent
  <2>4. \A q \in Requests : RequestInv(q)'
    BY <1>1, <1>5, <2>2, <2>3 DEF ReadTier, TierTypeOK, TierInv, RequestInv, Recent, Aged, Busy
  <2> QED
    BY <1>1, <1>5, <2>1, <2>4 DEF ReadTier, TierInv, CachedTierAges, Recent
<1>6. ASSUME NEW fails \in BOOLEAN, StoreTier(r, fails) PROVE (TierTypeOK /\ TierInv)'
  <2>1. found[r] \in Tiers /\ Recent(found[r], Aged(r, 0)) /\ Aged(r, 0) \in 0..1
    BY <1>6 DEF StoreTier, TierInv, RequestInv, Aged
  <2>2. TierTypeOK'
    BY <1>6, <2>1 DEF StoreTier, Put, TierTypeOK
  <2>3. Recent(found[r], Aged(r, TTL + 1))
    BY <2>1, RecentLonger DEF Aged
  <2>4. CachedTierAges'
    <3>1. CASE fails
      BY <1>6, <1>1, <3>1 DEF StoreTier, TierInv, CachedTierAges, Recent
    <3>2. CASE ~fails
      BY <1>6, <1>1, <2>1, <3>2, PutKeeps DEF StoreTier
    <3> QED
      BY <3>1, <3>2
  <2>5. \A q \in Requests : RequestInv(q)'
    BY <1>6, <1>1, <2>1, <2>3 DEF StoreTier, TierInv, TierTypeOK, RequestInv, Recent, Aged, Busy
  <2> QED
    BY <1>1, <2>2, <2>4, <2>5 DEF TierInv
<1>7. ASSUME NEW fails \in BOOLEAN, LateStore(r, fails) PROVE (TierTypeOK /\ TierInv)'
  <2>1. late[r] \in Tiers /\ Recent(late[r], Aged(r, 0)) /\ Aged(r, 0) \in 0..1
    BY <1>7 DEF LateStore, TierInv, TierTypeOK, RequestInv, Aged
  <2>2. TierTypeOK'
    BY <1>7, <2>1 DEF LateStore, Put, TierTypeOK
  <2>3. CachedTierAges'
    <3>1. CASE fails
      BY <1>7, <1>1, <3>1 DEF LateStore, TierInv, CachedTierAges, Recent
    <3>2. CASE ~fails
      BY <1>7, <1>1, <2>1, <3>2, PutKeeps DEF LateStore
    <3> QED
      BY <3>1, <3>2
  <2>4. \A q \in Requests : RequestInv(q)'
    BY <1>7, <1>1 DEF LateStore, TierInv, TierTypeOK, RequestInv, Recent, Aged, Busy
  <2> QED
    BY <1>1, <2>2, <2>3, <2>4 DEF TierInv
<1> QED
  BY <1>2, <1>3, <1>4, <1>5, <1>6, <1>7

\* A key that is gone holds nothing old.
LEMMA LossKeeps ==
  ASSUME TierTypeOK, TierInv, LoseTier
  PROVE  (TierTypeOK /\ TierInv)'
BY AccountsAssumption
   DEF LoseTier, TierTypeOK, TierInv, UserInv, CachedTierAges, RequestInv, Recent, Aged, Busy

\* user-service fails, recovers or starts again: nothing gets older.
LEMMA UserServiceKeeps ==
  ASSUME TierTypeOK, TierInv, UserFails \/ \E t \in Tiers : UserRestarts(t)
  PROVE  (TierTypeOK /\ TierInv)'
<1> USE AccountsAssumption DEF Old
<1>1. UNCHANGED <<cachedTier, expires, asking, found, late, straddles>>
  BY DEF UserFails, UserRestarts
<1>2. /\ \A t \in Tiers : sinceTier'[t] = sinceTier[t] \/ sinceTier'[t] = 0
      /\ sinceDown' = sinceDown \/ sinceDown' = 0
      /\ TierTypeOK' /\ UserInv'
  <2>1. CASE UserFails
    BY <2>1 DEF UserFails, TierTypeOK, TierInv, UserInv
  <2>2. ASSUME NEW t \in Tiers, UserRestarts(t)
        PROVE  /\ \A s \in Tiers : sinceTier'[s] = sinceTier[s] \/ sinceTier'[s] = 0
               /\ sinceDown' = sinceDown
               /\ TierTypeOK' /\ UserInv'
    BY <2>2 DEF UserRestarts, TierTypeOK, TierInv, UserInv
  <2> QED
    BY <2>1, <2>2
<1>3. \A t \in Tiers : \A age \in Nat : Recent(t, age) => Recent(t, age)'
  BY <1>2 DEF Recent
<1>4. CachedTierAges'
  BY <1>1, <1>3 DEF CachedTierAges, TierInv, TierTypeOK
<1>5. \A r \in Requests : RequestInv(r)'
  BY <1>1, <1>3 DEF RequestInv, TierInv, TierTypeOK, Aged, Busy
<1> QED
  BY <1>2, <1>4, <1>5 DEF TierInv

\* A minute makes everything a minute older, the key too.
LEMMA MinuteKeeps ==
  ASSUME TierTypeOK, TierInv, Minute
  PROVE  (TierTypeOK /\ TierInv)'
<1> USE AccountsAssumption DEF Old
<1>1. TierTypeOK'
  BY DEF Minute, TierTypeOK, Older
<1>2. UserInv'
  BY DEF Minute, TierTypeOK, TierInv, UserInv
<1>3. ASSUME NEW t \in Tiers, NEW age \in Nat, Recent(t, age) PROVE Recent(t, age + 1)'
  BY <1>3 DEF Minute, TierTypeOK, Older, Recent
<1>4. CachedTierAges'
  <2> SUFFICES ASSUME cachedTier' # Nobody PROVE Recent(cachedTier, TTL + 2 - expires)'
    BY DEF CachedTierAges
  <2>1. cachedTier' = cachedTier /\ cachedTier \in Tiers /\ expires \in 2..TTL + 1 /\ expires' = expires - 1
    BY DEF Minute, TierTypeOK
  <2>2. PICK t \in Tiers, age \in Nat : t = cachedTier /\ age = TTL + 2 - expires
    BY <2>1
  <2>3. Recent(t, age)
    BY <2>1, <2>2 DEF TierInv, CachedTierAges
  <2>4. Recent(t, age + 1)'
    BY <1>3, <2>3
  <2>5. age + 1 = TTL + 2 - expires'
    BY <2>1, <2>2
  <2> QED
    BY <2>1, <2>2, <2>4, <2>5 DEF Recent
<1>5. ASSUME NEW r \in Requests PROVE RequestInv(r)'
  <2>1. /\ r \notin straddles /\ (r \in straddles' <=> Busy(r))
        /\ asking' = asking /\ found' = found /\ late' = late
    BY DEF Minute
  <2>2. asking[r] = "store" => found[r] \in Tiers /\ Recent(found[r], 0)
    BY <2>1 DEF TierInv, RequestInv, Aged
  <2>3. asking[r] = "answered" => found[r] \in Tiers /\ Recent(found[r], TTL + 1)
    BY <2>1 DEF TierInv, RequestInv, Aged
  <2>4. late[r] # Nobody => late[r] \in Tiers /\ Recent(late[r], 0)
    BY <2>1 DEF TierInv, RequestInv, TierTypeOK, Aged
  <2>5. asking[r] = "store" => Recent(found[r], 1)'
    BY <1>3, <2>1, <2>2 DEF Recent
  <2>6. asking[r] = "answered" => Recent(found[r], TTL + 2)'
    BY <1>3, <2>1, <2>3 DEF Recent
  <2>7. late[r] # Nobody => Recent(late[r], 1)'
    BY <1>3, <2>1, <2>4 DEF Recent
  <2> QED
    BY <2>1, <2>2, <2>3, <2>5, <2>6, <2>7 DEF RequestInv, Recent, Aged, Busy
<1> QED
  BY <1>1, <1>2, <1>4, <1>5 DEF TierInv

\* The steps of a login and of its session.
LEMMA LoginKeeps ==
  ASSUME LoginTypeOK, LoginInv, SessionBehindEveryToken, LoginNext
  PROVE  (LoginTypeOK /\ LoginInv /\ SessionBehindEveryToken)' /\ UNCHANGED tierVars
<1> USE DEF LoginTypeOK, LoginInv, SessionBehindEveryToken
<1>1. PICK l \in Logins :
        \/ LogIn(l) \/ LateSession(l) \/ SessionAnswers(l) \/ SessionError(l) \/ NoSession(l) \/ LoggedIn(l) \/ SessionExpires(l)
        \/ \E fails \in BOOLEAN : CreateSession(l, fails) \/ Validate(l, fails)
  BY DEF LoginNext
<1>2. CASE LogIn(l) \/ LateSession(l) \/ SessionAnswers(l) \/ SessionError(l)
  BY <1>2 DEF LogIn, LateSession, SessionAnswers, SessionError
<1>3. CASE NoSession(l) \/ LoggedIn(l) \/ SessionExpires(l)
  BY <1>3 DEF NoSession, LoggedIn, SessionExpires
<1>4. ASSUME NEW fails \in BOOLEAN, CreateSession(l, fails)
      PROVE  (LoginTypeOK /\ LoginInv /\ SessionBehindEveryToken)' /\ UNCHANGED tierVars
  BY <1>4 DEF CreateSession
<1>5. ASSUME NEW fails \in BOOLEAN, Validate(l, fails)
      PROVE  (LoginTypeOK /\ LoginInv /\ SessionBehindEveryToken)' /\ UNCHANGED tierVars
  BY <1>5 DEF Validate
<1> QED
  BY <1>1, <1>2, <1>3, <1>4, <1>5

--------------------------------------------------------------------------------

\* The ages, the key and the requests stay in step with each other and the sessions with
\* their tokens.
THEOREM AccountsInvariant == AccountsSpec => []AccountsIndInv
<1>1. AccountsInit => AccountsIndInv
  BY AccountsAssumption
     DEF AccountsInit, TierInit, LoginInit, AccountsIndInv, AccountsTypeOK, TierInv, UserInv, CachedTierAges, RequestInv,
         LoginInv, SessionBehindEveryToken, Old, Busy
<1>2. AccountsIndInv /\ [TierNext \/ LoginNext]_accountsVars => AccountsIndInv'
  <2> SUFFICES ASSUME AccountsIndInv, [TierNext \/ LoginNext]_accountsVars PROVE AccountsIndInv'
    OBVIOUS
  <2>1. TierTypeOK /\ LoginTypeOK /\ TierInv /\ LoginInv /\ SessionBehindEveryToken
    BY TypeParts DEF AccountsIndInv
  <2>2. ASSUME (TierTypeOK /\ TierInv)', UNCHANGED loginVars PROVE AccountsIndInv'
    BY <2>1, <2>2, TypeParts DEF loginVars, LoginTypeOK, LoginInv, SessionBehindEveryToken, AccountsIndInv
  <2>3. CASE TierNext
    <3>1. UNCHANGED loginVars
      BY <2>3 DEF TierNext, AskTier, FetchTier, UseTier, ReadTier, StoreTier, LateStore, LoseTier, UserFails,
                     UserRestarts, Minute
    <3>2. (TierTypeOK /\ TierInv)'
      BY <2>1, <2>3, HandlerKeeps, LossKeeps, UserServiceKeeps, MinuteKeeps DEF TierNext
    <3> QED
      BY <2>2, <3>1, <3>2
  <2>4. ASSUME UNCHANGED tierVars PROVE (TierTypeOK /\ TierInv)'
    BY <2>1, <2>4 DEF tierVars, TierTypeOK, TierInv, UserInv, CachedTierAges, RequestInv, Recent,
                        Aged, Busy
  <2>5. CASE LoginNext
    <3>1. (LoginTypeOK /\ LoginInv /\ SessionBehindEveryToken)' /\ UNCHANGED tierVars
      BY <2>1, <2>5, LoginKeeps
    <3> QED
      BY <2>4, <3>1, TypeParts DEF AccountsIndInv
  <2>6. CASE UNCHANGED accountsVars
    BY <2>2, <2>4, <2>6 DEF accountsVars
  <2> QED
    BY <2>3, <2>5, <2>6
<1> QED
  BY <1>1, <1>2, PTL DEF AccountsSpec

\* The variables keep their types: the key in Redis has a value as long as it has a lifetime.
THEOREM AccountsTypes == AccountsSpec => []AccountsTypeOK
  BY AccountsInvariant, PTL DEF AccountsIndInv

\* No discount is given for a tier that was neither the user's nor made up within the last
\* five minutes and the time of two requests.
THEOREM TiersAreRecent == AccountsSpec => []TierIsRecent
<1>1. AccountsIndInv => TierIsRecent
  <2> SUFFICES ASSUME AccountsIndInv, NEW r \in Requests, asking[r] = "answered"
               PROVE  Recent(found[r], TTL + 2)
    BY DEF TierIsRecent
  <2>1. found[r] \in Tiers /\ Recent(found[r], Aged(r, TTL + 1))
    BY DEF AccountsIndInv, TierInv, RequestInv
  <2> QED
    BY <2>1, AccountsAssumption DEF AccountsIndInv, AccountsTypeOK, Recent, Old, Aged
<1> QED
  BY <1>1, AccountsInvariant, PTL

\* There is a session behind every session token, or a known reason why not.
THEOREM SessionsBehindTokens == AccountsSpec => []SessionBehindEveryToken
  BY AccountsInvariant, PTL DEF AccountsIndInv
================================================================================
