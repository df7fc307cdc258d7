---------------------------------- MODULE Cart ----------------------------------
(***************************************************************************)
(* cart-service (environment/services/cart-service/main.go): one cart, the *)
(* adds that read it from Redis, change it and write it back whole, and    *)
(* the background calls they leave behind.  Carts have keys of their own   *)
(* and share nothing but the pool of background calls.  What the products  *)
(* cost changes nothing else and is left out.                              *)
(***************************************************************************)
EXTENDS Naturals, FiniteSets

CONSTANTS
  Adds,          \* the requests to add a product to the cart
  Products,
  ProductOf,     \* the product each of them adds
  PoolSize       \* how many background calls there may be at once

ASSUME CartAssumption ==
  /\ IsFiniteSet(Adds) /\ IsFiniteSet(Products)
  /\ ProductOf \in [Adds -> Products]
  /\ PoolSize \in Nat \ {0}

VARIABLES
  stored,    \* the value of the key, or Empty when it does not exist
  pc,        \* where the handler of each add is
  copy,      \* the cart it changes
  left,      \* the adds whose client has given up
  pool,      \* how many slots of backgroundCallSem are taken
  written,   \* the adds written since the key was last missing
  undisturbed  \* whether the adds have come one after the other, and Redis has
               \* done all it was told and kept the key

cartVars == <<stored, pc, copy, left, pool, written, undisturbed>>

\* A cart is the quantity of every product in it; a key that does not exist is read as
\* the empty cart.
Empty == [p \in Products |-> 0]

Places == {"inject", "catalog", "get", "set", "pricing", "session", "reply", "done", "refused"}

CartValue == [Products -> Nat]

CartTypeOK ==
  /\ stored \in CartValue
  /\ pc \in [Adds -> Places]
  /\ copy \in [Adds -> CartValue]
  /\ left \subseteq Adds
  /\ pool \in 0..PoolSize
  /\ written \subseteq Adds
  /\ undisturbed \in BOOLEAN

CartInit ==
  /\ stored = Empty
  /\ pc = [a \in Adds |-> "inject"]
  /\ copy = [a \in Adds |-> Empty]
  /\ left = {}
  /\ pool = 0
  /\ written = {}
  /\ undisturbed = TRUE

--------------------------------------------------------------------------------

(* Mutants: plausible faults of this code; each one breaks a property below.   *)

\* A product that is in the cart already is put in again, as one.
MutWithoutMerge(cart, p) == [cart EXCEPT ![p] = 1]

\* A product that is in the cart already is merged and put in again.
MutWithBoth(cart, p) == [cart EXCEPT ![p] = IF @ = 0 THEN 1 ELSE @ + 2]

\* The pool has no limit.
MutFireAndForgetAlways == pool' = pool + 1

\* The slot is not given back.
MutEndCallKeepsSlot ==
  /\ pool > 0
  /\ UNCHANGED cartVars

\* The handler returns when its client has gone.
MutAskCatalogForClient(a) ==
  /\ pc[a] = "catalog" /\ a \notin left
  /\ pc' = [pc EXCEPT ![a] = "get"]
  /\ UNCHANGED <<stored, copy, left, pool, written, undisturbed>>

--------------------------------------------------------------------------------

\* The cart with one more of p, merged into the item that is there.
With(cart, p) == [cart EXCEPT ![p] = @ + 1]

Goto(a, place) == pc' = [pc EXCEPT ![a] = place]

\* applyFaultInjection lets the request pass, or answers it with 500.
Inject(a, fails) ==
  /\ pc[a] = "inject"
  /\ Goto(a, IF fails THEN "refused" ELSE "catalog")
  /\ left' = IF fails THEN left \ {a} ELSE left
  /\ UNCHANGED <<stored, copy, pool, written, undisturbed>>

\* catalog-service answers, with a product or an error, or the call fails: the item is made
\* either way.
AskCatalog(a) ==
  /\ pc[a] = "catalog"
  /\ Goto(a, "get")
  /\ UNCHANGED <<stored, copy, left, pool, written, undisturbed>>

\* Between the GET and the SET of an add.
Changing(a) == pc[a] = "set"

\* GET cart:user; a GET that fails is taken for a cart that does not exist.
ReadCart(a, fails) ==
  /\ pc[a] = "get"
  /\ copy' = [copy EXCEPT ![a] = IF fails THEN Empty ELSE stored]
  /\ undisturbed' = (undisturbed /\ ~fails /\ ~\E b \in Adds : Changing(b))
  /\ Goto(a, "set")
  /\ UNCHANGED <<stored, left, pool, written>>

\* The item is added to the copy, and SET writes it, or fails, which nobody notices.  One
\* that fails, as its answer is late, may have been done by Redis all the same.
WriteCart(a, fails) ==
  /\ Changing(a)
  /\ \/ stored' = With(copy[a], ProductOf[a]) /\ written' = written \union {a}
     \/ fails /\ UNCHANGED <<stored, written>>
  /\ undisturbed' = (undisturbed /\ ~fails)
  /\ copy' = [copy EXCEPT ![a] = Empty]
  /\ Goto(a, "pricing")
  /\ UNCHANGED <<left, pool>>

\* fireAndForget: a background call takes a slot, or is skipped when there is none.
FireAndForget == pool' = IF pool < PoolSize THEN pool + 1 ELSE pool

CallPricing(a) ==
  /\ pc[a] = "pricing"
  /\ FireAndForget
  /\ Goto(a, "session")
  /\ UNCHANGED <<stored, copy, left, written, undisturbed>>

CallSession(a) ==
  /\ pc[a] = "session"
  /\ FireAndForget
  /\ Goto(a, "reply")
  /\ UNCHANGED <<stored, copy, left, written, undisturbed>>

\* A background call is answered or times out; its slot is given back.
EndCall ==
  /\ pool > 0
  /\ pool' = pool - 1
  /\ UNCHANGED <<stored, pc, copy, left, written, undisturbed>>

ReplyAdd(a) ==
  /\ pc[a] = "reply"
  /\ Goto(a, "done")
  /\ left' = left \ {a}
  /\ UNCHANGED <<stored, copy, pool, written, undisturbed>>

\* proxyRequest: api-gateway and frontend wait 5 s, as long as cart-service may wait for
\* catalog-service alone.  The handler goes on without a client: its request to
\* catalog-service is cancelled, its Redis commands and background calls are not.
ClientGivesUp(a) ==
  /\ pc[a] \notin {"done", "refused"}
  /\ left' = left \union {a}
  /\ UNCHANGED <<stored, pc, copy, pool, written, undisturbed>>

\* The key expires an hour after it was last written, or Redis loses it.
Expire ==
  /\ stored # Empty
  /\ stored' = Empty
  /\ written' = {}
  /\ undisturbed' = (undisturbed /\ ~\E a \in Adds : Changing(a))
  /\ UNCHANGED <<pc, copy, left, pool>>

CartHandler(a) ==
  \/ Inject(a, FALSE) \/ AskCatalog(a)
  \/ \E fails \in BOOLEAN : ReadCart(a, fails) \/ WriteCart(a, fails)
  \/ CallPricing(a) \/ CallSession(a) \/ ReplyAdd(a)

CartNext ==
  \/ \E a \in Adds : CartHandler(a) \/ Inject(a, TRUE) \/ ClientGivesUp(a)
  \/ EndCall
  \/ Expire

CartSpec == CartInit /\ [][CartNext]_cartVars

\* A handler goes on (its calls and commands have timeouts), and a background call ends
\* when the timeout of the client, 5 s, is over.
CartFairness ==
  /\ \A a \in Adds : WF_cartVars(CartHandler(a))
  /\ WF_cartVars(EndCall)

FairCartSpec == CartSpec /\ CartFairness

--------------------------------------------------------------------------------

Adding(S, p) == {a \in S : ProductOf[a] = p}

\* The adds that have come to their SET.
Past == {a \in Adds : pc[a] \in {"pricing", "session", "reply", "done"}}

\* However adds race, and whatever fails or expires, none is counted twice
\* (addToCartHandler's merge).
NothingCountedTwice == \A p \in Products : stored[p] =< Cardinality(Adding(Past, p))

\* An add is lost only if another one read the cart before it was written, if a Redis
\* command failed, or if the key expired under it: otherwise the cart holds every add.
LostOnlyToARace ==
  undisturbed => \A p \in Products : stored[p] = Cardinality(Adding(written, p))

\* The pool does not stay exhausted: slots are given back (fireAndForget's defer).
PoolRecovers == []<>(pool < PoolSize)

\* Every add runs to its end, refused by an injected fault or answered, even when its client
\* has given up and was told 504: nothing in the handler waits for its client
\* (addToCartHandler, whose Redis commands do not end with the request).
EveryAddEnds == <>(\A a \in Adds : pc[a] \in {"done", "refused"})
================================================================================
