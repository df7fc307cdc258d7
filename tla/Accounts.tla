-------------------------------- MODULE Accounts --------------------------------
(***************************************************************************)
(* What auth-, session-, user- and loyalty-service know of one user: the   *)
(* session a login opens (an hour in Redis) and the tier, which user-      *)
(* service holds in memory and loyalty-service keeps in Redis for five     *)
(* minutes (environment/services/<service>/main.go).                       *)
(*                                                                         *)
(* Time passes by the minute.  A request takes less, together with the SET *)
(* it may leave under way: it sees one minute end at most.                 *)
(***************************************************************************)
EXTENDS Integers

CONSTANTS
  Logins,    \* the logins of the user
  Requests,  \* the requests for the tier of the user
  Tiers,
  Bronze,    \* the tier of a user nothing is known of
  Nobody,    \* no tier
  TTL        \* how many minutes loyalty-service keeps a tier

ASSUME AccountsAssumption == Bronze \in Tiers /\ Nobody \notin Tiers /\ TTL \in Nat \ {0}

VARIABLES
  tier,         \* the tier of the user in user-service
  userUp,       \* whether user-service answers with users
  cachedTier,   \* the tier in the Redis of loyalty-service, or Nobody
  expires,      \* how many minutes may still end before the key expires
  asking,       \* where the handler of each request for the tier is
  found,        \* the tier it found
  late,         \* the tier in a SET that failed but may still be done, or Nobody
  straddles,    \* the requests that have seen a minute end
  sinceTier,    \* how many minutes ago each tier was the user's
  sinceDown,    \* how many minutes ago user-service last failed
  login,        \* where the login handler of auth-service is
  create,       \* where the session handler it called is
  token,        \* what the client got: its session, the fallback token or nothing
  sessions,     \* the sessions in Redis
  check,        \* what the last validation of a login's session said
  excuses       \* the sessions whose SET failed or whose key is gone

tierVars == <<tier, userUp, cachedTier, expires, asking, found, late, straddles, sinceTier, sinceDown>>
loginVars == <<login, create, token, sessions, check, excuses>>
accountsVars == <<tierVars, loginVars>>

\* Ages are counted to one more than the oldest that matters.
Old == TTL + 3
Older(age) == IF age = Old THEN age ELSE age + 1

AccountsTypeOK ==
  /\ tier \in Tiers /\ cachedTier \in Tiers \union {Nobody}
  /\ userUp \in BOOLEAN
  /\ expires \in 0..TTL + 1 /\ (expires = 0 <=> cachedTier = Nobody)
  /\ asking \in [Requests -> {"idle", "redis", "user", "store", "answered"}]
  /\ found \in [Requests -> Tiers \union {Nobody}]
  /\ late \in [Requests -> Tiers \union {Nobody}]
  /\ straddles \subseteq Requests
  /\ sinceTier \in [Tiers -> 0..Old] /\ sinceDown \in 0..Old
  /\ login \in [Logins -> {"idle", "session", "user", "done"}]
  /\ create \in [Logins -> {"none", "running", "stored", "late"}]
  /\ token \in [Logins -> {"none", "session", "fallback"}]
  /\ sessions \subseteq Logins /\ excuses \subseteq Logins
  /\ check \in [Logins -> {"none", "valid", "invalid", "failed"}]

TierInit ==
  /\ tier \in Tiers /\ cachedTier = Nobody
  /\ userUp = TRUE
  /\ expires = 0
  /\ asking = [r \in Requests |-> "idle"]
  /\ found = [r \in Requests |-> Nobody]
  /\ late = [r \in Requests |-> Nobody]
  /\ straddles = {}
  /\ sinceTier = [t \in Tiers |-> IF t = tier THEN 0 ELSE Old]
  /\ sinceDown = Old

LoginInit ==
  /\ login = [l \in Logins |-> "idle"]
  /\ create = [l \in Logins |-> "none"]
  /\ token = [l \in Logins |-> "none"]
  /\ sessions = {} /\ excuses = {}
  /\ check = [l \in Logins |-> "none"]

AccountsInit == TierInit /\ LoginInit

--------------------------------------------------------------------------------

(* Mutants: plausible faults of this code; each one breaks a property below.   *)

\* A hit keeps the tier for five minutes more.
MutReadTierRenews(r, fails) ==
  /\ asking[r] = "redis"
  /\ IF fails \/ cachedTier = Nobody
     THEN asking' = [asking EXCEPT ![r] = "user"] /\ UNCHANGED <<found, expires>>
     ELSE asking' = [asking EXCEPT ![r] = "answered"] /\ found' = [found EXCEPT ![r] = cachedTier]
          /\ expires' = TTL + 1
  /\ UNCHANGED <<tier, userUp, cachedTier, late, straddles, sinceTier, sinceDown, loginVars>>

\* The key is written when the tier is not known, too.
MutStoreTierUnset(r, fails) ==
  /\ asking[r] = "store"
  /\ asking' = [asking EXCEPT ![r] = "answered"]
  /\ IF fails THEN UNCHANGED <<cachedTier, expires>>
     ELSE /\ cachedTier' = (IF found[r] = Bronze THEN Nobody ELSE found[r])
          /\ expires' = TTL + 1
  /\ UNCHANGED <<tier, userUp, found, late, straddles, sinceTier, sinceDown, loginVars>>

\* The session is stored in the background, after the answer.
MutSessionAnswersFirst(l) ==
  /\ login[l] = "session" /\ create[l] = "running"
  /\ login' = [login EXCEPT ![l] = "user"]
  /\ token' = [token EXCEPT ![l] = "session"]
  /\ UNCHANGED <<create, sessions, check, excuses, tierVars>>

--------------------------------------------------------------------------------

(* The tier. *)

Go(r, place) == asking' = [asking EXCEPT ![r] = place]

\* SET loyalty:user for five minutes, of which the first has begun.
Put(t) == cachedTier' = t /\ expires' = TTL + 1

Busy(r) == asking[r] # "idle" \/ late[r] # Nobody

\* getTierHandler: the request has passed applyFaultInjection.
AskTier(r) ==
  /\ ~Busy(r)
  /\ Go(r, "redis")
  /\ UNCHANGED <<tier, userUp, cachedTier, expires, found, late, straddles, sinceTier, sinceDown, loginVars>>

\* GET loyalty:user answers the request if there is a value; a GET that fails is a miss.
ReadTier(r, fails) ==
  /\ asking[r] = "redis"
  /\ IF fails \/ cachedTier = Nobody
     THEN Go(r, "user") /\ UNCHANGED found
     ELSE Go(r, "answered") /\ found' = [found EXCEPT ![r] = cachedTier]
  /\ UNCHANGED <<tier, userUp, cachedTier, expires, late, straddles, sinceTier, sinceDown, loginVars>>

\* user-service answers; an error, or no answer, makes the user a bronze one.
FetchTier(r) ==
  /\ asking[r] = "user"
  /\ found' = [found EXCEPT ![r] = IF userUp THEN tier ELSE Bronze]
  /\ Go(r, "store")
  /\ UNCHANGED <<tier, userUp, cachedTier, expires, late, straddles, sinceTier, sinceDown, loginVars>>

\* The tier is stored, made up or not.  An error is not noticed: the SET may be under way
\* still.
StoreTier(r, fails) ==
  /\ asking[r] = "store"
  /\ Go(r, "answered")
  /\ IF fails
     THEN late' = [late EXCEPT ![r] = found[r]] /\ UNCHANGED <<cachedTier, expires>>
     ELSE Put(found[r]) /\ UNCHANGED late
  /\ UNCHANGED <<tier, userUp, found, straddles, sinceTier, sinceDown, loginVars>>

\* A SET that was taken for failed is done after all, or never will be.
LateStore(r, fails) ==
  /\ late[r] # Nobody
  /\ late' = [late EXCEPT ![r] = Nobody]
  /\ IF fails THEN UNCHANGED <<cachedTier, expires>> ELSE Put(late[r])
  /\ UNCHANGED <<tier, userUp, asking, found, sinceTier, sinceDown, loginVars>>
  /\ straddles' = {q \in straddles : Busy(q)'}

\* The answer arrives at discount-service.
UseTier(r) ==
  /\ asking[r] = "answered"
  /\ Go(r, "idle")
  /\ found' = [found EXCEPT ![r] = Nobody]
  /\ UNCHANGED <<tier, userUp, cachedTier, expires, late, sinceTier, sinceDown, loginVars>>
  /\ straddles' = {q \in straddles : Busy(q)'}

\* The key expires between two minutes, or Redis evicts it (allkeys-lru).
LoseTier ==
  /\ cachedTier # Nobody
  /\ cachedTier' = Nobody /\ expires' = 0
  /\ UNCHANGED <<tier, userUp, asking, found, late, straddles, sinceTier, sinceDown, loginVars>>

\* user-service is slow, answers errors or is gone; or it is well again.
UserFails ==
  /\ userUp' = ~userUp
  /\ sinceDown' = 0
  /\ UNCHANGED <<tier, cachedTier, expires, asking, found, late, straddles, sinceTier, loginVars>>

\* initUsers: user-service starts again and draws a tier for every user.
UserRestarts(t) ==
  /\ t # tier
  /\ tier' = t
  /\ sinceTier' = [sinceTier EXCEPT ![t] = 0, ![tier] = 0]
  /\ UNCHANGED <<userUp, cachedTier, expires, asking, found, late, straddles, sinceDown, loginVars>>

\* A minute ends.
Minute ==
  /\ straddles = {}
  /\ straddles' = {r \in Requests : Busy(r)}
  /\ expires' = IF expires > 0 THEN expires - 1 ELSE 0
  /\ cachedTier' = IF expires =< 1 THEN Nobody ELSE cachedTier
  /\ sinceTier' = [t \in Tiers |-> IF t = tier THEN 0 ELSE Older(sinceTier[t])]
  /\ sinceDown' = IF userUp THEN Older(sinceDown) ELSE 0
  /\ UNCHANGED <<tier, userUp, asking, found, late, loginVars>>

--------------------------------------------------------------------------------

(* The session. *)

\* loginHandler sends POST /sessions/create.
LogIn(l) ==
  /\ login[l] = "idle"
  /\ login' = [login EXCEPT ![l] = "session"]
  /\ create' = [create EXCEPT ![l] = "running"]
  /\ UNCHANGED <<token, sessions, check, excuses, tierVars>>

\* createSessionHandler: SET session:id for an hour; an error is not noticed, and the
\* SET may be under way still.  The handler does so when auth-service has given up, too.
CreateSession(l, fails) ==
  /\ create[l] = "running"
  /\ create' = [create EXCEPT ![l] = IF fails THEN "late" ELSE "stored"]
  /\ sessions' = IF fails THEN sessions ELSE sessions \union {l}
  /\ excuses' = IF fails THEN excuses \union {l} ELSE excuses
  /\ UNCHANGED <<login, token, check, tierVars>>

\* A SET that was taken for failed is done after all.
LateSession(l) ==
  /\ create[l] = "late"
  /\ create' = [create EXCEPT ![l] = "stored"]
  /\ sessions' = sessions \union {l}
  /\ UNCHANGED <<login, token, check, excuses, tierVars>>

\* session-service answers with the session.
SessionAnswers(l) ==
  /\ login[l] = "session" /\ create[l] \in {"stored", "late"}
  /\ login' = [login EXCEPT ![l] = "user"]
  /\ token' = [token EXCEPT ![l] = "session"]
  /\ UNCHANGED <<create, sessions, check, excuses, tierVars>>

\* applyFaultInjection of session-service answers an error: a response without a
\* session, for which loginHandler has a token of its own, the same for everybody.
SessionError(l) ==
  /\ login[l] = "session" /\ create[l] = "running"
  /\ create' = [create EXCEPT ![l] = "none"]
  /\ login' = [login EXCEPT ![l] = "user"]
  /\ token' = [token EXCEPT ![l] = "fallback"]
  /\ UNCHANGED <<sessions, check, excuses, tierVars>>

\* No answer of session-service in 5 s: the login fails with 502, and the session, if
\* it is made, is nobody's.
NoSession(l) ==
  /\ login[l] = "session"
  /\ login' = [login EXCEPT ![l] = "done"]
  /\ UNCHANGED <<create, token, sessions, check, excuses, tierVars>>

\* The user is fetched, or made up, and the login has succeeded.
LoggedIn(l) ==
  /\ login[l] = "user"
  /\ login' = [login EXCEPT ![l] = "done"]
  /\ UNCHANGED <<create, token, sessions, check, excuses, tierVars>>

\* GET /auth/validate with the token of a login: what Redis has, if it answers; an error
\* of session-service is passed on as an answer, no answer is 401.
Validate(l, fails) ==
  /\ login[l] = "done" /\ token[l] # "none"
  /\ check' = [check EXCEPT ![l] =
                 IF fails THEN "failed"
                 ELSE IF token[l] = "session" /\ l \in sessions THEN "valid" ELSE "invalid"]
  /\ UNCHANGED <<login, create, token, sessions, excuses, tierVars>>

\* An hour is over, or Redis evicts the key.
SessionExpires(l) ==
  /\ l \in sessions
  /\ sessions' = sessions \ {l}
  /\ excuses' = excuses \union {l}
  /\ UNCHANGED <<login, create, token, check, tierVars>>

TierNext ==
  \/ \E r \in Requests :
       \/ AskTier(r) \/ FetchTier(r) \/ UseTier(r)
       \/ \E fails \in BOOLEAN : ReadTier(r, fails) \/ StoreTier(r, fails) \/ LateStore(r, fails)
  \/ LoseTier
  \/ UserFails
  \/ \E t \in Tiers : UserRestarts(t)
  \/ Minute

LoginNext ==
  \E l \in Logins :
    \/ LogIn(l) \/ LateSession(l) \/ SessionAnswers(l) \/ SessionError(l) \/ NoSession(l) \/ LoggedIn(l) \/ SessionExpires(l)
    \/ \E fails \in BOOLEAN : CreateSession(l, fails) \/ Validate(l, fails)

AccountsSpec == AccountsInit /\ [][TierNext \/ LoginNext]_accountsVars

--------------------------------------------------------------------------------

\* t is no older than age: it was the user's tier, or user-service failed, age minutes
\* ago at most.
Recent(t, age) == sinceTier[t] =< age \/ (t = Bronze /\ sinceDown =< age)

\* However requests, failures, restarts, late writes and the expiry interleave, a discount is
\* never given for a tier that the user has not had for longer than the five minutes of the
\* key and the time of two requests, one that stores and one that reads, or made up from a
\* failure longer ago (getTierHandler, which keeps the tier it made up like any other).
TierIsRecent == \A r \in Requests : asking[r] = "answered" => Recent(found[r], TTL + 2)

\* A session token that auth-service handed out can be looked up by the time it is: it is
\* in Redis, unless Redis failed when it was written or has removed it (loginHandler and
\* createSessionHandler).
SessionBehindEveryToken ==
  \A l \in Logins : token[l] = "session" => l \in sessions \union excuses
================================================================================
