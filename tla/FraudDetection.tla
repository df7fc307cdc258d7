---------------------------- MODULE FraudDetection ----------------------------
(***************************************************************************)
(* The rate limit of fraud-detection, step by step: fraudCheckHandler      *)
(* increments fraud:rate:<user> in Redis, and the check that created the   *)
(* key sets its expiry with a second command                               *)
(* (environment/services/fraud-detection/main.go).  Checks of a user run   *)
(* at the same time, in several pods, any of which can stop between the    *)
(* two commands; errors of Redis are not looked at.  Checks that return    *)
(* from applyFaultInjection touch nothing and are left out.                *)
(***************************************************************************)
EXTENDS Naturals

CONSTANTS
  Checks,      \* checks in progress at the same time
  Users,
  RateLimit,   \* 20 in the code
  MaxCount     \* bound: checks counted for a user before its key expires

ASSUME FraudDetectionAssumption ==
  /\ RateLimit \in Nat
  /\ MaxCount \in Nat

VARIABLES
  count,       \* the key of a user; 0 when there is none
  ttl,         \* users whose key has an expiry
  phase,       \* of a check
  user,        \* the user it is for
  highRate,    \* its verdict; FALSE, as at the start, when it is over
  abandoned,   \* history: users whose key lost its EXPIRE
  passed       \* history: checks of a user the count let pass since its key was made

keyVars == <<count, ttl, passed>>
vars == <<keyVars, phase, user, highRate, abandoned>>

Phases == {"idle", "incr", "expire", "answer"}

FraudDetectionTypeOK ==
  /\ count \in [Users -> 0..MaxCount]
  /\ ttl \subseteq {u \in Users : count[u] > 0}
  /\ phase \in [Checks -> Phases]
  /\ user \in [Checks -> Users]
  /\ highRate \in [Checks -> BOOLEAN]
  /\ abandoned \subseteq Users
  /\ passed \in [Users -> Nat]

FraudDetectionInit ==
  /\ count = [u \in Users |-> 0]
  /\ ttl = {}
  /\ phase = [k \in Checks |-> "idle"]
  /\ user \in [Checks -> Users]
  /\ highRate = [k \in Checks |-> FALSE]
  /\ abandoned = {}
  /\ passed = [u \in Users |-> 0]

Goto(k, from, to) ==
  /\ phase[k] = from
  /\ phase' = [phase EXCEPT ![k] = to]

--------------------------------------------------------------------------------

(* Mutants: plausible faults of this code; each one breaks a property below. *)

\* The expiry is set by the check that exceeds the limit, not by the first.
MutExpireAtLimit(k) ==
  LET u == user[k]
  IN  /\ phase[k] = "incr"
      /\ count[u] < MaxCount
      /\ count' = [count EXCEPT ![u] = @ + 1]
      /\ highRate' = [highRate EXCEPT ![k] = count'[u] > RateLimit]
      /\ phase' = [phase EXCEPT ![k] = IF count'[u] = RateLimit THEN "expire" ELSE "answer"]
      /\ UNCHANGED <<ttl, user, abandoned, passed>>

\* The check writes 1 where it should increment.
MutSetInsteadOfIncr(k) ==
  LET u == user[k]
  IN  /\ Goto(k, "incr", "expire")
      /\ count' = [count EXCEPT ![u] = 1]
      /\ UNCHANGED <<ttl, user, highRate, abandoned, passed>>

\* INCR made of a GET and a SET: another check's SET may come between them.
MutReadThenWrite(k) ==
  LET u == user[k]
  IN  /\ phase[k] = "incr"
      /\ count[u] < MaxCount
      /\ \E n \in 1..count[u] + 1 :
           /\ count' = [count EXCEPT ![u] = n]
           /\ highRate' = [highRate EXCEPT ![k] = n > RateLimit]
           /\ passed' = [passed EXCEPT ![u] = IF n > RateLimit THEN @ ELSE @ + 1]
           /\ phase' = [phase EXCEPT ![k] = IF n = 1 THEN "expire" ELSE "answer"]
      /\ UNCHANGED <<ttl, user, abandoned>>

--------------------------------------------------------------------------------

Begin(k) ==
  /\ Goto(k, "idle", "incr")
  /\ \E u \in Users : user' = [user EXCEPT ![k] = u]
  /\ UNCHANGED <<keyVars, highRate, abandoned>>

\* INCR answers with the new count, from which the verdict follows.
Incr(k) ==
  LET u == user[k]
  IN  /\ phase[k] = "incr"
      /\ count[u] < MaxCount
      /\ count' = [count EXCEPT ![u] = @ + 1]
      /\ highRate' = [highRate EXCEPT ![k] = count'[u] > RateLimit]
      /\ passed' = [passed EXCEPT ![u] = IF count'[u] > RateLimit THEN @ ELSE @ + 1]
      /\ phase' = [phase EXCEPT ![k] = IF count'[u] = 1 THEN "expire" ELSE "answer"]
      /\ UNCHANGED <<ttl, user, abandoned>>

\* INCR is counted but its answer is lost, and the client sends it again.  If it
\* created the key, no check will be told so.
IncrRepeats(k) ==
  LET u == user[k]
  IN  /\ phase[k] = "incr"
      /\ count[u] < MaxCount
      /\ count' = [count EXCEPT ![u] = @ + 1]
      /\ abandoned' = IF count[u] = 0 THEN abandoned \cup {u} ELSE abandoned
      /\ UNCHANGED <<ttl, phase, user, highRate, passed>>

\* INCR ends in an error.
IncrFails(k) ==
  /\ Goto(k, "incr", "answer")
  /\ UNCHANGED <<keyVars, user, highRate, abandoned>>

\* EXPIRE, which does nothing for a key that does not exist.
Expire(k) ==
  /\ Goto(k, "expire", "answer")
  /\ ttl' = ttl \cup ({user[k]} \cap {u \in Users : count[u] > 0})
  /\ UNCHANGED <<count, user, highRate, abandoned, passed>>

\* EXPIRE fails; its result is not looked at.
ExpireFails(k) ==
  /\ Goto(k, "expire", "answer")
  /\ abandoned' = abandoned \cup {user[k]}
  /\ UNCHANGED <<keyVars, user, highRate>>

\* The handler is over, and its verdict with it.
Done(k) == highRate' = [highRate EXCEPT ![k] = FALSE]

Answer(k) ==
  /\ Goto(k, "answer", "idle")
  /\ Done(k)
  /\ UNCHANGED <<keyVars, user, abandoned>>

\* The pod that serves the check stops.
Dies(k) ==
  /\ phase[k] # "idle"
  /\ phase' = [phase EXCEPT ![k] = "idle"]
  /\ abandoned' = IF phase[k] = "expire" THEN abandoned \cup {user[k]} ELSE abandoned
  /\ Done(k)
  /\ UNCHANGED <<keyVars, user>>

\* The key of a user is gone, and its window with it.
KeyEnds(u) ==
  /\ count' = [count EXCEPT ![u] = 0]
  /\ passed' = [passed EXCEPT ![u] = 0]
  /\ ttl' = ttl \ {u}
  /\ UNCHANGED <<phase, user, highRate, abandoned>>

\* Redis removes the key when its 60 s are over.
KeyExpires(u) == u \in ttl /\ KeyEnds(u)

\* Redis may remove any key when its memory is full (allkeys-lru).
KeyEvicted(u) == count[u] > 0 /\ KeyEnds(u)

CheckStep(k) ==
  \/ Begin(k) \/ Incr(k) \/ IncrRepeats(k) \/ IncrFails(k)
  \/ Expire(k) \/ ExpireFails(k) \/ Answer(k) \/ Dies(k)

FraudDetectionNext ==
  \/ \E k \in Checks : CheckStep(k)
  \/ \E u \in Users : KeyExpires(u) \/ KeyEvicted(u)

FraudDetectionSpec == FraudDetectionInit /\ [][FraudDetectionNext]_vars

\* Redis keeps time, and a handler that is about to send EXPIRE gets an answer, an
\* error, or dies.
FraudDetectionFairness ==
  /\ \A u \in Users : WF_vars(KeyExpires(u))
  /\ \A k \in Checks : WF_vars(Expire(k) \/ ExpireFails(k))

FraudDetectionFairSpec == FraudDetectionSpec /\ FraudDetectionFairness

--------------------------------------------------------------------------------

\* A key without an expiry has a check that is about to set it, or lost it to an
\* error or a restart between INCR and EXPIRE: however the checks interleave, the
\* user is not counted without end for any other reason.
EveryKeyWillExpire ==
  \A u \in Users :
    count[u] > 0 /\ u \notin ttl /\ u \notin abandoned =>
      \E k \in Checks : phase[k] = "expire" /\ user[k] = u

\* A user who is over the limit is let through again in the end, unless the
\* EXPIRE was lost: then the key, and the answer "high", stays.
BlockedForAWindow ==
  \A u \in Users : count[u] > RateLimit ~> (count[u] = 0 \/ u \in abandoned)

\* The limit holds however the checks of a user interleave, in whatever pods, with each
\* other and with the end of the key: while a key lives, the count lets RateLimit checks
\* pass and no more (fraudCheckHandler's INCR counts and answers in one command).
AtMostRateLimitPass == \A u \in Users : passed[u] =< RateLimit

\* The window, with the count as it is seen from outside.
Window == INSTANCE FraudWindow
  WITH rate <- [u \in Users |-> IF count[u] > RateLimit THEN RateLimit + 1 ELSE count[u]]

\* The verdicts are those the window allows: a check comes out "high" in a step that
\* counts it above the limit, and one the count lets pass is counted below it.
VerdictFromCount ==
  \A u \in Users :
    /\ (\E k \in Checks : user[k] = u /\ highRate'[k] /\ ~highRate[k]) => Window!CheckHigh(u)
    /\ passed'[u] > passed[u] => Window!CheckLow(u)

\* fraud-detection implements the window its callers are modelled with, in what it counts
\* and in what it answers.
ImplementsWindow == Window!FraudSpec /\ [][VerdictFromCount]_vars
================================================================================
