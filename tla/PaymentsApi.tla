------------------------------ MODULE PaymentsApi ------------------------------
(***************************************************************************)
(* payments-api (environment/services/payments-api/main.go) and the        *)
(* process_payment function of the payments database (environment/         *)
(* init.sql).  A request takes a connection from the pgx pool, runs one    *)
(* statement that sleeps and then inserts a row, and answers.  The         *)
(* request's context ends 15 s after it began, or when the caller hangs    *)
(* up; the statement on the database side is not tied to either, so a row  *)
(* may be committed for a request that has already been answered with an   *)
(* error.                                                                  *)
(***************************************************************************)
EXTENDS Naturals, FiniteSets

CONSTANTS
  Checkouts,   \* checkout ids, one request to payments-api for each
  MaxConns     \* cfg.MaxConns of the pool, 30 in the code

ASSUME MaxConnsAssumption == MaxConns \in Nat \ {0}

VARIABLES
  payReq,      \* phase of the request made for a checkout
  running,     \* statements running in the database for a checkout
  rows         \* rows of table payments with that checkout_id

payVars == <<payReq, running, rows>>

PayPhases == {"idle", "sent", "acquire", "query", "committed", "ok", "err"}

PayTypeOK ==
  /\ payReq \in [Checkouts -> PayPhases]
  /\ running \in [Checkouts -> Nat]
  /\ rows \in [Checkouts -> Nat]

PayInit ==
  /\ payReq = [c \in Checkouts |-> "idle"]
  /\ running = [c \in Checkouts |-> 0]
  /\ rows = [c \in Checkouts |-> 0]

\* Requests that hold a connection of the pool.
Holders == {c \in Checkouts : payReq[c] \in {"query", "committed"}}

--------------------------------------------------------------------------------

(* Mutants: plausible faults of this code; each one breaks a property below. *)

\* On an error the handler runs the statement again.
MutFailRetries(c) ==
  /\ payReq[c] \in {"acquire", "query", "committed"}
  /\ payReq' = [payReq EXCEPT ![c] = "acquire"]
  /\ UNCHANGED <<running, rows>>

\* The handler answers without waiting for the result of the statement.
MutAnswerEarly(c) ==
  /\ payReq[c] \in {"query", "committed"}
  /\ payReq' = [payReq EXCEPT ![c] = "ok"]
  /\ UNCHANGED <<running, rows>>

\* The deadline starts only once a connection was taken.
MutFailNotWaiting(c) ==
  /\ payReq[c] \in {"query", "committed"}
  /\ payReq' = [payReq EXCEPT ![c] = "err"]
  /\ UNCHANGED <<running, rows>>

--------------------------------------------------------------------------------

\* The caller puts POST /payments/process on the wire.  The request may never
\* arrive: nothing forces Receive.
Send(c) ==
  /\ payReq[c] = "idle"
  /\ payReq' = [payReq EXCEPT ![c] = "sent"]
  /\ UNCHANGED <<running, rows>>

\* processPaymentHandler starts and QueryRow waits for a connection.
Receive(c) ==
  /\ payReq[c] = "sent"
  /\ payReq' = [payReq EXCEPT ![c] = "acquire"]
  /\ UNCHANGED <<running, rows>>

\* A connection is free: the statement is sent on it.
Acquire(c) ==
  /\ payReq[c] = "acquire"
  /\ Cardinality(Holders) < MaxConns
  /\ payReq' = [payReq EXCEPT ![c] = "query"]
  /\ running' = [running EXCEPT ![c] = @ + 1]
  /\ UNCHANGED rows

\* process_payment returns and its transaction commits.  A handler that has
\* given up in the meantime does not see it.
Commit(c) ==
  /\ running[c] > 0
  /\ running' = [running EXCEPT ![c] = @ - 1]
  /\ rows' = [rows EXCEPT ![c] = @ + 1]
  /\ payReq' = [payReq EXCEPT ![c] = IF @ = "query" THEN "committed" ELSE @]

\* The statement ends without a row: cancelled, connection dropped before the
\* commit, database restarted.
Abort(c) ==
  /\ running[c] > 0
  /\ running' = [running EXCEPT ![c] = @ - 1]
  /\ payReq' = [payReq EXCEPT ![c] = IF @ = "query" THEN "err" ELSE @]
  /\ UNCHANGED rows

\* Scan succeeded: 200 with the payment id.
Answer(c) ==
  /\ payReq[c] = "committed"
  /\ payReq' = [payReq EXCEPT ![c] = "ok"]
  /\ UNCHANGED <<running, rows>>

\* QueryRow returns an error: the 15 s deadline passed while waiting for a
\* connection or for the result, the caller went away, the pool could not
\* connect, or the connection broke, even after the commit.  The answer is 503,
\* 504 or 500 and the statement, if one was sent, is left to the database.
Fail(c) ==
  /\ payReq[c] \in {"acquire", "query", "committed"}
  /\ payReq' = [payReq EXCEPT ![c] = "err"]
  /\ UNCHANGED <<running, rows>>

PayServerStep(c) == Receive(c) \/ Acquire(c) \/ Commit(c) \/ Abort(c) \/ Answer(c) \/ Fail(c)

PayNext == \E c \in Checkouts : Send(c) \/ PayServerStep(c)

\* Only the handler's own progress is fair: the runtime schedules it and its
\* context carries a timer.  Neither the network nor the database is.
PayFairness == \A c \in Checkouts : WF_payVars(Answer(c) \/ Fail(c))

PaySpec == PayInit /\ [][PayNext]_payVars /\ PayFairness

--------------------------------------------------------------------------------

\* A checkout is charged at most once in the payments table, counting the
\* statement that may still commit: neither payments-api nor its caller
\* repeats process_payment, and table payments has no unique key that would
\* catch it if one did.
AtMostOneRow == \A c \in Checkouts : rows[c] + running[c] <= 1

\* An answer of 200 is given only for a row that is committed.
OkMeansCommitted == \A c \in Checkouts : payReq[c] = "ok" => rows[c] >= 1

\* A row appears only while its handler is waiting for the statement, or after
\* it gave up on it; never after the 200 and never before a connection was
\* taken.
CommitInDoubtOnly ==
  [][\A c \in Checkouts : rows'[c] > rows[c] => payReq[c] \in {"query", "err"}]_payVars

\* Every request that reached the handler is answered, also when all
\* connections are held by statements that never return: the deadline covers
\* the wait for a connection.
EveryRequestAnswered ==
  \A c \in Checkouts : payReq[c] = "acquire" ~> payReq[c] \in {"ok", "err"}

\* The rows and statements of a checkout, by the phase of its request.
PayInv ==
  \A c \in Checkouts :
    /\ payReq[c] \in {"idle", "sent", "acquire"} => rows[c] = 0 /\ running[c] = 0
    /\ payReq[c] = "query" => rows[c] = 0 /\ running[c] = 1
    /\ payReq[c] \in {"committed", "ok"} => rows[c] = 1 /\ running[c] = 0
    /\ payReq[c] = "err" => rows[c] + running[c] <= 1

\* The strengthening of AtMostOneRow and OkMeansCommitted that every step of
\* payments-api and of its database preserves.
PayIndInv == PayTypeOK /\ PayInv
================================================================================
