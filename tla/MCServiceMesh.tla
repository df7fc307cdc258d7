----------------------------- MODULE MCServiceMesh -----------------------------
EXTENDS ServiceMesh

\* Every route that nothing but a client, a loop or checkout starts.
Inner == {step.to : step \in {t \in UNION {Range(Handler[r].steps) : r \in DOMAIN Handler} :
                                t.do \in {"call", "relay", "spawn"}}}
MCRequests == (DOMAIN Handler \ Inner) \union {"gateway.profile", "pricing.calculate", "fraud.check"}

\* One service or store, or all but those a page cannot do without.
MCFaultSets == {{s} : s \in (DOMAIN Service \ {"frontend"}) \union Stores}
  \union {(DOMAIN Service \union Stores) \ {"frontend", "gateway", s} : s \in {"catalog", "orders", "profile"}}

Slow(n) == [lat |-> n, errors |-> FALSE, up |-> TRUE]
MCFaults == {Slow(1), Slow(2), Slow(7), [Healthy EXCEPT !.errors = TRUE], [Healthy EXCEPT !.up = FALSE]}
================================================================================
