------------------------------ MODULE OrderLedger ------------------------------
(***************************************************************************)
(* What the checkout flow promises, without the services that provide it:  *)
(* each checkout is open until it is paid or blocked, never both; only a   *)
(* paid one is ordered; and the buyer is told one thing once, "paid" or    *)
(* "blocked" only when it is so.  Told nothing definite, the buyer cannot  *)
(* conclude anything: the checkout may still be paid and ordered later.    *)
(***************************************************************************)
CONSTANT Checkouts

VARIABLES
  state,   \* of each checkout: "open", "paid", "ordered", "blocked"
  told     \* what its buyer heard: "nothing", "paid", "blocked", "unknown"

ledgerVars == <<state, told>>

LedgerInit ==
  /\ state = [c \in Checkouts |-> "open"]
  /\ told = [c \in Checkouts |-> "nothing"]

Move(c, from, to) ==
  /\ state[c] = from
  /\ state' = [state EXCEPT ![c] = to]
  /\ UNCHANGED told

Tell(c, what) ==
  /\ told[c] = "nothing"
  /\ told' = [told EXCEPT ![c] = what]
  /\ UNCHANGED state

Pay(c) == Move(c, "open", "paid")
Order(c) == Move(c, "paid", "ordered")
Block(c) == Move(c, "open", "blocked")

TellPaid(c) == state[c] \in {"paid", "ordered"} /\ Tell(c, "paid")
TellBlocked(c) == state[c] = "blocked" /\ Tell(c, "blocked")
TellUnknown(c) == Tell(c, "unknown")

LedgerNext ==
  \E c \in Checkouts :
    \/ Pay(c) \/ Order(c) \/ Block(c)
    \/ TellPaid(c) \/ TellBlocked(c) \/ TellUnknown(c)

LedgerSpec == LedgerInit /\ [][LedgerNext]_ledgerVars
================================================================================
