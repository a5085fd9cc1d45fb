--------------------------- MODULE OrderLifecycle ---------------------------
(***************************************************************************)
(* What the canonical order manager promises of an order, without money,   *)
(* risk or markets: an order is placed for a claim (account, deployment,   *)
(* proposal and idempotency key) no other working order holds, executes    *)
(* once at most and never beyond its size, and once filled or cancelled it *)
(* never changes again.  PaperTrading implements this module.              *)
(***************************************************************************)
EXTENDS Integers

CONSTANTS Orders,   \* the identities of orders
          Claims,   \* what an order may be placed for
          Sizes     \* the quantities it may be placed with

VARIABLE work       \* order -> [phase, claim, size, executed], placed orders only

Phases == {"live", "resting", "filled", "cancelled"}

Working(o) == work[o].phase \in {"live", "resting"}

Init == work = [o \in {} |-> 0]

Place(o, c, n) ==
  /\ o \in Orders \ DOMAIN work
  /\ \A p \in DOMAIN work : work[p].claim = c => ~Working(p)
  /\ work' = [p \in DOMAIN work \cup {o} |->
               IF p = o
               THEN [phase |-> "live", claim |-> c, size |-> n, executed |-> 0]
               ELSE work[p]]

\* The order met no eligible price: it stays in the book unexecuted.
Rest(o) ==
  /\ work[o].phase = "live"
  /\ work' = [work EXCEPT ![o].phase = "resting"]

\* The one execution of an order, whole or partial.
Execute(o, n) ==
  /\ work[o].phase = "live"
  /\ work' = [work EXCEPT
       ![o].phase = IF n = work[o].size THEN "filled" ELSE "resting",
       ![o].executed = n]

Withdraw(o) ==
  /\ Working(o)
  /\ work' = [work EXCEPT ![o].phase = "cancelled"]

Next ==
  \/ \E o \in Orders, c \in Claims, n \in Sizes : Place(o, c, n)
  \/ \E o \in DOMAIN work :
       \/ Rest(o)
       \/ \E n \in 1..work[o].size : Execute(o, n)
       \/ Withdraw(o)

Spec == Init /\ [][Next]_work

=============================================================================
