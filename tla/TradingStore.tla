---------------------------- MODULE TradingStore ----------------------------
(***************************************************************************)
(* The paper-trading service on its JSON file, one file operation at a     *)
(* time.  A request first reads the store, decides, and then performs its  *)
(* store operations one after the other; each loads the whole file,        *)
(* changes its copy and writes the whole copy back (write_text: truncate,  *)
(* then write).  Nothing locks the file: the sync routes run on a pool of  *)
(* threads.  A load that finds no whole document raises and ends its       *)
(* request; a crash ends every request and leaves the file as it is.       *)
(*                                                                         *)
(* Money is abstracted to which executions an account reflects.  The       *)
(* risk evaluation and the audit records are operations that change        *)
(* nothing modelled and rewrite the file all the same.                     *)
(***************************************************************************)
EXTENDS OrderStates, Integers, Sequences, FiniteSets, SequencesExt

CONSTANTS
  Threads,      \* request handlers that may run at once
  OrderIds, Keys,
  Kinds,        \* the requests clients make
  MaxRequests,  \* bound on requests
  MaxCrashes    \* bound on crashes

RequestKinds == {"submit", "simulate", "cancel", "broker"}

ASSUME BoundsAssumption ==
  /\ IsFiniteSet(OrderIds)
  /\ Kinds \subseteq RequestKinds
  /\ MaxRequests \in Nat /\ MaxCrashes \in Nat

VARIABLES
  db,        \* the document last written in full
  file,      \* "whole", "empty" (truncated) or "mixed" (two writes overlaid)
  handler,   \* thread -> its stage, the store operations left and its copy
  issued,    \* order ids handed out (they are random and never repeat)
  reserved,  \* the broker's idempotency file: key -> the order that holds it
  requests, crashes

vars == <<db, file, handler, issued, reserved, requests, crashes>>

NoOrders == [o \in {} |-> 0]
NoEntries == [o \in OrderIds |-> 0]

EmptyDb == [orders |-> NoOrders,      \* order id -> [key, status]
            fills |-> NoEntries,      \* executions stored, per order
            ledger |-> NoEntries,     \* ledger entries, per order
            account |-> NoEntries]    \* entries the stored account reflects

Idle == [stage |-> "idle", todo |-> <<>>, copy |-> EmptyDb]

Init ==
  /\ db = EmptyDb
  /\ file = "whole"
  /\ handler = [t \in Threads |-> Idle]
  /\ issued = {}
  /\ reserved = [k \in Keys |-> {}]
  /\ requests = 0 /\ crashes = 0

-----------------------------------------------------------------------------
(* Store operations.                                                       *)

Touch == [op |-> "touch"]                       \* upsert_risk, append_audit
PutOrder(o, row) == [op |-> "order", id |-> o, row |-> row]
PutFill(o) == [op |-> "fill", id |-> o]
PutLedger(o) == [op |-> "ledger", id |-> o]
Rebuild == [op |-> "rebuild"]                   \* read account and ledger
PutAccount(seen) == [op |-> "account", seen |-> seen]

\* What an operation makes of the document it loaded.
Apply(act, d) ==
  CASE act.op = "order" ->
         [d EXCEPT !.orders = [o \in DOMAIN d.orders \cup {act.id} |->
                                IF o = act.id THEN act.row ELSE d.orders[o]]]
    [] act.op = "fill" -> [d EXCEPT !.fills[act.id] = @ + 1]
    [] act.op = "ledger" -> [d EXCEPT !.ledger[act.id] = @ + 1]
    [] act.op = "account" -> [d EXCEPT !.account = act.seen]
    [] OTHER -> d

\* A request's plan: what it writes, in order.
Plan(t, plan) ==
  handler' = [handler EXCEPT ![t] =
    [stage |-> "load", todo |-> plan, copy |-> EmptyDb]]

-----------------------------------------------------------------------------
(* Requests: the reads they start with and the plan they decide on.        *)

Begin(t, kind) ==
  /\ kind \in Kinds
  /\ handler[t].stage = "idle"
  /\ file = "whole"
  /\ requests < MaxRequests
  /\ requests' = requests + 1
  /\ UNCHANGED <<db, file, crashes>>

\* A working order holds the key.
Held(k) ==
  \E o \in DOMAIN db.orders : Pending(db.orders[o].status) /\ db.orders[o].key = k

\* submit_intent: a duplicate is written back as it was read; a refused intent
\* writes its evaluation and audits only.
Submit(t, k) ==
  /\ Begin(t, "submit")
  /\ \/ \E o \in DOMAIN db.orders :
          /\ Pending(db.orders[o].status) /\ db.orders[o].key = k
          /\ Plan(t, <<Touch, Touch, Touch, PutOrder(o, db.orders[o])>>)
          /\ UNCHANGED issued
     \/ /\ ~Held(k)
        /\ \/ Plan(t, <<Touch, Touch, Touch>>) /\ UNCHANGED issued
           \/ \E o \in OrderIds \ issued :
                /\ Plan(t, <<Touch, Touch, Touch,
                             PutOrder(o, [key |-> k, status |-> "APPROVED"])>>)
                /\ issued' = issued \cup {o}
  /\ UNCHANGED reserved

Become(o, s) == PutOrder(o, [db.orders[o] EXCEPT !.status = s])

\* Variants of SimulationPlans: the fill before the order, the ledger before the
\* fill, no rebuilt account.
FillBeforeOrder(o) ==
  {<<Become(o, "ACKNOWLEDGED"), Touch>>,
   <<PutFill(o), Become(o, "FILLED"), Touch, PutLedger(o), Rebuild>>}
LedgerBeforeFill(o) ==
  {<<Become(o, "FILLED"), PutLedger(o), Rebuild, PutFill(o), Touch>>}
NoRebuild(o) ==
  {<<Become(o, "FILLED"), PutFill(o), Touch, PutLedger(o)>>}

\* The order rests without a fill, or fills in part or in full.
SimulationPlans(o) ==
  {<<Become(o, "ACKNOWLEDGED"), Touch>>} \cup
  {<<Become(o, s), PutFill(o), Touch, PutLedger(o), Rebuild>> :
     s \in {"PARTIALLY_FILLED", "FILLED"}}

\* Variant of MaySimulate: any order that still works.
MaySimulatePending(s) == Pending(s)

MaySimulate(s) == CanTransition(s, "SUBMITTED_TO_SIMULATOR")

Simulate(t, o) ==
  /\ Begin(t, "simulate")
  /\ MaySimulate(db.orders[o].status)
  /\ \E plan \in SimulationPlans(o) : Plan(t, plan)
  /\ UNCHANGED <<issued, reserved>>

MayCancel(s) == s = "CANCELLED" \/ CanTransition(s, "CANCEL_PENDING")

\* A cancelled order is written back with its idempotent audit.
Cancel(t, o) ==
  /\ Begin(t, "cancel")
  /\ MayCancel(db.orders[o].status)
  /\ Plan(t, <<Become(o, "CANCELLED"), Touch>>)
  /\ UNCHANGED <<issued, reserved>>

\* The broker executes an approved order whole, unless another order holds its
\* key; a repeated submission of the same order is let through.  The route stores the
\* fill and the ledger entry before the order.
BrokerPlan(o) ==
  <<PutFill(o), PutLedger(o), Become(o, "FILLED"), Rebuild>>

SubmitToBroker(t, o) ==
  /\ Begin(t, "broker")
  /\ db.orders[o].status = "APPROVED"
  /\ reserved[db.orders[o].key] \subseteq {o}
  /\ reserved' = [reserved EXCEPT ![db.orders[o].key] = {o}]
  /\ Plan(t, BrokerPlan(o))
  /\ UNCHANGED issued

-----------------------------------------------------------------------------
(* One store operation: load, truncate, write.                             *)

Finish(t) == handler' = [handler EXCEPT ![t] = Idle]

Load(t) ==
  LET act == Head(handler[t].todo)
      rest == Tail(handler[t].todo)
  IN /\ handler[t].stage = "load"
     /\ IF file # "whole" THEN Finish(t)
        ELSE IF act.op = "rebuild"
        THEN Plan(t, <<PutAccount(db.ledger)>> \o rest)
        ELSE handler' = [handler EXCEPT ![t] =
               [stage |-> "truncate", todo |-> rest, copy |-> Apply(act, db)]]
     /\ UNCHANGED <<db, file, issued, reserved, requests, crashes>>

Truncate(t) ==
  /\ handler[t].stage = "truncate"
  /\ file' = "empty"
  /\ handler' = [handler EXCEPT ![t].stage = "write"]
  /\ UNCHANGED <<db, issued, reserved, requests, crashes>>

\* A document written over another that is longer leaves the longer one's tail.
Write(t) ==
  /\ handler[t].stage = "write"
  /\ \/ db' = handler[t].copy /\ file' = "whole"
     \/ file # "empty" /\ file' = "mixed" /\ UNCHANGED db
  /\ IF handler[t].todo = <<>> THEN Finish(t)
     ELSE Plan(t, handler[t].todo)
  /\ UNCHANGED <<issued, reserved, requests, crashes>>

Crash ==
  /\ crashes < MaxCrashes
  /\ crashes' = crashes + 1
  /\ handler' = [t \in Threads |-> Idle]
  /\ UNCHANGED <<db, file, issued, reserved, requests>>

Next ==
  \/ \E t \in Threads :
       \/ \E k \in Keys : Submit(t, k)
       \/ \E o \in DOMAIN db.orders :
            Simulate(t, o) \/ Cancel(t, o) \/ SubmitToBroker(t, o)
       \/ Load(t) \/ Truncate(t) \/ Write(t)
  \/ Crash

Spec == Init /\ [][Next]_vars

-----------------------------------------------------------------------------
(* Properties.                                                             *)

\* The account reflects no entry the ledger lacks, and the ledger books no
\* execution that is not stored, at whatever write a crash hits: the requests
\* write a fill, then its entry, then the account.
EntriesInOrder ==
  \A o \in OrderIds :
    db.account[o] <= db.ledger[o] /\ db.ledger[o] <= db.fills[o]

ToBroker(o) == \E k \in Keys : o \in reserved[k]

\* simulate_order stores the order's new status before the fill, so an order
\* with a stored fill can never be simulated again after a crash; the broker
\* route stores the status last, and leaves such an order to be simulated.
StatusBeforeFill ==
  \A o \in OrderIds :
    db.fills[o] > 0 /\ ~ToBroker(o) =>
      /\ o \in DOMAIN db.orders
      /\ ~CanTransition(db.orders[o].status, "SUBMITTED_TO_SIMULATOR")

\* A simulation repeated after a crash, at whatever store it hit, and simulations,
\* broker submissions and cancels of one order one after the other execute it once,
\* but for one more execution per crash of the broker route.  Requests that overlap
\* are another matter: two that read APPROVED both append a fill.
NoDoubleFill ==
  \A o \in OrderIds : db.fills[o] <= 1 + (IF ToBroker(o) THEN crashes ELSE 0)

Quiet == \A t \in Threads : handler[t].stage = "idle"
Executed(s) == s \in {"PARTIALLY_FILLED", "FILLED"}

\* The executions an order of a status may have: a cancelled order keeps its own.
Due(s) == IF Executed(s) THEN {1} ELSE IF s = "CANCELLED" THEN {0, 1} ELSE {0}

\* An order has the fills its status says, their entries and their place in the
\* account.
Settled(o) ==
  /\ db.fills[o] \in Due(db.orders[o].status)
  /\ db.fills[o] = db.ledger[o] /\ db.ledger[o] = db.account[o]

\* Between the requests every order is settled, however it was executed, but
\* for one order per crash at most: each crash loses the last steps of one
\* request, which nothing replays, and disturbs no other order.
UnsettledAreCrashes ==
  Quiet => Cardinality({o \in DOMAIN db.orders : ~Settled(o)}) <= crashes

\* A truncated file is the doing of a request still at work, or of a crash:
\* a handler that gives up on a load leaves no truncation behind, even while
\* another is between its truncation and its write.
TruncationsAreCompleted == Quiet /\ crashes = 0 => file # "empty"

\* The ledger is append-only: a completed write never has fewer entries.
LedgerAppendOnly == [][\A o \in OrderIds : db'.ledger[o] >= db.ledger[o]]_vars

=============================================================================
