--------------------------- MODULE TradingStoreProofs ---------------------------
(***************************************************************************)
(* Proofs about TradingStore: for any number of requests and crashes, any  *)
(* set of orders, keys and handlers.  All but the last section is about    *)
(* requests that do not overlap (Solo): those that do lose entries.        *)
(***************************************************************************)
EXTENDS TradingStore, FiniteSetTheorems, TLAPS

\* The statuses the service stores, and the rows.
Stored == {"APPROVED", "ACKNOWLEDGED", "PARTIALLY_FILLED", "FILLED", "CANCELLED"}
Rows == [key : Keys, status : Stored]

-----------------------------------------------------------------------------
(* A document and what is left of a plan.  c is the number of crashes, br    *)
(* the orders that were sent to the broker, iss the ids handed out.         *)

\* The executions an order may have before it executes once more.
Spare(o, c, br) == IF o \in br THEN c ELSE 0

Doc(d, iss) ==
  /\ DOMAIN d = {"orders", "fills", "ledger", "account"}
  /\ d.fills \in [OrderIds -> Nat] /\ d.ledger \in [OrderIds -> Nat]
  /\ d.account \in [OrderIds -> Nat]
  /\ DOMAIN d.orders \subseteq iss /\ iss \subseteq OrderIds
  /\ \A o \in DOMAIN d.orders : d.orders[o] \in Rows
  /\ \A o \in OrderIds \ iss : d.fills[o] = 0

InOrder(d) == \A o \in OrderIds : d.account[o] <= d.ledger[o] /\ d.ledger[o] <= d.fills[o]

\* No order executed more often than its crashes explain.
Counted(d, c, br) == \A o \in OrderIds : d.fills[o] <= 1 + Spare(o, c, br)

\* An order that may still execute has an execution to spare.
MayStillExecute(d, o) == o \in DOMAIN d.orders => d.orders[o].status = "APPROVED"
Spared(d, o, c, br) == MayStillExecute(d, o) => d.fills[o] <= Spare(o, c, br)

SettledIn(d, o) ==
  /\ d.fills[o] \in Due(d.orders[o].status)
  /\ d.fills[o] = d.ledger[o] /\ d.ledger[o] = d.account[o]
Unsettled(d) == {o \in DOMAIN d.orders : ~SettledIn(d, o)}

\* What holds at any write, whatever request is under way.
During(d, c, br, iss) ==
  /\ Doc(d, iss) /\ InOrder(d) /\ Counted(d, c, br)
  /\ \A o \in OrderIds \ br : Spared(d, o, c, br)
  /\ Cardinality(Unsettled(d)) <= c + 1

\* What holds between the requests.
Rest(d, c, br, iss) ==
  /\ Doc(d, iss) /\ InOrder(d) /\ Counted(d, c, br)
  /\ \A o \in OrderIds : Spared(d, o, c, br)
  /\ Cardinality(Unsettled(d)) <= c

\* The orders other than o are settled but for the crashes; o will be settled by
\* what is left of the plan (clean), or a crash is accountable for it.
Others(d, o) == Unsettled(d) \ {o}
Owes(d, o, c, clean) ==
  (clean /\ Cardinality(Others(d, o)) <= c) \/ Cardinality(Others(d, o)) + 1 <= c

\* What holds of the orders a request does not touch, while it works.
Around(d, o, c, br, iss) ==
  /\ Doc(d, iss) /\ InOrder(d) /\ Counted(d, c, br)
  /\ \A p \in OrderIds : p # o \/ p \notin br => Spared(d, p, c, br)
  /\ o \in iss

Touches == {<<>>, <<Touch>>, <<Touch, Touch>>, <<Touch, Touch, Touch>>}

Count(d, o, f, l) == d.fills[o] = f /\ d.ledger[o] = l
Even(d, o, s) == d.fills[o] \in Due(s) /\ d.fills[o] = d.ledger[o] /\ d.ledger[o] = d.account[o]
HasExecuted(d, o) == o \in DOMAIN d.orders /\ Executed(d.orders[o].status)

\* The plan stores the order's row and nothing else.
Storing(o, row, d, plan, c, br) ==
  LET put == PutOrder(o, row)
  IN /\ plan \in {<<Touch, Touch, Touch, put>>, <<Touch, Touch, put>>, <<Touch, put>>,
                  <<put>>, <<put, Touch>>}
     /\ row.status = "APPROVED" => d.fills[o] <= Spare(o, c, br)
     /\ Owes(d, o, c, Even(d, o, row.status))

\* The stages of a simulated execution, and of one at the broker.
Simulating(o, row, d, plan, c, br) ==
  /\ plan = <<PutOrder(o, row), PutFill(o), Touch, PutLedger(o), Rebuild>>
  /\ Executed(row.status) /\ d.fills[o] <= Spare(o, c, br)
  /\ Owes(d, o, c, Count(d, o, 0, 0))
Filling(o, d, plan, c, br) ==
  /\ plan = <<PutFill(o), Touch, PutLedger(o), Rebuild>>
  /\ HasExecuted(d, o) /\ d.fills[o] <= Spare(o, c, br)
  /\ Owes(d, o, c, Count(d, o, 0, 0))
Booking(o, d, plan, c) ==
  /\ plan \in {<<Touch, PutLedger(o), Rebuild>>, <<PutLedger(o), Rebuild>>}
  /\ HasExecuted(d, o) /\ d.ledger[o] < d.fills[o]
  /\ Owes(d, o, c, Count(d, o, 1, 0))
Rebuilding(o, d, plan, c) ==
  /\ plan \in {<<Rebuild>>, <<PutAccount(d.ledger)>>}
  /\ HasExecuted(d, o)
  /\ Owes(d, o, c, Count(d, o, 1, 1))
BrokerFilling(o, row, d, plan, c, br) ==
  /\ plan = <<PutFill(o), PutLedger(o), PutOrder(o, row), Rebuild>>
  /\ o \in br /\ Executed(row.status) /\ d.fills[o] <= Spare(o, c, br)
  /\ Owes(d, o, c, Count(d, o, 0, 0))
BrokerBooking(o, row, d, plan, c, br) ==
  /\ plan = <<PutLedger(o), PutOrder(o, row), Rebuild>>
  /\ o \in br /\ Executed(row.status) /\ d.ledger[o] < d.fills[o]
  /\ Owes(d, o, c, Count(d, o, 1, 0))
BrokerStoring(o, row, d, plan, c, br) ==
  /\ plan = <<PutOrder(o, row), Rebuild>>
  /\ o \in br /\ Executed(row.status)
  /\ Owes(d, o, c, Count(d, o, 1, 1))

\* What is left of a plan about order o, and the document it is applied to.
Working(o, d, plan, c, br) ==
  \/ \E row \in Rows : \/ Storing(o, row, d, plan, c, br)
                       \/ Simulating(o, row, d, plan, c, br)
                       \/ BrokerFilling(o, row, d, plan, c, br)
                       \/ BrokerBooking(o, row, d, plan, c, br)
                       \/ BrokerStoring(o, row, d, plan, c, br)
  \/ Filling(o, d, plan, c, br) \/ Booking(o, d, plan, c) \/ Rebuilding(o, d, plan, c)

Track(d, plan, c, br, iss) ==
  \/ plan \in Touches /\ Rest(d, c, br, iss)
  \/ \E o \in OrderIds : Around(d, o, c, br, iss) /\ Working(o, d, plan, c, br)

-----------------------------------------------------------------------------
(* The invariant of requests that do not overlap.                          *)

SentToBroker == {o \in OrderIds : ToBroker(o)}
Tracks(d, plan) == Track(d, plan, crashes, SentToBroker, issued)

\* One request at a time, whichever handler serves it.
Solo ==
  \A t, u \in Threads : handler[t].stage # "idle" /\ handler[u].stage # "idle" => t = u

OthersIdle(h) == \A t \in Threads \ {h} : handler[t].stage = "idle"

HandlerInv(h) ==
  /\ handler[h].stage = "load" =>
       file = "whole" /\ handler[h].todo # <<>> /\ Tracks(db, handler[h].todo)
  /\ handler[h].stage \in {"truncate", "write"} =>
       /\ file = (IF handler[h].stage = "truncate" THEN "whole" ELSE "empty")
       /\ During(db, crashes, SentToBroker, issued)
       /\ Tracks(handler[h].copy, handler[h].todo)

HandlerTypes ==
  /\ handler = [t \in Threads |-> handler[t]]
  /\ \A t \in Threads : /\ DOMAIN handler[t] = {"stage", "todo", "copy"}
                        /\ handler[t].stage \in {"idle", "load", "truncate", "write"}
  /\ reserved \in [Keys -> SUBSET OrderIds]
  /\ crashes \in Nat

StoreInv ==
  /\ HandlerTypes
  /\ Quiet => Rest(db, crashes, SentToBroker, issued)
  /\ \A h \in Threads : HandlerInv(h)

-----------------------------------------------------------------------------
(* Lemmas about documents.                                                 *)

LEMMA OrderFields ==
  ASSUME NEW o, NEW row, NEW d, DOMAIN d = {"orders", "fills", "ledger", "account"},
         NEW e, e = Apply(PutOrder(o, row), d)
  PROVE  /\ DOMAIN e = DOMAIN d
         /\ e.fills = d.fills /\ e.ledger = d.ledger /\ e.account = d.account
         /\ DOMAIN e.orders = DOMAIN d.orders \cup {o} /\ e.orders[o] = row
         /\ \A p \in DOMAIN d.orders \ {o} : e.orders[p] = d.orders[p]
  <1>1. e = [d EXCEPT !.orders = [p \in DOMAIN d.orders \cup {o} |->
                                   IF p = o THEN row ELSE d.orders[p]]]
    BY DEF Apply, PutOrder
  <1>2. /\ DOMAIN e = DOMAIN d
        /\ e.fills = d.fills /\ e.ledger = d.ledger /\ e.account = d.account
        /\ e.orders = [p \in DOMAIN d.orders \cup {o} |-> IF p = o THEN row ELSE d.orders[p]]
    BY <1>1
  <1>. QED
    BY <1>2

LEMMA FillFields ==
  ASSUME NEW o, NEW d, DOMAIN d = {"orders", "fills", "ledger", "account"},
         NEW e, e = Apply(PutFill(o), d)
  PROVE  /\ DOMAIN e = DOMAIN d
         /\ e.orders = d.orders /\ e.ledger = d.ledger /\ e.account = d.account
         /\ e.fills = [d.fills EXCEPT ![o] = @ + 1]
  <1>1. e = [d EXCEPT !.fills[o] = @ + 1]
    BY DEF Apply, PutFill
  <1>. QED
    BY <1>1

LEMMA LedgerFields ==
  ASSUME NEW o, NEW d, DOMAIN d = {"orders", "fills", "ledger", "account"},
         NEW e, e = Apply(PutLedger(o), d)
  PROVE  /\ DOMAIN e = DOMAIN d
         /\ e.orders = d.orders /\ e.fills = d.fills /\ e.account = d.account
         /\ e.ledger = [d.ledger EXCEPT ![o] = @ + 1]
  <1>1. e = [d EXCEPT !.ledger[o] = @ + 1]
    BY DEF Apply, PutLedger
  <1>. QED
    BY <1>1

LEMMA AccountFields ==
  ASSUME NEW seen, NEW d, DOMAIN d = {"orders", "fills", "ledger", "account"},
         NEW e, e = Apply(PutAccount(seen), d)
  PROVE  /\ DOMAIN e = DOMAIN d
         /\ e.orders = d.orders /\ e.fills = d.fills /\ e.ledger = d.ledger
         /\ e.account = seen
  <1>1. e = [d EXCEPT !.account = seen]
    BY DEF Apply, PutAccount
  <1>. QED
    BY <1>1

\* The unsettled orders are finitely many, and all but one of them are others.
LEMMA Debts ==
  ASSUME NEW d, NEW iss, Doc(d, iss), NEW o
  PROVE  /\ IsFiniteSet(Unsettled(d)) /\ IsFiniteSet(Others(d, o))
         /\ Cardinality(Unsettled(d)) \in Nat /\ Cardinality(Others(d, o)) \in Nat
         /\ Cardinality(Unsettled(d)) =
              Cardinality(Others(d, o)) + (IF o \in Unsettled(d) THEN 1 ELSE 0)
  <1>1. IsFiniteSet(OrderIds) /\ Unsettled(d) \subseteq OrderIds
    BY BoundsAssumption DEF BoundsAssumption, Doc, Unsettled
  <1>2. IsFiniteSet(Unsettled(d))
    BY <1>1, FS_Subset
  <1>3. IsFiniteSet(Others(d, o))
    BY <1>2, FS_Subset DEF Others
  <1>4. Cardinality(Unsettled(d)) \in Nat /\ Cardinality(Others(d, o)) \in Nat
    BY <1>2, <1>3, FS_CardinalityType
  <1>5. CASE o \in Unsettled(d)
    <2>1. Cardinality(Others(d, o)) = Cardinality(Unsettled(d)) - 1
      BY <1>2, <1>5, FS_RemoveElement DEF Others
    <2>. QED
      BY <1>2, <1>3, <1>4, <1>5, <2>1
  <1>6. CASE o \notin Unsettled(d)
    <2>1. Others(d, o) = Unsettled(d)
      BY <1>6 DEF Others
    <2>. QED
      BY <1>2, <1>3, <1>4, <1>6, <2>1
  <1>. QED
    BY <1>5, <1>6

\* A crash during a plan, and one more crash to blame.
LEMMA DuringIsRest ==
  ASSUME NEW d, NEW c \in Nat, NEW br, NEW iss, During(d, c, br, iss)
  PROVE  Rest(d, c + 1, br, iss)
  <1>1. \A o \in OrderIds : d.fills[o] \in Nat
    BY DEF During, Doc
  <1>2. Counted(d, c + 1, br)
    BY <1>1 DEF During, Counted, Spare
  <1>3. \A o \in OrderIds : Spared(d, o, c + 1, br)
    BY <1>1 DEF During, Counted, Spared, Spare
  <1>. QED
    BY <1>2, <1>3 DEF During, Rest

LEMMA RestIsDuring ==
  ASSUME NEW d, NEW c \in Nat, NEW br, NEW iss, Rest(d, c, br, iss)
  PROVE  During(d, c, br, iss)
  <1>1. Cardinality(Unsettled(d)) \in Nat
    BY Debts DEF Rest
  <1>. QED
    BY <1>1 DEF During, Rest

\* What an unfinished plan about o leaves open, and what is closed by its end.
LEMMA AroundIsDuring ==
  ASSUME NEW c \in Nat, NEW br, NEW iss, NEW d, NEW o \in OrderIds,
         Around(d, o, c, br, iss), Owes(d, o, c, TRUE)
  PROVE  During(d, c, br, iss)
  <1>1. Cardinality(Unsettled(d)) <= c + 1
    BY Debts DEF Around, Owes
  <1>2. \A p \in OrderIds \ br : Spared(d, p, c, br)
    BY DEF Around
  <1>. QED
    BY <1>1, <1>2 DEF During, Around

LEMMA Closing ==
  ASSUME NEW c \in Nat, NEW br, NEW iss, NEW d, NEW o \in OrderIds,
         Around(d, o, c, br, iss), Spared(d, o, c, br), o \in DOMAIN d.orders,
         Owes(d, o, c, SettledIn(d, o))
  PROVE  Rest(d, c, br, iss)
  <1>1. o \in Unsettled(d) <=> ~SettledIn(d, o)
    BY DEF Unsettled
  <1>2. Cardinality(Unsettled(d)) <= c
    BY <1>1, Debts DEF Around, Owes
  <1>3. \A p \in OrderIds : Spared(d, p, c, br)
    BY DEF Around
  <1>. QED
    BY <1>2, <1>3 DEF Around, Rest

\* Documents that agree about the other orders have the same debts.
LEMMA SameOthers ==
  ASSUME NEW d, NEW e, NEW o,
         DOMAIN e.orders \ {o} = DOMAIN d.orders \ {o},
         \A p \in DOMAIN d.orders \ {o} :
           /\ e.orders[p] = d.orders[p] /\ e.fills[p] = d.fills[p]
           /\ e.ledger[p] = d.ledger[p] /\ e.account[p] = d.account[p]
  PROVE  Others(e, o) = Others(d, o)
  <1>1. \A p \in DOMAIN d.orders \ {o} : SettledIn(e, p) <=> SettledIn(d, p)
    BY DEF SettledIn
  <1>. QED
    BY <1>1 DEF Others, Unsettled

\* The effects of the operations on the document and on its debts.
LEMMA OrderEffect ==
  ASSUME NEW c \in Nat, NEW br, NEW iss, NEW d, NEW o \in OrderIds, NEW row \in Rows,
         Around(d, o, c, br, iss), row.status = "APPROVED" => d.fills[o] <= Spare(o, c, br),
         NEW e, e = Apply(PutOrder(o, row), d)
  PROVE  /\ Around(e, o, c, br, iss) /\ Spared(e, o, c, br)
         /\ Others(e, o) = Others(d, o)
         /\ o \in DOMAIN e.orders /\ e.orders[o] = row
         /\ e.fills = d.fills /\ e.ledger = d.ledger /\ e.account = d.account
  <1>1. /\ DOMAIN e = DOMAIN d
        /\ e.fills = d.fills /\ e.ledger = d.ledger /\ e.account = d.account
        /\ DOMAIN e.orders = DOMAIN d.orders \cup {o}
        /\ e.orders[o] = row
        /\ \A p \in DOMAIN d.orders \ {o} : e.orders[p] = d.orders[p]
    <2>1. DOMAIN d = {"orders", "fills", "ledger", "account"}
      BY DEF Around, Doc
    <2>. QED
      BY <2>1, OrderFields
  <1>2. Doc(e, iss)
    BY <1>1 DEF Around, Doc
  <1>3. InOrder(e) /\ Counted(e, c, br)
    BY <1>1, <1>2 DEF Around, InOrder, Counted, Doc
  <1>4. Others(e, o) = Others(d, o)
    <2>1. DOMAIN e.orders \ {o} = DOMAIN d.orders \ {o}
      BY <1>1
    <2>. QED
      BY <1>1, <2>1, SameOthers
  <1>5. Spared(e, o, c, br)
    BY <1>1 DEF Spared, MayStillExecute
  <1>6. \A p \in OrderIds : p # o \/ p \notin br => Spared(e, p, c, br)
    BY <1>1, <1>5 DEF Around, Spared, MayStillExecute
  <1>. QED
    BY <1>1, <1>2, <1>3, <1>4, <1>5, <1>6 DEF Around

LEMMA FillEffect ==
  ASSUME NEW c \in Nat, NEW br, NEW iss, NEW d, NEW o \in OrderIds,
         Around(d, o, c, br, iss), d.fills[o] <= Spare(o, c, br), o \in br \/ HasExecuted(d, o),
         NEW e, e = Apply(PutFill(o), d)
  PROVE  /\ Around(e, o, c, br, iss)
         /\ Others(e, o) = Others(d, o)
         /\ e.orders = d.orders /\ e.ledger = d.ledger /\ e.account = d.account
         /\ e.fills[o] = d.fills[o] + 1
         /\ d.fills[o] \in Nat /\ d.ledger[o] \in Nat /\ d.ledger[o] <= d.fills[o]
  <1>1. /\ DOMAIN e = DOMAIN d
        /\ e.orders = d.orders /\ e.ledger = d.ledger /\ e.account = d.account
        /\ e.fills = [d.fills EXCEPT ![o] = @ + 1]
    BY FillFields DEF Around, Doc
  <1>2. Doc(e, iss)
    BY <1>1 DEF Around, Doc
  <1>3. InOrder(e)
    BY <1>1, <1>2 DEF Around, InOrder, Doc
  <1>4. Counted(e, c, br)
    BY <1>1, <1>2 DEF Around, Counted, Doc, Spare
  <1>5. Others(e, o) = Others(d, o)
    <2>1. \A p \in DOMAIN d.orders \ {o} : e.fills[p] = d.fills[p]
      BY <1>1 DEF Around, Doc
    <2>2. \A p \in DOMAIN d.orders \ {o} :
            /\ e.orders[p] = d.orders[p] /\ e.fills[p] = d.fills[p]
            /\ e.ledger[p] = d.ledger[p] /\ e.account[p] = d.account[p]
      BY <1>1, <2>1
    <2>3. DOMAIN e.orders \ {o} = DOMAIN d.orders \ {o}
      BY <1>1
    <2>. QED
      BY <2>2, <2>3, SameOthers
  <1>6. \A p \in OrderIds : p # o \/ p \notin br => Spared(e, p, c, br)
    BY <1>1 DEF Around, Doc, Spared, MayStillExecute, HasExecuted, Executed
  <1>. QED
    BY <1>1, <1>2, <1>3, <1>4, <1>5, <1>6 DEF Around, Doc, InOrder

LEMMA LedgerEffect ==
  ASSUME NEW c \in Nat, NEW br, NEW iss, NEW d, NEW o \in OrderIds,
         Around(d, o, c, br, iss), d.ledger[o] < d.fills[o],
         NEW e, e = Apply(PutLedger(o), d)
  PROVE  /\ Around(e, o, c, br, iss)
         /\ Others(e, o) = Others(d, o)
         /\ e.orders = d.orders /\ e.fills = d.fills /\ e.account = d.account
         /\ e.ledger[o] = d.ledger[o] + 1
         /\ d.ledger[o] \in Nat
  <1>1. /\ DOMAIN e = DOMAIN d
        /\ e.orders = d.orders /\ e.fills = d.fills /\ e.account = d.account
        /\ e.ledger = [d.ledger EXCEPT ![o] = @ + 1]
    BY LedgerFields DEF Around, Doc
  <1>2. Doc(e, iss)
    BY <1>1 DEF Around, Doc
  <1>3. InOrder(e)
    BY <1>1, <1>2 DEF Around, InOrder, Doc
  <1>4. Counted(e, c, br)
    BY <1>1 DEF Around, Counted
  <1>5. Others(e, o) = Others(d, o)
    <2>1. \A p \in DOMAIN d.orders \ {o} : e.ledger[p] = d.ledger[p]
      BY <1>1 DEF Around, Doc
    <2>2. \A p \in DOMAIN d.orders \ {o} :
            /\ e.orders[p] = d.orders[p] /\ e.fills[p] = d.fills[p]
            /\ e.ledger[p] = d.ledger[p] /\ e.account[p] = d.account[p]
      BY <1>1, <2>1
    <2>3. DOMAIN e.orders \ {o} = DOMAIN d.orders \ {o}
      BY <1>1
    <2>. QED
      BY <2>2, <2>3, SameOthers
  <1>6. \A p \in OrderIds : p # o \/ p \notin br => Spared(e, p, c, br)
    BY <1>1 DEF Around, Spared, MayStillExecute
  <1>. QED
    BY <1>1, <1>2, <1>3, <1>4, <1>5, <1>6 DEF Around, Doc

\* Rebuilding the account settles what it finds booked, and unsettles nothing.
LEMMA AccountEffect ==
  ASSUME NEW c \in Nat, NEW br, NEW iss, NEW d, NEW o \in OrderIds,
         Around(d, o, c, br, iss), HasExecuted(d, o), Owes(d, o, c, Count(d, o, 1, 1)),
         NEW e, e = Apply(PutAccount(d.ledger), d)
  PROVE  Rest(e, c, br, iss)
  <1>1. /\ DOMAIN e = DOMAIN d
        /\ e.orders = d.orders /\ e.fills = d.fills /\ e.ledger = d.ledger
        /\ e.account = d.ledger
    BY AccountFields DEF Around, Doc
  <1>2. Doc(e, iss)
    BY <1>1 DEF Around, Doc
  <1>3. InOrder(e)
    BY <1>1, <1>2 DEF Around, InOrder, Doc
  <1>4. Counted(e, c, br)
    BY <1>1 DEF Around, Counted
  <1>5. \A p \in OrderIds : Spared(e, p, c, br)
    BY <1>1 DEF Around, Spared, MayStillExecute, HasExecuted, Executed
  <1>6. Around(e, o, c, br, iss)
    BY <1>2, <1>3, <1>4, <1>5 DEF Around
  <1>7. Others(e, o) \subseteq Others(d, o)
    BY <1>1 DEF Others, Unsettled, SettledIn
  <1>8. /\ Cardinality(Others(e, o)) <= Cardinality(Others(d, o))
        /\ Cardinality(Others(e, o)) \in Nat /\ Cardinality(Others(d, o)) \in Nat
    BY <1>2, <1>7, Debts, FS_Subset DEF Around
  <1>9. Count(d, o, 1, 1) => SettledIn(e, o)
    BY <1>1 DEF Count, SettledIn, HasExecuted, Due
  <1>10. Owes(e, o, c, SettledIn(e, o))
    BY <1>8, <1>9 DEF Owes
  <1>11. Rest(e, c, br, iss)
    BY <1>1, <1>5, <1>6, <1>10, Closing DEF HasExecuted
  <1>. QED
    BY <1>3, <1>11

-----------------------------------------------------------------------------
(* Lemmas about plans.                                                     *)

LEMMA List1 ==
  ASSUME NEW a
  PROVE  Head(<<a>>) = a /\ Tail(<<a>>) = <<>> /\ <<a>> # <<>> /\ <<a>> \o <<>> = <<a>>
  OBVIOUS

LEMMA List2 ==
  ASSUME NEW a, NEW b PROVE Head(<<a, b>>) = a /\ Tail(<<a, b>>) = <<b>> /\ <<a, b>> # <<>>
  OBVIOUS

LEMMA List3 ==
  ASSUME NEW a, NEW b, NEW c
  PROVE  Head(<<a, b, c>>) = a /\ Tail(<<a, b, c>>) = <<b, c>> /\ <<a, b, c>> # <<>>
  OBVIOUS

LEMMA List4 ==
  ASSUME NEW a, NEW b, NEW c, NEW d
  PROVE  /\ Head(<<a, b, c, d>>) = a /\ Tail(<<a, b, c, d>>) = <<b, c, d>>
         /\ <<a, b, c, d>> # <<>>
  OBVIOUS

LEMMA List5 ==
  ASSUME NEW a, NEW b, NEW c, NEW d, NEW e
  PROVE  /\ Head(<<a, b, c, d, e>>) = a /\ Tail(<<a, b, c, d, e>>) = <<b, c, d, e>>
         /\ <<a, b, c, d, e>> # <<>>
  OBVIOUS

\* A plan that is under way leaves the document as During says.
LEMMA WorkingIsOwed ==
  ASSUME NEW c, NEW br, NEW d, NEW o, NEW plan, Working(o, d, plan, c, br)
  PROVE  plan # <<>> /\ Owes(d, o, c, TRUE)
  <1>1. ASSUME NEW row \in Rows, Storing(o, row, d, plan, c, br)
        PROVE  plan # <<>> /\ Owes(d, o, c, TRUE)
    BY <1>1, List1, List2, List3, List4 DEF Storing, Owes
  <1>2. CASE \E row \in Rows : Simulating(o, row, d, plan, c, br) \/ BrokerFilling(o, row, d, plan, c, br)
    BY <1>2, List4, List5 DEF Simulating, BrokerFilling, Owes
  <1>3. CASE \E row \in Rows : BrokerBooking(o, row, d, plan, c, br) \/ BrokerStoring(o, row, d, plan, c, br)
    BY <1>3, List2, List3 DEF BrokerBooking, BrokerStoring, Owes
  <1>4. CASE Filling(o, d, plan, c, br) \/ Booking(o, d, plan, c) \/ Rebuilding(o, d, plan, c)
    BY <1>4, List1, List2, List3, List4 DEF Filling, Booking, Rebuilding, Owes
  <1>. QED
    BY <1>1, <1>2, <1>3, <1>4 DEF Working

LEMMA TrackIsDuring ==
  ASSUME NEW c \in Nat, NEW br, NEW iss, NEW d, NEW plan, Track(d, plan, c, br, iss)
  PROVE  During(d, c, br, iss)
  <1>1. CASE Rest(d, c, br, iss)
    BY <1>1, RestIsDuring
  <1>2. ASSUME NEW o \in OrderIds, Around(d, o, c, br, iss), Working(o, d, plan, c, br)
        PROVE During(d, c, br, iss)
    BY <1>2, WorkingIsOwed, AroundIsDuring
  <1>. QED
    BY <1>1, <1>2 DEF Track

LEMMA TrackEnds ==
  ASSUME NEW c \in Nat, NEW br, NEW iss, NEW d, Track(d, <<>>, c, br, iss)
  PROVE  Rest(d, c, br, iss)
  BY WorkingIsOwed DEF Track

\* One operation after the other keeps a plan on its track.
LEMMA StoringAdvances ==
  ASSUME NEW c \in Nat, NEW br, NEW iss, NEW d, NEW plan, NEW o \in OrderIds, NEW row \in Rows,
         Around(d, o, c, br, iss), Storing(o, row, d, plan, c, br)
  PROVE  Track(Apply(Head(plan), d), Tail(plan), c, br, iss)
  <1>. DEFINE put == PutOrder(o, row)  e == Apply(put, d)
  <1>1. CASE plan \in {<<put>>, <<put, Touch>>}
    <2>1. Head(plan) = put /\ Tail(plan) \in {<<>>, <<Touch>>}
      <3>1. CASE plan = <<put>>
        BY <3>1, List1
      <3>2. CASE plan = <<put, Touch>>
        BY <3>2, List2
      <3>. QED
        BY <1>1, <3>1, <3>2
    <2>2. /\ Around(e, o, c, br, iss) /\ Spared(e, o, c, br)
          /\ Others(e, o) = Others(d, o)
          /\ o \in DOMAIN e.orders /\ e.orders[o] = row
          /\ e.fills = d.fills /\ e.ledger = d.ledger /\ e.account = d.account
      BY OrderEffect DEF Storing
    <2>. HIDE DEF e
    <2>3. SettledIn(e, o) <=> Even(d, o, row.status)
      BY <2>2 DEF SettledIn, Even
    <2>4. Owes(e, o, c, SettledIn(e, o))
      BY <2>2, <2>3 DEF Owes, Storing
    <2>5. Rest(e, c, br, iss)
      BY <2>2, <2>4, Closing
    <2>. QED
      BY <2>1, <2>2, <2>5 DEF Track, Touches, e
  <1>2. CASE plan \in {<<Touch, put>>, <<Touch, Touch, put>>, <<Touch, Touch, Touch, put>>}
    <2>1. Head(plan) = Touch
          /\ Tail(plan) \in {<<put>>, <<Touch, put>>, <<Touch, Touch, put>>}
      <3>1. CASE plan = <<Touch, put>>
        BY <3>1, List2
      <3>2. CASE plan = <<Touch, Touch, put>>
        BY <3>2, List3
      <3>3. CASE plan = <<Touch, Touch, Touch, put>>
        BY <3>3, List4
      <3>. QED
        BY <1>2, <3>1, <3>2, <3>3
    <2>2. Apply(Head(plan), d) = d
      BY <2>1 DEF Apply, Touch
    <2>3. Storing(o, row, d, Tail(plan), c, br)
      BY <2>1 DEF Storing
    <2>. QED
      BY <2>2, <2>3 DEF Track, Working
  <1>. QED
    BY <1>1, <1>2 DEF Storing

LEMMA ExecutionAdvances ==
  ASSUME NEW c \in Nat, NEW br, NEW iss, NEW d, NEW plan, NEW o \in OrderIds,
         Around(d, o, c, br, iss), plan # <<>>, Head(plan).op # "rebuild",
         \/ \E row \in Rows : \/ Simulating(o, row, d, plan, c, br)
                              \/ BrokerFilling(o, row, d, plan, c, br)
                              \/ BrokerBooking(o, row, d, plan, c, br)
                              \/ BrokerStoring(o, row, d, plan, c, br)
         \/ Filling(o, d, plan, c, br) \/ Booking(o, d, plan, c) \/ Rebuilding(o, d, plan, c)
  PROVE  Track(Apply(Head(plan), d), Tail(plan), c, br, iss)
  <1>. DEFINE e == Apply(Head(plan), d)
  <1>1. ASSUME NEW row \in Rows, Simulating(o, row, d, plan, c, br)
        PROVE  Track(e, Tail(plan), c, br, iss)
    <2>1. Head(plan) = PutOrder(o, row)
          /\ Tail(plan) = <<PutFill(o), Touch, PutLedger(o), Rebuild>>
      BY <1>1, List5 DEF Simulating
    <2>2. /\ Around(e, o, c, br, iss) /\ Others(e, o) = Others(d, o)
          /\ o \in DOMAIN e.orders /\ e.orders[o] = row
          /\ e.fills = d.fills /\ e.ledger = d.ledger
      BY <1>1, <2>1, OrderEffect DEF Simulating, Executed
    <2>. HIDE DEF e
    <2>3. Filling(o, e, Tail(plan), c, br)
      BY <1>1, <2>1, <2>2 DEF Simulating, Filling, HasExecuted, Owes, Count
    <2>. QED
      BY <2>2, <2>3 DEF Track, Working
  <1>2. ASSUME Filling(o, d, plan, c, br)
        PROVE  Track(e, Tail(plan), c, br, iss)
    <2>1. Head(plan) = PutFill(o) /\ Tail(plan) = <<Touch, PutLedger(o), Rebuild>>
      BY <1>2, List4 DEF Filling
    <2>2. /\ Around(e, o, c, br, iss) /\ Others(e, o) = Others(d, o)
          /\ e.orders = d.orders /\ e.ledger = d.ledger
          /\ e.fills[o] = d.fills[o] + 1
          /\ d.fills[o] \in Nat /\ d.ledger[o] \in Nat /\ d.ledger[o] <= d.fills[o]
      <3>1. d.fills[o] <= Spare(o, c, br) /\ HasExecuted(d, o)
        BY <1>2 DEF Filling
      <3>2. e = Apply(PutFill(o), d)
        BY <2>1
      <3>. HIDE DEF e
      <3>. QED
        BY <3>1, <3>2, FillEffect
    <2>. HIDE DEF e
    <2>3. Booking(o, e, Tail(plan), c)
      BY <1>2, <2>1, <2>2 DEF Filling, Booking, HasExecuted, Owes, Count
    <2>. QED
      BY <2>2, <2>3 DEF Track, Working
  <1>3. ASSUME Booking(o, d, plan, c)
        PROVE  Track(e, Tail(plan), c, br, iss)
    <2>1. CASE plan = <<Touch, PutLedger(o), Rebuild>>
      <3>1. Head(plan) = Touch /\ Tail(plan) = <<PutLedger(o), Rebuild>>
        BY <2>1, List3
      <3>2. e = d
        BY <3>1 DEF Apply, Touch
      <3>3. Booking(o, d, Tail(plan), c)
        BY <1>3, <3>1 DEF Booking
      <3>. QED
        BY <3>2, <3>3 DEF Track, Working
    <2>2. CASE plan = <<PutLedger(o), Rebuild>>
      <3>1. Head(plan) = PutLedger(o) /\ Tail(plan) = <<Rebuild>>
        BY <2>2, List2
      <3>2. /\ Around(e, o, c, br, iss) /\ Others(e, o) = Others(d, o)
            /\ e.orders = d.orders /\ e.fills = d.fills
            /\ e.ledger[o] = d.ledger[o] + 1 /\ d.ledger[o] \in Nat
        <4>1. d.ledger[o] < d.fills[o]
          BY <1>3 DEF Booking
        <4>2. e = Apply(PutLedger(o), d)
          BY <3>1
        <4>. HIDE DEF e
        <4>. QED
          BY <4>1, <4>2, LedgerEffect
      <3>. HIDE DEF e
      <3>3. Rebuilding(o, e, Tail(plan), c)
        BY <1>3, <3>1, <3>2 DEF Booking, Rebuilding, HasExecuted, Owes, Count
      <3>. QED
        BY <3>2, <3>3 DEF Track, Working
    <2>. QED
      BY <1>3, <2>1, <2>2 DEF Booking
  <1>4. ASSUME Rebuilding(o, d, plan, c)
        PROVE  Track(e, Tail(plan), c, br, iss)
    <2>1. plan # <<Rebuild>>
      BY List1 DEF Rebuild
    <2>2. Head(plan) = PutAccount(d.ledger) /\ Tail(plan) = <<>>
      BY <1>4, <2>1, List1 DEF Rebuilding
    <2>3. Rest(e, c, br, iss)
      BY <1>4, <2>2, AccountEffect DEF Rebuilding
    <2>. QED
      BY <2>2, <2>3 DEF Track, Touches
  <1>5. ASSUME NEW row \in Rows, BrokerFilling(o, row, d, plan, c, br)
        PROVE  Track(e, Tail(plan), c, br, iss)
    <2>1. Head(plan) = PutFill(o) /\ Tail(plan) = <<PutLedger(o), PutOrder(o, row), Rebuild>>
      BY <1>5, List4 DEF BrokerFilling
    <2>2. /\ Around(e, o, c, br, iss) /\ Others(e, o) = Others(d, o)
          /\ e.ledger = d.ledger /\ e.fills[o] = d.fills[o] + 1
          /\ d.fills[o] \in Nat /\ d.ledger[o] \in Nat /\ d.ledger[o] <= d.fills[o]
      BY <1>5, <2>1, FillEffect DEF BrokerFilling
    <2>. HIDE DEF e
    <2>3. BrokerBooking(o, row, e, Tail(plan), c, br)
      BY <1>5, <2>1, <2>2 DEF BrokerFilling, BrokerBooking, Owes, Count
    <2>. QED
      BY <2>2, <2>3 DEF Track, Working
  <1>6. ASSUME NEW row \in Rows, BrokerBooking(o, row, d, plan, c, br)
        PROVE  Track(e, Tail(plan), c, br, iss)
    <2>1. Head(plan) = PutLedger(o) /\ Tail(plan) = <<PutOrder(o, row), Rebuild>>
      BY <1>6, List3 DEF BrokerBooking
    <2>2. /\ Around(e, o, c, br, iss) /\ Others(e, o) = Others(d, o)
          /\ e.fills = d.fills
          /\ e.ledger[o] = d.ledger[o] + 1 /\ d.ledger[o] \in Nat
      BY <1>6, <2>1, LedgerEffect DEF BrokerBooking
    <2>. HIDE DEF e
    <2>3. BrokerStoring(o, row, e, Tail(plan), c, br)
      BY <1>6, <2>1, <2>2 DEF BrokerBooking, BrokerStoring, Owes, Count
    <2>. QED
      BY <2>2, <2>3 DEF Track, Working
  <1>7. ASSUME NEW row \in Rows, BrokerStoring(o, row, d, plan, c, br)
        PROVE  Track(e, Tail(plan), c, br, iss)
    <2>1. Head(plan) = PutOrder(o, row) /\ Tail(plan) = <<Rebuild>>
      BY <1>7, List2 DEF BrokerStoring
    <2>2. /\ Around(e, o, c, br, iss) /\ Others(e, o) = Others(d, o)
          /\ o \in DOMAIN e.orders /\ e.orders[o] = row
          /\ e.fills = d.fills /\ e.ledger = d.ledger
      BY <1>7, <2>1, OrderEffect DEF BrokerStoring, Executed
    <2>. HIDE DEF e
    <2>3. Rebuilding(o, e, Tail(plan), c)
      BY <1>7, <2>1, <2>2 DEF BrokerStoring, Rebuilding, HasExecuted, Owes, Count
    <2>. QED
      BY <2>2, <2>3 DEF Track, Working
  <1>. QED
    BY <1>1, <1>2, <1>3, <1>4, <1>5, <1>6, <1>7

LEMMA TrackAdvances ==
  ASSUME NEW c \in Nat, NEW br, NEW iss, NEW d, NEW plan,
         Track(d, plan, c, br, iss), plan # <<>>, Head(plan).op # "rebuild"
  PROVE  Track(Apply(Head(plan), d), Tail(plan), c, br, iss)
  <1>1. CASE plan \in Touches /\ Rest(d, c, br, iss)
    <2>1. Head(plan) = Touch /\ Tail(plan) \in Touches
      <3>1. CASE plan = <<Touch>>
        BY <3>1, List1 DEF Touches
      <3>2. CASE plan = <<Touch, Touch>>
        BY <3>2, List2 DEF Touches
      <3>3. CASE plan = <<Touch, Touch, Touch>>
        BY <3>3, List3 DEF Touches
      <3>. QED
        BY <1>1, <3>1, <3>2, <3>3 DEF Touches
    <2>2. Apply(Head(plan), d) = d
      BY <2>1 DEF Apply, Touch
    <2>. QED
      BY <1>1, <2>1, <2>2 DEF Track
  <1>2. ASSUME NEW o \in OrderIds, Around(d, o, c, br, iss), Working(o, d, plan, c, br)
        PROVE  Track(Apply(Head(plan), d), Tail(plan), c, br, iss)
    <2>1. CASE \E row \in Rows : Storing(o, row, d, plan, c, br)
      BY <1>2, <2>1, StoringAdvances
    <2>2. CASE ~\E row \in Rows : Storing(o, row, d, plan, c, br)
      BY <1>2, <2>2, ExecutionAdvances DEF Working
    <2>. QED
      BY <2>1, <2>2
  <1>. QED
    BY <1>1, <1>2 DEF Track

\* Reading the ledger is the last but one operation of an execution.
LEMMA RebuildAdvances ==
  ASSUME NEW c \in Nat, NEW br, NEW iss, NEW d, NEW plan,
         Track(d, plan, c, br, iss), plan # <<>>, Head(plan).op = "rebuild"
  PROVE  /\ Tail(plan) = <<>>
         /\ Track(d, <<PutAccount(d.ledger)>>, c, br, iss)
  <1>. USE DEF Touch, PutOrder, PutFill, PutLedger, PutAccount
  <1>1. plan \notin Touches
    BY List1, List2, List3 DEF Touches
  <1>2. PICK o \in OrderIds : Around(d, o, c, br, iss) /\ Working(o, d, plan, c, br)
    BY <1>1 DEF Track
  <1>3. ASSUME NEW row \in Rows, Storing(o, row, d, plan, c, br) PROVE FALSE
    <2>. DEFINE put == PutOrder(o, row)
    <2>1. put.op = "order" /\ Touch.op = "touch"
      OBVIOUS
    <2>2. Head(plan) \in {put, Touch}
      <3>1. plan \in {<<Touch, Touch, Touch, put>>, <<Touch, Touch, put>>, <<Touch, put>>,
                      <<put>>, <<put, Touch>>}
        BY <1>3 DEF Storing
      <3>. HIDE DEF put, Touch
      <3>. QED
        BY <3>1, List1, List2, List3, List4
    <2>. QED
      BY <2>1, <2>2
  <1>4. ASSUME NEW row \in Rows, Simulating(o, row, d, plan, c, br) PROVE FALSE
    BY <1>4, List5 DEF Simulating
  <1>5. ASSUME NEW row \in Rows, BrokerFilling(o, row, d, plan, c, br) PROVE FALSE
    BY <1>5, List4 DEF BrokerFilling
  <1>6. ASSUME NEW row \in Rows, BrokerBooking(o, row, d, plan, c, br) PROVE FALSE
    BY <1>6, List3 DEF BrokerBooking
  <1>7. ASSUME NEW row \in Rows, BrokerStoring(o, row, d, plan, c, br) PROVE FALSE
    BY <1>7, List2 DEF BrokerStoring
  <1>8. ~Filling(o, d, plan, c, br)
    BY List4 DEF Filling
  <1>9. ~Booking(o, d, plan, c)
    BY List3, List2 DEF Booking
  <1>10. Rebuilding(o, d, plan, c)
    BY <1>2, <1>3, <1>4, <1>5, <1>6, <1>7, <1>8, <1>9 DEF Working
  <1>11. Tail(plan) = <<>>
    BY <1>10, List1 DEF Rebuilding
  <1>12. Rebuilding(o, d, <<PutAccount(d.ledger)>>, c)
    BY <1>10 DEF Rebuilding
  <1>. QED
    BY <1>2, <1>11, <1>12 DEF Track, Working

\* The debt a request starts with.
LEMMA Starting ==
  ASSUME NEW c \in Nat, NEW br, NEW iss, NEW d, NEW o \in iss,
         Rest(d, c, br, iss)
  PROVE  /\ o \in OrderIds /\ Around(d, o, c, br, iss) /\ Spared(d, o, c, br)
         /\ Owes(d, o, c, o \in DOMAIN d.orders => SettledIn(d, o))
  <1>1. o \in OrderIds /\ Around(d, o, c, br, iss) /\ Spared(d, o, c, br)
    BY DEF Rest, Around, Doc
  <1>2. o \in Unsettled(d) <=> ~(o \in DOMAIN d.orders => SettledIn(d, o))
    BY DEF Unsettled
  <1>3. /\ Cardinality(Unsettled(d)) <= c
        /\ Cardinality(Unsettled(d)) \in Nat /\ Cardinality(Others(d, o)) \in Nat
        /\ Cardinality(Unsettled(d)) =
             Cardinality(Others(d, o)) + (IF o \in Unsettled(d) THEN 1 ELSE 0)
    BY Debts DEF Rest
  <1>4. Owes(d, o, c, o \in DOMAIN d.orders => SettledIn(d, o))
    BY <1>2, <1>3 DEF Owes
  <1>. QED
    BY <1>1, <1>4

\* Handing out a new id, and sending an order to the broker, leave the document as it was.
LEMMA RestGrows ==
  ASSUME NEW c \in Nat, NEW br, NEW iss, NEW d, Rest(d, c, br, iss),
         NEW o \in OrderIds
  PROVE  Rest(d, c, br, iss \cup {o}) /\ Rest(d, c, br \cup {o}, iss)
  <1>1. Doc(d, iss \cup {o})
    BY DEF Rest, Doc
  <1>2. \A p \in OrderIds : d.fills[p] \in Nat /\ Spare(p, c, br) <= Spare(p, c, br \cup {o})
    BY DEF Rest, Doc, Spare
  <1>3. \A p \in OrderIds : Spare(p, c, br) \in Nat /\ Spare(p, c, br \cup {o}) \in Nat
    BY DEF Spare
  <1>4. ASSUME NEW p \in OrderIds PROVE d.fills[p] <= 1 + Spare(p, c, br \cup {o})
    <2>1. d.fills[p] <= 1 + Spare(p, c, br)
      BY DEF Rest, Counted
    <2>. QED
      BY <1>2, <1>3, <2>1
  <1>5. \A p \in OrderIds : Spared(d, p, c, br \cup {o})
    BY <1>2, <1>3 DEF Rest, Spared
  <1>. QED
    BY <1>1, <1>4, <1>5 DEF Rest, Counted

\* A request that stores a row and executes nothing.
LEMMA StoringStarts ==
  ASSUME NEW c \in Nat, NEW br, NEW iss, NEW d, NEW o \in iss, NEW row \in Rows,
         Rest(d, c, br, iss),
         IF o \in DOMAIN d.orders
         THEN /\ Due(d.orders[o].status) \subseteq Due(row.status)
              /\ row.status = "APPROVED" => d.orders[o].status = "APPROVED"
         ELSE row.status = "APPROVED" /\ d.fills[o] = 0,
         NEW plan,
         plan \in {<<Touch, Touch, Touch, PutOrder(o, row)>>, <<PutOrder(o, row), Touch>>}
  PROVE  Track(d, plan, c, br, iss)
  <1>1. /\ o \in OrderIds /\ Around(d, o, c, br, iss) /\ Spared(d, o, c, br)
        /\ Owes(d, o, c, o \in DOMAIN d.orders => SettledIn(d, o))
    BY Starting
  <1>2. row.status = "APPROVED" => d.fills[o] <= Spare(o, c, br)
    BY <1>1 DEF Spared, MayStillExecute
  <1>3. (o \in DOMAIN d.orders => SettledIn(d, o)) => Even(d, o, row.status)
    <2>1. CASE o \in DOMAIN d.orders
      BY <2>1 DEF SettledIn, Even
    <2>2. CASE o \notin DOMAIN d.orders
      <3>1. d.fills[o] = 0 /\ d.ledger[o] = 0 /\ d.account[o] = 0
        BY <1>1, <2>2 DEF Around, InOrder, Doc
      <3>. QED
        BY <2>2, <3>1 DEF Even, Due, Executed
    <2>. QED
      BY <2>1, <2>2
  <1>4. Owes(d, o, c, Even(d, o, row.status))
    BY <1>1, <1>3 DEF Owes
  <1>5. Storing(o, row, d, plan, c, br)
    BY <1>2, <1>4 DEF Storing
  <1>. QED
    BY <1>1, <1>5 DEF Track, Working

\* A request that executes an approved order.
LEMMA ExecutionStarts ==
  ASSUME NEW c \in Nat, NEW br, NEW iss, NEW d, NEW o \in iss, NEW row \in Rows,
         Rest(d, c, br, iss), o \in DOMAIN d.orders, d.orders[o].status = "APPROVED",
         Executed(row.status),
         NEW plan,
         \/ plan = <<PutOrder(o, row), PutFill(o), Touch, PutLedger(o), Rebuild>>
         \/ o \in br /\ plan = <<PutFill(o), PutLedger(o), PutOrder(o, row), Rebuild>>
  PROVE  Track(d, plan, c, br, iss)
  <1>1. /\ o \in OrderIds /\ Around(d, o, c, br, iss) /\ Spared(d, o, c, br)
        /\ Owes(d, o, c, SettledIn(d, o))
    BY Starting DEF Owes
  <1>2. d.fills[o] <= Spare(o, c, br)
    BY <1>1 DEF Spared, MayStillExecute
  <1>3. SettledIn(d, o) => Count(d, o, 0, 0)
    BY DEF SettledIn, Count, Due, Executed
  <1>4. Owes(d, o, c, Count(d, o, 0, 0))
    BY <1>1, <1>3 DEF Owes
  <1>5. Simulating(o, row, d, plan, c, br) \/ BrokerFilling(o, row, d, plan, c, br)
    BY <1>2, <1>4 DEF Simulating, BrokerFilling
  <1>. QED
    BY <1>1, <1>5 DEF Track, Working

-----------------------------------------------------------------------------
(* The invariant.                                                          *)

\* What to show of a step of the only handler at work.
LEMMA StepKeeps ==
  ASSUME NEW h \in Threads, OthersIdle(h), HandlerTypes, HandlerTypes',
         NEW v, handler' = [handler EXCEPT ![h] = v],
         v.stage = "idle" => Rest(db, crashes, SentToBroker, issued)',
         v.stage # "idle" => HandlerInv(h)'
  PROVE  StoreInv'
  <1>1. handler'[h] = v /\ \A t \in Threads \ {h} : handler'[t] = handler[t]
    BY DEF HandlerTypes
  <1>2. \A t \in Threads \ {h} : handler'[t].stage = "idle"
    BY <1>1 DEF OthersIdle
  <1>3. \A t \in Threads : handler'[t].stage = "idle" => HandlerInv(t)'
    BY DEF HandlerInv
  <1>. QED
    BY <1>1, <1>2, <1>3 DEF StoreInv, Quiet

\* A step of the handler's plan.
LEMMA LoadKeeps ==
  ASSUME NEW h \in Threads, OthersIdle(h), StoreInv, Load(h)
  PROVE  StoreInv'
  <1>. DEFINE act == Head(handler[h].todo)  rest == Tail(handler[h].todo)
  <1>1. /\ handler[h].stage = "load" /\ file = "whole" /\ handler[h].todo # <<>>
        /\ Tracks(db, handler[h].todo)
    BY DEF Load, StoreInv, HandlerInv
  <1>2. UNCHANGED <<db, file, issued, reserved, requests, crashes>>
    BY DEF Load
  <1>3. crashes \in Nat /\ SentToBroker' = SentToBroker
    BY <1>2 DEF StoreInv, HandlerTypes, SentToBroker, ToBroker
  <1>4. CASE act.op = "rebuild"
    <2>1. rest = <<>> /\ Tracks(db, <<PutAccount(db.ledger)>>)
      BY <1>1, <1>3, <1>4, RebuildAdvances DEF Tracks
    <2>2. handler' = [handler EXCEPT ![h] =
            [stage |-> "load", todo |-> <<PutAccount(db.ledger)>> \o rest, copy |-> EmptyDb]]
      BY <1>1, <1>4 DEF Load, Plan
    <2>3. <<PutAccount(db.ledger)>> \o rest = <<PutAccount(db.ledger)>>
      BY <2>1, List1
    <2>4. /\ handler'[h].stage = "load" /\ handler'[h].todo = <<PutAccount(db.ledger)>>
          /\ HandlerTypes'
      BY <1>2, <2>2, <2>3 DEF StoreInv, HandlerTypes
    <2>5. <<PutAccount(db.ledger)>> # <<>>
      BY List1
    <2>6. HandlerInv(h)'
      BY <1>1, <1>2, <1>3, <2>1, <2>4, <2>5 DEF HandlerInv, Tracks
    <2>. QED
      BY <2>2, <2>4, <2>6, StepKeeps DEF StoreInv
  <1>5. CASE act.op # "rebuild"
    <2>1. Tracks(Apply(act, db), rest)
      BY <1>1, <1>3, <1>5, TrackAdvances DEF Tracks
    <2>2. During(db, crashes, SentToBroker, issued)
      BY <1>1, <1>3, TrackIsDuring DEF Tracks
    <2>3. handler' = [handler EXCEPT ![h] =
            [stage |-> "truncate", todo |-> rest, copy |-> Apply(act, db)]]
      BY <1>1, <1>5 DEF Load
    <2>. HIDE DEF act, rest
    <2>4. /\ handler'[h].stage = "truncate" /\ handler'[h].todo = rest
          /\ handler'[h].copy = Apply(act, db)
          /\ HandlerTypes'
      BY <1>2, <2>3 DEF StoreInv, HandlerTypes
    <2>5. HandlerInv(h)'
      BY <1>1, <1>2, <1>3, <2>1, <2>2, <2>4 DEF HandlerInv, Tracks
    <2>. QED
      BY <2>3, <2>4, <2>5, StepKeeps DEF StoreInv
  <1>. QED
    BY <1>4, <1>5

LEMMA TruncateKeeps ==
  ASSUME NEW h \in Threads, OthersIdle(h), StoreInv, Truncate(h)
  PROVE  StoreInv'
  <1>1. /\ handler[h].stage = "truncate" /\ file' = "empty"
        /\ handler' = [handler EXCEPT ![h].stage = "write"]
        /\ UNCHANGED <<db, issued, reserved, crashes>>
    BY DEF Truncate
  <1>2. SentToBroker' = SentToBroker
    BY <1>1 DEF SentToBroker, ToBroker
  <1>3. /\ handler'[h].stage = "write" /\ handler'[h].todo = handler[h].todo
        /\ handler'[h].copy = handler[h].copy /\ HandlerTypes'
    BY <1>1 DEF StoreInv, HandlerTypes
  <1>4. HandlerInv(h)'
    BY <1>1, <1>2, <1>3 DEF StoreInv, HandlerInv, Tracks
  <1> DEFINE v == [handler[h] EXCEPT !.stage = "write"]
  <1>5. handler' = [handler EXCEPT ![h] = v] /\ v.stage = "write"
    BY <1>1 DEF StoreInv, HandlerTypes
  <1> HIDE DEF v
  <1>. QED
    BY <1>3, <1>4, <1>5, StepKeeps DEF StoreInv

LEMMA WriteKeeps ==
  ASSUME NEW h \in Threads, OthersIdle(h), StoreInv, Write(h)
  PROVE  StoreInv'
  <1>1. /\ handler[h].stage = "write" /\ file = "empty"
        /\ Tracks(handler[h].copy, handler[h].todo)
    BY DEF Write, StoreInv, HandlerInv
  <1>2. /\ db' = handler[h].copy /\ file' = "whole"
        /\ UNCHANGED <<issued, reserved, crashes>>
    BY <1>1 DEF Write
  <1>3. SentToBroker' = SentToBroker /\ crashes \in Nat
    BY <1>2 DEF SentToBroker, ToBroker, StoreInv, HandlerTypes
  <1>4. CASE handler[h].todo = <<>>
    <2>1. Rest(db', crashes, SentToBroker, issued)
      BY <1>1, <1>2, <1>3, <1>4, TrackEnds DEF Tracks
    <2>2. handler' = [handler EXCEPT ![h] = Idle]
      BY <1>4 DEF Write, Finish
    <2>3. handler'[h].stage = "idle" /\ HandlerTypes'
      BY <1>2, <2>2 DEF StoreInv, HandlerTypes, Idle
    <2>. QED
      BY <1>2, <1>3, <2>1, <2>2, <2>3, StepKeeps DEF StoreInv, Idle
  <1>5. CASE handler[h].todo # <<>>
    <2>1. handler' = [handler EXCEPT ![h] =
            [stage |-> "load", todo |-> handler[h].todo, copy |-> EmptyDb]]
      BY <1>5 DEF Write, Plan
    <2>2. handler'[h].stage = "load" /\ handler'[h].todo = handler[h].todo /\ HandlerTypes'
      BY <1>2, <2>1 DEF StoreInv, HandlerTypes
    <2>3. HandlerInv(h)'
      BY <1>1, <1>2, <1>3, <1>5, <2>2 DEF HandlerInv, Tracks
    <2>. QED
      BY <2>1, <2>2, <2>3, StepKeeps DEF StoreInv
  <1>. QED
    BY <1>4, <1>5

\* At any time one more crash accounts for what is under way.
LEMMA StoreIsDuring ==
  ASSUME Solo, StoreInv
  PROVE  During(db, crashes, SentToBroker, issued)
  <1>1. crashes \in Nat
    BY DEF StoreInv, HandlerTypes
  <1>2. CASE Quiet
    BY <1>1, <1>2, RestIsDuring DEF StoreInv
  <1>3. ASSUME NEW h \in Threads, handler[h].stage = "load"
        PROVE  During(db, crashes, SentToBroker, issued)
    BY <1>1, <1>3, TrackIsDuring DEF StoreInv, HandlerInv, Tracks
  <1>4. ASSUME NEW h \in Threads, handler[h].stage \in {"truncate", "write"}
        PROVE  During(db, crashes, SentToBroker, issued)
    BY <1>4 DEF StoreInv, HandlerInv
  <1>. QED
    BY <1>2, <1>3, <1>4 DEF Quiet, StoreInv, HandlerTypes

LEMMA CrashKeeps ==
  ASSUME Solo, StoreInv, Crash
  PROVE  StoreInv'
  <1>1. /\ crashes' = crashes + 1 /\ crashes \in Nat
        /\ handler' = [t \in Threads |-> Idle]
        /\ UNCHANGED <<db, issued, reserved>>
    BY DEF Crash, StoreInv, HandlerTypes
  <1>2. SentToBroker' = SentToBroker
    BY <1>1 DEF SentToBroker, ToBroker
  <1>3. Rest(db, crashes + 1, SentToBroker, issued)
    BY <1>1, StoreIsDuring, DuringIsRest
  <1>4. (\A t \in Threads : handler'[t].stage = "idle") /\ HandlerTypes'
    BY <1>1 DEF StoreInv, HandlerTypes, Idle
  <1>. QED
    BY <1>1, <1>2, <1>3, <1>4 DEF StoreInv, HandlerInv

\* A request begins on a settled store.
LEMMA RequestKeeps ==
  ASSUME NEW h \in Threads, OthersIdle(h), StoreInv, NEW kind, Begin(h, kind), NEW plan, Plan(h, plan),
         plan # <<>>, reserved' \in [Keys -> SUBSET OrderIds],
         Track(db, plan, crashes, SentToBroker', issued')
  PROVE  StoreInv'
  <1>1. /\ UNCHANGED <<db, file, crashes>> /\ file = "whole"
        /\ handler' = [handler EXCEPT ![h] = [stage |-> "load", todo |-> plan, copy |-> EmptyDb]]
    BY DEF Begin, Plan
  <1>2. handler'[h].stage = "load" /\ handler'[h].todo = plan /\ HandlerTypes'
    BY <1>1 DEF StoreInv, HandlerTypes
  <1>3. HandlerInv(h)'
    BY <1>1, <1>2 DEF HandlerInv, Tracks
  <1>. QED
    BY <1>1, <1>2, <1>3, StepKeeps DEF StoreInv

\* A request begins when the others have ended.
LEMMA Settling ==
  ASSUME NEW h \in Threads, OthersIdle(h), StoreInv, NEW kind, Begin(h, kind)
  PROVE  /\ Rest(db, crashes, SentToBroker, issued) /\ crashes \in Nat
         /\ reserved \in [Keys -> SUBSET OrderIds]
  <1>1. Quiet
    BY DEF Begin, OthersIdle, Quiet
  <1>. QED
    BY <1>1 DEF StoreInv, HandlerTypes

LEMMA SubmitKeeps ==
  ASSUME NEW h \in Threads, OthersIdle(h), StoreInv, NEW k \in Keys, Submit(h, k)
  PROVE  StoreInv'
  <1>1. /\ Rest(db, crashes, SentToBroker, issued) /\ crashes \in Nat
        /\ Begin(h, "submit") /\ reserved' = reserved
        /\ reserved' \in [Keys -> SUBSET OrderIds]
    BY Settling DEF Submit
  <1>2. SentToBroker' = SentToBroker
    BY <1>1 DEF SentToBroker, ToBroker
  <1>3. ASSUME NEW o \in DOMAIN db.orders, UNCHANGED issued,
               Plan(h, <<Touch, Touch, Touch, PutOrder(o, db.orders[o])>>)
        PROVE  StoreInv'
    <2>1. o \in issued /\ db.orders[o] \in Rows
      BY <1>1 DEF Rest, Doc
    <2>2. Track(db, <<Touch, Touch, Touch, PutOrder(o, db.orders[o])>>, crashes, SentToBroker, issued)
      BY <1>1, <2>1, StoringStarts
    <2>3. <<Touch, Touch, Touch, PutOrder(o, db.orders[o])>> # <<>>
      BY List4
    <2>. QED
      BY <1>1, <1>2, <1>3, <2>2, <2>3, RequestKeeps
  <1>4. ASSUME UNCHANGED issued, Plan(h, <<Touch, Touch, Touch>>)
        PROVE  StoreInv'
    <2>1. Track(db, <<Touch, Touch, Touch>>, crashes, SentToBroker, issued)
      BY <1>1 DEF Track, Touches
    <2>2. <<Touch, Touch, Touch>> # <<>>
      BY List3
    <2>. QED
      BY <1>1, <1>2, <1>4, <2>1, <2>2, RequestKeeps
  <1>5. ASSUME NEW o \in OrderIds \ issued, issued' = issued \cup {o},
               Plan(h, <<Touch, Touch, Touch, PutOrder(o, [key |-> k, status |-> "APPROVED"])>>)
        PROVE  StoreInv'
    <2>. DEFINE row == [key |-> k, status |-> "APPROVED"]
                plan == <<Touch, Touch, Touch, PutOrder(o, row)>>
    <2>1. Rest(db, crashes, SentToBroker, issued') /\ o \in issued'
      BY <1>1, <1>5, RestGrows
    <2>2. o \notin DOMAIN db.orders /\ db.fills[o] = 0
      BY <1>1 DEF Rest, Doc
    <2>3. row \in Rows /\ row.status = "APPROVED"
      BY DEF Rows, Stored
    <2>4. Track(db, plan, crashes, SentToBroker, issued')
      <3>. HIDE DEF row
      <3>. QED
        BY <1>1, <2>1, <2>2, <2>3, StoringStarts
    <2>5. plan # <<>> /\ Plan(h, plan)
      BY <1>5, List4
    <2>. HIDE DEF plan
    <2>. QED
      BY <1>1, <1>2, <2>4, <2>5, RequestKeeps
  <1>. QED
    BY <1>3, <1>4, <1>5 DEF Submit

LEMMA SimulateKeeps ==
  ASSUME NEW h \in Threads, OthersIdle(h), StoreInv, NEW o \in DOMAIN db.orders, Simulate(h, o)
  PROVE  StoreInv'
  <1>1. /\ Rest(db, crashes, SentToBroker, issued) /\ crashes \in Nat
        /\ Begin(h, "simulate") /\ UNCHANGED <<issued, reserved>>
        /\ reserved' \in [Keys -> SUBSET OrderIds]
        /\ MaySimulate(db.orders[o].status)
    BY Settling DEF Simulate
  <1>2. SentToBroker' = SentToBroker
    BY <1>1 DEF SentToBroker, ToBroker
  <1>3. o \in issued /\ db.orders[o] \in Rows
    BY <1>1 DEF Rest, Doc
  <1>4. db.orders[o].status = "APPROVED"
    BY <1>1, <1>3 DEF MaySimulate, CanTransition, ValidTransitions, Status, Rows, Stored
  <1>5. PICK plan \in SimulationPlans(o) : Plan(h, plan)
    BY DEF Simulate
  <1>6. plan # <<>> /\ Track(db, plan, crashes, SentToBroker, issued)
    <2>1. ASSUME NEW s \in {"ACKNOWLEDGED", "PARTIALLY_FILLED", "FILLED"}
          PROVE  [db.orders[o] EXCEPT !.status = s] \in Rows
                 /\ [db.orders[o] EXCEPT !.status = s].status = s
      BY <1>3 DEF Rows, Stored
    <2>2. CASE plan = <<Become(o, "ACKNOWLEDGED"), Touch>>
      <3>. DEFINE row == [db.orders[o] EXCEPT !.status = "ACKNOWLEDGED"]
      <3>1. row \in Rows /\ row.status = "ACKNOWLEDGED" /\ plan = <<PutOrder(o, row), Touch>>
        BY <2>1, <2>2 DEF Become
      <3>2. Due("APPROVED") \subseteq Due("ACKNOWLEDGED")
        BY DEF Due, Executed
      <3>. HIDE DEF row
      <3>3. Track(db, plan, crashes, SentToBroker, issued)
        BY <1>1, <1>3, <1>4, <3>1, <3>2, StoringStarts
      <3>. QED
        BY <3>1, <3>3, List2
    <2>3. ASSUME NEW s \in {"PARTIALLY_FILLED", "FILLED"},
                 plan = <<Become(o, s), PutFill(o), Touch, PutLedger(o), Rebuild>>
          PROVE  plan # <<>> /\ Track(db, plan, crashes, SentToBroker, issued)
      <3>. DEFINE row == [db.orders[o] EXCEPT !.status = s]
      <3>1. row \in Rows /\ Executed(row.status)
            /\ plan = <<PutOrder(o, row), PutFill(o), Touch, PutLedger(o), Rebuild>>
        BY <2>1, <2>3 DEF Become, Executed
      <3>. HIDE DEF row
      <3>2. Track(db, plan, crashes, SentToBroker, issued)
        BY <1>1, <1>3, <1>4, <3>1, ExecutionStarts
      <3>. QED
        BY <3>1, <3>2, List5
    <2>. QED
      BY <2>2, <2>3 DEF SimulationPlans
  <1>. QED
    BY <1>1, <1>2, <1>5, <1>6, RequestKeeps

LEMMA CancelKeeps ==
  ASSUME NEW h \in Threads, OthersIdle(h), StoreInv, NEW o \in DOMAIN db.orders, Cancel(h, o)
  PROVE  StoreInv'
  <1>1. /\ Rest(db, crashes, SentToBroker, issued) /\ crashes \in Nat
        /\ Begin(h, "cancel") /\ UNCHANGED <<issued, reserved>>
        /\ reserved' \in [Keys -> SUBSET OrderIds]
        /\ MayCancel(db.orders[o].status)
        /\ Plan(h, <<Become(o, "CANCELLED"), Touch>>)
    BY Settling DEF Cancel
  <1>2. SentToBroker' = SentToBroker
    BY <1>1 DEF SentToBroker, ToBroker
  <1>3. o \in issued /\ db.orders[o] \in Rows
    BY <1>1 DEF Rest, Doc
  <1>. DEFINE row == [db.orders[o] EXCEPT !.status = "CANCELLED"]
              plan == <<PutOrder(o, row), Touch>>
  <1>4. row \in Rows /\ row.status = "CANCELLED"
    BY <1>3 DEF Rows, Stored
  <1>5. Due(db.orders[o].status) \subseteq Due("CANCELLED")
    BY DEF Due, Executed
  <1>6. Track(db, plan, crashes, SentToBroker, issued)
    <2>. HIDE DEF row
    <2>. QED
      BY <1>1, <1>3, <1>4, <1>5, StoringStarts
  <1>7. plan # <<>> /\ Plan(h, plan)
    BY <1>1, List2 DEF Become
  <1>. HIDE DEF plan
  <1>. QED
    BY <1>1, <1>2, <1>6, <1>7, RequestKeeps

LEMMA BrokerKeeps ==
  ASSUME NEW h \in Threads, OthersIdle(h), StoreInv, NEW o \in DOMAIN db.orders, SubmitToBroker(h, o)
  PROVE  StoreInv'
  <1>. DEFINE k == db.orders[o].key
  <1>1. /\ Rest(db, crashes, SentToBroker, issued) /\ crashes \in Nat
        /\ Begin(h, "broker") /\ UNCHANGED issued
        /\ reserved \in [Keys -> SUBSET OrderIds]
        /\ db.orders[o].status = "APPROVED" /\ reserved[k] \subseteq {o}
        /\ reserved' = [reserved EXCEPT ![k] = {o}]
        /\ Plan(h, BrokerPlan(o))
    BY Settling DEF SubmitToBroker
  <1>2. o \in issued /\ o \in OrderIds /\ db.orders[o] \in Rows /\ k \in Keys
    BY <1>1 DEF Rest, Doc, Rows
  <1>3. SentToBroker' = SentToBroker \cup {o}
    <2>1. \A p \in OrderIds : p # o => (ToBroker(p)' <=> ToBroker(p))
      BY <1>1, <1>2 DEF ToBroker
    <2>2. ToBroker(o)'
      BY <1>1, <1>2 DEF ToBroker
    <2>. QED
      BY <1>2, <2>1, <2>2 DEF SentToBroker
  <1>. DEFINE row == [db.orders[o] EXCEPT !.status = "FILLED"]
              plan == <<PutFill(o), PutLedger(o), PutOrder(o, row), Rebuild>>
  <1>4. row \in Rows /\ Executed(row.status)
    BY <1>2 DEF Rows, Stored, Executed
  <1>5. Rest(db, crashes, SentToBroker', issued)
    BY <1>1, <1>2, <1>3, RestGrows
  <1>6. Track(db, plan, crashes, SentToBroker', issued)
    <2>. HIDE DEF row
    <2>. QED
      BY <1>1, <1>2, <1>3, <1>4, <1>5, ExecutionStarts
  <1>7. plan # <<>> /\ Plan(h, plan)
    BY <1>1, List4 DEF Become, BrokerPlan
  <1>8. reserved' \in [Keys -> SUBSET OrderIds]
    BY <1>1, <1>2
  <1>. HIDE DEF plan
  <1>. QED
    BY <1>1, <1>6, <1>7, <1>8, RequestKeeps

\* The handler that takes a step is at work before it or after it, and alone.
LEMMA Alone ==
  ASSUME Solo, Solo', StoreInv, NEW h \in Threads,
         \/ handler[h].stage # "idle"
         \/ \E plan : Plan(h, plan)
  PROVE  OthersIdle(h)
  <1>1. CASE handler[h].stage # "idle"
    BY <1>1 DEF Solo, OthersIdle
  <1>2. ASSUME NEW plan, Plan(h, plan) PROVE OthersIdle(h)
    <2>1. handler'[h].stage = "load" /\ \A t \in Threads \ {h} : handler'[t] = handler[t]
      BY <1>2 DEF Plan, StoreInv, HandlerTypes
    <2>. QED
      BY <2>1 DEF Solo, OthersIdle
  <1>. QED
    BY <1>1, <1>2

LEMMA StoreInvStays ==
  ASSUME Solo, Solo', StoreInv, [Next]_vars
  PROVE  StoreInv'
  <1>1. CASE UNCHANGED vars
    <2>1. SentToBroker' = SentToBroker
      BY <1>1 DEF vars, SentToBroker, ToBroker
    <2>. QED
      BY <1>1, <2>1 DEF vars, StoreInv, HandlerInv, HandlerTypes, Tracks, Quiet
  <1>2. ASSUME NEW h \in Threads, NEW k \in Keys, Submit(h, k) PROVE StoreInv'
    <2>1. OthersIdle(h)
      BY <1>2, Alone DEF Submit
    <2>. QED
      BY <1>2, <2>1, SubmitKeeps
  <1>3. ASSUME NEW h \in Threads, NEW o \in DOMAIN db.orders,
               Simulate(h, o) \/ Cancel(h, o) \/ SubmitToBroker(h, o)
        PROVE  StoreInv'
    <2>1. OthersIdle(h)
      BY <1>3, Alone DEF Simulate, Cancel, SubmitToBroker
    <2>. QED
      BY <1>3, <2>1, SimulateKeeps, CancelKeeps, BrokerKeeps
  <1>4. ASSUME NEW h \in Threads, Load(h) \/ Truncate(h) \/ Write(h) PROVE StoreInv'
    <2>1. OthersIdle(h)
      BY <1>4, Alone DEF Load, Truncate, Write
    <2>. QED
      BY <1>4, <2>1, LoadKeeps, TruncateKeeps, WriteKeeps
  <1>5. CASE Crash
    BY <1>5, CrashKeeps
  <1>. QED
    BY <1>1, <1>2, <1>3, <1>4, <1>5 DEF Next

\* Whichever handlers serve them, requests that do not overlap keep it.
LEMMA StoreInvariant == Spec /\ []Solo => []StoreInv
  <1>1. Init => StoreInv
    <2>. SUFFICES ASSUME Init PROVE StoreInv
      OBVIOUS
    <2>1. /\ db = EmptyDb /\ handler = [t \in Threads |-> Idle] /\ issued = {}
          /\ reserved = [k \in Keys |-> {}] /\ crashes = 0
      BY DEF Init
    <2>2. HandlerTypes /\ \A h \in Threads : handler[h].stage = "idle"
      BY <2>1 DEF HandlerTypes, Idle
    <2>3. /\ DOMAIN db = {"orders", "fills", "ledger", "account"} /\ DOMAIN db.orders = {}
          /\ db.fills = NoEntries /\ db.ledger = NoEntries /\ db.account = NoEntries
      BY <2>1 DEF EmptyDb, NoOrders
    <2>4. Doc(db, issued) /\ InOrder(db)
      BY <2>1, <2>3 DEF Doc, InOrder, NoEntries
    <2>5. Counted(db, crashes, SentToBroker) /\ \A o \in OrderIds : Spared(db, o, crashes, SentToBroker)
      BY <2>1, <2>3 DEF Counted, Spared, Spare, NoEntries
    <2>6. Cardinality(Unsettled(db)) = 0
      <3>1. Unsettled(db) = {}
        BY <2>3 DEF Unsettled
      <3>. QED
        BY <3>1, FS_EmptySet
    <2>. QED
      BY <2>1, <2>2, <2>4, <2>5, <2>6 DEF StoreInv, HandlerInv, Rest
  <1>2. StoreInv /\ Solo /\ Solo' /\ [Next]_vars => StoreInv'
    BY StoreInvStays
  <1>. QED
    BY <1>1, <1>2, PTL DEF Spec

-----------------------------------------------------------------------------
(* Theorems.                                                               *)

\* Where requests do not overlap, every write leaves a document whose account
\* reflects no entry the ledger lacks and whose ledger books no execution that is
\* not stored.
THEOREM WritesAreOrdered == Spec /\ []Solo => []EntriesInOrder
  <1>1. Solo /\ StoreInv => EntriesInOrder
    BY StoreIsDuring DEF During, InOrder, EntriesInOrder
  <1>. QED
    BY <1>1, StoreInvariant, PTL

\* Where requests do not overlap, an order with a stored fill can never be simulated
\* again, at whatever write a crash hits, unless it went to the broker.
THEOREM FilledIsMarked == Spec /\ []Solo => []StatusBeforeFill
  <1>1. Solo /\ StoreInv => StatusBeforeFill
    <2>. SUFFICES ASSUME Solo, StoreInv, NEW o \in OrderIds, db.fills[o] > 0, ~ToBroker(o)
                  PROVE  /\ o \in DOMAIN db.orders
                         /\ ~CanTransition(db.orders[o].status, "SUBMITTED_TO_SIMULATOR")
      BY DEF StatusBeforeFill
    <2>1. During(db, crashes, SentToBroker, issued) /\ o \notin SentToBroker
      BY StoreIsDuring DEF SentToBroker
    <2>2. ~MayStillExecute(db, o)
      BY <2>1 DEF During, Doc, Spared, Spare
    <2>3. o \in DOMAIN db.orders /\ db.orders[o] \in Rows /\ db.orders[o].status # "APPROVED"
      BY <2>1, <2>2 DEF MayStillExecute, During, Doc
    <2>. QED
      BY <2>3 DEF CanTransition, ValidTransitions, Status, Rows, Stored
  <1>. QED
    BY <1>1, StoreInvariant, PTL

\* Where requests do not overlap, no order executes twice, through any number of
\* crashes and repetitions and whichever handler serves them, but for once more per
\* crash of the broker route.
THEOREM ExecutedOnce == Spec /\ []Solo => []NoDoubleFill
  <1>1. Solo /\ StoreInv => NoDoubleFill
    BY StoreIsDuring DEF During, Counted, Spare, SentToBroker, NoDoubleFill
  <1>. QED
    BY <1>1, StoreInvariant, PTL

\* Where requests do not overlap, a crash leaves at most one order unsettled, that
\* of the request it ended, for any number of orders, requests and crashes.
THEOREM CrashesUnsettle == Spec /\ []Solo => []UnsettledAreCrashes
  <1>1. StoreInv => UnsettledAreCrashes
    <2>. SUFFICES ASSUME StoreInv, Quiet
                  PROVE  Cardinality({o \in DOMAIN db.orders : ~Settled(o)}) <= crashes
      BY DEF UnsettledAreCrashes
    <2>1. Rest(db, crashes, SentToBroker, issued)
      BY DEF StoreInv
    <2>2. {o \in DOMAIN db.orders : ~Settled(o)} = Unsettled(db)
      BY DEF Settled, SettledIn, Unsettled
    <2>. QED
      BY <2>1, <2>2 DEF Rest
  <1>. QED
    BY <1>1, StoreInvariant, PTL

-----------------------------------------------------------------------------
(* Any number of handlers.                                                 *)

\* Without a crash, a truncated file has a handler at work that will write it.
WriterAtWork ==
  /\ handler = [t \in Threads |-> handler[t]]
  /\ crashes \in Nat
  /\ \A t \in Threads : DOMAIN handler[t] = {"stage", "todo", "copy"}
  /\ file = "empty" /\ crashes = 0 => \E t \in Threads : handler[t].stage = "write"

LEMMA WriterStays == ASSUME WriterAtWork, [Next]_vars PROVE WriterAtWork'
  <1>. USE DEF WriterAtWork
  <1>1. CASE UNCHANGED vars
    BY <1>1 DEF vars
  <1>2. ASSUME NEW t \in Threads, NEW plan, Plan(t, plan), handler[t].stage # "write",
               UNCHANGED <<file, crashes>>
        PROVE  WriterAtWork'
    BY <1>2 DEF Plan
  <1>3. ASSUME NEW t \in Threads, NEW k \in Keys, Submit(t, k) PROVE WriterAtWork'
    BY <1>2, <1>3 DEF Submit, Begin
  <1>4. ASSUME NEW t \in Threads, NEW o, Simulate(t, o) \/ Cancel(t, o) \/ SubmitToBroker(t, o)
        PROVE  WriterAtWork'
    BY <1>2, <1>4 DEF Simulate, Cancel, SubmitToBroker, Begin
  <1>5. ASSUME NEW t \in Threads, Load(t) PROVE WriterAtWork'
    <2>1. CASE handler' = [handler EXCEPT ![t] = Idle]
      BY <1>5, <2>1 DEF Load, Idle
    <2>2. CASE \E plan : Plan(t, plan)
      BY <1>2, <1>5, <2>2 DEF Load
    <2>3. CASE \E rest, e : handler' = [handler EXCEPT ![t] =
                              [stage |-> "truncate", todo |-> rest, copy |-> e]]
      BY <1>5, <2>3 DEF Load
    <2>. QED
      BY <1>5, <2>1, <2>2, <2>3 DEF Load, Finish
  <1>6. ASSUME NEW t \in Threads, Truncate(t) PROVE WriterAtWork'
    BY <1>6 DEF Truncate
  <1>7. ASSUME NEW t \in Threads, Write(t) PROVE WriterAtWork'
    <2>1. file' # "empty" /\ crashes' = crashes
      BY <1>7 DEF Write
    <2>2. \E v : DOMAIN v = {"stage", "todo", "copy"} /\ handler' = [handler EXCEPT ![t] = v]
      BY <1>7 DEF Write, Finish, Plan, Idle
    <2>. QED
      BY <2>1, <2>2
  <1>8. CASE Crash
    BY <1>8 DEF Crash, Idle
  <1>. QED
    BY <1>1, <1>3, <1>4, <1>5, <1>6, <1>7, <1>8 DEF Next

\* However many handlers work at once, a file left truncated is the doing of a
\* crash: a handler that gives up on a load interrupts no other's write.
THEOREM TruncationsComplete == Spec => []TruncationsAreCompleted
  <1>1. Init => WriterAtWork
    BY DEF Init, Idle, WriterAtWork
  <1>2. WriterAtWork /\ [Next]_vars => WriterAtWork'
    BY WriterStays
  <1>3. WriterAtWork => TruncationsAreCompleted
    BY DEF WriterAtWork, TruncationsAreCompleted, Quiet
  <1>. QED
    BY <1>1, <1>2, <1>3, PTL DEF Spec

=============================================================================
