---------------------------- MODULE VirtualPaper ----------------------------
(***************************************************************************)
(* PaperTradingEngine and POST /paper/orders: the virtual orders of one    *)
(* portfolio.  The tick listener keeps the last price of every symbol and  *)
(* queues the tick; a worker takes ticks off the queue and fills what they *)
(* reach, one order after the other in one transaction per tick; a market  *)
(* order is filled by its own request, at once if the symbol has a price   *)
(* and after an awaited quote if it has none.  All of them run on one      *)
(* event loop, which the worker does not leave within a transaction.       *)
(* Money is in ten-thousandths, so that slippage and commission, both      *)
(* percentages here, stay whole.                                           *)
(***************************************************************************)
EXTENDS Integers, Sequences, FiniteSets, Functions

CONSTANTS
  MaxOrders,          \* bound on the orders placed
  Symbols,
  Kinds,              \* what may be ordered: symbol, side, type, level, qty
  Prices,             \* prices of ticks and quotes
  Slip, Fee,          \* slippage_bps and the default commission, in percent
  Capital,            \* initial_capital
  QueueSize,          \* maxsize of the queue
  MaxTicks, MaxFailures, MaxRestarts     \* bounds of the instance

Orders == 1..MaxOrders
Ticks == [symbol : Symbols, price : Prices]
NoPrice == -1
NoKind == [type |-> "none"]
NoSession == [type |-> "closed"]

ASSUME ConstantsAssumption ==
  /\ Kinds \subseteq [symbol : Symbols, side : {"buy", "sell"},
                      type : {"market", "limit", "sl"}, level : Nat, qty : Nat \ {0}]
  /\ Prices \subseteq Nat /\ {Slip, Fee} \subseteq 0..100
  /\ {MaxOrders, Capital, QueueSize, MaxTicks, MaxFailures, MaxRestarts} \subseteq Nat

VARIABLES
  kind,       \* order -> what was ordered
  book,       \* the stored portfolio: cash, positions, order states, trades
  quoting,    \* orders whose request awaits a quote
  mark,       \* _mark_prices
  queue,      \* ticks waiting for the worker
  session,    \* the worker's database session: its tick, the orders the query
              \* returned, those still to be filled, and the portfolio so far
  raced,      \* orders the worker decided while their request awaited a quote
  touched,    \* orders a tick has reached since they were placed
  missed,     \* ... whose tick was not queued, or not evaluated
  ticks, failures, restarts

history == <<raced, touched, missed>>
bounds == <<ticks, failures, restarts>>
vars == <<kind, book, quoting, mark, queue, session, history, bounds>>

Init ==
  /\ kind = [o \in Orders |-> NoKind]
  /\ book = [cash |-> Capital * 10000,
             held |-> [s \in Symbols |-> 0],
             status |-> [o \in Orders |-> "NONE"],
             trades |-> [o \in Orders |-> <<>>]]
  /\ quoting = {}
  /\ mark = [s \in Symbols |-> NoPrice]
  /\ queue = <<>> /\ session = NoSession
  /\ raced = {} /\ touched = {} /\ missed = {}
  /\ ticks = 0 /\ failures = 0 /\ restarts = 0

Pending == {o \in Orders : book.status[o] = "PENDING"}

-----------------------------------------------------------------------------
(* Filling.                                                                *)

\* _fillable.
Reaches(price, k) ==
  \/ k.type = "market"
  \/ k.type = "limit" /\ (IF k.side = "buy" THEN price <= k.level ELSE price >= k.level)
  \/ k.type = "sl" /\ (IF k.side = "buy" THEN price >= k.level ELSE price <= k.level)

\* What a buy costs and a sale brings, with slippage and commission.
Amount(k, price) ==
  IF k.side = "buy" THEN k.qty * price * (100 + Slip) * (100 + Fee)
  ELSE k.qty * price * (100 - Slip) * (100 - Fee)

\* Variant of Affords: only the position is checked.
AffordsAnyBuy(b, k, price) == k.side = "sell" => b.held[k.symbol] >= k.qty

Affords(b, k, price) ==
  IF k.side = "buy" THEN b.cash >= Amount(k, price) ELSE b.held[k.symbol] >= k.qty

\* Variant of Settle: the cash is written before the position is checked.
SettleEarly(b, o, k, price) ==
  IF ~Affords(b, k, price)
  THEN [b EXCEPT !.status[o] = "REJECTED",
                 !.cash = IF k.side = "sell" THEN @ + Amount(k, price) ELSE @]
  ELSE LET sign == IF k.side = "buy" THEN 1 ELSE -1
       IN [b EXCEPT !.cash = @ - sign * Amount(k, price),
                    !.held[k.symbol] = @ + sign * k.qty,
                    !.status[o] = "FILLED",
                    !.trades[o] = Append(@, price)]

\* _fill_order and _update_position; the order's state is not asked.
Settle(b, o, k, price) ==
  IF ~Affords(b, k, price) THEN [b EXCEPT !.status[o] = "REJECTED"]
  ELSE LET sign == IF k.side = "buy" THEN 1 ELSE -1
       IN [b EXCEPT !.cash = @ - sign * Amount(k, price),
                    !.held[k.symbol] = @ + sign * k.qty,
                    !.status[o] = "FILLED",
                    !.trades[o] = Append(@, price)]

-----------------------------------------------------------------------------
(* The route.                                                              *)

Placed == {o \in Orders : kind[o] # NoKind}

\* The event loop is not inside a transaction of the worker.
LoopIsFree == session = NoSession

KnownPrice(k) == mark[k.symbol] # NoPrice

\* The order is stored as PENDING; a market order is filled at the last price,
\* unless that is zero.
Place(o, k) ==
  /\ LoopIsFree
  /\ o = Cardinality(Placed) + 1
  /\ kind' = [kind EXCEPT ![o] = k]
  /\ LET stored == [book EXCEPT !.status[o] = "PENDING"]
         now == k.type = "market" /\ mark[k.symbol] > 0
     IN book' = IF now THEN Settle(stored, o, k, mark[k.symbol]) ELSE stored
  /\ quoting' = IF k.type = "market" /\ ~KnownPrice(k) THEN quoting \cup {o} ELSE quoting
  /\ UNCHANGED <<mark, queue, session, history, bounds>>

\* The quote comes back; zero stands for none, and for a failed fetch.
QuoteArrives(o, price) ==
  /\ LoopIsFree
  /\ o \in quoting
  /\ quoting' = quoting \ {o}
  /\ book' = IF price > 0 THEN Settle(book, o, kind[o], price) ELSE book
  /\ UNCHANGED <<kind, mark, queue, session, history, bounds>>

-----------------------------------------------------------------------------
(* The ticks.                                                              *)

\* Variant of Reached: decided orders are not left out.
ReachedAny(tick) ==
  {o \in Placed : kind[o].symbol = tick.symbol /\ Reaches(tick.price, kind[o])}

\* The pending orders of the symbol that the tick fills.
Reached(tick) ==
  {o \in Pending : kind[o].symbol = tick.symbol /\ Reaches(tick.price, kind[o])}

\* _on_tick: the price is kept even when the queue is full and drops the tick.
Tick(tick) ==
  /\ LoopIsFree
  /\ ticks < MaxTicks
  /\ ticks' = ticks + 1
  /\ mark' = [mark EXCEPT ![tick.symbol] = tick.price]
  /\ touched' = touched \cup Reached(tick)
  /\ IF Len(queue) < QueueSize
     THEN queue' = Append(queue, tick) /\ UNCHANGED missed
     ELSE missed' = missed \cup Reached(tick) /\ UNCHANGED queue
  /\ UNCHANGED <<kind, book, quoting, session, raced, failures, restarts>>

\* Variant of TakeTick: a tick fills one order.
TakeTickForOne ==
  /\ LoopIsFree /\ queue # <<>>
  /\ LET reached == Reached(Head(queue))
     IN \E left \in SUBSET reached :
          /\ Cardinality(left) <= 1 /\ (reached # {} => left # {})
          /\ session' = [tick |-> Head(queue), reached |-> reached, left |-> left,
                         draft |-> book]
  /\ queue' = Tail(queue)
  /\ UNCHANGED <<kind, book, quoting, mark, history, bounds>>

\* Variant of TakeTick: the worker waits for the requests under way.
TakeTickAlone ==
  /\ LoopIsFree /\ queue # <<>> /\ quoting = {}
  /\ session' = [tick |-> Head(queue), reached |-> Reached(Head(queue)),
                 left |-> Reached(Head(queue)), draft |-> book]
  /\ queue' = Tail(queue)
  /\ UNCHANGED <<kind, book, quoting, mark, history, bounds>>

\* The worker takes a tick and queries the orders it reaches.
TakeTick ==
  /\ LoopIsFree /\ queue # <<>>
  /\ session' = [tick |-> Head(queue), reached |-> Reached(Head(queue)),
                 left |-> Reached(Head(queue)), draft |-> book]
  /\ queue' = Tail(queue)
  /\ UNCHANGED <<kind, book, quoting, mark, history, bounds>>

\* It fills the next of them, in whatever order the query returned them.
FillNext(o) ==
  /\ ~LoopIsFree /\ o \in session.left
  /\ session' = [session EXCEPT
       !.left = @ \ {o},
       !.draft = Settle(@, o, kind[o], session.tick.price)]
  /\ UNCHANGED <<kind, book, quoting, mark, queue, history, bounds>>

\* All are filled, and the session commits.
Commit ==
  /\ ~LoopIsFree /\ session.left = {}
  /\ book' = session.draft
  /\ raced' = raced \cup (session.reached \cap quoting)
  /\ session' = NoSession
  /\ UNCHANGED <<kind, quoting, mark, queue, touched, missed, bounds>>

\* Orders the worker has in hand.
InHand == IF LoopIsFree THEN {} ELSE session.reached

\* The database fails at any of these steps: the transaction is rolled back and
\* the tick is gone.
EvaluateFails ==
  /\ ~LoopIsFree /\ failures < MaxFailures
  /\ failures' = failures + 1
  /\ missed' = missed \cup InHand
  /\ session' = NoSession
  /\ UNCHANGED <<kind, book, quoting, mark, queue, raced, touched, ticks, restarts>>

\* The process starts again: requests, prices, queued ticks and the worker's
\* session are gone.
Restart ==
  /\ restarts < MaxRestarts
  /\ restarts' = restarts + 1
  /\ quoting' = {} /\ queue' = <<>> /\ session' = NoSession
  /\ mark' = [s \in Symbols |-> NoPrice]
  /\ missed' = missed \cup InHand \cup UNION {Reached(queue[i]) : i \in DOMAIN queue}
  /\ UNCHANGED <<kind, book, raced, touched, ticks, failures>>

Work == TakeTick \/ (\E o \in Orders : FillNext(o)) \/ Commit

Next ==
  \/ \E o \in Orders, k \in Kinds : Place(o, k)
  \/ \E o \in Orders, price \in Prices : QuoteArrives(o, price)
  \/ \E tick \in Ticks : Tick(tick)
  \/ Work \/ EvaluateFails \/ Restart

Spec == Init /\ [][Next]_vars /\ WF_vars(Work)

-----------------------------------------------------------------------------
(* Properties.                                                             *)

\* A portfolio, with no overdraft and no short position.
Books == [cash : Nat, held : [Symbols -> Nat],
          status : [Orders -> {"NONE", "PENDING", "FILLED", "REJECTED"}],
          trades : [Orders -> Seq(Prices)]]

Sessions == [tick : Ticks, reached : SUBSET Orders, left : SUBSET Orders, draft : Books]

\* Types: no overdraft and no short position among them.
TypeOK ==
  /\ kind \in [Orders -> Kinds \cup {NoKind}]
  /\ book \in Books
  /\ quoting \subseteq Placed
  /\ mark \in [Symbols -> Prices \cup {NoPrice}]
  /\ queue \in Seq(Ticks) /\ Len(queue) <= QueueSize
  /\ session \in Sessions \cup {NoSession}
  /\ raced \subseteq Placed /\ touched \subseteq Placed /\ missed \subseteq Placed
  /\ {ticks, failures, restarts} \subseteq Nat

Sign(k) == IF k.side = "buy" THEN 1 ELSE -1

\* What each trade of an order cost, and what they did to the position.
Costs(k, trades) == [i \in DOMAIN trades |-> Sign(k) * Amount(k, trades[i])]
Spent(b) == [o \in Placed |-> SumFunction(Costs(kind[o], b.trades[o]))]
Moved(b, s) ==
  [o \in {p \in Placed : kind[p].symbol = s} |->
     Sign(kind[o]) * kind[o].qty * Len(b.trades[o])]

Balances(b) ==
  /\ b.cash = Capital * 10000 - SumFunction(Spent(b))
  /\ \A s \in Symbols : b.held[s] = SumFunction(Moved(b, s))

\* The cash and the positions are what the recorded trades make of the initial
\* capital: no fill is booked half, although the request and the worker write
\* the same portfolio from two sessions, one of them held across an await, and
\* either may be cut off.
BooksBalance == Balances(book)

\* An order is decided once: a filled order has one trade, any other none.  The
\* one exception is a market order whose request awaited a quote while a tick
\* decided it: the request fills it a second time, or rejects it with the first
\* trade booked, and never more than that.
DecidedOnce ==
  \A o \in Orders :
    IF o \in raced THEN Len(book.trades[o]) <= 2
    ELSE Len(book.trades[o]) = (IF book.status[o] = "FILLED" THEN 1 ELSE 0)

Queued(o) == \E i \in DOMAIN queue : o \in Reached(queue[i])

\* No price passes a waiting order unseen: an order that a tick has reached is
\* decided, or the tick still waits for the worker or is in its hands, or it was
\* dropped by a full queue, a failed transaction or a restart.
ReachedIsHandled ==
  \A o \in Pending : o \in touched => Queued(o) \/ o \in InHand \/ o \in missed

\* A queued tick decides the orders it reaches, whatever the requests wait for.
ReachedIsDecided ==
  \A o \in Orders : Queued(o) ~> (o \notin Pending \/ o \in missed)

=============================================================================
