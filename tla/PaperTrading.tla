---------------------------- MODULE PaperTrading ----------------------------
(***************************************************************************)
(* The canonical paper-trading service, one action per request: accounts,  *)
(* strategy deployments, the emergency control, the risk engine, the order *)
(* manager, the execution simulator, the portfolio ledger, reconciliation  *)
(* and the two broker routes.  Each request is atomic here; how requests   *)
(* interleave on the unlocked JSON store is module TradingStore.           *)
(*                                                                         *)
(* Money is counted in whole units, \div standing for the rounding of a    *)
(* Decimal.  An account trades one instrument of lot size, multiplier and  *)
(* conversion rate 1.  A request a rule on its own data refuses (asset     *)
(* class, market state, stale or fallback data, tick alignment, approval   *)
(* age) leaves this state alone, so the intents here are those that pass   *)
(* such rules; every sizing mode amounts to some quantity of Quantities.   *)
(***************************************************************************)
EXTENDS OrderStates, Integers, Sequences, FiniteSets, Functions

CONSTANTS
  Accounts, Deployments, OrderIds,
  Keys,            \* a proposal with its idempotency key
  TradedSides,     \* the sides the clients use
  OrderTerms,      \* [type, limit, stop]; a price of 0 is None
  Quantities, Prices,
  InitialCash,
  MaxNotional,     \* risk policy instrument.maximum_notional, 0 for none
  MaxGrossPercent, \* account.maximum_gross_exposure_percent
  MaxPending,      \* account.maximum_pending_orders
  ShortAllowed,    \* deployments whose policy sets allow_short_selling
  LiquidityCap,    \* liquidity_max_quantity; None is a cap no order reaches
  CostBps,         \* slippage_bps + spread_bps
  FeeDivisor,      \* the simulator's fee is notional * 0.0005
  BrokerEnabled,   \* the broker session accepts orders
  BrokerPrice,     \* the simulated broker's price for an order without prices
  BrokerFee        \* and its commission

Sides == {"BUY", "COVER", "SELL", "SHORT"}
Buys  == {"BUY", "COVER"}
\* An order of any other type executes as a market order.
Types == {"MARKET", "LIMIT", "STOP", "STOP_LIMIT"}
Terms == [type : Types, limit : Nat, stop : Nat]

ASSUME ConstantsAssumption ==
  /\ IsFiniteSet(OrderIds)
  /\ TradedSides \subseteq Sides
  /\ OrderTerms \subseteq Terms
  /\ Quantities \subseteq Nat \ {0}
  /\ Prices \subseteq Nat \ {0}
  /\ InitialCash \in Nat \ {0}
  /\ MaxNotional \in Nat /\ MaxGrossPercent \in Nat /\ MaxPending \in Nat
  /\ ShortAllowed \subseteq Deployments
  /\ LiquidityCap \in Nat /\ CostBps \in Nat /\ FeeDivisor \in Nat \ {0}
  /\ BrokerEnabled \in BOOLEAN
  /\ BrokerPrice \in Nat \ {0} /\ BrokerFee \in Nat

VARIABLES
  accounts,    \* open account -> its stored valuation
  books,       \* account -> what the ledger's entries add up to
  deployments, \* deployment -> [status, stale]
  emergency,   \* account -> is the emergency disable on
  orders,      \* issued order id -> the stored order
  fills,       \* order id -> its executions, oldest first
  reserved,    \* key -> the orders whose payload the broker reserved it for
  brokerOrders,\* order id -> state of the linked broker order
  reconciled   \* account -> last reconciliation result

vars == <<accounts, books, deployments, emergency, orders, fills, reserved,
          brokerOrders, reconciled>>
desk == <<deployments, emergency>>        \* what only the desk's own routes change
money == <<accounts, books>>
broker == <<reserved, brokerOrders>>

-----------------------------------------------------------------------------
(* Arithmetic of the risk engine, the simulator and the ledger.            *)

Abs(n) == IF n < 0 THEN -n ELSE n
AtMost(a, b) == IF a < b THEN a ELSE b
AtLeast(a, b) == IF a > b THEN a ELSE b

\* Decimal.quantize: to the nearest whole, ties to the even one.
RoundHalfEven(n, d) ==
  LET q == n \div d
      r == n % d
  IN IF 2 * r > d \/ (2 * r = d /\ q % 2 = 1) THEN q + 1 ELSE q

OverCap(q, price) == MaxNotional > 0 /\ q * price > MaxNotional

\* The quantity the risk engine approves; 0 when the cap leaves nothing.
Resized(q, price) ==
  IF OverCap(q, price) THEN AtMost(q, RoundHalfEven(MaxNotional, price)) ELSE q

ValidTerms(t) ==
  /\ t.type \in {"LIMIT", "STOP_LIMIT"} => t.limit > 0
  /\ t.type \in {"STOP", "STOP_LIMIT"} => t.stop > 0

\* The simulator's price conditions.
Eligible(side, t, price) ==
  LET limitMet == IF side \in Buys THEN price <= t.limit ELSE price >= t.limit
      stopMet  == IF side \in Buys THEN price >= t.stop ELSE price <= t.stop
  IN /\ t.type = "LIMIT" => limitMet
     /\ t.type \in {"STOP", "STOP_LIMIT"} => stopMet
     /\ t.type = "STOP_LIMIT" => limitMet

\* A limit order trades at its limit, any other at the market, and slippage
\* and spread always go against it.
FillPrice(side, t, price) ==
  LET base == IF t.type = "LIMIT" THEN t.limit ELSE price
      cost == (base * CostBps) \div 10000
  IN AtLeast(0, IF side \in Buys THEN base + cost ELSE base - cost)

FillFee(q, price) == (q * price) \div FeeDivisor

EmptyBook == [cash |-> 0, fees |-> 0, realized |-> 0, qty |-> 0, avg |-> 0]

\* Variant of Post: the quantity of a sale is added to the position.
PostUnsigned(b, cashDelta, qtyDelta, price, fees) ==
  [cash |-> b.cash + cashDelta, fees |-> b.fees + fees,
   realized |-> b.realized, qty |-> b.qty + Abs(qtyDelta), avg |-> price]

\* Variant of Post: a closing entry realizes nothing and moves the average.
PostNothingRealized(b, cashDelta, qtyDelta, price, fees) ==
  [cash |-> b.cash + cashDelta, fees |-> b.fees + fees,
   realized |-> b.realized, qty |-> b.qty + qtyDelta, avg |-> price]

\* An entry that opens or adds to a position; any other closes, and may cross zero.
Opens(b, qtyDelta) ==
  \/ b.qty = 0
  \/ b.qty > 0 /\ qtyDelta > 0
  \/ b.qty < 0 /\ qtyDelta < 0

\* One turn of the loop over the ledger in PortfolioLedger.rebuild.  A closing
\* entry realizes profit net of its fees; an entry that crosses zero keeps the
\* old average price.
Post(b, cashDelta, qtyDelta, price, fees) ==
  LET opens == Opens(b, qtyDelta)
      newQty == b.qty + qtyDelta
      closed == AtMost(Abs(b.qty), Abs(qtyDelta))
      pnl == (IF b.qty > 0 THEN price - b.avg ELSE b.avg - price) * closed
  IN [cash |-> b.cash + cashDelta,
      fees |-> b.fees + fees,
      realized |-> IF opens THEN b.realized ELSE b.realized + pnl - fees,
      qty |-> newQty,
      avg |-> IF opens
              THEN (Abs(b.qty) * b.avg + Abs(qtyDelta) * price) \div Abs(newQty)
              ELSE IF newQty = 0 THEN 0 ELSE b.avg]

\* The rest of rebuild: the account valued at a mark for its instrument.
Valuation(b, mark) ==
  LET net == mark * b.qty
      unrealized == (mark - b.avg) * b.qty
  IN [cash |-> b.cash, fees |-> b.fees, realized |-> b.realized,
      net |-> net, gross |-> Abs(net), unrealized |-> unrealized,
      equity |-> b.cash + Abs(net) + (IF b.qty < 0 THEN unrealized ELSE 0)]

BuyingPower(a) == AtLeast(0, accounts[a].equity)

-----------------------------------------------------------------------------
(* Accounts, deployments and the emergency control.                        *)

Init ==
  /\ accounts = [a \in {} |-> 0]
  /\ books = [a \in Accounts |-> EmptyBook]
  /\ deployments = [d \in Deployments |-> [status |-> "NONE", stale |-> FALSE]]
  /\ emergency = [a \in Accounts |-> FALSE]
  /\ orders = [o \in {} |-> 0]
  /\ fills = [o \in OrderIds |-> <<>>]
  /\ reserved = [k \in Keys |-> {}]
  /\ brokerOrders = [o \in OrderIds |-> "NONE"]
  /\ reconciled = [a \in Accounts |-> "NONE"]

\* The account starts with a cash deposit in its ledger.
CreateAccount(a) ==
  LET deposit == [EmptyBook EXCEPT !.cash = InitialCash]
  IN /\ a \notin DOMAIN accounts
     /\ books' = [books EXCEPT ![a] = deposit]
     /\ accounts' = [b \in DOMAIN accounts \cup {a} |->
                      IF b = a THEN Valuation(deposit, 0) ELSE accounts[b]]
     /\ UNCHANGED <<desk, orders, fills, broker, reconciled>>

CreateDeployment(d) ==
  /\ deployments[d].status = "NONE"
  /\ deployments' = [deployments EXCEPT ![d].status = "PENDING_APPROVAL"]
  /\ UNCHANGED <<money, emergency, orders, fills, broker, reconciled>>

\* Approval enables the deployment whatever its status; it stays stale if it was.
ApproveDeployment(d) ==
  /\ deployments[d].status # "NONE"
  /\ deployments' = [deployments EXCEPT ![d].status = "ENABLED"]
  /\ UNCHANGED <<money, emergency, orders, fills, broker, reconciled>>

MarkStale(d) ==
  /\ deployments[d].status # "NONE"
  /\ deployments' = [deployments EXCEPT ![d].stale = TRUE]
  /\ UNCHANGED <<money, emergency, orders, fills, broker, reconciled>>

SetEmergency(a, on) ==
  /\ emergency' = [emergency EXCEPT ![a] = on]
  /\ UNCHANGED <<money, deployments, orders, fills, broker, reconciled>>

-----------------------------------------------------------------------------
(* Intents.                                                                *)

PendingOrders(a) ==
  {o \in DOMAIN orders : orders[o].account = a /\ Pending(orders[o].status)}

\* Variant of Duplicate: acknowledged and partly filled orders are overlooked.
DuplicateUntouched(a, d, k) ==
  \E o \in PendingOrders(a) :
    orders[o].deployment = d /\ orders[o].key = k /\ orders[o].status = "APPROVED"

\* The duplicate check sees the account's pending orders only.
Duplicate(a, d, k) ==
  \E o \in PendingOrders(a) : orders[o].deployment = d /\ orders[o].key = k

MayShort(a, d, side) ==
  side \in {"SELL", "SHORT"} => d \in ShortAllowed \/ books[a].qty > 0

\* The policy's limit on pending orders, and a variant one too generous.
RoomForPending(a) == Cardinality(PendingOrders(a)) <= MaxPending
MayAddPending(a) == Cardinality(PendingOrders(a)) < MaxPending

\* size_order refuses a notional above the buying power.
Affordable(a, q, price) == q * price <= BuyingPower(a)

\* RiskEngine.evaluate: buying power is compared with the notional before the
\* cap, gross exposure with the notional after it.
RiskApproves(a, d, side, q, price) ==
  /\ ~emergency[a]
  /\ deployments[d].status = "ENABLED" /\ ~deployments[d].stale
  /\ MayShort(a, d, side)
  /\ Affordable(a, q, price)
  /\ Resized(q, price) > 0
  /\ (accounts[a].gross + Resized(q, price) * price) * 100
       <= accounts[a].equity * MaxGrossPercent
  /\ MayAddPending(a)

\* An intent that is neither a duplicate nor refused becomes an APPROVED order.
SubmitIntent(o, a, d, k, side, t, q, price) ==
  /\ o \in OrderIds \ DOMAIN orders
  /\ a \in DOMAIN accounts
  /\ ~Duplicate(a, d, k)
  /\ RiskApproves(a, d, side, q, price)
  /\ ValidTerms(t)
  /\ orders' = [p \in DOMAIN orders \cup {o} |->
       IF p = o
       THEN [account |-> a, deployment |-> d, key |-> k, side |-> side,
             terms |-> t, quantity |-> Resized(q, price), filled |-> 0,
             remaining |-> Resized(q, price), status |-> "APPROVED"]
       ELSE orders[p]]
  /\ UNCHANGED <<money, desk, fills, broker, reconciled>>

-----------------------------------------------------------------------------
(* Execution, by the simulator and by the broker adapter.                  *)

\* Variant of Filled: the remaining quantity is not recomputed.
FilledOnly(ord, n) ==
  [ord EXCEPT !.filled = @ + n,
              !.status = IF n = ord.quantity THEN "FILLED" ELSE "PARTIALLY_FILLED"]

\* OmsService.apply_fill on an acknowledged order.
Filled(ord, n) ==
  LET left == AtLeast(0, ord.quantity - ord.filled - n)
  IN [ord EXCEPT !.filled = @ + n, !.remaining = left,
                 !.status = IF left = 0 THEN "FILLED" ELSE "PARTIALLY_FILLED"]

\* Variant of MaySimulate: an order left in the book is simulated again.
MaySimulateAgain(o) ==
  orders[o].status \in {"APPROVED", "ACKNOWLEDGED", "PARTIALLY_FILLED"}

\* The two transitions simulate_order makes first; it raises if one is invalid.
MaySimulate(o) ==
  /\ CanTransition(orders[o].status, "SUBMITTED_TO_SIMULATOR")
  /\ CanTransition("SUBMITTED_TO_SIMULATOR", "ACKNOWLEDGED")

FillQuantity(o) == AtMost(orders[o].remaining, LiquidityCap)

\* Variant of Book: the rebuilt account is not stored.
BookUnstored(o, n, price, cashDelta, qtyDelta, fees) ==
  /\ books' = [books EXCEPT ![orders[o].account] =
                 Post(@, cashDelta, qtyDelta, price, fees)]
  /\ fills' = [fills EXCEPT ![o] = Append(@, [qty |-> n, price |-> price])]
  /\ UNCHANGED accounts

\* Ledger entry, rebuilt account and stored fill, marked at the fill's price.
Book(o, n, price, cashDelta, qtyDelta, fees) ==
  LET a == orders[o].account
      b == Post(books[a], cashDelta, qtyDelta, price, fees)
  IN /\ books' = [books EXCEPT ![a] = b]
     /\ accounts' = [accounts EXCEPT ![a] = Valuation(b, price)]
     /\ fills' = [fills EXCEPT ![o] = Append(@, [qty |-> n, price |-> price])]

\* The market does not reach the order: it is left acknowledged.
SimulateNoFill(o, price) ==
  /\ MaySimulate(o)
  /\ \/ ~Eligible(orders[o].side, orders[o].terms, price)
     \/ FillQuantity(o) = 0
  /\ orders' = [orders EXCEPT ![o].status = "ACKNOWLEDGED"]
  /\ UNCHANGED <<money, desk, fills, broker, reconciled>>

SimulateFill(o, price) ==
  LET ord == orders[o]
      n == FillQuantity(o)
      at == FillPrice(ord.side, ord.terms, price)
      fee == FillFee(n, at)
      sign == IF ord.side \in Buys THEN 1 ELSE -1
  IN /\ MaySimulate(o)
     /\ Eligible(ord.side, ord.terms, price)
     /\ n > 0
     /\ orders' = [orders EXCEPT ![o] = Filled(ord, n)]
     /\ Book(o, n, at, -(sign * n * at) - fee, sign * n, fee)
     /\ UNCHANGED <<desk, broker, reconciled>>

SimulateOrder(o, price) == SimulateNoFill(o, price) \/ SimulateFill(o, price)

\* Variant of CancelOrder: only the first of its two transitions is stored.
CancelHalfway(o) ==
  /\ CanTransition(orders[o].status, "CANCEL_PENDING")
  /\ orders' = [orders EXCEPT ![o].status = "CANCEL_PENDING"]
  /\ UNCHANGED <<money, desk, fills, broker, reconciled>>

\* Variant of CancelOrder: the transition is not checked.
CancelUnchecked(o) ==
  /\ orders' = [orders EXCEPT ![o].status = "CANCELLED"]
  /\ UNCHANGED <<money, desk, fills, broker, reconciled>>

\* A second cancel of a cancelled order changes nothing but the audit trail.
CancelOrder(o) ==
  /\ orders[o].status # "CANCELLED"
  /\ CanTransition(orders[o].status, "CANCEL_PENDING")
  /\ CanTransition("CANCEL_PENDING", "CANCELLED")
  /\ orders' = [orders EXCEPT ![o].status = "CANCELLED"]
  /\ UNCHANGED <<money, desk, fills, broker, reconciled>>

\* The route's check of the order's status.
MaySubmitToBroker(o) == orders[o].status = "APPROVED"

\* The reservation of an idempotency key for the payload of an order.
MayReserve(k, o) == reserved[k] \subseteq {o}

\* The simulated adapter executes the whole order at its limit, its stop or a
\* fixed price, unless another order's payload holds the idempotency key.  The
\* route's ledger entry carries the quantity and the commission but no cash,
\* and counts every side but BUY as a sale.
SubmitToBroker(o) ==
  LET ord == orders[o]
      t == ord.terms
      at == IF t.limit > 0 THEN t.limit
            ELSE IF t.stop > 0 THEN t.stop ELSE BrokerPrice
      n == ord.quantity
  IN /\ BrokerEnabled
     /\ MaySubmitToBroker(o)
     /\ MayReserve(ord.key, o)
     /\ reserved' = [reserved EXCEPT ![ord.key] = {o}]
     /\ brokerOrders' = [brokerOrders EXCEPT ![o] = "FILLED"]
     /\ orders' = [orders EXCEPT ![o] = Filled(ord, n)]
     /\ Book(o, n, at, 0, IF ord.side = "BUY" THEN n ELSE -n, BrokerFee)
     /\ UNCHANGED <<desk, reconciled>>

\* The broker's copy is marked cancelled before the order manager is asked; for
\* a filled order its transition is then invalid and the request fails.
CancelAtBroker(o) ==
  /\ brokerOrders[o] # "NONE"
  /\ brokerOrders' = [brokerOrders EXCEPT ![o] = "CANCELLED"]
  /\ IF CanTransition(orders[o].status, "CANCEL_PENDING")
     THEN orders' = [orders EXCEPT ![o].status = "CANCELLED"]
     ELSE UNCHANGED orders
  /\ UNCHANGED <<money, desk, fills, reserved, reconciled>>

\* The ledger rebuilt without marks, compared field by field with the account.
Agrees(a) == Valuation(books[a], books[a].avg) = accounts[a]

Reconcile(a) ==
  /\ a \in DOMAIN accounts
  /\ reconciled' = [reconciled EXCEPT ![a] =
       IF Agrees(a) THEN "PASS" ELSE "DIFFERENCE"]
  /\ UNCHANGED <<money, desk, orders, fills, broker>>

-----------------------------------------------------------------------------
Intent(o) == \E a \in Accounts, d \in Deployments, k \in Keys,
                side \in TradedSides, t \in OrderTerms, q \in Quantities,
                price \in Prices : SubmitIntent(o, a, d, k, side, t, q, price)

Next ==
  \/ \E a \in Accounts : CreateAccount(a) \/ Reconcile(a)
  \/ \E a \in Accounts, on \in BOOLEAN : SetEmergency(a, on)
  \/ \E d \in Deployments :
       CreateDeployment(d) \/ ApproveDeployment(d) \/ MarkStale(d)
  \/ \E o \in OrderIds : Intent(o)
  \/ \E o \in DOMAIN orders :
       \/ \E price \in Prices : SimulateOrder(o, price)
       \/ CancelOrder(o)
       \/ SubmitToBroker(o)
       \/ CancelAtBroker(o)

Spec == Init /\ [][Next]_vars

-----------------------------------------------------------------------------
(* Properties.                                                             *)

Order == [account : Accounts, deployment : Deployments, key : Keys,
          side : TradedSides, terms : OrderTerms, quantity : Nat \ {0},
          filled : Nat, remaining : Nat,
          status : {"APPROVED", "ACKNOWLEDGED", "PARTIALLY_FILLED", "FILLED",
                    "CANCELLED"}]

\* Types: the statuses and fields a stored row of each kind may have.
TypeOK ==
  /\ DOMAIN accounts \subseteq Accounts
  /\ \A a \in DOMAIN accounts :
       accounts[a] \in [cash : Int, fees : Int, realized : Int, net : Int,
                        gross : Int, unrealized : Int, equity : Int]
  /\ books \in [Accounts -> [cash : Int, fees : Int, realized : Int,
                             qty : Int, avg : Int]]
  /\ deployments \in [Deployments ->
       [status : {"NONE", "PENDING_APPROVAL", "ENABLED"}, stale : BOOLEAN]]
  /\ emergency \in [Accounts -> BOOLEAN]
  /\ DOMAIN orders \subseteq OrderIds
  /\ \A o \in DOMAIN orders : orders[o] \in Order
  /\ fills \in [OrderIds -> Seq([qty : Nat \ {0}, price : Nat])]
  /\ reserved \in [Keys -> SUBSET OrderIds]
  /\ brokerOrders \in [OrderIds -> {"NONE", "FILLED", "CANCELLED"}]
  /\ reconciled \in [Accounts -> {"NONE", "PASS", "DIFFERENCE"}]

\* An order executes at most once, by the simulator or by the broker and never
\* by both: submit-to-broker and simulate guard the same order by its status.
AtMostOneExecution == \A o \in OrderIds : Len(fills[o]) <= 1

\* What an order says of itself is what the fills store says: its quantity is
\* split into filled and remaining, the filled part is its execution, and the
\* status names the split (apply_fill, cancel, and the two no-fill paths).
OrdersMatchFills ==
  \A o \in DOMAIN orders :
    LET ord == orders[o] IN
    /\ ord.filled + ord.remaining = ord.quantity
    /\ ord.filled = IF fills[o] = <<>> THEN 0 ELSE fills[o][1].qty
    /\ ord.status = "FILLED" <=> ord.remaining = 0
    /\ ord.status = "PARTIALLY_FILLED" => ord.filled > 0
    /\ ord.status \in {"APPROVED", "ACKNOWLEDGED"} => ord.filled = 0

\* No two working orders of an account were placed by one deployment for one
\* proposal and idempotency key (create_order's duplicate check).
OneLiveOrderPerKey ==
  \A o, p \in DOMAIN orders :
    /\ Pending(orders[o].status) /\ Pending(orders[p].status)
    /\ orders[o].account = orders[p].account
    /\ orders[o].deployment = orders[p].deployment
    /\ orders[o].key = orders[p].key
    => o = p

\* The policy's limit on pending orders holds whatever mix of submissions,
\* fills and cancellations the account has seen.
PendingOrdersBounded ==
  \A a \in Accounts : Cardinality(PendingOrders(a)) <= MaxPending

\* The stored account never lags its ledger in cash, fees, realized profit or
\* the side of its exposure, whichever route executed last.
AccountFollowsLedger ==
  \A a \in DOMAIN accounts :
    /\ accounts[a].cash = books[a].cash
    /\ accounts[a].fees = books[a].fees
    /\ accounts[a].realized = books[a].realized
    /\ accounts[a].gross = Abs(accounts[a].net)
    /\ accounts[a].net > 0 => books[a].qty > 0
    /\ accounts[a].net < 0 => books[a].qty < 0

Sign(ord) == IF ord.side \in Buys THEN 1 ELSE -1
OrdersOf(a) == {o \in DOMAIN orders : orders[o].account = a}

\* What each order of an account did to its position and took from its cash.
Moved(a) == [o \in OrdersOf(a) |-> Sign(orders[o]) * orders[o].filled]
Spent(a) == [o \in OrdersOf(a) |->
  IF fills[o] = <<>> THEN 0
  ELSE Sign(orders[o]) * fills[o][1].qty * fills[o][1].price]

\* The position the ledger rebuilds is the signed sum of what the account's
\* orders executed, and cash is the deposit less what the executions cost and
\* the fees: nothing is booked, paid or received that no fill explains.  It is
\* asked where no order goes to the broker, whose entries carry no cash.
BooksAreFills ==
  \A a \in DOMAIN accounts :
    /\ books[a].qty = SumFunction(Moved(a))
    /\ accounts[a].cash = InitialCash - SumFunction(Spent(a)) - accounts[a].fees

\* The deposit and the realized profit, less the cash and the position at cost.
Gap(b) == InitialCash + b.realized - (b.cash + b.qty * b.avg)

\* Cash plus the position at cost is the deposit plus realized profit, less at
\* most the fees (only those of closing fills are in the realized profit): what
\* rebuild realizes on a close is what the average price had put aside for it.
\* It is asked where the averages are whole and no entry crosses zero.
CostBasisBalances ==
  \A a \in DOMAIN accounts :
    0 <= Gap(books[a]) /\ Gap(books[a]) <= books[a].fees

\* A filled or cancelled order is never changed again, and an order that has
\* been simulated or sent to the broker once, whatever became of it, executes no
\* more: no transition leads from its status back to the simulator.
TerminalIsFinal ==
  [][\A o \in DOMAIN orders :
       /\ ~Pending(orders[o].status) => orders'[o] = orders[o]
       /\ orders[o].status # "APPROVED" => fills'[o] = fills[o]]_vars

Claims == [account : Accounts, deployment : Deployments, key : Keys]

Phase(status) == CASE status = "APPROVED" -> "live"
                   [] status = "FILLED" -> "filled"
                   [] status = "CANCELLED" -> "cancelled"
                   [] OTHER -> "resting"

work == [o \in DOMAIN orders |->
          [phase |-> Phase(orders[o].status),
           claim |-> [account |-> orders[o].account,
                      deployment |-> orders[o].deployment,
                      key |-> orders[o].key],
           size |-> orders[o].quantity,
           executed |-> orders[o].filled]]

Sizes == {Resized(q, price) : q \in Quantities, price \in Prices} \ {0}

Lifecycle == INSTANCE OrderLifecycle WITH Orders <- OrderIds

\* The service implements the abstract order lifecycle.
RefinesLifecycle == Lifecycle!Spec

=============================================================================
