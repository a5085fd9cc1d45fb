------------------------- MODULE PaperTradingProofs -------------------------
(***************************************************************************)
(* Theorems about PaperTrading for every value of its constants.           *)
(***************************************************************************)
EXTENDS PaperTrading, SumTheorems, SequenceTheorems, TLAPS

-----------------------------------------------------------------------------
(* Operators.                                                              *)

LEMMA TransitionFacts ==
  /\ \A s \in {"ACKNOWLEDGED", "PARTIALLY_FILLED", "FILLED", "CANCELLED"} :
       ~CanTransition(s, "SUBMITTED_TO_SIMULATOR")
  /\ \A s \in {"FILLED", "CANCELLED"} : ~CanTransition(s, "CANCEL_PENDING")
BY DEF CanTransition, ValidTransitions, Status

\* A cap never raises a quantity, and what it approves is a whole number.
LEMMA ResizedBounds ==
  ASSUME NEW q \in Nat \ {0}, NEW price \in Nat \ {0}
  PROVE  Resized(q, price) \in Nat /\ Resized(q, price) <= q
<1> DEFINE d == MaxNotional \div price
<1>1. MaxNotional \in Nat /\ d \in Nat
  BY ConstantsAssumption
<1>2. RoundHalfEven(MaxNotional, price) \in {d, d + 1}
  BY <1>1 DEF RoundHalfEven
<1> QED
  BY <1>1, <1>2 DEF Resized, AtMost

\* What one execution does to an order that had none.
LEMMA FilledFacts ==
  ASSUME NEW ord \in Order, NEW n \in Nat \ {0},
         ord.filled = 0, n <= ord.quantity
  PROVE  /\ Filled(ord, n) \in Order
         /\ Filled(ord, n) =
              [ord EXCEPT !.filled = n,
                          !.remaining = ord.quantity - n,
                          !.status = IF n = ord.quantity THEN "FILLED"
                                     ELSE "PARTIALLY_FILLED"]
<1> DEFINE left == ord.quantity - ord.filled - n
<1>1. ord.quantity \in Nat /\ left = ord.quantity - n /\ ord.filled + n = n
  BY DEF Order
<1>2. AtLeast(0, left) = ord.quantity - n
  BY <1>1 DEF AtLeast
<1>3. ord.quantity - n \in Nat /\ (ord.quantity - n = 0 <=> n = ord.quantity)
  BY <1>1
<1>4. Filled(ord, n) =
        [ord EXCEPT !.filled = ord.filled + n, !.remaining = AtLeast(0, left),
                    !.status = IF AtLeast(0, left) = 0 THEN "FILLED"
                               ELSE "PARTIALLY_FILLED"]
  BY DEF Filled
<1> HIDE DEF left
<1>5. Filled(ord, n) =
        [ord EXCEPT !.filled = n, !.remaining = ord.quantity - n,
                    !.status = IF n = ord.quantity THEN "FILLED"
                               ELSE "PARTIALLY_FILLED"]
  BY <1>1, <1>2, <1>3, <1>4
<1>6. Filled(ord, n) \in Order
  BY <1>3, <1>5 DEF Order
<1> QED
  BY <1>5, <1>6

LEMMA FilledType ==
  ASSUME NEW ord \in Order, NEW n \in Nat \ {0}
  PROVE  Filled(ord, n) \in Order
<1> DEFINE left == AtLeast(0, ord.quantity - ord.filled - n)
<1>1. left \in Nat /\ ord.filled + n \in Nat
  BY DEF Order, AtLeast
<1>2. Filled(ord, n) =
        [ord EXCEPT !.filled = ord.filled + n, !.remaining = left,
                    !.status = IF left = 0 THEN "FILLED" ELSE "PARTIALLY_FILLED"]
  BY DEF Filled
<1> HIDE DEF left
<1> QED
  BY <1>1, <1>2 DEF Order

BookType == [cash : Int, fees : Int, realized : Int, qty : Int, avg : Int]
ValuationType == [cash : Int, fees : Int, realized : Int, net : Int,
                  gross : Int, unrealized : Int, equity : Int]

LEMMA PostType ==
  ASSUME NEW b \in BookType, NEW cashDelta \in Int, NEW qtyDelta \in Int \ {0},
         NEW price \in Int, NEW fees \in Int
  PROVE  Post(b, cashDelta, qtyDelta, price, fees) \in BookType
<1> DEFINE opens == Opens(b, qtyDelta)
           newQty == b.qty + qtyDelta
           closed == AtMost(Abs(b.qty), Abs(qtyDelta))
           pnl == (IF b.qty > 0 THEN price - b.avg ELSE b.avg - price) * closed
           cost == Abs(b.qty) * b.avg + Abs(qtyDelta) * price
           average == cost \div Abs(newQty)
<1>1. /\ b.cash \in Int /\ b.fees \in Int /\ b.realized \in Int
      /\ b.qty \in Int /\ b.avg \in Int
  BY DEF BookType
<1>2. newQty \in Int /\ (opens => Abs(newQty) \in Nat \ {0})
  BY <1>1 DEF Abs, Opens
<1>3. Abs(b.qty) \in Int /\ Abs(qtyDelta) \in Int
  BY <1>1 DEF Abs
<1>4. closed \in Int
  BY <1>3 DEF AtMost
<1>5. pnl \in Int
  BY <1>1, <1>4
<1>6. cost \in Int
  BY <1>1, <1>3
<1> HIDE DEF opens, pnl, cost
<1>7. opens => average \in Int
  BY <1>2, <1>6
<1>8. Post(b, cashDelta, qtyDelta, price, fees) =
        [cash |-> b.cash + cashDelta,
         fees |-> b.fees + fees,
         realized |-> IF opens THEN b.realized ELSE b.realized + pnl - fees,
         qty |-> newQty,
         avg |-> IF opens THEN average ELSE IF newQty = 0 THEN 0 ELSE b.avg]
  BY DEF Post, opens, pnl, cost
<1> HIDE DEF newQty, average
<1> QED
  BY <1>1, <1>2, <1>5, <1>7, <1>8 DEF BookType

LEMMA ValuationIsTyped ==
  ASSUME NEW b \in BookType, NEW mark \in Int
  PROVE  Valuation(b, mark) \in ValuationType
<1>1. mark * b.qty \in Int /\ (mark - b.avg) * b.qty \in Int
  BY DEF BookType
<1>2. Abs(mark * b.qty) \in Int
  BY <1>1 DEF Abs
<1> QED
  BY <1>1, <1>2 DEF Valuation, BookType, ValuationType

LEMMA FillPriceType ==
  ASSUME NEW side, NEW t \in OrderTerms, NEW price \in Prices
  PROVE  FillPrice(side, t, price) \in Nat
<1> DEFINE base == IF t.type = "LIMIT" THEN t.limit ELSE price
           cost == (base * CostBps) \div 10000
<1>1. base \in Nat
  BY ConstantsAssumption DEF Terms
<1> HIDE DEF base
<1>2. base * CostBps \in Nat
  BY <1>1, ConstantsAssumption
<1>3. cost \in Nat
  BY <1>2
<1>4. FillPrice(side, t, price) =
        AtLeast(0, IF side \in Buys THEN base + cost ELSE base - cost)
  BY DEF FillPrice, base
<1> HIDE DEF cost
<1> QED
  BY <1>1, <1>3, <1>4 DEF AtLeast

LEMMA FillFeeType ==
  ASSUME NEW q \in Nat, NEW price \in Nat
  PROVE  FillFee(q, price) \in Int
<1>1. q * price \in Nat
  OBVIOUS
<1> QED
  BY <1>1, ConstantsAssumption DEF FillFee

-----------------------------------------------------------------------------
(* Type correctness.                                                       *)

LEMMA BookTyped ==
  ASSUME TypeOK, NEW o \in DOMAIN orders,
         NEW n \in Nat \ {0}, NEW price \in Nat, NEW cashDelta \in Int,
         NEW qtyDelta \in Int \ {0}, NEW fees \in Int,
         Book(o, n, price, cashDelta, qtyDelta, fees)
  PROVE  /\ DOMAIN accounts' = DOMAIN accounts
         /\ \A a \in DOMAIN accounts' : accounts'[a] \in ValuationType
         /\ books' \in [Accounts -> BookType]
         /\ fills' \in [OrderIds -> Seq([qty : Nat \ {0}, price : Nat])]
<1> DEFINE a == orders[o].account
           b == Post(books[a], cashDelta, qtyDelta, price, fees)
<1>1. a \in Accounts
  BY DEF TypeOK, Order
<1>2. b \in BookType
  BY <1>1, PostType DEF TypeOK, BookType
<1>3. Valuation(b, price) \in ValuationType
  BY <1>2, ValuationIsTyped
<1>4. /\ books' = [books EXCEPT ![a] = b]
      /\ accounts' = [accounts EXCEPT ![a] = Valuation(b, price)]
      /\ fills' = [fills EXCEPT ![o] =
                     Append(fills[o], [qty |-> n, price |-> price])]
  BY DEF Book
<1> HIDE DEF b
<1>5. \A c \in DOMAIN accounts' : accounts'[c] \in ValuationType
  BY <1>3, <1>4 DEF TypeOK, ValuationType
<1>6. fills' \in [OrderIds -> Seq([qty : Nat \ {0}, price : Nat])]
  <2>1. Append(fills[o], [qty |-> n, price |-> price])
          \in Seq([qty : Nat \ {0}, price : Nat])
    BY DEF TypeOK
  <2> QED
    BY <1>4, <2>1 DEF TypeOK
<1> QED
  BY <1>1, <1>2, <1>4, <1>5, <1>6 DEF TypeOK, BookType

\* Storing a status leaves the stored orders typed.
LEMMA StatusTyped ==
  ASSUME TypeOK, NEW o \in DOMAIN orders,
         NEW s \in {"APPROVED", "ACKNOWLEDGED", "PARTIALLY_FILLED", "FILLED",
                    "CANCELLED"},
         orders' = [orders EXCEPT ![o].status = s]
  PROVE  /\ DOMAIN orders' = DOMAIN orders
         /\ \A p \in DOMAIN orders' : orders'[p] \in Order
<1>1. [orders[o] EXCEPT !.status = s] \in Order
  <2>1. orders[o] \in Order
    BY DEF TypeOK
  <2> QED
    BY <2>1 DEF Order
<1>2. orders' = [orders EXCEPT ![o] = [orders[o] EXCEPT !.status = s]]
  OBVIOUS
<1> QED
  BY <1>1, <1>2 DEF TypeOK

LEMMA TypeOKInit == Init => TypeOK
BY DEF Init, TypeOK, EmptyBook

LEMMA TypeOKStep == TypeOK /\ [Next]_vars => TypeOK'
<1> SUFFICES ASSUME TypeOK, [Next]_vars PROVE TypeOK'
  OBVIOUS
<1> USE DEF desk, money, broker
<1>1. ASSUME NEW a \in Accounts, CreateAccount(a) PROVE TypeOK'
  <2> DEFINE deposit == [EmptyBook EXCEPT !.cash = InitialCash]
  <2>1. deposit \in BookType
    BY ConstantsAssumption DEF EmptyBook, BookType
  <2>2. Valuation(deposit, 0) \in ValuationType
    BY <2>1, ValuationIsTyped
  <2> HIDE DEF deposit
  <2>3. /\ books' = [books EXCEPT ![a] = deposit]
        /\ accounts' = [c \in DOMAIN accounts \cup {a} |->
                         IF c = a THEN Valuation(deposit, 0) ELSE accounts[c]]
        /\ UNCHANGED <<deployments, emergency, orders, fills, reserved,
                       brokerOrders, reconciled>>
    BY <1>1 DEF CreateAccount, deposit
  <2> QED
    BY <2>1, <2>2, <2>3 DEF TypeOK, BookType, ValuationType
<1>2. ASSUME NEW a \in Accounts, Reconcile(a) PROVE TypeOK'
  BY <1>2 DEF Reconcile, TypeOK
<1>3. ASSUME NEW a \in Accounts, NEW on \in BOOLEAN, SetEmergency(a, on)
      PROVE  TypeOK'
  BY <1>3 DEF SetEmergency, TypeOK
<1>4. ASSUME NEW d \in Deployments,
             CreateDeployment(d) \/ ApproveDeployment(d) \/ MarkStale(d)
      PROVE  TypeOK'
  <2> DEFINE dep == deployments[d]
             DeploymentType == [status : {"NONE", "PENDING_APPROVAL", "ENABLED"},
                                stale : BOOLEAN]
  <2>1. dep \in DeploymentType
    BY DEF TypeOK
  <2>2. \E new \in DeploymentType : deployments' = [deployments EXCEPT ![d] = new]
    <3>1. CASE CreateDeployment(d)
      <4>1. [dep EXCEPT !.status = "PENDING_APPROVAL"] \in DeploymentType
        BY <2>1
      <4>2. deployments' = [deployments EXCEPT ![d] = [dep EXCEPT !.status = "PENDING_APPROVAL"]]
        BY <3>1 DEF CreateDeployment
      <4> QED
        BY <4>1, <4>2
    <3>2. CASE ApproveDeployment(d)
      <4>1. [dep EXCEPT !.status = "ENABLED"] \in DeploymentType
        BY <2>1
      <4>2. deployments' = [deployments EXCEPT ![d] = [dep EXCEPT !.status = "ENABLED"]]
        BY <3>2 DEF ApproveDeployment
      <4> QED
        BY <4>1, <4>2
    <3>3. CASE MarkStale(d)
      <4>1. [dep EXCEPT !.stale = TRUE] \in DeploymentType
        BY <2>1
      <4>2. deployments' = [deployments EXCEPT ![d] = [dep EXCEPT !.stale = TRUE]]
        BY <3>3 DEF MarkStale
      <4> QED
        BY <4>1, <4>2
    <3> QED
      BY <1>4, <3>1, <3>2, <3>3
  <2>3. UNCHANGED <<accounts, books, emergency, orders, fills, reserved,
                    brokerOrders, reconciled>>
    BY <1>4 DEF CreateDeployment, ApproveDeployment, MarkStale
  <2> QED
    BY <2>2, <2>3 DEF TypeOK
<1>5. ASSUME NEW o \in OrderIds, NEW a \in Accounts, NEW d \in Deployments,
             NEW k \in Keys, NEW side \in TradedSides, NEW t \in OrderTerms,
             NEW q \in Quantities, NEW price \in Prices,
             SubmitIntent(o, a, d, k, side, t, q, price)
      PROVE  TypeOK'
  <2>1. q \in Nat \ {0} /\ price \in Nat \ {0} /\ MaxNotional \in Nat
    BY ConstantsAssumption
  <2>2. Resized(q, price) \in Nat /\ Resized(q, price) > 0
    BY <1>5, <2>1, ResizedBounds DEF SubmitIntent, RiskApproves
  <2> DEFINE new == [account |-> a, deployment |-> d, key |-> k, side |-> side,
                     terms |-> t, quantity |-> Resized(q, price),
                     filled |-> 0, remaining |-> Resized(q, price),
                     status |-> "APPROVED"]
  <2>3. new \in Order
    BY <2>2 DEF Order
  <2> HIDE DEF new
  <2>4. /\ orders' = [p \in DOMAIN orders \cup {o} |->
                        IF p = o THEN new ELSE orders[p]]
        /\ UNCHANGED <<accounts, books, deployments, emergency, fills,
                       reserved, brokerOrders, reconciled>>
    BY <1>5 DEF SubmitIntent, new
  <2> QED
    BY <2>3, <2>4 DEF TypeOK
<1>6. ASSUME NEW o \in DOMAIN orders, NEW price \in Prices,
             SimulateNoFill(o, price)
      PROVE  TypeOK'
  <2>1. /\ orders' = [orders EXCEPT ![o].status = "ACKNOWLEDGED"]
        /\ UNCHANGED <<accounts, books, deployments, emergency, fills,
                       reserved, brokerOrders, reconciled>>
    BY <1>6 DEF SimulateNoFill
  <2> QED
    BY <2>1, StatusTyped DEF TypeOK
<1>7. ASSUME NEW o \in DOMAIN orders, NEW price \in Prices,
             SimulateFill(o, price)
      PROVE  TypeOK'
  <2> DEFINE ord == orders[o]
             n == FillQuantity(o)
             at == FillPrice(ord.side, ord.terms, price)
             fee == FillFee(n, at)
             sign == IF ord.side \in Buys THEN 1 ELSE -1
  <2>1. n \in Nat \ {0}
    <3>1. ord \in Order
      BY DEF TypeOK
    <3>2. ord.remaining \in Nat
      BY <3>1 DEF Order
    <3>3. n > 0
      BY <1>7 DEF SimulateFill
    <3> QED
      BY <3>2, <3>3, ConstantsAssumption DEF FillQuantity, AtMost
  <2>2. at \in Nat
    BY FillPriceType DEF TypeOK, Order
  <2>3. fee \in Int
    BY <2>1, <2>2, FillFeeType
  <2>4. Filled(ord, n) \in Order
    BY <2>1, FilledType DEF TypeOK
  <2>5. /\ orders' = [orders EXCEPT ![o] = Filled(ord, n)]
        /\ Book(o, n, at, -(sign * n * at) - fee, sign * n, fee)
        /\ UNCHANGED <<deployments, emergency, reserved, brokerOrders,
                       reconciled>>
    BY <1>7 DEF SimulateFill
  <2> HIDE DEF n, at, fee
  <2>6. sign * n \in Int \ {0} /\ sign * n * at \in Int
    BY <2>1, <2>2
  <2>7. -(sign * n * at) - fee \in Int
    BY <2>3, <2>6
  <2> HIDE DEF sign
  <2>8. /\ DOMAIN accounts' = DOMAIN accounts
        /\ \A a \in DOMAIN accounts' : accounts'[a] \in ValuationType
        /\ books' \in [Accounts -> BookType]
        /\ fills' \in [OrderIds -> Seq([qty : Nat \ {0}, price : Nat])]
    BY <2>1, <2>2, <2>3, <2>5, <2>6, <2>7, BookTyped
  <2> QED
    BY <2>4, <2>5, <2>8 DEF TypeOK, BookType, ValuationType
<1>8. ASSUME NEW o \in DOMAIN orders, CancelOrder(o) PROVE TypeOK'
  <2>1. /\ orders' = [orders EXCEPT ![o].status = "CANCELLED"]
        /\ UNCHANGED <<accounts, books, deployments, emergency, fills,
                       reserved, brokerOrders, reconciled>>
    BY <1>8 DEF CancelOrder
  <2> QED
    BY <2>1, StatusTyped DEF TypeOK
<1>9. ASSUME NEW o \in DOMAIN orders, SubmitToBroker(o) PROVE TypeOK'
  <2> DEFINE ord == orders[o]
             t == ord.terms
             at == IF t.limit > 0 THEN t.limit
                   ELSE IF t.stop > 0 THEN t.stop ELSE BrokerPrice
             n == ord.quantity
             delta == IF ord.side = "BUY" THEN n ELSE -n
  <2>1. n \in Nat \ {0} /\ at \in Nat /\ BrokerFee \in Int
    BY ConstantsAssumption DEF TypeOK, Order, Terms
  <2>2. delta \in Int \ {0}
    BY <2>1
  <2>3. Filled(ord, n) \in Order
    BY <2>1, FilledType DEF TypeOK
  <2>4. /\ orders' = [orders EXCEPT ![o] = Filled(ord, n)]
        /\ Book(o, n, at, 0, delta, BrokerFee)
        /\ reserved' = [reserved EXCEPT ![ord.key] = {o}]
        /\ brokerOrders' = [brokerOrders EXCEPT ![o] = "FILLED"]
        /\ UNCHANGED <<deployments, emergency, reconciled>>
    BY <1>9 DEF SubmitToBroker
  <2> HIDE DEF at, n, delta
  <2>5. /\ DOMAIN accounts' = DOMAIN accounts
        /\ \A a \in DOMAIN accounts' : accounts'[a] \in ValuationType
        /\ books' \in [Accounts -> BookType]
        /\ fills' \in [OrderIds -> Seq([qty : Nat \ {0}, price : Nat])]
    <3>1. 0 \in Int /\ Book(o, n, at, 0, delta, BrokerFee)
      BY <2>4
    <3> HIDE DEF ord
    <3> QED
      BY <2>1, <2>2, <3>1, BookTyped
  <2>6. /\ reserved' \in [Keys -> SUBSET OrderIds]
        /\ brokerOrders' \in [OrderIds -> {"NONE", "FILLED", "CANCELLED"}]
    BY <2>4 DEF TypeOK, Order
  <2>7. /\ DOMAIN orders' \subseteq OrderIds
        /\ \A p \in DOMAIN orders' : orders'[p] \in Order
    BY <2>3, <2>4 DEF TypeOK
  <2> QED
    BY <2>4, <2>5, <2>6, <2>7 DEF TypeOK, BookType, ValuationType
<1>10. ASSUME NEW o \in DOMAIN orders, CancelAtBroker(o) PROVE TypeOK'
  <2>1. /\ \/ orders' = [orders EXCEPT ![o].status = "CANCELLED"]
           \/ orders' = orders
        /\ brokerOrders' = [brokerOrders EXCEPT ![o] = "CANCELLED"]
        /\ UNCHANGED <<accounts, books, deployments, emergency, fills,
                       reserved, reconciled>>
    BY <1>10 DEF CancelAtBroker
  <2>2. /\ DOMAIN orders' \subseteq OrderIds
        /\ \A p \in DOMAIN orders' : orders'[p] \in Order
    <3>1. CASE orders' = [orders EXCEPT ![o].status = "CANCELLED"]
      BY <3>1, StatusTyped DEF TypeOK
    <3>2. CASE orders' = orders
      BY <3>2 DEF TypeOK
    <3> QED
      BY <2>1, <3>1, <3>2
  <2> QED
    BY <2>1, <2>2 DEF TypeOK
<1>11. CASE UNCHANGED vars
  BY <1>11 DEF vars, TypeOK, Order
<1> QED
  BY <1>1, <1>2, <1>3, <1>4, <1>5, <1>6, <1>7, <1>8, <1>9, <1>10, <1>11
     DEF Next, Intent, SimulateOrder

\* Whatever the requests, the store holds rows of the types TypeOK names: no
\* order is ever stored in a status other than the five it lists.
THEOREM TypeCorrect == Spec => []TypeOK
BY TypeOKInit, TypeOKStep, PTL DEF Spec

-----------------------------------------------------------------------------
(* What any request does to the orders and their fills: one of four things *)
(* to one order, or nothing.                                               *)

Submitted(o) ==
  \E ord \in Order :
    /\ o \in OrderIds \ DOMAIN orders
    /\ ord.status = "APPROVED" /\ ord.filled = 0
    /\ ord.remaining = ord.quantity /\ ord.quantity \in Sizes
    /\ ~Duplicate(ord.account, ord.deployment, ord.key)
    /\ MayAddPending(ord.account)
    /\ orders' = [p \in DOMAIN orders \cup {o} |->
                   IF p = o THEN ord ELSE orders[p]]
    /\ UNCHANGED fills

Acknowledged(o) ==
  /\ o \in DOMAIN orders
  /\ orders[o].status = "APPROVED"
  /\ orders' = [orders EXCEPT ![o].status = "ACKNOWLEDGED"]
  /\ UNCHANGED fills

Executed(o, n, price) ==
  /\ o \in DOMAIN orders
  /\ orders[o].status = "APPROVED"
  /\ n <= orders[o].quantity
  /\ orders' = [orders EXCEPT ![o] = Filled(orders[o], n)]
  /\ fills' = [fills EXCEPT ![o] =
                 Append(fills[o], [qty |-> n, price |-> price])]

Cancelled(o) ==
  /\ o \in DOMAIN orders
  /\ orders[o].status \in {"APPROVED", "ACKNOWLEDGED", "PARTIALLY_FILLED"}
  /\ orders' = [orders EXCEPT ![o].status = "CANCELLED"]
  /\ UNCHANGED fills

OrderStep ==
  \/ \E o \in OrderIds :
       \/ Submitted(o)
       \/ Acknowledged(o)
       \/ \E n \in Nat \ {0}, price \in Nat : Executed(o, n, price)
       \/ Cancelled(o)
  \/ UNCHANGED <<orders, fills>>

\* Only an APPROVED order may be handed to the simulator.
LEMMA SimulatedIsApproved ==
  ASSUME TypeOK, NEW o \in DOMAIN orders, MaySimulate(o)
  PROVE  orders[o].status = "APPROVED"
<1>1. orders[o] \in Order
  BY DEF TypeOK
<1>2. orders[o].status \in {"APPROVED", "ACKNOWLEDGED", "PARTIALLY_FILLED",
                            "FILLED", "CANCELLED"}
  BY <1>1 DEF Order
<1> QED
  BY <1>2, TransitionFacts DEF MaySimulate

LEMMA CancelledIsWorking ==
  ASSUME TypeOK, NEW o \in DOMAIN orders,
         CanTransition(orders[o].status, "CANCEL_PENDING")
  PROVE  orders[o].status \in {"APPROVED", "ACKNOWLEDGED", "PARTIALLY_FILLED"}
<1>1. orders[o] \in Order
  BY DEF TypeOK
<1>2. orders[o].status \in {"APPROVED", "ACKNOWLEDGED", "PARTIALLY_FILLED",
                            "FILLED", "CANCELLED"}
  BY <1>1 DEF Order
<1> QED
  BY <1>2, TransitionFacts

LEMMA EveryStepIsAnOrderStep ==
  ASSUME TypeOK, [Next]_vars,
         \A o \in DOMAIN orders : orders[o].remaining <= orders[o].quantity
  PROVE  OrderStep
<1>1. ASSUME NEW a \in Accounts, CreateAccount(a) \/ Reconcile(a)
      PROVE  OrderStep
  BY <1>1 DEF CreateAccount, Reconcile, OrderStep
<1>2. ASSUME NEW a \in Accounts, NEW on \in BOOLEAN, SetEmergency(a, on)
      PROVE  OrderStep
  BY <1>2 DEF SetEmergency, OrderStep
<1>3. ASSUME NEW d \in Deployments,
             CreateDeployment(d) \/ ApproveDeployment(d) \/ MarkStale(d)
      PROVE  OrderStep
  BY <1>3 DEF CreateDeployment, ApproveDeployment, MarkStale, OrderStep
<1>4. ASSUME NEW o \in OrderIds, NEW a \in Accounts, NEW d \in Deployments,
             NEW k \in Keys, NEW side \in TradedSides, NEW t \in OrderTerms,
             NEW q \in Quantities, NEW price \in Prices,
             SubmitIntent(o, a, d, k, side, t, q, price)
      PROVE  OrderStep
  <2>1. q \in Nat \ {0} /\ price \in Nat \ {0}
    BY ConstantsAssumption
  <2>2. Resized(q, price) \in Nat /\ Resized(q, price) > 0
    BY <1>4, <2>1, ResizedBounds DEF SubmitIntent, RiskApproves
  <2>3. Resized(q, price) \in Sizes
    BY <2>2 DEF Sizes
  <2> DEFINE new == [account |-> a, deployment |-> d, key |-> k, side |-> side,
                     terms |-> t, quantity |-> Resized(q, price),
                     filled |-> 0, remaining |-> Resized(q, price),
                     status |-> "APPROVED"]
  <2>4. new \in Order
    BY <2>2 DEF Order
  <2>5. /\ new.status = "APPROVED" /\ new.filled = 0
        /\ new.remaining = new.quantity /\ new.quantity \in Sizes
        /\ new.account = a /\ new.deployment = d /\ new.key = k
    BY <2>3
  <2> HIDE DEF new
  <2>6. /\ o \notin DOMAIN orders
        /\ ~Duplicate(a, d, k)
        /\ MayAddPending(a)
        /\ orders' = [p \in DOMAIN orders \cup {o} |->
                        IF p = o THEN new ELSE orders[p]]
        /\ UNCHANGED fills
    BY <1>4 DEF SubmitIntent, RiskApproves, new
  <2>7. Submitted(o)
    BY <2>4, <2>5, <2>6 DEF Submitted
  <2> QED
    BY <2>7 DEF OrderStep
<1>5. ASSUME NEW o \in DOMAIN orders, NEW price \in Prices,
             SimulateNoFill(o, price)
      PROVE  OrderStep
  <2>1. Acknowledged(o)
    BY <1>5, SimulatedIsApproved DEF SimulateNoFill, Acknowledged
  <2> QED
    BY <2>1 DEF OrderStep, TypeOK
<1>6. ASSUME NEW o \in DOMAIN orders, NEW price \in Prices,
             SimulateFill(o, price)
      PROVE  OrderStep
  <2> DEFINE n == FillQuantity(o)
             at == FillPrice(orders[o].side, orders[o].terms, price)
  <2>1. orders[o] \in Order
    BY DEF TypeOK
  <2>2. n > 0
    BY <1>6 DEF SimulateFill
  <2>3. n \in Nat \ {0} /\ n <= orders[o].quantity
    BY <2>1, <2>2, ConstantsAssumption DEF FillQuantity, AtMost, Order
  <2>4. at \in Nat
    BY <2>1, FillPriceType DEF Order
  <2>5. /\ orders' = [orders EXCEPT ![o] = Filled(orders[o], n)]
        /\ fills' = [fills EXCEPT ![o] =
                       Append(fills[o], [qty |-> n, price |-> at])]
    BY <1>6 DEF SimulateFill, Book
  <2>6. orders[o].status = "APPROVED"
    BY <1>6, SimulatedIsApproved DEF SimulateFill
  <2>7. Executed(o, n, at)
    BY <2>3, <2>5, <2>6 DEF Executed
  <2> HIDE DEF n, at
  <2> QED
    BY <2>3, <2>4, <2>7 DEF OrderStep, TypeOK
<1>7. ASSUME NEW o \in DOMAIN orders, CancelOrder(o) PROVE OrderStep
  <2>1. Cancelled(o)
    BY <1>7, CancelledIsWorking DEF CancelOrder, Cancelled
  <2> QED
    BY <2>1 DEF OrderStep, TypeOK
<1>8. ASSUME NEW o \in DOMAIN orders, SubmitToBroker(o) PROVE OrderStep
  <2> DEFINE t == orders[o].terms
             at == IF t.limit > 0 THEN t.limit
                   ELSE IF t.stop > 0 THEN t.stop ELSE BrokerPrice
             n == orders[o].quantity
  <2>1. orders[o] \in Order
    BY DEF TypeOK
  <2>2. n \in Nat \ {0} /\ n <= orders[o].quantity /\ at \in Nat
    BY <2>1, ConstantsAssumption DEF Order, Terms
  <2>3. /\ orders[o].status = "APPROVED"
        /\ orders' = [orders EXCEPT ![o] = Filled(orders[o], n)]
        /\ fills' = [fills EXCEPT ![o] =
                       Append(fills[o], [qty |-> n, price |-> at])]
    BY <1>8 DEF SubmitToBroker, MaySubmitToBroker, Book
  <2>4. Executed(o, n, at)
    BY <2>2, <2>3 DEF Executed
  <2> HIDE DEF n, at
  <2> QED
    BY <2>2, <2>4 DEF OrderStep, TypeOK
<1>9. ASSUME NEW o \in DOMAIN orders, CancelAtBroker(o) PROVE OrderStep
  <2>1. CASE CanTransition(orders[o].status, "CANCEL_PENDING")
    <3>1. Cancelled(o)
      BY <1>9, <2>1, CancelledIsWorking DEF CancelAtBroker, Cancelled
    <3> QED
      BY <3>1 DEF OrderStep, TypeOK
  <2>2. CASE ~CanTransition(orders[o].status, "CANCEL_PENDING")
    BY <1>9, <2>2 DEF CancelAtBroker, OrderStep
  <2> QED
    BY <2>1, <2>2
<1>10. CASE UNCHANGED vars
  BY <1>10 DEF vars, OrderStep
<1> QED
  BY <1>1, <1>2, <1>3, <1>4, <1>5, <1>6, <1>7, <1>8, <1>9, <1>10
     DEF Next, Intent, SimulateOrder

-----------------------------------------------------------------------------
(* The inductive invariant.  AtMostOneExecution is not inductive by itself: *)
(* it holds because an order with an execution is no longer APPROVED, which *)
(* OrdersMatchFills says, and because an id not issued yet has none.        *)

UnissuedUnfilled == \A o \in OrderIds \ DOMAIN orders : fills[o] = <<>>

ExecutionInv ==
  TypeOK /\ AtMostOneExecution /\ OrdersMatchFills /\ UnissuedUnfilled

LEMMA ExecutionInvInit == Init => ExecutionInv
<1> SUFFICES ASSUME Init PROVE ExecutionInv
  OBVIOUS
<1>1. DOMAIN orders = {} /\ \A o \in OrderIds : fills[o] = <<>>
  BY DEF Init
<1>2. AtMostOneExecution
  BY <1>1 DEF AtMostOneExecution
<1> QED
  BY <1>1, <1>2, TypeOKInit DEF ExecutionInv, OrdersMatchFills, UnissuedUnfilled

\* An order of which OrdersMatchFills holds, by itself.
Matches(ord, executions) ==
  /\ ord.filled + ord.remaining = ord.quantity
  /\ ord.filled = IF executions = <<>> THEN 0 ELSE executions[1].qty
  /\ ord.status = "FILLED" <=> ord.remaining = 0
  /\ ord.status = "PARTIALLY_FILLED" => ord.filled > 0
  /\ ord.status \in {"APPROVED", "ACKNOWLEDGED"} => ord.filled = 0

LEMMA ApprovedHasNoExecution ==
  ASSUME ExecutionInv, NEW o \in DOMAIN orders, orders[o].status = "APPROVED"
  PROVE  fills[o] = <<>> /\ orders[o].filled = 0
<1>1. o \in OrderIds /\ fills[o] \in Seq([qty : Nat \ {0}, price : Nat])
  BY DEF ExecutionInv, TypeOK
<1>2. orders[o].filled = 0
  BY DEF ExecutionInv, OrdersMatchFills
<1>3. ASSUME fills[o] # <<>> PROVE fills[o][1].qty \in Nat \ {0}
  <2>1. Len(fills[o]) \in Nat /\ Len(fills[o]) # 0
    BY <1>1, <1>3
  <2>2. fills[o][1] \in [qty : Nat \ {0}, price : Nat]
    <3>1. 1 \in 1..Len(fills[o])
      BY <2>1
    <3> QED
      BY <1>1, <3>1, ElementOfSeq
  <2> QED
    BY <2>2
<1>4. fills[o] # <<>> => orders[o].filled = fills[o][1].qty
  BY DEF ExecutionInv, OrdersMatchFills
<1> QED
  BY <1>2, <1>3, <1>4

LEMMA RemainingWithinQuantity ==
  ASSUME ExecutionInv, NEW o \in DOMAIN orders
  PROVE  orders[o].remaining <= orders[o].quantity
<1>1. orders[o] \in Order
  BY DEF ExecutionInv, TypeOK
<1>2. orders[o].filled + orders[o].remaining = orders[o].quantity
  BY DEF ExecutionInv, OrdersMatchFills
<1> QED
  BY <1>1, <1>2 DEF Order

LEMMA StepIsOrderStep == ASSUME ExecutionInv, [Next]_vars PROVE OrderStep
BY EveryStepIsAnOrderStep, RemainingWithinQuantity DEF ExecutionInv

LEMMA ExecutionInvStep == ExecutionInv /\ [Next]_vars => ExecutionInv'
<1> SUFFICES ASSUME ExecutionInv, [Next]_vars PROVE ExecutionInv'
  OBVIOUS
<1>1. TypeOK'
  BY TypeOKStep DEF ExecutionInv
<1>2. OrderStep
  BY StepIsOrderStep
<1>3. \A p \in DOMAIN orders : Matches(orders[p], fills[p])
  BY DEF ExecutionInv, OrdersMatchFills, Matches
<1> DEFINE Rest == AtMostOneExecution' /\ UnissuedUnfilled'
                   /\ \A p \in DOMAIN orders' : Matches(orders'[p], fills'[p])
<1>4. ASSUME NEW o \in OrderIds, Submitted(o) PROVE Rest
  <2>1. PICK ord \in Order :
          /\ o \in OrderIds \ DOMAIN orders
          /\ ord.status = "APPROVED" /\ ord.filled = 0
          /\ ord.remaining = ord.quantity
          /\ orders' = [p \in DOMAIN orders \cup {o} |->
                         IF p = o THEN ord ELSE orders[p]]
          /\ UNCHANGED fills
    BY <1>4 DEF Submitted
  <2>2. Matches(ord, fills'[o])
    BY <2>1 DEF Matches, Order, ExecutionInv, UnissuedUnfilled
  <2>3. \A p \in DOMAIN orders' : Matches(orders'[p], fills'[p])
    BY <1>3, <2>1, <2>2
  <2> QED
    BY <2>1, <2>3 DEF ExecutionInv, AtMostOneExecution, UnissuedUnfilled
<1>5. ASSUME NEW o \in OrderIds, Acknowledged(o) \/ Cancelled(o) PROVE Rest
  <2>1. PICK s \in {"ACKNOWLEDGED", "CANCELLED"} :
          /\ o \in DOMAIN orders
          /\ orders' = [orders EXCEPT ![o].status = s]
          /\ s = "ACKNOWLEDGED" => orders[o].status = "APPROVED"
          /\ orders[o].status # "FILLED"
          /\ UNCHANGED fills
    BY <1>5 DEF Acknowledged, Cancelled
  <2>2. orders[o] \in Order /\ Matches(orders[o], fills[o])
    BY <1>3, <2>1 DEF ExecutionInv, TypeOK
  <2>3. orders'[o] = [orders[o] EXCEPT !.status = s]
    BY <2>1
  <2>4. Matches(orders'[o], fills'[o])
    BY <2>1, <2>2, <2>3 DEF Matches, Order
  <2>5. \A p \in DOMAIN orders' : Matches(orders'[p], fills'[p])
    BY <1>3, <2>1, <2>4
  <2> QED
    BY <2>1, <2>5 DEF ExecutionInv, AtMostOneExecution, UnissuedUnfilled
<1>6. ASSUME NEW o \in OrderIds, NEW n \in Nat \ {0}, NEW price \in Nat,
             Executed(o, n, price)
      PROVE  Rest
  <2>1. /\ o \in DOMAIN orders /\ n <= orders[o].quantity
        /\ orders' = [orders EXCEPT ![o] = Filled(orders[o], n)]
        /\ fills' = [fills EXCEPT ![o] =
                       Append(fills[o], [qty |-> n, price |-> price])]
    BY <1>6 DEF Executed
  <2>2. orders[o] \in Order /\ fills[o] = <<>> /\ orders[o].filled = 0
    BY <1>6, <2>1, ApprovedHasNoExecution DEF Executed, ExecutionInv, TypeOK
  <2>3. fills'[o] = <<[qty |-> n, price |-> price]>>
    BY <2>1, <2>2 DEF ExecutionInv, TypeOK
  <2>4. orders'[o] = [orders[o] EXCEPT !.filled = n,
                          !.remaining = orders[o].quantity - n,
                          !.status = IF n = orders[o].quantity THEN "FILLED"
                                     ELSE "PARTIALLY_FILLED"]
    BY <2>1, <2>2, FilledFacts
  <2>5. Matches(orders'[o], fills'[o])
    <3>1. fills'[o] # <<>> /\ fills'[o][1].qty = n
      BY <2>3
    <3>2. orders[o].quantity \in Nat
      BY <2>2 DEF Order
    <3>3. orders'[o].filled = n
      BY <2>2, <2>4 DEF Order
    <3>4. orders'[o].remaining = orders[o].quantity - n
      BY <2>2, <2>4 DEF Order
    <3>5. orders'[o].quantity = orders[o].quantity
      BY <2>2, <2>4 DEF Order
    <3>6. orders'[o].status = IF n = orders[o].quantity THEN "FILLED"
                              ELSE "PARTIALLY_FILLED"
      BY <2>2, <2>4 DEF Order
    <3> QED
      BY <2>1, <3>1, <3>2, <3>3, <3>4, <3>5, <3>6 DEF Matches
  <2>6. \A p \in DOMAIN orders' : Matches(orders'[p], fills'[p])
    BY <1>3, <2>1, <2>5
  <2>7. AtMostOneExecution'
    <3>1. Len(fills'[o]) = 1
      BY <2>3
    <3>2. \A p \in OrderIds \ {o} : fills'[p] = fills[p]
      BY <2>1 DEF ExecutionInv, TypeOK
    <3>3. ASSUME NEW p \in OrderIds PROVE Len(fills'[p]) <= 1
      <4>1. CASE p = o
        <5>1. Len(fills'[p]) = 1
          BY <3>1, <4>1, Zenon
        <5> QED
          BY <5>1
      <4>2. CASE p # o
        BY <3>2, <4>2 DEF ExecutionInv, AtMostOneExecution
      <4> QED
        BY <4>1, <4>2
    <3> QED
      BY <3>3 DEF AtMostOneExecution
  <2> QED
    BY <2>1, <2>6, <2>7 DEF ExecutionInv, UnissuedUnfilled
<1>7. ASSUME UNCHANGED <<orders, fills>> PROVE Rest
  BY <1>3, <1>7 DEF ExecutionInv, AtMostOneExecution, UnissuedUnfilled
<1>8. Rest
  BY <1>2, <1>4, <1>5, <1>6, <1>7 DEF OrderStep
<1> QED
  BY <1>1, <1>8 DEF ExecutionInv, OrdersMatchFills, Matches

LEMMA ExecutionInvariant == Spec => []ExecutionInv
BY ExecutionInvInit, ExecutionInvStep, PTL DEF Spec

\* No order executes twice, whichever of the simulator and the broker it is
\* given to and however often.
THEOREM OneExecution == Spec => []AtMostOneExecution
BY ExecutionInvariant, PTL DEF ExecutionInv

\* An order's quantities and status always say what its fills say.
THEOREM FillsMatch == Spec => []OrdersMatchFills
BY ExecutionInvariant, PTL DEF ExecutionInv

\* A filled or cancelled order is final, and one that was simulated or sent to the
\* broker before executes no more, whatever became of it.
THEOREM TerminalFinal == Spec => TerminalIsFinal
<1> DEFINE Final == \A o \in DOMAIN orders :
                      /\ ~Pending(orders[o].status) => orders'[o] = orders[o]
                      /\ orders[o].status # "APPROVED" => fills'[o] = fills[o]
<1>1. ExecutionInv /\ [Next]_vars => Final
  <2> SUFFICES ASSUME ExecutionInv, [Next]_vars PROVE Final
    OBVIOUS
  <2>1. OrderStep
    BY StepIsOrderStep
  <2> QED
    BY <2>1 DEF OrderStep, Submitted, Acknowledged, Executed, Cancelled,
                Pending, ExecutionInv, TypeOK
<1>2. ExecutionInv /\ [Next]_vars => [Final]_vars
  BY <1>1
<1> QED
  BY <1>2, ExecutionInvariant, PTL DEF Spec, TerminalIsFinal

-----------------------------------------------------------------------------
(* Claims and the limit on pending orders.  Only a submission adds a       *)
(* pending order; every other step keeps who claims what and can only      *)
(* settle orders.                                                          *)

OnlySettles ==
  /\ DOMAIN orders' = DOMAIN orders
  /\ \A p \in DOMAIN orders :
       /\ orders'[p].account = orders[p].account
       /\ orders'[p].deployment = orders[p].deployment
       /\ orders'[p].key = orders[p].key
       /\ orders'[p].quantity = orders[p].quantity
       /\ Pending(orders'[p].status) => Pending(orders[p].status)

LEMMA SubmittedOrSettled ==
  ASSUME ExecutionInv, [Next]_vars
  PROVE  (\E o \in OrderIds : Submitted(o)) \/ OnlySettles
<1>1. OrderStep
  BY StepIsOrderStep
<1>2. ASSUME NEW o \in OrderIds, Acknowledged(o) \/ Cancelled(o)
      PROVE  OnlySettles
  <2>1. PICK s \in {"ACKNOWLEDGED", "CANCELLED"} :
          /\ o \in DOMAIN orders
          /\ orders' = [orders EXCEPT ![o].status = s]
          /\ Pending(orders[o].status)
    BY <1>2 DEF Acknowledged, Cancelled, Pending
  <2>2. orders[o] \in Order
    BY <2>1 DEF ExecutionInv, TypeOK
  <2>3. orders'[o] = [orders[o] EXCEPT !.status = s]
    BY <2>1
  <2>4. \A p \in DOMAIN orders : p # o => orders'[p] = orders[p]
    BY <2>1
  <2>5. /\ orders'[o].account = orders[o].account
        /\ orders'[o].deployment = orders[o].deployment
        /\ orders'[o].key = orders[o].key
        /\ orders'[o].quantity = orders[o].quantity
    BY <2>2, <2>3 DEF Order
  <2> QED
    BY <2>1, <2>4, <2>5 DEF OnlySettles
<1>3. ASSUME NEW o \in OrderIds, NEW n \in Nat \ {0}, NEW price \in Nat,
             Executed(o, n, price)
      PROVE  OnlySettles
  <2>1. /\ o \in DOMAIN orders /\ orders[o].status = "APPROVED"
        /\ orders' = [orders EXCEPT ![o] = Filled(orders[o], n)]
    BY <1>3 DEF Executed
  <2>2. orders[o] \in Order /\ orders[o].filled = 0
    BY <2>1, ApprovedHasNoExecution DEF ExecutionInv, TypeOK
  <2>3. orders'[o] = [orders[o] EXCEPT !.filled = n,
                          !.remaining = orders[o].quantity - n,
                          !.status = IF n = orders[o].quantity THEN "FILLED"
                                     ELSE "PARTIALLY_FILLED"]
    BY <1>3, <2>1, <2>2, FilledFacts DEF Executed
  <2>4. /\ orders'[o].account = orders[o].account
        /\ orders'[o].deployment = orders[o].deployment
        /\ orders'[o].key = orders[o].key
        /\ orders'[o].quantity = orders[o].quantity
    BY <2>2, <2>3 DEF Order
  <2>5. \A p \in DOMAIN orders : p # o => orders'[p] = orders[p]
    BY <2>1
  <2>6. Pending(orders[o].status)
    BY <2>1 DEF Pending
  <2> QED
    BY <2>1, <2>4, <2>5, <2>6 DEF OnlySettles
<1>4. ASSUME UNCHANGED orders PROVE OnlySettles
  BY <1>4 DEF OnlySettles
<1> QED
  BY <1>1, <1>2, <1>3, <1>4 DEF OrderStep

LEMMA OneLiveOrderStep ==
  ASSUME ExecutionInv, OneLiveOrderPerKey, [Next]_vars
  PROVE  OneLiveOrderPerKey'
<1>1. ASSUME NEW o \in OrderIds, Submitted(o) PROVE OneLiveOrderPerKey'
  <2>1. PICK ord \in Order :
          /\ o \notin DOMAIN orders
          /\ ~Duplicate(ord.account, ord.deployment, ord.key)
          /\ orders' = [p \in DOMAIN orders \cup {o} |->
                         IF p = o THEN ord ELSE orders[p]]
    BY <1>1 DEF Submitted
  <2>2. \A p \in DOMAIN orders :
          /\ Pending(orders[p].status)
          /\ orders[p].account = ord.account
          => orders[p].deployment # ord.deployment \/ orders[p].key # ord.key
    BY <2>1 DEF Duplicate, PendingOrders
  <2> QED
    BY <2>1, <2>2 DEF OneLiveOrderPerKey
<1>2. ASSUME OnlySettles PROVE OneLiveOrderPerKey'
  BY <1>2 DEF OnlySettles, OneLiveOrderPerKey
<1> QED
  BY <1>1, <1>2, SubmittedOrSettled

LEMMA PendingOrdersStep ==
  ASSUME ExecutionInv, PendingOrdersBounded, [Next]_vars
  PROVE  PendingOrdersBounded'
<1>1. \A a : IsFiniteSet(PendingOrders(a)) /\ IsFiniteSet(PendingOrders(a)')
  <2>1. DOMAIN orders \subseteq OrderIds /\ DOMAIN orders' \subseteq OrderIds
    BY TypeOKStep DEF ExecutionInv, TypeOK
  <2>2. \A a : PendingOrders(a) \subseteq OrderIds /\ PendingOrders(a)' \subseteq OrderIds
    BY <2>1 DEF PendingOrders
  <2>3. IsFiniteSet(OrderIds)
    BY ConstantsAssumption
  <2> QED
    BY <2>2, <2>3, FS_Subset
<1>2. ASSUME NEW o \in OrderIds, Submitted(o), NEW a \in Accounts
      PROVE  Cardinality(PendingOrders(a)') <= MaxPending
  <2>1. PICK ord \in Order :
          /\ o \notin DOMAIN orders
          /\ MayAddPending(ord.account)
          /\ orders' = [p \in DOMAIN orders \cup {o} |->
                         IF p = o THEN ord ELSE orders[p]]
    BY <1>2 DEF Submitted
  <2>2. CASE a = ord.account
    <3>1. PendingOrders(a)' \subseteq PendingOrders(a) \cup {o}
      BY <2>1 DEF PendingOrders
    <3>2. o \notin PendingOrders(a)
      BY <2>1 DEF PendingOrders
    <3>3. /\ IsFiniteSet(PendingOrders(a) \cup {o})
          /\ Cardinality(PendingOrders(a) \cup {o}) = Cardinality(PendingOrders(a)) + 1
      BY <1>1, <3>2, FS_AddElement
    <3>4. Cardinality(PendingOrders(a)') <= Cardinality(PendingOrders(a)) + 1
      BY <3>1, <3>3, FS_Subset
    <3>5. Cardinality(PendingOrders(a)) < MaxPending
      BY <2>1, <2>2 DEF MayAddPending
    <3>6. /\ Cardinality(PendingOrders(a)) \in Nat
          /\ Cardinality(PendingOrders(a)') \in Nat
          /\ MaxPending \in Nat
      BY <1>1, FS_CardinalityType, ConstantsAssumption
    <3> QED
      BY <3>4, <3>5, <3>6
  <2>3. CASE a # ord.account
    <3>1. PendingOrders(a)' = PendingOrders(a)
      BY <2>1, <2>3 DEF PendingOrders
    <3> QED
      BY <3>1 DEF PendingOrdersBounded
  <2> QED
    BY <2>2, <2>3
<1>3. ASSUME OnlySettles, NEW a \in Accounts
      PROVE  Cardinality(PendingOrders(a)') <= MaxPending
  <2>1. PendingOrders(a)' \subseteq PendingOrders(a)
    BY <1>3 DEF OnlySettles, PendingOrders
  <2>2. Cardinality(PendingOrders(a)') <= Cardinality(PendingOrders(a))
    BY <1>1, <2>1, FS_Subset
  <2>3. /\ Cardinality(PendingOrders(a)) \in Nat
        /\ Cardinality(PendingOrders(a)') \in Nat
        /\ MaxPending \in Nat
    BY <1>1, FS_CardinalityType, ConstantsAssumption
  <2>4. Cardinality(PendingOrders(a)) <= MaxPending
    BY DEF PendingOrdersBounded
  <2> QED
    BY <2>2, <2>3, <2>4
<1> QED
  BY <1>2, <1>3, SubmittedOrSettled DEF PendingOrdersBounded

LEMMA ClaimsInit == Init => OneLiveOrderPerKey /\ PendingOrdersBounded
<1> SUFFICES ASSUME Init PROVE OneLiveOrderPerKey /\ PendingOrdersBounded
  OBVIOUS
<1>1. DOMAIN orders = {}
  BY DEF Init
<1>2. \A a : PendingOrders(a) = {}
  BY <1>1 DEF PendingOrders
<1>3. Cardinality({}) = 0 /\ MaxPending \in Nat
  BY FS_EmptySet, ConstantsAssumption
<1>4. PendingOrdersBounded
  BY <1>2, <1>3 DEF PendingOrdersBounded
<1>5. OneLiveOrderPerKey
  BY <1>1 DEF OneLiveOrderPerKey
<1> QED
  BY <1>4, <1>5

\* Two working orders of an account never share deployment, proposal and key.
THEOREM OneLiveOrder == Spec => []OneLiveOrderPerKey
BY ClaimsInit, OneLiveOrderStep, ExecutionInvariant, PTL DEF Spec

\* An account never has more pending orders than its policy allows.
THEOREM PendingBounded == Spec => []PendingOrdersBounded
BY ClaimsInit, PendingOrdersStep, ExecutionInvariant, PTL DEF Spec

-----------------------------------------------------------------------------
(* PaperTrading implements OrderLifecycle.                                 *)

\* What the mapping makes of an order.
Image(ord) == [phase |-> Phase(ord.status),
               claim |-> [account |-> ord.account,
                          deployment |-> ord.deployment, key |-> ord.key],
               size |-> ord.quantity,
               executed |-> ord.filled]

LEMMA WorkIsImage == work = [o \in DOMAIN orders |-> Image(orders[o])]
BY DEF work, Image

LEMMA WorkNextIsImage == work' = [o \in DOMAIN orders' |-> Image(orders'[o])]
BY DEF work, Image

LEMMA WorkingIsPending ==
  ASSUME TypeOK, NEW o \in DOMAIN orders
  PROVE  Lifecycle!Working(o) <=> Pending(orders[o].status)
<1>1. orders[o] \in Order
  BY DEF TypeOK
<1>2. orders[o].status \in {"APPROVED", "ACKNOWLEDGED", "PARTIALLY_FILLED",
                            "FILLED", "CANCELLED"}
  BY <1>1 DEF Order
<1>3. work[o].phase = Phase(orders[o].status)
  BY WorkIsImage DEF Image
<1> QED
  BY <1>2, <1>3 DEF Lifecycle!Working, Pending, Phase

LEMMA SubmittedPlaces ==
  ASSUME TypeOK, NEW o \in OrderIds, Submitted(o)
  PROVE  \E c \in Claims, n \in Sizes : Lifecycle!Place(o, c, n)
<1>1. PICK ord \in Order :
        /\ o \in OrderIds \ DOMAIN orders
        /\ ord.status = "APPROVED" /\ ord.filled = 0 /\ ord.quantity \in Sizes
        /\ ~Duplicate(ord.account, ord.deployment, ord.key)
        /\ orders' = [p \in DOMAIN orders \cup {o} |->
                       IF p = o THEN ord ELSE orders[p]]
  BY DEF Submitted
<1> DEFINE c == [account |-> ord.account, deployment |-> ord.deployment,
                 key |-> ord.key]
<1>2. c \in Claims
  BY DEF Order, Claims
<1>3. DOMAIN work = DOMAIN orders
  BY WorkIsImage
<1>4. ASSUME NEW p \in DOMAIN orders, work[p].claim = c
      PROVE  ~Lifecycle!Working(p)
  <2>1. /\ orders[p].account = ord.account
        /\ orders[p].deployment = ord.deployment
        /\ orders[p].key = ord.key
    BY <1>4, WorkIsImage DEF Image
  <2>2. ~Pending(orders[p].status)
    BY <1>1, <2>1 DEF Duplicate, PendingOrders
  <2> QED
    BY <2>2, WorkingIsPending
<1>5. Image(ord) = [phase |-> "live", claim |-> c, size |-> ord.quantity,
                    executed |-> 0]
  BY <1>1 DEF Image, Phase
<1>6. work' = [p \in DOMAIN work \cup {o} |->
                IF p = o THEN Image(ord) ELSE work[p]]
  <2>1. DOMAIN orders' = DOMAIN work \cup {o}
    BY <1>1, <1>3
  <2>2. \A p \in DOMAIN orders' :
          Image(orders'[p]) = IF p = o THEN Image(ord) ELSE work[p]
    BY <1>1, WorkIsImage
  <2> QED
    BY <2>1, <2>2, WorkNextIsImage
<1>7. Lifecycle!Place(o, c, ord.quantity)
  BY <1>1, <1>3, <1>4, <1>5, <1>6 DEF Lifecycle!Place
<1> QED
  BY <1>1, <1>2, <1>7

\* A change of one order changes its image and no other.
LEMMA OneImageChanges ==
  ASSUME NEW o \in DOMAIN orders, NEW ord,
         orders' = [orders EXCEPT ![o] = ord]
  PROVE  work' = [work EXCEPT ![o] = Image(ord)]
<1>1. DOMAIN orders' = DOMAIN orders /\ DOMAIN work = DOMAIN orders
  BY WorkIsImage
<1>2. \A p \in DOMAIN orders :
        Image(orders'[p]) = IF p = o THEN Image(ord) ELSE work[p]
  BY WorkIsImage
<1> QED
  BY <1>1, <1>2, WorkIsImage, WorkNextIsImage

LEMMA SettlingIsLifecycle ==
  ASSUME ExecutionInv, NEW o \in DOMAIN orders
  PROVE  /\ Acknowledged(o) => Lifecycle!Rest(o)
         /\ Cancelled(o) => Lifecycle!Withdraw(o)
         /\ \A n \in Nat \ {0}, price \in Nat :
              Executed(o, n, price) =>
                n \in 1..work[o].size /\ Lifecycle!Execute(o, n)
<1>1. orders[o] \in Order
  BY DEF ExecutionInv, TypeOK
<1>2. /\ work[o] = Image(orders[o])
      /\ work[o].phase = Phase(orders[o].status)
      /\ work[o].size = orders[o].quantity
  BY WorkIsImage DEF Image
<1>3. ASSUME Acknowledged(o) PROVE Lifecycle!Rest(o)
  <2> DEFINE new == [orders[o] EXCEPT !.status = "ACKNOWLEDGED"]
  <2>1. orders' = [orders EXCEPT ![o] = new] /\ orders[o].status = "APPROVED"
    BY <1>3 DEF Acknowledged
  <2>2. Image(new) = [Image(orders[o]) EXCEPT !.phase = "resting"]
    BY <1>1 DEF Image, Phase, Order
  <2>3. work' = [work EXCEPT ![o] = Image(new)]
    BY <2>1, OneImageChanges
  <2> HIDE DEF new
  <2> QED
    BY <1>2, <2>1, <2>2, <2>3 DEF Lifecycle!Rest, Phase
<1>4. ASSUME Cancelled(o) PROVE Lifecycle!Withdraw(o)
  <2> DEFINE new == [orders[o] EXCEPT !.status = "CANCELLED"]
  <2>1. /\ orders' = [orders EXCEPT ![o] = new]
        /\ orders[o].status \in {"APPROVED", "ACKNOWLEDGED", "PARTIALLY_FILLED"}
    BY <1>4 DEF Cancelled
  <2>2. Image(new) = [Image(orders[o]) EXCEPT !.phase = "cancelled"]
    BY <1>1 DEF Image, Phase, Order
  <2>3. work' = [work EXCEPT ![o] = Image(new)]
    BY <2>1, OneImageChanges
  <2>4. Lifecycle!Working(o)
    BY <2>1, WorkingIsPending DEF ExecutionInv, Pending
  <2> HIDE DEF new
  <2> QED
    BY <1>2, <2>2, <2>3, <2>4 DEF Lifecycle!Withdraw
<1>5. ASSUME NEW n \in Nat \ {0}, NEW price \in Nat, Executed(o, n, price)
      PROVE  n \in 1..work[o].size /\ Lifecycle!Execute(o, n)
  <2> DEFINE new == Filled(orders[o], n)
             phase == IF n = work[o].size THEN "filled" ELSE "resting"
  <2>1. /\ orders' = [orders EXCEPT ![o] = new]
        /\ orders[o].status = "APPROVED" /\ n <= orders[o].quantity
    BY <1>5 DEF Executed
  <2>2. orders[o].filled = 0
    BY <2>1, ApprovedHasNoExecution
  <2>3. new = [orders[o] EXCEPT !.filled = n,
                 !.remaining = orders[o].quantity - n,
                 !.status = IF n = orders[o].quantity THEN "FILLED"
                            ELSE "PARTIALLY_FILLED"]
    BY <1>1, <2>1, <2>2, FilledFacts
  <2> HIDE DEF new
  <2>4. /\ new.status = IF n = orders[o].quantity THEN "FILLED"
                        ELSE "PARTIALLY_FILLED"
        /\ new.filled = n
        /\ new.account = orders[o].account
        /\ new.deployment = orders[o].deployment
        /\ new.key = orders[o].key
        /\ new.quantity = orders[o].quantity
    BY <1>1, <2>3 DEF Order
  <2>5. Phase(new.status) = phase
    BY <1>2, <2>4 DEF Phase
  <2> HIDE DEF phase
  <2>6. Image(new) = [Image(orders[o]) EXCEPT !.phase = phase, !.executed = n]
    <3>1. Image(new) = [phase |-> phase,
                        claim |-> [account |-> orders[o].account,
                                   deployment |-> orders[o].deployment,
                                   key |-> orders[o].key],
                        size |-> orders[o].quantity,
                        executed |-> n]
      BY <2>4, <2>5 DEF Image
    <3>2. [Image(orders[o]) EXCEPT !.phase = phase, !.executed = n]
            = [[Image(orders[o]) EXCEPT !.phase = phase] EXCEPT !.executed = n]
      OBVIOUS
    <3>3. [Image(orders[o]) EXCEPT !.phase = phase] =
            [phase |-> phase,
             claim |-> [account |-> orders[o].account,
                        deployment |-> orders[o].deployment,
                        key |-> orders[o].key],
             size |-> orders[o].quantity,
             executed |-> orders[o].filled]
      BY DEF Image
    <3>4. \A c, size, executed1 :
            [[phase |-> phase, claim |-> c, size |-> size,
              executed |-> executed1] EXCEPT !.executed = n]
            = [phase |-> phase, claim |-> c, size |-> size, executed |-> n]
      OBVIOUS
    <3> DEFINE moved == [Image(orders[o]) EXCEPT !.phase = phase]
    <3>5. [moved EXCEPT !.executed = n] =
            [phase |-> phase,
             claim |-> [account |-> orders[o].account,
                        deployment |-> orders[o].deployment,
                        key |-> orders[o].key],
             size |-> orders[o].quantity,
             executed |-> n]
      <4>1. moved =
              [phase |-> phase,
               claim |-> [account |-> orders[o].account,
                          deployment |-> orders[o].deployment,
                          key |-> orders[o].key],
               size |-> orders[o].quantity,
               executed |-> orders[o].filled]
        BY <3>3
      <4> HIDE DEF moved
      <4> QED
        BY <3>4, <4>1
    <3>6. [Image(orders[o]) EXCEPT !.phase = phase, !.executed = n]
            = [moved EXCEPT !.executed = n]
      BY <3>2
    <3> HIDE DEF moved
    <3> QED
      BY <3>1, <3>5, <3>6
  <2>7. work' = [work EXCEPT ![o] = Image(new)]
    BY <2>1, OneImageChanges
  <2>8. work[o].phase = "live"
    BY <1>2, <2>1 DEF Phase
  <2>9. n \in 1..work[o].size
    BY <1>1, <1>2, <2>1 DEF Order
  <2>10. work' = [work EXCEPT ![o].phase = phase, ![o].executed = n]
    BY <1>2, <2>6, <2>7
  <2> QED
    BY <2>8, <2>9, <2>10 DEF Lifecycle!Execute, phase
<1> QED
  BY <1>3, <1>4, <1>5

LEMMA LifecycleInit == Init => Lifecycle!Init
BY DEF Init, Lifecycle!Init, work

LEMMA LifecycleStep == ExecutionInv /\ [Next]_vars => [Lifecycle!Next]_work
<1> SUFFICES ASSUME ExecutionInv, [Next]_vars PROVE [Lifecycle!Next]_work
  OBVIOUS
<1>1. OrderStep
  BY StepIsOrderStep
<1>2. DOMAIN work = DOMAIN orders
  BY WorkIsImage
<1>3. ASSUME NEW o \in OrderIds, Submitted(o) PROVE Lifecycle!Next
  BY <1>3, SubmittedPlaces DEF ExecutionInv, Lifecycle!Next
<1>4. ASSUME NEW o \in OrderIds, Acknowledged(o) PROVE Lifecycle!Next
  <2>1. o \in DOMAIN work /\ Lifecycle!Rest(o)
    BY <1>2, <1>4, SettlingIsLifecycle DEF Acknowledged
  <2> QED
    BY <2>1 DEF Lifecycle!Next
<1>5. ASSUME NEW o \in OrderIds, Cancelled(o) PROVE Lifecycle!Next
  <2>1. o \in DOMAIN work /\ Lifecycle!Withdraw(o)
    BY <1>2, <1>5, SettlingIsLifecycle DEF Cancelled
  <2> QED
    BY <2>1 DEF Lifecycle!Next
<1>6. ASSUME NEW o \in OrderIds, NEW n \in Nat \ {0}, NEW price \in Nat,
             Executed(o, n, price)
      PROVE  Lifecycle!Next
  <2>1. /\ o \in DOMAIN work
        /\ n \in 1..work[o].size
        /\ Lifecycle!Execute(o, n)
    BY <1>2, <1>6, SettlingIsLifecycle DEF Executed
  <2> QED
    BY <2>1 DEF Lifecycle!Next
<1>7. ASSUME UNCHANGED orders PROVE UNCHANGED work
  BY <1>7 DEF work
<1> QED
  BY <1>1, <1>3, <1>4, <1>5, <1>6, <1>7 DEF OrderStep

\* The paper-trading service implements the order lifecycle.
THEOREM Implements == Spec => RefinesLifecycle
BY LifecycleInit, LifecycleStep, ExecutionInvariant,
   PTL DEF Spec, RefinesLifecycle, Lifecycle!Spec

-----------------------------------------------------------------------------
(* The ledger and the stored account.                                      *)

Deposit == [EmptyBook EXCEPT !.cash = InitialCash]

\* What any request does to the money: open an account, book one entry and
\* store the account rebuilt from it, or nothing.
MoneyStep ==
  \/ \E a \in Accounts :
       /\ books' = [books EXCEPT ![a] = Deposit]
       /\ accounts' = [c \in DOMAIN accounts \cup {a} |->
                        IF c = a THEN Valuation(Deposit, 0) ELSE accounts[c]]
  \/ \E a \in Accounts, b \in BookType, mark \in Nat :
       /\ books' = [books EXCEPT ![a] = b]
       /\ accounts' = [accounts EXCEPT ![a] = Valuation(b, mark)]
  \/ UNCHANGED <<accounts, books>>

LEMMA BookingIsMoneyStep ==
  ASSUME TypeOK, NEW o \in DOMAIN orders,
         NEW n \in Nat \ {0}, NEW price \in Nat, NEW cashDelta \in Int,
         NEW qtyDelta \in Int \ {0}, NEW fees \in Int,
         Book(o, n, price, cashDelta, qtyDelta, fees)
  PROVE  MoneyStep
<1> DEFINE a == orders[o].account
           b == Post(books[a], cashDelta, qtyDelta, price, fees)
<1>1. a \in Accounts
  BY DEF TypeOK, Order
<1>2. b \in BookType
  BY <1>1, PostType DEF TypeOK, BookType
<1>3. /\ books' = [books EXCEPT ![a] = b]
      /\ accounts' = [accounts EXCEPT ![a] = Valuation(b, price)]
  BY DEF Book
<1> HIDE DEF a, b
<1> QED
  BY <1>1, <1>2, <1>3 DEF MoneyStep

LEMMA EveryStepIsAMoneyStep ==
  ASSUME TypeOK, [Next]_vars PROVE MoneyStep
<1> USE DEF desk, money, broker
<1>1. ASSUME NEW a \in Accounts, CreateAccount(a) PROVE MoneyStep
  BY <1>1 DEF CreateAccount, MoneyStep, Deposit
<1>2. ASSUME NEW a \in Accounts, NEW on \in BOOLEAN,
             Reconcile(a) \/ SetEmergency(a, on)
      PROVE  MoneyStep
  BY <1>2 DEF Reconcile, SetEmergency, MoneyStep
<1>3. ASSUME NEW d \in Deployments,
             CreateDeployment(d) \/ ApproveDeployment(d) \/ MarkStale(d)
      PROVE  MoneyStep
  BY <1>3 DEF CreateDeployment, ApproveDeployment, MarkStale, MoneyStep
<1>4. ASSUME NEW o \in OrderIds, Intent(o) PROVE MoneyStep
  BY <1>4 DEF Intent, SubmitIntent, MoneyStep
<1>5. ASSUME NEW o \in DOMAIN orders, NEW price \in Prices,
             SimulateFill(o, price)
      PROVE  MoneyStep
  <2> DEFINE ord == orders[o]
             n == FillQuantity(o)
             at == FillPrice(ord.side, ord.terms, price)
             fee == FillFee(n, at)
             sign == IF ord.side \in Buys THEN 1 ELSE -1
  <2>1. n \in Nat \ {0}
    <3>1. ord \in Order
      BY DEF TypeOK
    <3>2. ord.remaining \in Nat
      BY <3>1 DEF Order
    <3>3. n > 0
      BY <1>5 DEF SimulateFill
    <3> QED
      BY <3>2, <3>3, ConstantsAssumption DEF FillQuantity, AtMost
  <2>2. at \in Nat
    BY FillPriceType DEF TypeOK, Order
  <2>3. fee \in Int
    BY <2>1, <2>2, FillFeeType
  <2>4. Book(o, n, at, -(sign * n * at) - fee, sign * n, fee)
    BY <1>5 DEF SimulateFill
  <2> HIDE DEF n, at, fee
  <2>5. sign * n \in Int \ {0} /\ sign * n * at \in Int
    BY <2>1, <2>2
  <2>6. -(sign * n * at) - fee \in Int
    BY <2>3, <2>5
  <2> HIDE DEF sign
  <2> QED
    BY <2>1, <2>2, <2>3, <2>4, <2>5, <2>6, BookingIsMoneyStep
<1>6. ASSUME NEW o \in DOMAIN orders, NEW price \in Prices,
             SimulateNoFill(o, price)
      PROVE  MoneyStep
  BY <1>6 DEF SimulateNoFill, MoneyStep
<1>7. ASSUME NEW o \in DOMAIN orders, SubmitToBroker(o) PROVE MoneyStep
  <2> DEFINE ord == orders[o]
             t == ord.terms
             at == IF t.limit > 0 THEN t.limit
                   ELSE IF t.stop > 0 THEN t.stop ELSE BrokerPrice
             n == ord.quantity
             delta == IF ord.side = "BUY" THEN n ELSE -n
  <2>1. n \in Nat \ {0} /\ at \in Nat /\ BrokerFee \in Int
    BY ConstantsAssumption DEF TypeOK, Order, Terms
  <2>2. delta \in Int \ {0}
    BY <2>1
  <2>3. 0 \in Int /\ Book(o, n, at, 0, delta, BrokerFee)
    BY <1>7 DEF SubmitToBroker
  <2> HIDE DEF ord, at, n, delta
  <2> QED
    BY <2>1, <2>2, <2>3, BookingIsMoneyStep
<1>8. ASSUME NEW o \in DOMAIN orders, CancelOrder(o) \/ CancelAtBroker(o)
      PROVE  MoneyStep
  BY <1>8 DEF CancelOrder, CancelAtBroker, MoneyStep
<1>9. CASE UNCHANGED vars
  BY <1>9 DEF vars, MoneyStep
<1> QED
  BY <1>1, <1>2, <1>3, <1>4, <1>5, <1>6, <1>7, <1>8, <1>9
     DEF Next, SimulateOrder

\* An account that is what its book says, by itself.
Follows(account, book) ==
  /\ account.cash = book.cash
  /\ account.fees = book.fees
  /\ account.realized = book.realized
  /\ account.gross = Abs(account.net)
  /\ account.net > 0 => book.qty > 0
  /\ account.net < 0 => book.qty < 0

\* A position valued at a mark that is not negative keeps its side.
LEMMA ValuationFollows ==
  ASSUME NEW b \in BookType, NEW mark \in Nat
  PROVE  Follows(Valuation(b, mark), b)
<1>1. b.qty \in Int
  BY DEF BookType
<1>2. ASSUME NEW q \in Int PROVE (mark * q > 0 => q > 0) /\ (mark * q < 0 => q < 0)
  <2>1. q = 0 => mark * q = 0
    OBVIOUS
  <2>2. q > 0 => mark * q >= 0
    OBVIOUS
  <2>3. q < 0 => mark * q <= 0
    OBVIOUS
  <2> QED
    BY <2>1, <2>2, <2>3
<1>3. /\ Valuation(b, mark).net = mark * b.qty
      /\ Valuation(b, mark).gross = Abs(mark * b.qty)
      /\ Valuation(b, mark).cash = b.cash
      /\ Valuation(b, mark).fees = b.fees
      /\ Valuation(b, mark).realized = b.realized
  BY DEF Valuation
<1> QED
  BY <1>1, <1>2, <1>3 DEF Follows

LEMMA AccountFollowsStep ==
  TypeOK /\ AccountFollowsLedger /\ [Next]_vars => AccountFollowsLedger'
<1> SUFFICES ASSUME TypeOK, AccountFollowsLedger, [Next]_vars
             PROVE  AccountFollowsLedger'
  OBVIOUS
<1>1. MoneyStep
  BY EveryStepIsAMoneyStep
<1>2. /\ DOMAIN accounts \subseteq Accounts
      /\ DOMAIN books = Accounts
      /\ \A c \in DOMAIN accounts : Follows(accounts[c], books[c])
  BY DEF TypeOK, AccountFollowsLedger, Follows
<1>3. ASSUME \A c \in DOMAIN accounts' : Follows(accounts'[c], books'[c])
      PROVE  AccountFollowsLedger'
  BY <1>3 DEF AccountFollowsLedger, Follows
<1>4. ASSUME NEW a \in Accounts,
             books' = [books EXCEPT ![a] = Deposit],
             accounts' = [c \in DOMAIN accounts \cup {a} |->
                           IF c = a THEN Valuation(Deposit, 0) ELSE accounts[c]]
      PROVE  \A c \in DOMAIN accounts' : Follows(accounts'[c], books'[c])
  <2>1. Deposit \in BookType /\ 0 \in Nat
    BY ConstantsAssumption DEF Deposit, EmptyBook, BookType
  <2>2. Follows(Valuation(Deposit, 0), Deposit)
    BY <2>1, ValuationFollows
  <2> QED
    BY <1>2, <1>4, <2>2
<1>5. ASSUME NEW a \in Accounts, NEW b \in BookType, NEW mark \in Nat,
             books' = [books EXCEPT ![a] = b],
             accounts' = [accounts EXCEPT ![a] = Valuation(b, mark)]
      PROVE  \A c \in DOMAIN accounts' : Follows(accounts'[c], books'[c])
  <2>1. Follows(Valuation(b, mark), b)
    BY ValuationFollows
  <2> QED
    BY <1>2, <1>5, <2>1
<1> QED
  BY <1>1, <1>2, <1>3, <1>4, <1>5 DEF MoneyStep

\* The stored account never lags its ledger in cash, fees, realized profit or
\* the side of its exposure, for any prices, caps, costs and broker: every
\* route that books an entry stores the account rebuilt from it.
THEOREM AccountsFollow == Spec => []AccountFollowsLedger
<1>1. Init => AccountFollowsLedger
  BY DEF Init, AccountFollowsLedger
<1> QED
  BY <1>1, AccountFollowsStep, TypeOKInit, TypeOKStep, PTL DEF Spec

-----------------------------------------------------------------------------
(* What the ledger adds up to.  The sums are stated of any orders and      *)
(* fills, so that they can be compared before and after a step.            *)

OrdersIn(O, a) == {o \in DOMAIN O : O[o].account = a}
MovedOf(O, a) == [o \in OrdersIn(O, a) |-> Sign(O[o]) * O[o].filled]
Cost(ord, executions) ==
  IF executions = <<>> THEN 0 ELSE Sign(ord) * executions[1].qty * executions[1].price
SpentOf(O, F, a) == [o \in OrdersIn(O, a) |-> Cost(O[o], F[o])]

Position(O, a) == SumFunctionOnSet(MovedOf(O, a), OrdersIn(O, a))
Outlay(O, F, a) == SumFunctionOnSet(SpentOf(O, F, a), OrdersIn(O, a))

FillMaps == [OrderIds -> Seq([qty : Nat \ {0}, price : Nat])]

LEMMA OrdersInFinite ==
  ASSUME NEW O, DOMAIN O \subseteq OrderIds, NEW a
  PROVE  IsFiniteSet(OrdersIn(O, a))
BY ConstantsAssumption, FS_Subset DEF OrdersIn

LEMMA SignType == ASSUME NEW ord PROVE Sign(ord) \in {1, -1}
BY DEF Sign

LEMMA CostType ==
  ASSUME NEW ord, NEW executions \in Seq([qty : Nat \ {0}, price : Nat])
  PROVE  Cost(ord, executions) \in Int
<1>1. CASE executions = <<>>
  BY <1>1 DEF Cost
<1>2. CASE executions # <<>>
  <2>1. executions[1] \in [qty : Nat \ {0}, price : Nat]
    <3>1. 1 \in 1..Len(executions)
      BY <1>2
    <3> QED
      BY <3>1, ElementOfSeq
  <2>2. executions[1].qty \in Nat /\ executions[1].price \in Nat
    BY <2>1
  <2>3. \A x, y \in Int : x * y \in Int
    OBVIOUS
  <2>4. Sign(ord) \in Int /\ Sign(ord) * executions[1].qty \in Int
    BY <2>2, <2>3, SignType
  <2> QED
    BY <1>2, <2>2, <2>3, <2>4 DEF Cost
<1> QED
  BY <1>1, <1>2

LEMMA SummandTypes ==
  ASSUME NEW O, DOMAIN O \subseteq OrderIds, \A o \in DOMAIN O : O[o] \in Order,
         NEW F \in FillMaps, NEW a
  PROVE  /\ \A o \in OrdersIn(O, a) : MovedOf(O, a)[o] \in Int /\ SpentOf(O, F, a)[o] \in Int
         /\ Position(O, a) \in Int /\ Outlay(O, F, a) \in Int
<1>1. ASSUME NEW o \in OrdersIn(O, a)
      PROVE  MovedOf(O, a)[o] \in Int /\ SpentOf(O, F, a)[o] \in Int
  <2>1. O[o].filled \in Nat
    BY DEF OrdersIn, Order
  <2>2. Sign(O[o]) * O[o].filled \in Int
    BY <2>1, SignType
  <2>3. F[o] \in Seq([qty : Nat \ {0}, price : Nat])
    BY DEF OrdersIn, FillMaps
  <2>4. Cost(O[o], F[o]) \in Int
    BY <2>3, CostType
  <2> QED
    BY <2>2, <2>4 DEF MovedOf, SpentOf
<1>2. Position(O, a) \in Int /\ Outlay(O, F, a) \in Int
  BY <1>1, OrdersInFinite, SumType DEF Position, Outlay
<1> QED
  BY <1>1, <1>2

\* Orders whose account, side and filled quantity are the same add up the same.
LEMMA SumsSame ==
  ASSUME NEW O, NEW L, DOMAIN O \subseteq OrderIds, DOMAIN L = DOMAIN O, NEW F, NEW a,
         \A o \in DOMAIN O : /\ L[o].account = O[o].account
                             /\ L[o].side = O[o].side /\ L[o].filled = O[o].filled
  PROVE  Position(L, a) = Position(O, a) /\ Outlay(L, F, a) = Outlay(O, F, a)
<1>1. OrdersIn(L, a) = OrdersIn(O, a)
  BY DEF OrdersIn
<1>2. /\ MovedOf(L, a) = MovedOf(O, a)
      /\ SpentOf(L, F, a) = SpentOf(O, F, a)
  BY <1>1 DEF MovedOf, SpentOf, OrdersIn, Sign, Cost
<1> QED
  BY <1>1, <1>2 DEF Position, Outlay

\* A new order adds nothing before it is filled.
LEMMA SumsNew ==
  ASSUME NEW O, DOMAIN O \subseteq OrderIds, \A p \in DOMAIN O : O[p] \in Order,
         NEW F \in FillMaps, NEW a, NEW o \in OrderIds, o \notin DOMAIN O,
         NEW ord \in Order, ord.filled = 0, F[o] = <<>>,
         NEW L, L = [p \in DOMAIN O \cup {o} |-> IF p = o THEN ord ELSE O[p]]
  PROVE  Position(L, a) = Position(O, a) /\ Outlay(L, F, a) = Outlay(O, F, a)
<1> DEFINE D == OrdersIn(O, a)
<1>1. /\ DOMAIN L \subseteq OrderIds /\ \A p \in DOMAIN L : L[p] \in Order
      /\ \A p \in DOMAIN O : L[p] = O[p]
      /\ L[o] = ord
  OBVIOUS
<1>2. IsFiniteSet(D)
  BY OrdersInFinite
<1>3. OrdersIn(L, a) = (IF ord.account = a THEN D \cup {o} ELSE D) /\ o \notin D
  BY DEF OrdersIn
<1>4. \A p \in D : /\ MovedOf(L, a)[p] = MovedOf(O, a)[p]
                   /\ SpentOf(L, F, a)[p] = SpentOf(O, F, a)[p]
  BY <1>1, <1>3 DEF MovedOf, SpentOf, OrdersIn
<1>5. /\ SumFunctionOnSet(MovedOf(L, a), D) = Position(O, a)
      /\ SumFunctionOnSet(SpentOf(L, F, a), D) = Outlay(O, F, a)
  BY <1>2, <1>4, SumEqual DEF Position, Outlay
<1>6. CASE ord.account # a
  BY <1>3, <1>5, <1>6 DEF Position, Outlay
<1>7. CASE ord.account = a
  <2>1. OrdersIn(L, a) = D \cup {o}
    BY <1>3, <1>7
  <2>2. MovedOf(L, a)[o] = 0 /\ SpentOf(L, F, a)[o] = 0
    <3>1. Sign(ord) * 0 = 0
      BY SignType
    <3> QED
      BY <1>1, <2>1, <3>1 DEF MovedOf, SpentOf, Cost
  <2>3. \A p \in D \cup {o} : MovedOf(L, a)[p] \in Int /\ SpentOf(L, F, a)[p] \in Int
    BY <1>1, <2>1, SummandTypes
  <2>4. SumFunctionOnSet(MovedOf(L, a), D \cup {o}) =
          SumFunctionOnSet(MovedOf(L, a), D) + MovedOf(L, a)[o]
    BY <1>2, <1>3, <2>3, SumAdd
  <2>5. SumFunctionOnSet(SpentOf(L, F, a), D \cup {o}) =
          SumFunctionOnSet(SpentOf(L, F, a), D) + SpentOf(L, F, a)[o]
    BY <1>2, <1>3, <2>3, SumAdd
  <2>6. Position(O, a) \in Int /\ Outlay(O, F, a) \in Int
    BY SummandTypes
  <2>7. /\ Position(L, a) = SumFunctionOnSet(MovedOf(L, a), D \cup {o})
        /\ Outlay(L, F, a) = SumFunctionOnSet(SpentOf(L, F, a), D \cup {o})
    BY <2>1, Zenon DEF Position, Outlay
  <2>8. Position(L, a) = Position(O, a) + 0 /\ Outlay(L, F, a) = Outlay(O, F, a) + 0
    BY <1>5, <2>2, <2>4, <2>5, <2>7, Zenon
  <2>9. \A i \in Int : i + 0 = i
    OBVIOUS
  <2> QED
    BY <2>6, <2>8, <2>9, Zenon
<1> QED
  BY <1>6, <1>7


\* The sums of two sets of orders that differ at one order.
LEMMA SumsDiffer ==
  ASSUME NEW O, NEW L, NEW F, NEW G, NEW a, DOMAIN O \subseteq OrderIds,
         OrdersIn(L, a) = OrdersIn(O, a), NEW o \in OrdersIn(O, a),
         \A p \in OrdersIn(O, a) :
           /\ MovedOf(O, a)[p] \in Int /\ SpentOf(O, F, a)[p] \in Int
           /\ MovedOf(L, a)[p] \in Int /\ SpentOf(L, G, a)[p] \in Int,
         \A p \in OrdersIn(O, a) \ {o} :
           /\ MovedOf(O, a)[p] = MovedOf(L, a)[p]
           /\ SpentOf(O, F, a)[p] = SpentOf(L, G, a)[p]
  PROVE  /\ Position(L, a) = Position(O, a) + (MovedOf(L, a)[o] - MovedOf(O, a)[o])
         /\ Outlay(L, G, a) = Outlay(O, F, a) + (SpentOf(L, G, a)[o] - SpentOf(O, F, a)[o])
<1>1. IsFiniteSet(OrdersIn(O, a))
  BY OrdersInFinite
<1>2. SumFunctionOnSet(MovedOf(L, a), OrdersIn(O, a)) =
        SumFunctionOnSet(MovedOf(O, a), OrdersIn(O, a)) + (MovedOf(L, a)[o] - MovedOf(O, a)[o])
  BY <1>1, SumChange
<1>3. SumFunctionOnSet(SpentOf(L, G, a), OrdersIn(O, a)) =
        SumFunctionOnSet(SpentOf(O, F, a), OrdersIn(O, a))
          + (SpentOf(L, G, a)[o] - SpentOf(O, F, a)[o])
  BY <1>1, SumChange
<1> QED
  BY <1>2, <1>3, Zenon DEF Position, Outlay

\* The sums of two sets of orders that agree.
LEMMA SumsAgree ==
  ASSUME NEW O, NEW L, NEW F, NEW G, NEW a, DOMAIN O \subseteq OrderIds,
         OrdersIn(L, a) = OrdersIn(O, a),
         \A p \in OrdersIn(O, a) :
           /\ MovedOf(O, a)[p] = MovedOf(L, a)[p]
           /\ SpentOf(O, F, a)[p] = SpentOf(L, G, a)[p]
  PROVE  Position(L, a) = Position(O, a) /\ Outlay(L, G, a) = Outlay(O, F, a)
<1>1. IsFiniteSet(OrdersIn(O, a))
  BY OrdersInFinite
<1>2. SumFunctionOnSet(MovedOf(O, a), OrdersIn(O, a)) =
        SumFunctionOnSet(MovedOf(L, a), OrdersIn(O, a))
  BY <1>1, SumEqual
<1>3. SumFunctionOnSet(SpentOf(O, F, a), OrdersIn(O, a)) =
        SumFunctionOnSet(SpentOf(L, G, a), OrdersIn(O, a))
  BY <1>1, SumEqual
<1> QED
  BY <1>2, <1>3, Zenon DEF Position, Outlay

\* The execution of an order without any moves its account's position by its
\* quantity and its outlay by its cost, and no other account's.
LEMMA SumsFilled ==
  ASSUME NEW O, DOMAIN O \subseteq OrderIds, \A p \in DOMAIN O : O[p] \in Order,
         NEW F \in FillMaps, NEW o \in DOMAIN O, F[o] = <<>>, O[o].filled = 0,
         NEW n \in Nat \ {0}, NEW price \in Nat,
         NEW ord \in Order, ord.account = O[o].account, ord.side = O[o].side,
         ord.filled = n,
         NEW L, DOMAIN L = DOMAIN O, L[o] = ord,
         \A p \in DOMAIN O \ {o} : L[p] = O[p],
         NEW G \in FillMaps, G[o] = <<[qty |-> n, price |-> price]>>,
         \A p \in OrderIds \ {o} : G[p] = F[p],
         NEW a
  PROVE  IF a = O[o].account
         THEN /\ Position(L, a) = Position(O, a) + Sign(O[o]) * n
              /\ Outlay(L, G, a) = Outlay(O, F, a) + Sign(O[o]) * n * price
         ELSE Position(L, a) = Position(O, a) /\ Outlay(L, G, a) = Outlay(O, F, a)
<1> DEFINE D == OrdersIn(O, a)
<1>1. /\ DOMAIN L = DOMAIN O /\ \A p \in DOMAIN L : L[p] \in Order
      /\ \A p \in DOMAIN O : p # o => L[p] = O[p]
      /\ L[o] = ord
  OBVIOUS
<1>6. OrdersIn(L, a) = D
  BY <1>1 DEF OrdersIn
<1>7. \A p \in D \ {o} : /\ MovedOf(O, a)[p] = MovedOf(L, a)[p]
                         /\ SpentOf(O, F, a)[p] = SpentOf(L, G, a)[p]
  BY <1>1, <1>6 DEF MovedOf, SpentOf, OrdersIn
<1>9. CASE a # O[o].account
  <2>1. o \notin D
    BY <1>9 DEF OrdersIn
  <2>2. \A p \in D : /\ MovedOf(O, a)[p] = MovedOf(L, a)[p]
                     /\ SpentOf(O, F, a)[p] = SpentOf(L, G, a)[p]
    BY <1>7, <2>1, Zenon
  <2> QED
    BY <1>6, <1>9, <2>2, SumsAgree
<1>10. CASE a = O[o].account
  <2>1. o \in D
    BY <1>10 DEF OrdersIn
  <2>2. Sign(ord) = Sign(O[o])
    BY DEF Sign
  <2>3. MovedOf(O, a)[o] = 0 /\ MovedOf(L, a)[o] = Sign(O[o]) * n
    <3>1. Sign(O[o]) * 0 = 0
      BY SignType
    <3>2. /\ MovedOf(O, a)[o] = Sign(O[o]) * O[o].filled
          /\ MovedOf(L, a)[o] = Sign(L[o]) * L[o].filled
      BY <1>6, <2>1, Zenon DEF MovedOf
    <3> QED
      BY <1>1, <2>2, <3>1, <3>2, Zenon
  <2>4. SpentOf(O, F, a)[o] = 0 /\ SpentOf(L, G, a)[o] = Sign(O[o]) * n * price
    <3>1. /\ SpentOf(O, F, a)[o] = Cost(O[o], F[o])
          /\ SpentOf(L, G, a)[o] = Cost(L[o], G[o])
      BY <1>6, <2>1, Zenon DEF SpentOf
    <3>2. Cost(O[o], F[o]) = 0
      BY DEF Cost
    <3>3. G[o] # <<>> /\ G[o][1].qty = n /\ G[o][1].price = price
      <4> DEFINE r == [qty |-> n, price |-> price]
      <4>1. G[o] = <<r>> /\ r.qty = n /\ r.price = price
        OBVIOUS
      <4> HIDE DEF r
      <4>2. <<r>> # <<>> /\ <<r>>[1] = r
        OBVIOUS
      <4> QED
        BY <4>1, <4>2
    <3>4. Cost(ord, G[o]) = Sign(ord) * n * price
      BY <3>3, Zenon DEF Cost
    <3> QED
      BY <1>1, <2>2, <3>1, <3>2, <3>4, Zenon
  <2>5. \A p \in D : /\ MovedOf(O, a)[p] \in Int /\ SpentOf(O, F, a)[p] \in Int
                     /\ MovedOf(L, a)[p] \in Int /\ SpentOf(L, G, a)[p] \in Int
    BY <1>1, <1>6, SummandTypes
  <2>6. /\ Position(L, a) = Position(O, a) + (MovedOf(L, a)[o] - MovedOf(O, a)[o])
        /\ Outlay(L, G, a) = Outlay(O, F, a) + (SpentOf(L, G, a)[o] - SpentOf(O, F, a)[o])
    BY <1>6, <1>7, <2>1, <2>5, SumsDiffer
  <2>8. \A i \in Int : i - 0 = i
    OBVIOUS
  <2>9. MovedOf(L, a)[o] \in Int /\ SpentOf(L, G, a)[o] \in Int
    BY <2>1, <2>5
  <2>10. /\ Position(L, a) = Position(O, a) + MovedOf(L, a)[o]
         /\ Outlay(L, G, a) = Outlay(O, F, a) + SpentOf(L, G, a)[o]
    BY <2>3, <2>4, <2>6, <2>8, <2>9, Zenon
  <2> QED
    BY <1>10, <2>3, <2>4, <2>10, Zenon
<1> QED
  BY <1>9, <1>10


\* The book of an account is what its orders executed, and an account that was
\* not opened has no orders.
Explained(a) ==
  /\ books[a].qty = Position(orders, a)
  /\ books[a].cash + books[a].fees = InitialCash - Outlay(orders, fills, a)

Booked ==
  \A a \in Accounts :
    IF a \in DOMAIN accounts THEN Explained(a) ELSE OrdersIn(orders, a) = {}

LEMMA ExplainedFacts ==
  ASSUME TypeOK, NEW a \in Accounts
  PROVE  /\ Position(orders, a) \in Int /\ Outlay(orders, fills, a) \in Int
         /\ books[a].qty \in Int /\ books[a].cash \in Int /\ books[a].fees \in Int
         /\ fills \in FillMaps
<1>1. fills \in FillMaps
  BY DEF TypeOK, FillMaps
<1>2. Position(orders, a) \in Int /\ Outlay(orders, fills, a) \in Int
  BY <1>1, SummandTypes DEF TypeOK
<1> QED
  BY <1>1, <1>2 DEF TypeOK

\* Steps that touch neither the money nor what an order executed.
LEMMA NothingBooked ==
  ASSUME TypeOK, Booked, UNCHANGED <<accounts, books, fills>>,
         DOMAIN orders' = DOMAIN orders,
         \A o \in DOMAIN orders : /\ orders'[o].account = orders[o].account
                                  /\ orders'[o].side = orders[o].side
                                  /\ orders'[o].filled = orders[o].filled
  PROVE  Booked'
<1>1. DOMAIN orders \subseteq OrderIds
  BY DEF TypeOK
<1>2. ASSUME NEW a
      PROVE  /\ OrdersIn(orders', a) = OrdersIn(orders, a)
             /\ Position(orders', a) = Position(orders, a)
             /\ Outlay(orders', fills, a) = Outlay(orders, fills, a)
  <2>1. OrdersIn(orders', a) = OrdersIn(orders, a)
    BY DEF OrdersIn
  <2> QED
    BY <1>1, <2>1, SumsSame
<1> QED
  BY <1>2 DEF Booked, Explained

LEMMA AccountBooked ==
  ASSUME TypeOK, Booked, NEW a \in Accounts, CreateAccount(a)
  PROVE  Booked'
<1>1. /\ a \notin DOMAIN accounts
      /\ books' = [books EXCEPT ![a] = Deposit]
      /\ DOMAIN accounts' = DOMAIN accounts \cup {a}
      /\ orders' = orders /\ fills' = fills
  BY DEF CreateAccount, Deposit
<1>2. OrdersIn(orders, a) = {}
  BY <1>1 DEF Booked
<1>3. Position(orders, a) = 0 /\ Outlay(orders, fills, a) = 0
  BY <1>2, SumEmpty DEF Position, Outlay
<1>4. books'[a] = Deposit /\ \A c \in Accounts \ {a} : books'[c] = books[c]
  BY <1>1 DEF TypeOK
<1>5. Deposit.qty = 0 /\ Deposit.cash = InitialCash /\ Deposit.fees = 0
  BY DEF Deposit, EmptyBook
<1>6. InitialCash + 0 = InitialCash - 0
  BY ConstantsAssumption
<1>7. Explained(a)'
  BY <1>1, <1>3, <1>4, <1>5, <1>6, Zenon DEF Explained
<1>8. ASSUME NEW c \in Accounts, c # a
      PROVE  IF c \in DOMAIN accounts' THEN Explained(c)' ELSE OrdersIn(orders', c) = {}
  BY <1>1, <1>4, <1>8 DEF Booked, Explained
<1>9. a \in DOMAIN accounts'
  BY <1>1
<1> QED
  BY <1>7, <1>8, <1>9 DEF Booked

LEMMA IntentBooked ==
  ASSUME ExecutionInv, Booked, NEW o \in OrderIds, Intent(o), TypeOK'
  PROVE  Booked'
<1>1. PICK a \in Accounts, d \in Deployments, k \in Keys, side \in TradedSides,
           t \in OrderTerms, q \in Quantities, price \in Prices :
        SubmitIntent(o, a, d, k, side, t, q, price)
  BY DEF Intent
<1> DEFINE ord == [account |-> a, deployment |-> d, key |-> k, side |-> side,
                   terms |-> t, quantity |-> Resized(q, price), filled |-> 0,
                   remaining |-> Resized(q, price), status |-> "APPROVED"]
<1>2. /\ o \notin DOMAIN orders /\ a \in DOMAIN accounts
      /\ orders' = [p \in DOMAIN orders \cup {o} |-> IF p = o THEN ord ELSE orders[p]]
      /\ accounts' = accounts /\ books' = books /\ fills' = fills
  BY <1>1 DEF SubmitIntent, money
<1>3. ord.filled = 0 /\ ord.account = a
  OBVIOUS
<1> HIDE DEF ord
<1>4. orders'[o] = ord /\ o \in DOMAIN orders'
  BY <1>2
<1>5. ord \in Order
  BY <1>4 DEF TypeOK
<1>6. fills[o] = <<>>
  BY <1>2 DEF ExecutionInv, UnissuedUnfilled
<1>7. TypeOK
  BY DEF ExecutionInv
<1>8. DOMAIN orders \subseteq OrderIds /\ (\A p \in DOMAIN orders : orders[p] \in Order)
  BY <1>7 DEF TypeOK
<1>9. ASSUME NEW c \in Accounts
      PROVE  /\ Position(orders', c) = Position(orders, c)
             /\ Outlay(orders', fills, c) = Outlay(orders, fills, c)
  <2>1. fills \in FillMaps
    BY <1>7, ExplainedFacts
  <2> QED
    BY <1>2, <1>3, <1>5, <1>6, <1>8, <2>1, SumsNew
<1>10. ASSUME NEW c \in Accounts, c \notin DOMAIN accounts
       PROVE  OrdersIn(orders', c) = {}
  <2>1. OrdersIn(orders, c) = {}
    BY <1>10 DEF Booked
  <2>2. \A p \in DOMAIN orders : orders'[p] = orders[p]
    BY <1>2
  <2> QED
    BY <1>2, <1>3, <1>4, <1>10, <2>1, <2>2 DEF OrdersIn
<1> QED
  BY <1>2, <1>9, <1>10 DEF Booked, Explained


\* The simulator's fill moves the book by exactly what it adds to the sums.
LEMMA FillBooked ==
  ASSUME ExecutionInv, Booked, NEW o \in DOMAIN orders, NEW price \in Prices,
         SimulateFill(o, price), TypeOK'
  PROVE  Booked'
<1> DEFINE ord == orders[o]
           a == ord.account
           n == FillQuantity(o)
           at == FillPrice(ord.side, ord.terms, price)
           fee == FillFee(n, at)
           sign == IF ord.side \in Buys THEN 1 ELSE -1
           b == Post(books[a], -(sign * n * at) - fee, sign * n, at, fee)
           executed == [qty |-> n, price |-> at]
<1>1. TypeOK
  BY DEF ExecutionInv
<1>2. /\ ord \in Order /\ a \in Accounts /\ o \in OrderIds
      /\ ord.status = "APPROVED"
  <2>1. MaySimulate(o)
    BY DEF SimulateFill
  <2> QED
    BY <1>1, <2>1, SimulatedIsApproved DEF TypeOK, Order
<1>3. ord.filled = 0 /\ fills[o] = <<>>
  BY <1>2, ApprovedHasNoExecution
<1>4. n \in Nat \ {0} /\ at \in Nat /\ fee \in Int /\ n <= ord.quantity
  <2>1. n > 0
    BY DEF SimulateFill
  <2>2. /\ ord.remaining \in Nat /\ ord.quantity \in Nat /\ ord.remaining <= ord.quantity
        /\ ord.terms \in Terms
    BY <1>2, RemainingWithinQuantity, ConstantsAssumption DEF Order
  <2>3. n \in Nat \ {0} /\ n <= ord.quantity
    BY <2>1, <2>2, ConstantsAssumption DEF FillQuantity, AtMost
  <2>4. at \in Nat
    BY <1>2, FillPriceType DEF Order
  <2> QED
    BY <2>3, <2>4, FillFeeType
<1>5. /\ orders' = [orders EXCEPT ![o] = Filled(ord, n)]
      /\ Book(o, n, at, -(sign * n * at) - fee, sign * n, fee)
  BY DEF SimulateFill
<1>6. /\ books' = [books EXCEPT ![a] = b]
      /\ DOMAIN accounts' = DOMAIN accounts
      /\ fills' = [fills EXCEPT ![o] = Append(fills[o], executed)]
  BY <1>5 DEF Book
<1>7. sign = Sign(ord) /\ sign \in {1, -1}
  BY DEF Sign
<1>8. /\ b.qty = books[a].qty + sign * n
      /\ b.cash = books[a].cash + (-(sign * n * at) - fee)
      /\ b.fees = books[a].fees + fee
  BY DEF Post
<1>9. /\ fills \in FillMaps /\ fills' \in FillMaps
      /\ DOMAIN orders \subseteq OrderIds /\ \A p \in DOMAIN orders : orders[p] \in Order
  BY <1>1 DEF TypeOK, FillMaps
<1> HIDE DEF b, n, at, fee, sign
<1>10. /\ fills'[o] = <<executed>>
       /\ \A p \in OrderIds \ {o} : fills'[p] = fills[p]
  <2>1. Append(<<>>, executed) = <<executed>>
    OBVIOUS
  <2> HIDE DEF executed
  <2> QED
    BY <1>2, <1>3, <1>6, <1>9, <2>1 DEF FillMaps
<1>11. /\ DOMAIN orders' = DOMAIN orders /\ orders'[o] = Filled(ord, n)
       /\ \A p \in DOMAIN orders \ {o} : orders'[p] = orders[p]
  BY <1>5
<1>12. Filled(ord, n) \in Order
  BY <1>2, <1>3, <1>4, FilledFacts
<1>13. /\ Filled(ord, n).account = ord.account /\ Filled(ord, n).side = ord.side
       /\ Filled(ord, n).filled = n
  <2>1. Filled(ord, n).account = ord.account /\ Filled(ord, n).side = ord.side
    BY <1>2 DEF Filled, Order
  <2>2. Filled(ord, n).filled = 0 + n
    BY <1>2, <1>3 DEF Filled, Order
  <2> QED
    BY <1>4, <2>1, <2>2
<1>14. ASSUME NEW c
       PROVE  IF c = a
              THEN /\ Position(orders', c) = Position(orders, c) + sign * n
                   /\ Outlay(orders', fills', c) = Outlay(orders, fills, c) + sign * n * at
              ELSE /\ Position(orders', c) = Position(orders, c)
                   /\ Outlay(orders', fills', c) = Outlay(orders, fills, c)
  BY <1>3, <1>4, <1>7, <1>9, <1>10, <1>11, <1>12, <1>13, SumsFilled
<1>15. a \in DOMAIN accounts
  BY <1>2 DEF Booked, OrdersIn
<1>16. ASSUME NEW c \in Accounts, c \in DOMAIN accounts, c # a
       PROVE  Explained(c)'
  <2>1. Explained(c)
    BY <1>16 DEF Booked
  <2>2. books'[c] = books[c]
    BY <1>1, <1>6, <1>16 DEF TypeOK
  <2> QED
    BY <1>14, <1>16, <2>1, <2>2 DEF Explained
<1>17. ASSUME NEW c \in Accounts, c = a PROVE Explained(c)'
  <2>1. Explained(c)
    BY <1>15, <1>17 DEF Booked
  <2>2. books'[c] = b
    BY <1>1, <1>6, <1>17 DEF TypeOK
  <2>3. /\ Position(orders', c) = Position(orders, c) + sign * n
        /\ Outlay(orders', fills', c) = Outlay(orders, fills, c) + sign * n * at
    BY <1>14, <1>17
  <2>4. /\ Outlay(orders, fills, c) \in Int
        /\ books[c].cash \in Int /\ books[c].fees \in Int
    BY <1>1, ExplainedFacts
  <2>5. sign * n * at \in Int
    BY <1>4, <1>7
  <2>6. InitialCash \in Int
    BY ConstantsAssumption
  <2>7. /\ b.qty = books[c].qty + sign * n
        /\ b.cash = books[c].cash + (-(sign * n * at) - fee)
        /\ b.fees = books[c].fees + fee
    BY <1>8, <1>17, Zenon
  <2>8. books'[c].qty = Position(orders', c)
    BY <2>1, <2>2, <2>3, <2>7, Zenon DEF Explained
  <2>9. books[c].cash + books[c].fees = InitialCash - Outlay(orders, fills, c)
    BY <2>1, Zenon DEF Explained
  <2>10. (books[c].cash + (-(sign * n * at) - fee)) + (books[c].fees + fee)
           = InitialCash - (Outlay(orders, fills, c) + sign * n * at)
    <3> DEFINE cash == books[c].cash
               fees == books[c].fees
               spent == Outlay(orders, fills, c)
               cost == sign * n * at
    <3>1. cash \in Int /\ fees \in Int /\ spent \in Int /\ cost \in Int
      BY <2>4, <2>5
    <3>2. cash + fees = InitialCash - spent
      BY <2>9
    <3> HIDE DEF cash, fees, spent, cost
    <3>3. (cash + (-cost - fee)) + (fees + fee) = InitialCash - (spent + cost)
      BY <1>4, <2>6, <3>1, <3>2
    <3> QED
      BY <3>3, Zenon DEF cash, fees, spent, cost
  <2>11. books'[c].cash + books'[c].fees = InitialCash - Outlay(orders', fills', c)
    BY <2>2, <2>3, <2>7, <2>10, Zenon
  <2> QED
    BY <2>8, <2>11, Zenon DEF Explained
<1>18. ASSUME NEW c \in Accounts, c \notin DOMAIN accounts
       PROVE  OrdersIn(orders', c) = {}
  <2>1. OrdersIn(orders, c) = {}
    BY <1>18 DEF Booked
  <2> QED
    BY <1>11, <1>13, <2>1 DEF OrdersIn
<1>19. ASSUME NEW c \in Accounts, c \in DOMAIN accounts PROVE Explained(c)'
  BY <1>16, <1>17, <1>19
<1> HIDE DEF a
<1> QED
  BY <1>6, <1>18, <1>19 DEF Booked

LEMMA BookedStep ==
  ASSUME ~BrokerEnabled, ExecutionInv, TypeOK', Booked, [Next]_vars PROVE Booked'
<1> USE DEF desk, money, broker
<1>1. TypeOK
  BY DEF ExecutionInv
<1>2. ASSUME NEW a \in Accounts, CreateAccount(a) PROVE Booked'
  BY <1>1, <1>2, AccountBooked
<1>3. ASSUME NEW a \in Accounts, NEW on \in BOOLEAN,
             Reconcile(a) \/ SetEmergency(a, on)
      PROVE  Booked'
  BY <1>1, <1>3, NothingBooked DEF Reconcile, SetEmergency
<1>4. ASSUME NEW d \in Deployments,
             CreateDeployment(d) \/ ApproveDeployment(d) \/ MarkStale(d)
      PROVE  Booked'
  BY <1>1, <1>4, NothingBooked DEF CreateDeployment, ApproveDeployment, MarkStale
<1>5. ASSUME NEW o \in OrderIds, Intent(o) PROVE Booked'
  BY <1>5, IntentBooked
<1>6. ASSUME NEW o \in DOMAIN orders, NEW price \in Prices, SimulateFill(o, price)
      PROVE  Booked'
  BY <1>6, FillBooked
<1>7. ASSUME NEW o \in DOMAIN orders,
             UNCHANGED <<accounts, books, fills>>,
             NEW status, orders' = [orders EXCEPT ![o].status = status]
      PROVE  Booked'
  <2>1. \A p \in DOMAIN orders : orders[p] \in Order
    BY <1>1 DEF TypeOK
  <2>2. DOMAIN orders' = DOMAIN orders
    BY <1>7
  <2>3. \A p \in DOMAIN orders : /\ orders'[p].account = orders[p].account
                                 /\ orders'[p].side = orders[p].side
                                 /\ orders'[p].filled = orders[p].filled
    BY <1>7, <2>1 DEF Order
  <2> QED
    BY <1>1, <1>7, <2>2, <2>3, NothingBooked
<1>8. ASSUME NEW o \in DOMAIN orders, NEW price \in Prices, SimulateNoFill(o, price)
      PROVE  Booked'
  BY <1>7, <1>8 DEF SimulateNoFill
<1>9. ASSUME NEW o \in DOMAIN orders, CancelOrder(o) PROVE Booked'
  BY <1>7, <1>9 DEF CancelOrder
<1>10. ASSUME NEW o \in DOMAIN orders, CancelAtBroker(o) PROVE Booked'
  <2>1. UNCHANGED <<accounts, books, fills>>
    BY <1>10 DEF CancelAtBroker
  <2>2. CASE UNCHANGED orders
    BY <1>1, <2>1, <2>2, NothingBooked
  <2>3. CASE orders' = [orders EXCEPT ![o].status = "CANCELLED"]
    BY <1>7, <2>1, <2>3
  <2> QED
    BY <1>10, <2>2, <2>3 DEF CancelAtBroker
<1>11. CASE UNCHANGED vars
  BY <1>1, <1>11, NothingBooked DEF vars
<1>12. ASSUME NEW o \in DOMAIN orders, SubmitToBroker(o) PROVE FALSE
  BY <1>12 DEF SubmitToBroker
<1> QED
  BY <1>2, <1>3, <1>4, <1>5, <1>6, <1>8, <1>9, <1>10, <1>11, <1>12
     DEF Next, SimulateOrder

\* Where no order goes to the broker, the position is the signed sum of what
\* the orders of the account executed and its cash the deposit less what those
\* executions cost and the fees, for any sides, terms, prices, caps and costs:
\* rounding and the order of the requests lose nothing.
THEOREM FillsExplainBooks == ASSUME ~BrokerEnabled PROVE Spec => []BooksAreFills
<1>1. Init => Booked
  BY DEF Init, Booked, OrdersIn
<1>2. ExecutionInv /\ TypeOK' /\ Booked /\ [Next]_vars => Booked'
  BY BookedStep
<1>3. TypeOK /\ AccountFollowsLedger /\ Booked => BooksAreFills
  <2> SUFFICES ASSUME TypeOK, AccountFollowsLedger, Booked, NEW a \in DOMAIN accounts
               PROVE  /\ books[a].qty = SumFunction(Moved(a))
                      /\ accounts[a].cash =
                           InitialCash - SumFunction(Spent(a)) - accounts[a].fees
    BY DEF BooksAreFills
  <2>1. a \in Accounts /\ Explained(a)
    BY DEF TypeOK, Booked
  <2>2. accounts[a].cash = books[a].cash /\ accounts[a].fees = books[a].fees
    BY DEF AccountFollowsLedger
  <2>3. Moved(a) = MovedOf(orders, a) /\ DOMAIN Moved(a) = OrdersIn(orders, a)
    BY DEF Moved, MovedOf, OrdersOf, OrdersIn
  <2>4. Spent(a) = SpentOf(orders, fills, a) /\ DOMAIN Spent(a) = OrdersIn(orders, a)
    BY DEF Spent, SpentOf, Cost, OrdersOf, OrdersIn
  <2>5. /\ SumFunction(Moved(a)) = Position(orders, a)
        /\ SumFunction(Spent(a)) = Outlay(orders, fills, a)
    BY <2>3, <2>4, Zenon DEF Position, Outlay, SumFunction, SumFunctionOnSet, FoldFunction
  <2>6. /\ Outlay(orders, fills, a) \in Int
        /\ books[a].cash \in Int /\ books[a].fees \in Int /\ InitialCash \in Int
    BY <2>1, ExplainedFacts, ConstantsAssumption
  <2>8. books[a].cash = InitialCash - Outlay(orders, fills, a) - books[a].fees
    <3>1. books[a].cash + books[a].fees = InitialCash - Outlay(orders, fills, a)
      BY <2>1 DEF Explained
    <3> QED
      <4> DEFINE cash == books[a].cash
                 fees == books[a].fees
                 spent == Outlay(orders, fills, a)
      <4>1. cash \in Int /\ fees \in Int /\ spent \in Int
        BY <2>6
      <4>2. cash + fees = InitialCash - spent
        BY <3>1
      <4> HIDE DEF cash, fees, spent
      <4>3. cash = InitialCash - spent - fees
        BY <2>6, <4>1, <4>2
      <4> QED
        BY <4>3, Zenon DEF cash, fees, spent
  <2> QED
    BY <2>1, <2>2, <2>5, <2>8, Zenon DEF Explained
<1>4. ExecutionInv => TypeOK
  BY DEF ExecutionInv
<1> QED
  BY <1>1, <1>2, <1>3, <1>4, ExecutionInvariant, AccountsFollow, PTL DEF Spec

-----------------------------------------------------------------------------
(* The cost basis.  What an execution does to the gap between deposit plus *)
(* realized profit and cash plus position at cost is stated exactly, for   *)
(* the entries of the simulator, whose cash is quantity times price and a  *)
(* fee.                                                                    *)

\* The rest that the division of the new average leaves.
Rest(b, delta, price) ==
  (Abs(b.qty) * b.avg + Abs(delta) * price) % Abs(b.qty + delta)

Crosses(b, delta) == ~Opens(b, delta) /\ Abs(delta) > Abs(b.qty)

\* What an entry puts into the gap, or takes from it, besides its fee: the
\* rounding of the average when it opens, and when it crosses zero what the old
\* average is wrong by for the new side.
Residue(b, delta, price) ==
  IF Opens(b, delta)
  THEN IF b.qty + delta > 0 THEN Rest(b, delta, price) ELSE -Rest(b, delta, price)
  ELSE IF Crosses(b, delta) THEN (b.qty + delta) * (price - b.avg)
  ELSE 0

Entry(b, delta, price, fee) == Post(b, -(delta * price) - fee, delta, price, fee)

\* The quotient and the rest of an average give back the cost.
LEMMA AverageAndRest ==
  ASSUME NEW c \in Int, NEW n \in Nat \ {0}
  PROVE  /\ c % n \in Nat /\ c % n < n
         /\ c \div n \in Int
         /\ n * (c \div n) = c - (c % n)
OBVIOUS

LEMMA EntryFields ==
  ASSUME NEW b \in BookType, NEW delta \in Int \ {0}, NEW price \in Nat,
         NEW fee \in Nat
  PROVE  LET c == Entry(b, delta, price, fee)
             pnl == (IF b.qty > 0 THEN price - b.avg ELSE b.avg - price)
                      * AtMost(Abs(b.qty), Abs(delta))
         IN /\ c.cash = b.cash + (-(delta * price) - fee)
            /\ c.fees = b.fees + fee
            /\ c.qty = b.qty + delta
            /\ c.realized = IF Opens(b, delta) THEN b.realized
                            ELSE b.realized + pnl - fee
            /\ c.avg = IF Opens(b, delta)
                       THEN (Abs(b.qty) * b.avg + Abs(delta) * price)
                              \div Abs(b.qty + delta)
                       ELSE IF b.qty + delta = 0 THEN 0 ELSE b.avg
BY DEF Entry, Post

\* An entry that opens: only the fee and the rounding of the average.
LEMMA OpeningMovesGap ==
  ASSUME NEW b \in BookType, NEW delta \in Int \ {0}, NEW price \in Nat,
         NEW fee \in Nat, Opens(b, delta)
  PROVE  Gap(Entry(b, delta, price, fee))
           = Gap(b) + fee + Residue(b, delta, price)
<1> DEFINE new == b.qty + delta
           cost == Abs(b.qty) * b.avg + Abs(delta) * price
           average == cost \div Abs(new)
           rest == cost % Abs(new)
           old == b.qty * b.avg
           paid == delta * price
<1>1. /\ b.qty \in Int /\ b.avg \in Int /\ b.cash \in Int /\ b.realized \in Int
      /\ InitialCash \in Int
  BY ConstantsAssumption DEF BookType
<1>2. /\ Abs(b.qty) \in Int /\ Abs(delta) \in Int
      /\ new \in Int /\ Abs(new) \in Nat \ {0}
  BY <1>1 DEF Opens, Abs
<1>3. cost \in Int /\ old \in Int /\ paid \in Int
  BY <1>1, <1>2
<1> HIDE DEF cost
<1>4. /\ rest \in Nat /\ average \in Int /\ Abs(new) * average = cost - rest
  BY <1>2, <1>3, AverageAndRest
<1>5. ASSUME new > 0 PROVE new * average = old + paid - rest
  <2>1. b.qty >= 0 /\ delta > 0
    BY <1>1, <1>5 DEF Opens
  <2>2. Abs(b.qty) = b.qty /\ Abs(delta) = delta /\ Abs(new) = new
    BY <1>1, <1>5, <2>1 DEF Abs
  <2>3. cost = old + paid
    BY <2>2 DEF cost
  <2>4. new * average = cost - rest
    BY <1>4, <2>2, Zenon
  <2> HIDE DEF new, average, rest, old, paid
  <2> QED
    BY <1>3, <1>4, <2>3, <2>4
<1>6. ASSUME ~(new > 0) PROVE new * average = old + paid - (-rest)
  <2>1. b.qty <= 0 /\ delta < 0 /\ new < 0
    BY <1>1, <1>6 DEF Opens
  <2>2. Abs(b.qty) = -b.qty /\ Abs(delta) = -delta /\ Abs(new) = -new
    BY <1>1, <2>1 DEF Abs
  <2>3. cost = -(old + paid)
    <3>1. (-b.qty) * b.avg = -old /\ (-delta) * price = -paid
      BY <1>1
    <3>2. cost = (-b.qty) * b.avg + (-delta) * price
      BY <2>2 DEF cost
    <3> HIDE DEF old, paid
    <3> QED
      BY <1>3, <3>1, <3>2
  <2>4. (-new) * average = cost - rest
    BY <1>4, <2>2, Zenon
  <2> HIDE DEF average, rest, old, paid
  <2>5. (-new) * average = -(new * average)
    BY <1>2, <1>4
  <2>6. new * average \in Int
    BY <1>2, <1>4
  <2> HIDE DEF new
  <2> QED
    BY <1>3, <1>4, <2>3, <2>4, <2>5, <2>6
<1>7. Residue(b, delta, price) = IF new > 0 THEN rest ELSE -rest
  BY DEF Residue, Rest, cost
<1> DEFINE c == Entry(b, delta, price, fee)
           left == Residue(b, delta, price)
           value == new * average
<1>8. left \in Int /\ value = old + paid - left
  BY <1>4, <1>5, <1>6, <1>7
<1>9. /\ c.cash = b.cash + (-paid - fee)
      /\ c.realized = b.realized
      /\ c.qty * c.avg = value
  BY EntryFields DEF cost
<1>10. Gap(c) = InitialCash + c.realized - (c.cash + c.qty * c.avg)
  BY DEF Gap
<1>11. Gap(b) = InitialCash + b.realized - (b.cash + old)
  BY DEF Gap
<1> DEFINE worth == c.qty * c.avg
<1> HIDE DEF c, left, value, old, paid
<1>12. Gap(c) = InitialCash + b.realized - (b.cash + (-paid - fee) + value)
  BY <1>9, <1>10, Zenon
<1>13. InitialCash + b.realized - (b.cash + (-paid - fee) + value)
         = InitialCash + b.realized - (b.cash + old) + fee + left
  BY <1>1, <1>3, <1>8
<1> QED
  BY <1>11, <1>12, <1>13, Zenon DEF c, left

\* An entry that reduces, closes or crosses: its fee is in the realized profit.
LEMMA ClosingMovesGap ==
  ASSUME NEW b \in BookType, NEW delta \in Int \ {0}, NEW price \in Nat,
         NEW fee \in Nat, ~Opens(b, delta)
  PROVE  Gap(Entry(b, delta, price, fee)) = Gap(b) + Residue(b, delta, price)
<1> DEFINE new == b.qty + delta
           pnl == (IF b.qty > 0 THEN price - b.avg ELSE b.avg - price)
                    * AtMost(Abs(b.qty), Abs(delta))
           c == Entry(b, delta, price, fee)
           old == b.qty * b.avg
           paid == delta * price
           left == Residue(b, delta, price)
           value == new * (IF new = 0 THEN 0 ELSE b.avg)
<1>1. /\ b.qty \in Int /\ b.avg \in Int /\ b.cash \in Int /\ b.realized \in Int
      /\ InitialCash \in Int
  BY ConstantsAssumption DEF BookType
<1>2. new \in Int /\ old \in Int /\ paid \in Int
  BY <1>1
<1>3. value = new * b.avg
  <2> HIDE DEF new
  <2> QED
    BY <1>1, <1>2
<1>4. new * b.avg = old + delta * b.avg
  BY <1>1
<1>5. /\ pnl \in Int /\ left \in Int
      /\ pnl = delta * b.avg - paid + left
  <2>1. CASE Abs(delta) <= Abs(b.qty)
    <3>1. left = 0 /\ AtMost(Abs(b.qty), Abs(delta)) = Abs(delta)
      BY <1>1, <2>1 DEF Residue, Crosses, AtMost, Abs
    <3>2. CASE b.qty > 0
      <4>1. Abs(delta) = -delta
        BY <1>1, <3>2 DEF Opens, Abs
      <4>2. pnl = (price - b.avg) * (-delta)
        BY <3>1, <3>2, <4>1
      <4> QED
        BY <1>1, <3>1, <4>2
    <3>3. CASE ~(b.qty > 0)
      <4>1. Abs(delta) = delta
        BY <1>1, <3>3 DEF Opens, Abs
      <4>2. pnl = (b.avg - price) * delta
        BY <3>1, <3>3, <4>1
      <4> QED
        BY <1>1, <3>1, <4>2
    <3> QED
      BY <3>2, <3>3
  <2>2. CASE Abs(delta) > Abs(b.qty)
    <3>1. /\ left = new * (price - b.avg)
          /\ AtMost(Abs(b.qty), Abs(delta)) = Abs(b.qty)
      BY <1>1, <2>2 DEF Residue, Crosses, AtMost, Abs
    <3>2. pnl = (price - b.avg) * b.qty
      <4>1. CASE b.qty > 0
        BY <1>1, <3>1, <4>1 DEF Abs
      <4>2. CASE ~(b.qty > 0)
        <5>1. pnl = (b.avg - price) * (-b.qty)
          BY <1>1, <3>1, <4>2 DEF Abs
        <5> QED
          BY <1>1, <5>1
      <4> QED
        BY <4>1, <4>2
    <3> HIDE DEF pnl, left
    <3> QED
      BY <1>1, <3>1, <3>2
  <2> QED
    BY <1>1, <2>1, <2>2 DEF Abs
<1>6. /\ c.cash = b.cash + (-paid - fee)
      /\ c.realized = b.realized + pnl - fee
      /\ c.qty * c.avg = value
  BY EntryFields
<1>7. Gap(c) = InitialCash + c.realized - (c.cash + c.qty * c.avg)
  BY DEF Gap
<1>8. Gap(b) = InitialCash + b.realized - (b.cash + old)
  BY DEF Gap
<1> DEFINE moved == delta * b.avg
<1>9. moved \in Int
  BY <1>1
<1> HIDE DEF c, left, value, old, paid, pnl, moved
<1>10. value = old + moved
  BY <1>3, <1>4, Zenon DEF moved
<1>11. pnl = moved - paid + left
  BY <1>5, Zenon DEF moved
<1>12. Gap(c) = InitialCash + (b.realized + pnl - fee)
                  - (b.cash + (-paid - fee) + value)
  BY <1>6, <1>7, Zenon
<1>13. InitialCash + (b.realized + pnl - fee) - (b.cash + (-paid - fee) + value)
         = InitialCash + b.realized - (b.cash + old) + left
  <2>1. left \in Int /\ old \in Int /\ paid \in Int
    BY <1>2, <1>5
  <2> QED
    BY <1>1, <1>9, <1>10, <1>11, <2>1
<1> QED
  BY <1>8, <1>12, <1>13, Zenon DEF c, left

\* Short of crossing zero an entry leaves less than one unit of money per share.
LEMMA ResidueIsRounding ==
  ASSUME NEW b \in BookType, NEW delta \in Int \ {0}, NEW price \in Nat,
         ~Crosses(b, delta)
  PROVE  /\ Residue(b, delta, price) \in Int
         /\ \/ Residue(b, delta, price) = 0
            \/ Abs(Residue(b, delta, price)) < Abs(b.qty + delta)
<1> DEFINE rest == Rest(b, delta, price)
<1>1. CASE ~Opens(b, delta)
  BY <1>1 DEF Residue
<1>2. CASE Opens(b, delta)
  <2>1. b.qty \in Int /\ b.avg \in Int
    BY DEF BookType
  <2>2. Abs(b.qty + delta) \in Nat \ {0} /\ Abs(b.qty) \in Int /\ Abs(delta) \in Int
    BY <1>2, <2>1 DEF Opens, Abs
  <2>3. Abs(b.qty) * b.avg + Abs(delta) * price \in Int
    BY <2>1, <2>2
  <2>4. rest \in Nat /\ rest < Abs(b.qty + delta)
    BY <2>2, <2>3, AverageAndRest DEF Rest
  <2>5. Residue(b, delta, price) \in {rest, -rest}
    BY <1>2 DEF Residue
  <2> HIDE DEF rest
  <2>6. Abs(Residue(b, delta, price)) = rest
    BY <2>4, <2>5 DEF Abs
  <2> QED
    BY <2>2, <2>4, <2>5, <2>6
<1> QED
  BY <1>1, <1>2

\* What any request does to the ledger where no order goes to the broker: the
\* deposit of a new account, the entry of one order's first execution, or nothing.
Deposited(a) ==
  /\ a \notin DOMAIN accounts
  /\ DOMAIN accounts' = DOMAIN accounts \cup {a}
  /\ books' = [books EXCEPT ![a] = Deposit]
  /\ fills' = fills

Entered(o, n, price) ==
  LET a == orders[o].account
      delta == Sign(orders[o]) * n
  IN /\ DOMAIN accounts' = DOMAIN accounts
     /\ fills[o] = <<>>
     /\ fills' = [fills EXCEPT ![o] = <<[qty |-> n, price |-> price]>>]
     /\ books' = [books EXCEPT ![a] =
                    Entry(books[a], delta, price, FillFee(n, price))]

LedgerStep ==
  \/ \E a \in Accounts : Deposited(a)
  \/ \E o \in DOMAIN orders, n \in Nat \ {0}, price \in Nat : Entered(o, n, price)
  \/ DOMAIN accounts' = DOMAIN accounts /\ books' = books /\ fills' = fills

LEMMA FillIsEntered ==
  ASSUME ExecutionInv, NEW o \in DOMAIN orders, NEW price \in Prices,
         SimulateFill(o, price)
  PROVE  \E n \in Nat \ {0}, at \in Nat : Entered(o, n, at)
<1> DEFINE ord == orders[o]
           n == FillQuantity(o)
           at == FillPrice(ord.side, ord.terms, price)
           fee == FillFee(n, at)
           sign == IF ord.side \in Buys THEN 1 ELSE -1
           executed == [qty |-> n, price |-> at]
<1>1. TypeOK
  BY DEF ExecutionInv
<1>2. ord \in Order /\ o \in OrderIds /\ ord.status = "APPROVED"
  <2>1. MaySimulate(o)
    BY DEF SimulateFill
  <2> QED
    BY <1>1, <2>1, SimulatedIsApproved DEF TypeOK
<1>3. fills[o] = <<>>
  BY <1>2, ApprovedHasNoExecution
<1>4. n \in Nat \ {0} /\ at \in Nat
  <2>1. n > 0
    BY DEF SimulateFill
  <2>2. ord.remaining \in Nat
    BY <1>2 DEF Order
  <2>3. at \in Nat
    BY <1>2, FillPriceType DEF Order
  <2> QED
    BY <2>1, <2>2, <2>3, ConstantsAssumption DEF FillQuantity, AtMost
<1>5. sign = Sign(ord) /\ sign \in {1, -1}
  BY DEF Sign
<1>6. Book(o, n, at, -(sign * n * at) - fee, sign * n, fee)
  BY DEF SimulateFill
<1>7. /\ DOMAIN accounts' = DOMAIN accounts
      /\ fills' = [fills EXCEPT ![o] = Append(fills[o], executed)]
      /\ books' = [books EXCEPT ![ord.account] =
                     Post(books[ord.account], -(sign * n * at) - fee, sign * n, at, fee)]
  BY <1>6 DEF Book
<1>8. Append(<<>>, executed) = <<executed>>
  OBVIOUS
<1> HIDE DEF n, at, sign, ord
<1>9. Entered(o, n, at)
  BY <1>3, <1>5, <1>7, <1>8, Zenon DEF Entered, Entry, ord
<1> QED
  BY <1>4, <1>9

LEMMA EveryStepIsALedgerStep ==
  ASSUME ~BrokerEnabled, ExecutionInv, [Next]_vars PROVE LedgerStep
<1> USE DEF desk, money, broker
<1>1. ASSUME NEW a \in Accounts, CreateAccount(a) PROVE LedgerStep
  BY <1>1 DEF CreateAccount, LedgerStep, Deposited, Deposit
<1>2. ASSUME NEW a \in Accounts, NEW on \in BOOLEAN,
             Reconcile(a) \/ SetEmergency(a, on)
      PROVE  LedgerStep
  BY <1>2 DEF Reconcile, SetEmergency, LedgerStep
<1>3. ASSUME NEW d \in Deployments,
             CreateDeployment(d) \/ ApproveDeployment(d) \/ MarkStale(d)
      PROVE  LedgerStep
  BY <1>3 DEF CreateDeployment, ApproveDeployment, MarkStale, LedgerStep
<1>4. ASSUME NEW o \in OrderIds, Intent(o) PROVE LedgerStep
  BY <1>4 DEF Intent, SubmitIntent, LedgerStep
<1>5. ASSUME NEW o \in DOMAIN orders, NEW price \in Prices,
             SimulateOrder(o, price)
      PROVE  LedgerStep
  <2>1. CASE SimulateNoFill(o, price)
    BY <2>1 DEF SimulateNoFill, LedgerStep
  <2>2. CASE SimulateFill(o, price)
    BY <2>2, FillIsEntered DEF LedgerStep
  <2> QED
    BY <1>5, <2>1, <2>2 DEF SimulateOrder
<1>6. ASSUME NEW o \in DOMAIN orders, CancelOrder(o) \/ CancelAtBroker(o)
      PROVE  LedgerStep
  BY <1>6 DEF CancelOrder, CancelAtBroker, LedgerStep
<1>7. ASSUME NEW o \in DOMAIN orders, SubmitToBroker(o) PROVE FALSE
  BY <1>7 DEF SubmitToBroker
<1>8. CASE UNCHANGED vars
  BY <1>8 DEF vars, LedgerStep
<1> QED
  BY <1>1, <1>2, <1>3, <1>4, <1>5, <1>6, <1>7, <1>8 DEF Next

LEMMA FillFeeIsNatural ==
  ASSUME NEW q \in Nat, NEW price \in Nat
  PROVE  FillFee(q, price) \in Nat
<1>1. q * price \in Nat
  OBVIOUS
<1> QED
  BY <1>1, ConstantsAssumption DEF FillFee

\* What the entry of one execution does to the gap of its account.
LEMMA EnteredMovesGap ==
  ASSUME TypeOK, NEW o \in DOMAIN orders, NEW n \in Nat \ {0}, NEW price \in Nat,
         Entered(o, n, price)
  PROVE  LET a == orders[o].account
             delta == Sign(orders[o]) * n
             fee == FillFee(n, price)
         IN /\ a \in Accounts /\ books[a] \in BookType /\ delta \in Int \ {0}
            /\ fee \in Nat
            /\ books'[a] = Entry(books[a], delta, price, fee)
            /\ books'[a].fees = books[a].fees + fee
            /\ Gap(books'[a]) = Gap(books[a])
                 + (IF Opens(books[a], delta) THEN fee ELSE 0)
                 + Residue(books[a], delta, price)
<1> DEFINE a == orders[o].account
           delta == Sign(orders[o]) * n
           fee == FillFee(n, price)
           b == books[a]
<1>1. a \in Accounts /\ b \in BookType
  BY DEF TypeOK, Order, BookType
<1>2. delta \in Int \ {0} /\ fee \in Nat
  <2>1. Sign(orders[o]) \in {1, -1}
    BY SignType
  <2>2. fee \in Nat
    BY FillFeeIsNatural
  <2> QED
    BY <2>1, <2>2
<1>3. books' = [books EXCEPT ![a] = Entry(b, delta, price, fee)]
  BY DEF Entered
<1> HIDE DEF delta, fee, b
<1>4. books'[a] = Entry(b, delta, price, fee)
  BY <1>1, <1>3 DEF TypeOK
<1>5. books'[a].fees = b.fees + fee
  <2>1. Entry(b, delta, price, fee).fees = b.fees + fee
    BY DEF Entry, Post
  <2> QED
    BY <1>4, <2>1
<1>6. Gap(Entry(b, delta, price, fee))
        = Gap(b) + (IF Opens(b, delta) THEN fee ELSE 0) + Residue(b, delta, price)
  <2>1. CASE Opens(b, delta)
    BY <1>1, <1>2, <2>1, OpeningMovesGap
  <2>2. CASE ~Opens(b, delta)
    <3>1. Gap(Entry(b, delta, price, fee)) = Gap(b) + Residue(b, delta, price)
      BY <1>1, <1>2, <2>2, ClosingMovesGap
    <3>2. Gap(b) \in Int
      BY <1>1, ConstantsAssumption DEF Gap, BookType
    <3> QED
      BY <2>2, <3>1, <3>2
  <2> QED
    BY <2>1, <2>2
<1> QED
  BY <1>1, <1>2, <1>4, <1>5, <1>6, Zenon DEF delta, fee, b

\* What an order executes, and where, when a step fills it.
Filling(o) == fills'[o] # fills[o]
FillOf(o) == fills'[o][Len(fills'[o])]
DeltaOf(o) == Sign(orders[o]) * FillOf(o).qty
BookOf(o) == books[orders[o].account]
NextBookOf(o) == books'[orders[o].account]

\* The gap moves by the fee of an entry that opens, which no realized profit
\* carries, and by the residue, and by nothing else.
GapMoves ==
  \A o \in DOMAIN orders : Filling(o) =>
    Gap(NextBookOf(o)) = Gap(BookOf(o))
      + (IF Opens(BookOf(o), DeltaOf(o)) THEN NextBookOf(o).fees - BookOf(o).fees ELSE 0)
      + Residue(BookOf(o), DeltaOf(o), FillOf(o).price)

\* An execution moves the gap by less than one unit of money per share of the new
\* position, besides its fee, unless it crosses zero.
OnlyRounding ==
  \A o \in DOMAIN orders : Filling(o) /\ ~Crosses(BookOf(o), DeltaOf(o)) =>
    LET fee == IF Opens(BookOf(o), DeltaOf(o))
               THEN NextBookOf(o).fees - BookOf(o).fees ELSE 0
        error == Gap(NextBookOf(o)) - Gap(BookOf(o)) - fee
    IN error = 0 \/ Abs(error) < Abs(NextBookOf(o).qty)

\* No execution leaves a residue: averages are whole and none crosses zero.
ExactFills ==
  \A o \in DOMAIN orders : Filling(o) =>
    Residue(BookOf(o), DeltaOf(o), FillOf(o).price) = 0

LEMMA FillingIsEntered ==
  ASSUME TypeOK, LedgerStep, NEW o \in DOMAIN orders, Filling(o)
  PROVE  \E n \in Nat \ {0}, price \in Nat :
           /\ Entered(o, n, price)
           /\ FillOf(o) = [qty |-> n, price |-> price]
<1>1. o \in OrderIds /\ DOMAIN fills = OrderIds
  BY DEF TypeOK
<1>2. PICK p \in DOMAIN orders, n \in Nat \ {0}, price \in Nat : Entered(p, n, price)
  BY DEF LedgerStep, Deposited, Filling
<1> DEFINE executed == [qty |-> n, price |-> price]
<1>3. fills' = [fills EXCEPT ![p] = <<executed>>]
  BY <1>2 DEF Entered
<1> HIDE DEF executed
<1>4. p = o
  BY <1>1, <1>3 DEF Filling
<1>5. fills'[o] = <<executed>>
  BY <1>1, <1>3, <1>4
<1>6. FillOf(o) = executed
  BY <1>5 DEF FillOf
<1> QED
  BY <1>2, <1>4, <1>6 DEF executed

\* What the ledger of an account fails to balance by is known entry by entry, for
\* any sides, terms, prices, caps and costs of an account without a broker: the fees
\* of entries that open, the rounding of averages, and the flips that keep the old one.
THEOREM GapIsExplained == ASSUME ~BrokerEnabled PROVE Spec => [][GapMoves]_vars
<1>1. ExecutionInv /\ [Next]_vars => GapMoves
  <2> SUFFICES ASSUME ExecutionInv, [Next]_vars, NEW o \in DOMAIN orders, Filling(o)
               PROVE  Gap(NextBookOf(o)) = Gap(BookOf(o))
                        + (IF Opens(BookOf(o), DeltaOf(o))
                           THEN NextBookOf(o).fees - BookOf(o).fees ELSE 0)
                        + Residue(BookOf(o), DeltaOf(o), FillOf(o).price)
    BY DEF GapMoves
  <2>1. TypeOK /\ LedgerStep
    BY EveryStepIsALedgerStep DEF ExecutionInv
  <2>2. PICK n \in Nat \ {0}, price \in Nat :
          Entered(o, n, price) /\ FillOf(o) = [qty |-> n, price |-> price]
    BY <2>1, FillingIsEntered
  <2> DEFINE b == BookOf(o)
             c == NextBookOf(o)
             delta == Sign(orders[o]) * n
             fee == FillFee(n, price)
  <2>3. DeltaOf(o) = delta /\ FillOf(o).price = price
    BY <2>2 DEF DeltaOf
  <2>4. /\ b \in BookType /\ fee \in Nat /\ c.fees = b.fees + fee
        /\ Gap(c) = Gap(b) + (IF Opens(b, delta) THEN fee ELSE 0)
                      + Residue(b, delta, price)
    BY <2>1, <2>2, EnteredMovesGap DEF BookOf, NextBookOf
  <2> HIDE DEF b, c, delta, fee
  <2>5. c.fees - b.fees = fee
    BY <2>4 DEF BookType
  <2> QED
    BY <2>3, <2>4, <2>5, Zenon DEF b, c
<1> QED
  BY <1>1, ExecutionInvariant, PTL DEF Spec

\* No execution short of a flip misstates the cost of a position by a whole unit of
\* money per share, whatever the requests before it: that much and no more is lost
\* where rebuild divides for the average.
THEOREM OnlyRoundingIsLost ==
  ASSUME ~BrokerEnabled PROVE Spec => [][OnlyRounding]_vars
<1>1. ExecutionInv /\ [Next]_vars => OnlyRounding
  <2> SUFFICES ASSUME ExecutionInv, [Next]_vars, NEW o \in DOMAIN orders, Filling(o),
                      ~Crosses(BookOf(o), DeltaOf(o))
               PROVE  LET fee == IF Opens(BookOf(o), DeltaOf(o))
                                 THEN NextBookOf(o).fees - BookOf(o).fees ELSE 0
                          error == Gap(NextBookOf(o)) - Gap(BookOf(o)) - fee
                      IN error = 0 \/ Abs(error) < Abs(NextBookOf(o).qty)
    BY DEF OnlyRounding
  <2>1. TypeOK /\ LedgerStep
    BY EveryStepIsALedgerStep DEF ExecutionInv
  <2>2. PICK n \in Nat \ {0}, price \in Nat :
          Entered(o, n, price) /\ FillOf(o) = [qty |-> n, price |-> price]
    BY <2>1, FillingIsEntered
  <2> DEFINE b == BookOf(o)
             c == NextBookOf(o)
             delta == Sign(orders[o]) * n
             left == Residue(b, delta, price)
             fee == FillFee(n, price)
             booked == IF Opens(b, delta) THEN c.fees - b.fees ELSE 0
             error == Gap(c) - Gap(b) - booked
  <2>3. DeltaOf(o) = delta
    BY <2>2 DEF DeltaOf
  <2>4. /\ b \in BookType /\ fee \in Nat /\ delta \in Int \ {0}
        /\ c = Entry(b, delta, price, fee) /\ c.fees = b.fees + fee
        /\ Gap(c) = Gap(b) + (IF Opens(b, delta) THEN fee ELSE 0) + left
    BY <2>1, <2>2, EnteredMovesGap DEF BookOf, NextBookOf
  <2> HIDE DEF b, delta, fee, left, c
  <2>5. c.qty = b.qty + delta
    BY <2>4 DEF Entry, Post
  <2>6. left \in Int /\ (left = 0 \/ Abs(left) < Abs(b.qty + delta))
    BY <2>3, <2>4, ResidueIsRounding DEF b, left
  <2>7. Gap(b) \in Int /\ b.fees \in Int
    BY <2>4, ConstantsAssumption DEF Gap, BookType
  <2>8. error = left
    BY <2>4, <2>6, <2>7
  <2>9. error = 0 \/ Abs(error) < Abs(c.qty)
    BY <2>5, <2>6, <2>8
  <2> QED
    BY <2>3, <2>9, Zenon DEF b, c
<1> QED
  BY <1>1, ExecutionInvariant, PTL DEF Spec

\* A new account balances.
LEMMA DepositBalances == Gap(Deposit) = 0 /\ Deposit.fees = 0
<1>1. /\ Deposit.cash = InitialCash /\ Deposit.realized = 0
      /\ Deposit.qty = 0 /\ Deposit.avg = 0 /\ Deposit.fees = 0
  BY DEF Deposit, EmptyBook
<1> QED
  BY <1>1, ConstantsAssumption DEF Gap

LEMMA CostBasisStep ==
  ASSUME TypeOK, LedgerStep, ExactFills, CostBasisBalances PROVE CostBasisBalances'
<1> DEFINE Fine(b) == 0 <= Gap(b) /\ Gap(b) <= b.fees
<1>1. \A a \in DOMAIN accounts : Fine(books[a])
  BY DEF CostBasisBalances
<1>2. SUFFICES \A a \in DOMAIN accounts' : Fine(books'[a])
  BY DEF CostBasisBalances, Gap
<1>3. DOMAIN accounts \subseteq Accounts /\ DOMAIN books = Accounts
  BY DEF TypeOK
<1>4. ASSUME NEW a \in Accounts, Deposited(a)
      PROVE  \A c \in DOMAIN accounts' : Fine(books'[c])
  <2>1. Fine(Deposit)
    BY DepositBalances
  <2> HIDE DEF Fine
  <2> QED
    BY <1>1, <1>3, <1>4, <2>1 DEF Deposited
<1>5. ASSUME NEW o \in DOMAIN orders, NEW n \in Nat \ {0}, NEW price \in Nat,
             Entered(o, n, price)
      PROVE  \A c \in DOMAIN accounts' : Fine(books'[c])
  <2> DEFINE a == orders[o].account
             b == books[a]
             delta == Sign(orders[o]) * n
             fee == FillFee(n, price)
             executed == [qty |-> n, price |-> price]
             part == IF Opens(b, delta) THEN fee ELSE 0
  <2>1. fills'[o] = <<executed>> /\ fills[o] = <<>>
    BY <1>5 DEF Entered, TypeOK
  <2>2. Filling(o) /\ FillOf(o) = executed
    <3> HIDE DEF executed
    <3> QED
      BY <2>1 DEF Filling, FillOf
  <2>3. BookOf(o) = b /\ DeltaOf(o) = delta /\ FillOf(o).price = price
    BY <2>2 DEF BookOf, DeltaOf
  <2>4. Residue(b, delta, price) = 0
    BY <2>2, <2>3, Zenon DEF ExactFills
  <2>5. /\ a \in Accounts /\ b \in BookType /\ fee \in Nat
        /\ books'[a] = Entry(b, delta, price, fee)
        /\ books'[a].fees = b.fees + fee
        /\ Gap(books'[a]) = Gap(b) + part + Residue(b, delta, price)
    BY <1>5, EnteredMovesGap
  <2>6. /\ DOMAIN accounts' = DOMAIN accounts
        /\ \A c \in Accounts \ {a} : books'[c] = books[c]
    BY <1>3, <1>5 DEF Entered
  <2> HIDE DEF delta, fee
  <2>7. Gap(b) \in Int /\ b.fees \in Int /\ part \in Nat /\ part <= fee
    BY <2>5, ConstantsAssumption DEF Gap, BookType
  <2> HIDE DEF b, part
  <2>8. ASSUME Fine(b) PROVE Fine(books'[a])
    BY <2>4, <2>5, <2>7, <2>8
  <2> HIDE DEF Fine
  <2> QED
    BY <1>1, <1>3, <2>6, <2>8 DEF b
<1>6. CASE DOMAIN accounts' = DOMAIN accounts /\ books' = books /\ fills' = fills
  BY <1>1, <1>6
<1> QED
  BY <1>4, <1>5, <1>6 DEF LedgerStep

\* Cash and the position at cost add up to the deposit and the realized profit, but
\* for the fees no closing entry carried, in every account without a broker whose
\* executions leave no residue: neither the order of the requests nor the prices, the
\* fees or the reductions in several parts lose or count anything twice.
THEOREM CostBasisHolds ==
  ASSUME ~BrokerEnabled PROVE Spec /\ [][ExactFills]_vars => []CostBasisBalances
<1>1. Init => CostBasisBalances
  BY DEF Init, CostBasisBalances
<1>2. ExecutionInv /\ CostBasisBalances /\ [Next]_vars /\ [ExactFills]_vars
        => CostBasisBalances'
  <2> SUFFICES ASSUME ExecutionInv, CostBasisBalances, [Next]_vars, [ExactFills]_vars
               PROVE  CostBasisBalances'
    OBVIOUS
  <2>1. CASE ExactFills
    BY <2>1, EveryStepIsALedgerStep, CostBasisStep DEF ExecutionInv
  <2>2. CASE UNCHANGED vars
    BY <2>2 DEF vars, CostBasisBalances, Gap
  <2> QED
    BY <2>1, <2>2
<1> QED
  BY <1>1, <1>2, ExecutionInvariant, PTL DEF Spec


-----------------------------------------------------------------------------
(* The notional cap.                                                       *)

\* Decimal.quantize returns a whole number at most half a unit away, and the even
\* one of two that are.
LEMMA NearestWhole ==
  ASSUME NEW n \in Nat, NEW d \in Nat \ {0}
  PROVE  LET w == RoundHalfEven(n, d)
         IN /\ w \in Nat
            /\ 2 * (w * d) <= 2 * n + d /\ 2 * n <= 2 * (w * d) + d
            /\ 2 * (w * d) - 2 * n \in {d, -d} => w % 2 = 0
<1> DEFINE q == n \div d
           r == n % d
           c == q * d
<1>1. q \in Nat /\ r \in Nat /\ r < d /\ n = d * q + r
  OBVIOUS
<1>2. c \in Nat /\ n = c + r /\ (q + 1) * d = c + d
  BY <1>1
<1>3. RoundHalfEven(n, d) = IF 2 * r > d \/ (2 * r = d /\ q % 2 = 1) THEN q + 1 ELSE q
  BY DEF RoundHalfEven
<1> HIDE DEF q, r, c
<1>4. q % 2 \in {0, 1} /\ (q % 2 = 1 => (q + 1) % 2 = 0)
  BY <1>1
<1>5. CASE 2 * r > d \/ (2 * r = d /\ q % 2 = 1)
  <2>1. RoundHalfEven(n, d) = q + 1
    BY <1>3, <1>5
  <2>2. 2 * (c + d) <= 2 * n + d /\ 2 * n <= 2 * (c + d) + d
    BY <1>1, <1>2, <1>5
  <2>3. 2 * (c + d) - 2 * n \in {d, -d} => (q + 1) % 2 = 0
    BY <1>1, <1>2, <1>4, <1>5
  <2> QED
    BY <1>1, <1>2, <2>1, <2>2, <2>3
<1>6. CASE ~(2 * r > d \/ (2 * r = d /\ q % 2 = 1))
  <2>1. RoundHalfEven(n, d) = q
    BY <1>3, <1>6
  <2>2. 2 * c <= 2 * n + d /\ 2 * n <= 2 * c + d
    BY <1>1, <1>2, <1>6
  <2>3. 2 * c - 2 * n \in {d, -d} => q % 2 = 0
    BY <1>1, <1>2, <1>4, <1>6
  <2>4. q * d = c
    BY DEF c
  <2> QED
    BY <1>1, <2>1, <2>2, <2>3, <2>4
<1> QED
  BY <1>5, <1>6

\* The quantity RiskEngine.evaluate approves under a notional cap is worth the cap
\* and half a price more at most: cutting an order can leave it above the cap, for the
\* cut is rounded to the nearest lot, but by no more than that, and never enlarges it.
THEOREM CapHoldsToHalfALot ==
  ASSUME NEW q \in Nat \ {0}, NEW price \in Nat \ {0}, MaxNotional > 0
  PROVE  /\ Resized(q, price) \in 0..q
         /\ 2 * (Resized(q, price) * price) <= 2 * MaxNotional + price
<1>1. MaxNotional \in Nat
  BY ConstantsAssumption DEF ConstantsAssumption
<1>2. CASE ~OverCap(q, price)
  <2>1. Resized(q, price) = q
    BY <1>2 DEF Resized
  <2>2. q * price \in Nat /\ q * price <= MaxNotional
    BY <1>1, <1>2 DEF OverCap
  <2>3. 2 * (q * price) <= 2 * MaxNotional + price
    BY <1>1, <2>2
  <2> QED
    BY <2>1, <2>3
<1>3. CASE OverCap(q, price)
  <2> DEFINE w == RoundHalfEven(MaxNotional, price)
             m == AtMost(q, w)
  <2>1. Resized(q, price) = m
    BY <1>3 DEF Resized
  <2>2. w \in Nat /\ 2 * (w * price) <= 2 * MaxNotional + price
    BY <1>1, NearestWhole
  <2> HIDE DEF w
  <2>3. m \in 0..q /\ m <= w
    BY <2>2 DEF AtMost
  <2> HIDE DEF m
  <2>4. m * price <= w * price /\ m * price \in Nat /\ w * price \in Nat
    BY <2>2, <2>3
  <2>5. 2 * (m * price) <= 2 * MaxNotional + price
    BY <1>1, <2>2, <2>4
  <2> QED
    BY <2>1, <2>3, <2>5
<1> QED
  BY <1>2, <1>3

=============================================================================
