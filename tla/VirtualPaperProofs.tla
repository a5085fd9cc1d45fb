-------------------------- MODULE VirtualPaperProofs --------------------------
(***************************************************************************)
(* Theorems about VirtualPaper for every set of orders, prices and rates,  *)
(* every capital and every size of the queue: the books balance, orders    *)
(* are decided once, and no price passes a waiting order unseen.           *)
(***************************************************************************)
EXTENDS VirtualPaper, SumTheorems, TLAPS

Statuses == {"NONE", "PENDING", "FILLED", "REJECTED"}

LEMMA KindFields ==
  ASSUME NEW k \in Kinds
  PROVE  /\ k.symbol \in Symbols /\ k.side \in {"buy", "sell"}
         /\ k.level \in Nat /\ k.qty \in Nat /\ k.qty > 0
         /\ k # NoKind
  <1>1. k \in [symbol : Symbols, side : {"buy", "sell"},
               type : {"market", "limit", "sl"}, level : Nat, qty : Nat \ {0}]
    BY ConstantsAssumption
  <1>2. k.type # "none"
    BY <1>1
  <1>. QED
    BY <1>1, <1>2 DEF NoKind

LEMMA SignType == ASSUME NEW k PROVE Sign(k) \in {1, -1}
  BY DEF Sign

\* Slippage and commission never turn a price around.
LEMMA AmountType ==
  ASSUME NEW k \in Kinds, NEW price \in Prices
  PROVE  Amount(k, price) \in Nat
  <1>1. k.qty \in Nat /\ price \in Nat
    BY KindFields, ConstantsAssumption
  <1>2. /\ 100 + Slip \in Nat /\ 100 - Slip \in Nat
        /\ 100 + Fee \in Nat /\ 100 - Fee \in Nat
    BY ConstantsAssumption
  <1>3. \A a, b \in Nat : a * b \in Nat
    OBVIOUS
  <1>4. k.qty * price \in Nat
    BY <1>1, <1>3
  <1>5. k.qty * price * (100 + Slip) \in Nat /\ k.qty * price * (100 - Slip) \in Nat
    BY <1>2, <1>3, <1>4
  <1>6. /\ k.qty * price * (100 + Slip) * (100 + Fee) \in Nat
        /\ k.qty * price * (100 - Slip) * (100 - Fee) \in Nat
    BY <1>2, <1>3, <1>5
  <1>. QED
    BY <1>6 DEF Amount

\* What a settlement leaves, field by field.
LEMMA Settled ==
  ASSUME NEW b \in Books, NEW o \in Orders, NEW k \in Kinds, NEW price \in Prices
  PROVE  Settle(b, o, k, price) =
           IF Affords(b, k, price)
           THEN [cash   |-> b.cash - Sign(k) * Amount(k, price),
                 held   |-> [b.held EXCEPT ![k.symbol] = @ + Sign(k) * k.qty],
                 status |-> [b.status EXCEPT ![o] = "FILLED"],
                 trades |-> [b.trades EXCEPT ![o] = Append(@, price)]]
           ELSE [cash |-> b.cash, held |-> b.held,
                 status |-> [b.status EXCEPT ![o] = "REJECTED"], trades |-> b.trades]
  <1>1. b = [cash |-> b.cash, held |-> b.held, status |-> b.status, trades |-> b.trades]
    BY DEF Books
  <1> DEFINE c == Settle(b, o, k, price)
  <1>2. CASE ~Affords(b, k, price)
    <2>1. c = [b EXCEPT !.status[o] = "REJECTED"]
      BY <1>2 DEF Settle
    <2>2. c = [cash |-> b.cash, held |-> b.held,
               status |-> [b.status EXCEPT ![o] = "REJECTED"], trades |-> b.trades]
      BY <1>1, <2>1
    <2>. QED
      BY <1>2, <2>2, Zenon
  <1>3. CASE Affords(b, k, price)
    <2> DEFINE sign == Sign(k)
               amount == Amount(k, price)
    <2>1. c = [b EXCEPT !.cash = @ - sign * amount, !.held[k.symbol] = @ + sign * k.qty,
                        !.status[o] = "FILLED", !.trades[o] = Append(@, price)]
      BY <1>3, Zenon DEF Settle, Sign
    <2> HIDE DEF sign, amount, c
    <2>2. c = [cash   |-> b.cash - sign * amount,
               held   |-> [b.held EXCEPT ![k.symbol] = @ + sign * k.qty],
               status |-> [b.status EXCEPT ![o] = "FILLED"],
               trades |-> [b.trades EXCEPT ![o] = Append(@, price)]]
      BY <1>1, <2>1
    <2>. QED
      BY <1>3, <2>2, Zenon DEF sign, amount, c
  <1>. QED
    BY <1>2, <1>3, Zenon

\* A settlement overdraws no account and sells no lot that is not held.
LEMMA SettleType ==
  ASSUME NEW b \in Books, NEW o \in Orders, NEW k \in Kinds, NEW price \in Prices
  PROVE  Settle(b, o, k, price) \in Books
  <1> DEFINE c == Settle(b, o, k, price)
  <1>. SUFFICES c \in Books
    OBVIOUS
  <1>1. Amount(k, price) \in Nat /\ k.symbol \in Symbols /\ k.qty \in Nat
    BY AmountType, KindFields
  <1>2. /\ b.cash \in Nat /\ b.held \in [Symbols -> Nat]
        /\ b.status \in [Orders -> Statuses] /\ b.trades \in [Orders -> Seq(Prices)]
    BY DEF Books, Statuses
  <1>3. CASE ~Affords(b, k, price)
    <2>1. c = [cash |-> b.cash, held |-> b.held,
               status |-> [b.status EXCEPT ![o] = "REJECTED"], trades |-> b.trades]
      BY <1>3, Settled, Zenon
    <2> HIDE DEF c
    <2>. QED
      BY <1>2, <2>1 DEF Books, Statuses
  <1>4. CASE Affords(b, k, price)
    <2>1. b.cash - Sign(k) * Amount(k, price) \in Nat
      BY <1>1, <1>2, <1>4 DEF Affords, Sign
    <2>2. b.held[k.symbol] + Sign(k) * k.qty \in Nat
      BY <1>1, <1>2, <1>4 DEF Affords, Sign
    <2>3. [b.held EXCEPT ![k.symbol] = @ + Sign(k) * k.qty] \in [Symbols -> Nat]
      BY <1>1, <1>2, <2>2
    <2>4. [b.trades EXCEPT ![o] = Append(@, price)] \in [Orders -> Seq(Prices)]
      BY <1>2
    <2>5. [b.status EXCEPT ![o] = "FILLED"] \in [Orders -> Statuses]
      BY <1>2 DEF Statuses
    <2>6. c = [cash   |-> b.cash - Sign(k) * Amount(k, price),
               held   |-> [b.held EXCEPT ![k.symbol] = @ + Sign(k) * k.qty],
               status |-> [b.status EXCEPT ![o] = "FILLED"],
               trades |-> [b.trades EXCEPT ![o] = Append(@, price)]]
      BY <1>4, Settled, Zenon
    <2> HIDE DEF c
    <2>. QED
      BY <2>1, <2>3, <2>4, <2>5, <2>6 DEF Books, Statuses
  <1>. QED
    BY <1>3, <1>4

-----------------------------------------------------------------------------
(* The inductive invariant.                                                *)

Final == {"FILLED", "REJECTED"}

Fills(status) == IF status = "FILLED" THEN 1 ELSE 0

\* Orders are numbered as they are placed, and have a status from then on.
Numbered ==
  /\ Placed = 1..Cardinality(Placed) /\ Cardinality(Placed) \in Nat
  /\ \A o \in Orders : book.status[o] = "NONE" <=> o \notin Placed

\* An order the worker did not decide has the trade its status says, and is
\* pending while its request awaits a quote; one it decided meanwhile may get a
\* second trade by that request alone.
Decided ==
  \A o \in Orders :
    IF o \in raced
    THEN /\ book.status[o] \in Final
         /\ Len(book.trades[o]) <= 2 /\ (o \in quoting => Len(book.trades[o]) <= 1)
    ELSE /\ Len(book.trades[o]) = Fills(book.status[o])
         /\ o \in quoting => book.status[o] = "PENDING"

\* The session has decided the orders that are not left, once, and has touched
\* no other order.
InSession ==
  ~LoopIsFree =>
    /\ session.left \subseteq session.reached /\ session.reached \subseteq Pending
    /\ \A o \in Orders :
         IF o \in session.reached \ session.left
         THEN /\ session.draft.status[o] \in Final
              /\ Len(session.draft.trades[o]) = Fills(session.draft.status[o])
         ELSE /\ session.draft.status[o] = book.status[o]
              /\ session.draft.trades[o] = book.trades[o]

IInv ==
  TypeOK /\ Numbered /\ Decided /\ InSession /\ ReachedIsHandled

-----------------------------------------------------------------------------
(* What the operations do to a portfolio.                                  *)

\* A settlement decides its order, with a trade if it is filled.
LEMMA SettleEffect ==
  ASSUME NEW b \in Books, NEW o \in Orders, NEW k \in Kinds, NEW price \in Prices,
         NEW c, c = Settle(b, o, k, price)
  PROVE  /\ c.status[o] \in Final
         /\ Len(c.trades[o]) = Len(b.trades[o]) + Fills(c.status[o])
  <1>1. b.status \in [Orders -> Statuses] /\ b.trades \in [Orders -> Seq(Prices)]
    BY DEF Books, Statuses
  <1>2. CASE ~Affords(b, k, price)
    <2>1. /\ c.status = [b.status EXCEPT ![o] = "REJECTED"]
          /\ c.trades = b.trades
      BY <1>2, Settled
    <2>2. Len(b.trades[o]) = Len(b.trades[o]) + 0
      BY <1>1
    <2>. QED
      BY <1>1, <2>1, <2>2 DEF Final, Fills
  <1>3. CASE Affords(b, k, price)
    <2>1. /\ c.status = [b.status EXCEPT ![o] = "FILLED"]
          /\ c.trades = [b.trades EXCEPT ![o] = Append(@, price)]
      BY <1>3, Settled
    <2>2. Len(Append(b.trades[o], price)) = Len(b.trades[o]) + 1
      BY <1>1
    <2>. QED
      BY <1>1, <2>1, <2>2 DEF Final, Fills
  <1>. QED
    BY <1>2, <1>3

\* It leaves the other orders alone.
LEMMA SettleOthers ==
  ASSUME NEW b \in Books, NEW o \in Orders, NEW k \in Kinds, NEW price \in Prices,
         NEW c, c = Settle(b, o, k, price), NEW p \in Orders, p # o
  PROVE  c.status[p] = b.status[p] /\ c.trades[p] = b.trades[p]
  <1>1. b.status \in [Orders -> Statuses] /\ b.trades \in [Orders -> Seq(Prices)]
    BY DEF Books, Statuses
  <1>2. CASE ~Affords(b, k, price)
    BY <1>1, <1>2, Settled
  <1>3. CASE Affords(b, k, price)
    BY <1>1, <1>3, Settled
  <1>. QED
    BY <1>2, <1>3

\* The order as the route stores it.
Stored(o) == [book EXCEPT !.status[o] = "PENDING"]

LEMMA StoredType ==
  ASSUME book \in Books, NEW o \in Orders
  PROVE  /\ Stored(o) \in Books
         /\ Stored(o).cash = book.cash /\ Stored(o).held = book.held
         /\ Stored(o).trades = book.trades
         /\ Stored(o).status = [book.status EXCEPT ![o] = "PENDING"]
  <1>1. book = [cash |-> book.cash, held |-> book.held,
                status |-> book.status, trades |-> book.trades]
    BY DEF Books
  <1>2. Stored(o) = [cash |-> book.cash, held |-> book.held, trades |-> book.trades,
                     status |-> [book.status EXCEPT ![o] = "PENDING"]]
    BY <1>1 DEF Stored
  <1>3. [book.status EXCEPT ![o] = "PENDING"] \in [Orders -> Statuses]
    BY DEF Books, Statuses
  <1>. QED
    BY <1>2, <1>3 DEF Books, Statuses

LEMMA NoSessionIsNone == NoSession \notin Sessions
  BY DEF NoSession, Sessions

\* A placed order has a kind, and the numbers are used in turn.
LEMMA PlacedKinds ==
  ASSUME TypeOK, NEW o \in Placed
  PROVE  o \in Orders /\ kind[o] \in Kinds
  BY DEF TypeOK, Placed

LEMMA PendingPlaced ==
  ASSUME Numbered PROVE Pending \subseteq Placed
  BY DEF Numbered, Pending

\* What a request leaves of the portfolio and of the numbering.
LEMMA PlaceEffect ==
  ASSUME TypeOK, Numbered, Decided, NEW o \in Orders, NEW k \in Kinds, Place(o, k)
  PROVE  /\ o \notin Placed /\ Placed' = Placed \cup {o}
         /\ kind' \in [Orders -> Kinds \cup {NoKind}]
         /\ kind'[o] = k /\ \A p \in Orders \ {o} : kind'[p] = kind[p]
         /\ Cardinality(Placed') \in Nat /\ Placed' = 1..Cardinality(Placed')
         /\ book' \in Books /\ session = NoSession /\ session' = NoSession
         /\ book'.status[o] \in Final \cup {"PENDING"}
         /\ o \in quoting' => book'.status[o] = "PENDING"
         /\ Len(book.trades[o]) = 0 /\ Len(book'.trades[o]) = Fills(book'.status[o])
         /\ \A p \in Orders \ {o} : /\ book'.status[p] = book.status[p]
                                    /\ book'.trades[p] = book.trades[p]
         /\ quoting \subseteq quoting' /\ quoting' \subseteq quoting \cup {o}
  <1>1. o \notin Placed
    BY DEF Place, Numbered
  <1>2. /\ kind' = [kind EXCEPT ![o] = k]
        /\ kind' \in [Orders -> Kinds \cup {NoKind}]
    BY DEF Place, TypeOK
  <1>3. Placed' = Placed \cup {o}
    BY <1>2, KindFields DEF Placed, TypeOK
  <1>4. IsFiniteSet(Placed)
    <2>1. IsFiniteSet(1..Cardinality(Placed))
      BY FS_Interval DEF Numbered
    <2>. QED
      BY <2>1 DEF Numbered
  <1>5. Cardinality(Placed') = Cardinality(Placed) + 1
    BY <1>1, <1>3, <1>4, FS_AddElement
  <1>6. Cardinality(Placed') \in Nat /\ Placed' = 1..Cardinality(Placed')
    <2>1. o = Cardinality(Placed) + 1
      BY DEF Place
    <2>2. \A n \in Nat : (1..n) \cup {n + 1} = 1..(n + 1)
      OBVIOUS
    <2>3. Placed' = (1..Cardinality(Placed)) \cup {Cardinality(Placed) + 1}
      BY <1>3, <2>1 DEF Numbered
    <2>. QED
      BY <1>5, <2>2, <2>3 DEF Numbered
  <1>7. /\ book' = IF k.type = "market" /\ mark[k.symbol] > 0
                   THEN Settle(Stored(o), o, k, mark[k.symbol]) ELSE Stored(o)
        /\ quoting' = IF k.type = "market" /\ ~KnownPrice(k) THEN quoting \cup {o}
                      ELSE quoting
        /\ session = NoSession /\ session' = NoSession
    BY Zenon DEF Place, Stored, LoopIsFree
  <1>8. /\ Stored(o) \in Books
        /\ Stored(o).trades = book.trades
        /\ Stored(o).status = [book.status EXCEPT ![o] = "PENDING"]
    BY StoredType DEF TypeOK
  <1>9. book.status[o] = "NONE" /\ o \notin raced /\ Len(book.trades[o]) = 0
    <2>1. book.status[o] = "NONE" /\ o \notin raced
      BY <1>1 DEF Numbered, TypeOK
    <2>. QED
      BY <2>1 DEF Decided, Fills
  <1>10. /\ Stored(o).status[o] = "PENDING"
         /\ \A p \in Orders \ {o} : Stored(o).status[p] = book.status[p]
    BY <1>8 DEF TypeOK, Books
  <1>11. CASE k.type = "market" /\ mark[k.symbol] > 0
    <2>1. mark[k.symbol] \in Prices
      BY <1>11, KindFields DEF TypeOK, NoPrice
    <2>2. book' \in Books
      BY <1>7, <1>8, <1>11, <2>1, SettleType
    <2>3. /\ book'.status[o] \in Final
          /\ Len(book'.trades[o]) = 0 + Fills(book'.status[o])
          /\ \A p \in Orders \ {o} : /\ book'.status[p] = Stored(o).status[p]
                                     /\ book'.trades[p] = Stored(o).trades[p]
      <3>1. book' = Settle(Stored(o), o, k, mark[k.symbol])
        BY <1>7, <1>11
      <3>2. Len(book'.trades[o]) = Len(Stored(o).trades[o]) + Fills(book'.status[o])
        BY <1>8, <2>1, <3>1, SettleEffect
      <3>3. book'.status[o] \in Final
        BY <1>8, <2>1, <3>1, SettleEffect
      <3>4. \A p \in Orders \ {o} : /\ book'.status[p] = Stored(o).status[p]
                                     /\ book'.trades[p] = Stored(o).trades[p]
        <4>. SUFFICES ASSUME NEW p \in Orders, p # o
                      PROVE  /\ book'.status[p] = Stored(o).status[p]
                             /\ book'.trades[p] = Stored(o).trades[p]
          OBVIOUS
        <4>1. Stored(o) \in Books /\ mark[k.symbol] \in Prices
          BY <1>8, <2>1
        <4>. QED
          BY <3>1, <4>1, SettleOthers
      <3>. QED
        BY <1>8, <1>9, <3>2, <3>3, <3>4
    <2>4. quoting' = quoting
      <3>1. KnownPrice(k)
        BY <1>11 DEF KnownPrice, NoPrice
      <3>. QED
        BY <1>7, <3>1
    <2>5. o \notin quoting
      BY <1>1 DEF TypeOK
    <2>6. 0 + Fills(book'.status[o]) = Fills(book'.status[o])
      BY DEF Fills
    <2>. QED
      BY <1>1, <1>2, <1>3, <1>6, <1>7, <1>8, <1>9, <1>10, <2>2, <2>3, <2>4, <2>5, <2>6
         DEF TypeOK
  <1>12. CASE ~(k.type = "market" /\ mark[k.symbol] > 0)
    <2>1. book' = Stored(o)
      BY <1>7, <1>12
    <2>2. Fills("PENDING") = 0
      BY DEF Fills
    <2>. QED
      BY <1>1, <1>2, <1>3, <1>6, <1>7, <1>8, <1>9, <1>10, <2>1, <2>2 DEF TypeOK
  <1>. QED
    BY <1>11, <1>12

-----------------------------------------------------------------------------
(* Every action preserves the invariant.                                   *)

\* A tick reaches an order as long as the order is pending and keeps its kind.
LEMMA ReachedStays ==
  ASSUME NEW p \in Orders, p \in Pending', kind'[p] = kind[p], NEW tick, p \in Reached(tick)
  PROVE  p \in Reached(tick)'
  BY DEF Reached

LEMMA QueuedStays ==
  ASSUME NEW p \in Orders, p \in Pending', kind'[p] = kind[p], Queued(p), queue' = queue
  PROVE  Queued(p)'
  <1>1. PICK i \in DOMAIN queue : p \in Reached(queue[i])
    BY DEF Queued
  <1>2. (p \in Reached(queue[i]))'
    BY <1>1 DEF Reached
  <1>. QED
    BY <1>1, <1>2 DEF Queued

LEMMA PlaceStep ==
  ASSUME IInv, NEW o \in Orders, NEW k \in Kinds, Place(o, k)
  PROVE  IInv'
  <1>. USE DEF IInv
  <1>1. /\ o \notin Placed /\ Placed' = Placed \cup {o}
        /\ kind' \in [Orders -> Kinds \cup {NoKind}]
        /\ kind'[o] = k /\ \A p \in Orders \ {o} : kind'[p] = kind[p]
        /\ Cardinality(Placed') \in Nat /\ Placed' = 1..Cardinality(Placed')
        /\ book' \in Books /\ session = NoSession /\ session' = NoSession
        /\ book'.status[o] \in Final \cup {"PENDING"}
        /\ o \in quoting' => book'.status[o] = "PENDING"
        /\ Len(book.trades[o]) = 0 /\ Len(book'.trades[o]) = Fills(book'.status[o])
        /\ \A p \in Orders \ {o} : /\ book'.status[p] = book.status[p]
                                   /\ book'.trades[p] = book.trades[p]
        /\ quoting \subseteq quoting' /\ quoting' \subseteq quoting \cup {o}
    BY PlaceEffect
  <1>2. UNCHANGED <<mark, queue, raced, touched, missed, ticks, failures, restarts>>
    BY DEF Place, history, bounds
  <1>3. raced \subseteq Placed /\ touched \subseteq Placed /\ missed \subseteq Placed
    BY DEF TypeOK
  <1>4. TypeOK'
    BY <1>1, <1>2 DEF TypeOK
  <1>5. Numbered'
    BY <1>1 DEF Numbered, Final
  <1>6. Decided'
    BY <1>1, <1>2, <1>3 DEF Decided
  <1>7. InSession'
    BY <1>1 DEF InSession, LoopIsFree
  <1>8. ReachedIsHandled'
    <2>. SUFFICES ASSUME NEW p \in Pending', p \in touched'
                  PROVE  (Queued(p) \/ p \in missed)'
      BY DEF ReachedIsHandled
    <2>1. p \in Orders /\ p # o
      BY <1>1, <1>2, <1>3 DEF Pending
    <2>2. p \in Pending /\ p \in touched
      BY <1>1, <1>2, <2>1 DEF Pending
    <2>3. Queued(p) \/ p \in missed
      BY <1>1, <2>2 DEF ReachedIsHandled, InHand, LoopIsFree
    <2>. QED
      BY <1>1, <1>2, <2>1, <2>3, QueuedStays
  <1>. QED
    BY <1>4, <1>5, <1>6, <1>7, <1>8

LEMMA QuoteStep ==
  ASSUME IInv, NEW o \in Orders, NEW price \in Prices, QuoteArrives(o, price)
  PROVE  IInv'
  <1>. USE DEF IInv
  <1>1. /\ session = NoSession /\ o \in quoting /\ quoting' = quoting \ {o}
        /\ book' = IF price > 0 THEN Settle(book, o, kind[o], price) ELSE book
        /\ UNCHANGED <<kind, mark, queue, session, raced, touched, missed,
                       ticks, failures, restarts>>
    BY DEF QuoteArrives, LoopIsFree, history, bounds
  <1>2. o \in Placed /\ kind[o] \in Kinds /\ Placed' = Placed
    BY <1>1, PlacedKinds DEF TypeOK, Placed
  <1>3. book \in Books
    BY DEF TypeOK
  <1>4. book' \in Books
    BY <1>1, <1>2, <1>3, SettleType
  <1>5. \A p \in Orders \ {o} : /\ book'.status[p] = book.status[p]
                                /\ book'.trades[p] = book.trades[p]
    <2>. SUFFICES ASSUME NEW p \in Orders, p # o
                  PROVE  /\ book'.status[p] = book.status[p]
                         /\ book'.trades[p] = book.trades[p]
      OBVIOUS
    <2>1. CASE price > 0
      BY <1>1, <1>2, <1>3, <2>1, SettleOthers
    <2>2. CASE ~(price > 0)
      BY <1>1, <2>2
    <2>. QED
      BY <2>1, <2>2
  <1>6. \/ book' = book
        \/ /\ book'.status[o] \in Final
           /\ Len(book'.trades[o]) = Len(book.trades[o]) + Fills(book'.status[o])
    BY <1>1, <1>2, <1>3, SettleEffect
  <1>7. TypeOK'
    BY <1>1, <1>2, <1>4 DEF TypeOK
  <1>8. Numbered'
    <2>1. book.status[o] # "NONE" /\ book'.status[o] # "NONE"
      BY <1>2, <1>6 DEF Numbered, Final
    <2>. QED
      BY <1>2, <1>5, <2>1 DEF Numbered
  <1>9. Decided'
    <2>. SUFFICES ASSUME NEW p \in Orders
                  PROVE  IF p \in raced
                         THEN /\ book'.status[p] \in Final
                              /\ Len(book'.trades[p]) <= 2
                              /\ (p \in quoting' => Len(book'.trades[p]) <= 1)
                         ELSE /\ Len(book'.trades[p]) = Fills(book'.status[p])
                              /\ p \in quoting' => book'.status[p] = "PENDING"
      BY <1>1 DEF Decided
    <2>1. CASE p # o \/ book' = book
      BY <1>1, <1>5, <2>1 DEF Decided
    <2>2. CASE p = o /\ book' # book
      <3>1. /\ book'.status[o] \in Final
            /\ Len(book'.trades[o]) = Len(book.trades[o]) + Fills(book'.status[o])
        BY <1>6, <2>2
      <3>2. p \notin quoting'
        BY <1>1, <2>2
      <3>3. Len(book.trades[o]) \in Nat
        BY <1>3 DEF Books
      <3>4. CASE o \in raced
        <4>1. Len(book.trades[o]) <= 1
          BY <1>1, <3>4 DEF Decided
        <4>2. Fills(book'.status[o]) \in {0, 1}
          BY DEF Fills
        <4>3. Len(book'.trades[o]) <= 2
          BY <3>1, <3>3, <4>1, <4>2
        <4>. QED
          BY <2>2, <3>1, <3>2, <3>4, <4>3
      <3>5. CASE o \notin raced
        <4>1. Len(book.trades[o]) = 0
          BY <1>1, <3>5 DEF Decided, Fills
        <4>. QED
          BY <2>2, <3>1, <3>2, <3>5, <4>1 DEF Fills
      <3>. QED
        BY <3>4, <3>5
    <2>. QED
      BY <2>1, <2>2
  <1>10. InSession'
    BY <1>1 DEF InSession, LoopIsFree
  <1>11. ReachedIsHandled'
    <2>. SUFFICES ASSUME NEW p \in Pending', p \in touched'
                  PROVE  (Queued(p) \/ p \in missed)'
      BY DEF ReachedIsHandled
    <2>1. p \in Orders /\ p \in Pending /\ p \in touched
      BY <1>1, <1>5, <1>6 DEF Pending, Final
    <2>2. Queued(p) \/ p \in missed
      BY <1>1, <2>1 DEF ReachedIsHandled, InHand, LoopIsFree
    <2>. QED
      BY <1>1, <2>1, <2>2, QueuedStays
  <1>. QED
    BY <1>7, <1>8, <1>9, <1>10, <1>11

\* Steps that leave orders and portfolio alone.
LEMMA SameOrders ==
  ASSUME UNCHANGED <<kind, book>>
  PROVE  /\ Placed' = Placed /\ Pending' = Pending
         /\ \A tick : Reached(tick)' = Reached(tick)
  BY DEF Placed, Pending, Reached

LEMMA ReachedPending ==
  ASSUME NEW tick
  PROVE  Reached(tick) \subseteq Pending
  BY DEF Reached

LEMMA TickStep ==
  ASSUME IInv, NEW tick \in Ticks, Tick(tick)
  PROVE  IInv'
  <1>. USE DEF IInv
  <1>1. /\ session = NoSession /\ touched' = touched \cup Reached(tick)
        /\ mark' = [mark EXCEPT ![tick.symbol] = tick.price] /\ ticks' = ticks + 1
        /\ UNCHANGED <<kind, book, quoting, session, raced, failures, restarts>>
    BY DEF Tick, LoopIsFree
  <1>2. \/ /\ Len(queue) < QueueSize /\ queue' = Append(queue, tick) /\ missed' = missed
        \/ queue' = queue /\ missed' = missed \cup Reached(tick)
    BY DEF Tick
  <1>3. /\ Placed' = Placed /\ Pending' = Pending /\ Pending \subseteq Placed
        /\ Reached(tick) \subseteq Placed
    BY <1>1, SameOrders, PendingPlaced, ReachedPending
  <1>4. TypeOK'
    <2>1. tick.symbol \in Symbols /\ tick.price \in Prices
      BY DEF Ticks
    <2>2. mark' \in [Symbols -> Prices \cup {NoPrice}]
      BY <1>1, <2>1 DEF TypeOK
    <2>3. queue' \in Seq(Ticks) /\ Len(queue') <= QueueSize
      <3>1. queue \in Seq(Ticks) /\ Len(queue) <= QueueSize /\ QueueSize \in Nat
        BY ConstantsAssumption DEF TypeOK
      <3>. QED
        BY <1>2, <3>1
    <2>4. touched' \subseteq Placed' /\ missed' \subseteq Placed'
      BY <1>1, <1>2, <1>3 DEF TypeOK
    <2>. QED
      BY <1>1, <1>3, <2>2, <2>3, <2>4 DEF TypeOK
  <1>5. Numbered' /\ Decided'
    BY <1>1, <1>3 DEF Numbered, Decided
  <1>6. InSession'
    BY <1>1 DEF InSession, LoopIsFree
  <1>7. ReachedIsHandled'
    <2>. SUFFICES ASSUME NEW p \in Pending', p \in touched'
                  PROVE  (Queued(p) \/ p \in missed)'
      BY DEF ReachedIsHandled
    <2>1. p \in Pending /\ queue \in Seq(Ticks)
      BY <1>3 DEF TypeOK
    <2>2. CASE p \in Reached(tick)
      <3>1. CASE queue' = Append(queue, tick)
        <4>1. /\ Len(queue) + 1 \in DOMAIN queue'
              /\ queue'[Len(queue) + 1] = tick
          BY <2>1, <3>1
        <4>2. PICK i \in DOMAIN queue' : i = Len(queue) + 1
          BY <4>1
        <4>3. queue'[i] = tick /\ (p \in Reached(queue[i]))'
          BY <1>1, <2>2, <4>1, <4>2 DEF Reached, Pending
        <4>. QED
          BY <4>2, <4>3 DEF Queued
      <3>. QED
        BY <1>2, <2>2, <3>1
    <2>3. CASE p \notin Reached(tick)
      <3>1. Queued(p) \/ p \in missed
        BY <1>1, <2>1, <2>3 DEF ReachedIsHandled, InHand, LoopIsFree
      <3>2. ASSUME Queued(p) PROVE Queued(p)'
        <4>1. PICK i \in DOMAIN queue : p \in Reached(queue[i])
          BY <3>2 DEF Queued
        <4>2. i \in DOMAIN queue' /\ queue'[i] = queue[i]
          BY <1>2, <2>1
        <4>3. (p \in Reached(queue[i]))'
          BY <1>1, <4>1, <4>2 DEF Reached, Pending
        <4>. QED
          BY <4>2, <4>3 DEF Queued
      <3>. QED
        BY <1>2, <3>1, <3>2
    <2>. QED
      BY <2>2, <2>3
  <1>. QED
    BY <1>4, <1>5, <1>6, <1>7

LEMMA TakeTickStep ==
  ASSUME IInv, TakeTick
  PROVE  IInv'
  <1>. USE DEF IInv
  <1>1. /\ session = NoSession /\ queue # <<>> /\ queue' = Tail(queue)
        /\ session' = [tick |-> Head(queue), reached |-> Reached(Head(queue)),
                       left |-> Reached(Head(queue)), draft |-> book]
        /\ UNCHANGED <<kind, book, quoting, mark, raced, touched, missed,
                       ticks, failures, restarts>>
    BY DEF TakeTick, LoopIsFree, history, bounds
  <1>2. queue \in Seq(Ticks)
    BY DEF TypeOK
  <1>3. /\ Placed' = Placed /\ Pending' = Pending /\ Pending \subseteq Placed
        /\ Reached(Head(queue)) \subseteq Pending
    BY <1>1, SameOrders, PendingPlaced, ReachedPending
  <1>4. session' \in Sessions
    <2>1. Head(queue) \in Ticks
      BY <1>1, <1>2
    <2>2. Reached(Head(queue)) \in SUBSET Orders /\ book \in Books
      BY <1>3 DEF Pending, TypeOK
    <2>. QED
      BY <1>1, <2>1, <2>2 DEF Sessions
  <1>5. TypeOK'
    <2>1. queue' \in Seq(Ticks) /\ Len(queue') <= QueueSize
      <3>1. Len(queue) <= QueueSize /\ QueueSize \in Nat
        BY ConstantsAssumption DEF TypeOK
      <3>. QED
        BY <1>1, <1>2, <3>1
    <2>. QED
      BY <1>1, <1>3, <1>4, <2>1 DEF TypeOK
  <1>6. Numbered' /\ Decided'
    BY <1>1, <1>3 DEF Numbered, Decided
  <1>7. InSession'
    <2>1. /\ session'.left = Reached(Head(queue)) /\ session'.draft = book
          /\ session'.reached = Reached(Head(queue))
      BY <1>1
    <2>. QED
      BY <1>1, <1>3, <2>1 DEF InSession
  <1>8. ReachedIsHandled'
    <2>. SUFFICES ASSUME NEW p \in Pending', p \in touched'
                  PROVE  (Queued(p) \/ p \in InHand \/ p \in missed)'
      BY DEF ReachedIsHandled
    <2>1. InHand' = Reached(Head(queue))
      BY <1>1, <1>4, NoSessionIsNone DEF InHand, LoopIsFree
    <2>2. Queued(p) \/ p \in missed
      BY <1>1, <1>3 DEF ReachedIsHandled, InHand, LoopIsFree
    <2>3. ASSUME Queued(p), p \notin Reached(Head(queue)) PROVE Queued(p)'
      <3>1. PICK i \in DOMAIN queue : p \in Reached(queue[i])
        BY <2>3 DEF Queued
      <3>2. i # 1
        BY <1>1, <1>2, <2>3, <3>1
      <3>3. i - 1 \in DOMAIN queue' /\ queue'[i - 1] = queue[i]
        BY <1>1, <1>2, <3>2
      <3>4. PICK j \in DOMAIN queue' : queue'[j] = queue[i]
        BY <3>3
      <3>5. (p \in Reached(queue[j]))'
        BY <1>1, <3>1, <3>4 DEF Reached, Pending
      <3>. QED
        BY <3>4, <3>5 DEF Queued
    <2>. QED
      BY <1>1, <2>1, <2>2, <2>3
  <1>. QED
    BY <1>5, <1>6, <1>7, <1>8

\* What an open session is made of.
LEMMA OpenSession ==
  ASSUME IInv, ~LoopIsFree
  PROVE  /\ session \in Sessions /\ session.draft \in Books /\ session.tick \in Ticks
         /\ session.tick.price \in Prices
         /\ session.left \subseteq session.reached /\ session.reached \subseteq Pending
         /\ Pending \subseteq Placed /\ Placed \subseteq Orders
         /\ session.reached \cap raced = {} /\ InHand = session.reached
         /\ \A o \in session.reached : book.status[o] = "PENDING" /\ Len(book.trades[o]) = 0
  <1>. USE DEF IInv
  <1>1. session \in Sessions
    BY DEF TypeOK, LoopIsFree
  <1>2. session.left \subseteq session.reached /\ session.reached \subseteq Pending
    BY DEF InSession
  <1>3. \A o \in Pending : o \notin raced /\ Len(book.trades[o]) = 0
    BY DEF Pending, Decided, Final, Fills
  <1>. QED
    BY <1>1, <1>2, <1>3, PendingPlaced DEF Sessions, Ticks, Placed, Pending, InHand

LEMMA FillStep ==
  ASSUME IInv, NEW o \in Orders, FillNext(o)
  PROVE  IInv'
  <1>. USE DEF IInv
  <1>1. /\ ~LoopIsFree /\ o \in session.left
        /\ session' = [session EXCEPT !.left = @ \ {o},
                         !.draft = Settle(@, o, kind[o], session.tick.price)]
        /\ UNCHANGED <<kind, book, quoting, mark, queue, raced, touched, missed,
                       ticks, failures, restarts>>
    BY DEF FillNext, history, bounds
  <1>2. /\ session \in Sessions /\ session.draft \in Books /\ session.tick \in Ticks
        /\ session.tick.price \in Prices
        /\ session.left \subseteq session.reached /\ session.reached \subseteq Pending
        /\ Pending \subseteq Placed /\ InHand = session.reached
        /\ \A p \in session.reached : book.status[p] = "PENDING" /\ Len(book.trades[p]) = 0
    BY <1>1, OpenSession
  <1>3. kind[o] \in Kinds
    BY <1>1, <1>2, PlacedKinds
  <1> DEFINE draft == Settle(session.draft, o, kind[o], session.tick.price)
  <1>4. session' = [tick |-> session.tick, reached |-> session.reached,
                    left |-> session.left \ {o}, draft |-> draft]
    BY <1>1, <1>2 DEF Sessions
  <1>5. /\ draft \in Books
        /\ draft.status[o] \in Final
        /\ Len(draft.trades[o]) = Len(session.draft.trades[o]) + Fills(draft.status[o])
    BY <1>2, <1>3, SettleType, SettleEffect
  <1>6. ASSUME NEW p \in Orders, p # o
        PROVE  /\ draft.status[p] = session.draft.status[p]
               /\ draft.trades[p] = session.draft.trades[p]
    BY <1>2, <1>3, <1>6, SettleOthers
  <1> HIDE DEF draft
  <1>7. session' \in Sessions
    BY <1>2, <1>4, <1>5 DEF Sessions
  <1>8. Placed' = Placed /\ Pending' = Pending /\ \A tick : Reached(tick)' = Reached(tick)
    BY <1>1, SameOrders
  <1>9. TypeOK' /\ Numbered' /\ Decided'
    BY <1>1, <1>7, <1>8 DEF TypeOK, Numbered, Decided
  <1>10. InSession'
    <2>1. /\ session'.left = session.left \ {o} /\ session'.reached = session.reached
          /\ session'.draft = draft
      BY <1>4
    <2>2. Len(draft.trades[o]) = Fills(draft.status[o])
      <3>1. session.draft.trades[o] = book.trades[o]
        BY <1>1 DEF InSession
      <3>2. Len(book.trades[o]) = 0
        BY <1>1, <1>2
      <3>3. Fills(draft.status[o]) \in {0, 1}
        BY DEF Fills
      <3>. QED
        BY <1>5, <3>1, <3>2, <3>3
    <2>. SUFFICES ASSUME NEW p \in Orders
                  PROVE  IF p \in session'.reached \ session'.left
                         THEN /\ session'.draft.status[p] \in Final
                              /\ Len(session'.draft.trades[p])
                                   = Fills(session'.draft.status[p])
                         ELSE /\ session'.draft.status[p] = book.status[p]
                              /\ session'.draft.trades[p] = book.trades[p]
      BY <1>1, <1>2, <1>8, <2>1 DEF InSession
    <2>3. CASE p = o
      BY <1>1, <1>2, <1>5, <2>1, <2>2, <2>3
    <2>4. CASE p # o
      BY <1>1, <1>6, <2>1, <2>4 DEF InSession
    <2>. QED
      BY <2>3, <2>4
  <1>11. ReachedIsHandled'
    <2>1. InHand' = InHand
      BY <1>2, <1>4, <1>7, NoSessionIsNone DEF InHand, LoopIsFree
    <2>. SUFFICES ASSUME NEW p \in Pending', p \in touched'
                  PROVE  (Queued(p) \/ p \in InHand \/ p \in missed)'
      BY DEF ReachedIsHandled
    <2>2. p \in Pending /\ p \in Orders
      BY <1>8 DEF Pending
    <2>3. Queued(p) \/ p \in InHand \/ p \in missed
      BY <1>1, <2>2 DEF ReachedIsHandled
    <2>. QED
      BY <1>1, <2>1, <2>2, <2>3, QueuedStays
  <1>. QED
    BY <1>9, <1>10, <1>11

LEMMA CommitStep ==
  ASSUME IInv, Commit
  PROVE  IInv'
  <1>. USE DEF IInv
  <1>1. /\ ~LoopIsFree /\ session.left = {} /\ book' = session.draft
        /\ raced' = raced \cup (session.reached \cap quoting) /\ session' = NoSession
        /\ UNCHANGED <<kind, quoting, mark, queue, touched, missed,
                       ticks, failures, restarts>>
    BY DEF Commit, bounds
  <1>2. /\ session.draft \in Books /\ session.reached \subseteq Pending
        /\ Pending \subseteq Placed /\ Placed \subseteq Orders
        /\ session.reached \cap raced = {} /\ InHand = session.reached
        /\ \A o \in session.reached : book.status[o] = "PENDING"
    BY <1>1, OpenSession
  <1>3. \A o \in Orders :
          IF o \in session.reached
          THEN book'.status[o] \in Final /\ Len(book'.trades[o]) = Fills(book'.status[o])
          ELSE book'.status[o] = book.status[o] /\ book'.trades[o] = book.trades[o]
    BY <1>1 DEF InSession
  <1>4. Placed' = Placed
    BY <1>1 DEF Placed
  <1>5. TypeOK'
    BY <1>1, <1>2, <1>4 DEF TypeOK
  <1>6. Numbered'
    <2>1. \A o \in Orders : book'.status[o] = "NONE" <=> book.status[o] = "NONE"
      BY <1>2, <1>3 DEF Final
    <2>. QED
      BY <1>4, <2>1 DEF Numbered
  <1>7. Decided'
    <2>1. \A status : Fills(status) \in {0, 1}
      BY DEF Fills
    <2>. SUFFICES ASSUME NEW p \in Orders
                  PROVE  IF p \in raced'
                         THEN /\ book'.status[p] \in Final
                              /\ Len(book'.trades[p]) <= 2
                              /\ (p \in quoting => Len(book'.trades[p]) <= 1)
                         ELSE /\ Len(book'.trades[p]) = Fills(book'.status[p])
                              /\ p \in quoting => book'.status[p] = "PENDING"
      BY <1>1 DEF Decided
    <2>2. CASE p \in session.reached
      <3>1. book'.status[p] \in Final /\ Len(book'.trades[p]) = Fills(book'.status[p])
        BY <1>3, <2>2
      <3>2. Len(book'.trades[p]) <= 1 /\ Len(book'.trades[p]) <= 2
        BY <2>1, <3>1
      <3>. QED
        BY <1>1, <1>2, <2>2, <3>1, <3>2
    <2>3. CASE p \notin session.reached
      BY <1>1, <1>3, <2>3 DEF Decided
    <2>. QED
      BY <2>2, <2>3
  <1>8. InSession'
    BY <1>1 DEF InSession, LoopIsFree
  <1>9. ReachedIsHandled'
    <2>. SUFFICES ASSUME NEW p \in Pending', p \in touched'
                  PROVE  (Queued(p) \/ p \in missed)'
      BY DEF ReachedIsHandled
    <2>1. p \in Orders /\ p \in Pending /\ p \notin InHand
      BY <1>2, <1>3 DEF Pending, Final
    <2>2. Queued(p) \/ p \in missed
      BY <1>1, <2>1 DEF ReachedIsHandled
    <2>. QED
      BY <1>1, <2>1, <2>2, QueuedStays
  <1>. QED
    BY <1>5, <1>6, <1>7, <1>8, <1>9

LEMMA FailStep ==
  ASSUME IInv, EvaluateFails
  PROVE  IInv'
  <1>. USE DEF IInv
  <1>1. /\ ~LoopIsFree /\ failures' = failures + 1 /\ missed' = missed \cup InHand
        /\ session' = NoSession
        /\ UNCHANGED <<kind, book, quoting, mark, queue, raced, touched, ticks, restarts>>
    BY DEF EvaluateFails
  <1>2. InHand \subseteq Placed
    BY <1>1, OpenSession
  <1>3. Placed' = Placed /\ Pending' = Pending /\ \A tick : Reached(tick)' = Reached(tick)
    BY <1>1, SameOrders
  <1>4. TypeOK' /\ Numbered' /\ Decided'
    BY <1>1, <1>2, <1>3 DEF TypeOK, Numbered, Decided
  <1>5. InSession'
    BY <1>1 DEF InSession, LoopIsFree
  <1>6. ReachedIsHandled'
    <2>. SUFFICES ASSUME NEW p \in Pending', p \in touched'
                  PROVE  (Queued(p) \/ p \in missed)'
      BY DEF ReachedIsHandled
    <2>1. p \in Orders /\ (Queued(p) \/ p \in InHand \/ p \in missed)
      BY <1>1, <1>3 DEF Pending, ReachedIsHandled
    <2>. QED
      BY <1>1, <2>1, QueuedStays
  <1>. QED
    BY <1>4, <1>5, <1>6

LEMMA RestartStep ==
  ASSUME IInv, Restart
  PROVE  IInv'
  <1>. USE DEF IInv
  <1>1. /\ restarts' = restarts + 1
        /\ quoting' = {} /\ queue' = <<>> /\ session' = NoSession
        /\ mark' = [s \in Symbols |-> NoPrice]
        /\ missed' = missed \cup InHand \cup UNION {Reached(queue[i]) : i \in DOMAIN queue}
        /\ UNCHANGED <<kind, book, raced, touched, ticks, failures>>
    BY DEF Restart
  <1>2. InHand \subseteq Placed
    <2>1. CASE LoopIsFree
      BY <2>1 DEF InHand
    <2>2. CASE ~LoopIsFree
      BY <2>2, OpenSession
    <2>. QED
      BY <2>1, <2>2
  <1>3. \A tick : Reached(tick) \subseteq Placed
    BY ReachedPending, PendingPlaced
  <1>4. Placed' = Placed /\ Pending' = Pending
    BY <1>1, SameOrders
  <1>5. TypeOK'
    <2>1. missed' \subseteq Placed
      BY <1>1, <1>2, <1>3 DEF TypeOK
    <2>2. <<>> \in Seq(Ticks) /\ Len(<<>>) <= QueueSize
      BY ConstantsAssumption
    <2>. QED
      BY <1>1, <1>4, <2>1, <2>2 DEF TypeOK
  <1>6. Numbered' /\ Decided'
    BY <1>1, <1>4 DEF Numbered, Decided
  <1>7. InSession'
    BY <1>1 DEF InSession, LoopIsFree
  <1>8. ReachedIsHandled'
    <2>. SUFFICES ASSUME NEW p \in Pending', p \in touched' PROVE p \in missed'
      BY DEF ReachedIsHandled
    <2>1. Queued(p) \/ p \in InHand \/ p \in missed
      BY <1>1, <1>4 DEF ReachedIsHandled
    <2>. QED
      BY <1>1, <2>1 DEF Queued
  <1>. QED
    BY <1>5, <1>6, <1>7, <1>8

LEMMA InitInvariant == Init => IInv
  <1>. SUFFICES ASSUME Init PROVE IInv
    OBVIOUS
  <1>1. Placed = {} /\ Cardinality(Placed) = 0
    BY FS_EmptySet DEF Init, Placed
  <1>2. book \in Books
    <2>1. Capital * 10000 \in Nat
      BY ConstantsAssumption
    <2>2. [o \in Orders |-> <<>>] \in [Orders -> Seq(Prices)]
      OBVIOUS
    <2>3. [o \in Orders |-> "NONE"] \in [Orders -> Statuses]
      BY DEF Statuses
    <2>. QED
      BY <2>1, <2>2, <2>3 DEF Init, Books, Statuses
  <1>3. /\ \A o \in Orders : book.status[o] = "NONE" /\ Len(book.trades[o]) = 0
        /\ Pending = {}
    BY DEF Init, Pending
  <1>4. TypeOK
    <2>1. <<>> \in Seq(Ticks) /\ Len(<<>>) <= QueueSize
      BY ConstantsAssumption
    <2>. QED
      BY <1>1, <1>2, <2>1 DEF Init, TypeOK
  <1>5. Numbered
    BY <1>1, <1>3 DEF Numbered
  <1>6. Decided /\ InSession /\ ReachedIsHandled
    BY <1>3 DEF Init, Decided, Fills, InSession, LoopIsFree, ReachedIsHandled
  <1>. QED
    BY <1>4, <1>5, <1>6 DEF IInv

LEMMA NextInvariant == IInv /\ [Next]_vars => IInv'
  <1>. SUFFICES ASSUME IInv, [Next]_vars PROVE IInv'
    OBVIOUS
  <1>1. ASSUME NEW o \in Orders, NEW k \in Kinds, Place(o, k) PROVE IInv'
    BY <1>1, PlaceStep
  <1>2. ASSUME NEW o \in Orders, NEW price \in Prices, QuoteArrives(o, price) PROVE IInv'
    BY <1>2, QuoteStep
  <1>3. ASSUME NEW tick \in Ticks, Tick(tick) PROVE IInv'
    BY <1>3, TickStep
  <1>4. CASE TakeTick
    BY <1>4, TakeTickStep
  <1>5. ASSUME NEW o \in Orders, FillNext(o) PROVE IInv'
    BY <1>5, FillStep
  <1>6. CASE Commit
    BY <1>6, CommitStep
  <1>7. CASE EvaluateFails
    BY <1>7, FailStep
  <1>8. CASE Restart
    BY <1>8, RestartStep
  <1>9. CASE UNCHANGED vars
    <2>1. /\ UNCHANGED <<kind, book, quoting, mark, queue, session, raced, touched, missed,
                         ticks, failures, restarts>>
      BY <1>9 DEF vars, history, bounds
    <2>2. Placed' = Placed /\ Pending' = Pending /\ LoopIsFree' = LoopIsFree
      BY <2>1 DEF Placed, Pending, LoopIsFree
    <2>3. InHand' = InHand /\ \A o : Queued(o)' = Queued(o)
      BY <2>1, <2>2 DEF InHand, Queued, Reached
    <2>. QED
      BY <2>1, <2>2, <2>3
         DEF IInv, TypeOK, Numbered, Decided, InSession, ReachedIsHandled
  <1>. QED
    BY <1>1, <1>2, <1>3, <1>4, <1>5, <1>6, <1>7, <1>8, <1>9 DEF Next, Work

\* The invariant holds of every behaviour; the three theorems below are parts of it.
THEOREM Invariance == Spec => []IInv
  BY InitInvariant, NextInvariant, PTL DEF Spec

\* No sequence of requests, ticks, failures and restarts overdraws the account,
\* sells a lot that is not held or overfills the queue.
THEOREM TypeCorrect == Spec => []TypeOK
  <1>1. IInv => TypeOK
    BY DEF IInv
  <1>. QED
    BY <1>1, Invariance, PTL

\* An order has one decision and at most one trade, and a second by its own
\* request only if the worker decided it while that request awaited a quote.
THEOREM OrdersDecidedOnce == Spec => []DecidedOnce
  <1>1. IInv => DecidedOnce
    BY DEF IInv, Decided, DecidedOnce, Fills
  <1>. QED
    BY <1>1, Invariance, PTL

\* An order a tick has reached is decided, or the tick is queued or in hand, or
\* it was dropped by a full queue, a failed transaction or a restart.
THEOREM NoPriceIsLost == Spec => []ReachedIsHandled
  <1>1. IInv => ReachedIsHandled
    BY DEF IInv
  <1>. QED
    BY <1>1, Invariance, PTL

-----------------------------------------------------------------------------
(* The books.  The balance is stated of any kinds and any portfolio, since *)
(* a placement changes both at once.                                       *)

PlacedOf(K) == {o \in Orders : K[o] # NoKind}
OrdersIn(K, s) == {o \in PlacedOf(K) : K[o].symbol = s}
SpentOf(K, b) == [o \in PlacedOf(K) |-> SumFunction(Costs(K[o], b.trades[o]))]
MovedOf(K, b, s) == [o \in OrdersIn(K, s) |-> Sign(K[o]) * K[o].qty * Len(b.trades[o])]

BalancesOf(K, b) ==
  /\ b.cash = Capital * 10000 - SumFunctionOnSet(SpentOf(K, b), PlacedOf(K))
  /\ \A s \in Symbols :
       b.held[s] = SumFunctionOnSet(MovedOf(K, b, s), OrdersIn(K, s))

KindMaps == [Orders -> Kinds \cup {NoKind}]

LEMMA PlacedOfFinite ==
  ASSUME NEW K, NEW s
  PROVE  IsFiniteSet(PlacedOf(K)) /\ IsFiniteSet(OrdersIn(K, s))
  <1>1. IsFiniteSet(Orders)
    BY ConstantsAssumption, FS_Interval DEF Orders
  <1>. QED
    BY <1>1, FS_Subset DEF PlacedOf, OrdersIn

\* One more trade costs as much more.
LEMMA CostsType ==
  ASSUME NEW k \in Kinds, NEW trades \in Seq(Prices)
  PROVE  /\ IsFiniteSet(DOMAIN trades)
         /\ \A i \in DOMAIN trades : Costs(k, trades)[i] \in Int
         /\ SumFunction(Costs(k, trades)) \in Int
  <1>1. IsFiniteSet(DOMAIN trades)
    <2>1. DOMAIN trades = 1..Len(trades) /\ Len(trades) \in Nat
      OBVIOUS
    <2>. QED
      BY <2>1, FS_Interval
  <1>2. ASSUME NEW i \in DOMAIN trades PROVE Costs(k, trades)[i] \in Int
    <2>1. trades[i] \in Prices
      OBVIOUS
    <2>2. Amount(k, trades[i]) \in Nat /\ Sign(k) \in {1, -1}
      BY <2>1, AmountType, SignType
    <2>3. Costs(k, trades)[i] = Sign(k) * Amount(k, trades[i])
      BY DEF Costs
    <2>. QED
      BY <2>2, <2>3
  <1>3. SumFunction(Costs(k, trades)) = SumFunctionOnSet(Costs(k, trades), DOMAIN trades)
    BY DEF SumFunction, Costs
  <1>4. SumFunctionOnSet(Costs(k, trades), DOMAIN trades) \in Int
    BY <1>1, <1>2, SumType
  <1>. QED
    BY <1>1, <1>2, <1>3, <1>4

LEMMA CostsAppend ==
  ASSUME NEW k \in Kinds, NEW trades \in Seq(Prices), NEW price \in Prices
  PROVE  SumFunction(Costs(k, Append(trades, price))) =
           SumFunction(Costs(k, trades)) + Sign(k) * Amount(k, price)
  <1> DEFINE more == Append(trades, price)
             n == Len(trades) + 1
  <1>1. /\ more \in Seq(Prices) /\ DOMAIN more = DOMAIN trades \cup {n}
        /\ n \notin DOMAIN trades /\ more[n] = price
        /\ \A i \in DOMAIN trades : more[i] = trades[i]
    OBVIOUS
  <1> HIDE DEF more, n
  <1>2. IsFiniteSet(DOMAIN trades) /\ \A i \in DOMAIN more : Costs(k, more)[i] \in Int
    BY <1>1, CostsType
  <1>3. SumFunctionOnSet(Costs(k, more), DOMAIN trades \cup {n}) =
          SumFunctionOnSet(Costs(k, more), DOMAIN trades) + Costs(k, more)[n]
    BY <1>1, <1>2, SumAdd
  <1>4. SumFunctionOnSet(Costs(k, more), DOMAIN trades) =
          SumFunctionOnSet(Costs(k, trades), DOMAIN trades)
    <2>1. \A i \in DOMAIN trades : Costs(k, more)[i] = Costs(k, trades)[i]
      BY <1>1 DEF Costs
    <2>. QED
      BY <1>2, <2>1, SumEqual
  <1>5. Costs(k, more)[n] = Sign(k) * Amount(k, price)
    BY <1>1 DEF Costs
  <1>6. /\ DOMAIN Costs(k, more) = DOMAIN trades \cup {n}
        /\ DOMAIN Costs(k, trades) = DOMAIN trades
    BY <1>1 DEF Costs
  <1>7. SumFunction(Costs(k, more)) =
          SumFunction(Costs(k, trades)) + Sign(k) * Amount(k, price)
    BY <1>3, <1>4, <1>5, <1>6, Zenon DEF SumFunction
  <1>. QED
    BY <1>7 DEF more

LEMMA PlacedOfKinds ==
  ASSUME NEW K \in KindMaps, NEW o \in PlacedOf(K)
  PROVE  o \in Orders /\ K[o] \in Kinds
  BY DEF KindMaps, PlacedOf

LEMMA SpentType ==
  ASSUME NEW K \in KindMaps, NEW b \in Books, NEW o \in PlacedOf(K)
  PROVE  /\ b.trades[o] \in Seq(Prices)
         /\ SpentOf(K, b)[o] = SumFunction(Costs(K[o], b.trades[o]))
         /\ SpentOf(K, b)[o] \in Int
  <1>1. o \in Orders /\ K[o] \in Kinds
    BY PlacedOfKinds
  <1>2. b.trades[o] \in Seq(Prices)
    BY <1>1 DEF Books
  <1>3. SpentOf(K, b)[o] = SumFunction(Costs(K[o], b.trades[o]))
    BY DEF SpentOf
  <1>. QED
    BY <1>1, <1>2, <1>3, CostsType

LEMMA MovedType ==
  ASSUME NEW K \in KindMaps, NEW b \in Books, NEW s, NEW o \in OrdersIn(K, s)
  PROVE  /\ MovedOf(K, b, s)[o] = Sign(K[o]) * K[o].qty * Len(b.trades[o])
         /\ MovedOf(K, b, s)[o] \in Int
         /\ Sign(K[o]) * K[o].qty \in Int /\ Len(b.trades[o]) \in Nat
  <1>1. o \in Orders /\ K[o] \in Kinds
    BY PlacedOfKinds DEF OrdersIn
  <1>2. K[o].qty \in Nat /\ Sign(K[o]) \in {1, -1}
    BY <1>1, KindFields, SignType
  <1>3. Sign(K[o]) * K[o].qty \in Int
    BY <1>2
  <1>4. Len(b.trades[o]) \in Nat
    BY <1>1 DEF Books
  <1>5. \A x, y \in Int : x * y \in Int
    OBVIOUS
  <1>6. Sign(K[o]) * K[o].qty * Len(b.trades[o]) \in Int
    BY <1>3, <1>4, <1>5
  <1>. QED
    BY <1>3, <1>4, <1>6 DEF MovedOf

\* A settlement books the cash and the lots of the trade it records, or nothing.
LEMMA SettleBalances ==
  ASSUME NEW K \in KindMaps, NEW b \in Books, BalancesOf(K, b),
         NEW o \in PlacedOf(K), NEW price \in Prices,
         NEW c, c = Settle(b, o, K[o], price)
  PROVE  BalancesOf(K, c)
  <1> DEFINE k == K[o]
             P == PlacedOf(K)
  <1>1. o \in Orders /\ k \in Kinds /\ c \in Books
    BY PlacedOfKinds, SettleType
  <1>2. CASE ~Affords(b, k, price)
    <2>1. c.cash = b.cash /\ c.held = b.held /\ c.trades = b.trades
      BY <1>1, <1>2, Settled
    <2>2. SpentOf(K, c) = SpentOf(K, b) /\ \A s : MovedOf(K, c, s) = MovedOf(K, b, s)
      BY <2>1 DEF SpentOf, MovedOf
    <2>. QED
      BY <2>1, <2>2 DEF BalancesOf
  <1>3. CASE Affords(b, k, price)
    <2> DEFINE amount == Sign(k) * Amount(k, price)
               lots == Sign(k) * k.qty
    <2>1. /\ c.cash = b.cash - amount
          /\ c.held = [b.held EXCEPT ![k.symbol] = @ + lots]
          /\ c.trades = [b.trades EXCEPT ![o] = Append(@, price)]
      <3>1. c = [cash   |-> b.cash - amount,
                 held   |-> [b.held EXCEPT ![k.symbol] = @ + lots],
                 status |-> [b.status EXCEPT ![o] = "FILLED"],
                 trades |-> [b.trades EXCEPT ![o] = Append(@, price)]]
        BY <1>1, <1>3, Settled, Zenon
      <3> HIDE DEF amount, lots
      <3>. QED
        BY <3>1
    <2>2. /\ amount \in Int /\ lots \in Int /\ k.symbol \in Symbols
          /\ b.cash \in Nat /\ b.held \in [Symbols -> Nat]
      <3>1. /\ Amount(k, price) \in Nat /\ k.qty \in Nat /\ Sign(k) \in {1, -1}
            /\ k.symbol \in Symbols
        BY <1>1, AmountType, KindFields, SignType
      <3>2. amount \in Int /\ lots \in Int
        BY <3>1
      <3>. QED
        BY <3>1, <3>2 DEF Books
    <2>3. /\ c.trades[o] = Append(b.trades[o], price)
          /\ \A p \in Orders \ {o} : c.trades[p] = b.trades[p]
      BY <1>1, <2>1 DEF Books
    <2>4. IsFiniteSet(P) /\ \A s : IsFiniteSet(OrdersIn(K, s))
      BY PlacedOfFinite
    <2>5. c.cash = Capital * 10000 - SumFunctionOnSet(SpentOf(K, c), P)
      <3>1. \A p \in P : SpentOf(K, b)[p] \in Int /\ SpentOf(K, c)[p] \in Int
        BY <1>1, SpentType
      <3>2. \A p \in P \ {o} : SpentOf(K, b)[p] = SpentOf(K, c)[p]
        BY <2>3 DEF SpentOf, PlacedOf
      <3>3. SpentOf(K, c)[o] = SpentOf(K, b)[o] + amount
        <4>1. b.trades[o] \in Seq(Prices)
          BY SpentType
        <4>2. SumFunction(Costs(k, Append(b.trades[o], price))) =
                SumFunction(Costs(k, b.trades[o])) + amount
          BY <1>1, <4>1, CostsAppend
        <4>3. SpentOf(K, c)[o] = SumFunction(Costs(k, c.trades[o]))
          BY <1>1, SpentType
        <4>4. SpentOf(K, b)[o] = SumFunction(Costs(k, b.trades[o]))
          BY <1>1, SpentType
        <4>. QED
          BY <2>3, <4>2, <4>3, <4>4
      <3>4. SumFunctionOnSet(SpentOf(K, c), P) =
              SumFunctionOnSet(SpentOf(K, b), P) + (SpentOf(K, c)[o] - SpentOf(K, b)[o])
        BY <2>4, <3>1, <3>2, SumChange
      <3>5. SumFunctionOnSet(SpentOf(K, b), P) \in Int
        BY <2>4, <3>1, SumType
      <3>6. b.cash = Capital * 10000 - SumFunctionOnSet(SpentOf(K, b), P)
        BY DEF BalancesOf
      <3>7. Capital * 10000 \in Int /\ SpentOf(K, b)[o] \in Int
        BY <3>1, ConstantsAssumption
      <3> HIDE DEF amount, P
      <3>. QED
        BY <2>1, <2>2, <3>3, <3>4, <3>5, <3>6, <3>7
    <2>6. ASSUME NEW s \in Symbols
          PROVE  c.held[s] = SumFunctionOnSet(MovedOf(K, c, s), OrdersIn(K, s))
      <3> DEFINE D == OrdersIn(K, s)
      <3>1. \A p \in D : MovedOf(K, b, s)[p] \in Int /\ MovedOf(K, c, s)[p] \in Int
        BY <1>1, MovedType
      <3>2. \A p \in D \ {o} : MovedOf(K, b, s)[p] = MovedOf(K, c, s)[p]
        BY <2>3 DEF MovedOf, OrdersIn, PlacedOf
      <3>3. b.held[s] = SumFunctionOnSet(MovedOf(K, b, s), D)
        BY DEF BalancesOf
      <3>4. CASE s # k.symbol
        <4>1. o \notin D
          BY <3>4 DEF OrdersIn
        <4>2. SumFunctionOnSet(MovedOf(K, b, s), D) = SumFunctionOnSet(MovedOf(K, c, s), D)
          BY <2>4, <3>2, <4>1, SumEqual
        <4>. QED
          BY <2>1, <2>2, <3>3, <3>4, <4>2
      <3>5. CASE s = k.symbol
        <4>1. o \in D
          BY <3>5 DEF OrdersIn
        <4>2. MovedOf(K, c, s)[o] = MovedOf(K, b, s)[o] + lots
          <5>1. Len(c.trades[o]) = Len(b.trades[o]) + 1
            BY <2>3, SpentType
          <5>2. /\ MovedOf(K, b, s)[o] = lots * Len(b.trades[o])
                /\ MovedOf(K, c, s)[o] = lots * Len(c.trades[o])
                /\ Len(b.trades[o]) \in Nat
            BY <1>1, <4>1, MovedType
          <5>3. \A x \in Int, n \in Nat : x * (n + 1) = x * n + x
            OBVIOUS
          <5> HIDE DEF lots
          <5>. QED
            BY <2>2, <5>1, <5>2, <5>3
        <4>3. SumFunctionOnSet(MovedOf(K, c, s), D) =
                SumFunctionOnSet(MovedOf(K, b, s), D)
                  + (MovedOf(K, c, s)[o] - MovedOf(K, b, s)[o])
          BY <2>4, <3>1, <3>2, <4>1, SumChange
        <4>4. SumFunctionOnSet(MovedOf(K, b, s), D) \in Int /\ MovedOf(K, b, s)[o] \in Int
          BY <2>4, <3>1, <4>1, SumType
        <4>5. c.held[s] = b.held[s] + lots
          BY <2>1, <2>2, <3>5
        <4> HIDE DEF lots
        <4>. QED
          BY <2>2, <3>3, <4>2, <4>3, <4>4, <4>5
      <3>. QED
        BY <3>4, <3>5
    <2>. QED
      BY <2>5, <2>6 DEF BalancesOf
  <1>. QED
    BY <1>2, <1>3

\* An order without trades changes no sum.
LEMMA NewOrderBalances ==
  ASSUME NEW K \in KindMaps, NEW L \in KindMaps, NEW b \in Books, BalancesOf(K, b),
         NEW o \in Orders, NEW k \in Kinds, o \notin PlacedOf(K), L[o] = k,
         \A p \in Orders \ {o} : L[p] = K[p], Len(b.trades[o]) = 0,
         NEW c \in Books, c.cash = b.cash, c.held = b.held, c.trades = b.trades
  PROVE  o \in PlacedOf(L) /\ BalancesOf(L, c)
  <1> DEFINE P == PlacedOf(K)
  <1>1. PlacedOf(L) = P \cup {o}
    BY KindFields DEF PlacedOf
  <1>2. b.trades[o] \in Seq(Prices) /\ b.trades[o] = <<>>
    BY DEF Books
  <1>3. IsFiniteSet(P) /\ \A s : IsFiniteSet(OrdersIn(K, s))
    BY PlacedOfFinite
  <1>4. c.cash = Capital * 10000 - SumFunctionOnSet(SpentOf(L, c), PlacedOf(L))
    <2>1. \A p \in P \cup {o} : SpentOf(L, c)[p] \in Int
      BY <1>1, SpentType
    <2>2. SumFunctionOnSet(SpentOf(L, c), P \cup {o}) =
            SumFunctionOnSet(SpentOf(L, c), P) + SpentOf(L, c)[o]
      BY <1>3, <2>1, SumAdd
    <2>3. SumFunctionOnSet(SpentOf(L, c), P) = SumFunctionOnSet(SpentOf(K, b), P)
      <3>1. \A p \in P : SpentOf(L, c)[p] = SpentOf(K, b)[p]
        BY <1>1 DEF SpentOf, PlacedOf
      <3>. QED
        BY <1>3, <3>1, SumEqual
    <2>4. SpentOf(L, c)[o] = 0
      <3>1. SpentOf(L, c)[o] = SumFunction(Costs(k, <<>>))
        BY <1>1, <1>2, SpentType
      <3>2. DOMAIN Costs(k, <<>>) = {}
        BY DEF Costs
      <3>3. SumFunction(Costs(k, <<>>)) = SumFunctionOnSet(Costs(k, <<>>), {})
        BY <3>2, Zenon DEF SumFunction
      <3>. QED
        BY <3>1, <3>3, SumEmpty
    <2>5. SumFunctionOnSet(SpentOf(K, b), P) \in Int
      BY <1>3, SpentType, SumType
    <2>6. b.cash = Capital * 10000 - SumFunctionOnSet(SpentOf(K, b), P)
      BY DEF BalancesOf
    <2>. QED
      BY <1>1, <2>2, <2>3, <2>4, <2>5, <2>6
  <1>5. ASSUME NEW s \in Symbols
        PROVE  c.held[s] = SumFunctionOnSet(MovedOf(L, c, s), OrdersIn(L, s))
    <2> DEFINE D == OrdersIn(K, s)
    <2>1. b.held[s] = SumFunctionOnSet(MovedOf(K, b, s), D)
      BY DEF BalancesOf
    <2>2. SumFunctionOnSet(MovedOf(L, c, s), D) = SumFunctionOnSet(MovedOf(K, b, s), D)
      <3>1. \A p \in D : MovedOf(L, c, s)[p] = MovedOf(K, b, s)[p]
        BY <1>1 DEF MovedOf, OrdersIn, PlacedOf
      <3>. QED
        BY <1>3, <3>1, SumEqual
    <2>3. CASE k.symbol # s
      <3>1. OrdersIn(L, s) = D
        BY <1>1, <2>3 DEF OrdersIn, PlacedOf
      <3>. QED
        BY <2>1, <2>2, <3>1
    <2>4. CASE k.symbol = s
      <3>1. OrdersIn(L, s) = D \cup {o} /\ o \notin D
        BY <1>1, <2>4 DEF OrdersIn, PlacedOf
      <3>2. \A p \in D \cup {o} : MovedOf(L, c, s)[p] \in Int
        BY <3>1, MovedType
      <3>3. SumFunctionOnSet(MovedOf(L, c, s), D \cup {o}) =
              SumFunctionOnSet(MovedOf(L, c, s), D) + MovedOf(L, c, s)[o]
        BY <1>3, <3>1, <3>2, SumAdd
      <3>4. MovedOf(L, c, s)[o] = 0
        <4>1. /\ MovedOf(L, c, s)[o] = Sign(k) * k.qty * Len(b.trades[o])
              /\ Sign(k) * k.qty \in Int
          BY <3>1, MovedType
        <4>2. \A x \in Int : x * 0 = 0
          OBVIOUS
        <4>. QED
          BY <4>1, <4>2
      <3>5. SumFunctionOnSet(MovedOf(L, c, s), D) \in Int
        BY <1>3, <3>2, SumType
      <3>. QED
        BY <2>1, <2>2, <3>1, <3>3, <3>4, <3>5
    <2>. QED
      BY <2>3, <2>4
  <1>6. o \in PlacedOf(L)
    BY <1>1
  <1>. QED
    BY <1>4, <1>5, <1>6 DEF BalancesOf

LEMMA BalancesIsOf ==
  ASSUME NEW b
  PROVE  Balances(b) <=> BalancesOf(kind, b)
  <1>1. /\ DOMAIN Spent(b) = Placed /\ Spent(b) = SpentOf(kind, b)
        /\ Placed = PlacedOf(kind)
    BY DEF Spent, SpentOf, Placed, PlacedOf
  <1>2. ASSUME NEW s
        PROVE  DOMAIN Moved(b, s) = OrdersIn(kind, s) /\ Moved(b, s) = MovedOf(kind, b, s)
    BY DEF Moved, MovedOf, OrdersIn, Placed, PlacedOf
  <1>3. SumFunction(Spent(b)) = SumFunctionOnSet(SpentOf(kind, b), PlacedOf(kind))
    BY <1>1, Zenon DEF SumFunction
  <1>4. ASSUME NEW s
        PROVE  SumFunction(Moved(b, s)) = SumFunctionOnSet(MovedOf(kind, b, s), OrdersIn(kind, s))
    BY <1>2, Zenon DEF SumFunction
  <1>. QED
    BY <1>3, <1>4 DEF Balances, BalancesOf

\* The stored portfolio balances, and so does the worker's.
Balanced ==
  BalancesOf(kind, book) /\ (~LoopIsFree => BalancesOf(kind, session.draft))

LEMMA InitBalanced == Init => Balanced
  <1>. SUFFICES ASSUME Init PROVE Balanced
    OBVIOUS
  <1>1. PlacedOf(kind) = {} /\ \A s : OrdersIn(kind, s) = {}
    BY DEF Init, PlacedOf, OrdersIn
  <1>2. book.cash = Capital * 10000 /\ \A s \in Symbols : book.held[s] = 0
    BY DEF Init
  <1>3. Capital * 10000 \in Int /\ LoopIsFree
    BY ConstantsAssumption DEF Init, LoopIsFree
  <1>4. SumFunctionOnSet(SpentOf(kind, book), PlacedOf(kind)) = 0
    BY <1>1, SumEmpty
  <1>5. \A s : SumFunctionOnSet(MovedOf(kind, book, s), OrdersIn(kind, s)) = 0
    BY <1>1, SumEmpty
  <1>6. BalancesOf(kind, book)
    BY <1>2, <1>3, <1>4, <1>5 DEF BalancesOf
  <1>. QED
    BY <1>3, <1>6 DEF Balanced

LEMMA PlaceBalanced ==
  ASSUME IInv, Balanced, NEW o \in Orders, NEW k \in Kinds, Place(o, k)
  PROVE  Balanced'
  <1>. USE DEF IInv
  <1>1. /\ o \notin Placed /\ kind' \in KindMaps
        /\ kind'[o] = k /\ \A p \in Orders \ {o} : kind'[p] = kind[p]
        /\ Len(book.trades[o]) = 0 /\ session' = NoSession
    BY PlaceEffect DEF KindMaps
  <1>2. /\ book \in Books /\ kind \in KindMaps /\ BalancesOf(kind, book)
        /\ PlacedOf(kind) = Placed
    BY DEF TypeOK, KindMaps, Balanced, PlacedOf, Placed
  <1>3. /\ Stored(o) \in Books
        /\ Stored(o).cash = book.cash /\ Stored(o).held = book.held
        /\ Stored(o).trades = book.trades
    BY <1>2, StoredType
  <1>4. o \in PlacedOf(kind') /\ BalancesOf(kind', Stored(o))
    BY <1>1, <1>2, <1>3, NewOrderBalances
  <1>5. book' = IF k.type = "market" /\ mark[k.symbol] > 0
                THEN Settle(Stored(o), o, k, mark[k.symbol]) ELSE Stored(o)
    BY Zenon DEF Place, Stored
  <1>6. BalancesOf(kind', book')
    <2>1. CASE k.type = "market" /\ mark[k.symbol] > 0
      <3>1. mark[k.symbol] \in Prices
        BY <2>1, KindFields DEF TypeOK, NoPrice
      <3>2. book' = Settle(Stored(o), o, kind'[o], mark[k.symbol])
        BY <1>1, <1>5, <2>1
      <3>. QED
        BY <1>1, <1>3, <1>4, <3>1, <3>2, SettleBalances
    <2>2. CASE ~(k.type = "market" /\ mark[k.symbol] > 0)
      <3>1. book' = Stored(o)
        BY <1>5, <2>2
      <3>. QED
        BY <1>4, <3>1
    <2>. QED
      BY <2>1, <2>2
  <1>. QED
    BY <1>1, <1>6 DEF Balanced, LoopIsFree

LEMMA NextBalanced == IInv /\ Balanced /\ [Next]_vars => Balanced'
  <1>. SUFFICES ASSUME IInv, Balanced, [Next]_vars PROVE Balanced'
    OBVIOUS
  <1>. USE DEF IInv
  <1>0. book \in Books /\ kind \in KindMaps /\ PlacedOf(kind) = Placed
    BY DEF TypeOK, KindMaps, PlacedOf, Placed
  <1>1. ASSUME NEW o \in Orders, NEW k \in Kinds, Place(o, k) PROVE Balanced'
    BY <1>1, PlaceBalanced
  <1>2. ASSUME NEW o \in Orders, NEW price \in Prices, QuoteArrives(o, price)
        PROVE  Balanced'
    <2>1. /\ session' = NoSession /\ o \in quoting /\ kind' = kind
          /\ book' = IF price > 0 THEN Settle(book, o, kind[o], price) ELSE book
      BY <1>2 DEF QuoteArrives, LoopIsFree
    <2>2. o \in PlacedOf(kind) /\ BalancesOf(kind, book)
      BY <1>0, <2>1 DEF TypeOK, Balanced
    <2>3. CASE price > 0
      <3>1. BalancesOf(kind, book')
        BY <1>0, <2>1, <2>2, <2>3, SettleBalances
      <3>. QED
        BY <2>1, <3>1 DEF Balanced, LoopIsFree
    <2>4. CASE ~(price > 0)
      BY <2>1, <2>2, <2>4 DEF Balanced, LoopIsFree
    <2>. QED
      BY <2>3, <2>4
  <1>3. ASSUME NEW o \in Orders, FillNext(o) PROVE Balanced'
    <2>1. /\ ~LoopIsFree /\ o \in session.left /\ kind' = kind /\ book' = book
          /\ session' = [session EXCEPT !.left = @ \ {o},
                           !.draft = Settle(@, o, kind[o], session.tick.price)]
      BY <1>3 DEF FillNext
    <2>2. /\ session \in Sessions /\ session.draft \in Books
          /\ session.tick.price \in Prices /\ o \in Placed
      BY <2>1, OpenSession
    <2>3. session'.draft = Settle(session.draft, o, kind[o], session.tick.price)
      BY <2>1, <2>2 DEF Sessions
    <2>4. BalancesOf(kind, session'.draft)
      BY <1>0, <2>1, <2>2, <2>3, SettleBalances DEF Balanced
    <2>. QED
      BY <2>1, <2>4 DEF Balanced
  <1>4. CASE TakeTick
    <2>1. session'.draft = book /\ kind' = kind /\ book' = book
      BY <1>4 DEF TakeTick
    <2>. QED
      BY <2>1 DEF Balanced
  <1>5. CASE Commit
    <2>1. session' = NoSession /\ book' = session.draft /\ kind' = kind /\ ~LoopIsFree
      BY <1>5 DEF Commit
    <2>. QED
      BY <2>1 DEF Balanced, LoopIsFree
  <1>6. CASE EvaluateFails \/ Restart \/ UNCHANGED vars \/ \E tick \in Ticks : Tick(tick)
    <2>1. /\ kind' = kind /\ book' = book
          /\ session' = NoSession \/ session' = session
      BY <1>6 DEF EvaluateFails, Restart, vars, Tick
    <2>. QED
      BY <2>1 DEF Balanced, LoopIsFree
  <1>. QED
    BY <1>1, <1>2, <1>3, <1>4, <1>5, <1>6 DEF Next, Work

\* Cash and positions are what the trades make of the capital, for any orders,
\* prices and rates, in whatever order request and worker settle and wherever a
\* transaction is cut off.
THEOREM BooksAlwaysBalance == Spec => []BooksBalance
  <1>1. Init => IInv /\ Balanced
    BY InitInvariant, InitBalanced
  <1>2. IInv /\ Balanced /\ [Next]_vars => IInv' /\ Balanced'
    BY NextInvariant, NextBalanced
  <1>3. IInv /\ Balanced => BooksBalance
    BY BalancesIsOf DEF Balanced, BooksBalance
  <1>. QED
    BY <1>1, <1>2, <1>3, PTL DEF Spec

===============================================================================
