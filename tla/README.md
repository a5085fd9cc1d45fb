# A verification of OpenTerminalUI's order paths

OpenTerminalUI is a FastAPI process that serves market data, research and
trading to a web terminal. These modules model the parts that keep and move
orders: the canonical paper-trading service, the JSON file it lives in, the
execution manager that sends orders to a MetaTrader 5 terminal, the scheduler
whose entries it executes, the adaptive manager of the positions opened there,
the AI scheduler that trades at Interactive Brokers, and the tick-driven engine of
virtual portfolios. Everything runs in one `uvicorn` process
(`backend/entrypoint.sh`); `backend/main.py:75-140` starts the background loops.
Async code interleaves at its `await`s, sync routes run on a thread pool.

## Inventory

| Part | State | Operations | Talks to | Hard behaviour |
| --- | --- | --- | --- | --- |
| Canonical paper trading (`backend/trading`, `api/routes/trading.py`) | accounts, deployments, emergency controls, orders, fills, ledger | create, approve, mark stale, intent, simulate, cancel, submit and cancel at a broker, reconcile | its store, the broker session | any order of requests on one order; duplicate keys; limits read before they are used; averages through flips |
| Paper trading store (`trading/persistence.py`, `serialization.py`) | one JSON file | load, change a copy, truncate, write | every request | unlocked read-modify-write by several threads; crash between two writes or within one |
| MT5 execution manager (`portfolio_execution/service.py`) | journal: key to order state, portfolio snapshot | `submit_mt5_request`, refresh | scheduler, adaptive manager, bridge | awaits between check and store; answers lost while the terminal executes; repeated keys; restarts |
| Adaptive management (`adaptive_management/service.py`, with the exit rules of `tp_protection.py` and the routes of `api/routes/adaptive_management.py` around it) | activation, breaker, adoptions, actions, results, exit stages, position rows | the 10-second monitor cycle, activate, deactivate, reset, adopt | execution manager, terminal | rows committed at the end of the cycle, breaker in other sessions meanwhile; outages; lost answers |
| MT5 autonomous scheduler (`brokers/mt5/autonomous.py`) | lease, emergency flag, candles traded, cycles | start, stop, heartbeat, five-minute cycle, emergency switch | execution manager, AI | get-then-set lease that does not tell processes of one name apart, flag read long before the order, state written back whole from five places, crash between order and record |
| Virtual paper engine (`paper_trading/service.py`, `api/routes/paper.py`) | queue, last prices, virtual orders and positions in SQL | place, tick, evaluate, immediate fill | market data hub | await between the check and the fill; full queue; failed transactions |
| IBKR session (`brokers/ibkr`, `brokers/sessions.py`) | connection, orders, executions, idempotency file | connect, reconnect, submit, cancel, synchronise | gateway, paper routes | reconnects during an order, late executions |
| AI proposals (`intelligence/trading/auto_paper.py`) | scheduler state in memory, acceptance counts in the database, usage ledger | cycle, submission, protective orders, emergency switch | provider, IBKR session | checks before awaits; missing acknowledgements; partial and late fills; exits good for the day; flags lost at restart |
| Quote bus and hub (`services/redis_quote_bus.py`, `marketdata_hub.py`) | Redis lease, subscriptions | acquire, renew, publish | providers, websockets | expiry of a lease in use |
| Provider resilience (`market_data/resilience.py`, `shared/rate_limiter.py`) | breaker, counters | call, record, half-open | providers | thresholds and clocks |
| Backtest jobs, research agent, AI budgets | job and task states, reservations | submit, run, cancel, settle | thread pools, providers | cancellation against completion |
| Research, screening, indicators, forex and economic intelligence | caches | numerical functions | | floating point; no states to explore |
| API schema, user interfaces | | parsing, rendering | | |

What makes each modelled part correct:

- paper trading: an order executes once; a working order holds its key alone;
  the pending limit holds; final statuses are final; position, cash and cost
  basis are what the fills explain; the stored account follows the ledger;
- store: entries appear in the order the requests write them; a crash loses an
  order's last steps and nothing else; a finished write leaves a readable file;
- execution manager: a key is sent once, the journal never contradicts what the
  terminal told, an answer is never overwritten, entries respect the limit;
- adaptive management: an open breaker stops the cycle's successors, failures
  are bounded, an exit stage repeats for a known cause only, a recorded success
  was executed, an outage's breaker closes again;
- MT5 scheduler: one process schedules, a candle is traded once, a stop lets no
  later cycle reach its order and is not undone by a flag older than its reading;
- AI scheduler: the day's cap holds, the exits never exceed the position, a
  position without protection has a known cause, a stop keeps orders back, a
  cycle ends;
- virtual engine: cash and positions are the booked trades, an order is decided
  once, no price passes a waiting order unseen.

`PROJECT.json` lists every component and, under `hazards`, the lines where each
of these can go wrong.

## Modules

| Module | Models | Instances |
| --- | --- | --- |
| `OrderStates` | order statuses and the transition table (`oms/state_machine.py`) | used by the next three |
| `OrderLifecycle` | what the order manager promises of one order: an abstract specification | refined by `PaperTrading` |
| `RequestLifecycle` | what the execution manager promises of one idempotency key: an abstract specification | refined by `PortfolioExecution` and `AdaptiveManagement` |
| `PaperTrading` | one action per request of the paper service | `MCPaperTrading` |
| `TradingStore` | the same requests as sequences of file operations, with threads and crashes | `MCTradingStore` |
| `PortfolioExecution` | `submit_mt5_request` from await to await, and its callers | `MCPortfolioExecution` |
| `AdaptiveManagement` | the `demo_active` monitor cycle and what runs beside it | `MCAdaptiveManagement` |
| `Mt5Desk` | the scheduler of `brokers/mt5/autonomous.py` in several processes, over `PortfolioExecution` | `MCMt5Desk` |
| `AutoPaper` | the cycle of `intelligence/trading/auto_paper.py` and the IBKR orders it makes | `MCAutoPaper` |
| `VirtualPaper` | virtual orders, tick queue and worker | `MCVirtualPaper` |
| `PaperTradingProofs`, `TradingStoreProofs`, `PortfolioExecutionProofs`, `Mt5DeskProofs`, `AutoPaperProofs`, `AdaptiveManagementProofs`, `VirtualPaperProofs` | theorems about each | |
| `SumTheorems` | lemmas about sums over finite sets | used by two of the proof modules |

**PaperTrading** and **OrderLifecycle**. `orders`, `fills`, `books` are the
store's orders, fills and the fold of its ledger; `accounts` is the stored
valuation. `Intent` is `submit_intent` whole: resizing, the risk rules that look
at this state, the duplicate search, the approval, the re-stored duplicate, both
stores. `SimulateOrder` is `simulate_order` with the fill price, partial
liquidity, ledger entries and rebuild; `SubmitToBroker` and `CancelAtBroker` are
the two routes, whose session answers are external. Money is in whole units. A
refinement mapping (`work`) shows every step to be a step of `OrderLifecycle` or
a stutter.

**TradingStore**. A request reads, decides and plans a sequence of store
operations; each is `Load`, `Truncate`, `Write`. A crash drops all handlers. In
this module money is only which executions the account reflects.

**PortfolioExecution**. `BeginNew` ends with the PENDING commit, `OrderSend`
with the SUBMITTED commit and the request on the wire, `StoreAnswer` with the
answer's commit. The terminal executes or turns down what is on the wire whether
or not its caller still waits (`AnswerLost`). An answer need not tell what became
of the request: order_send may return no result, a timeout or a lost connection
(`unclear`), before or after the terminal decides, and `TRADE_RETCODE_PLACED` comes
before (`AnswerEarly`). `StateFromRetcode` is `_state_from_retcode`: what is not
in the success set is stored as REJECTED, an unclear answer included, and a placed
order as ACCEPTED. `told` remembers which answer a row was taken from, and the
properties except those two by name. Each caller runs one cycle at a time under its
lock. `Stored` and `Fate` map a key's journal row and its request to
`RequestLifecycle`: a PENDING row counts as unsent, since the code resubmits it. There
`vague` are the keys whose stored answer told nothing; of every other key REJECTED
means never executed.

**AdaptiveManagement**. `StartCycle`, `EnsureActivation`, `ReadFails` or
`ReadPositions`, then for each listed position `Hold` or `Choose`, a submission,
an answer, and `Commit`. `draft` is the cycle's database session; `breaker` and
`journal` change at once because their sessions commit at once. The submission
follows `submit_mt5_request` in three steps (a repeated key, a refusal, a send):
a PENDING row counts as unseen since the code resubmits it. These steps refine
`RequestLifecycle` as those of `PortfolioExecution` do, though here an answer, which
may be unclear or come early as there, is stored in the step in which the terminal
gives it, or never. Which rule proposes
an action is a free choice; one exit stage stands for the three. Rows of actions
that are not executed (held, blocked, too small) are left out: none stops a
later action. The state row of a position, `known`, is there because
`_persist_result` looks it up in a session with `autoflush=False`
(`backend/shared/db.py:21`): in the cycle that adds it, it is not found, and an
executed stage is not recorded.

**Mt5Desk** extends `PortfolioExecution` with the two sides of it that
`PortfolioExecution` leaves free: when a process starts a cycle, and what remains of
the cycle. `Start` and `TakeLease` are `_acquire_lock` read and write, `Heartbeat` and
`Awake` the loop around `_next_m5_run`, and `BeginCycle`, `Submit`, `Send`,
`Conclude`, `Count`, `DropCycle`, `FailCycle` conjoin a step of the execution manager
with what the scheduler does around it. `common` says whether `MT5_SCHEDULER_OWNER`
gives all processes one name, as the shipped configuration does (`.env.example:126`,
`docker-compose.yml:153`: `mt5-global`): then a fresh lease stops nobody
(`autonomous.py:473`), and a process that ended takes its own back at once. Without it
a name is a host and a process number; one that ended may come back with the number or
not (`Orphaned`). `pending` is a write of the stored state between its read and its
write: nothing of the same process comes between (the calls are synchronous), another
process may. Five writers do this, each with the whole state: a cycle's record
(`Record`, line 362), the count of an accepted order (`Count`, lines 328-331), the end
of `stop()` (`Persist`, line 99 and 460-466), and the two emergency routes. `Stop`
cancels the task and reads the lease, `Release` gives it up, `Persist` follows.
Screening, the provider's answer and sizing choose freely. `made`, `inFlight`,
`excused` are history: `excused` is set when a start found the lease of a live
scheduler stale or under its own name, or raced another start, after which two
schedulers do run. No document promises a single scheduler under the shared name, so
this is an exception of the properties and not a violation run. Time is the count of
closed candles.

**AutoPaper**. `phase` says how far `run_cycle` is. Only the screening and the
provider's answer really suspend it: the session calls between the last check
and the protective orders are synchronous inside (`brokers/ibkr/client.py`
suspends only to connect and disconnect), so the routes come in before `Place`
and a crash or the broker anywhere. A receipt reports any part of what was
filled by then. `memory` is lost at a restart and `stored` is not. The stop and the
target are placed with `tif` DAY (`brokers/ibkr/client.py:570`, `:582`): `Lapse` ends
them at the broker while the position stays open, at any time, and nothing in the
code places them again. `late`, `forgotten`, `uncounted`, `adrift`, `unheard`,
`lapsed` record the causes that the properties except. A position is not closed in
the seconds its entry is being protected. The broker's actions and the restart are
external.

**VirtualPaper**. `Place` is the route up to the awaited quote, `QuoteArrives` the
rest of it, and `Tick` the listener. The worker's transaction is `TakeTick` (the
query), `FillNext` for each order it returned, in any order, and `Commit`;
`session` holds its uncommitted portfolio. The transaction does not await, so the
event loop's other actions need `LoopIsFree`, but the database can fail at each of
its steps (`EvaluateFails`) and the process end (`Restart`): both roll it back and
lose the tick. Commission and slippage are kept, as percentages, because the check
of the cash uses them.

## Runs

Twelve runs; each passing one asks several properties of one instance, each
other one shows a single disagreement between the code and what is said of it.

| Run | Instance | Shows |
| --- | --- | --- |
| `paper_lifecycle` | 1 account, 3 orders, 2 keys, both sides, market and limit, partial liquidity, notional cap, broker on | the order lifecycle, once-only execution, the key's claim, the account's valuation |
| `paper_unit_lots` | 3 orders of one lot under 3 keys, four order types, shorts allowed, limit of 2 pending | position, cash and cost basis; the pending limit |
| `store_crash` | 1 handler, 7 requests of four kinds, 2 crashes | what a crash at any file operation can lose, the broker route's included |
| `execution_once` | scheduler with 3 keys, manager with 1, limit 1, 2 lost answers, unclear and early ones, restarts | once-only sending, an honest journal, the life of a request (refinement) |
| `adaptive_cycle` | 2 positions, 2 reductions, failure limit 2, 1 loss, 1 request or outage | the breaker against a cycle that read it earlier; the life of a request (refinement) |
| `adaptive_stages` | 1 position, 2 minutes, stages and closes, 1 loss, 1 request or outage | what repeats a stage, recorded successes, recovery (liveness) |
| `mt5_desk` | 2 processes, under one name or two, 2 entry keys, 3 candles, lease of 1, limit 1, 1 lost answer, crashes and a reboot | one scheduler, a candle traded once, the stop, the position limit over candles |
| `auto_paper` | 3 entries of 2 lots, 2 symbols, cap 2, both modes, exits that lapse, 1 restart, 1 new day | the day's cap, protection, exposure, the stop; cycles end (liveness) |
| `virtual_paper` | 2 orders of five kinds, prices 0 to 2, 3 ticks, queue of 2, 1 failure, 1 restart | the books, one decision per order, no price lost; ticks are decided (liveness) |
| `store_lost_ledger` | 2 handlers | a ledger entry is overwritten |
| `adaptive_stage_repeats` | 1 position, 2 reductions, no loss | an executed stage is executed again |
| `adaptive_laundered` | as `adaptive_cycle`, 2 requests or outages | an outage makes recovery close a breaker that failures opened |

Bounds. Three orders are the least with two claims on one key and one on another, and
with three keys the least to exceed a limit of two; the liquidity cap of one under
quantities of two gives partial fills; prices are chosen so that slippage and averages
stay whole numbers. In the store, seven requests of one handler fill both orders,
repeat each and leave room for two crashes. One entry above the limit of one position
and two lost answers exercise late execution. In `adaptive_cycle` two positions and a
limit of two failures let the breaker open between them, and `adaptive_stages` has
four reductions for the three executions its bound allows. In `mt5_desk` three candles
and a lease of one let a lease run out, be taken and run out again; two keys are the
least to trade one candle twice. Overlapping starts happen in the second candle only
and the behaviours they excuse end with it (`OverlapCandles`); the emergency routes
are used in the second candle (`SwitchCandles`), with one candle before and one after.
In `auto_paper` three entries exceed the cap of two and return to the first symbol,
two lots give a partial fill, and limits of one position and two orders let an entry
pass while another is only an order; one restart and one day suffice since neither
undoes what the other did. In `virtual_paper` a third tick overflows the queue of two,
and the capital of three buys one order of the two. The counters `requests`,
`crashes`, `lost`, `asked`, `minute`, `candle`, `days`, `restarts`, `ticks` and
`failures` exist for these bounds only (`candle` is also the clock); each is a
conjunct of the action it limits, named in the CONSTANTS. Permutations of
interchangeable order ids, keys and processes are used as symmetry in runs without
liveness.

Deadlock is not checked where the clients may stop once the order ids, keys,
requests or candles are used up: the paper, store, execution, `mt5_desk` and
`virtual_paper` runs. It is checked in the adaptive runs and in `auto_paper`,
whose loops never stop.

Fairness. `AdaptiveManagement`: its monitor loop runs while the
process does (`service.py:673`), the bridge's calls end with an answer or a
timeout, so each step of the cycle is weakly fair. The terminal's return, the
clock and the desk's requests are not. `OutageRecovers` assumes the terminal to
be up for good from some point on. `AutoPaper`: a cycle's steps are awaits with
timeouts of their own (the provider's call, five seconds for an acknowledgement),
so `CycleStep` is weakly fair; the broker, the routes and the start of the next
cycle are not. `VirtualPaper`: the worker takes a tick whenever there is one,
and goes through its transaction, `WF_vars(Work)`; ticks, quotes and requests are
not fair.

Types are part of every inductive invariant below; only the type invariants of
`PaperTrading` and `VirtualPaper` are also asked by runs, which ask deeper
questions instead. Every
property has a variant of a mapped definition that breaks it (`mutants`);
the variants stand next to the definitions, marked "Variant of".

## Disagreements between the code and its documentation

Three violation runs, quoted with their lines in `findings`: `store_lost_ledger`,
`adaptive_laundered` and `adaptive_stage_repeats`: the stage executed in the cycle
that first sees its position is not recorded (`adaptive_management/service.py:1156`)
and executes again, against
`test_partial_protect_stage_does_not_repeat_once_executed`. Others were seen while
modelling, and are not run:

- the key of a filled or cancelled order is free again, so a repeated request
  executes again (`trading/oms/service.py:28`), though
  `docs/RISK_ASSUMPTIONS_AUDIT.md:15` counts on idempotency keys;
- any long position permits a sale of any size, so a strategy without shorts can
  go short (`trading/risk/engine.py:77`, against line 9 of the same document);
- two calls with one key both pass the journal between PENDING and SUBMITTED and
  both send (`portfolio_execution/service.py:217`); the keys of the two callers
  differ, so `PortfolioExecution` shows it only when its assumption is dropped;
- a crash of submit-to-broker between the broker's execution and the stored
  status lets the route execute the order again (`api/routes/trading.py:210`);
- an AI entry without an acknowledgement does not block the next one in the
  multi-trade mode (`auto_paper.py:429`): `docs/IBKR_SUBMISSION_RECOVERY.md` says
  "New submissions stay blocked until the unknown state is resolved.";
- `trades_today` of the AI scheduler is never set back, a fill that comes after
  the receipt is never protected, a restart forgets the emergency stop, and
  the stop and the target lapse with the session while the position stays open;
- an MT5 request whose answer is no result, a timeout or a lost connection is stored
  as REJECTED though it may have been executed (`portfolio_execution/service.py:511`);
  `brokers/mt5/execution.py:233` calls the missing result SUBMISSION_UNKNOWN;
- with the shipped `MT5_SCHEDULER_OWNER` two processes schedule side by side: a fresh
  lease under one's own name is taken for one's own (`autonomous.py:473`);
- a virtual market order whose quote is awaited is filled by the tick worker and
  then again by its request (`paper_trading/service.py:222`); the realized
  profit of a full close is computed with an average price already reset to
  zero (`:166`);
- a cycle's record, the count of an order or a `stop()` of one process can lower an
  emergency flag another process has just raised (`brokers/mt5/autonomous.py:362`,
  `:331`, `:466`), and so can `emergency_enable`;
- an order left ACKNOWLEDGED or PARTIALLY_FILLED can never be simulated again,
  though the simulator accepts both (`execution/simulator.py:20`);
- two handlers can simulate one order twice, store two orders under one key and
  undo each other's statuses; `TradingStore` has these behaviours with two
  threads, `store_lost_ledger` stands for them;
- rounding half-even to the lot after the notional cut can end above the cap
  (`risk/engine.py:99`), by half a price at most (`CapHoldsToHalfALot`), and cash may
  be spent twice by orders approved together;
- a limit order fills at its limit with slippage and spread added, so at a worse
  price than its limit (`execution/simulator.py:30`, `:41`);
- a flip through zero keeps the old average price (`portfolio/ledger.py:59`);
  `GapIsExplained` says what that costs the books;
- reconciling without marks compares a valuation at market with one at cost;
- `deactivate` is undone by the next cycle (`service.py:257`), and
  `maximum_actions_per_hour` is stored and never compared with anything.

## Proofs

TLAPS checks these for every value of the constants.

`PaperTradingProofs`, from the constants' assumption alone:

- `TypeCorrect`;
- `OneExecution`, `FillsMatch`, `TerminalFinal` (a final order never changes, and one
  that is not approved gets no further execution): the inductive invariant is
  `ExecutionInv`, which adds to the type invariant and the two properties that
  an id not yet issued has no fills. Without the relation between an order's
  filled quantity, its status and its fills the approved order that `simulate`
  takes could already have one. `OrderStep` lists all that a step can do to the
  orders, so each theorem splits on that and not on the whole of `Next`;
- `OneLiveOrder`, `PendingBounded`: inductive given that a step only settles the
  stored orders (`OnlySettles`) or submits one that passed the two tests;
- `Implements`: the initial states and the steps map to `OrderLifecycle`'s;
- `AccountsFollow`: inductive once `MoneyStep` says that a step opens an account,
  books an entry and stores the valuation of the new book, or leaves the money;
- `FillsExplainBooks`, assuming `~BrokerEnabled` (the broker route's entries carry
  no cash and count a cover as a sale, so with it the statement is false). The
  invariant `Booked` states position and outlay as sums over the orders of an
  account, and that an account not yet opened has no orders. `SumsNew`,
  `SumsFilled` and `SumsSame` say what a step does to the sums: a new order adds
  nothing, a fill adds its own quantity and cost and nothing to other accounts.
  That a fill finds its order without an execution is `ExecutionInv`'s;
- `CostBasisHolds`, `GapIsExplained`, `OnlyRoundingIsLost`, with `~BrokerEnabled` too.
  `Gap` is what a book fails to balance by: cash, realized profit and the cost of the
  position against the deposit. `GapIsExplained` says of every step, whatever the
  prices, that it changes by the fee of an entry that opens, the rounding of the
  average price and the remainder of a flip, and by nothing else; it follows from the
  algebra of one ledger entry. `OnlyRoundingIsLost` bounds the second. So
  `CostBasisBalances` holds of every behaviour in which each fill is exact
  (`CostBasisHolds`, with `[][ExactFills]_vars` as its hypothesis, since without it the
  statement is false: averages are rounded, and a flip keeps the old one). All
  behaviours of `paper_unit_lots` satisfy the hypothesis;
- `CapHoldsToHalfALot`, of the operator `Resized`: rounding half-even to a lot is
  nowhere further than a half (`NearestWhole`).

`TradingStoreProofs`: `WritesAreOrdered`, `FilledIsMarked`, `ExecutedOnce` and
`CrashesUnsettle` are of the behaviours in which requests do not overlap (`[]Solo`),
for any number of handlers, requests and crashes: the thread pool does not give
this, so the hypothesis is part of each statement, and where it fails so can the
properties (`store_lost_ledger` shows the ledger losing an entry; two overlapping
simulations of one order both append a fill). The invariant
(`HandlerInv`) relates the document to what is left of the plan (`Track`): each
stage of a plan says how far the order's fills, ledger and account have come, and
between requests `Rest` says no request left a debt. `Owes` counts: the orders
whose entries disagree are at most the crashes, and the one under way is either
settled by the rest of its plan or has a crash to answer for it.
`TruncationsComplete` needs no such hypothesis, nor any bound on the handlers:
a file is empty only while its writer is at work (`WriterAtWork`) or after a crash.
No run asks it; it is proved only.

`PortfolioExecutionProofs`, assuming that no two callers share a key
(`KeysAreExclusive`; their prefixes and cycle locks give it in one process, and
without it two calls can send one key): `TypeCorrect`, `SentOnce`, `Honest`,
`FinalAnswers`, `ImplementsRequests`. The invariant `IInv` ties each caller's stage to
the row of its key and to the wire (`CallMatches`), and each row to the terminal
(`RowMatches`): an unsent row has nothing on the wire, a settled one nothing left
there. That is what keeps a late execution from contradicting a stored answer, except
one that told nothing, which the theorems leave out by name. `ImplementsRequests` has
one lemma per action (`SendMaps`, `DecideMaps`, `StoreAnswerMaps`, ...), each saying
which step of `RequestLifecycle` it is; `CallMatches` gives the guards, such as that
an order about to be sent has nothing on the wire. Only one key changes at a time
(`OneKeyChanges`).

`Mt5DeskProofs`, from the assumptions of both modules: `Implements` (every step of the
desk is a step of `PortfolioExecution` or a stutter, so its theorems hold of the
desk), `DeskTypeCorrect`, `OneSchedulerRuns`, `CandleTradedOnce`, `StopHeld`. The
invariant `DeskInv` says of every process which call of the execution manager fits its
stage (`CallsInCycle`), and, as long as nothing excused a second scheduler, that one
process works and the lease is under its name until it gives it up (`Alone`), that no
key was made for the candle a sleeping loop waits for or a cycle decides about
(`CandleUnused`), and that each candle has one key (`MadeOnce`). `CandleUnused` is
what carries the once-only entry over crashes: the record of the candle can be lost,
the wake-up time of the next loop cannot. For the stop, `StoppedBefore` says that
while the flag is stored every cycle under way had begun before; `StopKept` adds that
every writer but `emergency_enable` carries the flag as it was loaded or raised
(`FlagIsLoaded`), so only a process that loaded before the stop can lower it.
`PositionsAreBounded` counts places: a position and a request on the wire take one
each, a caller that decides has found one free, and a request whose caller is gone is
a lost answer, or had one that did not tell (`Room`).

`AutoPaperProofs`, from `ConstantsAssumption`: `TypeCorrect`, `ExitsNeverReverse`,
`LackOfCoverHasCause`, `CapHolds`, `StopBindsTheCycle`. `AutoInv` numbers the placed
entries (`Numbered`: a screened decision is new, so it has no lots), bounds what a
receipt and an exit can hold by what was filled (`Lots`), and keeps a cause for each
missing exit, the end of the session among them (`Causes`). `Counted` adds that an
entry of the day is counted, is about to be, or lost its process; the cap follows by
the cardinality of unions. `ExposureHolds` needs `Exposed`: open symbols and unfilled
entries together stay under both limits plus the entries never acknowledged, since an
order the broker does not have yet is the cycle's own or one of those (`SentIsKnown`).

`AdaptiveManagementProofs`, from `ConstantsAssumption`: `RecordsHold`, where `Honest`
adds the open session's draft to the committed rows; `FailuresStop` and
`OpenBreakerHolds`. The limits are not inductive alone, for the breaker is read once
per cycle and may open, close or be reset while the cycle runs. `CycleInv` counts
against the cycle's list: `FailuresCounted` says the failures so far and the positions
still listed stay under the limit plus the positions, and `SendsCounted` the same of
the requests sent past an open breaker. `Effect` lists what a step can do to the cycle
and the breaker, and each case is proved from that. `StageRepeatsHaveCause` counts a
stage's requests, executed or on their way, against an `Allowance`: the lost and
unclear answers, one once the stage is recorded or while the running cycle has it to
record, and one for the cycle that first saw the position and executed it. `SentOnce`
(a key is on the wire or executed, not both, and in the journal) keeps a retry from
counting twice. `ImplementsRequests` rests on `SentOnce` and on `KeyInv`: the cycle's
key is one of its own making, and while its answer is awaited the journal holds it as
SUBMITTED.

`VirtualPaperProofs`, from `ConstantsAssumption`, for any orders, prices, rates,
capital and queue: `TypeCorrect`, `OrdersDecidedOnce`, `NoPriceIsLost`,
`BooksAlwaysBalance`. `IInv` numbers the orders as they are placed (`Numbered`),
says of each what its status and its request allow (`Decided`), and of the open
session that it has decided once what is no longer left and has touched nothing
else (`InSession`); without the last, `Commit` could bring back a portfolio in which
an order was decided twice. `Balanced` asks the balance of the stored portfolio and of
the uncommitted one. It is stated of arbitrary kinds and portfolios (`BalancesOf`), since
a placement and its immediate fill change both in one step.

`SumTheorems` proves of `SumFunctionOnSet` what those two use: its type, that equal
functions have equal sums, and what removing, adding or changing one element does.
The fold picks elements by CHOOSE, so even "adding x adds f[x]" needs an induction.
The library's induction theorems take an operator as a parameter; the proofs take a
smallest counterexample among the subsets instead (`SmallestSet`).

Only model-checked:

- liveness (`OutageRecovers`, `CyclesEnd`, `ReachedIsDecided`), which is out of
  the prover's reach along with ENABLED;
- the three disagreements, which are counterexamples.

## What is left

1. The IBKR session and its idempotency file; the scheduler lease of the AI
   scheduler, which repeats the one of `Mt5Desk` with a database row.
2. Smaller machines: the aggregator's lease, the provider breaker, AI budgets.
   A backtest job has one writer and a status; the research agent moves no order.
3. Proofs: every safety property of the passing runs is a theorem, under the
   hypotheses above. What several handlers of `TradingStore` still guarantee
   beyond `TruncationsComplete` is neither stated nor proved.

## Not modelled

The numerical code (research, indicators, screening, forex: most of the
repository's lines), since it keeps no state to explore and computes in floating
point; the user interfaces and the schema; alerts, which are not surveyed beyond
their entry points. `PROJECT.json` gives the reason for each component.
