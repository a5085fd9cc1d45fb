----------------------------- MODULE AutoPaper -----------------------------
(***************************************************************************)
(* AIAutoPaperTradingService: the scheduler that asks a provider for a     *)
(* decision, places a market entry at IBKR and then its stop and target.   *)
(* run_cycle holds a lock, so one cycle is under way at a time.  Screening *)
(* and the provider's answer are awaited and let the emergency routes in;  *)
(* from the submission check to the protective orders every call blocks    *)
(* the event loop, so only the broker moves and only a crash intervenes.   *)
(* A decision stands for the candidate it was made on and its entry order; *)
(* decisions are numbered as their entries are placed.                     *)
(***************************************************************************)
EXTENDS Naturals, FiniteSets

CONSTANTS
  MaxEntries,     \* bound on the entries placed
  Symbols,
  SymbolOf,       \* decision -> its symbol
  Size,           \* lots of an entry, which may fill one by one
  DailyCap,       \* config.daily_acceptance_max_entries
  MaxTrades,      \* config.max_trades_per_day
  MaxPerSymbol,   \* config.max_trades_per_symbol_per_day
  MaxPositions,   \* config.max_open_positions
  MaxOrders,      \* config.max_open_orders
  MaxRestarts, MaxDays   \* bounds of the instance

Decisions == 1..MaxEntries
NoDecision == 0

ASSUME ConstantsAssumption ==
  /\ MaxEntries \in Nat /\ IsFiniteSet(Symbols)
  /\ SymbolOf \in [Decisions -> Symbols]
  /\ {Size, DailyCap, MaxTrades, MaxPerSymbol, MaxPositions, MaxOrders} \subseteq Nat \ {0}
  /\ {MaxRestarts, MaxDays} \subseteq Nat

VARIABLES
  multi,        \* config.multi_trade_validation_mode; else one entry ever
  phase,        \* how far the cycle is
  current,      \* the decision it works on
  receipt,      \* lots its receipt reported as filled
  emergency, unresolved, traded, cooling,     \* state lost with the process
  marked, entryUsed,                          \* state in the database
  order,        \* decision -> its entry order at the broker
  filled,       \* decision -> lots of its open position
  covered,      \* decision -> lots its stop and target close
  today,        \* entries placed this trading day
  late,         \* entries with lots the receipt did not report
  forgotten,    \* the process ended before the protection or after it failed
  uncounted,    \* ... or before the entry was counted
  adrift,       \* entries placed without an acknowledgement
  failed,       \* protection refused, in this process
  unheard,      \* protective orders reported submitted that never arrived
  lapsed,       \* protective orders, good for the day, that ended with it
  restarts, days

cycle == <<phase, current, receipt>>
memory == <<emergency, unresolved, traded, cooling>>
stored == <<marked, entryUsed>>
broker == <<order, filled, covered>>
history == <<today, late, forgotten, uncounted, adrift, failed, unheard, lapsed>>
vars == <<multi, cycle, memory, stored, broker, history, restarts, days>>

Init ==
  /\ multi \in BOOLEAN
  /\ phase = "sleeping" /\ current = NoDecision /\ receipt = 0
  /\ emergency = FALSE /\ unresolved = FALSE /\ traded = {} /\ cooling = FALSE
  /\ marked = {} /\ entryUsed = FALSE
  /\ order = [d \in Decisions |-> "none"]
  /\ filled = [d \in Decisions |-> 0]
  /\ covered = [d \in Decisions |-> 0]
  /\ today = {} /\ late = {} /\ forgotten = {} /\ uncounted = {} /\ adrift = {}
  /\ failed = {} /\ unheard = {} /\ lapsed = {}
  /\ restarts = 0 /\ days = 0

-----------------------------------------------------------------------------
(* What the broker shows and what blocks an entry.                         *)

IsOpen(d) == filled[d] > 0
Protected(d) == IsOpen(d) /\ covered[d] > 0
OpenSymbols == {SymbolOf[d] : d \in {e \in Decisions : IsOpen(e)}}
Working == {d \in Decisions : order[d] = "working"}
Of(S, symbol) == {d \in S : SymbolOf[d] = symbol}

\* An entry that works at the broker is an open order, and so are the stop and
\* the target of each protected position.
OpenOrders == Cardinality(Working) + 2 * Cardinality({d \in Decisions : Protected(d)})

\* Variant of Capacity: open orders are not counted.
CapacityOfPositions == Cardinality(OpenSymbols) < MaxPositions

Capacity ==
  /\ Cardinality(OpenSymbols) < MaxPositions
  /\ OpenOrders < MaxOrders

EntriesUsed == IF multi THEN Cardinality(marked) >= DailyCap ELSE entryUsed

DailyBlockers == multi /\ (EntriesUsed \/ cooling)

\* _global_blockers, but for the broker's readiness and the losses, which may
\* end a cycle at any of its checks.
Blocked(ignoreEmergency) ==
  \/ emergency /\ ~ignoreEmergency
  \/ unresolved
  \/ DailyBlockers
  \/ ~Capacity

\* trades_today is never set back: it counts since the process started.
TradesLeft == Cardinality(traded) < MaxTrades

SymbolEntriesLeft(d) ==
  /\ Cardinality(Of(marked, SymbolOf[d])) < MaxPerSymbol
  /\ Cardinality(Of(traded, SymbolOf[d])) < MaxPerSymbol

-----------------------------------------------------------------------------
(* The cycle.                                                              *)

Sleep == phase' = "sleeping" /\ current' = NoDecision /\ receipt' = 0
Reach(stage) == phase' = stage /\ UNCHANGED <<current, receipt>>
Outside == UNCHANGED <<multi, restarts, days>>

StartCycle ==
  /\ phase = "sleeping"
  /\ ~Blocked(FALSE)
  /\ Reach("screening")
  /\ UNCHANGED <<memory, stored, broker, history>> /\ Outside

Placed == {d \in Decisions : order[d] # "none"}

\* A candidate without local reasons is picked and the provider is asked.
Screen(d) ==
  /\ phase = "screening"
  /\ d = Cardinality(Placed) + 1
  /\ Capacity /\ ~cooling /\ TradesLeft
  /\ ~EntriesUsed /\ SymbolEntriesLeft(d)
  /\ phase' = "analyzing" /\ current' = d /\ UNCHANGED receipt
  /\ UNCHANGED <<memory, stored, broker, history>> /\ Outside

\* Variant of EndCycle: a provider that gives no decision keeps the lock taken.
EndCycleDecided ==
  /\ phase = "screening"
  /\ Sleep
  /\ UNCHANGED <<memory, stored, broker, history>> /\ Outside

\* No candidate, a repeated candle, a spent budget, no decision to trade, a
\* blocker, no funds, or an exception: the cycle ends without an order.
EndCycle ==
  /\ phase \in {"screening", "analyzing"}
  /\ Sleep
  /\ UNCHANGED <<memory, stored, broker, history>> /\ Outside

\* Variant of MaySubmit: what was checked before the awaits is not checked again.
MaySubmitUnchecked == ~EntriesUsed

\* _submission_blockers reads everything again after the provider's answer, and
\* _guarded_submit the count of entries.
MaySubmit ==
  /\ ~Blocked(FALSE)
  /\ ~EntriesUsed
  /\ multi => SymbolEntriesLeft(current)
  /\ ~(traded # {} /\ MaxTrades = 1)

\* The intent is stored, the funds are checked, and placeOrder sends the entry.
Place ==
  /\ phase = "analyzing"
  /\ MaySubmit
  /\ order' = [order EXCEPT ![current] = "sent"]
  /\ today' = today \cup {current}
  /\ Reach("sent")
  /\ UNCHANGED <<memory, stored, filled, covered>>
  /\ UNCHANGED <<late, forgotten, uncounted, adrift, failed, unheard, lapsed>> /\ Outside

\* Variant of Mark: only a filled entry is counted.
MarkFilled ==
  IF multi
  THEN /\ marked' = marked \cup (IF receipt' > 0 THEN {current} ELSE {})
       /\ UNCHANGED entryUsed
  ELSE entryUsed' = (entryUsed \/ receipt' > 0) /\ UNCHANGED marked

\* _mark_acceptance_entry_used: the entry is counted in the database.
Mark ==
  IF multi
  THEN marked' = marked \cup {current} /\ UNCHANGED entryUsed
  ELSE entryUsed' = TRUE /\ UNCHANGED marked

\* _filled_quantity of the receipt.
Reported(lots) == lots

Receipt ==
  \E lots \in 0..filled[current] :
    /\ receipt' = Reported(lots)
    /\ late' = late \cup IF lots < filled[current] THEN {current} ELSE {}
    /\ phase' = "marked" /\ UNCHANGED current

\* The acknowledgement came, and within five seconds some of the executions.
Acknowledged ==
  /\ phase = "sent"
  /\ order[current] # "sent"
  /\ Receipt
  /\ Mark
  /\ UNCHANGED <<memory, broker>>
  /\ UNCHANGED <<today, forgotten, uncounted, adrift, failed, unheard, lapsed>> /\ Outside

\* No acknowledgement in time: SUBMISSION_UNKNOWN, which blocks nothing.
NotAcknowledged ==
  /\ phase = "sent"
  /\ adrift' = adrift \cup {current}
  /\ Receipt
  /\ Mark
  /\ UNCHANGED <<memory, broker>>
  /\ UNCHANGED <<today, forgotten, uncounted, failed, unheard, lapsed>> /\ Outside

\* The trade is counted in memory, the cooldown starts, the cycle ends.
Conclude ==
  /\ traded' = traded \cup {current}
  /\ cooling' = TRUE
  /\ Sleep
  /\ UNCHANGED <<stored, order, filled>>
  /\ UNCHANGED <<today, late, forgotten, uncounted, adrift, lapsed>> /\ Outside

\* PENDING_ON_FILL: nothing comes back to this entry later.
PendingOnFill ==
  /\ phase = "marked"
  /\ receipt = 0
  /\ Conclude
  /\ UNCHANGED <<emergency, unresolved, covered, failed, unheard>>

\* Variant of Cover: the ordered size is protected, not the filled one.
CoverOrdered(d) == Size

Cover(d) == receipt

\* The stop and the target of an acknowledged entry are placed, if the broker
\* gets them: a missing acknowledgement of theirs is not an error.
Protect ==
  /\ phase = "marked"
  /\ receipt > 0 /\ current \notin adrift
  /\ \/ /\ covered' = [covered EXCEPT ![current] = Cover(current)]
        /\ UNCHANGED unheard
     \/ unheard' = unheard \cup {current} /\ UNCHANGED covered
  /\ Conclude
  /\ UNCHANGED <<emergency, unresolved, failed>>

\* Variant of ProtectFails: the failure is only logged.
ProtectFailsQuietly ==
  /\ phase = "marked"
  /\ receipt > 0
  /\ \E lots \in {0, receipt} : covered' = [covered EXCEPT ![current] = lots]
  /\ failed' = failed \cup {current}
  /\ Conclude
  /\ UNCHANGED <<emergency, unresolved, unheard>>

\* Protection is refused or raises, perhaps after the stop was placed.
ProtectFails ==
  /\ phase = "marked"
  /\ receipt > 0
  /\ \E lots \in {0, receipt} : covered' = [covered EXCEPT ![current] = lots]
  /\ emergency' = TRUE /\ unresolved' = TRUE
  /\ failed' = failed \cup {current}
  /\ Conclude
  /\ UNCHANGED unheard

-----------------------------------------------------------------------------
(* The routes, the clock and the process.                                  *)

Awaiting == phase \in {"sleeping", "screening", "analyzing"}

EmergencyDisable ==
  /\ Awaiting
  /\ emergency' = TRUE
  /\ UNCHANGED <<cycle, unresolved, traded, cooling, stored, broker, history>> /\ Outside

EmergencyEnable ==
  /\ Awaiting
  /\ emergency /\ ~Blocked(TRUE)
  /\ emergency' = FALSE
  /\ UNCHANGED <<cycle, unresolved, traded, cooling, stored, broker, history>> /\ Outside

CooldownEnds ==
  /\ cooling
  /\ cooling' = FALSE
  /\ UNCHANGED <<cycle, emergency, unresolved, traded, stored, broker, history>> /\ Outside

\* _ensure_daily_state: the counts of the day start again.
NewDay ==
  /\ days < MaxDays
  /\ days' = days + 1
  /\ marked' = {} /\ today' = {}
  /\ UNCHANGED <<multi, cycle, memory, entryUsed, broker, restarts>>
  /\ UNCHANGED <<late, forgotten, uncounted, adrift, failed, unheard, lapsed>>

\* The process ends anywhere and starts again: the flags are gone.
Restart ==
  /\ restarts < MaxRestarts
  /\ restarts' = restarts + 1
  /\ emergency' = FALSE /\ unresolved' = FALSE /\ traded' = {} /\ cooling' = FALSE
  /\ failed' = {}
  /\ Sleep
  /\ forgotten' = forgotten \cup failed \cup
       IF phase \in {"sent", "marked"} THEN {current} ELSE {}
  /\ uncounted' = uncounted \cup IF phase = "sent" THEN {current} ELSE {}
  /\ adrift' = adrift \cup IF phase = "sent" THEN {current} ELSE {}
  /\ UNCHANGED <<multi, stored, broker, today, late, unheard, lapsed, days>>

-----------------------------------------------------------------------------
(* The broker.                                                             *)

BrokerOnly == UNCHANGED <<cycle, memory, stored>> /\ Outside
Unnoticed == UNCHANGED <<today, forgotten, uncounted, adrift, failed, unheard, lapsed>>

Arrive(d) ==
  /\ order[d] = "sent"
  /\ order' = [order EXCEPT ![d] = "working"]
  /\ UNCHANGED <<filled, covered, late>> /\ Unnoticed /\ BrokerOnly

Fill(d) ==
  /\ order[d] = "working"
  /\ filled' = [filled EXCEPT ![d] = @ + 1]
  /\ order' = [order EXCEPT ![d] = IF filled[d] + 1 = Size THEN "done" ELSE @]
  /\ late' = late \cup IF current = d /\ phase = "sent" THEN {} ELSE {d}
  /\ UNCHANGED covered /\ Unnoticed /\ BrokerOnly

\* The order is rejected, cancelled at the end of the day, or lost on its way.
Die(d) ==
  /\ order[d] \in {"sent", "working"}
  /\ order' = [order EXCEPT ![d] = "done"]
  /\ UNCHANGED <<filled, covered, late>> /\ Unnoticed /\ BrokerOnly

\* A stop or a target executes, which cancels the other, or the user flattens
\* the position and its exits; neither happens in the seconds a market entry
\* works and is being protected.
Close(d) ==
  /\ IsOpen(d) /\ order[d] = "done"
  /\ ~(current = d /\ phase \in {"sent", "marked"})
  /\ \E lots \in {covered[d], filled[d]} \ {0} : filled' = [filled EXCEPT ![d] = @ - lots]
  /\ covered' = [covered EXCEPT ![d] = 0]
  /\ UNCHANGED <<order, late>> /\ Unnoticed /\ BrokerOnly

\* The session ends: the stop and the target, good for the day, lapse at the
\* broker while the position stays open.
Lapse(d) ==
  /\ covered[d] > 0
  /\ covered' = [covered EXCEPT ![d] = 0]
  /\ lapsed' = lapsed \cup {d}
  /\ UNCHANGED <<order, filled>>
  /\ UNCHANGED <<today, late, forgotten, uncounted, adrift, failed, unheard>> /\ BrokerOnly

CycleStep ==
  \/ \E d \in Decisions : Screen(d)
  \/ EndCycle \/ Place \/ Acknowledged \/ NotAcknowledged
  \/ PendingOnFill \/ Protect \/ ProtectFails

Next ==
  \/ StartCycle \/ CycleStep
  \/ EmergencyDisable \/ EmergencyEnable \/ CooldownEnds \/ NewDay \/ Restart
  \/ \E d \in Decisions : Arrive(d) \/ Fill(d) \/ Die(d) \/ Close(d) \/ Lapse(d)

Spec == Init /\ [][Next]_vars /\ WF_vars(CycleStep)

-----------------------------------------------------------------------------
(* Properties.                                                             *)

Handling(d) == current = d /\ phase \in {"sent", "marked"}

\* Types: the cycle's stage, the sets of decisions and the broker's lots.
TypeOK ==
  /\ {multi, emergency, unresolved, cooling, entryUsed} \subseteq BOOLEAN
  /\ phase \in {"sleeping", "screening", "analyzing", "sent", "marked"}
  /\ current \in Decisions \cup {NoDecision}
  /\ {traded, marked, today, late, forgotten, uncounted, adrift, failed, unheard, lapsed}
       \subseteq SUBSET Decisions
  /\ order \in [Decisions -> {"none", "sent", "working", "done"}]
  /\ {filled, covered} \subseteq [Decisions -> 0..Size]
  /\ receipt \in 0..Size
  /\ restarts \in 0..MaxRestarts /\ days \in 0..MaxDays

\* The entries of a trading day stay within the day's cap, and outside the
\* multi-trade mode there is one entry ever; only an entry whose process ended
\* before it was counted comes on top.  The count is kept in the database and
\* is read again after the provider's answer.
EntriesPerDay ==
  IF multi THEN Cardinality(today) <= DailyCap + Cardinality(uncounted)
  ELSE Cardinality(Placed) <= 1 + Cardinality(uncounted)

\* The stop and the target never close more than was bought, even when the
\* entry fills in parts: an exit can flatten a position, never reverse it.
CoverWithinFill == \A d \in Decisions : covered[d] <= filled[d]

\* A position without full protection has a cause: lots filled after the
\* receipt was read, the process ended first, the protective orders were lost
\* unacknowledged or lapsed at the end of the session, for which they are
\* placed, or they failed, and then this process is shut for entries.
UncoveredIsExplained ==
  \A d \in Decisions :
    ~Handling(d) /\ covered[d] < filled[d] =>
      \/ d \in late \cup forgotten \cup unheard \cup lapsed
      \/ d \in failed /\ emergency /\ unresolved

\* After the emergency stop, or a failure of protection, no entry is placed
\* until the stop is lifted or the process restarted, although the cycle read
\* its blockers before it awaited the candidates and the provider.
DisabledPlacesNothing ==
  [][emergency \/ unresolved => Placed' = Placed]_vars

\* Open positions and the entries that may still become one stay within what
\* the two limits leave together, but for the entries that were never
\* acknowledged: an entry that is not filled is no position yet, only an order.
ExposureBounded ==
  Cardinality(OpenSymbols) + Cardinality({d \in Working : filled[d] = 0}) <=
    MaxPositions + MaxOrders - 1 + Cardinality(adrift)

\* A cycle ends, whatever the provider and the broker answer, so its lock is
\* released and the next candle finds the scheduler asleep.
CyclesEnd == phase # "sleeping" ~> phase = "sleeping"

=============================================================================
