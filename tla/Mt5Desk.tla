------------------------------ MODULE Mt5Desk ------------------------------
(***************************************************************************)
(* MT5AutonomousTradingService over the execution manager: the processes   *)
(* that may run its scheduler, the lease that is to leave one of them      *)
(* running, and the stored state with the emergency flag and the candles   *)
(* already traded.  Entries are the schedulers, one per process; a process *)
(* holds the lease under its host and number, or all of them under the one *)
(* name MT5_SCHEDULER_OWNER gives.  Whoever changes the stored state, a    *)
(* cycle's record, an accepted order, a stop or an emergency route, reads  *)
(* it whole and writes it back in another transaction, and a start or a    *)
(* stop does so with the lease: nothing of the same process comes between, *)
(* but another process may.  Time is the number of completed five-minute   *)
(* candles.                                                                *)
(***************************************************************************)
EXTENDS PortfolioExecution

CONSTANTS
  NoOwner, Gone,    \* nobody holds the lease; a process that ended holds it
  Common,           \* the name MT5_SCHEDULER_OWNER gives to all processes
  LeaseCandles,     \* candles after which the lease is stale (20 minutes)
  MaxCandles,       \* bound on time
  OverlapCandles,   \* bound on overlaps: the candles they may begin and last in
  SwitchCandles     \* bound on the emergency routes: the candles they are used in

\* The adaptive manager, the other caller, has keys of its own and no part in this.
ASSUME DeskAssumption ==
  /\ Callers = Entries
  /\ {NoOwner, Gone, Common} \cap Entries = {}
  /\ NoOwner # Gone /\ NoOwner # Common /\ Gone # Common
  /\ LeaseCandles \in Nat /\ MaxCandles \in Nat \ {0}

VARIABLES
  common,     \* MT5_SCHEDULER_OWNER is set
  loop,       \* process -> its scheduler's stage
  wake,       \* process -> the candle whose completion wakes it
  looking,    \* process -> the candle its cycle is about
  lease,      \* ai_trading_state: owner and candle of its last heartbeat
  store,      \* ai_trading_state: emergency flag and processed candles
  pending,    \* process -> the store it is about to write back, and for whom
  candle,
  made,       \* entry key -> the candle it was made for
  inFlight,   \* schedulers in a cycle when the emergency flag was last raised
  excused     \* a start took the lease of a live scheduler, or raced one

desk == <<common, loop, wake, looking, lease, store, pending, candle, made,
          inFlight, excused>>
deskVars == <<vars, desk>>
history == <<common, made, inFlight, excused>>

Name(p) == IF common THEN Common ELSE p

NoLease == [owner |-> NoOwner, beat |-> 0]
NoWrite == [by |-> "none"]
Candles == 1..MaxCandles
Stores == [stopped : BOOLEAN, done : SUBSET Candles]
Stages == {"off", "refused", "taking", "due", "asleep", "cycle", "counting", "leaving", "left"}
Running == {"due", "asleep", "cycle", "counting"}
Free(p) == pending[p] = NoWrite
Live(p) == loop[p] \in Running

\* At an await, where its routes and a cancellation have their turn.
Listening(p) == loop[p] \in {"asleep", "cycle"} /\ Free(p)
Serving(p) == Listening(p) \/ (loop[p] = "refused" /\ Free(p))

DeskInit ==
  /\ Init
  /\ common \in BOOLEAN
  /\ loop = [p \in Entries |-> "off"]
  /\ wake = [p \in Entries |-> 0]
  /\ looking = [p \in Entries |-> 0]
  /\ lease = NoLease
  /\ store = [stopped |-> FALSE, done |-> {}]
  /\ pending = [p \in Entries |-> NoWrite]
  /\ candle = 1
  /\ made = [k \in Keys |-> 0]
  /\ inFlight = {} /\ excused = FALSE

-----------------------------------------------------------------------------
(* The lease.                                                              *)

\* Variant of Fresh: the lease runs out a candle early.
FreshShort == lease.owner # NoOwner /\ candle - lease.beat < LeaseCandles - 1

Fresh == lease.owner # NoOwner /\ candle - lease.beat < LeaseCandles

Set(p, stage) == loop' = [loop EXCEPT ![p] = stage]

Stale == lease.owner # NoOwner /\ candle - lease.beat >= LeaseCandles
Others(p, stages) == \E q \in Entries \ {p} : loop[q] \in stages

\* A start takes the lease of a scheduler that runs or is about to.
Overlaps(p) ==
  \/ (Stale \/ lease.owner = Name(p)) /\ Others(p, Running \cup {"leaving"})
  \/ Others(p, {"taking"})

\* _acquire_lock reads the lease.  One that is fresh is refused, and the start not
\* tried again, unless it has the caller's own name, whoever wrote it.
Start(p) ==
  /\ loop[p] = "off" /\ Free(p)
  /\ Overlaps(p) => candle \in OverlapCandles
  /\ Set(p, IF ~Fresh THEN "taking" ELSE IF lease.owner = Name(p) THEN "due" ELSE "refused")
  /\ excused' = (excused \/ Overlaps(p))
  /\ UNCHANGED <<vars, common, wake, looking, lease, store, pending, candle, made, inFlight>>

\* ... and writes it, whatever it has become.
TakeLease(p) ==
  /\ loop[p] = "taking"
  /\ lease' = [owner |-> Name(p), beat |-> candle]
  /\ Set(p, "due")
  /\ UNCHANGED <<vars, wake, looking, store, pending, candle, history>>

\* Variant of NextRun: the next run is for the candle just looked at.
NextRunNow == candle

NextRun == candle + 1

\* The loop writes its heartbeat over whoever holds the lease, then sleeps.
Heartbeat(p) ==
  /\ loop[p] = "due" /\ Free(p)
  /\ lease' = [owner |-> Name(p), beat |-> candle]
  /\ Set(p, "asleep")
  /\ wake' = [wake EXCEPT ![p] = NextRun]
  /\ UNCHANGED <<vars, looking, store, pending, candle, history>>

-----------------------------------------------------------------------------
(* The cycle, over the steps of the execution manager.                     *)

\* Variant of MayStart: the flag is not read.
MayStartStopped == candle \notin store.done

MayStart == candle \notin store.done /\ ~store.stopped

Awake(p) == loop[p] = "asleep" /\ Free(p) /\ candle >= wake[p]

\* Variant of Recorded: the flag is the one loaded when the cycle began.
RecordedLoaded(mark, c) ==
  [stopped |-> FALSE, done |-> IF mark THEN store.done \cup {c} ELSE store.done]

Recorded(mark, c) ==
  [store EXCEPT !.done = IF mark THEN @ \cup {c} ELSE @]

\* The store is read, to be written back changed.
Load(p, who, new) ==
  /\ Free(p)
  /\ pending' = [pending EXCEPT ![p] = [by |-> who, flag |-> store.stopped, to |-> new]]

\* _record_cycle, which marks the candle except when the cycle was blocked.
Record(p, mark, c) ==
  /\ Load(p, "cycle", Recorded(mark, c))
  /\ Set(p, "due")
  /\ wake' = [wake EXCEPT ![p] = 0]
  /\ looking' = [looking EXCEPT ![p] = 0]
  /\ UNCHANGED <<lease, store, candle, history>>

BeginCycle(p) ==
  /\ Awake(p) /\ MayStart
  /\ StartCycle(p)
  /\ Set(p, "cycle")
  /\ wake' = [wake EXCEPT ![p] = 0]
  /\ looking' = [looking EXCEPT ![p] = candle]
  /\ UNCHANGED <<lease, store, pending, candle, history>>

\* The candle is done already, or the flag, the positions, the account or the
\* terminal block the cycle.
SkipCycle(p) ==
  /\ Awake(p)
  /\ Record(p, candle \in store.done, candle)
  /\ UNCHANGED vars

InCycle(p) == loop[p] = "cycle" /\ Free(p)

\* No candidate, a blocker, no budget, or the AI's refusal.
DropCycle(p) ==
  /\ InCycle(p) /\ EndCycle(p)
  /\ \E mark \in BOOLEAN : Record(p, mark, looking[p])

Submit(p, k) ==
  /\ InCycle(p) /\ BeginNew(p, k)
  /\ made' = [made EXCEPT ![k] = looking[p]]
  /\ UNCHANGED <<common, loop, wake, looking, lease, store, pending, candle,
                 inFlight, excused>>

Send(p) ==
  /\ InCycle(p) /\ OrderSend(p)
  /\ UNCHANGED desk

\* The order is refused or fails its preflight, or its answer is no success.
Conclude(p) ==
  /\ InCycle(p)
  /\ \/ \E k \in Keys : BeginRefused(p, k)
     \/ PreflightFails(p)
     \/ StateFromRetcode(call[p].answer) = "REJECTED" /\ StoreAnswer(p)
  /\ Record(p, TRUE, looking[p])

\* An accepted order is first counted in the store, which is read and written for it.
Count(p) ==
  /\ InCycle(p)
  /\ StateFromRetcode(call[p].answer) # "REJECTED" /\ StoreAnswer(p)
  /\ Load(p, "count", store)
  /\ Set(p, "counting")
  /\ UNCHANGED <<wake, looking, lease, store, candle, history>>

RecordCounted(p) ==
  /\ loop[p] = "counting"
  /\ Record(p, TRUE, looking[p])
  /\ UNCHANGED vars

\* An exception, of which the loop only keeps a note.
FailCycle(p) ==
  /\ InCycle(p)
  /\ EndCycle(p) \/ TerminalNotReady(p) \/ AnswerLost(p)
  /\ Set(p, "due")
  /\ looking' = [looking EXCEPT ![p] = 0]
  /\ UNCHANGED <<wake, lease, store, pending, candle, history>>

-----------------------------------------------------------------------------
(* The store and the emergency routes.                                     *)

Raise(new) ==
  inFlight' = IF ~store.stopped /\ new.stopped
              THEN {q \in Entries : loop[q] = "cycle"} ELSE inFlight

Write(p) ==
  /\ ~Free(p)
  /\ store' = pending[p].to
  /\ pending' = [pending EXCEPT ![p] = NoWrite]
  /\ Raise(pending[p].to)
  /\ UNCHANGED <<vars, common, loop, wake, looking, lease, candle, made, excused>>

Disable(p) ==
  /\ Serving(p) /\ candle \in SwitchCandles
  /\ Load(p, "disable", [store EXCEPT !.stopped = TRUE])
  /\ UNCHANGED <<vars, loop, wake, looking, lease, store, candle, history>>

\* emergency_enable awaits the other blockers, then reads the store and lowers the
\* flag, even if it was raised again since.
Enable(p) ==
  /\ Serving(p) /\ candle \in SwitchCandles
  /\ Load(p, "enable", [store EXCEPT !.stopped = FALSE])
  /\ UNCHANGED <<vars, loop, wake, looking, lease, store, candle, history>>

-----------------------------------------------------------------------------
(* The end of a process, time, the terminal and the portfolio's refresh.   *)

\* The call under way is abandoned where it is.
Abandon(p) ==
  IF At(p, "idle") THEN UNCHANGED vars
  ELSE EndCycle(p) \/ TerminalNotReady(p) \/ AnswerLost(p)

Leave(p, stage) ==
  /\ Abandon(p)
  /\ Set(p, stage)
  /\ looking' = [looking EXCEPT ![p] = 0]
  /\ wake' = [wake EXCEPT ![p] = 0]
  /\ UNCHANGED <<store, candle, history>>

\* stop cancels the task and reads the lease: is it under this process's name?
Stop(p) ==
  /\ Listening(p)
  /\ Leave(p, IF lease.owner = Name(p) THEN "leaving" ELSE "left")
  /\ UNCHANGED <<lease, pending>>

\* If so it is given up, whatever it has become.
Release(p) ==
  /\ loop[p] = "leaving"
  /\ lease' = NoLease
  /\ Set(p, "left")
  /\ UNCHANGED <<vars, wake, looking, store, pending, candle, history>>

\* At last the cycles and decisions are written into the store, as it is read now.
Persist(p) ==
  /\ loop[p] = "left"
  /\ Load(p, "stop", store)
  /\ Set(p, "off")
  /\ UNCHANGED <<vars, wake, looking, lease, store, candle, history>>

\* The lease of a process that ends is left to time, but a configured name, or the
\* number of a process in a restarted container, may come back.
Orphaned(ps) ==
  \/ UNCHANGED lease
  \/ lease.owner \in ps /\ lease' = [lease EXCEPT !.owner = Gone]

Crash(p) ==
  /\ loop[p] # "off" \/ ~Free(p)
  /\ Leave(p, "off")
  /\ Orphaned({p})
  /\ pending' = [pending EXCEPT ![p] = NoWrite]

\* The machine goes down with every process on it.
Reboot ==
  /\ Restart
  /\ loop' = [p \in Entries |-> "off"]
  /\ wake' = [p \in Entries |-> 0] /\ looking' = [p \in Entries |-> 0]
  /\ Orphaned(Entries)
  /\ pending' = [p \in Entries |-> NoWrite]
  /\ UNCHANGED <<store, candle, history>>

CandleCloses ==
  /\ candle < MaxCandles /\ (excused => candle + 1 \in OverlapCandles)
  /\ candle' = candle + 1
  /\ UNCHANGED <<vars, loop, wake, looking, lease, store, pending, history>>

Elsewhere ==
  /\ \/ \E r \in wire : Execute(r) \/ TurnDown(r) \/ AnswerEarly(r)
     \/ \E k \in open : ClosePosition(k)
     \/ Refresh
  /\ UNCHANGED desk

DeskNext ==
  \/ \E p \in Entries :
       \/ Start(p) \/ TakeLease(p) \/ Heartbeat(p)
       \/ BeginCycle(p) \/ SkipCycle(p) \/ DropCycle(p)
       \/ \E k \in Keys : Submit(p, k)
       \/ Send(p) \/ Conclude(p) \/ Count(p) \/ RecordCounted(p) \/ FailCycle(p)
       \/ Write(p) \/ Disable(p) \/ Enable(p)
       \/ Stop(p) \/ Release(p) \/ Persist(p) \/ Crash(p)
  \/ Reboot
  \/ CandleCloses
  \/ Elsewhere

DeskSpec == DeskInit /\ [][DeskNext]_deskVars

-----------------------------------------------------------------------------
(* Properties.                                                             *)

\* Types: the schedulers' stages, the lease, the store and what is pending.
DeskTypeOK ==
  /\ common \in BOOLEAN
  /\ loop \in [Entries -> Stages]
  /\ wake \in [Entries -> 0..(MaxCandles + 1)]
  /\ looking \in [Entries -> 0..MaxCandles]
  /\ lease \in [owner : Entries \cup {NoOwner, Gone, Common}, beat : 0..MaxCandles]
  /\ store \in Stores
  /\ pending \in [Entries -> {NoWrite} \cup
       [by : {"cycle", "count", "stop", "disable", "enable"}, flag : BOOLEAN, to : Stores]]
  /\ candle \in Candles
  /\ made \in [Keys -> 0..MaxCandles]
  /\ inFlight \subseteq Entries
  /\ excused \in BOOLEAN

\* Two schedulers run at once only if one started over the other's lease, because
\* a long cycle had left it stale or because both have the configured name, or if
\* both started between the reading of the lease and its writing.
OneScheduler ==
  \A p, q \in Entries : p # q /\ Live(p) /\ Live(q) => excused

\* A candle gets one entry order at most while one scheduler runs, through
\* crashes, lost answers, restarts that take the lease back at once and hand-overs
\* between processes: a loop never wakes for the candle it started in, and one that
\* is recorded late or not at all is not looked at again.
OneEntryPerCandle ==
  \A k, l \in Keys :
    k # l /\ sends[k] > 0 /\ sends[l] > 0 /\ made[k] = made[l] /\ made[k] # 0 =>
      excused

\* After the emergency stop is stored, the only entries still sent are those of
\* the cycles that had begun: the flag is read once, before the screening and
\* the AI's answer.
StopHolds ==
  [][\A p \in Entries : At(p, "preflight") /\ At(p, "sending")' /\ store.stopped =>
       p \in inFlight]_deskVars

\* The emergency flag is lowered only by emergency_enable, or by one of the other
\* writers of the whole store (a cycle's record, the count of an accepted order, a
\* stop, emergency_disable itself) that read it before another process raised it:
\* none of them writes back a flag older than its own reading.
StopIsKept ==
  [][store.stopped /\ ~store'.stopped =>
       \E p \in Entries : /\ ~Free(p) /\ Free(p)'
                          /\ pending[p].by = "enable" \/ ~pending[p].flag]_deskVars

\* The orders stored from an answer that did not tell whether they were executed.
Untold == {k \in Keys : told[k] \in Early}

\* While one scheduler runs, the open positions exceed the configured maximum by
\* no more than the orders whose answer was lost or did not tell their fate,
\* although a cycle counts the positions long before its order is executed.
PositionsBounded ==
  Cardinality(open) > MaxOpen + lost + Cardinality(Untold) => excused

=============================================================================
