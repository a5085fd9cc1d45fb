--------------------------- MODULE AdaptiveManagement ---------------------------
(***************************************************************************)
(* The adaptive manager of open MT5 positions in its demo_active mode: the *)
(* monitor cycle, the circuit breaker, the activation, and the desk's      *)
(* requests that run between the cycle's awaits.  A cycle keeps the rows   *)
(* it writes in one database session, committed when every position has    *)
(* been looked at; the breaker's failures and the execution manager's      *)
(* journal are committed at once, in sessions of their own.                *)
(*                                                                         *)
(* How much a reduction takes is abstracted to its being one: a position   *)
(* can be reduced MaxCuts times before the requested volume falls below    *)
(* the broker's minimum.  The rules that choose an action are the choice   *)
(* of any kind; one exit stage stands for the three, which are alike.      *)
(***************************************************************************)
EXTENDS Naturals, FiniteSets

CONSTANTS
  Positions,
  Kinds,        \* "stage", "profit", "close", "stop"
  MaxCuts,
  Limit,        \* ADAPTIVE_BREAKER_FAILURE_LIMIT
  MaxMinute,    \* bound on the clock
  MaxLost,      \* bound on answers lost, unclear or early and on cycles that do not end
  MaxAsked      \* bound on the desk's requests and on outages

ASSUME ConstantsAssumption ==
  /\ IsFiniteSet(Positions)
  /\ Kinds \subseteq {"stage", "profit", "close", "stop"}
  /\ MaxCuts \in Nat /\ Limit \in 1..10
  /\ MaxMinute \in Nat /\ MaxLost \in Nat /\ MaxAsked \in Nat

\* _idempotency_key: what is asked of which position at which volume, and the
\* minute it is asked in.
ActionKey == [pos : Positions, kind : Kinds, cuts : 0..MaxCuts, minute : 0..MaxMinute]

VARIABLES
  position,   \* "none", "open" or "closed" at the terminal
  cuts,       \* how often a position was reduced
  wire,       \* requests on their way to the terminal
  executed,   \* requests the terminal executed
  journal,    \* the execution manager's orders: key -> state
  acts,       \* results of committed actions: key -> status
  staged,     \* positions whose exit stage is recorded as executed
  known,      \* positions with a committed state row
  active,     \* an activation is active
  adopted,    \* positions adopted by hand
  managed,    \* positions opened since the activation
  breaker,    \* the stored circuit breaker
  cycle,      \* the running cycle and what it read
  draft,      \* the actions in its session
  minute, up, lost, asked,
  sentOpen,   \* requests sent since the breaker opened
  placed,     \* keys stored as accepted on the answer that they were placed (history)
  unclear,    \* keys stored as rejected on an answer that told nothing (history)
  missed      \* positions whose executed stage a commit did not record (history)

vars == <<position, cuts, wire, executed, journal, acts, staged, known, active, adopted,
          managed, breaker, cycle, draft, minute, up, lost, asked, sentOpen,
          placed, unclear, missed>>
terminal == <<position, cuts, wire, executed>>
desk == <<active, adopted, managed>>
stored == <<acts, staged, known>>
world == <<minute, up, lost, asked>>
doubts == <<placed, unclear>>
history == <<placed, unclear, missed>>

Put(f, k, v) == [x \in DOMAIN f \cup {k} |-> IF x = k THEN v ELSE f[x]]
Nothing == [x \in {} |-> 0]
NoKey == [pos |-> "none"]

Closed == [open |-> FALSE, reason |-> "none", failed |-> 0]
Idle == [stage |-> "idle", todo |-> {}, on |-> FALSE, closed |-> FALSE,
         mine |-> {}, seen |-> Nothing, key |-> NoKey]

Init ==
  /\ position = [p \in Positions |-> "none"]
  /\ cuts = [p \in Positions |-> 0]
  /\ wire = {} /\ executed = {}
  /\ journal = Nothing /\ acts = Nothing /\ staged = {} /\ known = {}
  /\ active = FALSE /\ adopted = {} /\ managed = {}
  /\ breaker = Closed
  /\ cycle = Idle /\ draft = Nothing
  /\ minute = 0 /\ up = TRUE /\ lost = 0 /\ asked = 0 /\ sentOpen = 0
  /\ placed = {} /\ unclear = {} /\ missed = {}

-----------------------------------------------------------------------------
(* The activation and the breaker.                                         *)

\* activate_demo: a new activation manages positions opened from now on, and
\* closes the breaker.
ActivateDemo ==
  IF active THEN UNCHANGED <<desk, breaker, sentOpen>>
  ELSE /\ active' = TRUE
       /\ managed' = {}
       /\ breaker' = Closed /\ sentOpen' = 0
       /\ UNCHANGED adopted

\* One more of the desk's requests.
Ask == asked < MaxAsked /\ asked' = asked + 1 /\ UNCHANGED <<minute, up, lost>>

ActivateByHand ==
  /\ Ask
  /\ up
  /\ ~active
  /\ ActivateDemo
  /\ UNCHANGED <<terminal, journal, stored, cycle, draft, history>>

Deactivate ==
  /\ Ask
  /\ active
  /\ active' = FALSE
  /\ UNCHANGED <<terminal, journal, stored, adopted, managed, breaker, cycle,
                 draft, sentOpen, history>>

ResetBreaker ==
  /\ Ask
  /\ breaker' = Closed /\ sentOpen' = 0
  /\ UNCHANGED <<terminal, journal, stored, desk, cycle, draft, history>>

Adopt(p) ==
  /\ Ask
  /\ active
  /\ adopted' = adopted \cup {p}
  /\ UNCHANGED <<terminal, journal, stored, active, managed, breaker, cycle,
                 draft, sentOpen, history>>

\* Variant of CountFailure: the limit is compared with the old count.
CountFailureLate ==
  /\ breaker' = [open |-> breaker.open \/ breaker.failed >= Limit,
                 reason |-> "failure", failed |-> breaker.failed + 1]
  /\ UNCHANGED sentOpen

\* _record_action_failure
CountFailure ==
  /\ breaker' = [open |-> breaker.open \/ breaker.failed + 1 >= Limit,
                 reason |-> "failure", failed |-> breaker.failed + 1]
  /\ UNCHANGED sentOpen

\* Variant of Recovers: an open breaker stays open until it is reset.
RecoversNever == FALSE

\* _auto_recover_breaker
Recovers == breaker.open /\ breaker.reason = "outage"

-----------------------------------------------------------------------------
(* The monitor cycle.                                                      *)

StartCycle ==
  /\ cycle.stage = "idle"
  /\ cycle' = [Idle EXCEPT !.stage = IF active THEN "reading" ELSE "activating"]
  /\ UNCHANGED <<terminal, journal, stored, desk, breaker, draft, world, sentOpen, history>>

\* _ensure_env_activation: without an activation the cycle makes one itself.
EnsureActivation ==
  /\ cycle.stage = "activating"
  /\ cycle' = [cycle EXCEPT !.stage = "reading"]
  /\ IF up THEN ActivateDemo ELSE UNCHANGED <<desk, breaker, sentOpen>>
  /\ UNCHANGED <<terminal, journal, stored, draft, world, history>>

\* The terminal does not answer: the breaker opens, whatever state it was in.
ReadFails ==
  /\ cycle.stage = "reading"
  /\ ~up
  /\ breaker' = [breaker EXCEPT !.open = TRUE, !.reason = "outage"]
  /\ cycle' = Idle
  /\ UNCHANGED <<terminal, journal, stored, desk, draft, world, sentOpen, history>>

\* mt5_positions
Listed == {p \in Positions : position[p] = "open"}

\* The activation and the breaker are read once, for all positions.
ReadPositions ==
  /\ cycle.stage = "reading"
  /\ up
  /\ IF Recovers THEN breaker' = Closed /\ sentOpen' = 0
     ELSE UNCHANGED <<breaker, sentOpen>>
  /\ cycle' = [cycle EXCEPT
       !.stage = "managing", !.on = active, !.closed = ~breaker'.open, !.mine = managed,
       !.todo = Listed, !.seen = [p \in Listed |-> cuts[p]]]
  /\ UNCHANGED <<terminal, journal, stored, desk, draft, world, history>>

\* The terminal lists its positions in one order.
LooksAt(p) ==
  cycle.stage = "managing" /\ cycle.todo # {} /\ p = CHOOSE q \in cycle.todo : TRUE

Done(p) == [cycle EXCEPT !.stage = "managing", !.todo = @ \ {p}, !.key = NoKey]

\* No action is chosen, or one that is not executed: a position that is not managed,
\* a breaker that is open, an action that has its result, a volume below the
\* broker's minimum.  The row of such an action stops no later one.
Hold(p) ==
  /\ LooksAt(p)
  /\ cycle' = Done(p)
  /\ UNCHANGED <<terminal, journal, stored, desk, breaker, draft, world, sentOpen, history>>

\* _sync_position_state: opened since the activation, or adopted by hand.
Managed(p) == p \in cycle.mine \cup adopted

\* Variants of MayExecute: the breaker is not asked; nor is the stored action.
MayExecuteOpen(k) ==
  /\ cycle.on
  /\ Managed(k.pos)
  /\ k \notin DOMAIN acts

\* _can_execute
MayExecute(k) ==
  /\ cycle.on /\ cycle.closed
  /\ Managed(k.pos)
  /\ k \notin DOMAIN acts

\* A partial close, of a stage or of part of the profit.
Reduces(k) == k.kind \in {"stage", "profit"}

\* The requested volume is below the broker's minimum.
TooSmall(k) == Reduces(k) /\ k.cuts = MaxCuts

\* Variant of MayChoose: executed stages are not looked up.
MayChooseAny(p, kind) == kind \in Kinds

\* _stage_already_executed looks at committed stages.
MayChoose(p, kind) ==
  kind \in Kinds /\ (kind = "stage" => p \notin staged)

\* An action is chosen and executed: its request is handed to the execution manager.
Choose(p, kind) ==
  LET k == [pos |-> p, kind |-> kind, cuts |-> cycle.seen[p], minute |-> minute]
  IN /\ LooksAt(p)
     /\ MayChoose(p, kind)
     /\ MayExecute(k) /\ ~TooSmall(k)
     /\ cycle' = [cycle EXCEPT !.stage = "submitting", !.key = k]
     /\ UNCHANGED <<terminal, journal, stored, desk, breaker, draft, world, sentOpen, history>>

\* _persist_result
Result(k, status) ==
  /\ draft' = Put(draft, k, status)
  /\ cycle' = Done(k.pos)

Submitting(k) == cycle.stage = "submitting" /\ cycle.key = k

\* Variant of Seen: a submitted order without an answer is tried again.
SeenAnswered(k) == k \in DOMAIN journal /\ journal[k] # "SUBMITTED"

\* The key has an order that left the manager, or that was refused.
Seen(k) == k \in DOMAIN journal

\* The journal answers for a key it has seen.
SubmitDuplicate(k) ==
  /\ Submitting(k)
  /\ Seen(k)
  /\ IF journal[k] = "ACCEPTED"
     THEN Result(k, "submitted") /\ UNCHANGED <<breaker, sentOpen>>
     ELSE Result(k, "failed") /\ CountFailure
  /\ UNCHANGED <<terminal, journal, stored, desk, world, history>>

\* The preflight fails, or the terminal is not ready and the request raises.
SubmitRefused(k) ==
  /\ Submitting(k)
  /\ ~Seen(k)
  /\ \/ journal' = Put(journal, k, "REJECTED") /\ Result(k, "failed")
     \/ UNCHANGED journal /\ Result(k, "failed")
  /\ CountFailure
  /\ UNCHANGED <<terminal, stored, desk, world, history>>

Send(k) ==
  /\ Submitting(k)
  /\ ~Seen(k)
  /\ journal' = Put(journal, k, "SUBMITTED")
  /\ wire' = wire \cup {k}
  /\ cycle' = [cycle EXCEPT !.stage = "awaiting"]
  /\ sentOpen' = IF breaker.open THEN sentOpen + 1 ELSE sentOpen
  /\ UNCHANGED <<position, cuts, executed, stored, desk, breaker, draft, world, history>>

Awaiting(k) == cycle.stage = "awaiting" /\ cycle.key = k

\* The answer was a success: executed, in part or in full, or placed.
Accepted(k) ==
  /\ journal' = Put(journal, k, "ACCEPTED")
  /\ Result(k, "submitted")
  /\ UNCHANGED <<breaker, sentOpen>>

\* Variant of Rejected: any answer passes for an acceptance.
RejectedUnread(k) ==
  /\ journal' = Put(journal, k, "REJECTED")
  /\ Result(k, "submitted")
  /\ UNCHANGED <<breaker, sentOpen>>

\* Room for one more answer that is lost, unclear or early, or cycle that does not end.
MayLose == lost + Cardinality(placed) < MaxLost

\* Any other answer is a rejection, and a failure.
Rejected(k) ==
  /\ journal' = Put(journal, k, "REJECTED")
  /\ Result(k, "failed")
  /\ CountFailure

\* No result, a timeout or a lost connection is a rejection too.
Unclear(k) ==
  /\ MayLose
  /\ lost' = lost + 1
  /\ unclear' = unclear \cup {k}
  /\ Rejected(k)
  /\ UNCHANGED placed

Told == UNCHANGED <<lost, doubts>>
Unheard == Told /\ UNCHANGED <<journal, breaker, sentOpen, cycle, draft>>

\* The terminal executes a request, and the cycle hears of it if it still waits.
Execute(k) ==
  /\ k \in wire
  /\ position[k.pos] = "open"
  /\ wire' = wire \ {k}
  /\ executed' = executed \cup {k}
  /\ position' = IF k.kind = "close" THEN [position EXCEPT ![k.pos] = "closed"]
                 ELSE position
  /\ cuts' = IF Reduces(k) /\ cuts[k.pos] < MaxCuts
             THEN [cuts EXCEPT ![k.pos] = @ + 1] ELSE cuts
  /\ IF Awaiting(k) THEN (Told /\ Accepted(k)) \/ Unclear(k) ELSE Unheard
  /\ UNCHANGED <<stored, desk, minute, up, asked, missed>>

Decline(k) ==
  /\ k \in wire
  /\ wire' = wire \ {k}
  /\ IF Awaiting(k) THEN (Told /\ Rejected(k)) \/ Unclear(k) ELSE Unheard
  /\ UNCHANGED <<position, cuts, executed, stored, desk, minute, up, asked, missed>>

\* The answer comes before the request is decided: it is placed, or nobody knows.
AnswerEarly(k) ==
  /\ k \in wire
  /\ Awaiting(k)
  /\ \/ /\ MayLose
        /\ placed' = placed \cup {k}
        /\ Accepted(k)
        /\ UNCHANGED <<lost, unclear>>
     \/ Unclear(k)
  /\ UNCHANGED <<terminal, stored, desk, minute, up, asked, missed>>

\* The bridge times out: an error is recorded, the request is still on its way.
LoseAnswer(k) ==
  /\ Awaiting(k)
  /\ MayLose
  /\ lost' = lost + 1
  /\ Result(k, "failed")
  /\ CountFailure
  /\ UNCHANGED <<terminal, journal, stored, desk, minute, up, asked, history>>

\* _persist_result records a stage when it finds the position's state row: one the
\* same session has added is not found, for the session does not flush by itself.
StageRecorded(k) == k.kind = "stage" /\ draft[k] = "submitted" /\ k.pos \in known

\* An executed stage the session has no row to record at.
StageMissed(k) == k.kind = "stage" /\ draft[k] = "submitted" /\ k.pos \notin known

\* Every position was looked at: the session is committed.
Commit ==
  /\ cycle.stage = "managing"
  /\ cycle.todo = {}
  /\ acts' = [k \in DOMAIN acts \cup DOMAIN draft |->
               IF k \in DOMAIN draft THEN draft[k] ELSE acts[k]]
  /\ staged' = staged \cup {k.pos : k \in {j \in DOMAIN draft : StageRecorded(j)}}
  /\ missed' = missed \cup {k.pos : k \in {j \in DOMAIN draft : StageMissed(j)}}
  /\ known' = known \cup DOMAIN cycle.seen
  /\ draft' = Nothing
  /\ cycle' = Idle
  /\ UNCHANGED <<terminal, journal, desk, breaker, world, sentOpen, doubts>>

\* The cycle is cancelled, raises, or its process ends: the session is lost.
Abort ==
  /\ cycle.stage # "idle"
  /\ MayLose
  /\ lost' = lost + 1
  /\ draft' = Nothing
  /\ cycle' = Idle
  /\ UNCHANGED <<terminal, journal, stored, desk, breaker, minute, up, asked, sentOpen, history>>

-----------------------------------------------------------------------------
(* The world.                                                              *)

OpenPosition(p) ==
  /\ position[p] = "none"
  /\ position' = [position EXCEPT ![p] = "open"]
  /\ managed' = IF active THEN managed \cup {p} ELSE managed
  /\ UNCHANGED <<cuts, wire, executed, journal, stored, active, adopted, breaker,
                 cycle, draft, world, sentOpen, history>>

ClosePosition(p) ==
  /\ position[p] = "open"
  /\ position' = [position EXCEPT ![p] = "closed"]
  /\ UNCHANGED <<cuts, wire, executed, journal, stored, desk, breaker, cycle,
                 draft, world, sentOpen, history>>

Tick ==
  /\ minute < MaxMinute
  /\ minute' = minute + 1
  /\ UNCHANGED <<terminal, journal, stored, desk, breaker, cycle, draft, up, lost,
                 asked, sentOpen, history>>

\* The terminal goes away and comes back.
GoDown ==
  /\ up /\ asked < MaxAsked
  /\ up' = FALSE /\ asked' = asked + 1
  /\ UNCHANGED <<terminal, journal, stored, desk, breaker, cycle, draft, minute, lost,
                 sentOpen, history>>

ComeBack ==
  /\ ~up
  /\ up' = TRUE
  /\ UNCHANGED <<terminal, journal, stored, desk, breaker, cycle, draft, minute, lost,
                 asked, sentOpen, history>>

Manage(p) == Hold(p) \/ \E kind \in Kinds : Choose(p, kind)
Submit(k) == SubmitDuplicate(k) \/ SubmitRefused(k) \/ Send(k)
Answer(k) == Execute(k) \/ Decline(k) \/ AnswerEarly(k)

Next ==
  \/ ActivateByHand \/ Deactivate \/ ResetBreaker
  \/ StartCycle \/ EnsureActivation \/ ReadFails \/ ReadPositions \/ Commit \/ Abort
  \/ \E p \in Positions : Adopt(p) \/ Manage(p) \/ OpenPosition(p) \/ ClosePosition(p)
  \/ Submit(cycle.key) \/ LoseAnswer(cycle.key)
  \/ \E k \in wire : Answer(k)
  \/ Tick \/ GoDown \/ ComeBack

\* The monitor's loop runs for as long as the process; a request is answered or
\* times out.
Fairness ==
  /\ WF_vars(StartCycle) /\ WF_vars(EnsureActivation)
  /\ WF_vars(ReadFails \/ ReadPositions)
  /\ WF_vars(\E p \in Positions : Manage(p))
  /\ WF_vars(Submit(cycle.key))
  /\ WF_vars(LoseAnswer(cycle.key)
             \/ (Awaiting(cycle.key) /\ Answer(cycle.key)))
  /\ WF_vars(Commit)

Spec == Init /\ [][Next]_vars /\ Fairness

-----------------------------------------------------------------------------
(* Properties.                                                             *)

Status == {"submitted", "failed"}

StagesExecuted(p) == {k \in executed : k.pos = p /\ k.kind = "stage"}

\* A stage of a position is executed once, for it is recorded when it was; once more
\* for each answer that was lost or told nothing and each cycle that did not end,
\* which leave it unrecorded; and once more if the cycle that first saw the position
\* executed it, for that cycle does not find the row to record it at.
RepeatsAreExplained ==
  \A p \in Positions :
    Cardinality(StagesExecuted(p)) <= 1 + lost + (IF p \in missed THEN 1 ELSE 0)

\* A stage once executed does not repeat, unless an answer or a cycle was lost.  The
\* cycle that first sees a position commits its row after the stage's result.
StageDoesNotRepeat == \A p \in Positions : Cardinality(StagesExecuted(p)) <= 1 + lost

\* An open breaker stops the manager within the cycle: the other positions of
\* the cycle that opened it are all that may still be sent.
OpenBreakerStops == sentOpen < Cardinality(Positions) \/ sentOpen = 0

\* Failures stop at the limit, but for those of the cycle that reaches it.
FailuresBounded == breaker.failed < Limit + Cardinality(Positions)

\* An action stored as submitted was executed, and so was an accepted order, unless
\* the terminal answered that it was placed; and an order stored as rejected was not
\* and never will be, unless its answer told nothing.
RecordsAreTrue ==
  /\ \A k \in DOMAIN acts : acts[k] = "submitted" => k \in executed \cup placed
  /\ \A k \in DOMAIN journal :
       /\ journal[k] = "ACCEPTED" => k \in executed \cup placed
       /\ journal[k] = "REJECTED" => k \notin executed \cup wire \/ k \in unclear

\* A breaker opened by an outage does not stay open once the terminal is back
\* for good: the monitor's next cycle closes it.
OutageRecovers ==
  <>[]up => []<>(~(breaker.open /\ breaker.reason = "outage"))

\* Recovery from an outage leaves a breaker open that failures opened.
\* _open_breaker overwrites the reason recovery goes by.
FailuresStayOpen ==
  [][ReadPositions /\ breaker.open /\ breaker.failed >= Limit => breaker'.open]_vars

\* What the journal holds of a key, and where its request is.
Stored(k) == IF k \in DOMAIN journal THEN journal[k] ELSE "unsent"
Fate(k) == IF k \in executed THEN "executed"
           ELSE IF k \in wire THEN "underway"
           ELSE IF k \in DOMAIN journal THEN "never"
           ELSE "here"

Requests == INSTANCE RequestLifecycle WITH
  Keys <- ActionKey,
  stored <- [k \in ActionKey |-> Stored(k)], fate <- [k \in ActionKey |-> Fate(k)],
  vague <- placed \cup unclear

\* The manager's cycles, through lost answers, outages and cycles that end early,
\* ask of each key no more than the execution manager promises of it.
RefinesRequests == Requests!Spec

=============================================================================
