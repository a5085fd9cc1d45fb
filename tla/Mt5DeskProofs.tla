--------------------------- MODULE Mt5DeskProofs ---------------------------
(* Proofs about Mt5Desk, for any processes, keys, lease and length of time.  *)
EXTENDS Mt5Desk, FiniteSetTheorems, TLAPS

-----------------------------------------------------------------------------
(* The desk implements the execution manager.                              *)

\* An abandoned call ends as the execution manager lets it end.
LEMMA AbandonStep ==
  ASSUME NEW p \in Entries, Abandon(p), Entries \subseteq Callers
  PROVE  [Next]_vars
  BY DEF Abandon, Next

\* A step of the desk is one of the execution manager, or leaves it alone.
LEMMA StepImplements == [DeskNext]_deskVars => [Next]_vars
  <1>. SUFFICES ASSUME [DeskNext]_deskVars PROVE [Next]_vars
    OBVIOUS
  <1>0. Entries \subseteq Callers
    BY ConstantsAssumption DEF ConstantsAssumption
  <1>1. CASE UNCHANGED deskVars
    BY <1>1 DEF deskVars
  <1>2. ASSUME NEW p \in Entries,
               \/ Start(p) \/ TakeLease(p) \/ Heartbeat(p) \/ SkipCycle(p) \/ Write(p)
               \/ RecordCounted(p) \/ Disable(p) \/ Enable(p) \/ Release(p) \/ Persist(p)
        PROVE UNCHANGED vars
    BY <1>2 DEF Start, TakeLease, Heartbeat, SkipCycle, Write, RecordCounted, Disable, Enable,
                Release, Persist
  <1>3. ASSUME NEW p \in Entries, BeginCycle(p) \/ DropCycle(p) \/ Send(p) PROVE [Next]_vars
    BY <1>0, <1>3 DEF BeginCycle, DropCycle, Send, Next
  <1>4. ASSUME NEW p \in Entries, NEW k \in Keys, Submit(p, k) PROVE [Next]_vars
    BY <1>0, <1>4 DEF Submit, Next
  <1>5. ASSUME NEW p \in Entries, Conclude(p) \/ Count(p) \/ FailCycle(p) PROVE [Next]_vars
    BY <1>0, <1>5 DEF Conclude, Count, FailCycle, Next
  <1>6. ASSUME NEW p \in Entries, Stop(p) \/ Crash(p) PROVE [Next]_vars
    BY <1>0, <1>6, AbandonStep DEF Stop, Crash, Leave
  <1>7. CASE CandleCloses
    BY <1>7 DEF CandleCloses
  <1>8. CASE Reboot
    BY <1>8 DEF Reboot, Next
  <1>9. CASE Elsewhere
    BY <1>9 DEF Elsewhere, Next
  <1>. QED
    BY <1>1, <1>2, <1>3, <1>4, <1>5, <1>6, <1>7, <1>8, <1>9 DEF DeskNext

\* Each step of the desk is a step of the execution manager or leaves it alone,
\* so what is proved of the execution manager holds of the scheduler's entries.
THEOREM Implements == DeskSpec => Spec
  <1>1. DeskInit => Init
    BY DEF DeskInit
  <1>. QED
    BY <1>1, StepImplements, PTL DEF DeskSpec, Spec

-----------------------------------------------------------------------------
(* The invariant.                                                          *)

CallStages == {"idle", "deciding", "preflight", "sending", "answered"}
CallTyped == call \in [Callers -> [stage : CallStages, key : Keys \cup {NoKey},
                                   answer : TerminalAnswers \cup {"none"}]]

\* A process calls the execution manager in its cycle only, and about a candle.
CallsInCycle ==
  \A p \in Entries :
    /\ loop[p] # "cycle" => At(p, "idle")
    /\ loop[p] \in {"cycle", "counting"} => looking[p] \in 1..candle

\* A cycle under way while the flag is up began before.
StoppedBefore ==
  store.stopped => \A p \in Entries : loop[p] = "cycle" => p \in inFlight

Working(p) == loop[p] \in {"taking", "due", "asleep", "cycle", "counting", "leaving"}

\* One process works, and its lease is its own until it has given it up.
Alone ==
  /\ \A p, q \in Entries : Working(p) /\ Working(q) => p = q
  /\ \A p \in Entries : Live(p) \/ loop[p] = "leaving" => lease.owner = Name(p)

\* No entry was made for the candle the process waits for or decides about.
CandleUnused ==
  \A k \in Keys :
    /\ made[k] <= candle
    /\ \A p \in Entries :
         /\ loop[p] = "asleep" => made[k] < wake[p]
         /\ At(p, "deciding") => made[k] < looking[p]

MadeOnce == \A k, l \in Keys : made[k] = made[l] /\ made[k] # 0 => k = l

DeskInv ==
  /\ CallTyped /\ DeskTypeOK
  /\ CallsInCycle /\ StoppedBefore
  /\ ~excused => Alone /\ CandleUnused /\ MadeOnce

\* Initially nothing runs and nothing was made.
LEMMA DeskInitHolds == DeskInit => DeskInv
  <1>. SUFFICES ASSUME DeskInit PROVE DeskInv
    OBVIOUS
  <1>. USE ConstantsAssumption, DeskAssumption DEF DeskAssumption
  <1>1. CallTyped
    BY DEF DeskInit, Init, CallTyped, Idle, CallStages
  <1>2. DeskTypeOK
    <2>1. 0 \in 0..MaxCandles /\ 0 \in 0..(MaxCandles + 1) /\ 1 \in Candles
      BY DEF Candles
    <2>2. /\ wake \in [Entries -> 0..(MaxCandles + 1)] /\ looking \in [Entries -> 0..MaxCandles]
          /\ loop \in [Entries -> Stages]
      BY <2>1 DEF DeskInit, Stages
    <2>3. pending \in [Entries -> {NoWrite} \cup
            [by : {"cycle", "count", "stop", "disable", "enable"}, flag : BOOLEAN, to : Stores]]
      BY DEF DeskInit
    <2>4. store \in Stores /\ lease \in [owner : Entries \cup {NoOwner, Gone, Common}, beat : 0..MaxCandles]
      BY <2>1 DEF DeskInit, NoLease, Stores
    <2>5. made \in [Keys -> 0..MaxCandles] /\ candle \in Candles
      BY <2>1 DEF DeskInit
    <2>. QED
      BY <2>2, <2>3, <2>4, <2>5 DEF DeskInit, DeskTypeOK
  <1>3. CallsInCycle /\ StoppedBefore
    BY DEF DeskInit, Init, CallsInCycle, StoppedBefore, At, Idle
  <1>4. Alone /\ CandleUnused /\ MadeOnce
    BY DEF DeskInit, Init, Alone, CandleUnused, MadeOnce, Working, Live, Running, At, Idle
  <1>. QED
    BY <1>1, <1>2, <1>3, <1>4 DEF DeskInv

\* The execution manager's steps keep the calls' types.
LEMMA CallStaysTyped == CallTyped /\ [Next]_vars => CallTyped'
  <1>. SUFFICES ASSUME CallTyped, [Next]_vars PROVE CallTyped'
    OBVIOUS
  <1>. USE DEF CallTyped, CallStages, TerminalAnswers, Early
  <1>1. ASSUME NEW c \in Callers,
               \/ StartCycle(c) \/ EndCycle(c) \/ PreflightFails(c) \/ TerminalNotReady(c)
               \/ StoreAnswer(c) \/ AnswerLost(c)
        PROVE CallTyped'
    BY <1>1 DEF StartCycle, EndCycle, PreflightFails, TerminalNotReady, StoreAnswer,
                AnswerLost, Reject, Become, Idle
  <1>2. ASSUME NEW c \in Callers, OrderSend(c) PROVE CallTyped'
    <2>1. call[c].key \in Keys \cup {NoKey}
      OBVIOUS
    <2>. QED
      BY <1>2, <2>1 DEF OrderSend, Become
  <1>3. ASSUME NEW c \in Callers, NEW k \in Keys,
               BeginRefused(c, k) \/ BeginDuplicate(c, k) \/ BeginNew(c, k)
        PROVE CallTyped'
    BY <1>3 DEF BeginRefused, BeginDuplicate, BeginNew, Reject, Become, Idle
  <1>4. ASSUME NEW r \in wire, NEW result \in TerminalAnswers, Answer(r, result) PROVE CallTyped'
    <2>1. CASE Waiting(r)
      <3>1. r.from \in Callers => r.key \in Keys \cup {NoKey}
        BY <2>1 DEF Waiting
      <3>. QED
        BY <1>4, <2>1, <3>1 DEF Answer
    <2>. QED
      BY <1>4, <2>1 DEF Answer
  <1>5. ASSUME NEW r \in wire, Execute(r) \/ TurnDown(r) \/ AnswerEarly(r) PROVE CallTyped'
    BY <1>4, <1>5 DEF Execute, TurnDown, AnswerEarly
  <1>6. ASSUME NEW k \in open, ClosePosition(k) PROVE CallTyped'
    BY <1>6 DEF ClosePosition
  <1>7. CASE Restart \/ Refresh \/ UNCHANGED vars
    BY <1>7 DEF Restart, Refresh, Idle, vars
  <1>. QED
    BY <1>1, <1>2, <1>3, <1>5, <1>6, <1>7 DEF Next


-----------------------------------------------------------------------------
(* Every step of the desk preserves it.                                    *)

\* The stages a process may go to.
LEMMA StageSet ==
  ASSUME DeskTypeOK, NEW p \in Entries, NEW stage \in Stages, Set(p, stage)
  PROVE  loop' \in [Entries -> Stages]
  BY DEF DeskTypeOK, Set

\* What is loaded is a store, and for one of the writers.
LEMMA LoadTyped ==
  ASSUME DeskTypeOK, NEW p \in Entries, NEW new \in Stores,
         NEW who \in {"cycle", "count", "stop", "disable", "enable"}, Load(p, who, new)
  PROVE  pending' \in [Entries -> {NoWrite} \cup
           [by : {"cycle", "count", "stop", "disable", "enable"}, flag : BOOLEAN, to : Stores]]
  <1>1. store.stopped \in BOOLEAN
    BY DEF DeskTypeOK, Stores
  <1>. QED
    BY <1>1 DEF DeskTypeOK, Load

\* Types.  The candle of a cycle is one, so what is recorded is a store.
LEMMA TypesHold ==
  ASSUME DeskInv, [DeskNext]_deskVars
  PROVE  DeskTypeOK'
  <1>. USE DeskAssumption DEF DeskAssumption
  <1>0. DeskTypeOK /\ CallsInCycle
    BY DEF DeskInv
  <1>1. CASE UNCHANGED deskVars
    BY <1>0, <1>1 DEF deskVars, desk, DeskTypeOK
  <1>2. ASSUME NEW p \in Entries, Start(p) \/ TakeLease(p) \/ Heartbeat(p) PROVE DeskTypeOK'
    <2>1. CASE Start(p)
      <3>1. loop' \in [Entries -> Stages]
        BY <1>0, <2>1 DEF Start, Set, Stages, DeskTypeOK
      <3>2. excused' \in BOOLEAN
        BY <1>0, <2>1 DEF Start, DeskTypeOK
      <3>. QED
        BY <1>0, <2>1, <3>1, <3>2 DEF Start, DeskTypeOK
    <2>2. Name(p) \in Entries \cup {NoOwner, Gone, Common}
      BY DEF Name
    <2>3. candle \in 0..MaxCandles /\ candle + 1 \in 0..(MaxCandles + 1)
      BY <1>0 DEF DeskTypeOK, Candles
    <2>4. CASE TakeLease(p)
      <3>1. loop' \in [Entries -> Stages]
        BY <1>0, <2>4, StageSet DEF TakeLease, Stages
      <3>. QED
        BY <1>0, <2>2, <2>3, <2>4, <3>1 DEF TakeLease, history, DeskTypeOK
    <2>5. CASE Heartbeat(p)
      <3>1. loop' \in [Entries -> Stages]
        BY <1>0, <2>5, StageSet DEF Heartbeat, Stages
      <3>. QED
        BY <1>0, <2>2, <2>3, <2>5, <3>1 DEF Heartbeat, NextRun, history, DeskTypeOK
    <2>. QED
      BY <1>2, <2>1, <2>4, <2>5
  <1>3. ASSUME NEW p \in Entries, BeginCycle(p) PROVE DeskTypeOK'
    <2>1. loop' \in [Entries -> Stages]
      BY <1>0, <1>3, StageSet DEF BeginCycle, Stages
    <2>2. wake' \in [Entries -> 0..(MaxCandles + 1)] /\ looking' \in [Entries -> 0..MaxCandles]
      BY <1>0, <1>3 DEF BeginCycle, Candles, DeskTypeOK
    <2>. QED
      BY <1>0, <1>3, <2>1, <2>2 DEF BeginCycle, history, DeskTypeOK
  <1>4. ASSUME NEW p \in Entries, NEW mark \in BOOLEAN, NEW c \in Candles, Record(p, mark, c)
        PROVE DeskTypeOK'
    <2>1. Recorded(mark, c) \in Stores
      BY <1>0 DEF Recorded, Stores, DeskTypeOK
    <2>2. loop' \in [Entries -> Stages]
      BY <1>0, <1>4, StageSet DEF Record, Stages
    <2>3. pending' \in [Entries -> {NoWrite} \cup
            [by : {"cycle", "count", "stop", "disable", "enable"}, flag : BOOLEAN, to : Stores]]
      BY <1>0, <1>4, <2>1, LoadTyped DEF Record
    <2>4. wake' \in [Entries -> 0..(MaxCandles + 1)] /\ looking' \in [Entries -> 0..MaxCandles]
      BY <1>0, <1>4 DEF Record, DeskTypeOK
    <2>. QED
      BY <1>0, <1>4, <2>2, <2>3, <2>4 DEF Record, history, DeskTypeOK
  <1>5. ASSUME NEW p \in Entries, SkipCycle(p) PROVE DeskTypeOK'
    <2>1. candle \in Candles /\ (candle \in store.done) \in BOOLEAN
      BY <1>0 DEF DeskTypeOK
    <2>2. Record(p, candle \in store.done, candle)
      BY <1>5 DEF SkipCycle
    <2>. QED
      BY <1>4, <2>1, <2>2
  <1>6. ASSUME NEW p \in Entries, DropCycle(p) \/ Conclude(p) \/ RecordCounted(p)
        PROVE DeskTypeOK'
    <2>1. looking[p] \in 1..candle
      BY <1>0, <1>6 DEF DropCycle, Conclude, RecordCounted, InCycle, CallsInCycle
    <2>2. looking[p] \in Candles
      BY <1>0, <2>1 DEF Candles, DeskTypeOK
    <2>3. \E mark \in BOOLEAN : Record(p, mark, looking[p])
      BY <1>6 DEF DropCycle, Conclude, RecordCounted
    <2>. QED
      BY <1>4, <2>2, <2>3
  <1>7. ASSUME NEW p \in Entries, NEW k \in Keys, Submit(p, k) PROVE DeskTypeOK'
    BY <1>0, <1>7 DEF Submit, DeskTypeOK
  <1>8. ASSUME NEW p \in Entries, Send(p) \/ FailCycle(p) PROVE DeskTypeOK'
    <2>1. loop' \in [Entries -> Stages]
      BY <1>0, <1>8, StageSet DEF Send, FailCycle, Stages, desk, DeskTypeOK
    <2>. QED
      BY <1>0, <1>8, <2>1 DEF Send, FailCycle, desk, history, DeskTypeOK
  <1>9. ASSUME NEW p \in Entries, Write(p) PROVE DeskTypeOK'
    <2>1. pending[p].to \in Stores
      BY <1>0, <1>9 DEF Write, Free, DeskTypeOK
    <2>. QED
      BY <1>0, <1>9, <2>1 DEF Write, Raise, DeskTypeOK
  <1>10. ASSUME NEW p \in Entries, Count(p) \/ Persist(p) \/ Disable(p) \/ Enable(p)
         PROVE DeskTypeOK'
    <2>1. /\ store \in Stores /\ [store EXCEPT !.stopped = TRUE] \in Stores
          /\ [store EXCEPT !.stopped = FALSE] \in Stores
      BY <1>0 DEF DeskTypeOK, Stores
    <2>2. pending' \in [Entries -> {NoWrite} \cup
            [by : {"cycle", "count", "stop", "disable", "enable"}, flag : BOOLEAN, to : Stores]]
      BY <1>0, <1>10, <2>1, LoadTyped DEF Count, Persist, Disable, Enable
    <2>3. loop' \in [Entries -> Stages]
      BY <1>0, <1>10, StageSet DEF Count, Persist, Disable, Enable, Stages, DeskTypeOK
    <2>. QED
      BY <1>0, <1>10, <2>2, <2>3 DEF Count, Persist, Disable, Enable, history, DeskTypeOK
  <1>11. ASSUME NEW p \in Entries, Stop(p) \/ Crash(p) \/ Release(p) PROVE DeskTypeOK'
    <2>1. loop' \in [Entries -> Stages]
      BY <1>0, <1>11, StageSet DEF Stop, Crash, Leave, Release, Stages
    <2>2. lease' \in [owner : Entries \cup {NoOwner, Gone, Common}, beat : 0..MaxCandles]
      BY <1>0, <1>11 DEF Stop, Crash, Release, Orphaned, NoLease, DeskTypeOK
    <2>. QED
      BY <1>0, <1>11, <2>1, <2>2 DEF Stop, Crash, Leave, Release, history, DeskTypeOK
  <1>12. CASE Reboot
    <2>1. lease' \in [owner : Entries \cup {NoOwner, Gone, Common}, beat : 0..MaxCandles]
      BY <1>0, <1>12 DEF Reboot, Orphaned, DeskTypeOK
    <2>2. loop' \in [Entries -> Stages]
      BY <1>12 DEF Reboot, Stages
    <2>. QED
      BY <1>0, <1>12, <2>1, <2>2 DEF Reboot, history, DeskTypeOK
  <1>13. CASE CandleCloses \/ Elsewhere
    BY <1>0, <1>13 DEF CandleCloses, Elsewhere, Candles, desk, history, DeskTypeOK
  <1>. QED
    BY <1>1, <1>2, <1>3, <1>5, <1>6, <1>7, <1>8, <1>9, <1>10, <1>11, <1>12, <1>13 DEF DeskNext

\* A step of the execution manager for one process leaves the others' calls.
LEMMA OwnCall ==
  ASSUME CallTyped, NEW p \in Entries, NEW q \in Entries, q # p,
         \/ StartCycle(p) \/ EndCycle(p) \/ PreflightFails(p) \/ TerminalNotReady(p)
         \/ OrderSend(p) \/ StoreAnswer(p) \/ AnswerLost(p)
         \/ \E k \in Keys : BeginNew(p, k) \/ BeginRefused(p, k)
  PROVE  call'[q] = call[q]
  BY DeskAssumption
     DEF DeskAssumption, CallTyped, StartCycle, EndCycle, PreflightFails, TerminalNotReady,
         OrderSend, StoreAnswer, AnswerLost, BeginNew, BeginRefused, Reject, Become

\* What the terminal does leaves every call in its stage, or answers one that waits.
LEMMA TerminalCall ==
  ASSUME CallTyped, Elsewhere, NEW q \in Entries
  PROVE  \/ call'[q] = call[q]
         \/ At(q, "sending") /\ call'[q].stage = "answered"
  <1>. USE DeskAssumption DEF DeskAssumption, CallTyped
  <1>1. ASSUME NEW r \in wire, NEW result \in TerminalAnswers, Answer(r, result)
        PROVE \/ call'[q] = call[q]
              \/ At(q, "sending") /\ call'[q].stage = "answered"
    BY <1>1 DEF Answer, Waiting, At
  <1>. QED
    BY <1>1 DEF Elsewhere, Execute, TurnDown, AnswerEarly, ClosePosition, Refresh,
                TerminalAnswers, Early

\* The call of a process is over when its cycle is.
LEMMA CallEnds ==
  ASSUME CallTyped, NEW p \in Entries,
         \/ EndCycle(p) \/ PreflightFails(p) \/ TerminalNotReady(p)
         \/ StoreAnswer(p) \/ AnswerLost(p) \/ \E k \in Keys : BeginRefused(p, k)
  PROVE  call'[p].stage = "idle"
  BY DeskAssumption
     DEF DeskAssumption, CallTyped, EndCycle, PreflightFails, TerminalNotReady,
         StoreAnswer, AnswerLost, BeginRefused, Reject, Idle

\* A process that is not in a cycle calls nothing.
LEMMA CallsStay ==
  ASSUME DeskInv, [DeskNext]_deskVars
  PROVE  CallsInCycle'
  <1>. USE DeskAssumption DEF DeskAssumption, DeskInv, DeskTypeOK, CallsInCycle, At, Candles
  <1>1. CASE UNCHANGED deskVars
    BY <1>1 DEF deskVars, desk, vars
  <1>2. ASSUME NEW p \in Entries,
               \/ Start(p) \/ TakeLease(p) \/ Heartbeat(p) \/ Write(p)
               \/ Disable(p) \/ Enable(p) \/ Release(p) \/ Persist(p)
        PROVE CallsInCycle'
    <2>1. UNCHANGED <<call, looking, candle>>
      BY <1>2 DEF Start, TakeLease, Heartbeat, Write, Disable, Enable, Release, Persist, vars,
                  history
    <2>2. \A q \in Entries :
            \/ loop'[q] = loop[q]
            \/ loop[q] # "cycle" /\ loop'[q] \notin {"cycle", "counting"}
      BY <1>2 DEF Start, TakeLease, Heartbeat, Write, Disable, Enable, Release, Persist, Set
    <2>. QED
      BY <2>1, <2>2
  <1>3. ASSUME NEW p \in Entries, SkipCycle(p) \/ RecordCounted(p) PROVE CallsInCycle'
    BY <1>3 DEF SkipCycle, RecordCounted, Awake, Record, Set, vars, history
  <1>4. ASSUME NEW p \in Entries, BeginCycle(p) PROVE CallsInCycle'
    BY <1>4, OwnCall DEF BeginCycle, Set, history
  <1>5. ASSUME NEW p \in Entries, DropCycle(p) \/ Conclude(p) PROVE CallsInCycle'
    <2>1. call'[p].stage = "idle" /\ \A q \in Entries \ {p} : call'[q] = call[q]
      BY <1>5, OwnCall, CallEnds DEF DropCycle, Conclude
    <2>. QED
      BY <1>5, <2>1 DEF DropCycle, Conclude, Record, Set, history
  <1>6. ASSUME NEW p \in Entries, FailCycle(p) \/ Count(p) PROVE CallsInCycle'
    <2>1. call'[p].stage = "idle" /\ \A q \in Entries \ {p} : call'[q] = call[q]
      BY <1>6, OwnCall, CallEnds DEF FailCycle, Count
    <2>2. loop[p] = "cycle"
      BY <1>6 DEF FailCycle, Count, InCycle
    <2>. QED
      BY <1>6, <2>1, <2>2 DEF FailCycle, Count, Set, history
  <1>7. ASSUME NEW p \in Entries, Send(p) \/ \E k \in Keys : Submit(p, k) PROVE CallsInCycle'
    <2>1. \A q \in Entries \ {p} : call'[q] = call[q]
      BY <1>7, OwnCall DEF Send, Submit
    <2>2. loop[p] = "cycle" /\ UNCHANGED <<loop, looking, candle>>
      BY <1>7 DEF Send, Submit, InCycle, desk
    <2>. QED
      BY <2>1, <2>2
  <1>8. ASSUME NEW p \in Entries, Stop(p) \/ Crash(p) PROVE CallsInCycle'
    <2>1. call'[p].stage = "idle" /\ \A q \in Entries \ {p} : call'[q] = call[q]
      BY <1>8, OwnCall, CallEnds DEF Stop, Crash, Leave, Abandon, vars
    <2>2. PICK stage \in {"off", "leaving", "left"} : loop' = [loop EXCEPT ![p] = stage]
      BY <1>8 DEF Stop, Crash, Leave, Set
    <2>3. looking' = [looking EXCEPT ![p] = 0] /\ candle' = candle
      BY <1>8 DEF Stop, Crash, Leave
    <2>. QED
      BY <2>1, <2>2, <2>3
  <1>9. CASE CandleCloses
    BY <1>9 DEF CandleCloses, vars
  <1>10. CASE Reboot
    BY <1>10 DEF Reboot, Restart, Idle
  <1>11. CASE Elsewhere
    BY <1>11, TerminalCall DEF Elsewhere, desk
  <1>. QED
    BY <1>1, <1>2, <1>3, <1>4, <1>5, <1>6, <1>7, <1>8, <1>9, <1>10, <1>11 DEF DeskNext


\* A cycle begins only while the flag is down, and the flag is raised over the
\* cycles under way.
LEMMA StopStays ==
  ASSUME DeskInv, [DeskNext]_deskVars
  PROVE  StoppedBefore'
  <1>. USE DEF DeskInv, DeskTypeOK, StoppedBefore
  <1>1. CASE UNCHANGED deskVars
    BY <1>1 DEF deskVars, desk
  <1>2. ASSUME NEW p \in Entries,
               \/ Start(p) \/ TakeLease(p) \/ Heartbeat(p) \/ BeginCycle(p) \/ SkipCycle(p)
               \/ DropCycle(p) \/ Conclude(p) \/ Count(p) \/ RecordCounted(p) \/ FailCycle(p)
               \/ Stop(p) \/ Crash(p) \/ Release(p) \/ Persist(p)
        PROVE StoppedBefore'
    <2>1. UNCHANGED <<store, inFlight>>
      BY <1>2 DEF Start, TakeLease, Heartbeat, BeginCycle, SkipCycle, DropCycle, Conclude, Count,
                  RecordCounted, Record, FailCycle, Stop, Crash, Leave, Release, Persist, history
    <2>2. PICK stage \in Stages :
            /\ loop' = [loop EXCEPT ![p] = stage]
            /\ stage = "cycle" => ~store.stopped
      BY <1>2 DEF Start, TakeLease, Heartbeat, BeginCycle, MayStart, SkipCycle, DropCycle,
                  Conclude, Count, RecordCounted, Record, FailCycle, Stop, Crash, Leave, Release,
                  Persist, Set, Stages
    <2>3. loop \in [Entries -> Stages] /\ StoppedBefore
      OBVIOUS
    <2>. HIDE DEF DeskInv, DeskTypeOK
    <2>. SUFFICES ASSUME store.stopped, NEW q \in Entries, loop'[q] = "cycle"
                  PROVE  q \in inFlight
      BY <2>1
    <2>4. loop[q] = "cycle"
      BY <2>2, <2>3
    <2>. QED
      BY <2>3, <2>4
  <1>3. ASSUME NEW p \in Entries,
               Send(p) \/ Disable(p) \/ Enable(p) \/ \E k \in Keys : Submit(p, k)
        PROVE StoppedBefore'
    BY <1>3 DEF Send, Disable, Enable, Submit, desk, history
  <1>4. ASSUME NEW p \in Entries, Write(p) PROVE StoppedBefore'
    BY <1>4 DEF Write, Raise
  <1>6. CASE Reboot \/ CandleCloses \/ Elsewhere
    BY <1>6 DEF Reboot, CandleCloses, Elsewhere, desk, history
  <1>. QED
    BY <1>1, <1>2, <1>3, <1>4, <1>6 DEF DeskNext

\* While one process works, another starts only over a lease that is no one's.
LEMMA AloneStays ==
  ASSUME DeskInv, [DeskNext]_deskVars, ~excused'
  PROVE  ~excused /\ Alone'
  <1>1. ~excused
    BY DEF DeskNext, deskVars, desk, history, Start, TakeLease, Heartbeat, BeginCycle, SkipCycle,
           DropCycle, Submit, Send, Conclude, Count, RecordCounted, FailCycle, Record, Write,
           Disable, Enable, Stop, Release, Persist, Crash, Leave, Reboot, CandleCloses, Elsewhere
  <1>. USE DeskAssumption DEF DeskAssumption
  <1>0. DeskTypeOK /\ Alone
    BY <1>1 DEF DeskInv
  <1>. USE DEF Alone, Working, Live, Running, Name
  <1>2. CASE UNCHANGED deskVars
    BY <1>0, <1>2 DEF deskVars, desk
  <1>3. ASSUME NEW p \in Entries, Start(p) PROVE Alone'
    <2>1. UNCHANGED <<common, lease>> /\ ~Overlaps(p)
      BY <1>3 DEF Start
    <2>2. loop \in [Entries -> Stages]
      BY <1>0 DEF DeskTypeOK
    <2>3. CASE Fresh /\ lease.owner # Name(p)
      <3>1. loop' = [loop EXCEPT ![p] = "refused"]
        BY <1>3, <2>3 DEF Start, Set
      <3>. QED
        BY <1>0, <2>1, <2>2, <3>1
    <2>4. CASE ~Fresh \/ lease.owner = Name(p)
      <3>1. ASSUME NEW q \in Entries \ {p}, Working(q) PROVE FALSE
        <4>1. loop[q] # "taking"
          BY <2>1 DEF Overlaps, Others
        <4>2. lease.owner = Name(q) /\ lease.owner # NoOwner
          BY <1>0, <3>1, <4>1
        <4>3. lease.beat \in Int /\ candle \in Int
          BY <1>0 DEF DeskTypeOK, Candles
        <4>4. Stale \/ lease.owner = Name(p)
          BY <2>4, <4>2, <4>3 DEF Fresh, Stale
        <4>. QED
          BY <2>1, <3>1, <4>1, <4>4 DEF Overlaps, Others
      <3>2. PICK stage \in {"taking", "due"} :
              /\ loop' = [loop EXCEPT ![p] = stage]
              /\ stage = "due" => lease.owner = Name(p)
        BY <1>3, <2>4 DEF Start, Set
      <3>. QED
        BY <2>1, <2>2, <3>1, <3>2
    <2>. QED
      BY <2>3, <2>4
  <1>4. ASSUME NEW p \in Entries, TakeLease(p) \/ Heartbeat(p) PROVE Alone'
    <2>1. PICK stage \in {"due", "asleep"} : loop' = [loop EXCEPT ![p] = stage]
      BY <1>4 DEF TakeLease, Heartbeat, Set
    <2>2. Working(p) /\ lease'.owner = Name(p) /\ common' = common
      BY <1>4 DEF TakeLease, Heartbeat, history
    <2>. QED
      BY <1>0, <2>1, <2>2 DEF DeskTypeOK
  <1>5. ASSUME NEW p \in Entries,
               \/ BeginCycle(p) \/ SkipCycle(p) \/ DropCycle(p) \/ Conclude(p) \/ Count(p)
               \/ RecordCounted(p) \/ FailCycle(p)
        PROVE Alone'
    <2>1. UNCHANGED <<lease, common>> /\ Live(p)
      BY <1>5 DEF BeginCycle, SkipCycle, DropCycle, Conclude, Count, RecordCounted, FailCycle,
                  Awake, InCycle, Record, history
    <2>2. PICK stage \in {"cycle", "due", "counting"} : loop' = [loop EXCEPT ![p] = stage]
      BY <1>5 DEF BeginCycle, SkipCycle, DropCycle, Conclude, Count, RecordCounted, FailCycle,
                  Record, Set
    <2>. QED
      BY <1>0, <2>1, <2>2 DEF DeskTypeOK
  <1>6. ASSUME NEW p \in Entries,
               \/ Write(p) \/ Send(p) \/ Disable(p) \/ Enable(p)
               \/ \E k \in Keys : Submit(p, k)
        PROVE Alone'
    BY <1>0, <1>6 DEF Write, Send, Submit, Disable, Enable, desk, history
  <1>7. ASSUME NEW p \in Entries, Stop(p) \/ Persist(p) PROVE Alone'
    <2>1. UNCHANGED <<lease, common>>
      BY <1>7 DEF Stop, Leave, Persist, history
    <2>2. PICK stage \in {"off", "leaving", "left"} :
            /\ loop' = [loop EXCEPT ![p] = stage]
            /\ stage = "leaving" => Live(p) /\ lease.owner = Name(p)
      BY <1>7 DEF Stop, Leave, Persist, Set, Listening
    <2>. QED
      BY <1>0, <2>1, <2>2 DEF DeskTypeOK
  <1>8. ASSUME NEW p \in Entries, Release(p) PROVE Alone'
    BY <1>0, <1>8 DEF Release, Set, history, DeskTypeOK
  <1>9. ASSUME NEW p \in Entries, Crash(p) PROVE Alone'
    <2>1. loop' = [loop EXCEPT ![p] = "off"] /\ common' = common
      BY <1>9 DEF Crash, Leave, Set, history
    <2>2. lease' = lease \/ lease.owner = p
      BY <1>9 DEF Crash, Orphaned
    <2>3. ASSUME NEW q \in Entries \ {p}, Live(q) \/ loop[q] = "leaving"
          PROVE lease' = lease
      BY <1>0, <2>2, <2>3
    <2>. QED
      BY <1>0, <2>1, <2>3 DEF DeskTypeOK
  <1>10. ASSUME Reboot PROVE Alone'
    <2>1. \A q \in Entries : loop'[q] = "off"
      BY <1>10 DEF Reboot
    <2>. QED
      BY <2>1
  <1>11. CASE CandleCloses \/ Elsewhere
    BY <1>0, <1>11 DEF CandleCloses, Elsewhere, desk, history
  <1>. HIDE DEF Alone, Working, Live, Running, Name
  <1>. QED
    BY <1>1, <1>2, <1>3, <1>4, <1>5, <1>6, <1>7, <1>8, <1>9, <1>10, <1>11 DEF DeskNext

\* The candle waited for is later than any an entry was made for, and a cycle
\* submits once.
LEMMA CandlesStay ==
  ASSUME DeskInv, [DeskNext]_deskVars, ~excused'
  PROVE  CandleUnused' /\ MadeOnce'
  <1>1. ~excused /\ Alone' /\ CallsInCycle'
    BY AloneStays, CallsStay
  <1>. USE <1>1, DeskAssumption
       DEF DeskAssumption, DeskInv, DeskTypeOK, CandleUnused, MadeOnce, Candles
  <1>2. CASE UNCHANGED deskVars
    BY <1>2 DEF deskVars, desk, vars, At
  <1>3. ASSUME NEW p \in Entries,
               \/ Start(p) \/ TakeLease(p) \/ Heartbeat(p) \/ Write(p)
               \/ Disable(p) \/ Enable(p) \/ Release(p) \/ Persist(p)
        PROVE CandleUnused' /\ MadeOnce'
    <2>1. UNCHANGED <<call, looking, candle, made>>
      BY <1>3 DEF Start, TakeLease, Heartbeat, Write, Disable, Enable, Release, Persist, vars,
                  history
    <2>2. \A q \in Entries : loop'[q] = "asleep" =>
            (loop[q] = "asleep" /\ wake'[q] = wake[q]) \/ wake'[q] = candle + 1
      BY <1>3 DEF Start, TakeLease, Heartbeat, Write, Disable, Enable, Release, Persist, Set,
                  NextRun
    <2>. QED
      BY <2>1, <2>2 DEF At
  <1>4. ASSUME NEW p \in Entries, BeginCycle(p) PROVE CandleUnused' /\ MadeOnce'
    <2>1. \A q \in Entries \ {p} : call'[q] = call[q]
      BY <1>4, OwnCall DEF BeginCycle
    <2>2. \A k \in Keys : made[k] < candle
      BY <1>4 DEF BeginCycle, Awake
    <2>. QED
      BY <1>4, <2>1, <2>2 DEF BeginCycle, Set, At, history
  <1>5. ASSUME NEW p \in Entries, SkipCycle(p) \/ RecordCounted(p)
        PROVE CandleUnused' /\ MadeOnce'
    <2>1. /\ UNCHANGED <<call, candle, made>>
          /\ loop' = [loop EXCEPT ![p] = "due"] /\ looking' = [looking EXCEPT ![p] = 0]
          /\ wake' = [wake EXCEPT ![p] = 0]
      BY <1>5 DEF SkipCycle, RecordCounted, Record, Set, vars, history
    <2>2. ~At(p, "deciding")
      BY <1>5 DEF SkipCycle, RecordCounted, Awake, CallsInCycle, At
    <2>. QED
      BY <2>1, <2>2 DEF At
  <1>6. ASSUME NEW p \in Entries, DropCycle(p) \/ Conclude(p) \/ Count(p) \/ FailCycle(p)
        PROVE CandleUnused' /\ MadeOnce'
    <2>1. call'[p].stage = "idle" /\ \A q \in Entries \ {p} : call'[q] = call[q]
      BY <1>6, OwnCall, CallEnds DEF DropCycle, Conclude, Count, FailCycle
    <2>2. /\ \A q \in Entries \ {p} : loop'[q] = loop[q] /\ looking'[q] = looking[q]
          /\ \A q \in Entries \ {p} : wake'[q] = wake[q]
          /\ loop'[p] \in {"due", "counting"} /\ UNCHANGED <<candle, made>>
      BY <1>6 DEF DropCycle, Conclude, Count, FailCycle, Record, Set, history
    <2>. QED
      BY <2>1, <2>2 DEF At
  <1>7. ASSUME NEW p \in Entries, NEW k \in Keys, Submit(p, k) PROVE CandleUnused' /\ MadeOnce'
    <2>1. \A q \in Entries \ {p} : call'[q] = call[q]
      BY <1>7, OwnCall DEF Submit
    <2>2. call'[p].stage = "preflight"
      BY <1>7 DEF Submit, BeginNew, Become, CallTyped
    <2>3. At(p, "deciding") /\ loop[p] = "cycle"
      BY <1>7 DEF Submit, InCycle, BeginNew, MayBegin
    <2>4. \A q \in Entries \ {p} : ~At(q, "deciding")' /\ loop'[q] # "asleep"
      BY <1>7, <2>1, <2>3 DEF Submit, Alone, Working, CallsInCycle, At
    <2>5. ~At(p, "deciding")' /\ loop'[p] # "asleep" /\ looking[p] \in 1..candle
      BY <1>7, <2>2, <2>3 DEF Submit, At, CallsInCycle
    <2>6. \A j \in Keys : made[j] < looking[p]
      BY <2>3
    <2>. QED
      BY <1>7, <2>4, <2>5, <2>6 DEF Submit
  <1>8. ASSUME NEW p \in Entries, Send(p) PROVE CandleUnused' /\ MadeOnce'
    <2>1. call'[p].stage = "sending" /\ \A q \in Entries \ {p} : call'[q] = call[q]
      BY <1>8, OwnCall DEF Send, OrderSend, Become, CallTyped
    <2>. QED
      BY <1>8, <2>1 DEF Send, desk, At
  <1>9. ASSUME NEW p \in Entries, Stop(p) \/ Crash(p) PROVE CandleUnused' /\ MadeOnce'
    <2>1. call'[p].stage = "idle" /\ \A q \in Entries \ {p} : call'[q] = call[q]
      BY <1>9, OwnCall, CallEnds DEF Stop, Crash, Leave, Abandon, vars, CallsInCycle, At
    <2>2. PICK stage \in {"off", "leaving", "left"} : loop' = [loop EXCEPT ![p] = stage]
      BY <1>9 DEF Stop, Crash, Leave, Set
    <2>3. /\ looking' = [looking EXCEPT ![p] = 0] /\ wake' = [wake EXCEPT ![p] = 0]
          /\ UNCHANGED <<candle, made>>
      BY <1>9 DEF Stop, Crash, Leave, history
    <2>. QED
      BY <2>1, <2>2, <2>3 DEF At
  <1>10. CASE CandleCloses
    BY <1>10 DEF CandleCloses, vars, At, history
  <1>11. CASE Reboot
    BY <1>11 DEF Reboot, Restart, Idle, At, history
  <1>12. CASE Elsewhere
    BY <1>12, TerminalCall DEF Elsewhere, desk, At
  <1>. QED
    BY <1>2, <1>3, <1>4, <1>5, <1>6, <1>7, <1>8, <1>9, <1>10, <1>11, <1>12 DEF DeskNext

\* The invariant holds of every behaviour.
LEMMA DeskInvariance == DeskSpec => []DeskInv
  <1>1. DeskInv /\ [DeskNext]_deskVars => DeskInv'
    <2>. SUFFICES ASSUME DeskInv, [DeskNext]_deskVars PROVE DeskInv'
      OBVIOUS
    <2>1. CallTyped'
      BY StepImplements, CallStaysTyped DEF DeskInv
    <2>. QED
      BY <2>1, TypesHold, CallsStay, StopStays, AloneStays, CandlesStay DEF DeskInv
  <1>. QED
    BY <1>1, DeskInitHolds, PTL DEF DeskSpec

-----------------------------------------------------------------------------
(* The room for positions.  A position and a request on its way take a place *)
(* each.  A request that nobody waits for and no stored answer settles is a  *)
(* lost answer, or one that did not tell; so while one process calls at a    *)
(* time a cycle that found room leaves a place for its own order, and one    *)
(* more for every answer lost or untold.                                     *)

Taken == Cardinality(open) + Cardinality(wire)
Allowed == MaxOpen + lost + Cardinality(Untold)
Held(c) == call[c].stage \in {"sending", "answered"}
Holding(r) == Held(r.from) /\ call[r.from].key = r.key
Orphans == {r \in wire : ~Holding(r)}
OneCall == \A p, q \in Callers : ~At(p, "idle") /\ ~At(q, "idle") => p = q
Deciding(c) == At(c, "deciding") \/ At(c, "preflight")
OnWire == {r.key : r \in wire}

TerminalTyped ==
  /\ IsFiniteSet(wire) /\ IsFiniteSet(open)
  /\ wire \subseteq [from : Callers, key : Keys]
  /\ lost \in Nat
  /\ row \in [Keys -> {"NONE", "PENDING"} \cup Answered]
  /\ told \in [Keys -> TerminalAnswers \cup {"none"}]

\* An entry's key is used once: nothing is stored of it or sent before its call,
\* and while its call waits its answer is not stored.
OneUse ==
  /\ \A k \in Keys : row[k] = "NONE" => told[k] = "none" /\ k \notin OnWire
  /\ \A c \in Callers :
       /\ At(c, "preflight") \/ Held(c) => call[c].key \in Keys /\ told[call[c].key] = "none"
       /\ At(c, "preflight") => call[c].key \notin OnWire
       /\ At(c, "answered") /\ call[c].answer \notin Early => call[c].key \notin OnWire
  /\ \A r, s \in wire : r.key = s.key => r = s

Room ==
  /\ Cardinality(Orphans) <= lost + Cardinality(Untold)
  /\ Taken <= Allowed
  /\ \A c \in Callers : Deciding(c) => Taken < Allowed

\* One element more.
LEMMA OneMore ==
  ASSUME NEW S, IsFiniteSet(S), NEW x
  PROVE  /\ IsFiniteSet(S \cup {x}) /\ Cardinality(S \cup {x}) \in Nat
         /\ Cardinality(S \cup {x}) <= Cardinality(S) + 1
         /\ x \notin S => Cardinality(S \cup {x}) = Cardinality(S) + 1
  <1>1. /\ IsFiniteSet(S \cup {x})
        /\ Cardinality(S \cup {x}) = IF x \in S THEN Cardinality(S) ELSE Cardinality(S) + 1
    BY FS_AddElement
  <1>2. Cardinality(S) \in Nat /\ Cardinality(S \cup {x}) \in Nat
    BY <1>1, FS_CardinalityType
  <1>. QED
    BY <1>1, <1>2

\* The cardinalities involved are numbers.
LEMMA PlacesAreNumbers ==
  ASSUME TerminalTyped
  PROVE  /\ Cardinality(open) \in Nat /\ Cardinality(wire) \in Nat /\ Taken \in Nat
         /\ IsFiniteSet(Orphans) /\ Cardinality(Orphans) \in Nat
         /\ Cardinality(Orphans) <= Cardinality(wire)
         /\ IsFiniteSet(Untold) /\ Cardinality(Untold) \in Nat
         /\ Allowed \in Nat /\ MaxOpen \in Nat /\ lost \in Nat
  <1>. USE ConstantsAssumption DEF ConstantsAssumption
  <1>1. Orphans \in SUBSET wire
    BY DEF Orphans
  <1>2. Cardinality(open) \in Nat /\ Cardinality(wire) \in Nat
    BY FS_CardinalityType DEF TerminalTyped
  <1>3. IsFiniteSet(Orphans) /\ Cardinality(Orphans) <= Cardinality(wire)
    BY <1>1, FS_Subset DEF TerminalTyped
  <1>4. Cardinality(Orphans) \in Nat
    BY <1>3, FS_CardinalityType
  <1>5. Untold \in SUBSET Keys
    BY DEF Untold
  <1>6. IsFiniteSet(Untold) /\ Cardinality(Untold) \in Nat
    BY <1>5, FS_Subset, FS_CardinalityType
  <1>. QED
    BY <1>2, <1>3, <1>4, <1>6 DEF Taken, Allowed, TerminalTyped

-----------------------------------------------------------------------------
(* A key is used once.                                                       *)

\* Steps that send and store nothing and take no new key keep it so.
LEMMA UseWhenQuiet ==
  ASSUME OneUse, UNCHANGED <<row, told, wire>>,
         \A d \in Callers : call'[d] = call[d] \/ call'[d].stage \in {"idle", "deciding"}
  PROVE  OneUse'
  BY DEF OneUse, OnWire, Held, At

\* A rejection before the terminal is reached.
LEMMA UseWhenRejected ==
  ASSUME OneUse, TerminalTyped, CallTyped, NEW c \in Callers, NEW k, Reject(c, k)
  PROVE  OneUse'
  <1>1. /\ UNCHANGED <<told, wire>> /\ call' = [call EXCEPT ![c] = Idle]
        /\ row' = [row EXCEPT ![k] = "REJECTED"]
    BY DEF Reject, terminal
  <1>2. \A j \in Keys : row'[j] = "NONE" => row[j] = "NONE"
    BY <1>1 DEF TerminalTyped
  <1>3. \A d \in Callers : call'[d] = call[d] \/ call'[d].stage = "idle"
    BY <1>1 DEF CallTyped, Idle
  <1>. QED
    BY <1>1, <1>2, <1>3 DEF OneUse, OnWire, Held, At

\* A cycle takes a key of which nothing is stored.
LEMMA UseWhenBegun ==
  ASSUME OneUse, TerminalTyped, CallTyped, NEW c \in Entries, NEW k \in Keys, BeginNew(c, k)
  PROVE  OneUse'
  <1>1. /\ UNCHANGED <<told, wire>> /\ row' = [row EXCEPT ![k] = "PENDING"]
        /\ call' = [call EXCEPT ![c] = [stage |-> "preflight", key |-> k, answer |-> "none"]]
    BY DEF BeginNew, terminal, Become
  <1>2. told[k] = "none" /\ k \notin OnWire
    BY DEF BeginNew, MayBegin, Unused, OneUse
  <1>3. \A j \in Keys : row'[j] = "NONE" => row[j] = "NONE"
    BY <1>1 DEF TerminalTyped
  <1>4. ASSUME NEW d \in Callers
        PROVE call'[d] = call[d]
              \/ (call'[d].stage = "preflight" /\ call'[d].key = k)
    BY <1>1 DEF CallTyped
  <1>. QED
    BY <1>1, <1>2, <1>3, <1>4 DEF OneUse, OnWire, Held, At

\* The only call in progress sends its key, which was not sent before.
LEMMA UseWhenSent ==
  ASSUME OneUse, OneCall, TerminalTyped, CallTyped, NEW c \in Callers, OrderSend(c)
  PROVE  OneUse'
  <1> DEFINE k == call[c].key
             r == [from |-> c, key |-> k]
  <1>1. /\ told' = told /\ wire' = wire \cup {r} /\ row' = [row EXCEPT ![k] = "SUBMITTED"]
        /\ call' = [call EXCEPT ![c] = [stage |-> "sending", key |-> k, answer |-> "none"]]
        /\ At(c, "preflight")
    BY DEF OrderSend, Become
  <1>2. k \in Keys /\ told[k] = "none" /\ k \notin OnWire
    BY <1>1 DEF OneUse
  <1>3. \A j \in Keys : row'[j] = "NONE" => row[j] = "NONE" /\ j # k
    BY <1>1 DEF TerminalTyped
  <1>4. \A d \in Callers : d # c => call'[d].stage = "idle"
    BY <1>1 DEF CallTyped, OneCall, At
  <1>5. call'[c].stage = "sending" /\ call'[c].key = k
    BY <1>1 DEF CallTyped
  <1>6. r.key = k
    OBVIOUS
  <1> HIDE DEF k, r
  <1>7. \A s, t \in wire' : s.key = t.key => s = t
    BY <1>1, <1>2, <1>6 DEF OneUse, OnWire
  <1>8. \A j \in Keys : row'[j] = "NONE" => told'[j] = "none" /\ j \notin OnWire'
    BY <1>1, <1>3, <1>6 DEF OneUse, OnWire
  <1>9. ASSUME NEW d \in Callers
        PROVE /\ (At(d, "preflight") \/ Held(d))' =>
                   call'[d].key \in Keys /\ told'[call'[d].key] = "none"
              /\ ~At(d, "preflight")' /\ ~At(d, "answered")'
    BY <1>1, <1>2, <1>4, <1>5 DEF At, Held
  <1>. QED
    BY <1>7, <1>8, <1>9 DEF OneUse

\* The terminal decides or answers.
LEMMA UseAtTerminal ==
  ASSUME OneUse, TerminalTyped, CallTyped, NEW r \in wire,
         Execute(r) \/ TurnDown(r) \/ AnswerEarly(r)
  PROVE  OneUse'
  <1> DEFINE k == r.key
  <1>1. UNCHANGED <<row, told>> /\ wire' \subseteq wire /\ k \in Keys
    BY DEF Execute, TurnDown, AnswerEarly, terminal, TerminalTyped
  <1>2. PICK answer \in TerminalAnswers :
          Answer(r, answer) /\ (answer \notin Early => wire' = wire \ {r})
    BY DEF Execute, TurnDown, AnswerEarly, TerminalAnswers, Early
  <1>3. ASSUME NEW d \in Callers
        PROVE \/ call'[d] = call[d]
              \/ /\ At(d, "sending") /\ call[d].key = k
                 /\ call'[d] = [stage |-> "answered", key |-> k, answer |-> answer]
    BY <1>2 DEF Answer, Waiting, CallTyped, At
  <1>4. \A j \in Keys : j \notin OnWire => j \notin OnWire'
    BY <1>1 DEF OnWire
  <1>5. answer \notin Early => k \notin OnWire'
    BY <1>2 DEF OnWire, OneUse
  <1>6. ASSUME NEW d \in Callers, At(d, "preflight")' \/ Held(d)'
        PROVE call'[d].key \in Keys /\ told'[call'[d].key] = "none"
    <2>1. call'[d].key = call[d].key /\ (At(d, "preflight") \/ Held(d))
      BY <1>3, <1>6 DEF At, Held
    <2>. QED
      BY <1>1, <2>1 DEF OneUse
  <1>7. ASSUME NEW d \in Callers, At(d, "preflight")'
        PROVE call'[d].key \notin OnWire'
    <2>1. At(d, "preflight") /\ call'[d].key = call[d].key
      BY <1>3, <1>7 DEF At
    <2>. QED
      BY <1>4, <2>1 DEF OneUse
  <1>8. ASSUME NEW d \in Callers, At(d, "answered")', call'[d].answer \notin Early
        PROVE call'[d].key \notin OnWire'
    <2>1. CASE call'[d] = call[d]
      <3>1. At(d, "answered") /\ call[d].answer \notin Early /\ call'[d].key = call[d].key
        BY <1>8, <2>1 DEF At
      <3>. QED
        BY <1>4, <3>1 DEF OneUse, Held, At
    <2>2. CASE call'[d] # call[d]
      <3>1. answer \notin Early /\ call'[d].key = k
        BY <1>3, <1>8, <2>2
      <3>. QED
        BY <1>5, <3>1
    <2>. QED
      BY <2>1, <2>2
  <1>9. \A s, t \in wire' : s.key = t.key => s = t
    BY <1>1 DEF OneUse
  <1>10. \A j \in Keys : row'[j] = "NONE" => told'[j] = "none" /\ j \notin OnWire'
    BY <1>1, <1>4 DEF OneUse
  <1> HIDE DEF k
  <1>. QED
    BY <1>6, <1>7, <1>8, <1>9, <1>10 DEF OneUse

\* The answer is stored when its call ends.
LEMMA UseWhenStored ==
  ASSUME OneUse, OneCall, TerminalTyped, CallTyped, NEW c \in Callers, StoreAnswer(c)
  PROVE  OneUse'
  <1> DEFINE k == call[c].key
  <1>1. /\ wire' = wire /\ call' = [call EXCEPT ![c] = Idle] /\ At(c, "answered")
        /\ told' = [told EXCEPT ![k] = call[c].answer]
        /\ row' = [row EXCEPT ![k] = StateFromRetcode(call[c].answer)]
    BY DEF StoreAnswer, terminal
  <1>2. StateFromRetcode(call[c].answer) # "NONE"
    BY DEF StateFromRetcode
  <1>3. \A d \in Callers : call'[d].stage = "idle"
    BY <1>1 DEF CallTyped, OneCall, At, Idle
  <1> HIDE DEF k
  <1>4. \A j \in Keys : row'[j] = "NONE" => row[j] = "NONE" /\ told'[j] = told[j]
    BY <1>1, <1>2 DEF TerminalTyped
  <1>. QED
    BY <1>1, <1>3, <1>4 DEF OneUse, OnWire, Held, At

LEMMA UseStays ==
  ASSUME OneUse, OneCall, TerminalTyped, CallTyped, Callers = Entries, [Next]_vars
  PROVE  OneUse'
  <1>1. ASSUME NEW c \in Callers,
               \/ StartCycle(c) \/ EndCycle(c) \/ TerminalNotReady(c) \/ AnswerLost(c)
               \/ \E k \in Keys : BeginDuplicate(c, k)
        PROVE OneUse'
    <2>1. UNCHANGED <<row, told, wire>>
      BY <1>1 DEF StartCycle, EndCycle, TerminalNotReady, AnswerLost, BeginDuplicate, terminal
    <2>2. PICK new : call' = [call EXCEPT ![c] = new] /\ new.stage \in {"idle", "deciding"}
      <3>1. CASE StartCycle(c)
        <4> DEFINE new == [stage |-> "deciding", key |-> NoKey, answer |-> "none"]
        <4>1. call' = [call EXCEPT ![c] = new] /\ new.stage = "deciding"
          BY <3>1 DEF StartCycle, Become
        <4> HIDE DEF new
        <4>. QED
          BY <4>1
      <3>2. CASE ~StartCycle(c)
        <4>1. call' = [call EXCEPT ![c] = Idle] /\ Idle.stage = "idle"
          BY <1>1, <3>2 DEF EndCycle, TerminalNotReady, AnswerLost, BeginDuplicate, Idle
        <4>. QED
          BY <4>1
      <3>. QED
        BY <3>1, <3>2
    <2>. QED
      BY <2>1, <2>2, UseWhenQuiet DEF CallTyped
  <1>2. ASSUME NEW c \in Callers, PreflightFails(c) \/ \E k \in Keys : BeginRefused(c, k)
        PROVE OneUse'
    BY <1>2, UseWhenRejected DEF PreflightFails, BeginRefused
  <1>3. CASE Restart
    BY <1>3, UseWhenQuiet DEF Restart, Idle, terminal
  <1>4. ASSUME NEW k \in open, ClosePosition(k) PROVE OneUse'
    BY <1>4, UseWhenQuiet DEF ClosePosition
  <1>5. CASE Refresh \/ UNCHANGED vars
    BY <1>5, UseWhenQuiet DEF Refresh, vars, terminal
  <1>. QED
    BY <1>1, <1>2, <1>3, <1>4, <1>5, UseWhenBegun, UseWhenSent, UseAtTerminal, UseWhenStored
       DEF Next

-----------------------------------------------------------------------------
(* There is room.                                                            *)

\* A call that neither was nor is at the terminal makes no orphan.
LEMMA QuietCall ==
  ASSUME CallTyped, TerminalTyped, NEW c \in Callers, NEW new,
         ~Held(c), new.stage \notin {"sending", "answered"},
         call' = [call EXCEPT ![c] = new], wire' = wire
  PROVE  Orphans' = Orphans
  <1>1. ASSUME NEW r \in wire PROVE Holding(r)' <=> Holding(r)
    <2>1. r.from \in Callers
      BY DEF TerminalTyped
    <2>. QED
      BY <2>1 DEF Holding, Held, CallTyped
  <1>. QED
    BY <1>1 DEF Orphans

\* What a step leaves alone of the terminal keeps its places and its types.
LEMMA PlacesStay ==
  ASSUME TerminalTyped, UNCHANGED <<wire, open, lost, told>>,
         row' \in [Keys -> {"NONE", "PENDING"} \cup Answered]
  PROVE  TerminalTyped' /\ Taken' = Taken /\ Untold' = Untold /\ Allowed' = Allowed
  <1>1. Untold' = Untold
    BY DEF Untold
  <1>. QED
    BY <1>1 DEF TerminalTyped, Taken, Allowed

\* What the stages before sending do to the places: nothing, and a cycle begins
\* only where there is one left.
LEMMA RoomBeforeSending ==
  ASSUME CallTyped, TerminalTyped, Room, OneCall', NEW c \in Callers,
         \/ StartCycle(c) \/ EndCycle(c) \/ PreflightFails(c) \/ TerminalNotReady(c)
         \/ \E k \in Keys : BeginRefused(c, k) \/ BeginDuplicate(c, k) \/ BeginNew(c, k),
         Callers = Entries
  PROVE  TerminalTyped' /\ Room'
  <1>1. PICK new :
          /\ call' = [call EXCEPT ![c] = new] /\ new.stage \notin {"sending", "answered"}
          /\ new.stage \in {"deciding", "preflight"} => Deciding(c) \/ StartCycle(c)
          /\ StartCycle(c) => new.stage = "deciding"
    <2>1. CASE StartCycle(c)
      <3> DEFINE new == [stage |-> "deciding", key |-> NoKey, answer |-> "none"]
      <3>1. call' = [call EXCEPT ![c] = new] /\ new.stage = "deciding"
        BY <2>1 DEF StartCycle, Become
      <3> HIDE DEF new
      <3>. QED
        BY <2>1, <3>1
    <2>2. CASE ~StartCycle(c) /\ \E k \in Keys : BeginNew(c, k)
      <3>1. PICK k \in Keys : BeginNew(c, k)
        BY <2>2
      <3> DEFINE new == [stage |-> "preflight", key |-> k, answer |-> "none"]
      <3>2. call' = [call EXCEPT ![c] = new] /\ new.stage = "preflight"
        BY <3>1 DEF BeginNew, Become
      <3>3. Deciding(c)
        BY <3>1 DEF BeginNew, MayBegin, Deciding
      <3> HIDE DEF new
      <3>. QED
        BY <2>2, <3>2, <3>3
    <2>3. CASE ~StartCycle(c) /\ ~\E k \in Keys : BeginNew(c, k)
      <3>1. call' = [call EXCEPT ![c] = Idle]
        BY <2>3 DEF EndCycle, PreflightFails, TerminalNotReady, BeginRefused, BeginDuplicate,
                    Reject
      <3>2. Idle.stage = "idle"
        BY DEF Idle
      <3>. QED
        BY <2>3, <3>1, <3>2
    <2>. QED
      BY <2>1, <2>2, <2>3
  <1>2. ~Held(c) /\ UNCHANGED <<wire, open, lost, told>>
    BY DEF StartCycle, EndCycle, PreflightFails, TerminalNotReady, BeginRefused,
           BeginDuplicate, BeginNew, Become, Reject, MayBegin, At, Held, terminal
  <1>3. row' \in [Keys -> {"NONE", "PENDING"} \cup Answered]
    BY DEF StartCycle, EndCycle, PreflightFails, TerminalNotReady, BeginRefused,
           BeginDuplicate, BeginNew, Reject, TerminalTyped, Answered
  <1>4. /\ TerminalTyped' /\ Orphans' = Orphans
        /\ Taken' = Taken /\ Untold' = Untold /\ Allowed' = Allowed
    BY <1>1, <1>2, <1>3, QuietCall, PlacesStay
  <1>5. ASSUME StartCycle(c) PROVE Taken < Allowed
    <2>1. ASSUME NEW r \in wire PROVE r \in Orphans
      <3>1. r.from \in Callers
        BY DEF TerminalTyped
      <3>2. call'[c].stage = "deciding"
        BY <1>1, <1>5 DEF CallTyped
      <3>3. Held(r.from) => r.from # c /\ call'[r.from] = call[r.from]
        BY <1>1, <1>2, <3>1 DEF CallTyped
      <3>4. ~Held(r.from)
        BY <3>1, <3>2, <3>3 DEF OneCall, At, Held
      <3>. QED
        BY <3>4 DEF Orphans, Holding
    <2>2. Orphans = wire
      BY <2>1 DEF Orphans
    <2>3. Cardinality(open) < MaxOpen /\ Cardinality(wire) <= lost + Cardinality(Untold)
      BY <1>5, <2>2 DEF StartCycle, Room
    <2>. QED
      BY <2>3, PlacesAreNumbers DEF Taken, Allowed
  <1>6. ASSUME NEW d \in Callers, Deciding(d)' PROVE Taken < Allowed
    <2>1. CASE d = c
      <3>1. new.stage \in {"deciding", "preflight"}
        BY <1>1, <1>6, <2>1 DEF Deciding, At, CallTyped
      <3>. QED
        BY <1>1, <1>5, <3>1 DEF Room
    <2>2. CASE d # c
      BY <1>1, <1>6, <2>2 DEF Deciding, At, CallTyped, Room
    <2>. QED
      BY <2>1, <2>2
  <1>. QED
    BY <1>2, <1>4, <1>6 DEF Room

\* The order goes out to the place its cycle found, and while it waits nobody
\* else decides.
LEMMA RoomAtSending ==
  ASSUME CallTyped, TerminalTyped, OneUse, Room, OneCall, NEW c \in Callers, OrderSend(c)
  PROVE  TerminalTyped' /\ Room'
  <1> DEFINE r == [from |-> c, key |-> call[c].key]
  <1>1. /\ wire' = wire \cup {r} /\ UNCHANGED <<open, lost, told>>
        /\ call' = [call EXCEPT ![c] = [stage |-> "sending", key |-> call[c].key,
                                        answer |-> "none"]]
        /\ row' = [row EXCEPT ![call[c].key] = "SUBMITTED"] /\ At(c, "preflight")
    BY DEF OrderSend, Become
  <1>2. r \in [from : Callers, key : Keys]
    BY <1>1 DEF OneUse
  <1>3. Untold' = Untold
    BY <1>1 DEF Untold
  <1>4. ASSUME NEW s \in wire' PROVE s = r \/ s \in Orphans
    <2>1. s = r \/ s \in wire
      BY <1>1
    <2>2. s \in wire => ~Held(s.from)
      BY <1>1 DEF OneCall, TerminalTyped, At, Held
    <2>. QED
      BY <2>1, <2>2 DEF Orphans, Holding
  <1>5. r \notin Orphans'
    BY <1>1 DEF Orphans, Holding, Held, CallTyped
  <1> HIDE DEF r
  <1>6. IsFiniteSet(wire') /\ Cardinality(wire') <= Cardinality(wire) + 1
    <2>1. IsFiniteSet(wire)
      BY DEF TerminalTyped
    <2>2. /\ IsFiniteSet(wire \cup {r})
          /\ Cardinality(wire \cup {r}) =
               IF r \in wire THEN Cardinality(wire) ELSE Cardinality(wire) + 1
      BY <2>1, FS_AddElement
    <2>. QED
      BY <1>1, <2>2, PlacesAreNumbers
  <1>7. TerminalTyped'
    <2>1. wire' \subseteq [from : Callers, key : Keys]
      BY <1>1, <1>2 DEF TerminalTyped
    <2>. QED
      BY <1>1, <1>6, <2>1 DEF TerminalTyped, Answered
  <1>8. Cardinality(Orphans') <= lost + Cardinality(Untold)
    <2>1. Orphans' \in SUBSET Orphans
      BY <1>4, <1>5 DEF Orphans
    <2>2. Cardinality(Orphans') <= Cardinality(Orphans)
      BY <2>1, FS_Subset, PlacesAreNumbers
    <2>3. Cardinality(Orphans') \in Nat
      BY <2>1, FS_Subset, FS_CardinalityType, PlacesAreNumbers
    <2>. QED
      BY <2>2, <2>3, PlacesAreNumbers DEF Room
  <1>9. Taken' <= Allowed
    <2>1. Taken < Allowed
      BY <1>1 DEF Room, Deciding
    <2>2. Cardinality(wire') \in Nat
      BY <1>6, FS_CardinalityType
    <2>. QED
      BY <1>1, <1>6, <2>1, <2>2, PlacesAreNumbers DEF Taken
  <1>10. ASSUME NEW d \in Callers, Deciding(d)' PROVE FALSE
    BY <1>1, <1>10 DEF Deciding, At, OneCall, CallTyped
  <1>. QED
    BY <1>1, <1>3, <1>7, <1>8, <1>9, <1>10 DEF Room, Allowed

\* A caller that gives up adds at most its own request to the orphans, and
\* counts it as lost.
LEMMA RoomAfterLoss ==
  ASSUME CallTyped, TerminalTyped, Room, NEW c \in Callers, AnswerLost(c)
  PROVE  TerminalTyped' /\ Room'
  <1> DEFINE r == [from |-> c, key |-> call[c].key]
  <1>1. /\ UNCHANGED <<wire, open, row, told>> /\ lost' = lost + 1
        /\ call' = [call EXCEPT ![c] = Idle]
    BY DEF AnswerLost, terminal
  <1>2. TerminalTyped' /\ Taken' = Taken /\ Untold' = Untold
    BY <1>1 DEF TerminalTyped, Taken, Untold
  <1>3. ASSUME NEW s \in Orphans', s \notin Orphans PROVE s = r
    <2>1. s \in wire /\ Holding(s) /\ ~Holding(s)'
      BY <1>1, <1>3 DEF Orphans
    <2>2. s \in [from : Callers, key : Keys]
      BY <2>1 DEF TerminalTyped
    <2>3. s.from = c /\ s.key = call[c].key
      BY <1>1, <2>1, <2>2 DEF Holding, Held, CallTyped
    <2>. QED
      BY <2>2, <2>3
  <1> HIDE DEF r
  <1>4. Cardinality(Orphans') <= lost + Cardinality(Untold) + 1
    <2>1. Orphans' \in SUBSET (Orphans \cup {r})
      BY <1>3
    <2>2. /\ IsFiniteSet(Orphans \cup {r})
          /\ Cardinality(Orphans \cup {r}) <= Cardinality(Orphans) + 1
      BY OneMore, PlacesAreNumbers
    <2>3. /\ Cardinality(Orphans') <= Cardinality(Orphans \cup {r})
          /\ Cardinality(Orphans') \in Nat /\ Cardinality(Orphans \cup {r}) \in Nat
      BY <2>1, <2>2, FS_Subset, FS_CardinalityType
    <2>. QED
      BY <2>2, <2>3, PlacesAreNumbers DEF Room
  <1>5. ASSUME NEW d \in Callers, Deciding(d)' PROVE Deciding(d)
    BY <1>1, <1>5 DEF Deciding, At, Idle, CallTyped
  <1>6. Allowed' = Allowed + 1
    BY <1>1, <1>2, PlacesAreNumbers DEF Allowed
  <1>. QED
    BY <1>1, <1>2, <1>4, <1>5, <1>6, PlacesAreNumbers DEF Room

\* An answer that settles its request leaves none of it on the way; one that
\* does not counts as untold.
LEMMA RoomWhenStored ==
  ASSUME CallTyped, TerminalTyped, OneUse, Room, OneCall, NEW c \in Callers, StoreAnswer(c)
  PROVE  TerminalTyped' /\ Room'
  <1> DEFINE k == call[c].key
             r == [from |-> c, key |-> k]
             answer == call[c].answer
  <1>1. /\ UNCHANGED <<wire, open, lost>> /\ call' = [call EXCEPT ![c] = Idle]
        /\ told' = [told EXCEPT ![k] = answer] /\ At(c, "answered")
        /\ row' = [row EXCEPT ![k] = StateFromRetcode(answer)]
    BY DEF StoreAnswer, terminal
  <1>2. /\ k \in Keys /\ told[k] = "none" /\ answer \in TerminalAnswers \cup {"none"}
        /\ answer \notin Early => k \notin OnWire
    BY <1>1 DEF OneUse, Held, At, CallTyped
  <1>3. ASSUME NEW d \in Callers, Deciding(d)' PROVE FALSE
    BY <1>1, <1>3 DEF Deciding, OneCall, At, Idle, CallTyped
  <1>4. ASSUME NEW s \in wire, s \notin Orphans PROVE s = r
    <2>1. s \in [from : Callers, key : Keys] /\ Holding(s)
      BY <1>4 DEF TerminalTyped, Orphans
    <2>2. s.from = c
      BY <1>1, <2>1 DEF Holding, Held, OneCall, At
    <2>. QED
      BY <2>1, <2>2 DEF Holding
  <1>5. r.key = k
    OBVIOUS
  <1>6. TerminalTyped' /\ Taken' = Taken
    <2>1. StateFromRetcode(answer) \in Answered
      BY DEF StateFromRetcode, Answered
    <2> HIDE DEF k, answer
    <2>. QED
      BY <1>1, <1>2, <2>1 DEF TerminalTyped, Taken
  <1> HIDE DEF k, r, answer
  <1>7. Orphans' \in SUBSET wire
    BY <1>1 DEF Orphans
  <1>8. Orphans' \in SUBSET (Orphans \cup {r}) /\ (answer \notin Early => Orphans' \in SUBSET Orphans)
    BY <1>2, <1>4, <1>5, <1>7 DEF OnWire
  <1>9. Cardinality(Untold') = IF answer \in Early THEN Cardinality(Untold) + 1
                               ELSE Cardinality(Untold)
    <2>1. "none" \notin Early
      BY DEF Early
    <2>2. Untold' = IF answer \in Early THEN Untold \cup {k} ELSE Untold
      BY <1>1, <1>2, <2>1 DEF Untold, TerminalTyped
    <2>3. k \notin Untold
      BY <1>2, <2>1 DEF Untold
    <2>. QED
      BY <2>2, <2>3, OneMore, PlacesAreNumbers
  <1>10. Cardinality(Orphans') <= Cardinality(Orphans) + (IF answer \in Early THEN 1 ELSE 0)
    <2>1. CASE answer \in Early
      <3>1. /\ IsFiniteSet(Orphans \cup {r})
            /\ Cardinality(Orphans \cup {r}) <= Cardinality(Orphans) + 1
        BY OneMore, PlacesAreNumbers
      <3>2. /\ Cardinality(Orphans') <= Cardinality(Orphans \cup {r})
            /\ Cardinality(Orphans') \in Nat /\ Cardinality(Orphans \cup {r}) \in Nat
        BY <1>8, <3>1, FS_Subset, FS_CardinalityType
      <3>. QED
        BY <2>1, <3>1, <3>2, PlacesAreNumbers
    <2>2. CASE answer \notin Early
      BY <1>8, <2>2, FS_Subset, PlacesAreNumbers
    <2>. QED
      BY <2>1, <2>2
  <1>11. Cardinality(Orphans') \in Nat
    BY <1>8, <1>7, FS_Subset, FS_CardinalityType DEF TerminalTyped
  <1>. QED
    BY <1>1, <1>3, <1>6, <1>9, <1>10, <1>11, PlacesAreNumbers DEF Room, Allowed

\* A request becomes a position, or nothing, or is answered before that.
LEMMA RoomAtTerminal ==
  ASSUME CallTyped, TerminalTyped, Room, NEW r \in wire,
         Execute(r) \/ TurnDown(r) \/ AnswerEarly(r)
  PROVE  TerminalTyped' /\ Room'
  <1>1. UNCHANGED <<lost, row, told>> /\ wire' \subseteq wire
    BY DEF Execute, TurnDown, AnswerEarly, terminal
  <1>2. \/ wire' = wire /\ open' = open
        \/ wire' = wire \ {r} /\ (open' = open \/ \E k : open' = open \cup {k})
    BY DEF Execute, TurnDown, AnswerEarly, terminal
  <1>3. /\ IsFiniteSet(wire \ {r}) /\ Cardinality(wire \ {r}) = Cardinality(wire) - 1
        /\ Cardinality(wire \ {r}) \in Nat
    BY FS_RemoveElement, FS_CardinalityType DEF TerminalTyped
  <1>4. ASSUME NEW k
        PROVE /\ IsFiniteSet(open \cup {k})
              /\ Cardinality(open \cup {k}) <= Cardinality(open) + 1
              /\ Cardinality(open \cup {k}) \in Nat
    BY OneMore DEF TerminalTyped
  <1>5. Taken' <= Taken /\ Taken' \in Nat
    <2>1. CASE wire' = wire /\ open' = open
      BY <2>1, PlacesAreNumbers DEF Taken
    <2>2. CASE wire' = wire \ {r} /\ open' = open
      BY <1>3, <2>2, PlacesAreNumbers DEF Taken
    <2>3. ASSUME NEW k, wire' = wire \ {r}, open' = open \cup {k}
          PROVE Taken' <= Taken /\ Taken' \in Nat
      <3>1. /\ Cardinality(wire') = Cardinality(wire) - 1 /\ Cardinality(wire') \in Nat
            /\ Cardinality(open') <= Cardinality(open) + 1 /\ Cardinality(open') \in Nat
        BY <1>3, <1>4, <2>3
      <3>. QED
        BY <3>1, PlacesAreNumbers DEF Taken
    <2>. QED
      BY <1>2, <2>1, <2>2, <2>3
  <1>6. TerminalTyped'
    <2>1. IsFiniteSet(wire') /\ IsFiniteSet(open')
      BY <1>2, <1>3, <1>4 DEF TerminalTyped
    <2>. QED
      BY <1>1, <2>1 DEF TerminalTyped
  <1>7. ASSUME NEW d \in Callers
        PROVE call'[d] = call[d]
              \/ (call'[d].stage = "answered" /\ call'[d].key = call[d].key)
    <2>1. PICK answer : Answer(r, answer)
      BY DEF Execute, TurnDown, AnswerEarly
    <2>. QED
      BY <2>1 DEF Answer, Waiting, CallTyped
  <1>8. Orphans' \in SUBSET Orphans
    <2>1. ASSUME NEW s \in wire, Holding(s) PROVE Holding(s)'
      <3>1. s.from \in Callers
        BY DEF TerminalTyped
      <3>. QED
        BY <1>7, <2>1, <3>1 DEF Holding, Held
    <2>. QED
      BY <1>1, <2>1 DEF Orphans
  <1>9. Cardinality(Orphans') <= Cardinality(Orphans) /\ Cardinality(Orphans') \in Nat
    BY <1>8, FS_Subset, FS_CardinalityType, PlacesAreNumbers
  <1>10. ASSUME NEW d \in Callers, Deciding(d)' PROVE Deciding(d)
    BY <1>7, <1>10 DEF Deciding, At
  <1>11. Untold' = Untold /\ Allowed' = Allowed
    BY <1>1 DEF Untold, Allowed
  <1>. QED
    BY <1>1, <1>5, <1>6, <1>9, <1>10, <1>11, PlacesAreNumbers DEF Room

\* A restart makes orphans of the requests of those that were waiting.
LEMMA RoomAfterRestart ==
  ASSUME CallTyped, TerminalTyped, Room, OneCall, Restart
  PROVE  TerminalTyped' /\ Room'
  <1>1. /\ UNCHANGED <<wire, open, row, told>> /\ lost' = lost + Cardinality(Sending)
        /\ call' = [c \in Callers |-> Idle]
    BY DEF Restart, terminal
  <1>2. IsFiniteSet(Sending) /\ Cardinality(Sending) \in Nat
    <2>1. Sending \in SUBSET Callers
      BY DEF Sending
    <2>. QED
      BY <2>1, FS_Subset, FS_CardinalityType, ConstantsAssumption DEF ConstantsAssumption
  <1>3. TerminalTyped' /\ Taken' = Taken /\ Untold' = Untold
    BY <1>1, <1>2 DEF TerminalTyped, Taken, Untold
  <1>4. \A c \in Callers : c \in Sending <=> Held(c)
    BY DEF Sending, Held, At
  <1>5. Cardinality(wire) <= lost + Cardinality(Untold) + Cardinality(Sending)
    <2>1. CASE Sending = {}
      <3>1. wire = Orphans
        BY <1>4, <2>1 DEF Orphans, Holding, TerminalTyped
      <3>. QED
        BY <1>2, <3>1, PlacesAreNumbers DEF Room
    <2>2. CASE Sending # {}
      <3>1. PICK c \in Callers : c \in Sending
        BY <2>2 DEF Sending
      <3> DEFINE r == [from |-> c, key |-> call[c].key]
      <3>2. ASSUME NEW s \in wire, s \notin Orphans PROVE s = r
        <4>1. s \in [from : Callers, key : Keys] /\ Holding(s)
          BY <3>2 DEF TerminalTyped, Orphans
        <4>2. s.from = c
          BY <1>4, <3>1, <4>1 DEF Holding, Held, OneCall, At
        <4>. QED
          BY <4>1, <4>2 DEF Holding
      <3> HIDE DEF r
      <3>3. wire \in SUBSET (Orphans \cup {r})
        BY <3>2
      <3>4. /\ IsFiniteSet(Orphans \cup {r})
            /\ Cardinality(Orphans \cup {r}) <= Cardinality(Orphans) + 1
        BY OneMore, PlacesAreNumbers
      <3>5. /\ Cardinality(wire) <= Cardinality(Orphans \cup {r})
            /\ Cardinality(Orphans \cup {r}) \in Nat
        BY <3>3, <3>4, FS_Subset, FS_CardinalityType
      <3>6. Cardinality(Sending) >= 1
        BY <1>2, <2>2, FS_EmptySet
      <3>. QED
        BY <1>2, <3>4, <3>5, <3>6, PlacesAreNumbers DEF Room
    <2>. QED
      BY <2>1, <2>2
  <1>6. Cardinality(Orphans') <= lost' + Cardinality(Untold)
    <2>1. Orphans' \in SUBSET wire
      BY <1>1 DEF Orphans
    <2>2. Cardinality(Orphans') <= Cardinality(wire) /\ Cardinality(Orphans') \in Nat
      BY <2>1, FS_Subset, FS_CardinalityType DEF TerminalTyped
    <2>. QED
      BY <1>1, <1>2, <1>5, <2>2, PlacesAreNumbers
  <1>7. ASSUME NEW d \in Callers, Deciding(d)' PROVE FALSE
    BY <1>1, <1>7 DEF Deciding, At, Idle
  <1>. QED
    BY <1>1, <1>2, <1>3, <1>6, <1>7, PlacesAreNumbers DEF Room, Allowed

\* While one process calls at a time, there is room after every step.
LEMMA RoomStays ==
  ASSUME CallTyped, TerminalTyped, OneUse, Room, OneCall, OneCall', Callers = Entries,
         [Next]_vars
  PROVE  TerminalTyped' /\ Room'
  <1>1. CASE Refresh \/ UNCHANGED vars
    <2>1. UNCHANGED <<wire, open, lost, call, row, told>>
      BY <1>1 DEF Refresh, terminal, vars
    <2>2. /\ TerminalTyped' /\ Taken' = Taken /\ Untold' = Untold /\ Allowed' = Allowed
      BY <2>1, PlacesStay DEF TerminalTyped
    <2>. QED
      BY <2>1, <2>2 DEF Room, Orphans, Holding, Held, Deciding, At
  <1>2. ASSUME NEW k \in open, ClosePosition(k) PROVE TerminalTyped' /\ Room'
    <2>1. UNCHANGED <<wire, lost, call, row, told>> /\ open' = open \ {k}
      BY <1>2 DEF ClosePosition
    <2>2. /\ IsFiniteSet(open') /\ Cardinality(open') = Cardinality(open) - 1
          /\ Cardinality(open') \in Nat
      BY <2>1, FS_RemoveElement, FS_CardinalityType DEF TerminalTyped
    <2>3. TerminalTyped' /\ Orphans' = Orphans
      BY <2>1, <2>2 DEF TerminalTyped, Orphans, Holding, Held
    <2>4. Taken' <= Taken /\ Taken' \in Nat
      BY <2>1, <2>2, PlacesAreNumbers DEF Taken
    <2>5. \A d \in Callers : Deciding(d)' <=> Deciding(d)
      BY <2>1 DEF Deciding, At
    <2>6. Untold' = Untold /\ Allowed' = Allowed
      BY <2>1 DEF Untold, Allowed
    <2>. QED
      BY <2>1, <2>3, <2>4, <2>5, <2>6, PlacesAreNumbers DEF Room
  <1>. QED
    BY <1>1, <1>2, RoomBeforeSending, RoomAtSending, RoomAfterLoss, RoomWhenStored,
       RoomAtTerminal, RoomAfterRestart DEF Next

\* Initially nothing is sent or stored.
LEMMA RoomInit == DeskInit => TerminalTyped /\ OneUse /\ Room
  <1>. SUFFICES ASSUME DeskInit PROVE TerminalTyped /\ OneUse /\ Room
    OBVIOUS
  <1>1. /\ wire = {} /\ open = {} /\ lost = 0 /\ told = [k \in Keys |-> "none"]
        /\ row = [k \in Keys |-> "NONE"] /\ \A c \in Callers : call[c].stage = "idle"
    BY DEF DeskInit, Init, Idle
  <1>2. Orphans = {} /\ Untold = {} /\ OnWire = {} /\ \A c \in Callers : ~Deciding(c)
    BY <1>1 DEF Orphans, Untold, Early, OnWire, Deciding, At
  <1>3. TerminalTyped
    BY <1>1, FS_EmptySet DEF TerminalTyped
  <1>4. OneUse
    BY <1>1, <1>2 DEF OneUse, At, Held
  <1>5. Room
    BY <1>1, <1>2, FS_EmptySet, ConstantsAssumption DEF Room, Taken, Allowed, ConstantsAssumption
  <1>. QED
    BY <1>3, <1>4, <1>5

\* While one scheduler runs, one process calls at a time, so there is room.
RoomUnlessExcused == ~excused => TerminalTyped /\ OneUse /\ Room

LEMMA RoomInvariance == DeskSpec => []RoomUnlessExcused
  <1>1. DeskInv /\ ~excused => OneCall
    BY DeskAssumption
       DEF DeskAssumption, DeskInv, Alone, CallsInCycle, Working, OneCall, At
  <1>2. DeskInv' /\ ~excused' => OneCall'
    BY DeskAssumption
       DEF DeskAssumption, DeskInv, Alone, CallsInCycle, Working, OneCall, At
  <1>3. /\ DeskInv /\ DeskInv' /\ RoomUnlessExcused /\ [DeskNext]_deskVars
        => RoomUnlessExcused'
    <2>. SUFFICES ASSUME DeskInv, DeskInv', RoomUnlessExcused, [DeskNext]_deskVars, ~excused'
                  PROVE  TerminalTyped' /\ OneUse' /\ Room'
      BY DEF RoomUnlessExcused
    <2>1. ~excused
      BY AloneStays
    <2>2. CallTyped /\ Callers = Entries
      BY DeskAssumption DEF DeskInv, DeskAssumption
    <2>3. TerminalTyped /\ OneUse /\ Room /\ OneCall /\ OneCall'
      BY <1>1, <1>2, <2>1 DEF RoomUnlessExcused
    <2>. QED
      BY <2>2, <2>3, StepImplements, UseStays, RoomStays
  <1>4. DeskInit => RoomUnlessExcused
    BY RoomInit DEF RoomUnlessExcused
  <1>. QED
    BY <1>3, <1>4, DeskInvariance, PTL DEF DeskSpec

-----------------------------------------------------------------------------
(* The emergency flag.                                                     *)

\* Only emergency_enable writes back a lower flag than it read.
FlagIsLoaded ==
  \A p \in Entries :
    ~Free(p) /\ pending[p].by # "enable" /\ pending[p].flag => pending[p].to.stopped

\* Whoever reads the store to write it back.
LEMMA FlagLoaded ==
  ASSUME DeskInv, FlagIsLoaded, NEW p \in Entries, NEW who, NEW new, Load(p, who, new),
         who # "enable" /\ store.stopped => new.stopped
  PROVE  FlagIsLoaded'
  <1> DEFINE rec == [by |-> who, flag |-> store.stopped, to |-> new]
  <1>1. pending' = [pending EXCEPT ![p] = rec]
    BY DEF Load
  <1>2. rec.by = who /\ rec.flag = store.stopped /\ rec.to = new
    OBVIOUS
  <1> HIDE DEF rec
  <1>3. \A q \in Entries : pending'[q] = IF q = p THEN rec ELSE pending[q]
    BY <1>1 DEF DeskInv, DeskTypeOK
  <1>. QED
    BY <1>2, <1>3 DEF FlagIsLoaded, Free

LEMMA FlagStaysLoaded ==
  ASSUME DeskInv, FlagIsLoaded, [DeskNext]_deskVars
  PROVE  FlagIsLoaded'
  <1>0. store \in Stores
    BY DEF DeskInv, DeskTypeOK
  <1>1. ASSUME NEW p \in Entries, NEW mark, NEW c, Record(p, mark, c) PROVE FlagIsLoaded'
    <2>1. Recorded(mark, c).stopped = store.stopped
      BY <1>0 DEF Recorded, Stores
    <2>. QED
      BY <1>1, <2>1, FlagLoaded DEF Record
  <1>2. ASSUME NEW p \in Entries, Count(p) \/ Persist(p) PROVE FlagIsLoaded'
    BY <1>2, FlagLoaded DEF Count, Persist
  <1>3. ASSUME NEW p \in Entries, Disable(p) PROVE FlagIsLoaded'
    <2>1. [store EXCEPT !.stopped = TRUE].stopped = TRUE
      BY <1>0 DEF Stores
    <2>. QED
      BY <1>3, <2>1, FlagLoaded DEF Disable
  <1>4. ASSUME NEW p \in Entries, Enable(p) PROVE FlagIsLoaded'
    BY <1>4, FlagLoaded DEF Enable
  <1>5. ASSUME NEW p \in Entries,
               SkipCycle(p) \/ DropCycle(p) \/ Conclude(p) \/ RecordCounted(p)
        PROVE FlagIsLoaded'
    BY <1>1, <1>5 DEF SkipCycle, DropCycle, Conclude, RecordCounted
  <1>6. ASSUME NEW p \in Entries, Write(p) \/ Crash(p) PROVE FlagIsLoaded'
    <2>1. \A q \in Entries : pending'[q] = IF q = p THEN NoWrite ELSE pending[q]
      BY <1>6 DEF Write, Crash, DeskInv, DeskTypeOK
    <2>. QED
      BY <2>1 DEF FlagIsLoaded, Free
  <1>7. ASSUME UNCHANGED pending PROVE FlagIsLoaded'
    BY <1>7 DEF FlagIsLoaded, Free
  <1>8. ASSUME NEW p \in Entries,
               \/ Start(p) \/ TakeLease(p) \/ Heartbeat(p) \/ BeginCycle(p) \/ FailCycle(p)
               \/ Send(p) \/ Stop(p) \/ Release(p) \/ \E k \in Keys : Submit(p, k)
        PROVE UNCHANGED pending
    BY <1>8 DEF Start, TakeLease, Heartbeat, BeginCycle, FailCycle, Send, Stop, Release, Submit,
                desk
  <1>9. CASE Reboot
    BY <1>9 DEF Reboot, FlagIsLoaded, Free
  <1>10. CandleCloses \/ Elsewhere \/ UNCHANGED deskVars => UNCHANGED pending
    BY DEF CandleCloses, Elsewhere, deskVars, desk
  <1>. QED
    BY <1>2, <1>3, <1>4, <1>5, <1>6, <1>7, <1>8, <1>9, <1>10 DEF DeskNext

\* The store changes only by the writing back of what was read.
LEMMA WhoWritesTheStore ==
  ASSUME [DeskNext]_deskVars, store' # store
  PROVE  \E p \in Entries : Write(p)
  <1>1. ASSUME NEW p \in Entries,
               \/ Start(p) \/ TakeLease(p) \/ Heartbeat(p) \/ BeginCycle(p) \/ SkipCycle(p)
               \/ DropCycle(p) \/ Send(p) \/ Conclude(p) \/ Count(p) \/ RecordCounted(p)
               \/ FailCycle(p) \/ Disable(p) \/ Enable(p) \/ Stop(p) \/ Release(p) \/ Persist(p)
               \/ Crash(p) \/ \E k \in Keys : Submit(p, k)
        PROVE store' = store
    BY <1>1 DEF Start, TakeLease, Heartbeat, BeginCycle, SkipCycle, DropCycle, Send, Conclude,
                Count, RecordCounted, Record, FailCycle, Disable, Enable, Stop, Release, Persist,
                Crash, Leave, Submit, desk
  <1>2. Reboot \/ CandleCloses \/ Elsewhere \/ UNCHANGED deskVars => store' = store
    BY DEF Reboot, CandleCloses, Elsewhere, deskVars, desk
  <1>. QED
    BY <1>1, <1>2 DEF DeskNext

-----------------------------------------------------------------------------
(* The theorems.                                                           *)

\* The schedulers, the lease and the store keep their types.
THEOREM DeskTypeCorrect == DeskSpec => []DeskTypeOK
  <1>1. DeskInv => DeskTypeOK
    BY DEF DeskInv
  <1>. QED
    BY <1>1, DeskInvariance, PTL

\* Two schedulers run at once only after a start over the lease of another one,
\* stale or under the configured name, or after two starts that read the lease
\* before either wrote it.
THEOREM OneSchedulerRuns == DeskSpec => []OneScheduler
  <1>1. DeskInv => OneScheduler
    BY DEF DeskInv, Alone, Working, Live, Running, OneScheduler
  <1>. QED
    BY <1>1, DeskInvariance, PTL

\* While one scheduler runs, a candle gets one entry at most, for any number of
\* crashes, restarts, lost answers and processes, under one name or several.
THEOREM CandleTradedOnce == DeskSpec => []OneEntryPerCandle
  <1>1. DeskInv => OneEntryPerCandle
    BY DEF DeskInv, MadeOnce, OneEntryPerCandle
  <1>. QED
    BY <1>1, DeskInvariance, PTL

\* Once the emergency stop is stored, no cycle that begins later sends an entry.
THEOREM StopHeld == DeskSpec => StopHolds
  <1>1. DeskInv /\ [DeskNext]_deskVars =>
          [\A p \in Entries : At(p, "preflight") /\ At(p, "sending")' /\ store.stopped =>
             p \in inFlight]_deskVars
    BY DEF DeskInv, CallsInCycle, StoppedBefore, At
  <1>. QED
    BY <1>1, DeskInvariance, PTL DEF DeskSpec, StopHolds

\* While one scheduler runs, the open positions exceed the configured maximum by
\* the number of lost and of untold answers at most, for any maximum and any number
\* of crashes, reboots and such answers, although the positions are counted long
\* before the order is executed.
THEOREM PositionsAreBounded == DeskSpec => []PositionsBounded
  <1>1. RoomUnlessExcused => PositionsBounded
    <2>. SUFFICES ASSUME TerminalTyped, Room PROVE Cardinality(open) <= Allowed
      BY PlacesAreNumbers DEF RoomUnlessExcused, PositionsBounded, Allowed
    <2>. QED
      BY PlacesAreNumbers DEF Room, Taken
  <1>. QED
    BY <1>1, RoomInvariance, PTL

\* The flag is lowered by emergency_enable, or by another writer of the whole store
\* that read it before the flag was raised; by no other step of any process.
THEOREM StopKept == DeskSpec => StopIsKept
  <1>1. DeskInv /\ FlagIsLoaded /\ [DeskNext]_deskVars =>
          [store.stopped /\ ~store'.stopped =>
             \E p \in Entries : /\ ~Free(p) /\ Free(p)'
                                /\ pending[p].by = "enable" \/ ~pending[p].flag]_deskVars
    <2>. SUFFICES ASSUME DeskInv, FlagIsLoaded, [DeskNext]_deskVars,
                         store.stopped, ~store'.stopped
                  PROVE  \E p \in Entries : /\ ~Free(p) /\ Free(p)'
                                            /\ pending[p].by = "enable" \/ ~pending[p].flag
      OBVIOUS
    <2>1. PICK p \in Entries : Write(p)
      BY WhoWritesTheStore
    <2>2. ~Free(p) /\ Free(p)' /\ store' = pending[p].to
      BY <2>1 DEF Write, Free, DeskInv, DeskTypeOK
    <2>. QED
      BY <2>2 DEF FlagIsLoaded
  <1>2. DeskInit => FlagIsLoaded
    BY DEF DeskInit, FlagIsLoaded, Free
  <1>. QED
    BY <1>1, <1>2, FlagStaysLoaded, DeskInvariance, PTL DEF DeskSpec, StopIsKept

=============================================================================
