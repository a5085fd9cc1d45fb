---------------------- MODULE AdaptiveManagementProofs ----------------------
(* Proofs about AdaptiveManagement, for any finite set of positions, any     *)
(* failure limit and any number of cycles, losses and requests of the desk.  *)
EXTENDS AdaptiveManagement, FiniteSetTheorems, TLAPS

\* What was stored, or is about to be, as submitted or accepted was executed or is
\* placed, and what was stored as rejected is not to be executed, unless nothing was told.
Honest ==
  /\ \A k \in DOMAIN acts : acts[k] = "submitted" => k \in executed \cup placed
  /\ \A k \in DOMAIN draft : draft[k] = "submitted" => k \in executed \cup placed
  /\ \A k \in DOMAIN journal :
       /\ journal[k] = "ACCEPTED" => k \in executed \cup placed
       /\ journal[k] = "REJECTED" => k \notin executed \cup wire \/ k \in unclear

\* A request is in the journal from the moment it is sent, and executes once.
SentOnce ==
  /\ IsFiniteSet(wire) /\ IsFiniteSet(executed) /\ lost \in Nat
  /\ wire \cup executed \subseteq DOMAIN journal
  /\ wire \cap executed = {}

\* The parts of the cycle and of the breaker that the limits are about.
Typed ==
  /\ DOMAIN cycle = {"stage", "todo", "on", "closed", "mine", "seen", "key"}
  /\ cycle.todo \subseteq Positions /\ cycle.closed \in BOOLEAN
  /\ breaker \in [open : BOOLEAN, reason : {"none", "outage", "failure"}, failed : Nat]
  /\ sentOpen \in Nat

\* A request under way is about a position still on the list, in a cycle that
\* found the breaker closed.
UnderWay ==
  cycle.stage \in {"submitting", "awaiting"} =>
    cycle.closed /\ cycle.key.pos \in cycle.todo

\* The positions of the cycle for which a request may still be sent.
Left == Cardinality(cycle.todo) - (IF cycle.stage = "awaiting" THEN 1 ELSE 0)

\* A closed breaker has counted less than the limit, and each failure of a cycle
\* takes a position off its list.
FailuresCounted ==
  /\ breaker.failed >= Limit => breaker.open
  /\ breaker.failed < Limit + Cardinality(Positions)
  /\ cycle.closed => breaker.failed + Cardinality(cycle.todo) < Limit + Cardinality(Positions)

\* Nothing was sent past a closed breaker, and once a cycle's failure opened it
\* at least one position is off the list.
SendsCounted ==
  /\ ~breaker.open => sentOpen = 0
  /\ OpenBreakerStops
  /\ breaker.open /\ cycle.closed => sentOpen + Left < Cardinality(Positions)

CycleInv == Typed /\ UnderWay /\ FailuresCounted /\ SendsCounted

-----------------------------------------------------------------------------
(* The answers.                                                            *)

\* A request leaves the wire, executed or not, or stays on it.
Moves(k) ==
  \/ wire' = wire \ {k} /\ executed' \in {executed, executed \cup {k}}
  \/ UNCHANGED <<wire, executed>>

\* What the running cycle makes of it: it does not wait for it, or stores a success,
\* a rejection, or a rejection that nobody told it.
Heedless(k) == Unheard /\ wire' = wire \ {k}
HearsYes(k) ==
  /\ Awaiting(k) /\ Accepted(k) /\ UNCHANGED <<lost, unclear>>
  /\ \/ UNCHANGED placed /\ k \in executed'
     \/ placed' = placed \cup {k}
HearsNo(k) ==
  Awaiting(k) /\ Rejected(k) /\ Told /\ wire' = wire \ {k} /\ UNCHANGED executed
HearsNothing(k) ==
  /\ Awaiting(k) /\ Rejected(k)
  /\ lost' = lost + 1 /\ unclear' = unclear \cup {k} /\ UNCHANGED placed

LEMMA AnswerEffect ==
  ASSUME NEW k \in wire, Answer(k)
  PROVE  /\ Moves(k) /\ UNCHANGED <<stored, desk, minute, up, asked, missed>>
         /\ Heedless(k) \/ HearsYes(k) \/ HearsNo(k) \/ HearsNothing(k)
  <1>. USE DEF Moves, Heedless, HearsYes, HearsNo, HearsNothing, Unclear
  <1>1. CASE Execute(k)
    BY <1>1 DEF Execute, Told, doubts
  <1>2. CASE Decline(k)
    BY <1>2 DEF Decline
  <1>3. CASE AnswerEarly(k)
    BY <1>3 DEF AnswerEarly, terminal
  <1>. QED
    BY <1>1, <1>2, <1>3 DEF Answer

LEMMA PutFacts ==
  ASSUME NEW f, NEW k, NEW v
  PROVE  /\ DOMAIN Put(f, k, v) = DOMAIN f \cup {k}
         /\ Put(f, k, v)[k] = v
         /\ \A x \in DOMAIN f \ {k} : Put(f, k, v)[x] = f[x]
  BY DEF Put

LEMMA SentOnceStays ==
  ASSUME SentOnce, [Next]_vars
  PROVE  SentOnce'
  <1>. USE DEF SentOnce
  <1>1. ASSUME UNCHANGED <<wire, executed>>, DOMAIN journal \subseteq DOMAIN journal',
               lost' \in Nat
        PROVE SentOnce'
    BY <1>1
  <1>2. CASE \/ ActivateByHand \/ Deactivate \/ ResetBreaker \/ Tick \/ GoDown \/ ComeBack
             \/ StartCycle \/ EnsureActivation \/ ReadFails \/ ReadPositions \/ Commit \/ Abort
             \/ UNCHANGED vars
             \/ \E p \in Positions : Adopt(p) \/ Manage(p) \/ OpenPosition(p) \/ ClosePosition(p)
    <2>1. UNCHANGED <<wire, executed, journal>> /\ (lost' = lost \/ lost' = lost + 1)
      BY <1>2 DEF ActivateByHand, Ask, Deactivate, ResetBreaker, Tick, GoDown, ComeBack,
                  StartCycle, EnsureActivation, ReadFails, ReadPositions, Commit, Abort, Adopt,
                  Manage, Hold, Choose, OpenPosition, ClosePosition, vars, terminal, world
    <2>. QED
      BY <1>1, <2>1
  <1>3. ASSUME NEW k, SubmitDuplicate(k) \/ SubmitRefused(k) \/ LoseAnswer(k) PROVE SentOnce'
    <2>1. /\ UNCHANGED <<wire, executed>> /\ (lost' = lost \/ lost' = lost + 1)
          /\ journal' = journal \/ \E s : journal' = Put(journal, k, s)
      BY <1>3 DEF SubmitDuplicate, SubmitRefused, LoseAnswer, terminal, world
    <2>2. DOMAIN journal \subseteq DOMAIN journal'
      BY <2>1 DEF Put
    <2>. QED
      BY <1>1, <2>1, <2>2
  <1>4. ASSUME NEW k, Send(k) PROVE SentOnce'
    <2>1. /\ k \notin DOMAIN journal /\ journal' = Put(journal, k, "SUBMITTED")
          /\ wire' = wire \cup {k} /\ UNCHANGED <<executed, lost>>
      BY <1>4 DEF Send, Seen, world
    <2>2. DOMAIN journal' = DOMAIN journal \cup {k}
      BY <2>1, PutFacts
    <2>3. IsFiniteSet(wire')
      BY <2>1, FS_AddElement
    <2>. QED
      BY <2>1, <2>2, <2>3
  <1>5. ASSUME NEW k \in wire, Answer(k) PROVE SentOnce'
    <2>1. /\ Moves(k) /\ (lost' = lost \/ lost' = lost + 1)
          /\ journal' = journal \/ \E s : journal' = Put(journal, k, s)
      BY <1>5, AnswerEffect DEF Heedless, Unheard, HearsYes, HearsNo, HearsNothing, Told,
                                Accepted, Rejected
    <2>2. DOMAIN journal \subseteq DOMAIN journal'
      BY <2>1 DEF Put
    <2>3. IsFiniteSet(wire \ {k}) /\ IsFiniteSet(executed \cup {k})
      BY FS_RemoveElement, FS_AddElement
    <2>. QED
      BY <2>1, <2>2, <2>3 DEF Moves
  <1>. QED
    BY <1>2, <1>3, <1>4, <1>5 DEF Next, Submit

-----------------------------------------------------------------------------
(* Honesty.                                                                *)

\* The actions that leave the journal and the requests as they are.
LEMMA Quiet ==
  ASSUME \/ ActivateByHand \/ Deactivate \/ ResetBreaker \/ StartCycle \/ EnsureActivation
         \/ ReadFails \/ ReadPositions \/ Commit \/ Abort \/ Tick \/ GoDown \/ ComeBack
         \/ UNCHANGED vars \/ SubmitDuplicate(cycle.key) \/ LoseAnswer(cycle.key)
         \/ \E p \in Positions : Adopt(p) \/ Manage(p) \/ OpenPosition(p) \/ ClosePosition(p)
  PROVE  UNCHANGED <<journal, wire, executed, placed, unclear>>
  BY DEF ActivateByHand, Deactivate, ResetBreaker, Tick, GoDown, ComeBack,
         StartCycle, EnsureActivation, ReadFails, ReadPositions, Commit, Abort, Adopt,
         Manage, Hold, Choose, OpenPosition, ClosePosition, SubmitDuplicate, LoseAnswer,
         vars, terminal, history, doubts

\* What a step may do to the cycle's session, and to what is committed.
DraftStep ==
  \/ UNCHANGED <<draft, acts>>
  \/ draft' = Nothing /\ UNCHANGED acts
  \/ /\ acts' = [k \in DOMAIN acts \cup DOMAIN draft |->
                  IF k \in DOMAIN draft THEN draft[k] ELSE acts[k]]
     /\ draft' = Nothing
  \/ /\ UNCHANGED acts
     /\ \E k \in executed' \cup placed' : draft' = Put(draft, k, "submitted")
  \/ UNCHANGED acts /\ \E k : draft' = Put(draft, k, "failed")

\* What is recorded of an action, but for the journal.
LEMMA DraftStays ==
  ASSUME Honest, DraftStep, executed \cup placed \subseteq executed' \cup placed'
  PROVE  /\ (\A k \in DOMAIN acts : acts[k] = "submitted" => k \in executed \cup placed)'
         /\ (\A k \in DOMAIN draft : draft[k] = "submitted" => k \in executed \cup placed)'
  <1>1. (\A k \in DOMAIN acts : acts[k] = "submitted" => k \in executed \cup placed)'
    BY DEF Honest, DraftStep
  <1>2. (\A k \in DOMAIN draft : draft[k] = "submitted" => k \in executed \cup placed)'
    BY DEF Honest, DraftStep, Put, Nothing
  <1>. QED
    BY <1>1, <1>2

LEMMA HonestStays ==
  ASSUME Honest, SentOnce, [Next]_vars
  PROVE  Honest'
  <1>1. ASSUME UNCHANGED <<journal, wire, executed, placed, unclear>>, DraftStep
        PROVE  Honest'
    BY <1>1, DraftStays DEF Honest
  <1>2. CASE \/ ActivateByHand \/ Deactivate \/ ResetBreaker \/ StartCycle \/ EnsureActivation
             \/ ReadFails \/ ReadPositions \/ Tick \/ GoDown \/ ComeBack \/ UNCHANGED vars
             \/ \E p \in Positions : Adopt(p) \/ Manage(p) \/ OpenPosition(p) \/ ClosePosition(p)
    <2>1. UNCHANGED <<draft, acts>>
      BY <1>2 DEF ActivateByHand, Deactivate, ResetBreaker, Tick, GoDown, ComeBack,
                  StartCycle, EnsureActivation, ReadFails, ReadPositions, Adopt,
                  Manage, Hold, Choose, OpenPosition, ClosePosition, vars, stored
    <2>. QED
      BY <1>1, <1>2, <2>1, Quiet DEF DraftStep
  <1>3. CASE Commit \/ Abort
    <2>1. DraftStep
      BY <1>3 DEF Commit, Abort, DraftStep, stored
    <2>. QED
      BY <1>1, <1>3, <2>1, Quiet
  <1>4. CASE SubmitDuplicate(cycle.key) \/ LoseAnswer(cycle.key)
    <2>1. UNCHANGED <<journal, wire, executed, placed, unclear>>
      BY <1>4, Quiet
    <2>2. DraftStep
      BY <1>4, <2>1 DEF SubmitDuplicate, LoseAnswer, Seen, Result, Honest, DraftStep, stored
    <2>. QED
      BY <1>1, <2>1, <2>2
  <1>5. CASE SubmitRefused(cycle.key)
    <2>1. /\ UNCHANGED <<wire, executed, placed, unclear>> /\ DraftStep
          /\ cycle.key \notin DOMAIN journal
          /\ journal' = journal \/ journal' = Put(journal, cycle.key, "REJECTED")
      BY <1>5 DEF SubmitRefused, Seen, Result, DraftStep, stored, terminal, history
    <2>2. cycle.key \notin executed \cup wire
      BY <2>1 DEF SentOnce
    <2>. QED
      BY <2>1, <2>2, DraftStays DEF Honest, Put
  <1>6. CASE Send(cycle.key)
    <2>1. /\ UNCHANGED <<executed, placed, unclear, draft, acts>>
          /\ cycle.key \notin DOMAIN journal
          /\ wire' = wire \cup {cycle.key}
          /\ journal' = Put(journal, cycle.key, "SUBMITTED")
      BY <1>6 DEF Send, Seen, stored, history
    <2>. QED
      BY <2>1, DraftStays DEF Honest, DraftStep, Put
  <1>7. ASSUME NEW k \in wire, Answer(k) PROVE Honest'
    <2>1. /\ Moves(k) /\ UNCHANGED acts
          /\ Heedless(k) \/ HearsYes(k) \/ HearsNo(k) \/ HearsNothing(k)
      BY <1>7, AnswerEffect DEF stored
    <2>2. DraftStep
      BY <2>1 DEF DraftStep, Heedless, Unheard, HearsYes, HearsNo, HearsNothing, Accepted,
                  Rejected, Result
    <2>3. executed \cup placed \subseteq executed' \cup placed' /\ unclear \subseteq unclear'
          /\ \A j : j \in executed' \cup wire' => j \in executed \cup wire
      BY <2>1 DEF Moves, Heedless, Unheard, Told, doubts, HearsYes, HearsNo, HearsNothing
    <2>4. k \in wire /\ k \notin executed
      BY DEF SentOnce
    <2>5. \/ journal' = journal
          \/ journal' = Put(journal, k, "ACCEPTED") /\ k \in executed' \cup placed'
          \/ /\ journal' = Put(journal, k, "REJECTED")
             /\ k \notin executed' \cup wire' \/ k \in unclear'
      BY <2>1, <2>4 DEF Heedless, Unheard, HearsYes, HearsNo, HearsNothing, Accepted, Rejected
    <2>. QED
      BY <2>2, <2>3, <2>5, DraftStays DEF Honest, Put
  <1>. QED
    BY <1>2, <1>3, <1>4, <1>5, <1>6, <1>7 DEF Next, Submit

\* An action stored as submitted, and an order stored as accepted, was executed by
\* the terminal or is placed there, and an order stored as rejected was not and will
\* not be, unless nothing was told: no lost answer, repeated key or aborted cycle
\* makes the records claim what did not happen.
THEOREM RecordsHold == Spec => []RecordsAreTrue
  <1>1. Init => Honest /\ SentOnce
    BY FS_EmptySet DEF Init, Honest, SentOnce, Nothing
  <1>2. Honest /\ SentOnce /\ [Next]_vars => (Honest /\ SentOnce)'
    BY HonestStays, SentOnceStays
  <1>3. Honest => RecordsAreTrue
    BY DEF Honest, RecordsAreTrue
  <1>. QED
    BY <1>1, <1>2, <1>3, PTL DEF Spec

-----------------------------------------------------------------------------
(* The limits.                                                             *)

\* What a step may do to the cycle and the breaker.
Still == UNCHANGED <<cycle, breaker, sentOpen>>
Cleared == breaker' = Closed /\ sentOpen' = 0
Advances == cycle' = [cycle EXCEPT !.stage = "reading"] /\ cycle.stage = "activating"
Fresh ==
  /\ DOMAIN cycle' = {"stage", "todo", "on", "closed", "mine", "seen", "key"}
  /\ cycle'.todo = {} /\ cycle'.closed = FALSE
  /\ cycle'.stage \in {"idle", "activating", "reading"}
Outage == breaker' = [breaker EXCEPT !.open = TRUE, !.reason = "outage"] /\ UNCHANGED sentOpen
Begins ==
  /\ DOMAIN cycle' = {"stage", "todo", "on", "closed", "mine", "seen", "key"}
  /\ cycle'.todo \subseteq Positions /\ cycle'.closed = ~breaker'.open
  /\ cycle'.stage = "managing"
Chooses ==
  /\ cycle.closed /\ cycle.stage = "managing"
  /\ \E k : k.pos \in cycle.todo /\ cycle' = [cycle EXCEPT !.stage = "submitting", !.key = k]
Finishes == \E p \in cycle.todo : cycle' = Done(p)
Sends ==
  /\ cycle.stage = "submitting" /\ cycle' = [cycle EXCEPT !.stage = "awaiting"]
  /\ UNCHANGED breaker
  /\ sentOpen' = IF breaker.open THEN sentOpen + 1 ELSE sentOpen
Fails ==
  /\ cycle.stage \in {"submitting", "awaiting"}
  /\ cycle' = Done(cycle.key.pos)
  /\ CountFailure
Succeeds ==
  /\ cycle.stage \in {"submitting", "awaiting"}
  /\ cycle' = Done(cycle.key.pos)
  /\ UNCHANGED <<breaker, sentOpen>>
Keeps == UNCHANGED <<breaker, sentOpen>>

Effect ==
  \/ Still
  \/ Cleared /\ UNCHANGED cycle
  \/ Advances /\ (Cleared \/ Keeps)
  \/ Fresh /\ (Keeps \/ Outage)
  \/ Begins /\ (Cleared \/ Keeps)
  \/ Keeps /\ (Chooses \/ (Finishes /\ cycle.stage = "managing"))
  \/ Sends \/ Fails \/ Succeeds

LEMMA EffectOfStep == ASSUME CycleInv, [Next]_vars PROVE Effect
  <1>. USE DEF Keeps, Cleared
  <1>1. CASE UNCHANGED vars
    BY <1>1 DEF vars, Effect, Still
  <1>2. CASE \/ Deactivate \/ Tick \/ GoDown \/ ComeBack
             \/ \E p \in Positions : Adopt(p) \/ OpenPosition(p) \/ ClosePosition(p)
    BY <1>2 DEF Deactivate, Tick, GoDown, ComeBack, Adopt, OpenPosition, ClosePosition, Effect, Still
  <1>3. CASE ActivateByHand \/ ResetBreaker
    BY <1>3 DEF ActivateByHand, ActivateDemo, ResetBreaker, Effect
  <1>4. CASE StartCycle \/ Commit \/ Abort
    <2>1. Keeps
      BY <1>4 DEF StartCycle, Commit, Abort
    <2>2. cycle' = [Idle EXCEPT !.stage = IF active THEN "reading" ELSE "activating"]
          \/ cycle' = Idle
      BY <1>4 DEF StartCycle, Commit, Abort
    <2>3. Fresh
      BY <2>2 DEF Idle, Fresh
    <2>. QED
      BY <2>1, <2>3 DEF Effect
  <1>5. CASE EnsureActivation
    BY <1>5 DEF EnsureActivation, ActivateDemo, Effect, Advances
  <1>6. CASE ReadFails
    <2>1. cycle' = Idle /\ Outage
      BY <1>6 DEF ReadFails, Outage
    <2>2. Fresh
      BY <2>1 DEF Idle, Fresh
    <2>. QED
      BY <2>1, <2>2 DEF Effect
  <1>7. CASE ReadPositions
    <2>1. Cleared \/ Keeps
      BY <1>7 DEF ReadPositions
    <2>2. Begins
      BY <1>7 DEF ReadPositions, Begins, Listed, CycleInv, Typed
    <2>. QED
      BY <2>1, <2>2 DEF Effect
  <1>8. ASSUME NEW p \in Positions, Hold(p) PROVE Effect
    <2>1. p \in cycle.todo /\ cycle.stage = "managing" /\ cycle' = Done(p) /\ Keeps
      BY <1>8 DEF Hold, LooksAt
    <2>. QED
      BY <2>1 DEF Effect, Finishes
  <1>9. ASSUME NEW p \in Positions, NEW kind, Choose(p, kind) PROVE Effect
    <2>. DEFINE k == [pos |-> p, kind |-> kind, cuts |-> cycle.seen[p], minute |-> minute]
    <2>1. p \in cycle.todo /\ cycle.stage = "managing" /\ Keeps
      BY <1>9 DEF Choose, LooksAt
    <2>2. cycle.closed /\ cycle' = [cycle EXCEPT !.stage = "submitting", !.key = k]
      BY <1>9 DEF Choose, MayExecute
    <2>3. k.pos \in cycle.todo
      BY <2>1
    <2>. HIDE DEF k
    <2>. QED
      BY <2>1, <2>2, <2>3 DEF Effect, Chooses
  <1>10. CASE Submit(cycle.key) \/ LoseAnswer(cycle.key)
    BY <1>10 DEF Submit, SubmitDuplicate, SubmitRefused, Send, LoseAnswer, Submitting, Awaiting,
                 Result, Effect, Fails, Succeeds, Sends
  <1>11. ASSUME NEW k \in wire, Answer(k) PROVE Effect
    <2>1. Heedless(k) \/ HearsYes(k) \/ HearsNo(k) \/ HearsNothing(k)
      BY <1>11, AnswerEffect
    <2>. QED
      BY <2>1 DEF Heedless, Unheard, HearsYes, HearsNo, HearsNothing, Accepted, Rejected,
                  Awaiting, Result, Effect, Still, Fails, Succeeds
  <1>. QED
    BY <1>1, <1>2, <1>3, <1>4, <1>5, <1>6, <1>7, <1>8, <1>9, <1>10, <1>11 DEF Next, Manage

\* A list without one of its positions is one shorter.
LEMMA OneLess ==
  ASSUME NEW S, S \subseteq Positions
  PROVE  /\ Cardinality(S) \in Nat /\ Cardinality(S) <= Cardinality(Positions)
         /\ Cardinality(Positions) \in Nat
         /\ \A p \in S : /\ Cardinality(S \ {p}) \in Nat
                         /\ Cardinality(S \ {p}) = Cardinality(S) - 1
  <1>1. IsFiniteSet(Positions)
    BY ConstantsAssumption DEF ConstantsAssumption
  <1>2. IsFiniteSet(S) /\ Cardinality(S) <= Cardinality(Positions)
    BY <1>1, FS_Subset
  <1>3. Cardinality(S) \in Nat /\ Cardinality(Positions) \in Nat
    BY <1>1, <1>2, FS_CardinalityType
  <1>4. ASSUME NEW p \in S
        PROVE Cardinality(S \ {p}) \in Nat /\ Cardinality(S \ {p}) = Cardinality(S) - 1
    <2>1. IsFiniteSet(S \ {p}) /\ Cardinality(S \ {p}) = Cardinality(S) - 1
      BY <1>2, FS_RemoveElement
    <2>. QED
      BY <2>1, FS_CardinalityType
  <1>. QED
    BY <1>2, <1>3, <1>4

LEMMA CycleInvStays == ASSUME CycleInv, [Next]_vars PROVE CycleInv'
  <1>. DEFINE B == breaker  n == Cardinality(cycle.todo)  N == Cardinality(Positions)
  <1>1. Effect
    BY EffectOfStep
  <1>2. Limit \in Nat /\ Limit # 0
    BY ConstantsAssumption DEF ConstantsAssumption
  <1>3. n \in Nat /\ N \in Nat /\ n <= N /\ Cardinality({}) = 0
    BY OneLess, FS_EmptySet DEF CycleInv, Typed
  <1>. USE <1>2, <1>3 DEF CycleInv, Typed, UnderWay, FailuresCounted, SendsCounted,
                          OpenBreakerStops, Left
  <1>4. CASE Still
    BY <1>4 DEF Still
  <1>5. CASE Cleared /\ (UNCHANGED cycle \/ Advances)
    BY <1>5 DEF Cleared, Closed, Advances
  <1>6. CASE Keeps /\ Advances
    BY <1>6 DEF Keeps, Advances
  <1>7. CASE Fresh /\ Keeps
    BY <1>7 DEF Fresh, Keeps
  <1>8. CASE Fresh /\ Outage
    BY <1>8 DEF Fresh, Outage
  <1>9. CASE Begins /\ (Cleared \/ Keeps)
    <2>1. cycle'.todo \subseteq Positions /\ cycle'.closed = ~breaker'.open
          /\ cycle'.stage = "managing"
          /\ DOMAIN cycle' = {"stage", "todo", "on", "closed", "mine", "seen", "key"}
      BY <1>9 DEF Begins
    <2>2. Cardinality(cycle'.todo) \in Nat /\ Cardinality(cycle'.todo) <= N
      BY <2>1, OneLess
    <2>3. CASE Keeps
      <3>1. breaker' = breaker /\ sentOpen' = sentOpen
        BY <2>3 DEF Keeps
      <3>2. Typed' /\ UnderWay'
        BY <2>1, <3>1
      <3>3. breaker.failed \in Nat /\ breaker.open \in BOOLEAN
        OBVIOUS
      <3>4. /\ breaker.failed >= Limit => breaker.open
            /\ breaker.failed < Limit + N
        OBVIOUS
      <3>5. cycle'.closed => breaker.failed + Cardinality(cycle'.todo) < Limit + N
        <4>1. SUFFICES ASSUME cycle'.closed PROVE breaker.failed + Cardinality(cycle'.todo) < Limit + N
          OBVIOUS
        <4>2. ~breaker.open
          BY <2>1, <3>1, <4>1
        <4>3. breaker.failed < Limit
          BY <3>3, <3>4, <4>2
        <4>. HIDE DEF n, N, B
        <4>. QED
          BY <2>2, <3>3, <4>3
      <3>6. FailuresCounted'
        BY <3>1, <3>4, <3>5
      <3>7. SendsCounted'
        BY <2>1, <2>2, <3>1
      <3>. QED
        BY <3>2, <3>6, <3>7
    <2>4. CASE Cleared
      <3>1. breaker' = [open |-> FALSE, reason |-> "none", failed |-> 0] /\ sentOpen' = 0
        BY <2>4 DEF Cleared, Closed
      <3>2. Typed' /\ UnderWay'
        BY <2>1, <3>1
      <3>3. FailuresCounted'
        BY <2>1, <2>2, <3>1
      <3>4. SendsCounted'
        BY <2>1, <2>2, <3>1
      <3>. QED
        BY <3>2, <3>3, <3>4
    <2>. QED
      BY <1>9, <2>3, <2>4
  <1>10. CASE Keeps /\ Chooses
    <2>1. PICK k : k.pos \in cycle.todo
                   /\ cycle' = [cycle EXCEPT !.stage = "submitting", !.key = k]
      BY <1>10 DEF Chooses
    <2>2. /\ cycle.closed /\ cycle.stage = "managing"
          /\ breaker' = breaker /\ sentOpen' = sentOpen
      BY <1>10 DEF Chooses, Keeps
    <2>3. cycle'.todo = cycle.todo /\ cycle'.stage = "submitting" /\ cycle'.key = k
          /\ cycle'.closed = cycle.closed /\ DOMAIN cycle' = DOMAIN cycle
      BY <2>1
    <2>4. Typed' /\ UnderWay'
      BY <2>1, <2>2, <2>3
    <2>5. FailuresCounted'
      BY <2>2, <2>3
    <2>6. SendsCounted'
      BY <2>2, <2>3
    <2>. QED
      BY <2>4, <2>5, <2>6
  <1>11. ASSUME NEW p \in cycle.todo, cycle' = Done(p), Keeps,
                cycle.stage \in {"managing", "submitting", "awaiting"}
         PROVE CycleInv'
    <2>1. Cardinality(cycle.todo \ {p}) \in Nat /\ Cardinality(cycle.todo \ {p}) = n - 1
      BY <1>11, OneLess
    <2>2. cycle'.todo = cycle.todo \ {p} /\ cycle'.stage = "managing"
          /\ cycle'.closed = cycle.closed /\ DOMAIN cycle' = DOMAIN cycle
      BY <1>11 DEF Done
    <2>. QED
      BY <1>11, <2>1, <2>2 DEF Keeps
  <1>12. CASE Sends
    <2>1. cycle'.todo = cycle.todo /\ cycle'.stage = "awaiting" /\ cycle'.key = cycle.key
          /\ cycle'.closed = cycle.closed /\ DOMAIN cycle' = DOMAIN cycle
      BY <1>12 DEF Sends
    <2>2. cycle.stage = "submitting" /\ breaker' = breaker
          /\ sentOpen' = (IF breaker.open THEN sentOpen + 1 ELSE sentOpen)
      BY <1>12 DEF Sends
    <2>3. cycle.closed /\ cycle.key.pos \in cycle.todo
      BY <2>2
    <2>4. n - 1 \in Nat
      BY <2>3, OneLess
    <2>5. Typed' /\ UnderWay'
      BY <2>1, <2>2, <2>3
    <2>6. FailuresCounted'
      BY <2>1, <2>2
    <2>7. SendsCounted'
      BY <2>1, <2>2, <2>3, <2>4
    <2>. QED
      BY <2>5, <2>6, <2>7
  <1>13. CASE Fails
    <2>. DEFINE p == cycle.key.pos
    <2>1. p \in cycle.todo /\ cycle.closed
      BY <1>13 DEF Fails
    <2>2. Cardinality(cycle.todo \ {p}) \in Nat /\ Cardinality(cycle.todo \ {p}) = n - 1
      BY <2>1, OneLess
    <2>3. cycle'.todo = cycle.todo \ {p} /\ cycle'.stage = "managing"
          /\ cycle'.closed = cycle.closed /\ DOMAIN cycle' = DOMAIN cycle
      BY <1>13 DEF Fails, Done
    <2>4. /\ breaker' = [open |-> breaker.open \/ breaker.failed + 1 >= Limit,
                         reason |-> "failure", failed |-> breaker.failed + 1]
          /\ sentOpen' = sentOpen
      BY <1>13 DEF Fails, CountFailure
    <2>5. Typed' /\ UnderWay'
      BY <2>3, <2>4
    <2>6. FailuresCounted'
      <3>1. breaker.failed \in Nat /\ breaker.open \in BOOLEAN /\ breaker.failed + n < Limit + N
        BY <2>1
      <3>2. /\ breaker'.failed = breaker.failed + 1
            /\ breaker'.open = (breaker.open \/ breaker.failed + 1 >= Limit)
        BY <2>4
      <3>3. breaker'.failed >= Limit => breaker'.open
        BY <3>1, <3>2
      <3>4. /\ breaker.failed + 1 < Limit + N
            /\ (breaker.failed + 1) + (n - 1) < Limit + N
        <4>. HIDE DEF n, N
        <4>. QED
          BY <2>2, <3>1
      <3>. QED
        BY <2>2, <2>3, <3>2, <3>3, <3>4
    <2>7. SendsCounted'
      BY <2>1, <2>2, <2>3, <2>4
    <2>. QED
      BY <2>5, <2>6, <2>7
  <1>14. CASE Succeeds
    BY <1>11, <1>14 DEF Succeeds, Keeps
  <1>15. CASE Keeps /\ Finishes /\ cycle.stage = "managing"
    BY <1>11, <1>15 DEF Finishes
  <1>. QED
    BY <1>1, <1>4, <1>5, <1>6, <1>7, <1>8, <1>9, <1>10, <1>12, <1>13, <1>14, <1>15 DEF Effect

LEMMA CycleInvariant == Spec => []CycleInv
  <1>1. Init => CycleInv
    <2>. SUFFICES ASSUME Init PROVE CycleInv
      OBVIOUS
    <2>1. Cardinality({}) = 0 /\ Cardinality(Positions) \in Nat /\ Limit \in Nat /\ Limit # 0
      BY FS_EmptySet, OneLess, ConstantsAssumption DEF ConstantsAssumption
    <2>. QED
      BY <2>1 DEF Init, Idle, Closed, CycleInv, Typed, UnderWay, FailuresCounted, SendsCounted,
                  OpenBreakerStops, Left
  <1>2. CycleInv /\ [Next]_vars => CycleInv'
    BY CycleInvStays
  <1>. QED
    BY <1>1, <1>2, PTL DEF Spec

\* The failures stop at the limit but for the rest of the cycle that reaches it,
\* for any number of positions: the breaker is read once per cycle, and every
\* failure of a cycle is of another position.
THEOREM FailuresStop == Spec => []FailuresBounded
  <1>1. CycleInv => FailuresBounded
    BY DEF CycleInv, FailuresCounted, FailuresBounded
  <1>. QED
    BY <1>1, CycleInvariant, PTL

\* After the breaker opened, the requests still sent are fewer than the
\* positions, whatever the desk and the terminal do meanwhile.
THEOREM OpenBreakerHolds == Spec => []OpenBreakerStops
  <1>1. CycleInv => OpenBreakerStops
    BY DEF CycleInv, SendsCounted
  <1>. QED
    BY <1>1, CycleInvariant, PTL

-----------------------------------------------------------------------------
(* The exit stages.  A stage's requests are those executed or on their way.  *)
(* Each of them was counted as lost, or is recorded as executed, or is the    *)
(* running cycle's own, not yet committed, or is the one that a commit found *)
(* no state row for: the position's row is there ever after.                 *)

StageRequests(p) == {k \in wire \cup executed : k.pos = p /\ k.kind = "stage"}

\* The running cycle waits for a stage's answer, or has it and did not commit.
Unrecorded(p) ==
  \/ cycle.stage = "awaiting" /\ cycle.key.pos = p /\ cycle.key.kind = "stage"
  \/ \E k \in DOMAIN draft : k.pos = p /\ k.kind = "stage" /\ draft[k] = "submitted"

Allowance(p) ==
  lost + (IF p \in missed THEN 1 ELSE 0) + (IF p \in staged \/ Unrecorded(p) THEN 1 ELSE 0)

\* A session is a cycle's: its actions are of positions the cycle has seen and
\* taken off its list, and a stage is asked for only where none is recorded.
Session ==
  /\ cycle.stage \in {"managing", "submitting", "awaiting"} \/ DOMAIN draft = {}
  /\ cycle.todo \subseteq DOMAIN cycle.seen
  /\ \A k \in DOMAIN draft : k.pos \in DOMAIN cycle.seen \ cycle.todo
  /\ cycle.stage \in {"submitting", "awaiting"} /\ cycle.key.kind = "stage" =>
       cycle.key.pos \notin staged
  /\ missed \subseteq known

Counted == \A p \in Positions : Cardinality(StageRequests(p)) <= Allowance(p)

StageInv == Session /\ SentOnce /\ Counted

\* What an action's result does to the cycle.
LEMMA DoneFacts ==
  ASSUME Typed, NEW p, cycle' = Done(p)
  PROVE  /\ cycle'.stage = "managing" /\ cycle'.todo = cycle.todo \ {p}
         /\ cycle'.seen = cycle.seen
  BY DEF Typed, Done

\* The actions of a session and their positions.
LEMMA SessionStays ==
  ASSUME CycleInv, Session, [Next]_vars
  PROVE  Session'
  <1>. USE DEF CycleInv, Typed, Session
  <1>1. ASSUME UNCHANGED <<cycle, draft, staged, known, missed>> PROVE Session'
    BY <1>1
  <1>2. ASSUME UNCHANGED <<draft, staged, known, missed>>, cycle.stage \in {"idle", "activating", "reading"},
               cycle'.todo \subseteq DOMAIN cycle'.seen, cycle'.stage \notin {"submitting", "awaiting"}
        PROVE Session'
    BY <1>2
  <1>3. ASSUME UNCHANGED <<staged, known, missed>>, NEW k, cycle' = Done(k.pos), k.pos \in cycle.todo,
               cycle.stage \in {"managing", "submitting", "awaiting"},
               draft' = draft \/ \E s : draft' = Put(draft, k, s)
        PROVE Session'
    <2>1. /\ cycle'.stage = "managing" /\ cycle'.todo = cycle.todo \ {k.pos}
          /\ cycle'.seen = cycle.seen
      BY <1>3, DoneFacts
    <2>2. DOMAIN draft' = DOMAIN draft \/ DOMAIN draft' = DOMAIN draft \cup {k}
      BY <1>3 DEF Put
    <2>. QED
      BY <1>3, <2>1, <2>2
  <1>4. CASE StartCycle \/ EnsureActivation \/ ReadFails \/ ReadPositions
    <2>1. cycle.stage \in {"idle", "activating", "reading"} /\ UNCHANGED <<draft, staged, known, missed>>
      BY <1>4 DEF StartCycle, EnsureActivation, ReadFails, ReadPositions, stored, history
    <2>2. /\ cycle'.todo \subseteq DOMAIN cycle'.seen
          /\ cycle'.stage \notin {"submitting", "awaiting"}
      <3>1. CASE StartCycle
        BY <3>1 DEF StartCycle, Idle, Nothing
      <3>2. CASE EnsureActivation
        BY <3>2 DEF EnsureActivation
      <3>3. CASE ReadFails
        BY <3>3 DEF ReadFails, Idle, Nothing
      <3>4. CASE ReadPositions
        BY <3>4 DEF ReadPositions
      <3>. QED
        BY <1>4, <3>1, <3>2, <3>3, <3>4
    <2>. QED
      BY <1>2, <2>1, <2>2
  <1>5. CASE Commit \/ Abort
    <2>1. DOMAIN draft' = {} /\ cycle'.stage = "idle" /\ cycle'.todo = {}
      BY <1>5 DEF Commit, Abort, Idle, Nothing
    <2>2. missed' \subseteq known'
      BY <1>5 DEF Commit, StageMissed, Abort, stored, history
    <2>. QED
      BY <2>1, <2>2
  <1>6. ASSUME NEW p \in Positions, Hold(p) PROVE Session'
    <2>1. /\ cycle.stage = "managing" /\ p \in cycle.todo /\ cycle' = Done(p)
          /\ UNCHANGED <<draft, staged, known, missed>>
      BY <1>6 DEF Hold, LooksAt, stored, history
    <2>2. /\ cycle'.stage = "managing" /\ cycle'.todo = cycle.todo \ {p}
          /\ cycle'.seen = cycle.seen
      BY <2>1, DoneFacts
    <2>. QED
      BY <2>1, <2>2
  <1>7. ASSUME NEW p \in Positions, NEW kind \in Kinds, Choose(p, kind) PROVE Session'
    <2>. DEFINE k == [pos |-> p, kind |-> kind, cuts |-> cycle.seen[p], minute |-> minute]
    <2>1. /\ cycle' = [cycle EXCEPT !.stage = "submitting", !.key = k]
          /\ kind = "stage" => p \notin staged
          /\ cycle.stage = "managing" /\ UNCHANGED <<draft, staged, known, missed>>
      BY <1>7 DEF Choose, MayChoose, LooksAt, stored, history
    <2>2. k.pos = p /\ k.kind = kind
      OBVIOUS
    <2>. HIDE DEF k
    <2>. QED
      BY <2>1, <2>2
  <1>8. ASSUME NEW k, k = cycle.key,
               SubmitDuplicate(k) \/ SubmitRefused(k) \/ LoseAnswer(k)
        PROVE Session'
    <2>1. /\ cycle' = Done(k.pos) /\ cycle.stage \in {"submitting", "awaiting"}
          /\ UNCHANGED <<staged, known, missed>> /\ \E s : draft' = Put(draft, k, s)
      BY <1>8 DEF SubmitDuplicate, SubmitRefused, LoseAnswer, Submitting, Awaiting, Result, stored, history
    <2>. QED
      BY <1>3, <1>8, <2>1 DEF UnderWay
  <1>9. CASE Send(cycle.key)
    BY <1>9 DEF Send, Submitting, stored, history
  <1>10. ASSUME NEW k \in wire, Answer(k) PROVE Session'
    <2>1. /\ UNCHANGED <<staged, known, missed>>
          /\ Heedless(k) \/ HearsYes(k) \/ HearsNo(k) \/ HearsNothing(k)
      BY <1>10, AnswerEffect DEF stored
    <2>2. CASE Heedless(k)
      BY <1>1, <2>1, <2>2 DEF Heedless, Unheard
    <2>3. CASE HearsYes(k) \/ HearsNo(k) \/ HearsNothing(k)
      <3>1. /\ cycle' = Done(k.pos) /\ cycle.stage = "awaiting" /\ cycle.key = k
            /\ \E s : draft' = Put(draft, k, s)
        BY <2>3 DEF HearsYes, HearsNo, HearsNothing, Awaiting, Accepted, Rejected, Result
      <3>. QED
        BY <1>3, <2>1, <3>1 DEF UnderWay
    <2>. QED
      BY <2>1, <2>2, <2>3
  <1>11. CASE \/ ActivateByHand \/ Deactivate \/ ResetBreaker \/ Tick \/ GoDown \/ ComeBack
              \/ UNCHANGED vars
              \/ \E p \in Positions : Adopt(p) \/ OpenPosition(p) \/ ClosePosition(p)
    <2>1. UNCHANGED <<cycle, draft, staged, known, missed>>
      BY <1>11 DEF ActivateByHand, Deactivate, ResetBreaker, Tick, GoDown, ComeBack, Adopt,
                   OpenPosition, ClosePosition, vars, stored, history
    <2>. QED
      BY <1>1, <2>1
  <1>. QED
    BY <1>4, <1>5, <1>6, <1>7, <1>8, <1>9, <1>10, <1>11 DEF Next, Manage, Submit

LEMMA RequestsAreFinite ==
  ASSUME SentOnce, NEW p
  PROVE  /\ IsFiniteSet(StageRequests(p)) /\ Cardinality(StageRequests(p)) \in Nat
         /\ Allowance(p) \in Nat
  <1>1. IsFiniteSet(wire \cup executed)
    BY FS_Union DEF SentOnce
  <1>2. StageRequests(p) \in SUBSET (wire \cup executed)
    BY DEF StageRequests
  <1>3. IsFiniteSet(StageRequests(p))
    BY <1>1, <1>2, FS_Subset
  <1>. QED
    BY <1>3, FS_CardinalityType DEF Allowance, SentOnce

\* Every step that sends, answers or forgets a stage's request accounts for it.
LEMMA CountedStays ==
  ASSUME CycleInv, Session, SentOnce, Counted, [Next]_vars, NEW p \in Positions
  PROVE  Cardinality(StageRequests(p)') <= Allowance(p)'
  <1>. DEFINE n == Cardinality(StageRequests(p))
              Lost == lost' = lost + 1
              Base == UNCHANGED <<staged, missed>>
  <1>1. SentOnce'
    BY SentOnceStays
  <1>2. /\ IsFiniteSet(StageRequests(p)) /\ n \in Nat /\ Allowance(p) \in Nat
        /\ n <= Allowance(p) /\ lost \in Nat
    BY RequestsAreFinite DEF Counted, SentOnce
  <1>3. Allowance(p)' \in Nat /\ lost' \in Nat
    <2>1. lost' \in Nat
      BY <1>1 DEF SentOnce
    <2>2. Allowance(p)' \in {lost' + 0, lost' + 1, lost' + 2}
      BY <2>1 DEF Allowance
    <2>. QED
      BY <2>1, <2>2
  <1>4. ASSUME StageRequests(p)' \subseteq StageRequests(p), Allowance(p) <= Allowance(p)'
        PROVE  Cardinality(StageRequests(p)') <= Allowance(p)'
    <2>1. StageRequests(p)' \in SUBSET StageRequests(p)
      BY <1>4
    <2>2. Cardinality(StageRequests(p)') <= n /\ Cardinality(StageRequests(p)') \in Nat
      BY <1>2, <2>1, FS_Subset, FS_CardinalityType
    <2>. HIDE DEF n
    <2>. QED
      BY <1>2, <1>3, <1>4, <2>2
  <1>5. ASSUME UNCHANGED <<wire, executed>>, Allowance(p) <= Allowance(p)'
        PROVE  Cardinality(StageRequests(p)') <= Allowance(p)'
    <2>1. StageRequests(p)' = StageRequests(p)
      BY <1>5 DEF StageRequests
    <2>. QED
      BY <1>4, <1>5, <2>1
  <1>6. ASSUME Base, lost' = lost, Unrecorded(p) => Unrecorded(p)'
        PROVE  Allowance(p) <= Allowance(p)'
    BY <1>2, <1>6 DEF Allowance
  <1>7. ASSUME Base, Lost PROVE Allowance(p) <= Allowance(p)'
    BY <1>2, <1>7 DEF Allowance
  <1>8. CASE \/ ActivateByHand \/ Deactivate \/ ResetBreaker \/ Tick \/ GoDown \/ ComeBack
             \/ UNCHANGED vars
             \/ \E q \in Positions : Adopt(q) \/ OpenPosition(q) \/ ClosePosition(q)
    <2>1. UNCHANGED <<wire, executed, cycle, draft, lost, staged, missed>>
      BY <1>8 DEF ActivateByHand, Ask, Deactivate, ResetBreaker, Tick, GoDown, ComeBack, Adopt,
                  OpenPosition, ClosePosition, vars, stored, terminal, world, history
    <2>2. Unrecorded(p) => Unrecorded(p)'
      BY <2>1 DEF Unrecorded
    <2>. QED
      BY <1>5, <1>6, <2>1, <2>2
  <1>9. CASE \/ StartCycle \/ EnsureActivation \/ ReadFails \/ ReadPositions
             \/ \E q \in Positions : Manage(q)
    <2>1. /\ UNCHANGED <<wire, executed, draft, lost, staged, missed>>
          /\ cycle.stage # "awaiting"
      BY <1>9 DEF StartCycle, EnsureActivation, ReadFails, ReadPositions, Manage, Hold, Choose,
                  LooksAt, stored, terminal, world, history
    <2>2. Unrecorded(p) => Unrecorded(p)'
      BY <2>1 DEF Unrecorded
    <2>. QED
      BY <1>5, <1>6, <2>1, <2>2
  <1>10. CASE Abort \/ LoseAnswer(cycle.key)
    <2>1. UNCHANGED <<wire, executed, staged, missed>> /\ Lost
      BY <1>10 DEF Abort, LoseAnswer, stored, terminal, history
    <2>. QED
      BY <1>5, <1>7, <2>1
  <1>11. ASSUME NEW k, SubmitDuplicate(k) \/ SubmitRefused(k), k = cycle.key
         PROVE  Cardinality(StageRequests(p)') <= Allowance(p)'
    <2>1. /\ UNCHANGED <<wire, executed, lost, staged, missed>>
          /\ cycle.stage = "submitting" /\ \E s : draft' = Put(draft, k, s)
      BY <1>11 DEF SubmitDuplicate, SubmitRefused, Submitting, Result, stored, terminal, world, history
    <2>2. k \notin DOMAIN draft
      BY <1>11, <2>1 DEF CycleInv, UnderWay, Session
    <2>3. Unrecorded(p) => Unrecorded(p)'
      BY <2>1, <2>2 DEF Unrecorded, Put
    <2>. QED
      BY <1>5, <1>6, <2>1, <2>3
  <1>12. ASSUME NEW k, Send(k), k = cycle.key
         PROVE  Cardinality(StageRequests(p)') <= Allowance(p)'
    <2>1. /\ wire' = wire \cup {k} /\ UNCHANGED <<executed, draft, lost, staged, missed>>
          /\ cycle' = [cycle EXCEPT !.stage = "awaiting"]
          /\ cycle.stage = "submitting"
      BY <1>12 DEF Send, Submitting, stored, world, history
    <2>2. cycle'.stage = "awaiting" /\ cycle'.key = k
      BY <1>12, <2>1 DEF CycleInv, Typed
    <2>3. CASE ~(k.pos = p /\ k.kind = "stage")
      <3>1. StageRequests(p)' = StageRequests(p)
        BY <2>1, <2>3 DEF StageRequests
      <3>2. Unrecorded(p) => Unrecorded(p)'
        BY <2>1 DEF Unrecorded
      <3>. QED
        BY <1>4, <1>6, <2>1, <3>1, <3>2
    <2>4. CASE k.pos = p /\ k.kind = "stage"
      <3>1. StageRequests(p)' = StageRequests(p) \cup {k}
        BY <2>1, <2>4 DEF StageRequests
      <3>2. Cardinality(StageRequests(p)') <= n + 1 /\ Cardinality(StageRequests(p)') \in Nat
        <4>1. /\ IsFiniteSet(StageRequests(p) \cup {k})
              /\ Cardinality(StageRequests(p) \cup {k}) =
                   IF k \in StageRequests(p) THEN n ELSE n + 1
          BY <1>2, FS_AddElement
        <4>. HIDE DEF n
        <4>. QED
          BY <1>2, <3>1, <4>1
      <3>3. p \in cycle.todo /\ p \notin staged
        BY <1>12, <2>1, <2>4 DEF CycleInv, UnderWay, Session
      <3>4. ~Unrecorded(p) /\ Unrecorded(p)'
        BY <2>1, <2>2, <2>4, <3>3 DEF Unrecorded, Session
      <3>5. Allowance(p)' = Allowance(p) + 1
        BY <1>2, <2>1, <3>3, <3>4 DEF Allowance
      <3>. HIDE DEF n
      <3>. QED
        BY <1>2, <1>3, <3>2, <3>5
    <2>. QED
      BY <2>3, <2>4
  <1>13. ASSUME NEW k \in wire, Answer(k) PROVE Cardinality(StageRequests(p)') <= Allowance(p)'
    <2>1. /\ Moves(k) /\ Base
          /\ Heedless(k) \/ HearsYes(k) \/ HearsNo(k) \/ HearsNothing(k)
      BY <1>13, AnswerEffect DEF stored
    <2>2. StageRequests(p)' \subseteq StageRequests(p)
      BY <2>1 DEF Moves, StageRequests
    <2>3. CASE Heedless(k)
      <3>1. lost' = lost /\ (Unrecorded(p) => Unrecorded(p)')
        BY <2>3 DEF Heedless, Unheard, Told, Unrecorded
      <3>. QED
        BY <1>4, <1>6, <2>1, <2>2, <3>1
    <2>4. CASE HearsYes(k)
      <3>1. /\ draft' = Put(draft, k, "submitted") /\ cycle.key = k /\ cycle.stage = "awaiting"
            /\ lost' = lost
        BY <2>4 DEF HearsYes, Accepted, Awaiting, Result
      <3>2. Unrecorded(p) => Unrecorded(p)'
        BY <3>1 DEF Unrecorded, Put
      <3>. QED
        BY <1>4, <1>6, <2>1, <2>2, <3>1, <3>2
    <2>5. CASE HearsNothing(k)
      BY <1>4, <1>7, <2>1, <2>2, <2>5 DEF HearsNothing
    <2>6. CASE HearsNo(k)
      <3>1. /\ draft' = Put(draft, k, "failed") /\ cycle.key = k /\ cycle.stage = "awaiting"
            /\ lost' = lost /\ wire' = wire \ {k} /\ UNCHANGED executed
        BY <2>6 DEF HearsNo, Told, Rejected, Awaiting, Result
      <3>2. k \notin DOMAIN draft
        BY <3>1 DEF CycleInv, UnderWay, Session
      <3>3. CASE ~(k.pos = p /\ k.kind = "stage")
        <4>1. Unrecorded(p) => Unrecorded(p)'
          BY <3>1, <3>2, <3>3 DEF Unrecorded, Put
        <4>. QED
          BY <1>4, <1>6, <2>1, <2>2, <3>1, <4>1
      <3>4. CASE k.pos = p /\ k.kind = "stage"
        <4>1. k \in StageRequests(p) /\ StageRequests(p)' = StageRequests(p) \ {k}
          BY <3>1, <3>4 DEF StageRequests, SentOnce
        <4>2. Cardinality(StageRequests(p)') = n - 1
          BY <1>2, <4>1, FS_RemoveElement
        <4>3. Allowance(p) <= Allowance(p)' + 1
          BY <1>2, <2>1, <3>1 DEF Allowance
        <4>. HIDE DEF n
        <4>. QED
          BY <1>2, <1>3, <4>2, <4>3
      <3>. QED
        BY <3>3, <3>4
    <2>. QED
      BY <2>1, <2>3, <2>4, <2>5, <2>6
  <1>14. CASE Commit
    <2>1. /\ UNCHANGED <<wire, executed, lost>>
          /\ staged' = staged \cup {k.pos : k \in {j \in DOMAIN draft : StageRecorded(j)}}
          /\ missed' = missed \cup {k.pos : k \in {j \in DOMAIN draft : StageMissed(j)}}
          /\ cycle.stage = "managing"
      BY <1>14 DEF Commit, terminal, world
    <2>2. ASSUME Unrecorded(p), p \notin staged' PROVE p \in missed' /\ p \notin missed
      <3>1. PICK k \in DOMAIN draft : k.pos = p /\ k.kind = "stage" /\ draft[k] = "submitted"
        BY <2>1, <2>2 DEF Unrecorded
      <3>2. p \notin known
        BY <2>1, <2>2, <3>1 DEF StageRecorded
      <3>. QED
        BY <2>1, <3>1, <3>2 DEF StageMissed, Session
    <2>3. Allowance(p) <= Allowance(p)'
      <3>1. staged \subseteq staged' /\ missed \subseteq missed' /\ lost' = lost
        BY <2>1
      <3>2. CASE p \in staged'
        BY <1>2, <3>1, <3>2 DEF Allowance
      <3>3. CASE p \notin staged'
        BY <1>2, <2>2, <3>1, <3>3 DEF Allowance
      <3>. QED
        BY <3>2, <3>3
    <2>. QED
      BY <1>5, <2>1, <2>3
  <1>. QED
    BY <1>8, <1>9, <1>10, <1>11, <1>12, <1>13, <1>14 DEF Next, Submit

\* A position's exit stage executes once, once more for every answer that was lost or
\* told nothing and for every aborted cycle, and once more only if the cycle that
\* first saw the position executed it, whatever the rules choose and for any number
\* of positions, cycles, minutes and restarts.
THEOREM StageRepeatsHaveCause == Spec => []RepeatsAreExplained
  <1>1. Init => StageInv
    <2>. SUFFICES ASSUME Init PROVE StageInv
      OBVIOUS
    <2>1. Session /\ SentOnce
      BY FS_EmptySet DEF Init, Idle, Nothing, Session, SentOnce
    <2>2. ASSUME NEW p \in Positions PROVE Cardinality(StageRequests(p)) <= Allowance(p)
      <3>1. StageRequests(p) = {}
        BY DEF Init, StageRequests
      <3>. QED
        BY <2>1, <3>1, FS_EmptySet, RequestsAreFinite
    <2>. QED
      BY <2>1, <2>2 DEF StageInv, Counted
  <1>2. CycleInv /\ StageInv /\ [Next]_vars => StageInv'
    BY SessionStays, SentOnceStays, CountedStays DEF StageInv, Counted
  <1>3. StageInv => RepeatsAreExplained
    <2>. SUFFICES ASSUME StageInv, NEW p \in Positions
                  PROVE  Cardinality(StagesExecuted(p)) <=
                           1 + lost + (IF p \in missed THEN 1 ELSE 0)
      BY DEF RepeatsAreExplained
    <2>1. /\ IsFiniteSet(StageRequests(p)) /\ Cardinality(StageRequests(p)) \in Nat
          /\ Cardinality(StageRequests(p)) <= Allowance(p) /\ lost \in Nat
      BY RequestsAreFinite DEF StageInv, Counted, SentOnce
    <2>2. StagesExecuted(p) \in SUBSET StageRequests(p)
      BY DEF StagesExecuted, StageRequests
    <2>3. /\ Cardinality(StagesExecuted(p)) <= Cardinality(StageRequests(p))
          /\ Cardinality(StagesExecuted(p)) \in Nat
      BY <2>1, <2>2, FS_Subset, FS_CardinalityType
    <2>4. Allowance(p) \in Nat /\ Allowance(p) <= 1 + lost + (IF p \in missed THEN 1 ELSE 0)
      BY <2>1 DEF Allowance
    <2>. QED
      BY <2>1, <2>3, <2>4
  <1>. QED
    BY <1>1, <1>2, <1>3, CycleInvariant, PTL DEF Spec


-----------------------------------------------------------------------------
(* The requests.  The cycle holds a key of its own making, and while it waits *)
(* for that key's answer nothing else stores one.                             *)

KeyInv ==
  /\ cuts \in [Positions -> 0..MaxCuts] /\ minute \in 0..MaxMinute
  /\ wire \subseteq ActionKey
  /\ \A p \in cycle.todo : cycle.seen[p] \in 0..MaxCuts
  /\ cycle.stage \in {"submitting", "awaiting"} => cycle.key \in ActionKey
  /\ cycle.stage = "awaiting" => cycle.key \in DOMAIN journal /\ journal[cycle.key] = "SUBMITTED"

\* A cycle that holds no key keeps the keys as they are.
LEMMA NoKeyHeld ==
  ASSUME KeyInv, UNCHANGED <<wire, cuts, minute>>,
         cycle'.stage \notin {"submitting", "awaiting"},
         \A p \in cycle'.todo : cycle'.seen[p] \in 0..MaxCuts
  PROVE  KeyInv'
  BY DEF KeyInv

\* An action's result takes its position off the list.
LEMMA DoneKeepsKeys ==
  ASSUME Typed, KeyInv, UNCHANGED <<wire, cuts, minute>>, NEW p, cycle' = Done(p)
  PROVE  KeyInv'
  BY DoneFacts, NoKeyHeld DEF KeyInv

LEMMA KeyInvStays ==
  ASSUME CycleInv, KeyInv, [Next]_vars
  PROVE  KeyInv'
  <1>0. Typed
    BY DEF CycleInv
  <1>1. CASE \/ ActivateByHand \/ Deactivate \/ ResetBreaker \/ Tick \/ GoDown \/ ComeBack
             \/ UNCHANGED vars
             \/ \E p \in Positions : Adopt(p) \/ OpenPosition(p) \/ ClosePosition(p)
    <2>1. UNCHANGED <<wire, cuts, journal, cycle>>
      BY <1>1 DEF ActivateByHand, Deactivate, ResetBreaker, Tick, GoDown, ComeBack, Adopt,
                  OpenPosition, ClosePosition, vars, terminal
    <2>2. minute' = minute \/ (minute < MaxMinute /\ minute' = minute + 1)
      BY <1>1 DEF ActivateByHand, Ask, Deactivate, ResetBreaker, Tick, GoDown, ComeBack, Adopt,
                  OpenPosition, ClosePosition, vars, world
    <2>3. minute' \in 0..MaxMinute
      BY <2>2, ConstantsAssumption DEF KeyInv, ConstantsAssumption
    <2>. QED
      BY <2>1, <2>3 DEF KeyInv
  <1>2. CASE StartCycle \/ ReadFails \/ Commit \/ Abort
    <2>1. UNCHANGED <<wire, cuts, minute>>
      BY <1>2 DEF StartCycle, ReadFails, Commit, Abort, terminal, world
    <2>2. \/ cycle' = [Idle EXCEPT !.stage = IF active THEN "reading" ELSE "activating"]
          \/ cycle' = Idle
      BY <1>2 DEF StartCycle, ReadFails, Commit, Abort
    <2>3. cycle'.stage \notin {"submitting", "awaiting"} /\ cycle'.todo = {}
      BY <2>2 DEF Idle
    <2>. QED
      BY <2>1, <2>3, NoKeyHeld
  <1>3. CASE EnsureActivation
    <2>1. UNCHANGED <<wire, cuts, minute>> /\ cycle' = [cycle EXCEPT !.stage = "reading"]
      BY <1>3 DEF EnsureActivation, terminal, world
    <2>2. cycle'.stage = "reading" /\ cycle'.todo = cycle.todo /\ cycle'.seen = cycle.seen
      BY <1>0, <2>1 DEF Typed
    <2>. QED
      BY <2>1, <2>2, NoKeyHeld DEF KeyInv
  <1>4. CASE ReadPositions
    <2>1. UNCHANGED <<wire, cuts, minute>>
      BY <1>4 DEF ReadPositions, terminal, world
    <2>2. /\ cycle'.stage = "managing" /\ cycle'.todo = Listed
          /\ cycle'.seen = [p \in Listed |-> cuts[p]]
      BY <1>0, <1>4 DEF ReadPositions, Typed
    <2>3. \A p \in Listed : cuts[p] \in 0..MaxCuts
      BY DEF KeyInv, Listed
    <2>. QED
      BY <2>1, <2>2, <2>3, NoKeyHeld
  <1>5. ASSUME NEW p \in Positions, Hold(p) PROVE KeyInv'
    BY <1>0, <1>5, DoneKeepsKeys DEF Hold, terminal, world
  <1>6. ASSUME NEW p \in Positions, NEW kind \in Kinds, Choose(p, kind) PROVE KeyInv'
    <2>. DEFINE k == [pos |-> p, kind |-> kind, cuts |-> cycle.seen[p], minute |-> minute]
    <2>1. /\ cycle' = [cycle EXCEPT !.stage = "submitting", !.key = k]
          /\ p \in cycle.todo /\ UNCHANGED <<wire, cuts, minute>>
      BY <1>6 DEF Choose, LooksAt, terminal, world
    <2>2. k \in ActionKey
      BY <2>1 DEF KeyInv, ActionKey
    <2>. HIDE DEF k
    <2>3. /\ cycle'.stage = "submitting" /\ cycle'.key = k
          /\ cycle'.todo = cycle.todo /\ cycle'.seen = cycle.seen
      BY <1>0, <2>1 DEF Typed
    <2>. QED
      BY <2>1, <2>2, <2>3 DEF KeyInv
  <1>7. ASSUME NEW k, SubmitDuplicate(k) \/ SubmitRefused(k) \/ LoseAnswer(k) PROVE KeyInv'
    <2>1. UNCHANGED <<wire, cuts, minute>> /\ cycle' = Done(k.pos)
      BY <1>7 DEF SubmitDuplicate, SubmitRefused, LoseAnswer, Result, terminal, world
    <2>. QED
      BY <1>0, <2>1, DoneKeepsKeys
  <1>8. CASE Send(cycle.key)
    <2>1. /\ cycle.stage = "submitting" /\ cycle' = [cycle EXCEPT !.stage = "awaiting"]
          /\ journal' = Put(journal, cycle.key, "SUBMITTED")
          /\ wire' = wire \cup {cycle.key} /\ UNCHANGED <<cuts, minute>>
      BY <1>8 DEF Send, Submitting, world
    <2>2. /\ cycle'.stage = "awaiting" /\ cycle'.key = cycle.key
          /\ cycle'.todo = cycle.todo /\ cycle'.seen = cycle.seen
      BY <1>0, <2>1 DEF Typed
    <2>3. cycle.key \in DOMAIN journal' /\ journal'[cycle.key] = "SUBMITTED"
      BY <2>1 DEF Put
    <2>. QED
      BY <2>1, <2>2, <2>3 DEF KeyInv
  <1>9. ASSUME NEW k \in wire, Answer(k) PROVE KeyInv'
    <2>1. /\ wire' \subseteq wire /\ minute' = minute
          /\ \/ cuts' = cuts
             \/ cuts[k.pos] < MaxCuts /\ cuts' = [cuts EXCEPT ![k.pos] = @ + 1]
      BY <1>9 DEF Answer, Execute, Decline, AnswerEarly, terminal
    <2>2. k.pos \in Positions
      BY DEF KeyInv, ActionKey
    <2>3. cuts' \in [Positions -> 0..MaxCuts]
      BY <2>1, <2>2, ConstantsAssumption DEF KeyInv, ConstantsAssumption
    <2>4. UNCHANGED <<cycle, journal>> \/ cycle' = Done(k.pos)
      BY <1>9, AnswerEffect DEF Heedless, Unheard, HearsYes, HearsNo, HearsNothing, Accepted,
                                Rejected, Result
    <2>5. CASE UNCHANGED <<cycle, journal>>
      BY <2>1, <2>3, <2>5 DEF KeyInv
    <2>6. CASE cycle' = Done(k.pos)
      <3>1. cycle'.stage = "managing" /\ cycle'.todo \subseteq cycle.todo /\ cycle'.seen = cycle.seen
        BY <1>0, <2>6, DoneFacts
      <3>. QED
        BY <2>1, <2>3, <3>1 DEF KeyInv
    <2>. QED
      BY <2>4, <2>5, <2>6
  <1>. QED
    BY <1>1, <1>2, <1>3, <1>4, <1>5, <1>6, <1>7, <1>8, <1>9 DEF Next, Manage, Submit


\* A step changes what is stored of one key, or its fate; every other stays.
Same(j) == Stored(j)' = Stored(j) /\ Fate(j)' = Fate(j)
AllSame == UNCHANGED doubts /\ \A j \in ActionKey : Same(j)

LEMMA OneKeyChanges ==
  ASSUME NEW k \in ActionKey, NEW s, NEW f,
         Stored(k)' = s, Fate(k)' = f, \A j \in ActionKey : j # k => Same(j)
  PROVE  /\ [j \in ActionKey |-> Stored(j)]' = [[j \in ActionKey |-> Stored(j)] EXCEPT ![k] = s]
         /\ [j \in ActionKey |-> Fate(j)]' = [[j \in ActionKey |-> Fate(j)] EXCEPT ![k] = f]
  <1>1. \A j \in ActionKey : Stored(j)' = IF j = k THEN s ELSE Stored(j)
    BY DEF Same
  <1>2. \A j \in ActionKey : Fate(j)' = IF j = k THEN f ELSE Fate(j)
    BY DEF Same
  <1>. HIDE DEF Stored, Fate, ActionKey
  <1>. QED
    BY <1>1, <1>2

LEMMA StutterMaps == AllSame => UNCHANGED Requests!vars
  BY DEF AllSame, Same, Requests!vars, doubts

\* What is stored of the keys an order is not about, and of the key itself.
LEMMA PutStores ==
  ASSUME NEW k, NEW s, journal' = Put(journal, k, s)
  PROVE  /\ k \in DOMAIN journal' /\ journal'[k] = s /\ Stored(k)' = s
         /\ \A j : j # k => (j \in DOMAIN journal' <=> j \in DOMAIN journal)
                            /\ Stored(j)' = Stored(j)
  BY DEF Put, Stored

\* A check fails before the terminal is reached: nothing was or will be sent.
LEMMA RefuseMaps ==
  ASSUME SentOnce, NEW k \in ActionKey, ~Seen(k), journal' = Put(journal, k, "REJECTED"),
         UNCHANGED <<wire, executed, doubts>>
  PROVE  Requests!Next
  <1>1. Stored(k) = "unsent" /\ Fate(k) = "here"
    BY DEF SentOnce, Seen, Stored, Fate
  <1>2. Stored(k)' = "REJECTED" /\ Fate(k)' = "never"
    BY PutStores DEF SentOnce, Seen, Fate
  <1>3. \A j \in ActionKey : j # k => Same(j)
    BY PutStores DEF Same, Fate
  <1>4. Requests!Refuse(k)
    BY <1>1, <1>2, <1>3, OneKeyChanges DEF Requests!Refuse, doubts
  <1>. QED
    BY <1>4 DEF Requests!Next

\* SUBMITTED is stored and the request is under way.
LEMMA SendMaps ==
  ASSUME SentOnce, NEW k \in ActionKey, Send(k)
  PROVE  Requests!Next
  <1>1. /\ k \notin DOMAIN journal /\ journal' = Put(journal, k, "SUBMITTED")
        /\ wire' = wire \cup {k} /\ UNCHANGED <<executed, placed, unclear>>
    BY DEF Send, Seen, history
  <1>2. Stored(k) = "unsent" /\ Fate(k) = "here"
    BY <1>1 DEF SentOnce, Stored, Fate
  <1>3. Stored(k)' = "SUBMITTED" /\ Fate(k)' = "underway"
    BY <1>1, PutStores DEF SentOnce, Fate
  <1>4. \A j \in ActionKey : j # k => Same(j)
    BY <1>1, PutStores DEF Same, Fate
  <1>5. Requests!Send(k)
    BY <1>1, <1>2, <1>3, <1>4, OneKeyChanges DEF Requests!Send
  <1>. QED
    BY <1>5 DEF Requests!Next

\* The terminal decides or not yet, and what it answers is stored if the cycle waits.
LEMMA AnswerMaps ==
  ASSUME SentOnce, KeyInv, NEW k \in wire, Answer(k)
  PROVE  Requests!Next
  <1>1. k \in ActionKey /\ k \notin executed /\ k \in DOMAIN journal
    BY DEF KeyInv, SentOnce
  <1>2. /\ Moves(k)
        /\ Heedless(k) \/ HearsYes(k) \/ HearsNo(k) \/ HearsNothing(k)
    BY AnswerEffect
  <1>3. \/ UNCHANGED <<journal, placed, unclear>>
        \/ /\ journal[k] = "SUBMITTED"
           /\ \E s : journal' = Put(journal, k, s)
    BY <1>2 DEF Heedless, Unheard, Told, doubts, HearsYes, HearsNo, HearsNothing, Awaiting,
                Accepted, Rejected, KeyInv
  <1>4. \A j : j # k => (j \in DOMAIN journal' <=> j \in DOMAIN journal) /\ Stored(j)' = Stored(j)
    BY <1>3, PutStores DEF Stored
  <1>5. k \in DOMAIN journal'
    BY <1>1, <1>3, PutStores
  <1>6. /\ Fate(k) = "underway" /\ Fate(k)' \in {"underway", "executed", "never"}
        /\ k \in executed' => Fate(k)' = "executed"
        /\ k \notin executed' \cup wire' => Fate(k)' = "never"
        /\ k \notin wire' => Fate(k)' # "underway"
    BY <1>1, <1>2, <1>5 DEF Fate, Moves
  <1>7. \A j \in ActionKey : j # k => Same(j)
    BY <1>2, <1>4 DEF Same, Fate, Moves
  <1>8. [j \in ActionKey |-> Fate(j)]' = [[j \in ActionKey |-> Fate(j)] EXCEPT ![k] = Fate(k)']
    BY <1>1, <1>7, OneKeyChanges
  <1>9. [j \in ActionKey |-> Stored(j)]' = [[j \in ActionKey |-> Stored(j)] EXCEPT ![k] = Stored(k)']
    BY <1>1, <1>7, OneKeyChanges
  <1>10. CASE Heedless(k)
    <2>1. UNCHANGED <<journal, placed, unclear>> /\ k \notin wire'
      BY <1>10 DEF Heedless, Unheard, Told, doubts
    <2>2. [j \in ActionKey |-> Stored(j)]' = [j \in ActionKey |-> Stored(j)]
      BY <2>1 DEF Stored
    <2>3. Fate(k)' \in {"executed", "never"}
      BY <1>6, <2>1
    <2>4. Requests!Decide(k)
      BY <1>1, <1>6, <1>8, <2>1, <2>2, <2>3 DEF Requests!Decide
    <2>. QED
      BY <1>1, <2>4 DEF Requests!Next
  <1>11. CASE HearsYes(k) \/ HearsNo(k) \/ HearsNothing(k)
    <2>1. Stored(k) = "SUBMITTED"
      BY <1>1, <1>11 DEF HearsYes, HearsNo, HearsNothing, Awaiting, KeyInv, Stored
    <2>2. \/ /\ Stored(k)' \in Requests!AnswersTo(Fate(k)')
             /\ placed' \cup unclear' = placed \cup unclear
          \/ /\ Stored(k)' \in {"ACCEPTED", "REJECTED"}
             /\ placed' \cup unclear' = (placed \cup unclear) \cup {k}
      <3>1. CASE HearsYes(k)
        <4>1. Stored(k)' = "ACCEPTED"
          BY <3>1, PutStores DEF HearsYes, Accepted
        <4>. QED
          BY <1>6, <3>1, <4>1 DEF HearsYes, Requests!AnswersTo
      <3>2. CASE HearsNo(k)
        <4>1. Stored(k)' = "REJECTED" /\ k \notin executed' \cup wire'
          BY <1>1, <3>2, PutStores DEF HearsNo, Rejected
        <4>. QED
          BY <1>6, <3>2, <4>1 DEF HearsNo, Told, doubts, Requests!AnswersTo
      <3>3. CASE HearsNothing(k)
        <4>1. Stored(k)' = "REJECTED"
          BY <3>3, PutStores DEF HearsNothing, Rejected
        <4>. QED
          BY <3>3, <4>1 DEF HearsNothing
      <3>. QED
        BY <1>11, <3>1, <3>2, <3>3
    <2>3. Requests!Store(k, Fate(k)')
      BY <1>1, <1>9, <2>1, <2>2 DEF Requests!Store, Requests!Guesses
    <2>4. CASE Fate(k)' = "underway"
      <3>1. [j \in ActionKey |-> Fate(j)]' = [j \in ActionKey |-> Fate(j)]
        BY <1>1, <1>6, <1>7, <2>4 DEF Same
      <3>2. Requests!Learn(k)
        BY <1>1, <1>6, <2>3, <2>4, <3>1 DEF Requests!Learn
      <3>. QED
        BY <1>1, <3>2 DEF Requests!Next
    <2>5. CASE Fate(k)' \in {"executed", "never"}
      <3>1. Requests!Decide(k)
        BY <1>1, <1>6, <1>8, <2>3, <2>5 DEF Requests!Decide
      <3>. QED
        BY <1>1, <3>1 DEF Requests!Next
    <2>. QED
      BY <1>6, <2>4, <2>5
  <1>. QED
    BY <1>2, <1>10, <1>11

\* Every step is a step of the abstract specification, or none.
LEMMA NextMaps ==
  ASSUME CycleInv, KeyInv, SentOnce, [Next]_vars
  PROVE  Requests!Next \/ AllSame
  <1>1. ASSUME UNCHANGED <<journal, wire, executed, placed, unclear>> PROVE AllSame
    BY <1>1 DEF AllSame, Same, Stored, Fate, doubts
  <1>2. CASE \/ ActivateByHand \/ Deactivate \/ ResetBreaker \/ Tick \/ GoDown \/ ComeBack
             \/ StartCycle \/ EnsureActivation \/ ReadFails \/ ReadPositions \/ Commit \/ Abort
             \/ UNCHANGED vars \/ SubmitDuplicate(cycle.key) \/ LoseAnswer(cycle.key)
             \/ \E p \in Positions : Adopt(p) \/ Manage(p) \/ OpenPosition(p) \/ ClosePosition(p)
    BY <1>1, <1>2, Quiet
  <1>3. CASE SubmitRefused(cycle.key) \/ Send(cycle.key)
    <2>1. cycle.key \in ActionKey
      BY <1>3 DEF SubmitRefused, Send, Submitting, KeyInv
    <2>2. PICK k \in ActionKey : k = cycle.key
      BY <2>1
    <2>3. CASE SubmitRefused(k)
      <3>1. /\ ~Seen(k) /\ UNCHANGED <<wire, executed, placed, unclear>>
            /\ journal' = journal \/ journal' = Put(journal, k, "REJECTED")
        BY <2>3 DEF SubmitRefused, terminal, history
      <3>. QED
        BY <1>1, <3>1, RefuseMaps DEF doubts
    <2>. QED
      BY <1>3, <2>2, <2>3, SendMaps
  <1>4. ASSUME NEW k \in wire, Answer(k) PROVE Requests!Next
    BY <1>4, AnswerMaps
  <1>. QED
    BY <1>2, <1>3, <1>4 DEF Next, Submit

\* The adaptive manager implements the life of a request: through cycles that end
\* early, repeated keys, lost answers and outages, no key is sent when it may have
\* been, no request decided twice, and no order stored but as it was answered; an answer
\* that tells nothing, or comes early, is told apart from those that tell.
THEOREM ImplementsRequests == Spec => RefinesRequests
  <1>1. Init => KeyInv /\ SentOnce
    <2>1. MaxCuts \in Nat /\ MaxMinute \in Nat
      BY ConstantsAssumption DEF ConstantsAssumption
    <2>. QED
      BY <2>1, FS_EmptySet DEF Init, Idle, Nothing, KeyInv, SentOnce
  <1>2. CycleInv /\ KeyInv /\ SentOnce /\ [Next]_vars => (KeyInv /\ SentOnce)'
    BY KeyInvStays, SentOnceStays
  <1>3. Init => Requests!Init
    BY DEF Init, Nothing, Requests!Init, Stored, Fate
  <1>4. CycleInv /\ KeyInv /\ SentOnce /\ [Next]_vars => [Requests!Next]_Requests!vars
    BY NextMaps, StutterMaps DEF Requests!vars
  <1>. QED
    BY <1>1, <1>2, <1>3, <1>4, CycleInvariant, PTL DEF Spec, RefinesRequests, Requests!Spec

=============================================================================
