-------------------------- MODULE AutoPaperProofs --------------------------
(* Proofs about AutoPaper, for any decisions, symbols, sizes and limits, and *)
(* any number of restarts and days.                                          *)
EXTENDS AutoPaper, FiniteSetTheorems, TLAPS

\* The types, one variable at a time.
Typed ==
  /\ multi \in BOOLEAN /\ emergency \in BOOLEAN /\ unresolved \in BOOLEAN
  /\ cooling \in BOOLEAN /\ entryUsed \in BOOLEAN
  /\ phase \in {"sleeping", "screening", "analyzing", "sent", "marked"}
  /\ current \in Decisions \cup {NoDecision}
  /\ traded \subseteq Decisions /\ marked \subseteq Decisions /\ today \subseteq Decisions
  /\ late \subseteq Decisions /\ forgotten \subseteq Decisions
  /\ uncounted \subseteq Decisions /\ adrift \subseteq Decisions
  /\ failed \subseteq Decisions /\ unheard \subseteq Decisions
  /\ lapsed \subseteq Decisions
  /\ order \in [Decisions -> {"none", "sent", "working", "done"}]
  /\ filled \in [Decisions -> 0..Size] /\ covered \in [Decisions -> 0..Size]
  /\ receipt \in 0..Size
  /\ restarts \in 0..MaxRestarts /\ days \in 0..MaxDays

\* Decisions are placed one after the other, and the cycle works on one that is
\* placed, or on the next to be placed.
Numbered ==
  /\ \E n \in 0..MaxEntries :
       /\ \A d \in Decisions : order[d] # "none" <=> d <= n
       /\ phase = "analyzing" => current = n + 1
  /\ phase \in {"analyzing", "sent", "marked"} => current \in Decisions
  /\ phase \in {"sent", "marked"} => order[current] # "none"

\* An order that is not at the broker has no lots, one that works is not full,
\* and the exits, placed last, cover no more than the receipt reported.
Lots ==
  /\ \A d \in Decisions :
       /\ order[d] \in {"none", "sent"} => filled[d] = 0
       /\ order[d] = "working" => filled[d] < Size
       /\ covered[d] <= filled[d]
       /\ Handling(d) => covered[d] = 0
  /\ phase = "marked" => receipt <= filled[current]

\* What the receipt left out is known to be late, and a failed protection keeps
\* the process shut.
Causes ==
  /\ phase = "marked" /\ receipt < filled[current] => current \in late
  /\ failed # {} => emergency /\ unresolved
  /\ \A d \in Decisions :
       ~Handling(d) /\ covered[d] < filled[d] =>
         d \in late \cup forgotten \cup unheard \cup lapsed \cup failed

AutoInv == Typed /\ Numbered /\ Lots /\ Causes

\* The limits are positive, and the bounds are natural numbers.
LEMMA Limits ==
  /\ MaxEntries \in Nat /\ MaxRestarts \in Nat /\ MaxDays \in Nat
  /\ Size \in Nat \ {0} /\ DailyCap \in Nat \ {0}
  BY ConstantsAssumption DEF ConstantsAssumption

\* Initially nothing is placed.
LEMMA InitHolds == Init => AutoInv
  <1>. SUFFICES ASSUME Init PROVE AutoInv
    OBVIOUS
  <1>. USE ConstantsAssumption DEF ConstantsAssumption, Init, Decisions, NoDecision
  <1>1. Typed
    <2>1. 0 \in 0..Size /\ 0 \in 0..MaxRestarts /\ 0 \in 0..MaxDays
      BY Limits
    <2>2. filled \in [Decisions -> 0..Size] /\ covered \in [Decisions -> 0..Size]
      BY <2>1
    <2>. HIDE DEF Decisions, ConstantsAssumption
    <2>. QED
      BY <2>1, <2>2 DEF Typed
  <1>2. Numbered
    <2>1. 0 \in 0..MaxEntries /\ \A d \in Decisions : order[d] # "none" <=> d <= 0
      OBVIOUS
    <2>. QED
      BY <2>1 DEF Numbered
  <1>3. Lots /\ Causes
    BY DEF Lots, Causes, Handling
  <1>. QED
    BY <1>1, <1>2, <1>3 DEF AutoInv

-----------------------------------------------------------------------------
(* The steps, by what they touch.                                          *)

\* Steps that end a cycle, or work for it without an order.
Early ==
  \/ StartCycle \/ EndCycle \/ EmergencyDisable \/ EmergencyEnable
  \/ CooldownEnds \/ NewDay

Heard == Acknowledged \/ NotAcknowledged
Ended == PendingOnFill \/ Protect \/ ProtectFails

LEMMA NextSplit ==
  ASSUME [Next]_vars
  PROVE  \/ UNCHANGED vars \/ Early \/ \E d \in Decisions : Screen(d)
         \/ Place \/ Heard \/ Ended \/ Restart
         \/ \E d \in Decisions : Arrive(d) \/ Fill(d) \/ Die(d) \/ Close(d) \/ Lapse(d)
  BY DEF Next, CycleStep, Early, Heard, Ended

\* The early steps leave the broker and the failures alone, and lift the stop
\* only where no protection failed.
LEMMA EarlyStep ==
  ASSUME AutoInv, Early
  PROVE  AutoInv'
  <1>. USE ConstantsAssumption DEF ConstantsAssumption, Outside, history, broker, stored, memory, cycle
  <1>1. Typed'
    <2>1. 0 \in 0..Size
      BY Limits
    <2>2. CASE StartCycle \/ EndCycle
      BY <2>1, <2>2 DEF AutoInv, Typed, StartCycle, EndCycle, Sleep, Reach
    <2>3. CASE EmergencyDisable \/ EmergencyEnable \/ CooldownEnds
      BY <2>3 DEF AutoInv, Typed, EmergencyDisable, EmergencyEnable, CooldownEnds
    <2>4. CASE NewDay
      <3>1. days' \in 0..MaxDays
        BY <2>4, Limits DEF AutoInv, Typed, NewDay
      <3>. QED
        BY <2>4, <3>1 DEF AutoInv, Typed, NewDay
    <2>. QED
      BY <2>2, <2>3, <2>4 DEF Early
  <1>2. UNCHANGED <<order, filled, covered, late, forgotten, unheard, lapsed, failed, unresolved>>
    BY DEF Early, StartCycle, EndCycle, EmergencyDisable, EmergencyEnable, CooldownEnds, NewDay
  <1>3. \/ UNCHANGED <<phase, current, receipt>>
        \/ phase \notin {"sent", "marked"} /\ phase' \in {"sleeping", "screening"}
    BY DEF Early, StartCycle, EndCycle, EmergencyDisable, EmergencyEnable, CooldownEnds, NewDay,
           Sleep, Reach
  <1>4. failed # {} => emergency'
    BY DEF AutoInv, Causes, Typed, Early, StartCycle, EndCycle, EmergencyDisable, EmergencyEnable,
           CooldownEnds, NewDay, Blocked
  <1>5. Numbered'
    BY <1>2, <1>3 DEF AutoInv, Numbered
  <1>6. Lots' /\ Causes'
    BY <1>2, <1>3, <1>4 DEF AutoInv, Lots, Causes, Handling
  <1>. QED
    BY <1>1, <1>5, <1>6 DEF AutoInv

\* The candidate screened is the next decision.
LEMMA ScreenStep ==
  ASSUME AutoInv, NEW d \in Decisions, Screen(d)
  PROVE  AutoInv'
  <1>. USE ConstantsAssumption DEF ConstantsAssumption, Outside, history, broker, stored, memory
  <1>1. Typed'
    BY DEF AutoInv, Typed, Screen
  <1>2. Numbered'
    <2>1. PICK n \in 0..MaxEntries : \A e \in Decisions : order[e] # "none" <=> e <= n
      BY DEF AutoInv, Numbered
    <2>2. Placed = 1..n
      BY <2>1 DEF Placed, Decisions
    <2>3. Cardinality(Placed) = n
      <3>. HIDE DEF ConstantsAssumption
      <3>1. 1 \in Int /\ n \in Int
        BY Limits
      <3>2. Cardinality(1..n) = IF 1 > n THEN 0 ELSE n - 1 + 1
        BY <3>1, FS_Interval
      <3>. QED
        BY <2>2, <3>1, <3>2, Limits
    <2>. QED
      BY <2>1, <2>3 DEF Screen, Numbered
  <1>3. Lots' /\ Causes'
    BY DEF AutoInv, Lots, Causes, Handling, Screen
  <1>. QED
    BY <1>1, <1>2, <1>3 DEF AutoInv

\* The entry placed is new, so it has no lots.
LEMMA PlaceStep ==
  ASSUME AutoInv, Place
  PROVE  AutoInv'
  <1>. USE ConstantsAssumption DEF ConstantsAssumption, Outside, stored, memory
  <1>1. current \in Decisions /\ phase = "analyzing" /\ order[current] = "none"
    <2>1. PICK n \in 0..MaxEntries :
            /\ \A e \in Decisions : order[e] # "none" <=> e <= n
            /\ phase = "analyzing" => current = n + 1
      BY DEF AutoInv, Numbered
    <2>. QED
      BY <2>1 DEF AutoInv, Numbered, Place, Decisions
  <1>2. Typed'
    BY <1>1 DEF AutoInv, Typed, Place, Reach
  <1>3. Numbered'
    <2>1. PICK n \in 0..MaxEntries :
            /\ \A e \in Decisions : order[e] # "none" <=> e <= n
            /\ phase = "analyzing" => current = n + 1
      BY DEF AutoInv, Numbered
    <2>2. n + 1 \in 0..MaxEntries /\ \A e \in Decisions : order'[e] # "none" <=> e <= n + 1
      <3>. HIDE DEF ConstantsAssumption
      <3>1. current = n + 1 /\ n \in Nat
        BY <1>1, <2>1, Limits
      <3>2. n + 1 \in 0..MaxEntries
        BY <1>1, <3>1, Limits DEF Decisions
      <3>3. \A e \in Decisions : order'[e] = IF e = current THEN "sent" ELSE order[e]
        BY <1>1 DEF Place, AutoInv, Typed
      <3>4. \A e \in Decisions : e <= n + 1 <=> e <= n \/ e = n + 1
        BY <3>1, Limits DEF Decisions
      <3>. QED
        BY <2>1, <3>1, <3>2, <3>3, <3>4
    <2>3. phase' = "sent" /\ current' = current /\ order'[current] # "none"
      BY <1>1 DEF Place, Reach, AutoInv, Typed
    <2>. QED
      BY <1>1, <2>2, <2>3 DEF Numbered
  <1>4. Lots' /\ Causes'
    BY <1>1 DEF AutoInv, Typed, Lots, Causes, Handling, Place, Reach
  <1>. QED
    BY <1>2, <1>3, <1>4 DEF AutoInv

\* The receipt reports no more than was filled, and what it leaves out is late.
LEMMA HeardStep ==
  ASSUME AutoInv, Heard
  PROVE  AutoInv'
  <1>. USE ConstantsAssumption DEF ConstantsAssumption, Outside, memory, broker
  <1>1. phase = "sent" /\ current \in Decisions
    BY DEF AutoInv, Numbered, Heard, Acknowledged, NotAcknowledged
  <1>2. PICK lots \in 0..filled[current] :
          /\ receipt' = lots
          /\ late' = late \cup IF lots < filled[current] THEN {current} ELSE {}
          /\ phase' = "marked" /\ UNCHANGED current
    BY DEF Heard, Acknowledged, NotAcknowledged, Receipt, Reported
  <1>3. UNCHANGED <<order, filled, covered, forgotten, failed, unheard, lapsed, emergency, unresolved>>
    BY DEF Heard, Acknowledged, NotAcknowledged
  <1>4. Typed'
    <2>1. receipt' \in 0..Size /\ late' \subseteq Decisions
      BY <1>1, <1>2 DEF AutoInv, Typed
    <2>2. marked' \subseteq Decisions /\ entryUsed' \in BOOLEAN /\ adrift' \subseteq Decisions
      BY <1>1 DEF AutoInv, Typed, Heard, Acknowledged, NotAcknowledged, Mark
    <2>3. UNCHANGED <<multi, cooling, traded, today, uncounted, restarts, days>>
      BY DEF Heard, Acknowledged, NotAcknowledged
    <2>. QED
      BY <1>2, <1>3, <2>1, <2>2, <2>3 DEF AutoInv, Typed
  <1>5. Numbered'
    BY <1>1, <1>2, <1>3 DEF AutoInv, Numbered
  <1>6. Lots' /\ Causes'
    BY <1>1, <1>2, <1>3 DEF AutoInv, Typed, Lots, Causes, Handling
  <1>. QED
    BY <1>4, <1>5, <1>6 DEF AutoInv

\* The cycle ends with the exits placed for the reported lots, or for none.
LEMMA EndedStep ==
  ASSUME AutoInv, Ended
  PROVE  AutoInv'
  <1>. USE ConstantsAssumption DEF ConstantsAssumption, Outside, stored
  <1>1. phase = "marked" /\ current \in Decisions
    BY DEF AutoInv, Numbered, Ended, PendingOnFill, Protect, ProtectFails
  <1>2. /\ phase' = "sleeping" /\ current' = NoDecision /\ receipt' = 0
        /\ UNCHANGED <<order, filled, late, forgotten, lapsed>>
    BY DEF Ended, PendingOnFill, Protect, ProtectFails, Conclude, Sleep
  <1>3. \/ receipt = 0 /\ UNCHANGED <<covered, failed, unheard, emergency, unresolved>>
        \/ /\ covered' = [covered EXCEPT ![current] = receipt]
           /\ UNCHANGED <<failed, unheard, emergency, unresolved>>
        \/ /\ unheard' = unheard \cup {current}
           /\ UNCHANGED <<covered, failed, emergency, unresolved>>
        \/ /\ \E lots \in {0, receipt} : covered' = [covered EXCEPT ![current] = lots]
           /\ failed' = failed \cup {current} /\ emergency' /\ unresolved'
           /\ emergency' = TRUE /\ unresolved' = TRUE
           /\ UNCHANGED unheard
    BY DEF Ended, PendingOnFill, Protect, ProtectFails, Cover
  <1>4. Typed'
    <2>1. 0 \in 0..Size /\ receipt \in 0..Size /\ covered \in [Decisions -> 0..Size]
      BY Limits DEF AutoInv, Typed
    <2>2. covered' \in [Decisions -> 0..Size]
      <3>1. CASE UNCHANGED covered
        BY <2>1, <3>1
      <3>2. CASE \E lots \in {0, receipt} : covered' = [covered EXCEPT ![current] = lots]
        <4>1. PICK lots \in {0, receipt} : covered' = [covered EXCEPT ![current] = lots]
          BY <3>2
        <4>2. lots \in 0..Size
          BY <2>1
        <4>. HIDE DEF ConstantsAssumption
        <4>. QED
          BY <1>1, <2>1, <4>1, <4>2
      <3>. QED
        BY <1>3, <3>1, <3>2
    <2>3. failed' \subseteq Decisions /\ unheard' \subseteq Decisions
      BY <1>1, <1>3 DEF AutoInv, Typed
    <2>4. emergency' \in BOOLEAN /\ unresolved' \in BOOLEAN
      BY <1>3 DEF AutoInv, Typed
    <2>5. traded' = traded \cup {current} /\ cooling' = TRUE
          /\ UNCHANGED <<multi, marked, entryUsed, today, uncounted, adrift, restarts, days>>
      BY DEF Ended, PendingOnFill, Protect, ProtectFails, Conclude
    <2>6. traded' \subseteq Decisions /\ cooling' \in BOOLEAN
      BY <1>1, <2>5 DEF AutoInv, Typed
    <2>. HIDE DEF ConstantsAssumption
    <2>. QED
      BY <1>2, <2>1, <2>2, <2>3, <2>4, <2>5, <2>6 DEF AutoInv, Typed
  <1>5. Numbered'
    BY <1>2 DEF AutoInv, Numbered
  <1>6. Lots' /\ Causes'
    BY <1>1, <1>2, <1>3 DEF AutoInv, Typed, Lots, Causes, Handling
  <1>. QED
    BY <1>4, <1>5, <1>6 DEF AutoInv

\* The process forgets its flags, and the entry it was protecting.
LEMMA RestartStep ==
  ASSUME AutoInv, Restart
  PROVE  AutoInv'
  <1>. USE ConstantsAssumption DEF ConstantsAssumption, stored, broker
  <1>1. Typed'
    <2>1. 0 \in 0..Size /\ restarts' \in 0..MaxRestarts
      BY Limits DEF AutoInv, Typed, Restart
    <2>2. phase \in {"sent", "marked"} => current \in Decisions
      BY DEF AutoInv, Numbered
    <2>3. forgotten' \subseteq Decisions /\ uncounted' \subseteq Decisions
          /\ adrift' \subseteq Decisions
      BY <2>2 DEF AutoInv, Typed, Restart
    <2>. QED
      BY <2>1, <2>3 DEF AutoInv, Typed, Restart, Sleep
  <1>2. Numbered'
    BY DEF AutoInv, Numbered, Restart, Sleep
  <1>3. Lots' /\ Causes'
    BY DEF AutoInv, Lots, Causes, Handling, Restart, Sleep
  <1>. QED
    BY <1>1, <1>2, <1>3 DEF AutoInv

\* The broker fills what works and closes what is open.
LEMMA BrokerStep ==
  ASSUME AutoInv, NEW d \in Decisions, Arrive(d) \/ Fill(d) \/ Die(d) \/ Close(d) \/ Lapse(d)
  PROVE  AutoInv'
  <1>. USE ConstantsAssumption DEF ConstantsAssumption, BrokerOnly, Unnoticed, Outside, cycle,
                                   memory, stored, IsOpen
  <1>1. Typed'
    <2>1. UNCHANGED <<multi, emergency, unresolved, cooling, entryUsed, phase, current, traded,
                      marked, today, forgotten, uncounted, adrift, failed, unheard, receipt,
                      restarts, days>> /\ lapsed' \subseteq Decisions
      BY DEF Arrive, Fill, Die, Close, Lapse, AutoInv, Typed
    <2>2. order' \in [Decisions -> {"none", "sent", "working", "done"}] /\ late' \subseteq Decisions
      BY DEF Arrive, Fill, Die, Close, Lapse, AutoInv, Typed
    <2>3. filled' \in [Decisions -> 0..Size] /\ covered' \in [Decisions -> 0..Size]
      BY DEF Arrive, Fill, Die, Close, Lapse, AutoInv, Typed, Lots
    <2>. QED
      BY <2>1, <2>2, <2>3 DEF AutoInv, Typed
  <1>2. Numbered'
    BY DEF Arrive, Fill, Die, Close, Lapse, AutoInv, Typed, Numbered
  <1>3. CASE Arrive(d) \/ Die(d)
    BY <1>1, <1>2, <1>3 DEF Arrive, Die, AutoInv, Typed, Lots, Causes, Handling
  <1>4. CASE Fill(d)
    BY <1>1, <1>2, <1>4 DEF Fill, AutoInv, Typed, Lots, Causes, Handling
  <1>5. CASE Close(d)
    BY <1>1, <1>2, <1>5 DEF Close, AutoInv, Typed, Lots, Causes, Handling
  <1>6. CASE Lapse(d)
    BY <1>1, <1>2, <1>6 DEF Lapse, AutoInv, Typed, Lots, Causes, Handling
  <1>. QED
    BY <1>3, <1>4, <1>5, <1>6

\* The invariant holds of every behaviour.
LEMMA Invariance == Spec => []AutoInv
  <1>1. AutoInv /\ [Next]_vars => AutoInv'
    <2>. SUFFICES ASSUME AutoInv, [Next]_vars PROVE AutoInv'
      OBVIOUS
    <2>1. CASE UNCHANGED vars
      BY <2>1 DEF AutoInv, Typed, Numbered, Lots, Causes, Handling, vars, cycle, memory, stored,
                  broker, history
    <2>. QED
      BY <2>1, NextSplit, EarlyStep, ScreenStep, PlaceStep, HeardStep, EndedStep, RestartStep,
         BrokerStep
  <1>. QED
    BY <1>1, InitHolds, PTL DEF Spec

-----------------------------------------------------------------------------
(* The entries counted.  An entry that was placed is counted, is about to    *)
(* be, or its process ended first.                                           *)

Uncounting == IF phase = "sent" THEN {current} ELSE {}

CountedByDay ==
  /\ today \subseteq marked \cup uncounted \cup Uncounting
  /\ Cardinality(marked \cup Uncounting) <= DailyCap

CountedOnce ==
  /\ \A d, e \in Placed \ uncounted : d = e
  /\ ~entryUsed => Placed \subseteq uncounted \cup Uncounting
  /\ phase = "sent" => ~entryUsed

Counted == (multi => CountedByDay) /\ (~multi => CountedOnce)

\* Every set of decisions is finite.
LEMMA DecisionsFinite ==
  ASSUME NEW S, S \subseteq Decisions
  PROVE  IsFiniteSet(S) /\ Cardinality(S) \in Nat
  <1>1. IsFiniteSet(Decisions)
    BY FS_Interval, Limits DEF Decisions
  <1>. QED
    BY <1>1, FS_Subset, FS_CardinalityType

\* A set within two others has at most as many members as both.
LEMMA UnionBound ==
  ASSUME NEW S, NEW A, NEW B, A \subseteq Decisions, B \subseteq Decisions, S \subseteq A \cup B
  PROVE  Cardinality(S) <= Cardinality(A) + Cardinality(B)
  <1>1. /\ IsFiniteSet(A) /\ IsFiniteSet(B) /\ IsFiniteSet(A \cup B)
        /\ Cardinality(A) \in Nat /\ Cardinality(B) \in Nat
        /\ Cardinality(A \cap B) \in Nat /\ Cardinality(A \cup B) \in Nat
        /\ Cardinality(S) \in Nat
    <2>1. A \cup B \subseteq Decisions /\ A \cap B \subseteq Decisions /\ S \subseteq Decisions
      OBVIOUS
    <2>. QED
      BY <2>1, DecisionsFinite
  <1>2. Cardinality(S) <= Cardinality(A \cup B)
    BY <1>1, FS_Subset
  <1>3. Cardinality(A \cup B) = Cardinality(A) + Cardinality(B) - Cardinality(A \cap B)
    BY <1>1, FS_Union
  <1>. QED
    BY <1>1, <1>2, <1>3

\* Placing is the only step that adds to what must be counted.
LEMMA PlaceCounts ==
  ASSUME AutoInv, Counted, Place
  PROVE  Counted'
  <1>1. current \in Decisions /\ Uncounting = {} /\ Uncounting' = {current}
    BY DEF AutoInv, Numbered, Place, Reach, Uncounting
  <1>2. today' = today \cup {current} /\ UNCHANGED <<marked, uncounted, entryUsed, multi>>
    BY DEF Place, stored, Outside
  <1>3. Placed' \subseteq Placed \cup {current}
    BY <1>1 DEF Place, Placed, AutoInv, Typed
  <1>4. CASE multi
    <2>1. Cardinality(marked) < DailyCap
      <3>1. ~(Cardinality(marked) >= DailyCap)
        BY <1>4 DEF Place, MaySubmit, EntriesUsed
      <3>2. Cardinality(marked) \in Nat
        BY DecisionsFinite DEF AutoInv, Typed
      <3>. QED
        BY <3>1, <3>2, Limits
    <2>2. Cardinality(marked \cup {current}) <= DailyCap
      <3>1. IsFiniteSet(marked) /\ Cardinality(marked) \in Nat
        BY DecisionsFinite DEF AutoInv, Typed
      <3>2. Cardinality(marked \cup {current}) \in {Cardinality(marked), Cardinality(marked) + 1}
        <4>1. CASE current \in marked
          <5>1. marked \cup {current} = marked
            BY <4>1
          <5>. QED
            BY <5>1
        <4>2. CASE current \notin marked
          BY <3>1, <4>2, FS_AddElement
        <4>. QED
          BY <4>1, <4>2
      <3>. QED
        BY <2>1, <3>1, <3>2, Limits
    <2>. QED
      BY <1>1, <1>2, <1>4, <2>2 DEF Counted, CountedByDay
  <1>5. CASE ~multi
    <2>1. ~entryUsed /\ phase' = "sent"
      BY <1>5 DEF Place, MaySubmit, EntriesUsed, Reach
    <2>. QED
      BY <1>1, <1>2, <1>3, <1>5, <2>1 DEF Counted, CountedOnce
  <1>. QED
    BY <1>4, <1>5 DEF AutoInv, Typed

\* The receipt of an entry counts it.
LEMMA HeardCounts ==
  ASSUME AutoInv, Counted, Heard
  PROVE  Counted'
  <1>1. phase = "sent" /\ phase' = "marked" /\ Mark
    BY DEF Heard, Acknowledged, NotAcknowledged, Receipt
  <1>2. UNCHANGED <<multi, order, today, uncounted>>
    BY DEF Heard, Acknowledged, NotAcknowledged, Outside, broker
  <1>3. Uncounting = {current} /\ Uncounting' = {}
    BY <1>1 DEF Uncounting
  <1>4. Placed' = Placed
    BY <1>2 DEF Placed
  <1>5. CASE multi
    <2>1. marked' \cup Uncounting' = marked \cup Uncounting
      BY <1>1, <1>3, <1>5 DEF Mark
    <2>2. CountedByDay
      BY <1>5 DEF Counted
    <2>3. today' \subseteq marked' \cup uncounted' \cup Uncounting'
      BY <1>2, <2>1, <2>2 DEF CountedByDay
    <2>4. Cardinality(marked' \cup Uncounting') <= DailyCap
      BY <2>1, <2>2 DEF CountedByDay
    <2>. QED
      BY <1>2, <1>5, <2>3, <2>4 DEF Counted, CountedByDay
  <1>6. CASE ~multi
    BY <1>1, <1>2, <1>3, <1>4, <1>6 DEF Counted, CountedOnce, Mark
  <1>. QED
    BY <1>5, <1>6 DEF AutoInv, Typed

\* A process that ends before it counted an entry leaves it uncounted.
LEMMA RestartCounts ==
  ASSUME AutoInv, Counted, Restart
  PROVE  Counted'
  <1>1. /\ uncounted' = uncounted \cup Uncounting /\ Uncounting' = {}
        /\ UNCHANGED <<multi, marked, entryUsed, order, today>> /\ phase' = "sleeping"
    BY DEF Restart, Sleep, stored, broker, Uncounting
  <1>2. Placed' = Placed
    BY <1>1 DEF Placed
  <1>3. CASE multi
    <2>1. CountedByDay
      BY <1>3 DEF Counted
    <2>2. marked \subseteq marked \cup Uncounting /\ Uncounting \subseteq Decisions
      BY DEF Uncounting, AutoInv, Numbered
    <2>3. Cardinality(marked) <= Cardinality(marked \cup Uncounting)
      BY <2>2, DecisionsFinite, FS_Subset DEF AutoInv, Typed
    <2>4. Cardinality(marked) \in Nat /\ Cardinality(marked \cup Uncounting) \in Nat
      BY <2>2, DecisionsFinite DEF AutoInv, Typed
    <2>5. Cardinality(marked) <= DailyCap
      BY <2>1, <2>3, <2>4, Limits DEF CountedByDay
    <2>6. marked' \cup Uncounting' = marked
      BY <1>1
    <2>. QED
      BY <1>1, <1>3, <2>1, <2>5, <2>6 DEF Counted, CountedByDay
  <1>4. CASE ~multi
    BY <1>1, <1>2, <1>4 DEF Counted, CountedOnce
  <1>. QED
    BY <1>3, <1>4 DEF AutoInv, Typed

\* A new day starts with nothing counted but the entry under way.
LEMMA NewDayCounts ==
  ASSUME AutoInv, Counted, NewDay
  PROVE  Counted'
  <1>1. UNCHANGED <<multi, phase, current, entryUsed, order, uncounted>>
    BY DEF NewDay, cycle, broker
  <1>2. Placed' = Placed /\ Uncounting' = Uncounting
    BY <1>1 DEF Placed, Uncounting
  <1>3. Cardinality({} \cup Uncounting) <= DailyCap
    <2>1. CASE phase = "sent"
      <3>1. {} \cup Uncounting = {current}
        BY <2>1 DEF Uncounting
      <3>2. Cardinality({current}) = 1
        BY FS_Singleton
      <3>3. 1 <= DailyCap
        BY Limits
      <3>. QED
        BY <3>1, <3>2, <3>3
    <2>2. CASE phase # "sent"
      <3>1. {} \cup Uncounting = {}
        BY <2>2 DEF Uncounting
      <3>. QED
        BY <3>1, FS_EmptySet, Limits
    <2>. QED
      BY <2>1, <2>2
  <1>4. marked' = {} /\ today' = {}
    BY DEF NewDay
  <1>. QED
    BY <1>1, <1>2, <1>3, <1>4 DEF Counted, CountedByDay, CountedOnce

\* The other steps touch neither the entries nor the counts.
LEMMA OthersCount ==
  ASSUME AutoInv, Counted,
         \/ UNCHANGED vars \/ StartCycle \/ EndCycle
         \/ EmergencyDisable \/ EmergencyEnable \/ CooldownEnds
         \/ \E d \in Decisions : Screen(d)
         \/ Ended
         \/ \E d \in Decisions : Arrive(d) \/ Fill(d) \/ Die(d) \/ Close(d) \/ Lapse(d)
  PROVE  Counted'
  <1>. USE DEF Outside, Sleep, Reach, stored, memory, cycle, broker, history
  <1>1. UNCHANGED <<multi, marked, entryUsed, today, uncounted>>
    BY DEF vars, StartCycle, EndCycle, EmergencyDisable, EmergencyEnable, CooldownEnds, Screen,
           Ended, PendingOnFill, Protect, ProtectFails, Conclude, Arrive, Fill, Die, Close, Lapse,
           BrokerOnly, Unnoticed
  <1>2. \/ UNCHANGED <<phase, current>>
        \/ phase # "sent" /\ phase' # "sent"
    BY DEF vars, StartCycle, EndCycle, EmergencyDisable, EmergencyEnable, CooldownEnds, Screen,
           Ended, PendingOnFill, Protect, ProtectFails, Conclude, Arrive, Fill, Die, Close, Lapse,
           BrokerOnly
  <1>3. Uncounting' = Uncounting /\ (phase' = "sent" <=> phase = "sent")
    BY <1>2 DEF Uncounting
  <1>4. Placed' = Placed
    <2>1. CASE \E d \in Decisions : Arrive(d) \/ Fill(d) \/ Die(d) \/ Close(d) \/ Lapse(d)
      BY <2>1 DEF Placed, Arrive, Fill, Die, Close, Lapse, AutoInv, Typed
    <2>2. CASE UNCHANGED order
      BY <2>2 DEF Placed
    <2>. QED
      BY <2>1, <2>2 DEF vars, StartCycle, EndCycle, EmergencyDisable, EmergencyEnable,
                        CooldownEnds, Screen, Ended, PendingOnFill, Protect, ProtectFails, Conclude
  <1>. QED
    BY <1>1, <1>3, <1>4 DEF Counted, CountedByDay, CountedOnce

\* The counts hold of every behaviour.
LEMMA CountInvariance == Spec => [](AutoInv /\ Counted)
  <1>1. Init => Counted
    <2>. SUFFICES ASSUME Init PROVE Counted
      OBVIOUS
    <2>1. Uncounting = {} /\ Placed = {} /\ {} \cup Uncounting = {} /\ Cardinality({}) = 0
      BY FS_EmptySet DEF Init, Uncounting, Placed
    <2>. QED
      BY <2>1, Limits DEF Init, Counted, CountedByDay, CountedOnce
  <1>2. AutoInv /\ Counted /\ [Next]_vars => Counted'
    <2>. SUFFICES ASSUME AutoInv, Counted, [Next]_vars PROVE Counted'
      OBVIOUS
    <2>. QED
      BY NextSplit, PlaceCounts, HeardCounts, RestartCounts, NewDayCounts, OthersCount DEF Early
  <1>. QED
    BY <1>1, <1>2, Invariance, PTL DEF Spec

-----------------------------------------------------------------------------
(* The exposure.  An order that the broker does not have yet is the cycle's  *)
(* own or was never acknowledged, so the open orders counted when an entry   *)
(* is placed are all but the adrift ones.                                    *)

SentIsKnown ==
  \A d \in Decisions : order[d] = "sent" => d \in adrift \/ (current = d /\ phase = "sent")

\* The entries that may still become a position.
Unfilled == {d \in Decisions : order[d] \in {"sent", "working"} /\ filled[d] = 0}

Exposed ==
  /\ SentIsKnown
  /\ Cardinality(OpenSymbols) + Cardinality(Unfilled) <=
       MaxPositions + MaxOrders - 1 + Cardinality(adrift)

LEMMA ExposureIsNumbers ==
  ASSUME Typed
  PROVE  /\ IsFiniteSet(OpenSymbols) /\ Cardinality(OpenSymbols) \in Nat
         /\ IsFiniteSet(Unfilled) /\ Cardinality(Unfilled) \in Nat
         /\ IsFiniteSet(adrift) /\ Cardinality(adrift) \in Nat
         /\ MaxPositions \in Nat \ {0} /\ MaxOrders \in Nat \ {0}
  <1>1. OpenSymbols \in SUBSET Symbols /\ IsFiniteSet(Symbols)
    BY ConstantsAssumption DEF ConstantsAssumption, OpenSymbols
  <1>2. IsFiniteSet(OpenSymbols) /\ Cardinality(OpenSymbols) \in Nat
    BY <1>1, FS_Subset, FS_CardinalityType
  <1>3. Unfilled \subseteq Decisions /\ adrift \subseteq Decisions
    BY DEF Unfilled, Typed
  <1>4. MaxPositions \in Nat \ {0} /\ MaxOrders \in Nat \ {0}
    BY ConstantsAssumption DEF ConstantsAssumption
  <1>. QED
    BY <1>2, <1>3, <1>4, DecisionsFinite

\* A step that exposes nothing more leaves the bound.
LEMMA NotMoreExposed ==
  ASSUME AutoInv, AutoInv', Exposed,
         OpenSymbols' \subseteq OpenSymbols, Unfilled' \subseteq Unfilled,
         adrift \subseteq adrift'
  PROVE  Cardinality(OpenSymbols') + Cardinality(Unfilled') <=
           MaxPositions + MaxOrders - 1 + Cardinality(adrift')
  <1>1. /\ IsFiniteSet(OpenSymbols) /\ Cardinality(OpenSymbols) \in Nat
        /\ IsFiniteSet(Unfilled) /\ Cardinality(Unfilled) \in Nat
        /\ Cardinality(adrift) \in Nat
        /\ MaxPositions \in Nat \ {0} /\ MaxOrders \in Nat \ {0}
    BY ExposureIsNumbers DEF AutoInv
  <1>2. OpenSymbols' \in SUBSET OpenSymbols /\ Unfilled' \in SUBSET Unfilled
    OBVIOUS
  <1>3. /\ Cardinality(OpenSymbols') <= Cardinality(OpenSymbols)
        /\ Cardinality(OpenSymbols') \in Nat
    BY <1>1, <1>2, FS_Subset, FS_CardinalityType
  <1>4. /\ Cardinality(Unfilled') <= Cardinality(Unfilled)
        /\ Cardinality(Unfilled') \in Nat
    BY <1>1, <1>2, FS_Subset, FS_CardinalityType
  <1>5. Cardinality(adrift) <= Cardinality(adrift') /\ Cardinality(adrift') \in Nat
    <2>1. adrift' \subseteq Decisions /\ adrift \in SUBSET adrift'
      BY DEF AutoInv, Typed
    <2>2. IsFiniteSet(adrift') /\ Cardinality(adrift') \in Nat
      BY <2>1, DecisionsFinite
    <2>. QED
      BY <2>1, <2>2, FS_Subset
  <1>6. Cardinality(OpenSymbols) + Cardinality(Unfilled) <=
          MaxPositions + MaxOrders - 1 + Cardinality(adrift)
    BY DEF Exposed
  <1>. QED
    BY <1>1, <1>3, <1>4, <1>5, <1>6

\* The entry placed finds a place among the positions and one among the orders.
LEMMA PlaceExposes ==
  ASSUME AutoInv, AutoInv', Exposed, Place
  PROVE  Exposed'
  <1>1. current \in Decisions /\ phase = "analyzing"
    BY DEF AutoInv, Numbered, Place
  <1>2. /\ order' = [order EXCEPT ![current] = "sent"] /\ UNCHANGED <<filled, adrift, current>>
        /\ phase' = "sent"
    BY DEF Place, Reach
  <1>3. SentIsKnown'
    BY <1>1, <1>2 DEF Exposed, SentIsKnown, AutoInv, Typed
  <1>4. /\ IsFiniteSet(OpenSymbols) /\ Cardinality(OpenSymbols) \in Nat
        /\ IsFiniteSet(Unfilled) /\ Cardinality(Unfilled) \in Nat
        /\ Cardinality(adrift) \in Nat
        /\ MaxPositions \in Nat \ {0} /\ MaxOrders \in Nat \ {0}
    BY ExposureIsNumbers DEF AutoInv
  <1>5. Cardinality(OpenSymbols) < MaxPositions /\ Cardinality(Working) < MaxOrders
    <2>1. Cardinality(OpenSymbols) < MaxPositions /\ OpenOrders < MaxOrders
      BY DEF Place, MaySubmit, Blocked, Capacity
    <2>2. /\ Cardinality(Working) \in Nat
          /\ Cardinality({d \in Decisions : Protected(d)}) \in Nat
      BY DecisionsFinite DEF Working
    <2>. QED
      BY <1>4, <2>1, <2>2 DEF OpenOrders
  <1>6. Cardinality(Unfilled) <= Cardinality(Working) + Cardinality(adrift)
    <2>1. Unfilled \subseteq Working \cup adrift
      BY <1>1 DEF Unfilled, Working, Exposed, SentIsKnown
    <2>2. Working \subseteq Decisions /\ adrift \subseteq Decisions
      BY DEF Working, AutoInv, Typed
    <2>. QED
      BY <2>1, <2>2, UnionBound
  <1>7. Cardinality(Unfilled') <= Cardinality(Unfilled) + 1
    <2>1. Unfilled' \in SUBSET (Unfilled \cup {current})
      BY <1>1, <1>2 DEF Unfilled, AutoInv, Typed
    <2>2. /\ IsFiniteSet(Unfilled \cup {current})
          /\ Cardinality(Unfilled \cup {current}) =
               IF current \in Unfilled THEN Cardinality(Unfilled)
               ELSE Cardinality(Unfilled) + 1
      BY <1>4, FS_AddElement
    <2>3. /\ Cardinality(Unfilled') <= Cardinality(Unfilled \cup {current})
          /\ Cardinality(Unfilled') \in Nat
      BY <2>1, <2>2, FS_Subset, FS_CardinalityType
    <2>. QED
      BY <1>4, <2>2, <2>3
  <1>8. Cardinality(Unfilled') \in Nat /\ Cardinality(Working) \in Nat
    BY DecisionsFinite DEF Unfilled, Working
  <1>9. OpenSymbols' = OpenSymbols /\ adrift' = adrift
    BY <1>2 DEF OpenSymbols, IsOpen
  <1>10. Cardinality(OpenSymbols) + Cardinality(Unfilled') <=
           MaxPositions + MaxOrders - 1 + Cardinality(adrift)
    BY <1>4, <1>5, <1>6, <1>7, <1>8
  <1>. QED
    BY <1>3, <1>9, <1>10 DEF Exposed

\* A fill makes a position of an entry that had none.
LEMMA FillExposes ==
  ASSUME AutoInv, AutoInv', Exposed, NEW d \in Decisions, Fill(d)
  PROVE  Exposed'
  <1>1. /\ order[d] = "working" /\ filled' = [filled EXCEPT ![d] = @ + 1]
        /\ order' = [order EXCEPT ![d] = IF filled[d] + 1 = Size THEN "done" ELSE @]
        /\ UNCHANGED <<adrift, phase, current>>
    BY DEF Fill, Unnoticed, BrokerOnly, cycle
  <1>2. filled[d] \in Nat
    BY Limits DEF AutoInv, Typed
  <1>3. SentIsKnown'
    BY <1>1 DEF Exposed, SentIsKnown, AutoInv, Typed
  <1>4. CASE filled[d] > 0
    <2>1. OpenSymbols' \subseteq OpenSymbols /\ Unfilled' \subseteq Unfilled
      BY <1>1, <1>2, <1>4 DEF OpenSymbols, IsOpen, Unfilled, AutoInv, Typed
    <2>2. adrift \subseteq adrift'
      BY <1>1
    <2>. QED
      BY <1>3, <2>1, <2>2, NotMoreExposed DEF Exposed
  <1>5. CASE filled[d] = 0
    <2>1. /\ IsFiniteSet(OpenSymbols) /\ Cardinality(OpenSymbols) \in Nat
          /\ IsFiniteSet(Unfilled) /\ Cardinality(Unfilled) \in Nat
          /\ Cardinality(adrift) \in Nat
          /\ MaxPositions \in Nat \ {0} /\ MaxOrders \in Nat \ {0}
      BY ExposureIsNumbers DEF AutoInv
    <2>2. OpenSymbols' \in SUBSET (OpenSymbols \cup {SymbolOf[d]})
      BY <1>1, <1>2 DEF OpenSymbols, IsOpen, AutoInv, Typed
    <2>3. /\ IsFiniteSet(OpenSymbols \cup {SymbolOf[d]})
          /\ Cardinality(OpenSymbols \cup {SymbolOf[d]}) =
               IF SymbolOf[d] \in OpenSymbols THEN Cardinality(OpenSymbols)
               ELSE Cardinality(OpenSymbols) + 1
      BY <2>1, FS_AddElement
    <2>4. /\ Cardinality(OpenSymbols') <= Cardinality(OpenSymbols) + 1
          /\ Cardinality(OpenSymbols') \in Nat
      <3>1. /\ Cardinality(OpenSymbols') <= Cardinality(OpenSymbols \cup {SymbolOf[d]})
            /\ Cardinality(OpenSymbols') \in Nat
        BY <2>2, <2>3, FS_Subset, FS_CardinalityType
      <3>. QED
        BY <2>1, <2>3, <3>1
    <2>5. d \in Unfilled
      BY <1>1, <1>5 DEF Unfilled
    <2>6. Unfilled' \in SUBSET (Unfilled \ {d})
      BY <1>1, <1>5 DEF Unfilled, AutoInv, Typed
    <2>7. /\ IsFiniteSet(Unfilled \ {d})
          /\ Cardinality(Unfilled \ {d}) = Cardinality(Unfilled) - 1
      BY <2>1, <2>5, FS_RemoveElement
    <2>8. /\ Cardinality(Unfilled') <= Cardinality(Unfilled) - 1
          /\ Cardinality(Unfilled') \in Nat
      BY <2>6, <2>7, FS_Subset, FS_CardinalityType
    <2>9. Cardinality(OpenSymbols) + Cardinality(Unfilled) <=
            MaxPositions + MaxOrders - 1 + Cardinality(adrift)
      BY DEF Exposed
    <2>10. Cardinality(OpenSymbols') + Cardinality(Unfilled') <=
             MaxPositions + MaxOrders - 1 + Cardinality(adrift)
      BY <2>1, <2>4, <2>8, <2>9
    <2>. QED
      BY <1>1, <1>3, <2>10 DEF Exposed
  <1>. QED
    BY <1>2, <1>4, <1>5

\* The other steps open nothing, and leave no order unknown.
LEMMA OthersExpose ==
  ASSUME AutoInv, AutoInv', Exposed,
         \/ UNCHANGED vars \/ Early \/ \E d \in Decisions : Screen(d)
         \/ Heard \/ Ended \/ Restart
         \/ \E d \in Decisions : Arrive(d) \/ Die(d) \/ Close(d) \/ Lapse(d)
  PROVE  Exposed'
  <1>1. CASE Early \/ (\E d \in Decisions : Screen(d)) \/ Ended \/ UNCHANGED vars
    <2>1. UNCHANGED <<order, filled, adrift>>
      BY <1>1 DEF Early, StartCycle, EndCycle, EmergencyDisable, EmergencyEnable, CooldownEnds,
                  NewDay, Screen, Ended, PendingOnFill, Protect, ProtectFails, Conclude, vars,
                  broker, history
    <2>2. phase = "sent" => UNCHANGED <<phase, current>>
      BY <1>1 DEF Early, StartCycle, EndCycle, EmergencyDisable, EmergencyEnable, CooldownEnds,
                  NewDay, Screen, Ended, PendingOnFill, Protect, ProtectFails, vars, cycle, Outside
    <2>3. OpenSymbols' = OpenSymbols /\ Unfilled' = Unfilled
      BY <2>1 DEF OpenSymbols, IsOpen, Unfilled
    <2>4. SentIsKnown'
      BY <2>1, <2>2 DEF Exposed, SentIsKnown
    <2>. QED
      BY <2>1, <2>3, <2>4 DEF Exposed
  <1>2. CASE Heard \/ Restart
    <2>1. UNCHANGED <<order, filled>> /\ adrift \subseteq adrift'
      BY <1>2 DEF Heard, Acknowledged, NotAcknowledged, Restart, broker
    <2>2. \A d \in Decisions : current = d /\ phase = "sent" => d \in adrift' \/ order[d] # "sent"
      BY <1>2 DEF Heard, Acknowledged, NotAcknowledged, Restart
    <2>3. OpenSymbols' = OpenSymbols /\ Unfilled' = Unfilled
      BY <2>1 DEF OpenSymbols, IsOpen, Unfilled
    <2>4. SentIsKnown'
      BY <2>1, <2>2 DEF Exposed, SentIsKnown
    <2>. QED
      BY <2>1, <2>3, <2>4, NotMoreExposed DEF Exposed
  <1>3. ASSUME NEW d \in Decisions, Arrive(d) \/ Die(d) \/ Close(d) \/ Lapse(d) PROVE Exposed'
    <2>1. UNCHANGED <<adrift, phase, current>>
      BY <1>3 DEF Arrive, Die, Close, Lapse, Unnoticed, BrokerOnly, cycle
    <2>2. \A e \in Decisions : /\ order'[e] = "sent" => order[e] = "sent"
                               /\ order'[e] = "working" => order[e] \in {"sent", "working"}
      BY <1>3 DEF Arrive, Die, Close, Lapse, AutoInv, Typed
    <2>3. \A e \in Decisions : /\ filled'[e] > 0 => filled[e] > 0
                               /\ filled'[e] = 0 => filled[e] = 0 \/ order'[e] = "done"
      <3>1. CASE Arrive(d) \/ Die(d) \/ Lapse(d)
        BY <3>1 DEF Arrive, Die, Lapse
      <3>2. CASE Close(d)
        <4>1. \A e \in Decisions : filled[e] \in Nat
          BY Limits DEF AutoInv, Typed
        <4>2. PICK lots \in {covered[d], filled[d]} \ {0} :
                filled' = [filled EXCEPT ![d] = filled[d] - lots]
          BY <3>2 DEF Close
        <4>3. /\ filled[d] > 0 /\ order'[d] = "done"
              /\ \A e \in Decisions \ {d} : filled'[e] = filled[e]
          BY <3>2, <4>2 DEF Close, IsOpen, AutoInv, Typed
        <4>. QED
          BY <4>1, <4>3
      <3>. QED
        BY <1>3, <3>1, <3>2
    <2>4. OpenSymbols' \subseteq OpenSymbols /\ Unfilled' \subseteq Unfilled
      BY <2>2, <2>3 DEF OpenSymbols, IsOpen, Unfilled
    <2>5. SentIsKnown'
      BY <2>1, <2>2 DEF Exposed, SentIsKnown
    <2>6. adrift \subseteq adrift'
      BY <2>1
    <2>. QED
      BY <2>4, <2>5, <2>6, NotMoreExposed DEF Exposed
  <1>. QED
    BY <1>1, <1>2, <1>3

-----------------------------------------------------------------------------
(* The theorems.                                                           *)

\* Every variable keeps its type.
THEOREM TypeCorrect == Spec => []TypeOK
  <1>1. AutoInv => TypeOK
    BY DEF AutoInv, Typed, TypeOK
  <1>. QED
    BY <1>1, Invariance, PTL

\* The exits never close more than the entry bought, for entries of any size
\* that fill in any parts: no race of fills, receipts and restarts turns a
\* protected position around.
THEOREM ExitsNeverReverse == Spec => []CoverWithinFill
  <1>1. AutoInv => CoverWithinFill
    BY DEF AutoInv, Lots, CoverWithinFill
  <1>. QED
    BY <1>1, Invariance, PTL

\* Every position that lacks part of its protection lacks it for one of the
\* named causes, and a failure that is not forgotten keeps the process shut.
THEOREM LackOfCoverHasCause == Spec => []UncoveredIsExplained
  <1>1. AutoInv => UncoveredIsExplained
    BY DEF AutoInv, Causes, UncoveredIsExplained
  <1>. QED
    BY <1>1, Invariance, PTL

\* The day's entries stay within the day's cap, and the single entry stays
\* single, up to the entries whose process ended before they were counted.
THEOREM CapHolds == Spec => []EntriesPerDay
  <1>1. AutoInv /\ Counted => EntriesPerDay
    <2>. SUFFICES ASSUME AutoInv, Counted PROVE EntriesPerDay
      OBVIOUS
    <2>1. uncounted \subseteq Decisions /\ Cardinality(uncounted) \in Nat /\ IsFiniteSet(uncounted)
      BY DecisionsFinite DEF AutoInv, Typed
    <2>2. CASE multi
      <3>1. marked \cup Uncounting \subseteq Decisions
        BY DEF AutoInv, Typed, Numbered, Uncounting
      <3>2. today \subseteq (marked \cup Uncounting) \cup uncounted
        BY <2>2 DEF Counted, CountedByDay
      <3>3. Cardinality(today) <= Cardinality(marked \cup Uncounting) + Cardinality(uncounted)
        BY <2>1, <3>1, <3>2, UnionBound
      <3>4. Cardinality(marked \cup Uncounting) <= DailyCap
        BY <2>2 DEF Counted, CountedByDay
      <3>5. Cardinality(today) \in Nat /\ Cardinality(marked \cup Uncounting) \in Nat
        BY <3>1, DecisionsFinite DEF AutoInv, Typed
      <3>. QED
        BY <2>1, <2>2, <3>3, <3>4, <3>5, Limits DEF EntriesPerDay
    <2>3. CASE ~multi
      <3>1. PICK d \in Decisions \cup {NoDecision} : Placed \subseteq {d} \cup uncounted
        BY <2>3 DEF Counted, CountedOnce, Placed
      <3>2. Placed \subseteq ({d} \cap Decisions) \cup uncounted
        BY <3>1 DEF Placed
      <3>3. Cardinality(Placed) <= Cardinality({d} \cap Decisions) + Cardinality(uncounted)
        BY <2>1, <3>2, UnionBound
      <3>4. Cardinality({d} \cap Decisions) <= 1
        <4>1. {d} \cap Decisions = {d} \/ {d} \cap Decisions = {}
          OBVIOUS
        <4>. QED
          BY <4>1, FS_Singleton, FS_EmptySet
      <3>5. Cardinality(Placed) \in Nat /\ Cardinality({d} \cap Decisions) \in Nat
        BY DecisionsFinite DEF Placed
      <3>. QED
        BY <2>1, <2>3, <3>3, <3>4, <3>5 DEF EntriesPerDay
    <2>. QED
      BY <2>2, <2>3 DEF AutoInv, Typed
  <1>. QED
    BY <1>1, CountInvariance, PTL

\* No entry follows an emergency stop until it is lifted, whatever the cycle
\* had read before the stop.
THEOREM StopBindsTheCycle == Spec => DisabledPlacesNothing
  <1>1. AutoInv /\ [Next]_vars => [emergency \/ unresolved => Placed' = Placed]_vars
    <2>. SUFFICES ASSUME AutoInv, [Next]_vars, emergency \/ unresolved PROVE Placed' = Placed
      OBVIOUS
    <2>1. ~Place
      BY DEF Place, MaySubmit, Blocked
    <2>2. CASE \E d \in Decisions : Arrive(d) \/ Fill(d) \/ Die(d) \/ Close(d) \/ Lapse(d)
      BY <2>2 DEF Placed, Arrive, Fill, Die, Close, Lapse, AutoInv, Typed
    <2>3. CASE UNCHANGED order
      BY <2>3 DEF Placed
    <2>4. CASE Early \/ (\E d \in Decisions : Screen(d)) \/ Heard \/ Ended \/ Restart
      <3>1. UNCHANGED order
        BY <2>4 DEF Early, StartCycle, EndCycle, EmergencyDisable, EmergencyEnable, CooldownEnds,
                    NewDay, Screen, Heard, Acknowledged, NotAcknowledged, Ended, PendingOnFill,
                    Protect, ProtectFails, Conclude, Restart, broker
      <3>. QED
        BY <3>1, <2>3
    <2>. QED
      BY <2>1, <2>2, <2>3, <2>4, NextSplit DEF vars, broker
  <1>. QED
    BY <1>1, Invariance, PTL DEF Spec, DisabledPlacesNothing

\* The open positions and the entries that may still become one stay within what
\* the two limits leave together, plus the entries never acknowledged, for any
\* limits, partial fills, restarts and orders that arrive late.
THEOREM ExposureHolds == Spec => []ExposureBounded
  <1>1. Init => Exposed
    <2>. SUFFICES ASSUME Init PROVE Exposed
      OBVIOUS
    <2>1. OpenSymbols = {} /\ Unfilled = {} /\ adrift = {} /\ SentIsKnown
      BY DEF Init, OpenSymbols, IsOpen, Unfilled, SentIsKnown
    <2>2. MaxPositions \in Nat \ {0} /\ MaxOrders \in Nat \ {0}
      BY ConstantsAssumption DEF ConstantsAssumption
    <2>. QED
      BY <2>1, <2>2, FS_EmptySet DEF Exposed
  <1>2. AutoInv /\ AutoInv' /\ Exposed /\ [Next]_vars => Exposed'
    BY NextSplit, PlaceExposes, FillExposes, OthersExpose
  <1>3. AutoInv /\ Exposed => ExposureBounded
    <2>. SUFFICES ASSUME AutoInv, Exposed PROVE ExposureBounded
      OBVIOUS
    <2>. DEFINE U == {d \in Working : filled[d] = 0}
    <2>1. /\ IsFiniteSet(OpenSymbols) /\ Cardinality(OpenSymbols) \in Nat
          /\ IsFiniteSet(Unfilled) /\ Cardinality(Unfilled) \in Nat
          /\ Cardinality(adrift) \in Nat
          /\ MaxPositions \in Nat \ {0} /\ MaxOrders \in Nat \ {0}
      BY ExposureIsNumbers DEF AutoInv
    <2>2. U \in SUBSET Unfilled
      BY DEF Unfilled, Working
    <2>. HIDE DEF U
    <2>3. Cardinality(U) <= Cardinality(Unfilled) /\ Cardinality(U) \in Nat
      BY <2>1, <2>2, FS_Subset, FS_CardinalityType
    <2>4. Cardinality(OpenSymbols) + Cardinality(Unfilled) <=
            MaxPositions + MaxOrders - 1 + Cardinality(adrift)
      BY DEF Exposed
    <2>5. Cardinality(OpenSymbols) + Cardinality(U) <=
            MaxPositions + MaxOrders - 1 + Cardinality(adrift)
      BY <2>1, <2>3, <2>4
    <2>. QED
      BY <2>5 DEF ExposureBounded, U
  <1>. QED
    BY <1>1, <1>2, <1>3, Invariance, PTL DEF Spec

=============================================================================
