---------------------- MODULE PortfolioExecutionProofs ----------------------
(* Proofs about PortfolioExecution, for any callers whose keys are           *)
(* exclusive, any keys and any number of lost answers and restarts.          *)
EXTENDS PortfolioExecution, FiniteSetTheorems, TLAPS

Busy == {"preflight", "sending", "answered"}
OnWire(k) == \E r \in wire : r.key = k
Untouched(k) == sends[k] = 0 /\ k \notin filled /\ ~OnWire(k)

\* What a caller's stage says of the key it holds.
CallMatches(c) ==
  LET k == call[c].key
  IN /\ call[c].stage \in Busy => k \in KeysOf[c]
     /\ call[c].stage = "preflight" => row[k] = "PENDING"
     /\ call[c].stage = "sending" =>
          row[k] = "SUBMITTED" /\ k \notin filled
     /\ call[c].stage = "answered" =>
          /\ row[k] = "SUBMITTED"
          /\ call[c].answer \in TerminalAnswers
          /\ call[c].answer \in {"done", "partial"} => k \in filled
          /\ call[c].answer = "refused" => k \notin filled /\ ~OnWire(k)

\* What a stored state says of its key.
RowMatches(k) ==
  /\ row[k] \in {"NONE", "PENDING"} => Untouched(k)
  /\ row[k] \in {"ACCEPTED", "PARTIALLY_FILLED"} => k \in filled \/ told[k] = "placed"
  /\ row[k] = "REJECTED" => (k \notin filled /\ ~OnWire(k)) \/ told[k] = "unclear"
  /\ row[k] \notin Settled => told[k] = "none"
  /\ k \in filled => ~OnWire(k)
  /\ sends[k] <= 1

IInv ==
  /\ TypeOK
  /\ \A c \in Callers : CallMatches(c)
  /\ \A k \in Keys : RowMatches(k)
  /\ \A r \in wire : r.key \in KeysOf[r.from]

-----------------------------------------------------------------------------
(* Every step preserves the invariant.                                     *)

\* Initially nothing is stored, held or sent.
LEMMA InitHolds == ASSUME ConstantsAssumption PROVE Init => IInv
  <1>. SUFFICES ASSUME Init PROVE IInv
    OBVIOUS
  <1>1. TypeOK
    <2>1. 0 \in 0..MaxLost
      BY DEF ConstantsAssumption
    <2>2. /\ row \in [Keys -> {"NONE", "PENDING"} \cup Answered] /\ sends \in [Keys -> Nat]
          /\ told \in [Keys -> TerminalAnswers \cup {"none"}]
      BY DEF Init
    <2>. QED
      BY <2>1, <2>2 DEF Init, TypeOK, Idle
  <1>2. \A c \in Callers : CallMatches(c)
    BY DEF Init, CallMatches, Idle, Busy
  <1>3. \A k \in Keys : RowMatches(k)
    BY DEF Init, RowMatches, Untouched, OnWire
  <1>4. \A r \in wire : r.key \in KeysOf[r.from]
    BY DEF Init
  <1>. QED
    BY <1>1, <1>2, <1>3, <1>4 DEF IInv

\* Steps that leave the stored orders and the terminal's requests alone and only
\* move a caller that has sent nothing keep the invariant.
LEMMA QuietStep ==
  ASSUME ConstantsAssumption, IInv, NEW c \in Callers,
         NEW s \in {"idle", "deciding"},
         call' = [call EXCEPT ![c] = [stage |-> s, key |-> NoKey, answer |-> "none"]],
         UNCHANGED <<row, wire, sends, filled, told>>,
         open' \subseteq Keys, blocked' \in BOOLEAN, lost' \in 0..MaxLost
  PROVE  IInv'
  <1>1. TypeOK'
    BY DEF IInv, TypeOK
  <1>2. ASSUME NEW d \in Callers PROVE CallMatches(d)'
    <2>1. CallMatches(d)
      BY DEF IInv
    <2>2. CASE d = c
      <3>1. call'[d].stage = s
        BY <2>2 DEF IInv, TypeOK
      <3>. QED
        BY <3>1 DEF CallMatches, Busy
    <2>3. CASE d # c
      <3>1. call'[d] = call[d]
        BY <2>3 DEF IInv, TypeOK
      <3>. QED
        BY <2>1, <3>1 DEF CallMatches, OnWire
    <2>. QED
      BY <2>2, <2>3
  <1>3. \A k \in Keys : RowMatches(k)'
    BY DEF IInv, RowMatches, Untouched, OnWire
  <1>4. (\A r \in wire : r.key \in KeysOf[r.from])'
    BY DEF IInv
  <1>. QED
    BY <1>1, <1>2, <1>3, <1>4 DEF IInv

\* A key has one holder: a caller holds a key only if it is one of its own.
LEMMA OneHolder ==
  ASSUME KeysAreExclusive, IInv, NEW c \in Callers, NEW d \in Callers, NEW k,
         k \in KeysOf[c], call[d].stage \in Busy, call[d].key = k
  PROVE  d = c
  BY DEF KeysAreExclusive, IInv, CallMatches

\* _reject on a key nothing was sent under.
LEMMA RejectStep ==
  ASSUME ConstantsAssumption, KeysAreExclusive, IInv,
         NEW c \in Callers, NEW k \in KeysOf[c], Untouched(k), Reject(c, k),
         call[c].stage \in Busy => call[c].key = k
  PROVE  IInv'
  <1>0. k \in Keys
    BY DEF ConstantsAssumption
  <1>1. TypeOK'
    BY DEF IInv, TypeOK, Reject, terminal, Idle, Answered, Settled
  <1>2. ASSUME NEW d \in Callers PROVE CallMatches(d)'
    <2>1. CallMatches(d)
      BY DEF IInv
    <2>2. CASE d = c
      <3>1. call'[d].stage = "idle"
        BY <2>2 DEF IInv, TypeOK, Reject, Idle
      <3>. QED
        BY <3>1 DEF CallMatches, Busy
    <2>3. CASE d # c
      <3>1. call'[d] = call[d]
        BY <2>3 DEF IInv, TypeOK, Reject
      <3>2. CASE call[d].stage \in Busy
        <4>1. call[d].key # k
          BY <2>3, <3>2, OneHolder
        <4>2. row'[call[d].key] = row[call[d].key]
          BY <4>1, <1>0 DEF Reject, IInv, TypeOK
        <4>. QED
          BY <2>1, <3>1, <4>2 DEF CallMatches, OnWire, Reject, terminal
      <3>3. CASE call[d].stage \notin Busy
        BY <3>1, <3>3 DEF CallMatches, Busy
      <3>. QED
        BY <3>2, <3>3
    <2>. QED
      BY <2>2, <2>3
  <1>3. ASSUME NEW j \in Keys PROVE RowMatches(j)'
    <2>1. RowMatches(j)
      BY DEF IInv
    <2>2. CASE j = k
      <3>1. row'[j] = "REJECTED"
        BY <2>2 DEF Reject, IInv, TypeOK
      <3>. QED
        BY <2>1, <2>2, <3>1 DEF RowMatches, Untouched, OnWire, Reject, terminal, Settled
    <2>3. CASE j # k
      <3>1. row'[j] = row[j]
        BY <2>3 DEF Reject, IInv, TypeOK
      <3>. QED
        BY <2>1, <3>1 DEF RowMatches, Untouched, OnWire, Reject, terminal
    <2>. QED
      BY <2>2, <2>3
  <1>4. (\A r \in wire : r.key \in KeysOf[r.from])'
    BY DEF IInv, Reject, terminal
  <1>. QED
    BY <1>1, <1>2, <1>3, <1>4 DEF IInv

\* A row no caller but c holds changes to s, and c moves on.
LEMMA OthersKeepTheirRow ==
  ASSUME ConstantsAssumption, KeysAreExclusive, IInv,
         NEW c \in Callers, NEW k \in KeysOf[c], NEW v, NEW w,
         row' = [row EXCEPT ![k] = v],
         call' = [call EXCEPT ![c] = w],
         \A r \in wire' : r \in wire \/ r.key = k,
         filled' = filled,
         NEW d \in Callers, d # c
  PROVE  CallMatches(d)'
  <1>0. k \in Keys
    BY DEF ConstantsAssumption
  <1>1. CallMatches(d)
    BY DEF IInv
  <1>2. call'[d] = call[d]
    BY DEF IInv, TypeOK
  <1>3. CASE call[d].stage \in Busy
    <2>1. call[d].key # k
      BY <1>3, OneHolder
    <2>2. row'[call[d].key] = row[call[d].key]
      BY <2>1, <1>0 DEF IInv, TypeOK
    <2>3. ~OnWire(call[d].key) => ~OnWire(call[d].key)'
      BY <2>1, <1>2 DEF OnWire
    <2>. QED
      BY <1>1, <1>2, <2>2, <2>3 DEF CallMatches
  <1>4. CASE call[d].stage \notin Busy
    BY <1>2, <1>4 DEF CallMatches, Busy
  <1>. QED
    BY <1>3, <1>4

\* PENDING is stored for a key nothing was sent under.
LEMMA BeginStep ==
  ASSUME ConstantsAssumption, KeysAreExclusive, IInv,
         NEW c \in Callers, NEW k \in Keys, BeginNew(c, k)
  PROVE  IInv'
  <1>1. k \in KeysOf[c] /\ RowMatches(k)
    BY DEF BeginNew, MayBegin, IInv
  <1>2. row[k] \in {"NONE", "PENDING"}
    BY DEF BeginNew, Duplicate, IInv, TypeOK, Answered
  <1>3. Untouched(k)
    BY <1>1, <1>2 DEF RowMatches
  <1>4. TypeOK'
    BY DEF BeginNew, Become, IInv, TypeOK, terminal
  <1>5. ASSUME NEW d \in Callers PROVE CallMatches(d)'
    <2>1. CASE d = c
      <3>1. call'[d] = [stage |-> "preflight", key |-> k, answer |-> "none"]
        BY <2>1 DEF BeginNew, Become, IInv, TypeOK
      <3>2. row'[k] = "PENDING"
        BY DEF BeginNew, IInv, TypeOK
      <3>. QED
        BY <3>1, <3>2, <1>1, <2>1 DEF CallMatches
    <2>2. CASE d # c
      BY <2>2, <1>1, OthersKeepTheirRow DEF BeginNew, Become, terminal
    <2>. QED
      BY <2>1, <2>2
  <1>6. ASSUME NEW j \in Keys PROVE RowMatches(j)'
    <2>1. RowMatches(j)
      BY DEF IInv
    <2>2. row'[j] = IF j = k THEN "PENDING" ELSE row[j]
      BY DEF BeginNew, IInv, TypeOK
    <2>. QED
      BY <2>1, <2>2, <1>2, <1>3 DEF RowMatches, Untouched, OnWire, BeginNew, terminal, Settled
  <1>7. (\A r \in wire : r.key \in KeysOf[r.from])'
    BY DEF IInv, BeginNew, terminal
  <1>. QED
    BY <1>4, <1>5, <1>6, <1>7 DEF IInv

\* SUBMITTED is stored before the request leaves.
LEMMA OrderSendStep ==
  ASSUME ConstantsAssumption, KeysAreExclusive, IInv,
         NEW c \in Callers, OrderSend(c)
  PROVE  IInv'
  <1>. DEFINE k == call[c].key
              req == [from |-> c, key |-> k]
  <1>1. CallMatches(c) /\ call[c].stage = "preflight"
    BY DEF OrderSend, At, IInv
  <1>2. k \in KeysOf[c] /\ row[k] = "PENDING"
    BY <1>1 DEF CallMatches, Busy
  <1>3. k \in Keys
    BY <1>2 DEF ConstantsAssumption
  <1>4. Untouched(k)
    BY <1>2, <1>3 DEF IInv, RowMatches
  <1>5. /\ row' = [row EXCEPT ![k] = "SUBMITTED"]
        /\ sends' = [sends EXCEPT ![k] = @ + 1]
        /\ wire' = wire \cup {req}
        /\ call' = [call EXCEPT ![c] = [stage |-> "sending", key |-> k, answer |-> "none"]]
        /\ UNCHANGED <<filled, open, blocked, lost, told>>
    BY DEF OrderSend, Become
  <1>. HIDE DEF k
  <1>6. TypeOK'
    <2>1. row' \in [Keys -> {"NONE", "PENDING"} \cup Answered]
      BY <1>5, <1>3 DEF IInv, TypeOK, Answered
    <2>2. req \in [from : Callers, key : Keys]
      BY <1>3
    <2>3. sends' \in [Keys -> Nat]
      BY <1>5, <1>3 DEF IInv, TypeOK
    <2>4. wire' \subseteq [from : Callers, key : Keys]
      BY <1>5, <2>2 DEF IInv, TypeOK
    <2>. QED
      BY <1>3, <1>5, <2>1, <2>3, <2>4 DEF IInv, TypeOK
  <1>7. ASSUME NEW d \in Callers PROVE CallMatches(d)'
    <2>1. CASE d = c
      <3>1. call'[d] = [stage |-> "sending", key |-> k, answer |-> "none"]
        BY <2>1, <1>5 DEF IInv, TypeOK
      <3>2. row'[k] = "SUBMITTED"
        BY <1>3, <1>5 DEF IInv, TypeOK
      <3>. QED
        BY <3>1, <3>2, <1>2, <1>4, <1>5, <2>1 DEF CallMatches, Untouched
    <2>2. CASE d # c
      <3>1. \A r \in wire' : r \in wire \/ r.key = k
        BY <1>5
      <3>. QED
        BY <2>2, <3>1, <1>2, <1>5, OthersKeepTheirRow
    <2>. QED
      BY <2>1, <2>2
  <1>8. ASSUME NEW j \in Keys PROVE RowMatches(j)'
    <2>1. RowMatches(j)
      BY DEF IInv
    <2>2. CASE j = k
      <3>1. row'[j] = "SUBMITTED" /\ sends'[j] = 1
        BY <2>2, <1>3, <1>4, <1>5 DEF IInv, TypeOK, Untouched
      <3>. QED
        BY <2>1, <2>2, <3>1, <1>2, <1>4, <1>5 DEF RowMatches, Untouched, Settled
    <2>3. CASE j # k
      <3>1. row'[j] = row[j] /\ sends'[j] = sends[j]
        BY <2>3, <1>3, <1>5 DEF IInv, TypeOK
      <3>2. OnWire(j)' <=> OnWire(j)
        BY <2>3, <1>5 DEF OnWire
      <3>. QED
        BY <2>1, <3>1, <3>2, <1>5 DEF RowMatches, Untouched
    <2>. QED
      BY <2>2, <2>3
  <1>9. (\A r \in wire : r.key \in KeysOf[r.from])'
    BY <1>2, <1>5 DEF IInv
  <1>. QED
    BY <1>6, <1>7, <1>8, <1>9 DEF IInv

\* A request leaves the wire, executed or turned down; its caller, if it still
\* waits, gets an answer that tells which, or nothing.
LEMMA TerminalStep ==
  ASSUME ConstantsAssumption, KeysAreExclusive, IInv,
         NEW r \in wire, NEW executed \in BOOLEAN, NEW answer \in TerminalAnswers,
         Answer(r, answer),
         answer \in {"done", "partial"} => executed,
         answer = "refused" => ~executed,
         wire' = wire \ {r},
         filled' = IF executed THEN filled \cup {r.key} ELSE filled,
         open' \subseteq Keys, UNCHANGED <<row, sends, blocked, lost, told>>
  PROVE  IInv'
  <1>1. /\ r \in [from : Callers, key : Keys]
        /\ r.key \in KeysOf[r.from]
    BY DEF IInv, TypeOK
  <1>2. RowMatches(r.key)
    BY <1>1 DEF IInv
  <1>3. OnWire(r.key) /\ r.key \notin filled
    BY <1>2 DEF OnWire, RowMatches
  <1>4. \A d \in Callers :
          call'[d] = IF d = r.from /\ Waiting(r)
                     THEN [stage |-> "answered", key |-> r.key, answer |-> answer]
                     ELSE call[d]
    BY <1>1 DEF Answer, IInv, TypeOK
  <1>5. TypeOK'
    <2>1. call' \in [Callers -> [stage : {"idle", "deciding", "preflight", "sending", "answered"},
                                 key : Keys \cup {NoKey},
                                 answer : TerminalAnswers \cup {"none"}]]
      BY <1>1 DEF Answer, IInv, TypeOK
    <2>. QED
      BY <1>1, <2>1 DEF IInv, TypeOK
  <1>6. \A q \in wire' : q.key # r.key
    <2>. SUFFICES ASSUME NEW q \in wire, q # r, q.key = r.key PROVE FALSE
      OBVIOUS
    <2>1. q \in [from : Callers, key : Keys] /\ q.key \in KeysOf[q.from]
      BY DEF IInv, TypeOK
    <2>2. q.from = r.from
      BY <1>1, <2>1 DEF KeysAreExclusive
    <2>. QED
      BY <1>1, <2>1, <2>2
  <1>7. ASSUME NEW d \in Callers PROVE CallMatches(d)'
    <2>1. CallMatches(d)
      BY DEF IInv
    <2>2. CASE d = r.from /\ Waiting(r)
      <3>1. call[d].stage = "sending" /\ call[d].key = r.key
        BY <2>2 DEF Waiting, At
      <3>2. row[r.key] = "SUBMITTED"
        BY <2>1, <3>1 DEF CallMatches
      <3>3. call'[d] = [stage |-> "answered", key |-> r.key, answer |-> answer]
        BY <1>4, <2>2
      <3>. QED
        BY <1>1, <1>3, <1>6, <2>2, <3>2, <3>3 DEF CallMatches, OnWire
    <2>3. CASE ~(d = r.from /\ Waiting(r))
      <3>1. call'[d] = call[d]
        BY <1>4, <2>3
      <3>2. CASE call[d].stage \in Busy
        <4>1. CASE call[d].key = r.key
          <5>1. d = r.from
            BY <1>1, <3>2, <4>1, OneHolder
          <5>2. call[d].stage \in {"preflight", "answered"}
            BY <2>3, <3>2, <4>1, <5>1 DEF Waiting, At, Busy
          <5>3. call[d].stage # "preflight"
            BY <2>1, <4>1, <1>2, <1>3 DEF CallMatches, RowMatches, Untouched
          <5>4. call[d].answer \in Early
            BY <2>1, <4>1, <5>2, <5>3, <1>3 DEF CallMatches, TerminalAnswers
          <5>. QED
            BY <2>1, <3>1, <4>1, <5>2, <5>3, <5>4 DEF CallMatches, Early
        <4>2. CASE call[d].key # r.key
          BY <2>1, <3>1, <4>2 DEF CallMatches, OnWire
        <4>. QED
          BY <4>1, <4>2
      <3>3. CASE call[d].stage \notin Busy
        BY <3>1, <3>3 DEF CallMatches, Busy
      <3>. QED
        BY <3>2, <3>3
    <2>. QED
      BY <2>2, <2>3
  <1>8. ASSUME NEW j \in Keys PROVE RowMatches(j)'
    <2>1. RowMatches(j)
      BY DEF IInv
    <2>2. CASE j = r.key
      <3>1. row[j] \notin {"NONE", "PENDING"}
        BY <1>2, <1>3, <2>2 DEF RowMatches, Untouched
      <3>. QED
        BY <2>1, <2>2, <3>1, <1>3, <1>6 DEF RowMatches, OnWire
    <2>3. CASE j # r.key
      BY <2>1, <2>3 DEF RowMatches, Untouched, OnWire
    <2>. QED
      BY <2>2, <2>3
  <1>9. (\A q \in wire : q.key \in KeysOf[q.from])'
    BY DEF IInv
  <1>. QED
    BY <1>5, <1>7, <1>8, <1>9 DEF IInv

\* An answer that comes before the request is decided tells nothing of it.
LEMMA EarlyStep ==
  ASSUME ConstantsAssumption, IInv, NEW r \in wire, AnswerEarly(r)
  PROVE  IInv'
  <1>1. r \in [from : Callers, key : Keys] /\ r.key \in KeysOf[r.from]
    BY DEF IInv, TypeOK
  <1>2. PICK answer \in Early : Answer(r, answer)
    BY DEF AnswerEarly
  <1>3. call' = [call EXCEPT ![r.from] = [stage |-> "answered", key |-> r.key, answer |-> answer]]
    BY <1>2 DEF AnswerEarly, Answer
  <1>4. UNCHANGED <<row, wire, sends, filled, open, blocked, lost, told>>
    BY DEF AnswerEarly, terminal
  <1>5. answer \in TerminalAnswers /\ answer \notin {"done", "partial", "refused"}
    BY <1>2 DEF TerminalAnswers, Early
  <1>6. TypeOK'
    BY <1>1, <1>3, <1>4, <1>5 DEF IInv, TypeOK
  <1>7. ASSUME NEW d \in Callers PROVE CallMatches(d)'
    <2>1. CallMatches(d)
      BY DEF IInv
    <2>2. CASE d = r.from
      <3>1. row[r.key] = "SUBMITTED"
        BY <2>1, <2>2 DEF AnswerEarly, Waiting, At, CallMatches
      <3>2. call'[d] = [stage |-> "answered", key |-> r.key, answer |-> answer]
        BY <1>3, <2>2 DEF IInv, TypeOK
      <3>. QED
        BY <1>1, <1>4, <1>5, <2>2, <3>1, <3>2 DEF CallMatches
    <2>3. CASE d # r.from
      <3>1. call'[d] = call[d]
        BY <1>3, <2>3 DEF IInv, TypeOK
      <3>. QED
        BY <2>1, <3>1, <1>4 DEF CallMatches, OnWire
    <2>. QED
      BY <2>2, <2>3
  <1>8. (\A k \in Keys : RowMatches(k))' /\ (\A q \in wire : q.key \in KeysOf[q.from])'
    BY <1>4 DEF IInv, RowMatches, Untouched, OnWire
  <1>. QED
    BY <1>6, <1>7, <1>8 DEF IInv

\* What is stored is a state of its own for each answer.
LEMMA StateOfAnswer ==
  ASSUME NEW a \in TerminalAnswers
  PROVE  /\ StateFromRetcode(a) \in Settled
         /\ StateFromRetcode(a) \in {"ACCEPTED", "PARTIALLY_FILLED"}
              => a \in {"done", "partial", "placed"}
         /\ StateFromRetcode(a) = "REJECTED" => a \in {"refused", "unclear"}
         /\ a \in Early => StateFromRetcode(a) \in {"ACCEPTED", "REJECTED"}
  BY DEF StateFromRetcode, TerminalAnswers, Early, Settled

\* The answer is stored, and with it what it told.
LEMMA StoreAnswerStep ==
  ASSUME ConstantsAssumption, KeysAreExclusive, IInv,
         NEW c \in Callers, StoreAnswer(c)
  PROVE  IInv'
  <1>. DEFINE k == call[c].key
              a == call[c].answer
              v == StateFromRetcode(a)
  <1>1. CallMatches(c) /\ call[c].stage = "answered"
    BY DEF StoreAnswer, At, IInv
  <1>2. /\ k \in KeysOf[c]
        /\ a \in TerminalAnswers
        /\ a \in {"done", "partial"} => k \in filled
        /\ a = "refused" => k \notin filled /\ ~OnWire(k)
    BY <1>1 DEF CallMatches, Busy
  <1>3. k \in Keys
    BY <1>2 DEF ConstantsAssumption
  <1>4. /\ row' = [row EXCEPT ![k] = v]
        /\ told' = [told EXCEPT ![k] = a]
        /\ call' = [call EXCEPT ![c] = Idle]
        /\ UNCHANGED <<wire, filled, open, sends, blocked, lost>>
    BY DEF StoreAnswer, terminal
  <1>5. /\ v \in Settled
        /\ v \in {"ACCEPTED", "PARTIALLY_FILLED"} => a \in {"done", "partial", "placed"}
        /\ v = "REJECTED" => a \in {"refused", "unclear"}
    BY <1>2, StateOfAnswer
  <1>. HIDE DEF k, a, v
  <1>6. TypeOK'
    <2>1. row' \in [Keys -> {"NONE", "PENDING"} \cup Answered]
      BY <1>3, <1>4, <1>5 DEF IInv, TypeOK, Answered, Settled
    <2>2. told' \in [Keys -> TerminalAnswers \cup {"none"}]
      BY <1>2, <1>3, <1>4 DEF IInv, TypeOK
    <2>3. call' \in [Callers -> [stage : {"idle", "deciding", "preflight", "sending", "answered"},
                                 key : Keys \cup {NoKey},
                                 answer : TerminalAnswers \cup {"none"}]]
      BY <1>4 DEF IInv, TypeOK, Idle
    <2>. QED
      BY <1>4, <2>1, <2>2, <2>3 DEF IInv, TypeOK
  <1>7. ASSUME NEW d \in Callers PROVE CallMatches(d)'
    <2>1. CASE d = c
      <3>1. call'[d].stage = "idle"
        BY <2>1, <1>4 DEF IInv, TypeOK, Idle
      <3>. QED
        BY <3>1 DEF CallMatches, Busy
    <2>2. CASE d # c
      BY <2>2, <1>2, <1>4, OthersKeepTheirRow
    <2>. QED
      BY <2>1, <2>2
  <1>8. ASSUME NEW j \in Keys PROVE RowMatches(j)'
    <2>1. RowMatches(j)
      BY DEF IInv
    <2>2. CASE j = k
      <3>1. row'[j] = v /\ told'[j] = a
        BY <2>2, <1>3, <1>4 DEF IInv, TypeOK
      <3>2. sends'[j] <= 1 /\ (j \in filled' => ~OnWire(j)')
        BY <2>1, <1>4 DEF RowMatches, OnWire
      <3>. QED
        BY <3>1, <3>2, <1>2, <1>4, <1>5, <2>2 DEF RowMatches, OnWire, Settled
    <2>3. CASE j # k
      <3>1. row'[j] = row[j] /\ told'[j] = told[j]
        BY <2>3, <1>4 DEF IInv, TypeOK
      <3>. QED
        BY <2>1, <3>1, <1>4 DEF RowMatches, Untouched, OnWire
    <2>. QED
      BY <2>2, <2>3
  <1>9. (\A r \in wire : r.key \in KeysOf[r.from])'
    BY <1>4 DEF IInv
  <1>. QED
    BY <1>6, <1>7, <1>8, <1>9 DEF IInv

-----------------------------------------------------------------------------
LEMMA NextHolds ==
  ASSUME ConstantsAssumption, KeysAreExclusive, IInv, [Next]_vars
  PROVE  IInv'
  <1>. USE DEF terminal
  <1>0. TypeOK /\ open \subseteq Keys /\ blocked \in BOOLEAN /\ lost \in 0..MaxLost
    BY DEF IInv, TypeOK
  <1>1. ASSUME NEW c \in Callers, StartCycle(c) PROVE IInv'
    BY <1>0, <1>1, QuietStep DEF StartCycle, Become
  <1>2. ASSUME NEW c \in Callers,
               \/ EndCycle(c) \/ TerminalNotReady(c)
               \/ \E k \in Keys : BeginDuplicate(c, k)
        PROVE  IInv'
    BY <1>0, <1>2, QuietStep DEF EndCycle, TerminalNotReady, BeginDuplicate, Idle
  <1>3. ASSUME NEW c \in Callers, NEW k \in Keys, BeginRefused(c, k) PROVE IInv'
    <2>1. k \in KeysOf[c] /\ row[k] = "NONE" /\ call[c].stage = "deciding" /\ Reject(c, k)
      BY <1>3 DEF BeginRefused, Refused, MayBegin, Unused, At
    <2>2. Untouched(k)
      BY <2>1 DEF IInv, RowMatches
    <2>. QED
      BY <2>1, <2>2, RejectStep DEF Busy
  <1>4. ASSUME NEW c \in Callers, NEW k \in Keys, BeginNew(c, k) PROVE IInv'
    BY <1>4, BeginStep
  <1>5. ASSUME NEW c \in Callers, PreflightFails(c) PROVE IInv'
    <2>1. CallMatches(c) /\ call[c].stage = "preflight"
      BY <1>5 DEF PreflightFails, At, IInv
    <2>2. call[c].key \in KeysOf[c] /\ row[call[c].key] = "PENDING"
      BY <2>1 DEF CallMatches, Busy
    <2>3. Untouched(call[c].key)
      BY <2>2 DEF IInv, RowMatches, ConstantsAssumption
    <2>. QED
      BY <1>5, <2>2, <2>3, RejectStep DEF PreflightFails
  <1>6. ASSUME NEW c \in Callers, OrderSend(c) PROVE IInv'
    BY <1>6, OrderSendStep
  <1>7. ASSUME NEW c \in Callers, StoreAnswer(c) PROVE IInv'
    BY <1>7, StoreAnswerStep
  <1>8. ASSUME NEW c \in Callers, AnswerLost(c) PROVE IInv'
    <2>1. lost' \in 0..MaxLost
      BY <1>0, <1>8 DEF AnswerLost, ConstantsAssumption
    <2>. QED
      BY <1>0, <1>8, <2>1, QuietStep DEF AnswerLost, Idle
  <1>9. ASSUME NEW r \in wire, Execute(r) PROVE IInv'
    <2>1. r.key \in Keys
      BY DEF IInv, TypeOK
    <2>2. PICK answer \in {"done", "partial", "unclear"} : Answer(r, answer)
      BY <1>9 DEF Execute
    <2>3. answer \in TerminalAnswers /\ answer # "refused"
      BY DEF TerminalAnswers, Early
    <2>4. open' \subseteq Keys
      BY <1>0, <1>9, <2>1 DEF Execute
    <2>. QED
      BY <1>9, <2>2, <2>3, <2>4, TerminalStep DEF Execute
  <1>10. ASSUME NEW r \in wire, TurnDown(r) PROVE IInv'
    <2>1. PICK answer \in {"refused", "unclear"} : Answer(r, answer)
      BY <1>10 DEF TurnDown
    <2>2. answer \in TerminalAnswers /\ answer \notin {"done", "partial"}
      BY DEF TerminalAnswers, Early
    <2>. QED
      BY <1>0, <1>10, <2>1, <2>2, TerminalStep DEF TurnDown
  <1>16. ASSUME NEW r \in wire, AnswerEarly(r) PROVE IInv'
    BY <1>16, EarlyStep
  <1>11. ASSUME UNCHANGED <<row, call, wire, sends, filled, told>>,
                open' \subseteq Keys, blocked' \in BOOLEAN, lost' = lost
         PROVE  IInv'
    BY <1>11 DEF IInv, TypeOK, CallMatches, RowMatches, Untouched, OnWire
  <1>12. ASSUME NEW k \in open, ClosePosition(k) PROVE IInv'
    BY <1>0, <1>11, <1>12 DEF ClosePosition
  <1>13. CASE Refresh
    BY <1>0, <1>11, <1>13 DEF Refresh
  <1>14. CASE UNCHANGED vars
    BY <1>0, <1>11, <1>14 DEF vars
  <1>15. CASE Restart
    <2>1. /\ call' = [c \in Callers |-> Idle]
          /\ UNCHANGED <<row, wire, sends, filled, open, blocked, told>>
      BY <1>15 DEF Restart
    <2>2. lost' \in 0..MaxLost
      <3>1. IsFiniteSet(Sending)
        BY FS_Subset DEF Sending, ConstantsAssumption
      <3>2. Cardinality(Sending) \in Nat
        BY <3>1, FS_CardinalityType
      <3>. QED
        BY <1>0, <1>15, <3>2 DEF Restart, ConstantsAssumption
    <2>3. TypeOK'
      BY <1>0, <2>1, <2>2 DEF TypeOK, Idle
    <2>4. \A c \in Callers : CallMatches(c)'
      BY <2>1 DEF CallMatches, Idle, Busy
    <2>5. \A k \in Keys : RowMatches(k)'
      BY <2>1 DEF IInv, RowMatches, Untouched, OnWire
    <2>. QED
      BY <2>1, <2>3, <2>4, <2>5 DEF IInv
  <1>. QED
    BY <1>1, <1>2, <1>3, <1>4, <1>5, <1>6, <1>7, <1>8, <1>9, <1>10, <1>12, <1>13, <1>14, <1>15, <1>16
       DEF Next

-----------------------------------------------------------------------------
(* Theorems.                                                               *)

LEMMA Invariance == ASSUME ConstantsAssumption, KeysAreExclusive PROVE Spec => []IInv
  <1>1. Init => IInv
    BY InitHolds
  <1>2. IInv /\ [Next]_vars => IInv'
    BY NextHolds
  <1>. QED
    BY <1>1, <1>2, PTL DEF Spec

\* Every stored order, call and request keeps its type.
THEOREM TypeCorrect == KeysAreExclusive => (Spec => []TypeOK)
  <1>. SUFFICES ASSUME KeysAreExclusive PROVE Spec => []TypeOK
    OBVIOUS
  <1>1. IInv => TypeOK
    BY DEF IInv
  <1>. QED
    BY <1>1, Invariance, ConstantsAssumption, PTL

\* submit_mt5_request calls order_send once at most under a key, through any
\* number of restarts, lost answers and repetitions, if no two callers use the
\* key at the same time.
THEOREM SentOnce == KeysAreExclusive => (Spec => []SentAtMostOnce)
  <1>. SUFFICES ASSUME KeysAreExclusive PROVE Spec => []SentAtMostOnce
    OBVIOUS
  <1>1. IInv => SentAtMostOnce
    BY DEF IInv, RowMatches, SentAtMostOnce
  <1>. QED
    BY <1>1, Invariance, ConstantsAssumption, PTL

\* The stored state of an order agrees with what the terminal did with it, unless
\* it was taken from an answer that does not tell: placed, or none.
THEOREM Honest == KeysAreExclusive => (Spec => []JournalIsHonest)
  <1>. SUFFICES ASSUME KeysAreExclusive PROVE Spec => []JournalIsHonest
    OBVIOUS
  <1>1. IInv => JournalIsHonest
    <2>. SUFFICES ASSUME IInv, NEW k \in Keys
                  PROVE  /\ row[k] \in {"ACCEPTED", "PARTIALLY_FILLED"} =>
                              k \in filled \/ told[k] = "placed"
                         /\ row[k] = "REJECTED" =>
                              \/ k \notin filled /\ \A r \in wire : r.key # k
                              \/ told[k] = "unclear"
                         /\ (k \in filled \/ \E r \in wire : r.key = k) => row[k] \in Answered
      BY DEF JournalIsHonest
    <2>1. RowMatches(k) /\ row[k] \in {"NONE", "PENDING"} \cup Answered
      BY DEF IInv, TypeOK
    <2>. QED
      BY <2>1 DEF RowMatches, Untouched, OnWire
  <1>. QED
    BY <1>1, Invariance, ConstantsAssumption, PTL

\* An answer once stored is never overwritten.
THEOREM FinalAnswers == KeysAreExclusive => (Spec => AnswersAreFinal)
  <1>. SUFFICES ASSUME KeysAreExclusive PROVE Spec => AnswersAreFinal
    OBVIOUS
  <1>1. IInv /\ [Next]_vars => [\A k \in Keys : row[k] \in Settled => row'[k] = row[k]]_row
    <2>. SUFFICES ASSUME IInv, Next, NEW k \in Keys, row[k] \in Settled
                  PROVE  row'[k] = row[k]
      BY DEF vars
    <2>. USE DEF terminal
    <2>1. row[k] \notin {"NONE", "PENDING", "SUBMITTED"}
      BY DEF Settled
    <2>2. ASSUME NEW c \in Callers, NEW j \in Keys, BeginRefused(c, j) PROVE row'[k] = row[k]
      BY <2>1, <2>2 DEF BeginRefused, Refused, MayBegin, Unused, Reject, IInv, TypeOK
    <2>3. ASSUME NEW c \in Callers, NEW j \in Keys, BeginNew(c, j) PROVE row'[k] = row[k]
      BY <2>1, <2>3 DEF BeginNew, Duplicate, Settled, Answered, IInv, TypeOK
    <2>4. ASSUME NEW c \in Callers, PreflightFails(c) \/ OrderSend(c) PROVE row'[k] = row[k]
      <3>1. row[call[c].key] = "PENDING"
        BY <2>4 DEF PreflightFails, OrderSend, At, IInv, CallMatches
      <3>. QED
        BY <2>1, <2>4, <3>1 DEF PreflightFails, OrderSend, Reject, IInv, TypeOK
    <2>5. ASSUME NEW c \in Callers, StoreAnswer(c) PROVE row'[k] = row[k]
      <3>1. row[call[c].key] = "SUBMITTED"
        BY <2>5 DEF StoreAnswer, At, IInv, CallMatches
      <3>. QED
        BY <2>1, <2>5, <3>1 DEF StoreAnswer, IInv, TypeOK
    <2>. QED
      BY <2>2, <2>3, <2>4, <2>5
         DEF Next, StartCycle, EndCycle, BeginDuplicate, TerminalNotReady, AnswerLost, Execute,
             TurnDown, AnswerEarly, ClosePosition, Restart, Refresh
  <1>. QED
    BY <1>1, Invariance, ConstantsAssumption, PTL DEF Spec, AnswersAreFinal


-----------------------------------------------------------------------------
(* The manager implements RequestLifecycle.  A step changes what is stored of *)
(* one key, or its fate, and every other key's stays.                         *)

Vague(j) == told[j] \in Early
Same(j) == Stored(j)' = Stored(j) /\ Fate(j)' = Fate(j) /\ (Vague(j)' <=> Vague(j))
AllSame == \A j \in Keys : Same(j)

\* The stored states and fates of all keys change as those of one key do.
LEMMA OneKeyChanges ==
  ASSUME NEW k \in Keys, NEW s, NEW f,
         Stored(k)' = s, Fate(k)' = f, \A j \in Keys : j # k => Same(j)
  PROVE  /\ [j \in Keys |-> Stored(j)]' = [[j \in Keys |-> Stored(j)] EXCEPT ![k] = s]
         /\ [j \in Keys |-> Fate(j)]' = [[j \in Keys |-> Fate(j)] EXCEPT ![k] = f]
  <1>1. \A j \in Keys : Stored(j)' = IF j = k THEN s ELSE Stored(j)
    BY DEF Same
  <1>2. \A j \in Keys : Fate(j)' = IF j = k THEN f ELSE Fate(j)
    BY DEF Same
  <1>. HIDE DEF Stored, Fate
  <1>. QED
    BY <1>1, <1>2

\* No answer is stored: the keys that were stored from a vague one stay.
LEMMA VagueStays ==
  ASSUME \A j \in Keys : Vague(j)' <=> Vague(j)
  PROVE  {j \in Keys : told[j] \in Early}' = {j \in Keys : told[j] \in Early}
  BY DEF Vague

\* The abstract actions, key by key.
LEMMA RefuseMaps ==
  ASSUME NEW k \in Keys, Stored(k) = "unsent", Fate(k) = "here",
         Stored(k)' = "REJECTED", Fate(k)' = "never", Vague(k)' <=> Vague(k),
         \A j \in Keys : j # k => Same(j)
  PROVE  Requests!Next
  <1>0. \A j \in Keys : Vague(j)' <=> Vague(j)
    BY DEF Same
  <1>1. Requests!Refuse(k)
    BY <1>0, OneKeyChanges, VagueStays DEF Requests!Refuse
  <1>. QED
    BY <1>1 DEF Requests!Next

LEMMA SendMaps ==
  ASSUME NEW k \in Keys, Stored(k) = "unsent", Fate(k) = "here",
         Stored(k)' = "SUBMITTED", Fate(k)' = "underway", Vague(k)' <=> Vague(k),
         \A j \in Keys : j # k => Same(j)
  PROVE  Requests!Next
  <1>0. \A j \in Keys : Vague(j)' <=> Vague(j)
    BY DEF Same
  <1>1. Requests!Send(k)
    BY <1>0, OneKeyChanges, VagueStays DEF Requests!Send
  <1>. QED
    BY <1>1 DEF Requests!Next

LEMMA DecideMaps ==
  ASSUME NEW k \in Keys, Fate(k) = "underway", Fate(k)' \in {"executed", "never"},
         Stored(k)' = Stored(k), Vague(k)' <=> Vague(k), \A j \in Keys : j # k => Same(j)
  PROVE  Requests!Next
  <1>1. [j \in Keys |-> Stored(j)]' = [j \in Keys |-> Stored(j)]
    BY DEF Same
  <1>2. [j \in Keys |-> Fate(j)]' = [[j \in Keys |-> Fate(j)] EXCEPT ![k] = Fate(k)']
    BY OneKeyChanges
  <1>3. {j \in Keys : told[j] \in Early}' = {j \in Keys : told[j] \in Early}
    BY VagueStays DEF Same
  <1>4. Requests!Decide(k)
    BY <1>1, <1>2, <1>3 DEF Requests!Decide
  <1>. QED
    BY <1>4 DEF Requests!Next

LEMMA LearnMaps ==
  ASSUME NEW k \in Keys, Stored(k) = "SUBMITTED", Fate(k)' = Fate(k), ~Vague(k),
         \/ /\ \/ Fate(k) = "executed" /\ Stored(k)' \in {"ACCEPTED", "PARTIALLY_FILLED"}
               \/ Fate(k) = "never" /\ Stored(k)' = "REJECTED"
            /\ ~Vague(k)'
         \/ /\ Stored(k)' \in {"ACCEPTED", "REJECTED"}
            /\ Vague(k)',
         \A j \in Keys : j # k => Same(j)
  PROVE  Requests!Next
  <1>1. [j \in Keys |-> Fate(j)]' = [j \in Keys |-> Fate(j)]
    BY DEF Same
  <1>2. [j \in Keys |-> Stored(j)]' = [[j \in Keys |-> Stored(j)] EXCEPT ![k] = Stored(k)']
    BY OneKeyChanges
  <1>3. CASE Vague(k)'
    <2>1. {j \in Keys : told[j] \in Early}' = {j \in Keys : told[j] \in Early} \cup {k}
      BY <1>3 DEF Same, Vague
    <2>2. Stored(k)' \in Requests!Guesses
      BY <1>3 DEF Requests!Guesses
    <2>3. Requests!Learn(k)
      BY <1>1, <1>2, <2>1, <2>2 DEF Requests!Learn, Requests!Store
    <2>. QED
      BY <2>3 DEF Requests!Next
  <1>4. CASE ~Vague(k)'
    <2>1. {j \in Keys : told[j] \in Early}' = {j \in Keys : told[j] \in Early}
      BY <1>4, VagueStays DEF Same
    <2>2. Stored(k)' \in Requests!AnswersTo(Fate(k))
      BY <1>4 DEF Requests!AnswersTo
    <2>3. Requests!Learn(k)
      BY <1>1, <1>2, <2>1, <2>2 DEF Requests!Learn, Requests!Store
    <2>. QED
      BY <2>3 DEF Requests!Next
  <1>. QED
    BY <1>3, <1>4

\* A step that changes no key's is no step of the abstract specification.
LEMMA StutterMaps == AllSame => UNCHANGED Requests!vars
  <1>. SUFFICES ASSUME AllSame PROVE UNCHANGED Requests!vars
    OBVIOUS
  <1>1. {j \in Keys : told[j] \in Early}' = {j \in Keys : told[j] \in Early}
    BY VagueStays DEF AllSame, Same
  <1>. QED
    BY <1>1 DEF AllSame, Same, Requests!vars


\* The stored order of one key changes; what the terminal did does not.
LEMMA RowStep ==
  ASSUME IInv, NEW k \in Keys, NEW v, row' = [row EXCEPT ![k] = v], UNCHANGED <<wire, filled, told>>
  PROVE  /\ row'[k] = v
         /\ \A j \in Keys : j # k => Same(j)
  BY DEF IInv, TypeOK, Same, Stored, Fate, Vague

\* _reject on a pending or new order refuses the request.
LEMMA RejectMaps ==
  ASSUME IInv, NEW c \in Callers, NEW k \in Keys, row[k] \in {"NONE", "PENDING"}, Reject(c, k)
  PROVE  Requests!Next
  <1>1. row' = [row EXCEPT ![k] = "REJECTED"] /\ UNCHANGED <<wire, filled, told>>
    BY DEF Reject, terminal
  <1>2. Untouched(k)
    BY DEF IInv, RowMatches
  <1>3. row'[k] = "REJECTED" /\ \A j \in Keys : j # k => Same(j)
    BY <1>1, RowStep
  <1>4. /\ Stored(k) = "unsent" /\ Fate(k) = "here"
        /\ Stored(k)' = "REJECTED" /\ Fate(k)' = "never"
        /\ Vague(k)' <=> Vague(k)
    BY <1>1, <1>2, <1>3 DEF Stored, Fate, Untouched, OnWire, Answered, Vague
  <1>. QED
    BY <1>3, <1>4, RefuseMaps

\* PENDING is still unsent.
LEMMA BeginMaps ==
  ASSUME IInv, NEW c \in Callers, NEW k \in Keys, BeginNew(c, k)
  PROVE  AllSame
  <1>1. row' = [row EXCEPT ![k] = "PENDING"] /\ UNCHANGED <<wire, filled, told>> /\ row[k] \notin Answered
    BY DEF BeginNew, Duplicate, terminal
  <1>2. row'[k] = "PENDING" /\ \A j \in Keys : j # k => Same(j)
    BY <1>1, RowStep
  <1>3. Same(k)
    BY <1>1, <1>2 DEF Same, Stored, Fate, Answered, Vague
  <1>. QED
    BY <1>2, <1>3 DEF AllSame

\* SUBMITTED is stored and the request is under way.
LEMMA OrderSendMaps ==
  ASSUME ConstantsAssumption, IInv, NEW c \in Callers, OrderSend(c), NEW k \in Keys, call[c].key = k
  PROVE  Requests!Next
  <1>. DEFINE req == [from |-> c, key |-> k]
  <1>1. CallMatches(c) /\ call[c].stage = "preflight"
    BY DEF OrderSend, At, IInv
  <1>2. row[k] = "PENDING"
    BY <1>1 DEF CallMatches
  <1>3. Untouched(k)
    BY <1>2 DEF IInv, RowMatches
  <1>4. /\ row' = [row EXCEPT ![k] = "SUBMITTED"]
        /\ wire' = wire \cup {req}
        /\ UNCHANGED <<filled, told>>
    BY DEF OrderSend
  <1>5. req.key = k
    OBVIOUS
  <1>. HIDE DEF req
  <1>6. row'[k] = "SUBMITTED" /\ \A j \in Keys : j # k => row'[j] = row[j]
    BY <1>2, <1>4 DEF IInv, TypeOK
  <1>7. \A j \in Keys : j # k => Same(j)
    BY <1>4, <1>5, <1>6 DEF Same, Stored, Fate, Vague
  <1>8. /\ Stored(k) = "unsent" /\ Fate(k) = "here"
        /\ Stored(k)' = "SUBMITTED" /\ Fate(k)' = "underway"
        /\ Vague(k)' <=> Vague(k)
    BY <1>2, <1>3, <1>4, <1>5, <1>6 DEF Stored, Fate, Untouched, OnWire, Answered, Vague
  <1>. QED
    BY <1>2, <1>7, <1>8, SendMaps

\* The terminal executes a request or turns it down: a key has one request on
\* the wire, and only a vague answer to it can be stored yet.
LEMMA TerminalMaps ==
  ASSUME KeysAreExclusive, IInv, NEW r \in wire, NEW done \in BOOLEAN,
         wire' = wire \ {r}, UNCHANGED <<row, told>>,
         filled' = IF done THEN filled \cup {r.key} ELSE filled
  PROVE  Requests!Next
  <1>1. r \in [from : Callers, key : Keys] /\ r.key \in KeysOf[r.from] /\ r.key \in Keys
    BY DEF IInv, TypeOK
  <1>2. r.key \notin filled /\ row[r.key] \in Answered
    BY <1>1 DEF IInv, TypeOK, RowMatches, Untouched, OnWire
  <1>3. \A q \in wire' : q.key # r.key
    <2>. SUFFICES ASSUME NEW q \in wire, q # r, q.key = r.key PROVE FALSE
      OBVIOUS
    <2>1. q \in [from : Callers, key : Keys] /\ q.key \in KeysOf[q.from]
      BY DEF IInv, TypeOK
    <2>2. q.from = r.from
      BY <1>1, <2>1 DEF KeysAreExclusive
    <2>. QED
      BY <1>1, <2>1, <2>2
  <1>4. Fate(r.key) = "underway" /\ Fate(r.key)' \in {"executed", "never"}
    BY <1>2, <1>3 DEF Fate
  <1>5. Stored(r.key)' = Stored(r.key) /\ (Vague(r.key)' <=> Vague(r.key))
    BY DEF Stored, Vague
  <1>6. \A j \in Keys : j # r.key => Same(j)
    BY DEF Same, Stored, Fate, Vague
  <1>. QED
    BY <1>1, <1>4, <1>5, <1>6, DecideMaps

\* The answer is stored as the terminal gave it, if it told something.
LEMMA StoreAnswerMaps ==
  ASSUME ConstantsAssumption, IInv, NEW c \in Callers, StoreAnswer(c),
         NEW k \in Keys, call[c].key = k
  PROVE  Requests!Next
  <1>. DEFINE a == call[c].answer
              v == StateFromRetcode(a)
  <1>1. CallMatches(c) /\ call[c].stage = "answered"
    BY DEF StoreAnswer, At, IInv
  <1>2. /\ row[k] = "SUBMITTED"
        /\ a \in TerminalAnswers
        /\ a \in {"done", "partial"} => k \in filled
        /\ a = "refused" => k \notin filled /\ ~OnWire(k)
    BY <1>1 DEF CallMatches
  <1>3. told[k] = "none"
    BY <1>2 DEF IInv, RowMatches, Settled
  <1>4. /\ row' = [row EXCEPT ![k] = v]
        /\ told' = [told EXCEPT ![k] = a]
        /\ UNCHANGED <<wire, filled>>
    BY DEF StoreAnswer, terminal
  <1>5. /\ v \in Settled
        /\ v \in {"ACCEPTED", "PARTIALLY_FILLED"} => a \in {"done", "partial", "placed"}
        /\ v = "REJECTED" => a \in {"refused", "unclear"}
        /\ a \in Early => v \in {"ACCEPTED", "REJECTED"}
    BY <1>2, StateOfAnswer
  <1>. HIDE DEF a, v
  <1>6. row'[k] = v /\ told'[k] = a /\ \A j \in Keys : j # k => row'[j] = row[j] /\ told'[j] = told[j]
    BY <1>4 DEF IInv, TypeOK
  <1>7. \A j \in Keys : j # k => Same(j)
    BY <1>4, <1>6 DEF Same, Stored, Fate, Vague
  <1>8. Stored(k) = "SUBMITTED" /\ Stored(k)' = v /\ Fate(k)' = Fate(k)
    BY <1>2, <1>4, <1>5, <1>6 DEF Stored, Fate, Answered, Settled
  <1>9. ~Vague(k) /\ (Vague(k)' <=> a \in Early)
    BY <1>3, <1>6 DEF Vague, Early
  <1>10. CASE a \in Early
    BY <1>5, <1>7, <1>8, <1>9, <1>10, LearnMaps
  <1>11. CASE a \notin Early
    <2>1. CASE a \in {"done", "partial"}
      <3>1. Fate(k) = "executed"
        BY <1>2, <2>1 DEF Fate
      <3>2. v \in {"ACCEPTED", "PARTIALLY_FILLED"}
        BY <1>5, <2>1 DEF Settled
      <3>. QED
        BY <3>1, <3>2, <1>7, <1>8, <1>9, <1>11, LearnMaps
    <2>2. CASE a = "refused"
      <3>1. Fate(k) = "never"
        BY <1>2, <2>2 DEF Fate, OnWire, Answered
      <3>2. v = "REJECTED"
        BY <1>5, <2>2 DEF Settled
      <3>. QED
        BY <3>1, <3>2, <1>7, <1>8, <1>9, <1>11, LearnMaps
    <2>. QED
      BY <1>2, <1>11, <2>1, <2>2 DEF TerminalAnswers
  <1>. QED
    BY <1>10, <1>11

\* Every step is a step of the abstract specification, or none.
LEMMA NextMaps ==
  ASSUME ConstantsAssumption, KeysAreExclusive, IInv, [Next]_vars
  PROVE  Requests!Next \/ AllSame
  <1>1. ASSUME UNCHANGED <<row, wire, filled, told>> PROVE AllSame
    BY <1>1 DEF AllSame, Same, Stored, Fate, Vague
  <1>2. ASSUME NEW c \in Callers, NEW k \in Keys, BeginRefused(c, k) PROVE Requests!Next
    <2>1. row[k] = "NONE" /\ Reject(c, k)
      BY <1>2 DEF BeginRefused, Refused, MayBegin, Unused
    <2>. QED
      BY <2>1, RejectMaps
  <1>3. ASSUME NEW c \in Callers, NEW k \in Keys, BeginNew(c, k) PROVE AllSame
    BY <1>3, BeginMaps
  <1>4. ASSUME NEW c \in Callers, PreflightFails(c) PROVE Requests!Next
    <2>1. CallMatches(c) /\ call[c].stage = "preflight"
      BY <1>4 DEF PreflightFails, At, IInv
    <2>2. call[c].key \in Keys /\ row[call[c].key] = "PENDING"
      BY <2>1 DEF CallMatches, Busy, ConstantsAssumption
    <2>. QED
      BY <1>4, <2>2, RejectMaps DEF PreflightFails
  <1>5. ASSUME NEW c \in Callers, OrderSend(c) \/ StoreAnswer(c) PROVE Requests!Next
    <2>1. CallMatches(c) /\ call[c].stage \in Busy
      BY <1>5 DEF OrderSend, StoreAnswer, At, IInv, Busy
    <2>2. PICK k \in Keys : call[c].key = k
      BY <2>1 DEF CallMatches, ConstantsAssumption
    <2>. QED
      BY <1>5, <2>2, OrderSendMaps, StoreAnswerMaps
  <1>6. ASSUME NEW r \in wire, Execute(r) PROVE Requests!Next
    <2>1. wire' = wire \ {r} /\ UNCHANGED <<row, told>> /\ filled' = filled \cup {r.key}
      BY <1>6 DEF Execute
    <2>. QED
      BY <2>1, TerminalMaps
  <1>7. ASSUME NEW r \in wire, TurnDown(r) PROVE Requests!Next
    <2>1. wire' = wire \ {r} /\ UNCHANGED <<row, told>> /\ filled' = filled
      BY <1>7 DEF TurnDown
    <2>. QED
      BY <2>1, TerminalMaps
  <1>8. ASSUME NEW c \in Callers,
               \/ StartCycle(c) \/ EndCycle(c) \/ TerminalNotReady(c) \/ AnswerLost(c)
               \/ \E k \in Keys : BeginDuplicate(c, k)
        PROVE  AllSame
    BY <1>1, <1>8
       DEF StartCycle, EndCycle, TerminalNotReady, AnswerLost, BeginDuplicate, terminal
  <1>9. ASSUME \/ \E k \in open : ClosePosition(k)
               \/ \E r \in wire : AnswerEarly(r)
               \/ Restart \/ Refresh \/ UNCHANGED vars
        PROVE  AllSame
    BY <1>1, <1>9 DEF ClosePosition, AnswerEarly, Restart, Refresh, vars, terminal
  <1>10. CASE Next
    BY <1>2, <1>3, <1>4, <1>5, <1>6, <1>7, <1>8, <1>9, <1>10 DEF Next
  <1>. QED
    BY <1>9, <1>10

\* The execution manager implements the life of a request: with its callers, its
\* awaits, lost answers and restarts, no step of submit_mt5_request sends what may
\* have been sent, decides a request twice, or stores what the terminal did not tell.
THEOREM ImplementsRequests == KeysAreExclusive => (Spec => RefinesRequests)
  <1>. SUFFICES ASSUME KeysAreExclusive PROVE Spec => RefinesRequests
    OBVIOUS
  <1>1. Init => Requests!Init
    BY DEF Init, Requests!Init, Stored, Fate, Answered, Early
  <1>2. IInv /\ [Next]_vars => [Requests!Next]_Requests!vars
    BY ConstantsAssumption, NextMaps, StutterMaps DEF Requests!vars
  <1>. QED
    BY <1>1, <1>2, Invariance, ConstantsAssumption, PTL DEF Spec, RefinesRequests, Requests!Spec

=============================================================================
