------------------------- MODULE PortfolioExecution -------------------------
(***************************************************************************)
(* ExecutionManager.submit_mt5_request and its callers.  Callers are       *)
(* coroutines of one event loop, so a step runs from one await to the      *)
(* next: the PENDING commit, the SUBMITTED commit before order_send moves  *)
(* to a thread, and the commit of the answer.  The autonomous scheduler    *)
(* (Entries) opens positions, one cycle at a time and under a fresh key;   *)
(* the adaptive manager sends position changes and may repeat a key after  *)
(* its own database session is rolled back.  The terminal behind the       *)
(* bridge executes a request even when its caller no longer waits, and its *)
(* answer may come before the execution or leave open whether there was    *)
(* one; the journal stores a success or a rejection all the same.          *)
(***************************************************************************)
EXTENDS Naturals, FiniteSets

CONSTANTS
  Callers,
  Entries,      \* callers with source "mt5_autonomous_entry"
  Keys,         \* idempotency keys
  KeysOf,       \* caller -> the keys it may use
  NoKey,
  MaxOpen,      \* config.max_open_positions
  MaxLost       \* bound on answers that never arrive

ASSUME ConstantsAssumption ==
  /\ IsFiniteSet(Callers) /\ IsFiniteSet(Keys)
  /\ Entries \subseteq Callers
  /\ KeysOf \in [Callers -> SUBSET Keys]
  /\ NoKey \notin Keys
  /\ MaxOpen \in Nat /\ MaxLost \in Nat

\* Entry and management keys have different prefixes, and each caller runs one
\* cycle at a time under its own lock.
KeysAreExclusive ==
  \A c, d \in Callers : c # d => KeysOf[c] \cap KeysOf[d] = {}

VARIABLES
  row,          \* key -> state of its stored execution order
  call,         \* caller -> what it awaits, and the key it holds
  wire,         \* requests on their way to the terminal, with their caller
  sends,        \* key -> times order_send was called
  filled,       \* keys the terminal executed
  open,         \* positions open at the terminal, named by their entry's key
  blocked,      \* the stored snapshot's protection forbids entries
  lost,         \* answers that never arrived or were never stored
  told          \* key -> the answer its stored state was taken from (history)

vars == <<row, call, wire, sends, filled, open, blocked, lost, told>>
terminal == <<wire, filled, open>>

Idle == [stage |-> "idle", key |-> NoKey, answer |-> "none"]
At(c, stage) == call[c].stage = stage

\* The states after which a repeated key is answered from the stored order.
Answered == {"SUBMITTED", "ACCEPTED", "PARTIALLY_FILLED", "REJECTED"}
Settled == {"ACCEPTED", "PARTIALLY_FILLED", "REJECTED"}

\* What order_send returns: executed, in full or in part; placed, to be executed;
\* refused; or no result, a timeout or a lost connection, which tell nothing.
Early == {"placed", "unclear"}
TerminalAnswers == {"done", "partial", "refused"} \cup Early

Init ==
  /\ row = [k \in Keys |-> "NONE"]
  /\ call = [c \in Callers |-> Idle]
  /\ wire = {}
  /\ sends = [k \in Keys |-> 0]
  /\ filled = {} /\ open = {}
  /\ blocked = FALSE
  /\ lost = 0
  /\ told = [k \in Keys |-> "none"]

-----------------------------------------------------------------------------
Become(c, stage, k) ==
  call' = [call EXCEPT ![c] = [stage |-> stage, key |-> k, answer |-> "none"]]

\* Variant of StartCycle: the limit is off by one.
StartCycleFull(c) ==
  /\ c \in Entries
  /\ At(c, "idle")
  /\ Cardinality(open) <= MaxOpen
  /\ Become(c, "deciding", NoKey)
  /\ UNCHANGED <<row, terminal, sends, blocked, lost, told>>

\* The autonomous cycle reads the open positions before it screens and decides.
StartCycle(c) ==
  /\ c \in Entries
  /\ At(c, "idle")
  /\ Cardinality(open) < MaxOpen
  /\ Become(c, "deciding", NoKey)
  /\ UNCHANGED <<row, terminal, sends, blocked, lost, told>>

\* No candidate, a blocker or the AI's refusal ends the cycle.
EndCycle(c) ==
  /\ At(c, "deciding")
  /\ call' = [call EXCEPT ![c] = Idle]
  /\ UNCHANGED <<row, terminal, sends, blocked, lost, told>>

\* An entry's key carries its second and its context, so it is never used twice.
Unused(k) == row[k] = "NONE"

\* A management key may come back.
MayBegin(c, k) ==
  /\ k \in KeysOf[c]
  /\ IF c \in Entries THEN At(c, "deciding") /\ Unused(k) ELSE At(c, "idle")

Refused(c) == c \in Entries /\ blocked

\* _reject: the stored order becomes REJECTED, whatever it was.
Reject(c, k) ==
  /\ row' = [row EXCEPT ![k] = "REJECTED"]
  /\ call' = [call EXCEPT ![c] = Idle]
  /\ UNCHANGED <<terminal, sends, blocked, lost, told>>

BeginRefused(c, k) ==
  /\ MayBegin(c, k)
  /\ Refused(c)
  /\ Reject(c, k)

\* Variant of Duplicate: a submitted order without an answer is tried again.
DuplicateSettled(k) == row[k] \in Settled

Duplicate(k) == row[k] \in Answered

BeginDuplicate(c, k) ==
  /\ MayBegin(c, k)
  /\ ~Refused(c)
  /\ Duplicate(k)
  /\ call' = [call EXCEPT ![c] = Idle]
  /\ UNCHANGED <<row, terminal, sends, blocked, lost, told>>

\* The order is stored as PENDING and the terminal is asked whether it may trade.
BeginNew(c, k) ==
  /\ MayBegin(c, k)
  /\ ~Refused(c)
  /\ ~Duplicate(k)
  /\ row' = [row EXCEPT ![k] = "PENDING"]
  /\ Become(c, "preflight", k)
  /\ UNCHANGED <<terminal, sends, blocked, lost, told>>

PreflightFails(c) ==
  /\ At(c, "preflight")
  /\ Reject(c, call[c].key)

\* ensure_ready raises: the order stays PENDING and the key may be used again.
TerminalNotReady(c) ==
  /\ At(c, "preflight")
  /\ call' = [call EXCEPT ![c] = Idle]
  /\ UNCHANGED <<row, terminal, sends, blocked, lost, told>>

\* Variant of OrderSend: the order is sent before SUBMITTED is stored.
OrderSendUnstored(c) ==
  LET k == call[c].key
  IN /\ At(c, "preflight")
     /\ sends' = [sends EXCEPT ![k] = @ + 1]
     /\ wire' = wire \cup {[from |-> c, key |-> k]}
     /\ Become(c, "sending", k)
     /\ UNCHANGED <<row, filled, open, blocked, lost, told>>

\* SUBMITTED is committed, then order_send starts on a thread.
OrderSend(c) ==
  LET k == call[c].key
  IN /\ At(c, "preflight")
     /\ row' = [row EXCEPT ![k] = "SUBMITTED"]
     /\ sends' = [sends EXCEPT ![k] = @ + 1]
     /\ wire' = wire \cup {[from |-> c, key |-> k]}
     /\ Become(c, "sending", k)
     /\ UNCHANGED <<filled, open, blocked, lost, told>>

-----------------------------------------------------------------------------
(* The terminal.                                                           *)

Waiting(r) == At(r.from, "sending") /\ call[r.from].key = r.key

\* The caller, if it still waits, gets the answer.
Answer(r, answer) ==
  call' = IF Waiting(r)
          THEN [call EXCEPT ![r.from] = [stage |-> "answered", key |-> r.key,
                                         answer |-> answer]]
          ELSE call

Execute(r) ==
  /\ r \in wire
  /\ wire' = wire \ {r}
  /\ filled' = filled \cup {r.key}
  /\ open' = IF r.from \in Entries THEN open \cup {r.key} ELSE open
  /\ \E answer \in {"done", "partial", "unclear"} : Answer(r, answer)
  /\ UNCHANGED <<row, sends, blocked, lost, told>>

TurnDown(r) ==
  /\ r \in wire
  /\ wire' = wire \ {r}
  /\ \E answer \in {"refused", "unclear"} : Answer(r, answer)
  /\ UNCHANGED <<row, sends, filled, open, blocked, lost, told>>

\* The answer comes before the request is decided.
AnswerEarly(r) ==
  /\ r \in wire
  /\ Waiting(r)
  /\ \E answer \in Early : Answer(r, answer)
  /\ UNCHANGED <<row, terminal, sends, blocked, lost, told>>

\* A stop, a target or a management request closes a position.
ClosePosition(k) ==
  /\ k \in open
  /\ open' = open \ {k}
  /\ UNCHANGED <<row, call, wire, sends, filled, blocked, lost, told>>

-----------------------------------------------------------------------------
\* Variant of StateFromRetcode: only a refusal is a rejection.
StateFromRetcodeLenient(answer) ==
  CASE answer = "partial" -> "PARTIALLY_FILLED"
    [] answer = "refused" -> "REJECTED"
    [] OTHER -> "ACCEPTED"

\* Whatever is not a success is a rejection, a missing result among them.
StateFromRetcode(answer) ==
  CASE answer \in {"done", "placed"} -> "ACCEPTED"
    [] answer = "partial" -> "PARTIALLY_FILLED"
    [] OTHER -> "REJECTED"

StoreAnswer(c) ==
  LET k == call[c].key
  IN /\ At(c, "answered")
     /\ row' = [row EXCEPT ![k] = StateFromRetcode(call[c].answer)]
     /\ told' = [told EXCEPT ![k] = call[c].answer]
     /\ call' = [call EXCEPT ![c] = Idle]
     /\ UNCHANGED <<terminal, sends, blocked, lost>>

\* The bridge times out, or the task is cancelled: the order stays SUBMITTED.
AnswerLost(c) ==
  /\ At(c, "sending") \/ At(c, "answered")
  /\ lost < MaxLost
  /\ lost' = lost + 1
  /\ call' = [call EXCEPT ![c] = Idle]
  /\ UNCHANGED <<row, terminal, sends, blocked, told>>

\* The process ends; what was sent is beyond it.
Sending == {c \in Callers : At(c, "sending") \/ At(c, "answered")}

Restart ==
  /\ lost + Cardinality(Sending) <= MaxLost
  /\ lost' = lost + Cardinality(Sending)
  /\ call' = [c \in Callers |-> Idle]
  /\ UNCHANGED <<row, terminal, sends, blocked, told>>

\* PortfolioManager.refresh stores a snapshot with its protection state.
Refresh ==
  /\ blocked' = (Cardinality(open) >= MaxOpen)
  /\ UNCHANGED <<row, call, terminal, sends, lost, told>>

Next ==
  \/ \E c \in Callers :
       \/ StartCycle(c) \/ EndCycle(c)
       \/ \E k \in Keys : BeginRefused(c, k) \/ BeginDuplicate(c, k) \/ BeginNew(c, k)
       \/ PreflightFails(c) \/ TerminalNotReady(c) \/ OrderSend(c)
       \/ StoreAnswer(c) \/ AnswerLost(c)
  \/ \E r \in wire : Execute(r) \/ TurnDown(r) \/ AnswerEarly(r)
  \/ \E k \in open : ClosePosition(k)
  \/ Restart
  \/ Refresh

Spec == Init /\ [][Next]_vars

-----------------------------------------------------------------------------
(* Properties.                                                             *)

\* Types: stored states, what callers await, and the terminal's sets.
TypeOK ==
  /\ row \in [Keys -> {"NONE", "PENDING"} \cup Answered]
  /\ call \in [Callers -> [stage : {"idle", "deciding", "preflight", "sending", "answered"},
                           key : Keys \cup {NoKey},
                           answer : TerminalAnswers \cup {"none"}]]
  /\ wire \subseteq [from : Callers, key : Keys]
  /\ sends \in [Keys -> Nat]
  /\ filled \subseteq Keys
  /\ open \subseteq Keys
  /\ blocked \in BOOLEAN
  /\ lost \in 0..MaxLost
  /\ told \in [Keys -> TerminalAnswers \cup {"none"}]

\* A key is sent to the terminal once at most, whatever fails and whoever
\* repeats it: SUBMITTED is stored before the request leaves, and a stored
\* SUBMITTED is never sent again, even when its answer was lost.
SentAtMostOnce == \A k \in Keys : sends[k] <= 1

\* The stored state tells the truth, but where the terminal did not: an accepted
\* order was executed, unless its answer was that it is placed; a rejected one was
\* not and never will be, unless its answer told nothing; and one that was executed
\* or is on its way is not stored as if nothing had been sent.
JournalIsHonest ==
  \A k \in Keys :
    /\ row[k] \in {"ACCEPTED", "PARTIALLY_FILLED"} => k \in filled \/ told[k] = "placed"
    /\ row[k] = "REJECTED" =>
         \/ k \notin filled /\ \A r \in wire : r.key # k
         \/ told[k] = "unclear"
    /\ (k \in filled \/ \E r \in wire : r.key = k) => row[k] \in Answered

\* The answer stored for an order is final: no later call, refusal or restart
\* turns an accepted order into a rejected one or back.
AnswersAreFinal == [][\A k \in Keys : row[k] \in Settled => row'[k] = row[k]]_row

\* What the journal holds of a key, and where its request is, as the abstract
\* specification sees them: a pending order has not been sent.
Stored(k) == IF row[k] \in Answered THEN row[k] ELSE "unsent"
Fate(k) == IF k \in filled THEN "executed"
           ELSE IF \E r \in wire : r.key = k THEN "underway"
           ELSE IF row[k] \in Answered THEN "never"
           ELSE "here"

Requests == INSTANCE RequestLifecycle WITH
  stored <- [k \in Keys |-> Stored(k)], fate <- [k \in Keys |-> Fate(k)],
  vague <- {k \in Keys : told[k] \in Early}

\* The manager, with all its callers, keeps what it promises of each key: no step
\* sends what may have been sent, forgets a decision or stores another than the
\* terminal's, if it told one.
RefinesRequests == Requests!Spec

=============================================================================
