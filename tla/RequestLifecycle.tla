-------------------------- MODULE RequestLifecycle --------------------------
(***************************************************************************)
(* What the execution manager promises of an idempotency key, without      *)
(* callers, awaits or limits: the key is sent once at most and only when   *)
(* it is known to be unsent, a request on its way is executed or turned    *)
(* down once, and what is stored of it afterwards, if anything is, stays   *)
(* and is what happened to it, unless it was taken from an answer that did *)
(* not tell.  PortfolioExecution and AdaptiveManagement implement this     *)
(* module; they differ in when an answer is stored, and in what is lost    *)
(* when it is not.                                                         *)
(***************************************************************************)

CONSTANT Keys

VARIABLES
  stored,   \* key -> what the journal holds of it
  fate,     \* key -> where its request is
  vague     \* keys stored from an answer that does not tell their fate

vars == <<stored, fate, vague>>

Init ==
  /\ stored = [k \in Keys |-> "unsent"]
  /\ fate = [k \in Keys |-> "here"]
  /\ vague = {}

\* A check before the terminal is reached fails: the request is never sent.
Refuse(k) ==
  /\ stored[k] = "unsent" /\ fate[k] = "here"
  /\ stored' = [stored EXCEPT ![k] = "REJECTED"]
  /\ fate' = [fate EXCEPT ![k] = "never"]
  /\ UNCHANGED vague

\* That it was sent is stored no later than it is.
Send(k) ==
  /\ stored[k] = "unsent" /\ fate[k] = "here"
  /\ stored' = [stored EXCEPT ![k] = "SUBMITTED"]
  /\ fate' = [fate EXCEPT ![k] = "underway"]
  /\ UNCHANGED vague

\* The answers that tell a fate.
AnswersTo(f) == CASE f = "executed" -> {"ACCEPTED", "PARTIALLY_FILLED"}
                  [] f = "never" -> {"REJECTED"}
                  [] OTHER -> {}

\* An answer that tells nothing is stored as a rejection, one that promises the
\* execution as a success.
Guesses == {"ACCEPTED", "REJECTED"}

\* What is stored of a submitted key whose fate is f: what the answer told, or a guess.
Store(k, f) ==
  /\ stored[k] = "SUBMITTED"
  /\ \/ /\ \E answer \in AnswersTo(f) : stored' = [stored EXCEPT ![k] = answer]
        /\ UNCHANGED vague
     \/ /\ \E answer \in Guesses : stored' = [stored EXCEPT ![k] = answer]
        /\ vague' = vague \cup {k}

\* The terminal decides; the answer is stored at once, later, or not at all.
Decide(k) ==
  /\ fate[k] = "underway"
  /\ \E f \in {"executed", "never"} :
       /\ fate' = [fate EXCEPT ![k] = f]
       /\ UNCHANGED <<stored, vague>> \/ Store(k, f)

Learn(k) ==
  /\ Store(k, fate[k])
  /\ UNCHANGED fate

Next == \E k \in Keys : Refuse(k) \/ Send(k) \/ Decide(k) \/ Learn(k)

Spec == Init /\ [][Next]_vars

=============================================================================
