---------------------------- MODULE OrderStates ----------------------------
(***************************************************************************)
(* The statuses of a canonical paper order and the transition table every  *)
(* change of status is checked against (backend/trading/oms/state_machine, *)
(* backend/trading/models.OrderStatus).                                    *)
(***************************************************************************)

Status == {"CREATED", "PENDING_RISK", "RISK_REJECTED", "APPROVED", "QUEUED",
           "SUBMITTED_TO_SIMULATOR", "ACKNOWLEDGED", "PARTIALLY_FILLED",
           "FILLED", "CANCEL_PENDING", "CANCELLED", "REPLACE_PENDING",
           "REPLACED", "REJECTED", "EXPIRED", "ERROR"}

ValidTransitions == [s \in Status |->
  CASE s = "CREATED"      -> {"PENDING_RISK", "RISK_REJECTED", "APPROVED",
                              "REJECTED", "ERROR"}
    [] s = "PENDING_RISK" -> {"RISK_REJECTED", "APPROVED", "ERROR"}
    [] s = "APPROVED"     -> {"QUEUED", "SUBMITTED_TO_SIMULATOR",
                              "CANCEL_PENDING", "EXPIRED"}
    [] s = "QUEUED"       -> {"SUBMITTED_TO_SIMULATOR", "CANCEL_PENDING",
                              "EXPIRED"}
    [] s = "SUBMITTED_TO_SIMULATOR" -> {"ACKNOWLEDGED", "REJECTED", "ERROR"}
    [] s \in {"ACKNOWLEDGED", "PARTIALLY_FILLED"} ->
                             {"PARTIALLY_FILLED", "FILLED", "CANCEL_PENDING",
                              "EXPIRED"}
    [] s = "CANCEL_PENDING"  -> {"CANCELLED", "ERROR"}
    [] s = "REPLACE_PENDING" -> {"REPLACED", "ERROR"}
    [] s = "REPLACED"        -> {"QUEUED", "SUBMITTED_TO_SIMULATOR"}
    [] OTHER -> {}]

\* assert_transition raises unless this holds.
CanTransition(from, to) == to = from \/ to \in ValidTransitions[from]

\* The filter submit_intent applies before it hands the account's orders to
\* the risk engine and to the duplicate check.
Pending(s) ==
  s \notin {"FILLED", "CANCELLED", "REJECTED", "RISK_REJECTED", "EXPIRED"}

=============================================================================
