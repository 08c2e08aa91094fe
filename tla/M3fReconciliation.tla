-------------------------- MODULE M3fReconciliation ---------------------------
(***************************************************************************)
(* The broker-truth reconciliation policy of finam-gateway (M3f): which    *)
(* records are scheduled, what the policy decides for one record from one  *)
(* view of the broker, and how the runner turns the decision into a new    *)
(* version of the record.                                                  *)
(*                                                                         *)
(* Snapshots carry what the broker lists: a client id, a broker id (its    *)
(* hash and the id kept for persistence are one field), the class of the   *)
(* order, and a request id when whoever built the snapshot attached one.   *)
(* Account and instrument are the same for every request and left out.     *)
(***************************************************************************)
EXTENDS OrderPath, Integers

\* m3f_reconciliation_request_kind: every other state is ignored.
ScheduledStates == {"SubmittedPendingBrokerOrderId", "TimeoutUnknownPending",
                    "CancelSubmitted", "CancelTimeoutUnknownPending"}

\* m3f_order_ and m3f_trade_snapshot_matches_request_identity
Matches(rec, s) ==
    \/ rec.broker # None /\ s.id = rec.broker
    \/ s.client = rec.client

(***************************************************************************)
(* What m3f_apply_broker_truth_snapshots finds for one record: the first   *)
(* matching order snapshot and the first matching trade snapshot, or None. *)
(***************************************************************************)
Found(t) == t.order # None

StateClass(t) == IF Found(t) THEN t.order.cls ELSE "Unknown"

Conflicting(r, t) ==
    \/ Found(t) /\ t.order.req \notin {None, r}
    \/ t.trade # None /\ t.trade.req \notin {None, r}

\* broker_order_id_recovery_allowed (stale and conflicting truths are already
\* excluded by Decide)
RecoveryAllowed(rec, t) ==
    /\ rec.broker = None
    /\ Found(t) /\ t.order.id # None /\ t.order.client = rec.client

\* m3f_outcome_action_for_truth, for a place whose outcome is open
PlaceOutcome(rec, t) ==
    CASE RecoveryAllowed(rec, t) ->
            IF StateClass(t) = "Terminal" THEN "RecoverByClientOrderIdAndTerminal"
                                          ELSE "RecoverByClientOrderId"
      [] ~RecoveryAllowed(rec, t) /\ rec.state = "SubmittedPendingBrokerOrderId" ->
            IF Found(t) THEN "MarkSubmitted" ELSE "KeepPending"
      [] ~RecoveryAllowed(rec, t) /\ rec.state = "TimeoutUnknownPending" ->
            CASE Found(t) /\ StateClass(t) = "Terminal" -> "MarkTerminal"
              [] Found(t) /\ StateClass(t) # "Terminal" -> "MarkSubmitted"
              [] ~Found(t) /\ t.trade # None -> "ManualInterventionRequired"
              [] OTHER -> "KeepPending"

\* Mutant: a cancelled order the broker does not list is taken for dead.
CancelOutcomeUnlistedIsDead(rec, t) ==
    CASE StateClass(t) = "Terminal" \/ ~Found(t) -> "RecoverCancelTerminal"
      [] OTHER -> "KeepPending"

\* m3f_outcome_action_for_truth, for a cancel whose outcome is open
CancelOutcome(rec, t) ==
    CASE StateClass(t) = "Terminal" -> "RecoverCancelTerminal"
      [] rec.state = "CancelTimeoutUnknownPending" /\ ~Found(t) ->
            "ManualInterventionRequired"
      [] OTHER -> "KeepPending"

OutcomeAction(rec, t) ==
    IF rec.state \in {"SubmittedPendingBrokerOrderId", "TimeoutUnknownPending"}
    THEN PlaceOutcome(rec, t)
    ELSE CancelOutcome(rec, t)

(***************************************************************************)
(* m3f_apply_broker_truth_outcome_policy with the staleness test of        *)
(* m3f_apply_broker_truth_snapshots.  Identity completeness never blocks:  *)
(* every record carries an account and a client order id.                  *)
(***************************************************************************)
Decide(r, rec, t, checked, maxAge) ==
    IF Conflicting(r, t) \/ checked - rec.ts > maxAge
    THEN "ManualInterventionRequired"
    ELSE OutcomeAction(rec, t)

WithRecoveredId(rec, id) ==
    IF rec.broker = None THEN [rec EXCEPT !.broker = id] ELSE rec

\* m3f_persist_reconciliation_decision: the event it sends the record through
\* must be in the transition table, otherwise the whole pass stops.
Persistable(rec, action) ==
    CASE action \in {"RecoverByClientOrderId", "RecoverByClientOrderIdAndTerminal"}
            -> Allowed(rec, "RecoverByClientOrderId")
      [] action = "MarkTerminal" -> Allowed(rec, "MarkTerminal")
      [] action = "RecoverCancelTerminal" -> Allowed(rec, "RecoverCancelTerminal")
      [] action = "ManualInterventionRequired"
            -> Allowed(rec, "RequireManualIntervention")
      [] action \in {"KeepPending", "MarkSubmitted"} -> TRUE

Reconciled(rec, action, id, checked) ==
    CASE action = "KeepPending" -> [rec EXCEPT !.ts = checked]
      [] action = "RecoverByClientOrderId" ->
            Transition(WithRecoveredId(rec, id), "RecoverByClientOrderId", checked)
      [] action = "RecoverByClientOrderIdAndTerminal" ->
            Transition(
                Transition(WithRecoveredId(rec, id), "RecoverByClientOrderId", checked),
                "MarkTerminal", checked)
      [] action = "MarkSubmitted" ->
            [rec EXCEPT !.state = "Submitted", !.ts = checked]
      [] action = "MarkTerminal" -> Transition(rec, "MarkTerminal", checked)
      [] action = "RecoverCancelTerminal" ->
            Transition(rec, "RecoverCancelTerminal", checked)
      [] action = "ManualInterventionRequired" ->
            Transition(rec, "RequireManualIntervention", checked)
==============================================================================
