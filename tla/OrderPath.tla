------------------------------ MODULE OrderPath ------------------------------
(***************************************************************************)
(* The order-path record of broker-core (crates/broker-core/src/           *)
(* order_path.rs): the states an order command goes through, the table of  *)
(* allowed events, and what one event does to a record.                    *)
(*                                                                         *)
(* A record keeps the fields the control flow reads.  Account, instrument, *)
(* side, quantity, price, the comment fingerprint, the acknowledgement     *)
(* status and the reconciliation source are data no guard of the order     *)
(* path looks at, and are left out.                                        *)
(***************************************************************************)
EXTENDS Naturals

CONSTANTS Requests,     \* strategy request ids
          ClientIds,    \* client order ids
          BrokerIds,    \* broker order ids
          None          \* Rust's Option::None

States == {"IntentRecorded", "LocalRejected", "SubmitInFlight", "Submitted",
           "SubmittedPendingBrokerOrderId", "TimeoutUnknownPending",
           "RecoveredByClientOrderId", "BrokerRejected", "CancelRequested",
           "CancelSubmitted", "CancelTimeoutUnknownPending",
           "CancelRecoveredTerminal", "Terminal", "ManualInterventionRequired"}

Events == {"LocalReject", "BeginSubmit", "SubmitAccepted",
           "SubmitAcceptedWithoutBrokerOrderId", "SubmitTimedOut",
           "RecoverByClientOrderId", "RequireManualIntervention",
           "BrokerReject", "RequestCancel", "CancelAccepted", "CancelRejected",
           "CancelTimedOut", "RecoverCancelTerminal", "MarkTerminal"}

ErrorKinds == {"LocalValidation", "BrokerRejected", "TransportTimeout",
               "RateLimited", "BrokerMaintenance", "Unauthorized",
               "ReconciliationRequired"}

\* is_terminal_order_path_state
TerminalStates ==
    {"Terminal", "CancelRecoveredTerminal", "LocalRejected", "BrokerRejected"}

Record == [state   : States,
           client  : ClientIds,
           broker  : BrokerIds \cup {None},
           submits : Nat,
           cancels : Nat,
           err     : ErrorKinds \cup {None},
           ts      : Nat]

\* None is none of the values it is an alternative to.
ASSUME NoneAssumption ==
    /\ None \notin Requests \cup ClientIds \cup BrokerIds
    /\ None \notin States \cup ErrorKinds
    /\ None \notin Record

\* OrderPathRecord::from_place_order
FromPlaceOrder(c, now) ==
    [state |-> "IntentRecorded", client |-> c, broker |-> None,
     submits |-> 0, cancels |-> 0, err |-> None, ts |-> now]

(***************************************************************************)
(* next_order_path_state, grouped by event.  None stands for the           *)
(* InvalidTransition error.                                                *)
(***************************************************************************)
NextOrderPathState(s, e) ==
    CASE e = "LocalReject" /\ s = "IntentRecorded" -> "LocalRejected"
      [] e = "BeginSubmit" /\ s = "IntentRecorded" -> "SubmitInFlight"
      [] e = "SubmitAccepted" /\ s = "SubmitInFlight" -> "Submitted"
      [] e = "SubmitAcceptedWithoutBrokerOrderId" /\ s = "SubmitInFlight"
            -> "SubmittedPendingBrokerOrderId"
      [] e = "SubmitTimedOut" /\ s = "SubmitInFlight" -> "TimeoutUnknownPending"
      [] e = "RecoverByClientOrderId"
            /\ s \in {"TimeoutUnknownPending", "SubmittedPendingBrokerOrderId"}
            -> "RecoveredByClientOrderId"
      [] e = "RequireManualIntervention"
            /\ s \in {"SubmitInFlight", "SubmittedPendingBrokerOrderId",
                      "TimeoutUnknownPending", "CancelRequested",
                      "CancelSubmitted", "CancelTimeoutUnknownPending"}
            -> "ManualInterventionRequired"
      [] e = "BrokerReject" /\ s \in {"SubmitInFlight", "Submitted"}
            -> "BrokerRejected"
      [] e = "RequestCancel" /\ s \in {"Submitted", "RecoveredByClientOrderId"}
            -> "CancelRequested"
      [] e = "CancelAccepted" /\ s = "CancelRequested" -> "CancelSubmitted"
      [] e = "CancelRejected" /\ s \in {"CancelRequested", "CancelSubmitted"}
            -> "ManualInterventionRequired"
      [] e = "CancelTimedOut" /\ s \in {"CancelRequested", "CancelSubmitted"}
            -> "CancelTimeoutUnknownPending"
      [] e = "RecoverCancelTerminal"
            /\ s \in {"CancelTimeoutUnknownPending", "ManualInterventionRequired"}
            -> "CancelRecoveredTerminal"
      [] e = "MarkTerminal"
            /\ s \in {"Submitted", "RecoveredByClientOrderId", "CancelRequested",
                      "CancelSubmitted", "CancelTimeoutUnknownPending",
                      "CancelRecoveredTerminal", "BrokerRejected", "LocalRejected"}
            -> "Terminal"
      [] OTHER -> None

\* Mutant: transition applies the event without looking at the table.
AllowedAlways(rec, e) == TRUE

Allowed(rec, e) == NextOrderPathState(rec.state, e) # None

\* The last_error_kind an event leaves; events not listed keep the old one.
ErrorAfter(e, old) ==
    CASE e = "LocalReject" -> "LocalValidation"
      [] e \in {"BrokerReject", "CancelRejected"} -> "BrokerRejected"
      [] e \in {"SubmitTimedOut", "CancelTimedOut"} -> "TransportTimeout"
      [] e \in {"SubmitAcceptedWithoutBrokerOrderId", "RequireManualIntervention"}
            -> "ReconciliationRequired"
      [] OTHER -> old

\* OrderPathRecord::transition, for an allowed event.
Transition(rec, e, now) ==
    [rec EXCEPT !.state   = NextOrderPathState(rec.state, e),
                !.submits = IF e = "BeginSubmit" THEN @ + 1 ELSE @,
                !.cancels = IF e = "RequestCancel" THEN @ + 1 ELSE @,
                !.err     = ErrorAfter(e, @),
                !.ts      = now]
==============================================================================
