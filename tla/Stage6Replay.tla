----------------------------- MODULE Stage6Replay -----------------------------
(***************************************************************************)
(* The replay of one request's records in the Stage 6 journal              *)
(* (strategy-runtime-core/src/stage6_replay.rs, WorkingRequest): which     *)
(* record may follow, and what the request's state is afterwards.  Every   *)
(* reader of the journal folds it through these operators, so they decide  *)
(* whether a request may be dispatched.                                    *)
(*                                                                         *)
(* Data: a record is its request, its place in the request's own sequence, *)
(* its kind, a broker order and a dispatch ordinal; the previous-record    *)
(* link is implied by the sequence number.  The trade map is left out: a   *)
(* trade's order is always the known broker order, so a conflicting trade  *)
(* is refused by EstablishesOrder already.                                 *)
(***************************************************************************)
EXTENDS Naturals

CONSTANT None

SafetyStates == {"ReadyForFirstDispatch", "ReconciliationRequired",
                 "RetryEligibleSameIdentity", "DispatchForbidden"}

Observations == {"BrokerOrderObserved", "BrokerTradeObserved", "BrokerOrderFound"}

\* validate_event_for_action: what may be recorded of a place and of a cancel.
EventsFor(action) ==
    {"DispatchAttemptRecorded", "Inconclusive", "RequestFinalized", "ConflictObserved"}
    \cup IF action = "Place"
         THEN Observations \cup {"NoBrokerOrderFound"}
         ELSE {"CancelOutcomeObserved"}

\* The first record of a request is its acceptance.
StartsRequest(rec) == rec.kind = "RequestAccepted" /\ rec.seq = 1

FromFirst(rec) ==
    [cmd |-> rec.cmd, seq |-> 1, attempts |-> 0, safety |-> "ReadyForFirstDispatch",
     broker |-> None, cancel |-> FALSE, final |-> FALSE, conflict |-> FALSE]

\* A retry needs an observation that the first attempt left no order.
DispatchAllowed(w, rec) ==
    /\ rec.ordinal = w.attempts + 1
    /\ \/ w.safety = "ReadyForFirstDispatch" /\ w.attempts = 0
       \/ w.safety = "RetryEligibleSameIdentity" /\ w.cmd.action = "Place"

EstablishesOrder(w, rec) == w.broker \in {None, rec.order}

\* WorkingRequest::apply accepts rec.
CanApply(w, rec) ==
    /\ ~w.final
    /\ rec.seq = w.seq + 1
    /\ rec.kind \in EventsFor(w.cmd.action)
    /\ rec.kind = "DispatchAttemptRecorded" => DispatchAllowed(w, rec)
    /\ rec.kind \in Observations => w.attempts > 0 /\ EstablishesOrder(w, rec)
    /\ rec.kind \in {"NoBrokerOrderFound", "Inconclusive"} =>
           w.attempts > 0 /\ w.safety = "ReconciliationRequired" /\ w.broker = None
    /\ rec.kind = "CancelOutcomeObserved" => w.attempts > 0 /\ ~w.cancel

SafetyAfter(w, kind) ==
    CASE kind = "DispatchAttemptRecorded" -> "ReconciliationRequired"
      [] kind = "NoBrokerOrderFound"      -> "RetryEligibleSameIdentity"
      [] kind = "Inconclusive"            -> w.safety
      [] OTHER                            -> "DispatchForbidden"

Apply(w, rec) ==
    [w EXCEPT !.seq = rec.seq,
              !.attempts = IF rec.kind = "DispatchAttemptRecorded" THEN rec.ordinal ELSE @,
              !.safety = SafetyAfter(w, rec.kind),
              !.broker = IF rec.kind \in Observations THEN rec.order ELSE @,
              !.cancel = @ \/ rec.kind = "CancelOutcomeObserved",
              !.final = @ \/ rec.kind = "RequestFinalized",
              !.conflict = @ \/ rec.kind = "ConflictObserved"]
==============================================================================
