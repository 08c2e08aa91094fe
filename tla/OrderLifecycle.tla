---------------------------- MODULE OrderLifecycle ----------------------------
(***************************************************************************)
(* One order command from intent to the end of its life: the gateway's     *)
(* place and cancel flows over the real transport                          *)
(* (finam-gateway/src/m3d2_real_transport_lifecycle.rs), the M3f           *)
(* reconciliation runner, the cancel follow-up and the client-id recovery, *)
(* all on the durable store of OrderPathStore, with the network and the    *)
(* broker on the other side.                                               *)
(*                                                                         *)
(* The flows hold `&mut store` across the await on the broker, so at most  *)
(* one flow or reconciliation pass is active in the process (flight, pass) *)
(* while messages, the broker and crashes move on.                         *)
(***************************************************************************)
EXTENDS OrderPathStore, M3fReconciliation

CONSTANTS MaxClock,        \* bound on the clock
          MaxPendingAge    \* max_pending_age of the reconciliation runner

ASSUME ClockAssumption == MaxClock \in Nat /\ MaxPendingAge \in Nat

VARIABLES flight,       \* the flow awaiting the broker, with its record clone
          approved,     \* requests whose PreflightApprovedCancelOrder the caller holds
          pass,         \* the running reconciliation pass
          net,          \* messages on the way to the broker
          order,        \* what became of each order at the broker
          bid,          \* the broker's id of each order
          cid,          \* the client id each place request was sent with
          sends,        \* how often each place request left the process
          cancelSends,  \* how often each cancel request left the process
          clock

gatewayVars == <<flight, approved, pass>>
brokerVars == <<net, order, bid, cid, sends, cancelSends>>
vars == <<storeVars, gatewayVars, brokerVars, clock>>

Flight == [op : {"place", "cancel"}, req : Requests, rec : Record, sent : BOOLEAN]
Pass   == [todo : SUBSET Requests, ts : Nat]

TypeOK ==
    /\ StoreTypeOK
    /\ flight \in Flight \cup {None}
    /\ approved \in SUBSET Requests
    /\ pass \in Pass \cup {None}
    /\ net \in SUBSET ({"place", "cancel"} \X Requests)
    /\ order \in [Requests -> {"none", "working", "done", "rejected"}]
    /\ bid \in [Requests -> BrokerIds \cup {None}]
    /\ cid \in [Requests -> ClientIds \cup {None}]
    /\ sends \in [Requests -> Nat]
    /\ cancelSends \in [Requests -> Nat]
    /\ clock \in Nat

Init ==
    /\ StoreInit
    /\ flight = None
    /\ approved = {}
    /\ pass = None
    /\ net = {}
    /\ order = [r \in Requests |-> "none"]
    /\ bid = [r \in Requests |-> None]
    /\ cid = [r \in Requests |-> None]
    /\ sends = [r \in Requests |-> 0]
    /\ cancelSends = [r \in Requests |-> 0]
    /\ clock = 0

Idle == up /\ flight = None /\ pass = None

WriteResults == {"ok", "fail", "late"}

\* store.update_record: a write, or a refusal by the checks of the maps.
TryUpdate(r, rec, w) ==
    \/ UpdateRecord(r, rec, w)
    \/ w = "fail" /\ ~UpdateOk(r, rec) /\ UNCHANGED storeVars

------------------------------------------------------------------------------
(* Placing an order *)

\* The caller records the intent before anything else.
RecordIntent(r, c, w) ==
    /\ Idle
    /\ InsertIntent(r, FromPlaceOrder(c, clock), w)
    /\ UNCHANGED <<gatewayVars, brokerVars, clock>>

\* Mutant: the flow goes on whatever became of the write.
BeginPlaceUnchecked(r, w) ==
    /\ Idle
    /\ mem[r] # None /\ Allowed(mem[r], "BeginSubmit")
    /\ LET rec == Transition(mem[r], "BeginSubmit", clock)
       IN  /\ TryUpdate(r, rec, w)
           /\ flight' = [op |-> "place", req |-> r, rec |-> rec, sent |-> FALSE]
    /\ UNCHANGED <<approved, pass, brokerVars, clock>>

\* m3d2d_persist_place_begin_submit: the flow goes on only when the write
\* succeeded.
BeginPlace(r, w) ==
    /\ Idle
    /\ mem[r] # None /\ Allowed(mem[r], "BeginSubmit")
    /\ LET rec == Transition(mem[r], "BeginSubmit", clock)
       IN  /\ TryUpdate(r, rec, w)
           /\ flight' = IF w = "ok"
                        THEN [op |-> "place", req |-> r, rec |-> rec, sent |-> FALSE]
                        ELSE None
    /\ UNCHANGED <<approved, pass, brokerVars, clock>>

\* transport.place_order_execution / cancel_order_execution: the request
\* leaves the process.
Send ==
    /\ flight # None /\ ~flight.sent
    /\ flight' = [flight EXCEPT !.sent = TRUE]
    /\ net' = net \cup {<<flight.op, flight.req>>}
    /\ \/ /\ flight.op = "place"
          /\ sends' = [sends EXCEPT ![flight.req] = @ + 1]
          /\ cid' = [cid EXCEPT ![flight.req] = flight.rec.client]
          /\ UNCHANGED cancelSends
       \/ /\ flight.op = "cancel"
          /\ cancelSends' = [cancelSends EXCEPT ![flight.req] = @ + 1]
          /\ UNCHANGED <<sends, cid>>
    /\ UNCHANGED <<storeVars, approved, pass, order, bid, clock>>

(***************************************************************************)
(* The answers of the endpoint after classification.  "NotSent" is the     *)
(* transport's refusal before the request leaves (no token, bad URL);      *)
(* "SendError" an HTTP error other than a timeout; "Reconcile" the decode  *)
(* errors and, for a cancel, the statuses 404, 409 and 410.                *)
(***************************************************************************)
PlaceAnswers == {"Accepted", "AcceptedNoId", "Rejected", "Timeout", "RateLimited",
                 "Maintenance", "Unauthorized", "Reconcile", "SendError", "NotSent"}
CancelAnswers == {"Accepted", "Mismatch", "Rejected", "Timeout", "RateLimited",
                  "Maintenance", "Unauthorized", "Reconcile", "SendError", "NotSent"}

\* What the broker can have answered.  A timeout, a rate limit, a maintenance
\* answer, a failed send or an unreadable body say nothing about the order.
PlaceAnswerPossible(a, r) ==
    CASE a \in {"Accepted", "AcceptedNoId"} -> order[r] \in {"working", "done"}
      [] a = "Rejected" -> order[r] = "rejected"
      [] OTHER -> TRUE

\* non_execution_policy and the NotSent branch: the error kind written over
\* the one the transition left.
ErrorOverride(a, old) ==
    CASE a = "RateLimited" -> "RateLimited"
      [] a = "Maintenance" -> "BrokerMaintenance"
      [] a = "Unauthorized" -> "Unauthorized"
      [] a \in {"Reconcile", "SendError"} -> "ReconciliationRequired"
      [] a = "NotSent" -> "LocalValidation"
      [] OTHER -> old

PlaceEvent(a) ==
    CASE a = "Accepted" -> "SubmitAccepted"
      [] a = "AcceptedNoId" -> "SubmitAcceptedWithoutBrokerOrderId"
      [] a = "Rejected" -> "BrokerReject"
      [] a = "Timeout" -> "SubmitTimedOut"
      [] OTHER -> "RequireManualIntervention"

CancelEvent(a) ==
    CASE a = "Accepted" -> "CancelAccepted"
      [] a = "Rejected" -> "CancelRejected"
      [] a = "Timeout" -> "CancelTimedOut"
      [] OTHER -> "RequireManualIntervention"

Answered(rec, event, a) ==
    [Transition(rec, event, clock) EXCEPT !.err = ErrorOverride(a, @)]

\* m3d2d_apply_place_transport_execution
ApplyPlace(a, w) ==
    /\ flight # None /\ flight.op = "place"
    /\ flight.sent = (a # "NotSent")
    /\ PlaceAnswerPossible(a, flight.req)
    /\ LET held == IF a = "Accepted"
                   THEN [flight.rec EXCEPT !.broker = bid[flight.req]]
                   ELSE flight.rec
       IN  /\ Allowed(held, PlaceEvent(a))
           /\ TryUpdate(flight.req, Answered(held, PlaceEvent(a), a), w)
    /\ flight' = None
    /\ UNCHANGED <<approved, pass, brokerVars, clock>>

------------------------------------------------------------------------------
(* Cancelling an order *)

\* validate_cancel_order: SubmitCancel for a record that carries the broker id
\* named in the command and is neither pending nor terminal.
CancelAdmitted(rec) ==
    /\ rec.broker # None
    /\ rec.state \notin {"SubmittedPendingBrokerOrderId", "TimeoutUnknownPending",
                         "CancelTimeoutUnknownPending", "CancelRequested",
                         "CancelSubmitted"} \cup TerminalStates

\* The approval is a value the caller keeps: it may be stale when it is used.
ApproveCancel(r) ==
    /\ Idle
    /\ mem[r] # None /\ CancelAdmitted(mem[r])
    /\ approved' = approved \cup {r}
    /\ UNCHANGED <<storeVars, flight, pass, brokerVars, clock>>

\* Mutant: the cancel is sent whatever became of the write.
BeginCancelUnchecked(r, w) ==
    /\ Idle
    /\ r \in approved
    /\ mem[r] # None /\ Allowed(mem[r], "RequestCancel")
    /\ LET rec == Transition(mem[r], "RequestCancel", clock)
       IN  /\ TryUpdate(r, rec, w)
           /\ flight' = [op |-> "cancel", req |-> r, rec |-> rec, sent |-> FALSE]
    /\ UNCHANGED <<approved, pass, brokerVars, clock>>

\* m3d2d_persist_cancel_request
BeginCancel(r, w) ==
    /\ Idle
    /\ r \in approved
    /\ mem[r] # None /\ Allowed(mem[r], "RequestCancel")
    /\ LET rec == Transition(mem[r], "RequestCancel", clock)
       IN  /\ TryUpdate(r, rec, w)
           /\ flight' = IF w = "ok"
                        THEN [op |-> "cancel", req |-> r, rec |-> rec, sent |-> FALSE]
                        ELSE None
    /\ UNCHANGED <<approved, pass, brokerVars, clock>>

\* m3d2d_apply_cancel_transport_execution.  The cancel answers bind nothing
\* about the order: an accepted cancel may still race a fill.
ApplyCancel(a, w) ==
    /\ flight # None /\ flight.op = "cancel"
    /\ flight.sent = (a # "NotSent")
    /\ Allowed(flight.rec, CancelEvent(a))
    /\ TryUpdate(flight.req, Answered(flight.rec, CancelEvent(a), a), w)
    /\ flight' = None
    /\ UNCHANGED <<approved, pass, brokerVars, clock>>

------------------------------------------------------------------------------
(* Reconciliation *)

\* What the broker can list of its orders.  Snapshots are fetched before they
\* are applied, so a finished order may still be listed as active; ids may be
\* missing, and the request id is whatever the builder attached.
OrderSnapshots ==
    UNION {[req    : Requests \cup {None},
            client : {cid[q], None},
            id     : {bid[q], None},
            cls    : {"Unknown"}
                     \cup (IF order[q] = "rejected" THEN {} ELSE {"Active"})
                     \cup (IF order[q] = "working" THEN {} ELSE {"Terminal"})] :
           q \in {p \in Requests : order[p] # "none"}}

TradeSnapshots ==
    UNION {[req : Requests \cup {None}, client : {cid[q], None}, id : {bid[q], None}] :
           q \in {p \in Requests : order[p] \in {"working", "done"}}}

PossibleTruths(rec) ==
    [order : {s \in OrderSnapshots : Matches(rec, s)} \cup {None},
     trade : {s \in TradeSnapshots : Matches(rec, s)} \cup {None}]

\* The decisions these truths lead to for r, with the broker id of the matching
\* order.
Decisions(r, checked) ==
    {[action |-> Decide(r, mem[r], t, checked, MaxPendingAge),
      id     |-> IF Found(t) THEN t.order.id ELSE None] : t \in PossibleTruths(mem[r])}

\* m3f_run_reconciliation_once: schedule, then one decision after the other.
StartPass ==
    /\ Idle
    /\ pass' = [todo |-> {r \in Requests : mem[r] # None /\ mem[r].state \in ScheduledStates},
                ts   |-> clock]
    /\ UNCHANGED <<storeVars, flight, approved, brokerVars, clock>>

\* An error in one decision (no such transition, or the store's) ends the pass.
PassStep(r, d, w) ==
    /\ pass # None /\ r \in pass.todo
    /\ \/ /\ Persistable(mem[r], d.action)
          /\ TryUpdate(r, Reconciled(mem[r], d.action, d.id, pass.ts), w)
          /\ pass' = IF w = "ok" THEN [pass EXCEPT !.todo = @ \ {r}] ELSE None
       \/ /\ ~Persistable(mem[r], d.action)
          /\ w = "fail" /\ pass' = None /\ UNCHANGED storeVars
    /\ UNCHANGED <<flight, approved, brokerVars, clock>>

EndPass ==
    /\ pass # None /\ pass.todo = {}
    /\ pass' = None
    /\ UNCHANGED <<storeVars, flight, approved, brokerVars, clock>>

\* Mutant: the broker's order is not looked up by its client id.
RecoverAnyPending(r, q, w) ==
    /\ Idle
    /\ bid[q] # None
    /\ mem[r] # None /\ mem[r].broker = None
    /\ mem[r].state \in {"SubmittedPendingBrokerOrderId", "TimeoutUnknownPending"}
    /\ TryUpdate(r, Transition([mem[r] EXCEPT !.broker = bid[q]],
                               "RecoverByClientOrderId", clock), w)
    /\ UNCHANGED <<gatewayVars, brokerVars, clock>>

\* recover_order_path_by_client_order_id, past its early returns, for the order
\* the broker lists as q's.
RecoverByClientOrderId(r, q, w) ==
    /\ Idle
    /\ bid[q] # None /\ byClient[cid[q]] = r
    /\ mem[r] # None /\ mem[r].broker = None
    /\ mem[r].state \in {"SubmittedPendingBrokerOrderId", "TimeoutUnknownPending"}
    /\ TryUpdate(r, Transition([mem[r] EXCEPT !.broker = bid[q]],
                               "RecoverByClientOrderId", clock), w)
    /\ UNCHANGED <<gatewayVars, brokerVars, clock>>

\* Mutant: any record that needs reconciliation is taken for a cancel.
FollowUpEligibleAny(rec) ==
    \/ rec.state = "CancelTimeoutUnknownPending"
    \/ rec.state = "ManualInterventionRequired" /\ rec.err = "ReconciliationRequired"

\* eligible of simulate_cancel_reconciliation_follow_up_with_policy
FollowUpEligible(rec) ==
    /\ rec.cancels > 0
    /\ \/ rec.state = "CancelTimeoutUnknownPending"
       \/ rec.state = "ManualInterventionRequired" /\ rec.err = "ReconciliationRequired"

FollowedUp(rec, truth) ==
    CASE truth = "Terminal" -> Transition(rec, "RecoverCancelTerminal", clock)
      [] truth = "StillWorking" ->
            [rec EXCEPT !.state = "ManualInterventionRequired",
                        !.err = "ReconciliationRequired", !.ts = clock]
      [] truth = "Unknown" ->
            [rec EXCEPT !.err = "ReconciliationRequired", !.ts = clock]

CancelFollowUp(r, truth, w) ==
    /\ Idle
    /\ mem[r] # None /\ FollowUpEligible(mem[r])
    /\ truth = "Terminal" => order[r] \in {"done", "rejected"}
    /\ truth = "StillWorking" => order[r] \in {"working", "done"}
    /\ TryUpdate(r, FollowedUp(mem[r], truth), w)
    /\ UNCHANGED <<gatewayVars, brokerVars, clock>>

\* The caller runs recover_after_restart on a loaded record and saves it.
RecoverAfterRestart(r, w) ==
    /\ Idle
    /\ mem[r] # None /\ mem[r].state = "SubmitInFlight"
    /\ TryUpdate(r, Transition(mem[r], "SubmitTimedOut", clock), w)
    /\ UNCHANGED <<gatewayVars, brokerVars, clock>>

------------------------------------------------------------------------------
(* The network and the broker (external) *)

BrokerAccepts(r) ==
    /\ <<"place", r>> \in net
    /\ net' = net \ {<<"place", r>>}
    /\ order' = [order EXCEPT ![r] = "working"]
    /\ \E b \in BrokerIds \ {bid[q] : q \in Requests} : bid' = [bid EXCEPT ![r] = b]
    /\ UNCHANGED <<storeVars, gatewayVars, cid, sends, cancelSends, clock>>

BrokerRejects(r) ==
    /\ <<"place", r>> \in net
    /\ net' = net \ {<<"place", r>>}
    /\ order' = [order EXCEPT ![r] = "rejected"]
    /\ UNCHANGED <<storeVars, gatewayVars, bid, cid, sends, cancelSends, clock>>

BrokerCancels(r) ==
    /\ <<"cancel", r>> \in net
    /\ net' = net \ {<<"cancel", r>>}
    /\ order' = [order EXCEPT ![r] = IF @ = "working" THEN "done" ELSE @]
    /\ UNCHANGED <<storeVars, gatewayVars, bid, cid, sends, cancelSends, clock>>

BrokerFills(r) ==
    /\ order[r] = "working"
    /\ order' = [order EXCEPT ![r] = "done"]
    /\ UNCHANGED <<storeVars, gatewayVars, net, bid, cid, sends, cancelSends, clock>>

Lose(m) ==
    /\ m \in net
    /\ net' = net \ {m}
    /\ UNCHANGED <<storeVars, gatewayVars, order, bid, cid, sends, cancelSends, clock>>

------------------------------------------------------------------------------
(* The process *)

Open == OpenStore /\ UNCHANGED <<gatewayVars, brokerVars, clock>>

Close == Idle /\ CloseStore /\ approved' = {} /\ UNCHANGED <<flight, pass, brokerVars, clock>>

\* Everything the process holds is gone; messages already sent are not.
Crash ==
    /\ CrashStore
    /\ flight' = None
    /\ approved' = {}
    /\ pass' = None
    /\ UNCHANGED <<brokerVars, clock>>

Unlock == ClearStaleLock /\ UNCHANGED <<gatewayVars, brokerVars, clock>>

Tick == clock < MaxClock /\ clock' = clock + 1 /\ UNCHANGED <<storeVars, gatewayVars, brokerVars>>

Next ==
    \/ \E r \in Requests, c \in ClientIds, w \in WriteResults : RecordIntent(r, c, w)
    \/ \E r \in Requests, w \in WriteResults : BeginPlace(r, w)
    \/ Send
    \/ \E a \in PlaceAnswers, w \in WriteResults : ApplyPlace(a, w)
    \/ \E r \in Requests : ApproveCancel(r)
    \/ \E r \in Requests, w \in WriteResults : BeginCancel(r, w)
    \/ \E a \in CancelAnswers, w \in WriteResults : ApplyCancel(a, w)
    \/ StartPass
    \/ \E r \in IF pass = None THEN {} ELSE pass.todo :
          \E d \in Decisions(r, pass.ts), w \in WriteResults : PassStep(r, d, w)
    \/ EndPass
    \/ \E r, q \in Requests, w \in WriteResults : RecoverByClientOrderId(r, q, w)
    \/ \E r \in Requests, truth \in {"Terminal", "StillWorking", "Unknown"},
          w \in WriteResults : CancelFollowUp(r, truth, w)
    \/ \E r \in Requests, w \in WriteResults : RecoverAfterRestart(r, w)
    \/ \E r \in Requests : BrokerAccepts(r) \/ BrokerRejects(r) \/ BrokerCancels(r) \/ BrokerFills(r)
    \/ \E m \in net : Lose(m)
    \/ Open
    \/ Close
    \/ Crash
    \/ Unlock
    \/ Tick

Spec == Init /\ [][Next]_vars

------------------------------------------------------------------------------
(* Properties *)

Versions(r) == {mem[r], disk[r]} \ {None}

\* No request reaches the broker twice: neither a place nor a cancel is sent a
\* second time, whatever writes fail, wherever the process crashes and however
\* often a flow is started again on the reloaded record.
AtMostOneSubmission ==
    \A r \in Requests : sends[r] <= 1 /\ cancelSends[r] <= 1

\* A request that left the process has left its trace in the durable record:
\* after a crash the attempt is known (m3d2d_persist_place_begin_submit and
\* m3d2d_persist_cancel_request come before the transport).
SentIsDurable ==
    \A r \in Requests :
        /\ sends[r] > 0 => disk[r] # None /\ disk[r].submits >= sends[r]
        /\ cancelSends[r] > 0 => disk[r] # None /\ disk[r].cancels >= cancelSends[r]

\* The gateway declares an order dead only when it is: no answer, snapshot or
\* follow-up closes the record of an order the broker still works or may still
\* receive.
DeadMeansDead ==
    \A r \in Requests : \A v \in Versions(r) :
        /\ v.state \in {"Terminal", "CancelRecoveredTerminal"} =>
              order[r] \in {"done", "rejected"} /\ <<"place", r>> \notin net
        /\ v.state = "BrokerRejected" => order[r] = "rejected"

\* A broker id in a record is the id the broker gave to that very request.
BrokerIdTrue ==
    \A r \in Requests : \A v \in Versions(r) :
        v.broker # None => v.broker = bid[r]

\* next_order_path_state lets ManualInterventionRequired become
\* CancelRecoveredTerminal and leaves it to the callers to prove that the
\* uncertainty is about a cancel: only an order whose cancel was durably
\* requested ever ends there.
CancelRecoveryHadCancel ==
    \A r \in Requests : \A v \in Versions(r) :
        v.state = "CancelRecoveredTerminal" => v.cancels > 0 /\ v.broker # None

StaysTerminal(old, new) ==
    (old # None /\ old.state \in TerminalStates) => (new # None /\ new.state \in TerminalStates)

\* A durable terminal record is never replaced by a non-terminal one
\* (update_record's TerminalStateOverwrite check, applied to what is on disk).
TerminalNeverOverwritten == [][\A r \in Requests : StaysTerminal(disk[r], disk'[r])]_vars

\* Every decision the policy can take for a record with an open cancel is one
\* the runner can persist: no truth of the broker makes
\* m3f_run_reconciliation_once stop with an error on it.
CancelDecisionsPersist ==
    \A r \in Requests :
        (mem[r] # None /\ mem[r].state \in {"CancelSubmitted", "CancelTimeoutUnknownPending"})
            => \A d \in Decisions(r, clock) : Persistable(mem[r], d.action)
==============================================================================
