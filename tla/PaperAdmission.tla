---------------------------- MODULE PaperAdmission ----------------------------
(***************************************************************************)
(* Admission of a paper command over the Stage 6 journal                   *)
(* (strategy-runtime-core/src/stage6d_live_core.rs,                        *)
(* admit_stage7a_paper_command): what the process's scan of the journal    *)
(* makes of a delivered command, and the records its outcome is written    *)
(* down as.  The Stage 7A consumer and the Stage 7B durable service both   *)
(* decide with these operators.                                            *)
(*                                                                         *)
(* Data: a command is its request, action, cancel target, payload variant  *)
(* and shape; the host clock is the set of commands whose TTL has passed.  *)
(***************************************************************************)
EXTENDS Stage6Journal, Sequences

CONSTANT Commands   \* the commands producers may send

VARIABLE expired    \* commands past their TTL

Shapes == {"ok", "foreign", "unsupported", "invalid"}

\* A request as the replay of the journal leaves it, and the folded journal.
WorkingRequest ==
    [cmd : Commands, seq : Nat, attempts : Nat, safety : SafetyStates,
     broker : Requests \cup {None}, cancel : BOOLEAN, final : BOOLEAN, conflict : BOOLEAN]
Journal ==
    [reqs : [Requests -> WorkingRequest \cup {None}], last : Requests \cup {None}, ok : BOOLEAN]

ASSUME CommandAssumption ==
    /\ Commands \subseteq [req : Requests, action : {"Place", "Cancel"},
                           target : Requests \cup {None}, ver : Nat, shape : Shapes, ttl : BOOLEAN]
    /\ None \notin Requests \cup Commands \cup WorkingRequest

\* context_for_recovered: a cancel must target an order the journal knows.
ContextOk(c) ==
    /\ c.shape # "foreign"
    /\ c.action = "Cancel" =>
         /\ Known(scan, c.target)
         /\ scan.reqs[c.target].cmd.action = "Place"
         /\ scan.reqs[c.target].broker # None

\* stage7a_command_expired, looked at before the journal is.
Expired(c) == c \in expired

\* A policy rejection: the shape is not supported, or the TTL has passed.
PolicyRejected(c) == c.shape = "unsupported" \/ (c.shape = "ok" /\ Expired(c))

\* The same command is on record under the request.
ExactDuplicate(c) == Known(scan, c.req) /\ scan.reqs[c.req].cmd = c

\* Mutant: an unresolved dispatch counts as one that never started.
ReadyOrUnresolved(c) ==
    /\ ExactDuplicate(c)
    /\ scan.reqs[c.req].safety # "DispatchForbidden"

\* Accepted, never dispatched, and still the last record of the journal.
Resumable(c) ==
    /\ ExactDuplicate(c)
    /\ scan.reqs[c.req].safety = "ReadyForFirstDispatch"
    /\ scan.last = c.req

\* Mutant: only an open lifecycle of the same request counts.
NoOwnUnresolved(c) == ~Known(scan, c.req)

\* stage7a_has_other_unresolved_lifecycle
Fresh(c) ==
    /\ ~Known(scan, c.req)
    /\ \A r \in Requests : ~Open(scan, r)

Replayed(c) ==
    /\ ExactDuplicate(c)
    /\ scan.reqs[c.req].safety = "DispatchForbidden"

\* finalize_stage7a_paper_request and its replayed form: nothing to append when
\* the request is final already.
FinalRecords(r) == IF scan.reqs[r].final THEN <<>> ELSE <<"RequestFinalized">>

\* The next record of a command's request, as the process's own scan numbers
\* it.  The broker's order of a request is named after the request.
RecordOf(c, kind) ==
    [req |-> c.req, kind |-> kind, cmd |-> c, order |-> c.req, ordinal |-> 1,
     seq |-> IF Known(scan, c.req) THEN scan.reqs[c.req].seq + 1 ELSE 1]

\* The records an outcome of the provider is written down as.
OutcomeRecords(action) ==
    IF action = "Place"
    THEN {<<"BrokerOrderObserved", "BrokerTradeObserved">>, <<"BrokerOrderObserved">>,
          <<"BrokerOrderFound">>, <<"NoBrokerOrderFound">>, <<"Inconclusive">>}
    ELSE {<<"CancelOutcomeObserved">>, <<"Inconclusive">>}
==============================================================================
