------------------------- MODULE OrderLifecycleProofs -------------------------
(***************************************************************************)
(* The order flow never submits twice, never sends what it did not first   *)
(* make durable, and never says of an order what is not so, proved for any *)
(* number of requests, any backend and any writes that fail before or      *)
(* after the commit.                                                       *)
(*                                                                         *)
(* SubmissionInv relates the versions of a record to what left the         *)
(* process. TruthInv relates them to the broker: a client id belongs to    *)
(* one request (the lookup maps see to it), so a snapshot that matches a   *)
(* record is about its own order, and what the flows write from it is      *)
(* true.  A version stays true while it lies on disk or in the maps,       *)
(* because the broker only moves an order towards its end.                 *)
(***************************************************************************)
EXTENDS OrderLifecycle, OrderPathStoreProofs

------------------------------------------------------------------------------
(* The transition table *)

\* The table leads to a state or refuses.
LEMMA TableType ==
    ASSUME NEW s \in States, NEW e \in Events
    PROVE  NextOrderPathState(s, e) \in States \cup {None}
  BY DEF NextOrderPathState, States

\* An allowed event leaves a record.
LEMMA TransitionType ==
    ASSUME NEW rec \in Record, NEW e \in Events, NEW now \in Nat, Allowed(rec, e)
    PROVE  Transition(rec, e, now) \in Record
  <1>1. NextOrderPathState(rec.state, e) \in States
    BY TableType DEF Allowed, Record
  <1>2. ErrorAfter(e, rec.err) \in ErrorKinds \cup {None}
    BY DEF ErrorAfter, ErrorKinds, Record
  <1>3. rec.submits + 1 \in Nat /\ rec.cancels + 1 \in Nat
    BY DEF Record
  <1> QED BY <1>1, <1>2, <1>3 DEF Transition, Record

\* Only BeginSubmit leaves IntentRecorded here, and it counts.
LEMMA TransitionAttempt ==
    ASSUME NEW rec \in Record, NEW e \in Events, NEW now \in Nat, Allowed(rec, e)
    PROVE  LET new == Transition(rec, e, now)
           IN  /\ new.submits = IF e = "BeginSubmit" THEN rec.submits + 1 ELSE rec.submits
               /\ new.cancels = IF e = "RequestCancel" THEN rec.cancels + 1 ELSE rec.cancels
               /\ new.state = NextOrderPathState(rec.state, e)
               /\ new.broker = rec.broker
               /\ new.client = rec.client
  BY DEF Transition, Record

------------------------------------------------------------------------------
(* The inductive invariant *)

\* The states a record can be in once its cancel was requested.
CancelStates == {"CancelRequested", "CancelSubmitted", "CancelTimeoutUnknownPending",
                 "CancelRecoveredTerminal", "Terminal", "ManualInterventionRequired"}

Attempted(v) == v # None /\ v.state # "IntentRecorded"

CancelAttempted(v) == v # None /\ v.cancels >= 1

\* The attempt counters agree with the state: a record past IntentRecorded
\* counts a submit, and a counted cancel is never forgotten by the state.
VersionOK(v) ==
    v # None => /\ v.state # "IntentRecorded" => v.submits >= 1
                /\ v.cancels >= 1 => v.state \in CancelStates

VersionsOK == \A r \in Requests : VersionOK(mem[r]) /\ VersionOK(disk[r])

\* What left the process is known on disk and, in a running process, in the maps.
SentOK ==
    \A r \in Requests :
        /\ sends[r] \in {0, 1} /\ cancelSends[r] \in {0, 1}
        /\ sends[r] = 1 => Attempted(disk[r]) /\ (up => Attempted(mem[r]))
        /\ cancelSends[r] = 1 => CancelAttempted(disk[r]) /\ (up => CancelAttempted(mem[r]))

\* A flow holds the record the maps hold, made durable before it goes on, and
\* what it is about to send was never sent.
FlightOK ==
    flight # None =>
        /\ up /\ pass = None
        /\ flight.rec = mem[flight.req]
        /\ flight.op = "place" =>
              /\ flight.rec.state = "SubmitInFlight"
              /\ Attempted(disk[flight.req])
              /\ ~flight.sent => sends[flight.req] = 0
        /\ flight.op = "cancel" =>
              /\ flight.rec.state = "CancelRequested"
              /\ CancelAttempted(flight.rec)
              /\ CancelAttempted(disk[flight.req])
              /\ ~flight.sent => cancelSends[flight.req] = 0

\* What a running pass still has to decide is scheduled.
PassOK ==
    pass # None =>
        /\ up
        /\ \A r \in pass.todo : mem[r] # None /\ mem[r].state \in ScheduledStates

SubmissionInv == TypeOK /\ VersionsOK /\ SentOK /\ FlightOK /\ PassOK

------------------------------------------------------------------------------
(* Writes *)

\* store.update_record from the order flow touches one record, in the maps and
\* on disk, and a success leaves it in both.
LEMMA TryUpdateEffect ==
    ASSUME StoreTypeOK, NEW r \in Requests, NEW rec \in Record,
           NEW w \in WriteResults, TryUpdate(r, rec, w)
    PROVE  /\ StoreTypeOK'
           /\ up' = up
           /\ \A q \in Requests : /\ mem'[q] = mem[q] \/ (q = r /\ mem'[q] = rec)
                                  /\ \/ disk'[q] = disk[q]
                                     \/ disk'[q] = mem'[q]
                                     \/ q = r /\ disk'[q] = rec
           /\ w = "ok" => mem[r] # None /\ mem'[r] = rec /\ disk'[r] = rec
  <1> USE DEF WriteResults
  <1>1. CASE UpdateRecord(r, rec, w)
    <2>1. StoreTypeOK'
      BY <1>1, UpdateType
    <2>2. up' = up
      BY <1>1 DEF UpdateRecord
    <2>3. \A q \in Requests : /\ mem'[q] = mem[q] \/ (q = r /\ mem'[q] = rec)
                              /\ \/ disk'[q] = disk[q]
                                 \/ disk'[q] = mem'[q]
                                 \/ q = r /\ disk'[q] = rec
      BY <1>1, UpdateEffect DEF InnerUpdate, innerVars, Commit, Persist, StoreTypeOK
    <2>4. w = "ok" => mem[r] # None /\ mem'[r] = rec /\ disk'[r] = rec
      BY <1>1 DEF UpdateRecord, UpdateOk, Write, InnerUpdate, Commit, Persist, StoreTypeOK
    <2> QED BY <2>1, <2>2, <2>3, <2>4
  <1>2. CASE w = "fail" /\ UNCHANGED storeVars
    BY <1>2, SessionType DEF storeVars
  <1> QED BY <1>1, <1>2 DEF TryUpdate

\* A new version of an existing record that may be written: it is past its
\* intent and forgets no cancel.
Successor(old, new) ==
    /\ new \in Record
    /\ VersionOK(new)
    /\ Attempted(new)
    /\ CancelAttempted(old) => CancelAttempted(new)

\* Writing a successor keeps what is known of everything sent.
LEMMA WriteKeeps ==
    ASSUME TypeOK, VersionsOK, SentOK,
           NEW r \in Requests, NEW rec, NEW w \in WriteResults,
           Successor(mem[r], rec), TryUpdate(r, rec, w),
           up, UNCHANGED <<sends, cancelSends>>
    PROVE  StoreTypeOK' /\ VersionsOK' /\ SentOK'
  <1>1. StoreTypeOK /\ rec \in Record
    BY DEF TypeOK, Successor
  <1>2. /\ StoreTypeOK' /\ up'
        /\ \A q \in Requests : /\ mem'[q] = mem[q] \/ (q = r /\ mem'[q] = rec)
                               /\ \/ disk'[q] = disk[q]
                                  \/ disk'[q] = mem'[q]
                                  \/ q = r /\ disk'[q] = rec
    BY <1>1, TryUpdateEffect
  <1>3. VersionsOK'
    BY <1>2 DEF VersionsOK, Successor
  <1>4. SentOK'
    BY <1>2 DEF SentOK, Successor
  <1> QED BY <1>2, <1>3, <1>4

------------------------------------------------------------------------------
(* The new versions the flows write are successors *)

\* The table never leads back to IntentRecorded nor out of the cancel states.
LEMMA TableForward ==
    ASSUME NEW st \in States, NEW e \in Events, NextOrderPathState(st, e) # None
    PROVE  /\ NextOrderPathState(st, e) # "IntentRecorded"
           /\ st \in CancelStates => NextOrderPathState(st, e) \in CancelStates
  BY DEF NextOrderPathState, CancelStates, States, Events

LEMMA TransitionSuccessor ==
    ASSUME NEW rec \in Record, VersionOK(rec), Attempted(rec),
           NEW e \in Events \ {"RequestCancel"}, NEW now \in Nat, Allowed(rec, e)
    PROVE  Successor(rec, Transition(rec, e, now))
  <1> DEFINE new == Transition(rec, e, now)
  <1>1. new \in Record
    BY TransitionType
  <1>2. /\ new.submits >= rec.submits /\ new.cancels = rec.cancels
        /\ new.state = NextOrderPathState(rec.state, e)
    <2>1. rec.submits \in Nat /\ rec.cancels \in Nat
      BY DEF Record
    <2> QED BY <2>1, TransitionAttempt
  <1>3. new.state # "IntentRecorded" /\ (rec.state \in CancelStates => new.state \in CancelStates)
    BY <1>2, TableForward DEF Allowed, Record
  <1>4. new # None /\ rec # None
    BY <1>1, RecordIsNotNone
  <1>5. rec.submits >= 1 /\ rec.submits \in Nat /\ new.submits \in Nat
    BY <1>1, <1>4 DEF VersionOK, Attempted, Record
  <1> HIDE DEF new
  <1>6. VersionOK(new)
    BY <1>2, <1>3, <1>4, <1>5 DEF VersionOK
  <1> QED BY <1>1, <1>2, <1>3, <1>4, <1>6 DEF Successor, Attempted, CancelAttempted, new

\* Overwriting the error kind or the time is no step back.
LEMMA TimeSuccessor ==
    ASSUME NEW old, NEW rec \in Record, Successor(old, rec), NEW ts \in Nat
    PROVE  Successor(old, [rec EXCEPT !.ts = ts])
  BY RecordIsNotNone DEF Successor, VersionOK, Attempted, CancelAttempted, Record

LEMMA ErrorSuccessor ==
    ASSUME NEW old, NEW rec \in Record, Successor(old, rec),
           NEW err \in ErrorKinds \cup {None}
    PROVE  Successor(old, [rec EXCEPT !.err = err])
  BY RecordIsNotNone DEF Successor, VersionOK, Attempted, CancelAttempted, Record

LEMMA SelfSuccessor ==
    ASSUME NEW rec \in Record, VersionOK(rec), Attempted(rec)
    PROVE  Successor(rec, rec)
  BY DEF Successor

\* A record that gets a broker id is as good as before.
LEMMA WithBroker ==
    ASSUME NEW rec \in Record, NEW b \in BrokerIds \cup {None}
    PROVE  LET new == [rec EXCEPT !.broker = b]
           IN  /\ new \in Record
               /\ new.state = rec.state
               /\ VersionOK(rec) => VersionOK(new)
               /\ Attempted(rec) => Attempted(new)
               /\ CancelAttempted(rec) <=> CancelAttempted(new)
               /\ \A v : Successor(new, v) => Successor(rec, v)
  <1> DEFINE new == [rec EXCEPT !.broker = b]
  <1>1. /\ new \in Record /\ new.state = rec.state /\ new.submits = rec.submits
        /\ new.cancels = rec.cancels /\ new # None /\ rec # None
    BY RecordIsNotNone DEF Record
  <1> HIDE DEF new
  <1>2. /\ new \in Record
        /\ new.state = rec.state
        /\ VersionOK(rec) => VersionOK(new)
        /\ Attempted(rec) => Attempted(new)
        /\ CancelAttempted(rec) <=> CancelAttempted(new)
        /\ \A v : Successor(new, v) => Successor(rec, v)
    BY <1>1 DEF VersionOK, Attempted, CancelAttempted, Successor
  <1> QED BY <1>2 DEF new

\* What BeginSubmit and RequestCancel make of a record.
LEMMA BeginSuccessor ==
    ASSUME NEW rec \in Record, VersionOK(rec), NEW now \in Nat,
           Allowed(rec, "BeginSubmit")
    PROVE  /\ rec.state = "IntentRecorded"
           /\ Successor(rec, Transition(rec, "BeginSubmit", now))
           /\ Transition(rec, "BeginSubmit", now).state = "SubmitInFlight"
  <1> DEFINE new == Transition(rec, "BeginSubmit", now)
  <1>1. "BeginSubmit" \in Events /\ rec # None
    BY RecordIsNotNone DEF Events
  <1>2. rec.state = "IntentRecorded" /\ NextOrderPathState(rec.state, "BeginSubmit") = "SubmitInFlight"
    BY DEF Allowed, NextOrderPathState
  <1>3. new \in Record /\ new # None
    BY <1>1, TransitionType, RecordIsNotNone
  <1>4. new.submits = rec.submits + 1 /\ new.cancels = rec.cancels /\ new.state = "SubmitInFlight"
    BY <1>1, <1>2, TransitionAttempt
  <1>5. rec.submits \in Nat /\ ~(rec.cancels >= 1)
    BY <1>1, <1>2 DEF VersionOK, CancelStates, Record
  <1> HIDE DEF new
  <1>6. Successor(rec, new)
    BY <1>3, <1>4, <1>5 DEF Successor, VersionOK, Attempted, CancelAttempted
  <1> QED BY <1>2, <1>4, <1>6 DEF new

LEMMA RequestCancelSuccessor ==
    ASSUME NEW rec \in Record, VersionOK(rec), NEW now \in Nat,
           Allowed(rec, "RequestCancel")
    PROVE  /\ ~CancelAttempted(rec)
           /\ Successor(rec, Transition(rec, "RequestCancel", now))
           /\ Transition(rec, "RequestCancel", now).state = "CancelRequested"
           /\ CancelAttempted(Transition(rec, "RequestCancel", now))
  <1> DEFINE new == Transition(rec, "RequestCancel", now)
  <1>1. "RequestCancel" \in Events /\ rec # None
    BY RecordIsNotNone DEF Events
  <1>2. /\ rec.state \in {"Submitted", "RecoveredByClientOrderId"}
        /\ NextOrderPathState(rec.state, "RequestCancel") = "CancelRequested"
    BY DEF Allowed, NextOrderPathState
  <1>3. new \in Record /\ new # None
    BY <1>1, TransitionType, RecordIsNotNone
  <1>4. new.submits = rec.submits /\ new.cancels = rec.cancels + 1 /\ new.state = "CancelRequested"
    BY <1>1, <1>2, TransitionAttempt
  <1>5. rec.submits >= 1 /\ ~(rec.cancels >= 1) /\ rec.cancels \in Nat
    BY <1>1, <1>2 DEF VersionOK, CancelStates, Record
  <1> HIDE DEF new
  <1>6. Successor(rec, new) /\ CancelAttempted(new) /\ ~CancelAttempted(rec)
    BY <1>3, <1>4, <1>5 DEF Successor, VersionOK, Attempted, CancelAttempted, CancelStates
  <1> QED BY <1>4, <1>6 DEF new

------------------------------------------------------------------------------
(* Reconciliation writes successors *)

CancelActions == {"RecoverCancelTerminal", "KeepPending", "ManualInterventionRequired"}

Actions == CancelActions \cup
           {"RecoverByClientOrderId", "RecoverByClientOrderIdAndTerminal",
            "MarkSubmitted", "MarkTerminal"}

\* A cancel is only kept, recovered as terminal or given to the operator.
LEMMA DecideActions ==
    ASSUME NEW r, NEW rec, NEW t, NEW checked, NEW age, rec.state \in ScheduledStates
    PROVE  /\ Decide(r, rec, t, checked, age) \in Actions
           /\ rec.state \in CancelStates => Decide(r, rec, t, checked, age) \in CancelActions
  <1>1. rec.state \in {"SubmittedPendingBrokerOrderId", "TimeoutUnknownPending"}
           => PlaceOutcome(rec, t) \in Actions
    BY DEF PlaceOutcome, Actions, CancelActions
  <1>2. CancelOutcome(rec, t) \in CancelActions
    BY DEF CancelOutcome, CancelActions
  <1> QED BY <1>1, <1>2 DEF Decide, OutcomeAction, ScheduledStates, CancelStates, Actions, CancelActions

LEMMA ReconciledSuccessor ==
    ASSUME NEW rec \in Record, VersionOK(rec), rec.state \in ScheduledStates,
           NEW action \in Actions,
           rec.state \in CancelStates => action \in CancelActions,
           Persistable(rec, action),
           NEW id \in BrokerIds \cup {None}, NEW checked \in Nat
    PROVE  Successor(rec, Reconciled(rec, action, id, checked))
  <1>1. rec # None /\ Attempted(rec)
    BY RecordIsNotNone DEF Attempted, ScheduledStates
  <1>2. CASE action = "KeepPending"
    <2>1. Reconciled(rec, action, id, checked) = [rec EXCEPT !.ts = checked]
      BY <1>2 DEF Reconciled
    <2> QED BY <1>1, <2>1, SelfSuccessor, TimeSuccessor
  <1>3. CASE action = "MarkSubmitted"
    <2>1. Reconciled(rec, action, id, checked) = [rec EXCEPT !.state = "Submitted", !.ts = checked]
      BY <1>3 DEF Reconciled
    <2>2. ~(rec.cancels >= 1) /\ rec.submits >= 1
      BY <1>1, <1>3 DEF VersionOK, CancelActions, Attempted
    <2> DEFINE new == [rec EXCEPT !.state = "Submitted", !.ts = checked]
    <2>3. /\ new \in Record /\ new.state = "Submitted"
          /\ new.cancels = rec.cancels /\ new.submits = rec.submits
      BY DEF Record, States
    <2> HIDE DEF new
    <2>4. Successor(rec, new)
      BY <2>2, <2>3, RecordIsNotNone DEF Successor, VersionOK, Attempted, CancelAttempted
    <2> QED BY <2>1, <2>4 DEF new
  <1>4. ASSUME NEW e \in {"MarkTerminal", "RecoverCancelTerminal", "RequireManualIntervention"},
               Allowed(rec, e), Reconciled(rec, action, id, checked) = Transition(rec, e, checked)
        PROVE  Successor(rec, Reconciled(rec, action, id, checked))
    BY <1>1, <1>4, TransitionSuccessor DEF Events
  <1>5. CASE action \in {"MarkTerminal", "RecoverCancelTerminal", "ManualInterventionRequired"}
    <2>1. CASE action = "MarkTerminal"
      BY <1>4, <2>1 DEF Persistable, Reconciled
    <2>2. CASE action = "RecoverCancelTerminal"
      BY <1>4, <2>2 DEF Persistable, Reconciled
    <2>3. CASE action = "ManualInterventionRequired"
      BY <1>4, <2>3 DEF Persistable, Reconciled
    <2> QED BY <1>5, <2>1, <2>2, <2>3
  <1>6. CASE action \in {"RecoverByClientOrderId", "RecoverByClientOrderIdAndTerminal"}
    <2> DEFINE with == WithRecoveredId(rec, id)
               mid  == Transition(with, "RecoverByClientOrderId", checked)
    <2>1. /\ with \in Record /\ VersionOK(with) /\ Attempted(with)
          /\ with.state = rec.state
          /\ \A v : Successor(with, v) => Successor(rec, v)
      BY <1>1, WithBroker DEF WithRecoveredId
    <2>2. Allowed(with, "RecoverByClientOrderId")
      BY <1>6, <2>1 DEF Persistable, Allowed
    <2>3. "RecoverByClientOrderId" \in Events /\ "MarkTerminal" \in Events
      BY DEF Events
    <2> HIDE DEF with
    <2>4. Successor(with, mid) /\ mid.state = "RecoveredByClientOrderId"
      BY <2>1, <2>2, <2>3, TransitionSuccessor, TransitionAttempt DEF Allowed, NextOrderPathState
    <2> HIDE DEF mid
    <2>5. Allowed(mid, "MarkTerminal")
      <3>1. "Terminal" # None
        BY NoneAssumption DEF States
      <3>2. NextOrderPathState(mid.state, "MarkTerminal") = "Terminal"
        BY <2>4 DEF NextOrderPathState
      <3> QED BY <3>1, <3>2 DEF Allowed
    <2>6. Successor(mid, Transition(mid, "MarkTerminal", checked))
      BY <2>3, <2>4, <2>5, TransitionSuccessor DEF Successor
    <2>7. Successor(with, Transition(mid, "MarkTerminal", checked))
      BY <2>4, <2>6 DEF Successor
    <2>8. Reconciled(rec, action, id, checked) \in {mid, Transition(mid, "MarkTerminal", checked)}
      BY <1>6 DEF Reconciled, mid, with
    <2> QED BY <2>1, <2>4, <2>7, <2>8
  <1> QED BY <1>2, <1>3, <1>5, <1>6 DEF Actions, CancelActions

------------------------------------------------------------------------------
(* Every step keeps the invariant *)

\* Recording an intent: the request is new to the maps, so nothing was sent.
LEMMA RecordIntentStep ==
    ASSUME SubmissionInv, NEW r \in Requests, NEW c \in ClientIds,
           NEW w \in WriteResults, RecordIntent(r, c, w)
    PROVE  SubmissionInv'
  <1> DEFINE rec == FromPlaceOrder(c, clock)
  <1>1. StoreTypeOK /\ clock \in Nat /\ Idle /\ InsertIntent(r, rec, w)
    BY DEF SubmissionInv, TypeOK, RecordIntent
  <1>2. /\ rec \in Record /\ rec # None /\ rec.state = "IntentRecorded" /\ rec.cancels = 0
    BY <1>1, RecordIsNotNone DEF FromPlaceOrder, Record, States
  <1> HIDE DEF rec
  <1>3. StoreTypeOK'
    BY <1>1, <1>2, InsertType DEF WriteResults
  <1>4. /\ up /\ up' /\ mem[r] = None
        /\ \A q \in Requests : /\ mem'[q] = mem[q] \/ (q = r /\ mem'[q] = rec)
                               /\ \/ disk'[q] = disk[q]
                                  \/ disk'[q] = mem'[q]
                                  \/ q = r /\ disk'[q] = rec
    BY <1>1, <1>2, InsertEffect
       DEF WriteResults, InsertOk, InnerInsert, innerVars, Commit, Persist, StoreTypeOK
  <1>5. TypeOK'
    BY <1>3 DEF SubmissionInv, TypeOK, RecordIntent, gatewayVars, brokerVars
  <1>6. VersionsOK'
    BY <1>2, <1>4 DEF SubmissionInv, VersionsOK, VersionOK
  <1>7. SentOK'
    <2>1. sends[r] = 0 /\ cancelSends[r] = 0
      BY <1>4 DEF SubmissionInv, SentOK, Attempted, CancelAttempted
    <2>2. sends' = sends /\ cancelSends' = cancelSends
      BY DEF RecordIntent, brokerVars
    <2> QED BY <1>4, <2>1, <2>2 DEF SubmissionInv, SentOK
  <1>8. FlightOK' /\ PassOK'
    BY <1>1 DEF Idle, FlightOK, PassOK, RecordIntent, gatewayVars
  <1> QED BY <1>5, <1>6, <1>7, <1>8 DEF SubmissionInv

\* The write before a request leaves: the flow continues only when both the
\* maps and the disk hold the attempt, and the attempt is the first one.
LEMMA BeginPlaceStep ==
    ASSUME SubmissionInv, NEW r \in Requests, NEW w \in WriteResults, BeginPlace(r, w)
    PROVE  SubmissionInv'
  <1> DEFINE rec == Transition(mem[r], "BeginSubmit", clock)
  <1>1. /\ StoreTypeOK /\ clock \in Nat /\ Idle /\ TryUpdate(r, rec, w)
        /\ mem[r] \in Record /\ VersionOK(mem[r]) /\ Allowed(mem[r], "BeginSubmit")
        /\ UNCHANGED <<sends, cancelSends>>
    BY DEF SubmissionInv, TypeOK, StoreTypeOK, VersionsOK, BeginPlace, brokerVars
  <1>2. /\ mem[r].state = "IntentRecorded" /\ Successor(mem[r], rec)
        /\ rec.state = "SubmitInFlight"
    BY <1>1, BeginSuccessor
  <1>3. flight' = IF w = "ok"
                  THEN [op |-> "place", req |-> r, rec |-> rec, sent |-> FALSE]
                  ELSE None
    BY DEF BeginPlace
  <1> HIDE DEF rec
  <1>4. StoreTypeOK' /\ VersionsOK' /\ SentOK'
    BY <1>1, <1>2, WriteKeeps DEF SubmissionInv, Idle
  <1>5. rec \in Record /\ Attempted(rec)
    BY <1>2 DEF Successor
  <1>6. TypeOK'
    BY <1>3, <1>4, <1>5 DEF SubmissionInv, TypeOK, BeginPlace, brokerVars, Flight
  <1>7. FlightOK'
    <2>1. sends[r] = 0
      BY <1>1, <1>2 DEF SubmissionInv, SentOK, Attempted, Idle
    <2>2. w = "ok" => mem'[r] = rec /\ disk'[r] = rec
      BY <1>1, <1>5, TryUpdateEffect
    <2>3. up' /\ pass' = None /\ sends' = sends
      BY <1>1, <1>5, TryUpdateEffect DEF BeginPlace, Idle
    <2> QED BY <1>2, <1>3, <1>5, <2>1, <2>2, <2>3 DEF FlightOK
  <1>8. PassOK'
    BY <1>1 DEF BeginPlace, Idle, PassOK
  <1> QED BY <1>4, <1>6, <1>7, <1>8 DEF SubmissionInv

LEMMA BeginCancelStep ==
    ASSUME SubmissionInv, NEW r \in Requests, NEW w \in WriteResults, BeginCancel(r, w)
    PROVE  SubmissionInv'
  <1> DEFINE rec == Transition(mem[r], "RequestCancel", clock)
  <1>1. /\ StoreTypeOK /\ clock \in Nat /\ Idle /\ TryUpdate(r, rec, w)
        /\ mem[r] \in Record /\ VersionOK(mem[r]) /\ Allowed(mem[r], "RequestCancel")
        /\ UNCHANGED <<sends, cancelSends>>
    BY DEF SubmissionInv, TypeOK, StoreTypeOK, VersionsOK, BeginCancel, brokerVars
  <1>2. /\ ~CancelAttempted(mem[r]) /\ Successor(mem[r], rec)
        /\ rec.state = "CancelRequested" /\ CancelAttempted(rec)
    BY <1>1, RequestCancelSuccessor
  <1>3. flight' = IF w = "ok"
                  THEN [op |-> "cancel", req |-> r, rec |-> rec, sent |-> FALSE]
                  ELSE None
    BY DEF BeginCancel
  <1> HIDE DEF rec
  <1>4. StoreTypeOK' /\ VersionsOK' /\ SentOK'
    BY <1>1, <1>2, WriteKeeps DEF SubmissionInv, Idle
  <1>5. rec \in Record
    BY <1>2 DEF Successor
  <1>6. TypeOK'
    BY <1>3, <1>4, <1>5 DEF SubmissionInv, TypeOK, BeginCancel, brokerVars, Flight
  <1>7. FlightOK'
    <2>1. cancelSends[r] = 0
      BY <1>1, <1>2 DEF SubmissionInv, SentOK, Idle
    <2>2. w = "ok" => mem'[r] = rec /\ disk'[r] = rec
      BY <1>1, <1>5, TryUpdateEffect
    <2>3. up' /\ pass' = None /\ cancelSends' = cancelSends
      BY <1>1, <1>5, TryUpdateEffect DEF BeginCancel, Idle
    <2> QED BY <1>2, <1>3, <1>5, <2>1, <2>2, <2>3 DEF FlightOK
  <1>8. PassOK'
    BY <1>1 DEF BeginCancel, Idle, PassOK
  <1> QED BY <1>4, <1>6, <1>7, <1>8 DEF SubmissionInv

\* The request leaves: the flow's record is on disk and nothing was sent before.
LEMMA SendStep ==
    ASSUME SubmissionInv, Send
    PROVE  SubmissionInv'
  <1>1. /\ flight \in Flight /\ up /\ pass = None
        /\ flight.rec = mem[flight.req] /\ flight.rec # None
    BY RecordIsNotNone DEF SubmissionInv, TypeOK, FlightOK, Send, Flight
  <1>2. /\ flight' = [flight EXCEPT !.sent = TRUE] /\ ~flight.sent
        /\ UNCHANGED <<storeVars, approved, pass, order, bid, clock>>
    BY DEF Send
  <1>3. TypeOK'
    <2>1. flight' \in Flight
      BY <1>1, <1>2 DEF Flight
    <2>2. StoreTypeOK'
      BY <1>2, SessionType DEF SubmissionInv, TypeOK
    <2>3. net' \in SUBSET ({"place", "cancel"} \X Requests)
      BY <1>1 DEF Send, SubmissionInv, TypeOK, Flight
    <2>4. /\ sends' \in [Requests -> Nat] /\ cancelSends' \in [Requests -> Nat]
          /\ cid' \in [Requests -> ClientIds \cup {None}]
      <3>1. flight.req \in Requests /\ flight.rec.client \in ClientIds
        BY <1>1 DEF Flight, Record
      <3> QED BY <3>1 DEF Send, SubmissionInv, TypeOK
    <2> QED BY <1>2, <2>1, <2>2, <2>3, <2>4 DEF SubmissionInv, TypeOK
  <1>4. VersionsOK' /\ PassOK'
    BY <1>1, <1>2 DEF SubmissionInv, VersionsOK, PassOK, storeVars
  <1>5. SentOK'
    <2>1. flight.req \in Requests /\ up' = up /\ disk' = disk /\ mem' = mem
      BY <1>1, <1>2 DEF Flight, storeVars
    <2>2. CASE flight.op = "place"
      <3>1. /\ sends[flight.req] = 0 /\ Attempted(disk[flight.req]) /\ Attempted(mem[flight.req])
        BY <1>1, <1>2, <2>2 DEF SubmissionInv, FlightOK, Send, Attempted
      <3>2. /\ \A q \in Requests : sends'[q] = IF q = flight.req THEN sends[q] + 1 ELSE sends[q]
            /\ cancelSends' = cancelSends
        BY <2>2 DEF Send, SubmissionInv, TypeOK
      <3> QED BY <2>1, <3>1, <3>2 DEF SubmissionInv, SentOK
    <2>3. CASE flight.op = "cancel"
      <3>1. /\ cancelSends[flight.req] = 0 /\ CancelAttempted(disk[flight.req])
            /\ CancelAttempted(mem[flight.req])
        BY <1>1, <1>2, <2>3 DEF SubmissionInv, FlightOK, Send
      <3>2. /\ \A q \in Requests :
                   cancelSends'[q] = IF q = flight.req THEN cancelSends[q] + 1 ELSE cancelSends[q]
            /\ sends' = sends
        BY <2>3 DEF Send, SubmissionInv, TypeOK
      <3> QED BY <2>1, <3>1, <3>2 DEF SubmissionInv, SentOK
    <2> QED BY <2>2, <2>3 DEF Send
  <1>6. FlightOK'
    <2>1. /\ flight'.op = flight.op /\ flight'.req = flight.req /\ flight'.rec = flight.rec
          /\ flight'.sent = TRUE
      BY <1>1, <1>2 DEF Flight
    <2> QED BY <1>1, <1>2, <2>1 DEF SubmissionInv, FlightOK, Send, storeVars
  <1> QED BY <1>3, <1>4, <1>5, <1>6 DEF SubmissionInv

\* An answer of the endpoint sends the record through one event of the table.
LEMMA AnsweredSuccessor ==
    ASSUME TypeOK, NEW rec \in Record, VersionOK(rec), Attempted(rec),
           NEW e \in Events \ {"RequestCancel"}, Allowed(rec, e), NEW a
    PROVE  Successor(rec, Answered(rec, e, a))
  <1> DEFINE new == Transition(rec, e, clock)
  <1>1. Successor(rec, new) /\ new \in Record
    BY TransitionSuccessor DEF TypeOK, Successor
  <1>2. ErrorOverride(a, new.err) \in ErrorKinds \cup {None}
    BY <1>1 DEF ErrorOverride, ErrorKinds, Record
  <1> HIDE DEF new
  <1>3. Successor(rec, [new EXCEPT !.err = ErrorOverride(a, new.err)])
    BY <1>1, <1>2, ErrorSuccessor
  <1> QED BY <1>3 DEF Answered, new

\* A write that ends a flow or is made between flows keeps the invariant when
\* what it writes is a successor.
LEMMA EndOfFlow ==
    ASSUME SubmissionInv, NEW r \in Requests, NEW rec, NEW w \in WriteResults,
           up, pass = None, Successor(mem[r], rec), TryUpdate(r, rec, w),
           flight' = None, UNCHANGED <<approved, pass, brokerVars, clock>>
    PROVE  SubmissionInv'
  <1>1. StoreTypeOK' /\ VersionsOK' /\ SentOK'
    BY WriteKeeps DEF SubmissionInv, brokerVars
  <1>2. TypeOK'
    BY <1>1 DEF SubmissionInv, TypeOK, brokerVars
  <1>3. FlightOK' /\ PassOK'
    BY DEF FlightOK, PassOK
  <1> QED BY <1>1, <1>2, <1>3 DEF SubmissionInv

LEMMA ApplyPlaceStep ==
    ASSUME SubmissionInv, NEW a \in PlaceAnswers, NEW w \in WriteResults, ApplyPlace(a, w)
    PROVE  SubmissionInv'
  <1> DEFINE r == flight.req
             held == IF a = "Accepted" THEN [flight.rec EXCEPT !.broker = bid[flight.req]]
                                       ELSE flight.rec
  <1>1. /\ flight \in Flight /\ up /\ pass = None /\ r \in Requests
        /\ flight.rec = mem[r] /\ mem[r] \in Record
        /\ VersionOK(mem[r]) /\ Attempted(mem[r]) /\ TypeOK
    BY RecordIsNotNone
       DEF SubmissionInv, TypeOK, FlightOK, ApplyPlace, Flight, VersionsOK, Attempted
  <1>2. bid[r] \in BrokerIds \cup {None}
    BY <1>1 DEF TypeOK
  <1>3. /\ held \in Record /\ VersionOK(held) /\ Attempted(held)
        /\ \A v : Successor(held, v) => Successor(mem[r], v)
    BY <1>1, <1>2, WithBroker
  <1>4. PlaceEvent(a) \in Events \ {"RequestCancel"}
    BY DEF PlaceEvent, Events
  <1>5. /\ Allowed(held, PlaceEvent(a))
        /\ TryUpdate(r, Answered(held, PlaceEvent(a), a), w)
        /\ flight' = None /\ UNCHANGED <<approved, pass, brokerVars, clock>>
    BY DEF ApplyPlace
  <1> HIDE DEF held, r
  <1>6. Successor(mem[r], Answered(held, PlaceEvent(a), a))
    BY <1>1, <1>3, <1>4, <1>5, AnsweredSuccessor
  <1> QED BY <1>1, <1>5, <1>6, EndOfFlow

LEMMA ApplyCancelStep ==
    ASSUME SubmissionInv, NEW a \in CancelAnswers, NEW w \in WriteResults, ApplyCancel(a, w)
    PROVE  SubmissionInv'
  <1> DEFINE r == flight.req
  <1>1. /\ flight \in Flight /\ up /\ pass = None /\ r \in Requests
        /\ flight.rec = mem[r] /\ mem[r] \in Record
        /\ VersionOK(mem[r]) /\ Attempted(mem[r]) /\ TypeOK
    BY RecordIsNotNone
       DEF SubmissionInv, TypeOK, FlightOK, ApplyCancel, Flight, VersionsOK, Attempted
  <1>2. CancelEvent(a) \in Events \ {"RequestCancel"}
    BY DEF CancelEvent, Events
  <1>3. /\ Allowed(mem[r], CancelEvent(a))
        /\ TryUpdate(r, Answered(mem[r], CancelEvent(a), a), w)
        /\ flight' = None /\ UNCHANGED <<approved, pass, brokerVars, clock>>
    BY <1>1 DEF ApplyCancel
  <1> HIDE DEF r
  <1>4. Successor(mem[r], Answered(mem[r], CancelEvent(a), a))
    BY <1>1, <1>2, <1>3, AnsweredSuccessor
  <1> QED BY <1>1, <1>3, <1>4, EndOfFlow

\* The ids in the decisions come from the broker.
LEMMA DecisionType ==
    ASSUME TypeOK, NEW r \in Requests, NEW checked, NEW d \in Decisions(r, checked),
           mem[r].state \in ScheduledStates
    PROVE  /\ d.id \in BrokerIds \cup {None}
           /\ d.action \in Actions
           /\ mem[r].state \in CancelStates => d.action \in CancelActions
  <1>1. PICK t \in PossibleTruths(mem[r]) :
           d = [action |-> Decide(r, mem[r], t, checked, MaxPendingAge),
                id     |-> IF Found(t) THEN t.order.id ELSE None]
    BY DEF Decisions
  <1>2. /\ d.action = Decide(r, mem[r], t, checked, MaxPendingAge)
        /\ d.id = IF Found(t) THEN t.order.id ELSE None
    BY <1>1
  <1>3. t.order # None => t.order \in OrderSnapshots
    BY <1>1 DEF PossibleTruths
  <1>4. t.order # None => t.order.id \in BrokerIds \cup {None}
    BY <1>3 DEF OrderSnapshots, TypeOK
  <1> QED BY <1>2, <1>4, DecideActions DEF Found

\* One decision of a pass: the record written is a successor and leaves the
\* other records of the pass as they were scheduled.
LEMMA PassStepStep ==
    ASSUME SubmissionInv, NEW r \in Requests, NEW w \in WriteResults,
           pass # None, r \in pass.todo,
           NEW d \in Decisions(r, pass.ts), PassStep(r, d, w)
    PROVE  SubmissionInv'
  <1>1. /\ TypeOK /\ StoreTypeOK /\ up /\ flight = None /\ pass \in Pass
        /\ mem[r] \in Record /\ VersionOK(mem[r]) /\ mem[r].state \in ScheduledStates
    BY DEF SubmissionInv, TypeOK, StoreTypeOK, PassOK, FlightOK, VersionsOK
  <1>2. UNCHANGED <<flight, approved, brokerVars, clock>>
    BY DEF PassStep
  <1> DEFINE rec == Reconciled(mem[r], d.action, d.id, pass.ts)
  <1>3. CASE /\ Persistable(mem[r], d.action)
             /\ TryUpdate(r, rec, w)
             /\ pass' = IF w = "ok" THEN [pass EXCEPT !.todo = @ \ {r}] ELSE None
    <2>1. Successor(mem[r], rec)
      BY <1>1, <1>3, DecisionType, ReconciledSuccessor DEF Pass
    <2> HIDE DEF rec
    <2>2. StoreTypeOK' /\ VersionsOK' /\ SentOK'
      BY <1>1, <1>2, <1>3, <2>1, WriteKeeps DEF SubmissionInv, brokerVars
    <2>3. pass' \in Pass \cup {None}
      BY <1>1, <1>3 DEF Pass
    <2>4. TypeOK' /\ FlightOK'
      BY <1>1, <1>2, <2>2, <2>3 DEF TypeOK, FlightOK, brokerVars
    <2>5. PassOK'
      <3>1. up' /\ \A q \in Requests : mem'[q] = mem[q] \/ q = r
        BY <1>1, <1>3, <2>1, TryUpdateEffect DEF Successor
      <3>2. pass' # None => pass'.todo = pass.todo \ {r}
        BY <1>1, <1>3 DEF Pass
      <3>3. pass.todo \subseteq Requests
        BY <1>1 DEF Pass
      <3> QED BY <3>1, <3>2, <3>3 DEF SubmissionInv, PassOK
    <2> QED BY <2>2, <2>4, <2>5 DEF SubmissionInv
  <1>4. CASE pass' = None /\ UNCHANGED storeVars
    <2>1. TypeOK'
      BY <1>1, <1>2, <1>4, SessionType DEF TypeOK, brokerVars
    <2> QED BY <1>1, <1>2, <1>4, <2>1
            DEF SubmissionInv, VersionsOK, SentOK, FlightOK, PassOK, storeVars, brokerVars
  <1> QED BY <1>3, <1>4 DEF PassStep

\* A recovery between flows, of a record that was attempted.
LEMMA RecoveryStep ==
    ASSUME SubmissionInv, NEW r \in Requests, NEW rec, NEW w \in WriteResults, Idle,
           Successor(mem[r], rec), TryUpdate(r, rec, w),
           UNCHANGED <<gatewayVars, brokerVars, clock>>
    PROVE  SubmissionInv'
  BY EndOfFlow DEF Idle, gatewayVars

LEMMA RecoverByClientOrderIdStep ==
    ASSUME SubmissionInv, NEW r \in Requests, NEW q \in Requests, NEW w \in WriteResults,
           RecoverByClientOrderId(r, q, w)
    PROVE  SubmissionInv'
  <1> DEFINE with == [mem[r] EXCEPT !.broker = bid[q]]
             rec == Transition(with, "RecoverByClientOrderId", clock)
  <1>1. /\ mem[r] \in Record /\ VersionOK(mem[r]) /\ Attempted(mem[r])
        /\ bid[q] \in BrokerIds \cup {None} /\ clock \in Nat
    BY DEF SubmissionInv, TypeOK, StoreTypeOK, VersionsOK, Attempted, RecoverByClientOrderId
  <1>2. /\ with \in Record /\ VersionOK(with) /\ Attempted(with)
        /\ with.state = mem[r].state
        /\ \A v : Successor(with, v) => Successor(mem[r], v)
    BY <1>1, WithBroker
  <1>3. Allowed(with, "RecoverByClientOrderId")
    <2>1. "RecoveredByClientOrderId" # None
      BY NoneAssumption DEF States
    <2>2. NextOrderPathState(with.state, "RecoverByClientOrderId") = "RecoveredByClientOrderId"
      BY <1>2 DEF NextOrderPathState, RecoverByClientOrderId
    <2> QED BY <2>1, <2>2 DEF Allowed
  <1>4. /\ Idle /\ TryUpdate(r, rec, w) /\ UNCHANGED <<gatewayVars, brokerVars, clock>>
    BY DEF RecoverByClientOrderId
  <1> HIDE DEF with
  <1>5. Successor(mem[r], rec)
    BY <1>1, <1>2, <1>3, TransitionSuccessor DEF Events
  <1> HIDE DEF rec
  <1> QED BY <1>4, <1>5, RecoveryStep

LEMMA CancelFollowUpStep ==
    ASSUME SubmissionInv, NEW r \in Requests, NEW truth \in {"Terminal", "StillWorking", "Unknown"},
           NEW w \in WriteResults, CancelFollowUp(r, truth, w)
    PROVE  SubmissionInv'
  <1> DEFINE old == mem[r]
  <1>1. /\ old \in Record /\ VersionOK(old) /\ Attempted(old) /\ clock \in Nat
        /\ old.state \in {"CancelTimeoutUnknownPending", "ManualInterventionRequired"}
    BY DEF SubmissionInv, TypeOK, StoreTypeOK, VersionsOK, Attempted, CancelFollowUp, FollowUpEligible
  <1>2. /\ Idle /\ TryUpdate(r, FollowedUp(old, truth), w)
        /\ UNCHANGED <<gatewayVars, brokerVars, clock>>
    BY DEF CancelFollowUp
  <1> HIDE DEF old
  <1>3. CASE truth = "Terminal"
    <2>1. "CancelRecoveredTerminal" # None
      BY NoneAssumption DEF States
    <2>2. NextOrderPathState(old.state, "RecoverCancelTerminal") = "CancelRecoveredTerminal"
      BY <1>1 DEF NextOrderPathState
    <2>3. Successor(old, Transition(old, "RecoverCancelTerminal", clock))
      BY <1>1, <2>1, <2>2, TransitionSuccessor DEF Allowed, Events
    <2> QED BY <1>2, <1>3, <2>3, RecoveryStep DEF FollowedUp, old
  <1>4. CASE truth = "StillWorking"
    <2> DEFINE new == [old EXCEPT !.state = "ManualInterventionRequired",
                                  !.err = "ReconciliationRequired", !.ts = clock]
    <2>1. /\ new \in Record /\ new.state = "ManualInterventionRequired"
          /\ new.submits = old.submits /\ new.cancels = old.cancels
      BY <1>1 DEF Record, States, ErrorKinds
    <2> HIDE DEF new
    <2>2. Successor(old, new)
      BY <1>1, <2>1, RecordIsNotNone
         DEF Successor, VersionOK, Attempted, CancelAttempted, CancelStates
    <2> QED BY <1>2, <1>4, <2>2, RecoveryStep DEF FollowedUp, old, new
  <1>5. CASE truth = "Unknown"
    <2> DEFINE new == [old EXCEPT !.err = "ReconciliationRequired", !.ts = clock]
    <2>1. /\ new \in Record /\ new.state = old.state
          /\ new.submits = old.submits /\ new.cancels = old.cancels
      BY <1>1 DEF Record, ErrorKinds
    <2> HIDE DEF new
    <2>2. Successor(old, new)
      BY <1>1, <2>1, RecordIsNotNone DEF Successor, VersionOK, Attempted, CancelAttempted
    <2> QED BY <1>2, <1>5, <2>2, RecoveryStep DEF FollowedUp, old, new
  <1> QED BY <1>3, <1>4, <1>5

LEMMA RecoverAfterRestartStep ==
    ASSUME SubmissionInv, NEW r \in Requests, NEW w \in WriteResults, RecoverAfterRestart(r, w)
    PROVE  SubmissionInv'
  <1>1. /\ mem[r] \in Record /\ VersionOK(mem[r]) /\ Attempted(mem[r]) /\ clock \in Nat
        /\ mem[r].state = "SubmitInFlight"
    BY DEF SubmissionInv, TypeOK, StoreTypeOK, VersionsOK, Attempted, RecoverAfterRestart
  <1>2. Allowed(mem[r], "SubmitTimedOut")
    <2>1. "TimeoutUnknownPending" # None
      BY NoneAssumption DEF States
    <2>2. NextOrderPathState(mem[r].state, "SubmitTimedOut") = "TimeoutUnknownPending"
      BY <1>1 DEF NextOrderPathState
    <2> QED BY <2>1, <2>2 DEF Allowed
  <1>3. Successor(mem[r], Transition(mem[r], "SubmitTimedOut", clock))
    BY <1>1, <1>2, TransitionSuccessor DEF Events
  <1> QED BY <1>3, RecoveryStep DEF RecoverAfterRestart

\* Steps that write nothing: the gateway's own and the broker's.
LEMMA QuietStep ==
    ASSUME SubmissionInv,
           \/ \E r \in Requests : ApproveCancel(r)
           \/ StartPass \/ EndPass
           \/ \E r \in Requests : BrokerAccepts(r) \/ BrokerRejects(r) \/ BrokerCancels(r) \/ BrokerFills(r)
           \/ \E m \in net : Lose(m)
           \/ Tick
           \/ UNCHANGED vars
    PROVE  SubmissionInv'
  <1>1. /\ UNCHANGED storeVars /\ flight' = flight
        /\ sends' = sends /\ cancelSends' = cancelSends
        /\ pass' = pass \/ StartPass \/ EndPass
    BY DEF ApproveCancel, StartPass, EndPass, BrokerAccepts, BrokerRejects, BrokerCancels,
           BrokerFills, Lose, Tick, vars, gatewayVars, brokerVars
  <1>2. StoreTypeOK'
    BY <1>1, SessionType DEF SubmissionInv, TypeOK
  <1>3. pass' \in Pass \cup {None}
    BY <1>1 DEF SubmissionInv, TypeOK, StartPass, EndPass, Pass
  <1>4. /\ approved' \in SUBSET Requests /\ cid' = cid /\ clock' \in Nat
        /\ net' \in SUBSET ({"place", "cancel"} \X Requests)
        /\ order' \in [Requests -> {"none", "working", "done", "rejected"}]
        /\ bid' \in [Requests -> BrokerIds \cup {None}]
    <2>1. CASE \E r \in Requests : ApproveCancel(r)
      BY <2>1 DEF SubmissionInv, TypeOK, ApproveCancel, brokerVars
    <2>2. CASE StartPass \/ EndPass \/ UNCHANGED vars
      BY <2>2 DEF SubmissionInv, TypeOK, StartPass, EndPass, vars, gatewayVars, brokerVars
    <2>3. CASE \E r \in Requests : BrokerAccepts(r)
      BY <2>3 DEF SubmissionInv, TypeOK, BrokerAccepts, gatewayVars
    <2>4. CASE \E r \in Requests : BrokerRejects(r) \/ BrokerCancels(r) \/ BrokerFills(r)
      <3>1. PICK r \in Requests : BrokerRejects(r) \/ BrokerCancels(r) \/ BrokerFills(r)
        BY <2>4
      <3>2. /\ approved' = approved /\ cid' = cid /\ clock' = clock /\ bid' = bid
            /\ net' \in SUBSET net
            /\ \E s \in {"working", "done", "rejected", order[r]} : order' = [order EXCEPT ![r] = s]
        BY <3>1 DEF BrokerRejects, BrokerCancels, BrokerFills, gatewayVars
      <3> QED BY <3>2 DEF SubmissionInv, TypeOK
    <2>5. CASE \E m \in net : Lose(m)
      BY <2>5 DEF SubmissionInv, TypeOK, Lose, gatewayVars
    <2>6. CASE Tick
      BY <2>6 DEF SubmissionInv, TypeOK, Tick, gatewayVars, brokerVars
    <2> QED BY <2>1, <2>2, <2>3, <2>4, <2>5, <2>6
  <1>5. TypeOK'
    BY <1>1, <1>2, <1>3, <1>4 DEF SubmissionInv, TypeOK
  <1>6. VersionsOK' /\ SentOK'
    BY <1>1 DEF SubmissionInv, VersionsOK, SentOK, storeVars
  <1>7. FlightOK'
    BY <1>1 DEF SubmissionInv, FlightOK, storeVars, StartPass, EndPass, Idle
  <1>8. PassOK'
    BY <1>1 DEF SubmissionInv, PassOK, storeVars, StartPass, EndPass, Idle
  <1> QED BY <1>5, <1>6, <1>7, <1>8 DEF SubmissionInv

\* A restart loses the maps and whatever the process held, never the disk.
LEMMA ProcessStep ==
    ASSUME SubmissionInv, Open \/ Close \/ Crash \/ Unlock
    PROVE  SubmissionInv'
  <1>1. /\ StoreTypeOK' /\ disk' = disk
        /\ UNCHANGED <<brokerVars, clock>>
        /\ approved' \in {approved, {}}
    BY SessionType DEF SubmissionInv, TypeOK, Open, Close, Crash, Unlock, OpenStore,
                       CloseStore, CrashStore, Forget, ClearStaleLock, gatewayVars
  <1>2. \/ up' /\ mem' = disk /\ ~up /\ UNCHANGED <<flight, pass>>
        \/ ~up' /\ mem' = NoRecords /\ flight' = None /\ pass' = None
        \/ ~up' /\ ~up /\ mem' = mem /\ UNCHANGED <<flight, pass>>
    BY DEF Open, Close, Crash, Unlock, OpenStore, CloseStore, CrashStore, Forget,
           ClearStaleLock, Load, Idle, gatewayVars, innerVars
  <1>3. flight' = None /\ pass' = None
    BY <1>2 DEF SubmissionInv, FlightOK, PassOK
  <1>4. TypeOK'
    BY <1>1, <1>3 DEF SubmissionInv, TypeOK, brokerVars
  <1>5. VersionsOK'
    BY <1>1, <1>2 DEF SubmissionInv, VersionsOK, VersionOK, NoRecords
  <1>6. SentOK'
    BY <1>1, <1>2 DEF SubmissionInv, SentOK, brokerVars
  <1> QED BY <1>3, <1>4, <1>5, <1>6 DEF SubmissionInv, FlightOK, PassOK

LEMMA SubmissionStep == SubmissionInv /\ [Next]_vars => SubmissionInv'
  <1> SUFFICES ASSUME SubmissionInv, [Next]_vars PROVE SubmissionInv'
    OBVIOUS
  <1>1. CASE \E r \in Requests, c \in ClientIds, w \in WriteResults : RecordIntent(r, c, w)
    BY <1>1, RecordIntentStep
  <1>2. CASE \E r \in Requests, w \in WriteResults : BeginPlace(r, w) \/ BeginCancel(r, w)
    BY <1>2, BeginPlaceStep, BeginCancelStep
  <1>3. CASE Send
    BY <1>3, SendStep
  <1>4. CASE \E a \in PlaceAnswers, w \in WriteResults : ApplyPlace(a, w)
    BY <1>4, ApplyPlaceStep
  <1>5. CASE \E a \in CancelAnswers, w \in WriteResults : ApplyCancel(a, w)
    BY <1>5, ApplyCancelStep
  <1>6. CASE \E r \in IF pass = None THEN {} ELSE pass.todo :
               \E d \in Decisions(r, pass.ts), w \in WriteResults : PassStep(r, d, w)
    BY <1>6, PassStepStep DEF SubmissionInv, TypeOK, Pass
  <1>7. CASE \E r, q \in Requests, w \in WriteResults : RecoverByClientOrderId(r, q, w)
    BY <1>7, RecoverByClientOrderIdStep
  <1>8. CASE \E r \in Requests, truth \in {"Terminal", "StillWorking", "Unknown"},
               w \in WriteResults : CancelFollowUp(r, truth, w)
    BY <1>8, CancelFollowUpStep
  <1>9. CASE \E r \in Requests, w \in WriteResults : RecoverAfterRestart(r, w)
    BY <1>9, RecoverAfterRestartStep
  <1>10. CASE \/ \E r \in Requests : ApproveCancel(r)
              \/ StartPass \/ EndPass
              \/ \E r \in Requests : BrokerAccepts(r) \/ BrokerRejects(r) \/ BrokerCancels(r) \/ BrokerFills(r)
              \/ \E m \in net : Lose(m)
              \/ Tick
              \/ UNCHANGED vars
    BY <1>10, QuietStep
  <1>11. CASE Open \/ Close \/ Crash \/ Unlock
    BY <1>11, ProcessStep
  <1> QED BY <1>1, <1>2, <1>3, <1>4, <1>5, <1>6, <1>7, <1>8, <1>9, <1>10, <1>11 DEF Next

LEMMA SubmissionInitially == Init => SubmissionInv
  <1> SUFFICES ASSUME Init PROVE SubmissionInv
    OBVIOUS
  <1>1. TypeOK
    BY InitType DEF Init, TypeOK
  <1>2. VersionsOK /\ SentOK /\ FlightOK /\ PassOK
    BY DEF Init, StoreInit, NoRecords, VersionsOK, VersionOK, SentOK, FlightOK, PassOK
  <1> QED BY <1>1, <1>2 DEF SubmissionInv

THEOREM SubmissionInvariant == Spec => []SubmissionInv
  BY SubmissionInitially, SubmissionStep, PTL DEF Spec

\* The order flow keeps the types of all its state.
THEOREM LifecycleTypeCorrect == Spec => []TypeOK
  BY SubmissionInvariant, PTL DEF SubmissionInv

\* No place and no cancel request of a strategy request leaves the process
\* twice: for any number of requests, with either backend, and wherever writes
\* fail or the process crashes.
THEOREM NeverSubmittedTwice == Spec => []AtMostOneSubmission
  <1>1. SubmissionInv => AtMostOneSubmission
    <2> SUFFICES ASSUME SubmissionInv, NEW r \in Requests
                 PROVE  sends[r] <= 1 /\ cancelSends[r] <= 1
      BY DEF AtMostOneSubmission
    <2>1. sends[r] \in {0, 1} /\ cancelSends[r] \in {0, 1}
      BY DEF SubmissionInv, SentOK
    <2> QED BY <2>1
  <1> QED BY <1>1, SubmissionInvariant, PTL

\* Whatever left the process is counted by the durable record of its request.
THEOREM SubmissionIsDurable == Spec => []SentIsDurable
  <1>1. SubmissionInv => SentIsDurable
    <2> SUFFICES ASSUME SubmissionInv, NEW r \in Requests
                 PROVE  /\ sends[r] > 0 => disk[r] # None /\ disk[r].submits >= sends[r]
                        /\ cancelSends[r] > 0 => disk[r] # None /\ disk[r].cancels >= cancelSends[r]
      BY DEF SentIsDurable
    <2>1. sends[r] \in {0, 1} /\ cancelSends[r] \in {0, 1}
      BY DEF SubmissionInv, SentOK
    <2>2. sends[r] = 1 => disk[r] # None /\ disk[r].submits >= 1
      BY DEF SubmissionInv, SentOK, VersionsOK, VersionOK, Attempted, CancelAttempted
    <2>3. cancelSends[r] = 1 => disk[r] # None /\ disk[r].cancels >= 1
      BY DEF SubmissionInv, SentOK, VersionsOK, VersionOK, Attempted, CancelAttempted
    <2> QED BY <2>1, <2>2, <2>3
  <1> QED BY <1>1, SubmissionInvariant, PTL

------------------------------------------------------------------------------
(* Records and the truth about their orders: the inductive invariant *)

\* What the broker knows was sent to it, each order has an id of its own, and
\* a place on the way has no order yet.
BrokerOK ==
    /\ \A r \in Requests :
          /\ <<"place", r>> \in net => sends[r] = 1 /\ order[r] = "none"
          /\ order[r] # "none" => sends[r] = 1
          /\ bid[r] # None => order[r] # "none"
          /\ sends[r] = 1 => cid[r] # None
    /\ \A q, r \in Requests : bid[q] # None /\ bid[q] = bid[r] => q = r

\* The client id a place was sent with stays the client id of its record.
ClientOK ==
    /\ \A r \in Requests :
          cid[r] # None => /\ sends[r] = 1
                           /\ mem[r] # None => mem[r].client = cid[r]
                           /\ disk[r] # None => disk[r].client = cid[r]
    /\ flight # None /\ flight.op = "place" => disk[flight.req].client = flight.rec.client

OpenCancelStates == {"CancelRequested", "CancelSubmitted", "CancelTimeoutUnknownPending",
                     "CancelRecoveredTerminal"}

\* What a version of a record says of its order is so, and a cancel is known by
\* its state, its count and the broker id it was sent with.
VersionTrue(r, v) ==
    v # None =>
        /\ v.broker # None => v.broker = bid[r]
        /\ v.state \in {"Terminal", "CancelRecoveredTerminal"} => order[r] \in {"done", "rejected"}
        /\ v.state = "BrokerRejected" => order[r] = "rejected"
        /\ v.state \in OpenCancelStates => v.cancels >= 1
        /\ v.cancels >= 1 => v.broker # None

VersionsTrue == \A r \in Requests : VersionTrue(r, mem[r]) /\ VersionTrue(r, disk[r])

\* An approval may be stale, but the broker id it was given for is still there.
ApprovedOK == \A r \in approved : up /\ mem[r] # None /\ mem[r].broker # None

TruthInv == BrokerOK /\ ClientOK /\ VersionsTrue /\ ApprovedOK /\ MapsAgree

------------------------------------------------------------------------------
(* The new versions the flows write are true *)

\* Only the fields VersionTrue reads matter.
LEMMA SameTruth ==
    ASSUME NEW r, NEW old \in Record, VersionTrue(r, old),
           NEW new, new.state = old.state, new.broker = old.broker, new.cancels = old.cancels
    PROVE  VersionTrue(r, new)
  BY RecordIsNotNone DEF VersionTrue

\* The table declares an order dead, rejected or cancelled by one event each.
LEMMA TableTruth ==
    ASSUME NEW st \in States, NEW e \in Events \ {"RequestCancel"},
           NextOrderPathState(st, e) # None
    PROVE  LET new == NextOrderPathState(st, e)
           IN  /\ new \in {"Terminal", "CancelRecoveredTerminal"} =>
                     e \in {"MarkTerminal", "RecoverCancelTerminal"}
               /\ new = "BrokerRejected" => e = "BrokerReject"
               /\ new \in OpenCancelStates => st \in OpenCancelStates \/ e = "RecoverCancelTerminal"
  BY DEF NextOrderPathState, OpenCancelStates, States, Events

LEMMA TransitionTrue ==
    ASSUME NEW r, NEW rec \in Record, VersionTrue(r, rec),
           NEW e \in Events \ {"RequestCancel"}, NEW now \in Nat, Allowed(rec, e),
           e \in {"MarkTerminal", "RecoverCancelTerminal"} => order[r] \in {"done", "rejected"},
           e = "RecoverCancelTerminal" => rec.cancels >= 1,
           e = "BrokerReject" => order[r] = "rejected"
    PROVE  VersionTrue(r, Transition(rec, e, now))
  <1> DEFINE new == Transition(rec, e, now)
  <1>1. /\ new.state = NextOrderPathState(rec.state, e)
        /\ new.broker = rec.broker /\ new.cancels = rec.cancels
    BY TransitionAttempt
  <1>2. rec.state \in States /\ NextOrderPathState(rec.state, e) # None
    BY DEF Record, Allowed
  <1>3. /\ new.state \in {"Terminal", "CancelRecoveredTerminal"} => order[r] \in {"done", "rejected"}
        /\ new.state = "BrokerRejected" => order[r] = "rejected"
        /\ new.state \in OpenCancelStates => rec.state \in OpenCancelStates \/ rec.cancels >= 1
    BY <1>1, <1>2, TableTruth
  <1> HIDE DEF new
  <1>4. VersionTrue(r, new)
    BY <1>1, <1>3, RecordIsNotNone DEF VersionTrue
  <1> QED BY <1>4 DEF new

\* A record may take the broker's own id of its order.
LEMMA BrokerTrue ==
    ASSUME NEW r, NEW rec \in Record, VersionTrue(r, rec)
    PROVE  /\ VersionTrue(r, [rec EXCEPT !.broker = bid[r]])
           /\ \A id \in {bid[r], None} : VersionTrue(r, WithRecoveredId(rec, id))
  <1>1. ASSUME NEW b, b = bid[r] \/ (b = None /\ rec.broker = None)
        PROVE  VersionTrue(r, [rec EXCEPT !.broker = b])
    <2> DEFINE new == [rec EXCEPT !.broker = b]
    <2>1. new.state = rec.state /\ new.cancels = rec.cancels /\ new.broker = b
      BY DEF Record
    <2> HIDE DEF new
    <2>2. VersionTrue(r, new)
      BY <1>1, <2>1, RecordIsNotNone DEF VersionTrue
    <2> QED BY <2>2 DEF new
  <1> QED BY <1>1 DEF WithRecoveredId

LEMMA AnsweredTrue ==
    ASSUME TypeOK, NEW r, NEW rec \in Record, VersionTrue(r, rec),
           NEW e \in Events \ {"RequestCancel", "MarkTerminal", "RecoverCancelTerminal"},
           Allowed(rec, e), e = "BrokerReject" => order[r] = "rejected", NEW a
    PROVE  VersionTrue(r, Answered(rec, e, a))
  <1> DEFINE new == Transition(rec, e, clock)
  <1>1. VersionTrue(r, new) /\ new \in Record
    BY TransitionTrue, TransitionType DEF TypeOK
  <1> HIDE DEF new
  <1>2. LET ans == [new EXCEPT !.err = ErrorOverride(a, @)]
        IN  ans.state = new.state /\ ans.broker = new.broker /\ ans.cancels = new.cancels
    BY <1>1 DEF Record
  <1>3. VersionTrue(r, [new EXCEPT !.err = ErrorOverride(a, @)])
    BY <1>1, <1>2, SameTruth
  <1> QED BY <1>3 DEF Answered, new

------------------------------------------------------------------------------
(* What the broker lists is about the record it matches *)

\* A request that reached the broker is the only one with its client id.
LEMMA SentClientIsOwn ==
    ASSUME SubmissionInv, TruthInv, up,
           NEW q \in Requests, order[q] # "none", NEW r \in Requests,
           mem[r] # None, mem[r].client = cid[q]
    PROVE  q = r
  <1>1. sends[q] = 1 /\ cid[q] # None /\ cid[q] \in ClientIds
    BY DEF TruthInv, BrokerOK, SubmissionInv, TypeOK
  <1>2. mem[q] # None /\ mem[q].client = cid[q]
    BY <1>1 DEF TruthInv, ClientOK, SubmissionInv, SentOK, Attempted
  <1>3. ClientsAgree
    BY DEF TruthInv, MapsAgree
  <1> QED BY <1>1, <1>2, <1>3 DEF ClientsAgree

LEMMA SnapshotIsOwn ==
    ASSUME SubmissionInv, TruthInv, up, NEW r \in Requests, mem[r] \in Record,
           NEW s \in OrderSnapshots, Matches(mem[r], s)
    PROVE  /\ s.id \in {bid[r], None}
           /\ s.cls = "Terminal" => order[r] \in {"done", "rejected"}
  <1>1. PICK q \in Requests :
           /\ order[q] # "none"
           /\ s.client \in {cid[q], None} /\ s.id \in {bid[q], None}
           /\ s.cls = "Terminal" => order[q] # "working"
    BY DEF OrderSnapshots
  <1>2. mem[r].client \in ClientIds /\ mem[r].client # None /\ mem[r] # None
    BY NoneAssumption DEF Record
  <1>3. q = r
    <2>1. CASE s.client = mem[r].client
      BY <1>1, <1>2, <2>1, SentClientIsOwn
    <2>2. CASE mem[r].broker # None /\ s.id = mem[r].broker
      <3>1. mem[r].broker = bid[r]
        BY <1>2, <2>2 DEF TruthInv, VersionsTrue, VersionTrue
      <3> QED BY <1>1, <2>2, <3>1 DEF TruthInv, BrokerOK
    <2> QED BY <2>1, <2>2 DEF Matches
  <1>4. order[r] \in {"none", "working", "done", "rejected"}
    BY DEF SubmissionInv, TypeOK
  <1> QED BY <1>1, <1>3, <1>4

DeadActions == {"RecoverByClientOrderIdAndTerminal", "MarkTerminal", "RecoverCancelTerminal"}

LEMMA DecisionTrue ==
    ASSUME SubmissionInv, TruthInv, up, NEW r \in Requests, mem[r] \in Record,
           mem[r].state \in ScheduledStates, NEW checked, NEW d \in Decisions(r, checked)
    PROVE  /\ d.id \in {bid[r], None}
           /\ d.action \in DeadActions => order[r] \in {"done", "rejected"}
  <1>1. PICK t \in PossibleTruths(mem[r]) :
           d = [action |-> Decide(r, mem[r], t, checked, MaxPendingAge),
                id     |-> IF Found(t) THEN t.order.id ELSE None]
    BY DEF Decisions
  <1>2. /\ d.action = Decide(r, mem[r], t, checked, MaxPendingAge)
        /\ d.id = IF Found(t) THEN t.order.id ELSE None
    BY <1>1
  <1>3. Found(t) => t.order \in OrderSnapshots /\ Matches(mem[r], t.order)
    BY <1>1 DEF PossibleTruths, Found
  <1>4. d.action \in DeadActions => StateClass(t) = "Terminal"
    <2>1. mem[r].state \in {"SubmittedPendingBrokerOrderId", "TimeoutUnknownPending"} /\
             PlaceOutcome(mem[r], t) \in DeadActions => StateClass(t) = "Terminal"
      BY DEF PlaceOutcome, DeadActions
    <2>2. CancelOutcome(mem[r], t) \in DeadActions => StateClass(t) = "Terminal"
      BY DEF CancelOutcome, DeadActions
    <2> QED BY <1>2, <2>1, <2>2 DEF Decide, OutcomeAction, DeadActions
  <1>5. StateClass(t) = "Terminal" => Found(t) /\ t.order.cls = "Terminal"
    BY DEF StateClass
  <1> QED BY <1>2, <1>3, <1>4, <1>5, SnapshotIsOwn

LEMMA ReconciledTrue ==
    ASSUME NEW r, NEW rec \in Record, VersionOK(rec), VersionTrue(r, rec),
           rec.state \in ScheduledStates, NEW action \in Actions,
           Persistable(rec, action), NEW id \in {bid[r], None}, id \in BrokerIds \cup {None},
           NEW checked \in Nat,
           rec.state \in CancelStates => action \in CancelActions,
           action \in DeadActions => order[r] \in {"done", "rejected"}
    PROVE  VersionTrue(r, Reconciled(rec, action, id, checked))
  <1>1. CASE action = "KeepPending"
    <2>1. LET new == [rec EXCEPT !.ts = checked]
          IN  new.state = rec.state /\ new.broker = rec.broker /\ new.cancels = rec.cancels
      BY DEF Record
    <2> QED BY <1>1, <2>1, SameTruth DEF Reconciled
  <1>2. CASE action = "MarkSubmitted"
    <2> DEFINE new == [rec EXCEPT !.state = "Submitted", !.ts = checked]
    <2>1. new.state = "Submitted" /\ new.broker = rec.broker /\ new.cancels = rec.cancels
      BY DEF Record
    <2> HIDE DEF new
    <2>2. VersionTrue(r, new)
      BY <2>1, RecordIsNotNone DEF VersionTrue, OpenCancelStates
    <2> QED BY <1>2, <2>2 DEF Reconciled, new
  <1>3. CASE action = "MarkTerminal"
    BY <1>3, TransitionTrue DEF Persistable, Reconciled, Events, DeadActions
  <1>4. CASE action = "RecoverCancelTerminal"
    <2>1. rec.cancels >= 1
      <3>1. rec.state = "CancelTimeoutUnknownPending"
        BY <1>4 DEF Persistable, Allowed, NextOrderPathState, ScheduledStates
      <3> QED BY <3>1, RecordIsNotNone DEF VersionTrue, OpenCancelStates
    <2> QED BY <1>4, <2>1, TransitionTrue DEF Persistable, Reconciled, Events, DeadActions
  <1>5. CASE action = "ManualInterventionRequired"
    BY <1>5, TransitionTrue DEF Persistable, Reconciled, Events
  <1>6. CASE action \in {"RecoverByClientOrderId", "RecoverByClientOrderIdAndTerminal"}
    <2> DEFINE with == WithRecoveredId(rec, id)
               mid  == Transition(with, "RecoverByClientOrderId", checked)
    <2>1. with \in Record /\ with.state = rec.state /\ VersionTrue(r, with)
      BY BrokerTrue, WithBroker DEF WithRecoveredId
    <2>2. Allowed(with, "RecoverByClientOrderId")
      BY <1>6, <2>1 DEF Persistable, Allowed
    <2>3. "RecoverByClientOrderId" \in Events /\ "MarkTerminal" \in Events
      BY DEF Events
    <2> HIDE DEF with
    <2>4. mid \in Record /\ VersionTrue(r, mid) /\ mid.state = "RecoveredByClientOrderId"
      BY <2>1, <2>2, <2>3, TransitionType, TransitionTrue, TransitionAttempt
         DEF Allowed, NextOrderPathState
    <2> HIDE DEF mid
    <2>5. Allowed(mid, "MarkTerminal")
      <3>1. "Terminal" # None
        BY NoneAssumption DEF States
      <3>2. NextOrderPathState(mid.state, "MarkTerminal") = "Terminal"
        BY <2>4 DEF NextOrderPathState
      <3> QED BY <3>1, <3>2 DEF Allowed
    <2>6. action = "RecoverByClientOrderIdAndTerminal" =>
             VersionTrue(r, Transition(mid, "MarkTerminal", checked))
      BY <2>3, <2>4, <2>5, TransitionTrue DEF DeadActions
    <2> QED BY <1>6, <2>4, <2>6 DEF Reconciled, mid, with
  <1> QED BY <1>1, <1>2, <1>3, <1>4, <1>5, <1>6 DEF Actions, CancelActions

------------------------------------------------------------------------------
(* Every write of the flows is a true version *)

\* A flow writes one version of one record; a flow that goes on holds it.
Revises ==
    /\ up
    /\ \E r \in Requests, rec \in Record, w \in WriteResults :
          /\ TryUpdate(r, rec, w) /\ VersionTrue(r, rec)
          /\ flight' # None => w = "ok" /\ flight'.req = r /\ flight'.rec = rec
    /\ UNCHANGED <<brokerVars, approved, clock>>

LEMMA BeginPlaceRevises ==
    ASSUME SubmissionInv, TruthInv, NEW r \in Requests, NEW w \in WriteResults, BeginPlace(r, w)
    PROVE  Revises
  <1> DEFINE rec == Transition(mem[r], "BeginSubmit", clock)
  <1>1. /\ clock \in Nat /\ up /\ TryUpdate(r, rec, w)
        /\ mem[r] \in Record /\ Allowed(mem[r], "BeginSubmit")
        /\ UNCHANGED <<brokerVars, approved, clock>>
    BY DEF SubmissionInv, TypeOK, StoreTypeOK, BeginPlace, Idle
  <1>2. VersionTrue(r, mem[r])
    BY DEF TruthInv, VersionsTrue
  <1>3. flight' = IF w = "ok"
                  THEN [op |-> "place", req |-> r, rec |-> rec, sent |-> FALSE]
                  ELSE None
    BY DEF BeginPlace
  <1>4. rec \in Record /\ VersionTrue(r, rec)
    BY <1>1, <1>2, TransitionType, TransitionTrue DEF Events
  <1> HIDE DEF rec
  <1>5. flight' # None => w = "ok" /\ flight'.req = r /\ flight'.rec = rec
    BY <1>3
  <1> QED BY <1>1, <1>4, <1>5 DEF Revises

LEMMA BeginCancelRevises ==
    ASSUME SubmissionInv, TruthInv, NEW r \in Requests, NEW w \in WriteResults, BeginCancel(r, w)
    PROVE  Revises
  <1> DEFINE rec == Transition(mem[r], "RequestCancel", clock)
  <1>1. /\ clock \in Nat /\ up /\ TryUpdate(r, rec, w) /\ r \in approved
        /\ mem[r] \in Record /\ VersionOK(mem[r]) /\ Allowed(mem[r], "RequestCancel")
        /\ UNCHANGED <<brokerVars, approved, clock>>
    BY DEF SubmissionInv, TypeOK, StoreTypeOK, VersionsOK, BeginCancel, Idle
  <1>2. flight' = IF w = "ok"
                  THEN [op |-> "cancel", req |-> r, rec |-> rec, sent |-> FALSE]
                  ELSE None
    BY DEF BeginCancel
  <1>3. /\ rec \in Record /\ rec.state = "CancelRequested" /\ rec.cancels >= 1
        /\ rec.broker = mem[r].broker
    BY <1>1, RequestCancelSuccessor, TransitionType, TransitionAttempt DEF Events, CancelAttempted
  <1>4. mem[r].broker # None /\ mem[r].broker = bid[r]
    BY <1>1 DEF TruthInv, ApprovedOK, VersionsTrue, VersionTrue
  <1> HIDE DEF rec
  <1>5. VersionTrue(r, rec)
    BY <1>3, <1>4 DEF VersionTrue
  <1>6. flight' # None => w = "ok" /\ flight'.req = r /\ flight'.rec = rec
    BY <1>2
  <1> QED BY <1>1, <1>3, <1>5, <1>6 DEF Revises

LEMMA ApplyPlaceRevises ==
    ASSUME SubmissionInv, TruthInv, NEW a \in PlaceAnswers, NEW w \in WriteResults, ApplyPlace(a, w)
    PROVE  Revises
  <1> DEFINE r == flight.req
             held == IF a = "Accepted" THEN [flight.rec EXCEPT !.broker = bid[flight.req]]
                                       ELSE flight.rec
  <1>1. /\ up /\ r \in Requests /\ TypeOK
        /\ flight.rec = mem[r] /\ mem[r] \in Record
        /\ VersionOK(mem[r]) /\ Attempted(mem[r]) /\ VersionTrue(r, mem[r])
    BY RecordIsNotNone
       DEF SubmissionInv, TypeOK, FlightOK, ApplyPlace, Flight, VersionsOK, Attempted,
           TruthInv, VersionsTrue
  <1>2. bid[r] \in BrokerIds \cup {None}
    BY <1>1 DEF TypeOK
  <1>3. held \in Record /\ VersionTrue(r, held) /\ VersionOK(held) /\ Attempted(held)
    BY <1>1, <1>2, WithBroker, BrokerTrue
  <1>4. /\ PlaceEvent(a) \in Events \ {"RequestCancel", "MarkTerminal", "RecoverCancelTerminal"}
        /\ PlaceEvent(a) = "BrokerReject" => a = "Rejected"
    BY DEF PlaceEvent, Events
  <1>5. /\ Allowed(held, PlaceEvent(a))
        /\ TryUpdate(r, Answered(held, PlaceEvent(a), a), w)
        /\ flight' = None /\ UNCHANGED <<approved, brokerVars, clock>>
        /\ a = "Rejected" => order[r] = "rejected"
    BY DEF ApplyPlace, PlaceAnswerPossible
  <1> HIDE DEF held, r
  <1>6. VersionTrue(r, Answered(held, PlaceEvent(a), a))
    BY <1>1, <1>3, <1>4, <1>5, AnsweredTrue
  <1>7. Answered(held, PlaceEvent(a), a) \in Record
    BY <1>1, <1>3, <1>4, <1>5, AnsweredSuccessor DEF Successor
  <1> QED BY <1>1, <1>5, <1>6, <1>7 DEF Revises

LEMMA ApplyCancelRevises ==
    ASSUME SubmissionInv, TruthInv, NEW a \in CancelAnswers, NEW w \in WriteResults, ApplyCancel(a, w)
    PROVE  Revises
  <1> DEFINE r == flight.req
  <1>1. /\ up /\ r \in Requests /\ TypeOK
        /\ flight.rec = mem[r] /\ mem[r] \in Record
        /\ VersionOK(mem[r]) /\ Attempted(mem[r]) /\ VersionTrue(r, mem[r])
    BY RecordIsNotNone
       DEF SubmissionInv, TypeOK, FlightOK, ApplyCancel, Flight, VersionsOK, Attempted,
           TruthInv, VersionsTrue
  <1>2. CancelEvent(a) \in Events \ {"RequestCancel", "MarkTerminal", "RecoverCancelTerminal",
                                     "BrokerReject"}
    BY DEF CancelEvent, Events
  <1>3. /\ Allowed(mem[r], CancelEvent(a))
        /\ TryUpdate(r, Answered(mem[r], CancelEvent(a), a), w)
        /\ flight' = None /\ UNCHANGED <<approved, brokerVars, clock>>
    BY <1>1 DEF ApplyCancel
  <1> HIDE DEF r
  <1>4. VersionTrue(r, Answered(mem[r], CancelEvent(a), a))
    BY <1>1, <1>2, <1>3, AnsweredTrue
  <1>5. Answered(mem[r], CancelEvent(a), a) \in Record
    BY <1>1, <1>2, <1>3, AnsweredSuccessor DEF Successor
  <1> QED BY <1>1, <1>3, <1>4, <1>5 DEF Revises

\* A decision that cannot be persisted ends the pass and leaves the store alone.
LEMMA PassStepRevises ==
    ASSUME SubmissionInv, TruthInv, NEW r \in Requests, NEW w \in WriteResults,
           pass # None, r \in pass.todo,
           NEW d \in Decisions(r, pass.ts), PassStep(r, d, w)
    PROVE  Revises \/ UNCHANGED <<storeVars, flight, approved, brokerVars, clock>>
  <1>1. /\ TypeOK /\ up /\ flight = None /\ pass \in Pass
        /\ mem[r] \in Record /\ VersionOK(mem[r]) /\ mem[r].state \in ScheduledStates
        /\ VersionTrue(r, mem[r])
    BY DEF SubmissionInv, TypeOK, StoreTypeOK, PassOK, FlightOK, VersionsOK, TruthInv, VersionsTrue
  <1>2. UNCHANGED <<flight, approved, brokerVars, clock>>
    BY DEF PassStep
  <1> DEFINE rec == Reconciled(mem[r], d.action, d.id, pass.ts)
  <1>3. CASE Persistable(mem[r], d.action) /\ TryUpdate(r, rec, w)
    <2>1. /\ d.id \in BrokerIds \cup {None} /\ d.action \in Actions /\ pass.ts \in Nat
          /\ mem[r].state \in CancelStates => d.action \in CancelActions
      BY <1>1, DecisionType DEF Pass
    <2>2. /\ d.id \in {bid[r], None}
          /\ d.action \in DeadActions => order[r] \in {"done", "rejected"}
      BY <1>1, DecisionTrue
    <2>3. VersionTrue(r, rec)
      BY <1>1, <1>3, <2>1, <2>2, ReconciledTrue
    <2>4. rec \in Record
      BY <1>1, <1>3, <2>1, ReconciledSuccessor DEF Successor
    <2> QED BY <1>1, <1>2, <1>3, <2>3, <2>4 DEF Revises
  <1> QED BY <1>2, <1>3 DEF PassStep

LEMMA RecoverByClientOrderIdRevises ==
    ASSUME SubmissionInv, TruthInv, NEW r \in Requests, NEW q \in Requests, NEW w \in WriteResults,
           RecoverByClientOrderId(r, q, w)
    PROVE  Revises
  <1> DEFINE with == [mem[r] EXCEPT !.broker = bid[q]]
             rec == Transition(with, "RecoverByClientOrderId", clock)
  <1>1. /\ up /\ flight = None /\ mem[r] \in Record /\ VersionTrue(r, mem[r])
        /\ bid[q] \in BrokerIds \cup {None} /\ clock \in Nat
        /\ bid[q] # None /\ byClient[cid[q]] = r
        /\ TryUpdate(r, rec, w) /\ UNCHANGED <<gatewayVars, brokerVars, clock>>
    BY DEF SubmissionInv, TypeOK, StoreTypeOK, RecoverByClientOrderId, Idle, TruthInv, VersionsTrue
  <1>2. q = r
    <2>1. order[q] # "none" /\ cid[q] \in ClientIds
      BY <1>1 DEF TruthInv, BrokerOK, SubmissionInv, TypeOK
    <2>2. mem[r] # None /\ mem[r].client = cid[q]
      BY <1>1, <2>1 DEF TruthInv, MapsAgree, ClientsAgree
    <2> QED BY <1>1, <2>1, <2>2, SentClientIsOwn
  <1>3. with \in Record /\ with.state = mem[r].state /\ VersionTrue(r, with)
    BY <1>1, <1>2, WithBroker, BrokerTrue
  <1>4. Allowed(with, "RecoverByClientOrderId")
    <2>1. "RecoveredByClientOrderId" # None
      BY NoneAssumption DEF States
    <2>2. NextOrderPathState(with.state, "RecoverByClientOrderId") = "RecoveredByClientOrderId"
      BY <1>3 DEF NextOrderPathState, RecoverByClientOrderId
    <2> QED BY <2>1, <2>2 DEF Allowed
  <1> HIDE DEF with
  <1>5. rec \in Record /\ VersionTrue(r, rec)
    BY <1>1, <1>3, <1>4, TransitionType, TransitionTrue DEF Events
  <1> HIDE DEF rec
  <1> QED BY <1>1, <1>5 DEF Revises, gatewayVars

LEMMA CancelFollowUpRevises ==
    ASSUME SubmissionInv, TruthInv, NEW r \in Requests,
           NEW truth \in {"Terminal", "StillWorking", "Unknown"},
           NEW w \in WriteResults, CancelFollowUp(r, truth, w)
    PROVE  Revises
  <1> DEFINE old == mem[r]
             new == FollowedUp(old, truth)
  <1>1. /\ old \in Record /\ VersionTrue(r, old) /\ clock \in Nat /\ old.cancels >= 1
        /\ old.state \in {"CancelTimeoutUnknownPending", "ManualInterventionRequired"}
        /\ truth = "Terminal" => order[r] \in {"done", "rejected"}
    <2>1. old \in Record /\ old.cancels > 0 /\ clock \in Nat
      BY DEF SubmissionInv, TypeOK, StoreTypeOK, CancelFollowUp, FollowUpEligible
    <2>2. old.cancels \in Nat
      BY <2>1 DEF Record
    <2> QED BY <2>1, <2>2 DEF CancelFollowUp, FollowUpEligible, TruthInv, VersionsTrue
  <1>2. /\ up /\ flight = None /\ TryUpdate(r, new, w)
        /\ UNCHANGED <<gatewayVars, brokerVars, clock>>
    BY DEF CancelFollowUp, Idle
  <1> HIDE DEF old
  <1>3. new \in Record /\ VersionTrue(r, new)
    <2>1. CASE truth = "Terminal"
      <3>1. "CancelRecoveredTerminal" # None
        BY NoneAssumption DEF States
      <3>2. NextOrderPathState(old.state, "RecoverCancelTerminal") = "CancelRecoveredTerminal"
        BY <1>1 DEF NextOrderPathState
      <3>3. Allowed(old, "RecoverCancelTerminal") /\ "RecoverCancelTerminal" \in Events
        BY <3>1, <3>2 DEF Allowed, Events
      <3> QED BY <1>1, <2>1, <3>3, TransitionType, TransitionTrue DEF FollowedUp
    <2>2. CASE truth = "StillWorking"
      <3>1. new = [old EXCEPT !.state = "ManualInterventionRequired",
                              !.err = "ReconciliationRequired", !.ts = clock]
        BY <2>2 DEF FollowedUp
      <3>2. /\ new \in Record /\ new.state = "ManualInterventionRequired"
            /\ new.broker = old.broker /\ new.cancels = old.cancels
        BY <1>1, <3>1 DEF Record, States, ErrorKinds
      <3> HIDE DEF new
      <3> QED BY <1>1, <3>2, RecordIsNotNone DEF VersionTrue, OpenCancelStates
    <2>3. CASE truth = "Unknown"
      <3>1. new = [old EXCEPT !.err = "ReconciliationRequired", !.ts = clock]
        BY <2>3 DEF FollowedUp
      <3>2. /\ new \in Record /\ new.state = old.state
            /\ new.broker = old.broker /\ new.cancels = old.cancels
        BY <1>1, <3>1 DEF Record, ErrorKinds
      <3> HIDE DEF new
      <3> QED BY <1>1, <3>2, SameTruth
    <2> QED BY <2>1, <2>2, <2>3
  <1> HIDE DEF new
  <1> QED BY <1>2, <1>3 DEF Revises, gatewayVars

LEMMA RecoverAfterRestartRevises ==
    ASSUME SubmissionInv, TruthInv, NEW r \in Requests, NEW w \in WriteResults,
           RecoverAfterRestart(r, w)
    PROVE  Revises
  <1> DEFINE rec == Transition(mem[r], "SubmitTimedOut", clock)
  <1>1. /\ mem[r] \in Record /\ VersionTrue(r, mem[r]) /\ clock \in Nat
        /\ mem[r].state = "SubmitInFlight"
        /\ up /\ flight = None /\ TryUpdate(r, rec, w)
        /\ UNCHANGED <<gatewayVars, brokerVars, clock>>
    BY DEF SubmissionInv, TypeOK, StoreTypeOK, RecoverAfterRestart, Idle, TruthInv, VersionsTrue
  <1>2. Allowed(mem[r], "SubmitTimedOut")
    <2>1. "TimeoutUnknownPending" # None
      BY NoneAssumption DEF States
    <2>2. NextOrderPathState(mem[r].state, "SubmitTimedOut") = "TimeoutUnknownPending"
      BY <1>1 DEF NextOrderPathState
    <2> QED BY <2>1, <2>2 DEF Allowed
  <1>3. rec \in Record /\ VersionTrue(r, rec)
    BY <1>1, <1>2, TransitionType, TransitionTrue DEF Events
  <1> HIDE DEF rec
  <1> QED BY <1>1, <1>3 DEF Revises, gatewayVars

------------------------------------------------------------------------------
(* Every step keeps the truth *)

\* A write that is not refused passed the checks of update_record.
LEMMA TryUpdateChecks ==
    ASSUME NEW r \in Requests, NEW rec \in Record, NEW w \in WriteResults, TryUpdate(r, rec, w)
    PROVE  /\ UpdateOk(r, rec) \/ UNCHANGED storeVars
           /\ StoreStep
  BY UpdateEffect DEF TryUpdate, WriteResults, StoreStep

LEMMA RevisesTruth ==
    ASSUME SubmissionInv, TruthInv, Revises
    PROVE  TruthInv' /\ StoreStep
  <1>1. PICK r \in Requests, rec \in Record, w \in WriteResults :
           /\ TryUpdate(r, rec, w) /\ VersionTrue(r, rec)
           /\ flight' # None => w = "ok" /\ flight'.req = r /\ flight'.rec = rec
    BY DEF Revises
  <1>2. StoreTypeOK /\ UNCHANGED <<net, order, bid, cid, sends, cancelSends, approved>> /\ up
    BY DEF Revises, brokerVars, SubmissionInv, TypeOK
  <1>3. /\ up' = up
        /\ \A q \in Requests : /\ mem'[q] = mem[q] \/ (q = r /\ mem'[q] = rec)
                               /\ \/ disk'[q] = disk[q]
                                  \/ disk'[q] = mem'[q]
                                  \/ q = r /\ disk'[q] = rec
        /\ w = "ok" => disk'[r] = rec
    BY <1>1, <1>2, TryUpdateEffect
  <1>4. StoreStep /\ (UpdateOk(r, rec) \/ (mem' = mem /\ disk' = disk))
    BY <1>1, TryUpdateChecks DEF storeVars
  <1>5. rec # None
    BY RecordIsNotNone
  <1>6. UpdateOk(r, rec) => /\ mem[r] # None /\ rec.client = mem[r].client
                            /\ mem[r].broker # None => rec.broker = mem[r].broker
    BY DEF UpdateOk
  <1>7. BrokerOK'
    BY <1>2 DEF TruthInv, BrokerOK
  <1>8. ClientOK'
    <2>1. ASSUME NEW q \in Requests, cid[q] # None
          PROVE  /\ sends[q] = 1
                 /\ mem'[q] # None => mem'[q].client = cid[q]
                 /\ disk'[q] # None => disk'[q].client = cid[q]
      BY <1>3, <1>4, <1>6, <2>1 DEF TruthInv, ClientOK
    <2>2. flight' # None => disk'[flight'.req].client = flight'.rec.client
      BY <1>1, <1>3
    <2> QED BY <1>2, <2>1, <2>2 DEF ClientOK
  <1>9. VersionsTrue'
    <2>1. ASSUME NEW q \in Requests PROVE VersionTrue(q, mem'[q]) /\ VersionTrue(q, disk'[q])
      BY <1>1, <1>3 DEF TruthInv, VersionsTrue
    <2> QED BY <1>2, <2>1 DEF VersionsTrue, VersionTrue
  <1>10. ApprovedOK'
    <2>1. approved \subseteq Requests
      BY DEF SubmissionInv, TypeOK
    <2> QED BY <1>2, <1>3, <1>4, <1>5, <1>6, <2>1 DEF TruthInv, ApprovedOK
  <1>11. MapsAgree'
    BY <1>2, <1>4, MapsAgreeStep DEF TruthInv
  <1> QED BY <1>4, <1>7, <1>8, <1>9, <1>10, <1>11 DEF TruthInv

LEMMA RecordIntentTruth ==
    ASSUME SubmissionInv, TruthInv, NEW r \in Requests, NEW c \in ClientIds,
           NEW w \in WriteResults, RecordIntent(r, c, w)
    PROVE  TruthInv' /\ StoreStep
  <1> DEFINE rec == FromPlaceOrder(c, clock)
  <1>1. StoreTypeOK /\ clock \in Nat /\ flight' = None /\ InsertIntent(r, rec, w)
        /\ UNCHANGED <<net, order, bid, cid, sends, cancelSends, approved>>
    BY DEF SubmissionInv, TypeOK, RecordIntent, Idle, gatewayVars, brokerVars
  <1>2. /\ rec \in Record /\ rec # None /\ rec.state = "IntentRecorded" /\ rec.cancels = 0
        /\ rec.broker = None
    BY <1>1, RecordIsNotNone DEF FromPlaceOrder, Record, States
  <1> HIDE DEF rec
  <1>3. /\ up /\ up' /\ mem[r] = None
        /\ \A q \in Requests : /\ mem'[q] = mem[q] \/ (q = r /\ mem'[q] = rec)
                               /\ \/ disk'[q] = disk[q]
                                  \/ disk'[q] = mem'[q]
                                  \/ q = r /\ disk'[q] = rec
    BY <1>1, <1>2, InsertEffect
       DEF WriteResults, InsertOk, InnerInsert, innerVars, Commit, Persist, StoreTypeOK
  <1>4. StoreStep
    BY <1>1, <1>2 DEF StoreStep, WriteResults
  <1>5. cid[r] = None
    BY <1>3 DEF SubmissionInv, SentOK, Attempted, TruthInv, ClientOK
  <1>6. BrokerOK' /\ ClientOK'
    BY <1>1, <1>3, <1>5 DEF TruthInv, BrokerOK, ClientOK
  <1>7. VersionsTrue'
    <2>1. VersionTrue(r, rec)
      BY <1>2 DEF VersionTrue, OpenCancelStates
    <2>2. ASSUME NEW q \in Requests PROVE VersionTrue(q, mem'[q]) /\ VersionTrue(q, disk'[q])
      BY <1>3, <2>1 DEF TruthInv, VersionsTrue
    <2> QED BY <1>1, <2>2 DEF VersionsTrue, VersionTrue
  <1>8. ApprovedOK'
    <2>1. approved \subseteq Requests
      BY DEF SubmissionInv, TypeOK
    <2> QED BY <1>1, <1>3, <2>1 DEF TruthInv, ApprovedOK
  <1>9. MapsAgree'
    BY <1>1, <1>4, MapsAgreeStep DEF TruthInv
  <1> QED BY <1>4, <1>6, <1>7, <1>8, <1>9 DEF TruthInv

\* A place leaves with the client id of its record, and the broker has nothing
\* of it yet.
LEMMA SendTruth ==
    ASSUME SubmissionInv, TruthInv, Send
    PROVE  TruthInv'
  <1>1. PICK p \in Requests : p = flight.req
    BY NoneAssumption DEF SubmissionInv, TypeOK, Send, Flight
  <1>2. /\ flight \in Flight /\ flight # None /\ flight.rec = mem[p]
        /\ flight.rec \in Record /\ mem[p] # None /\ disk[p] # None
        /\ flight.rec.client \in ClientIds /\ flight.rec.client # None
        /\ flight.op = "place" => sends[p] = 0
    BY <1>1, RecordIsNotNone, NoneAssumption
       DEF SubmissionInv, TypeOK, FlightOK, Send, Flight, Record, Attempted, CancelAttempted
  <1>3. /\ UNCHANGED <<up, lock, mem, byClient, byBroker, disk, audit, approved, pass, order, bid, clock>>
        /\ net' = net \cup {<<flight.op, p>>}
        /\ flight'.op = flight.op /\ flight'.req = p /\ flight'.rec = flight.rec
    BY <1>1, <1>2 DEF Send, storeVars, Flight
  <1>4. VersionsTrue' /\ ApprovedOK' /\ MapsAgree'
    BY <1>3 DEF TruthInv, VersionsTrue, VersionTrue, ApprovedOK, MapsAgree, ClientsAgree, BrokersAgree
  <1>5. CASE flight.op = "place"
    <2>1. /\ \A q \in Requests : sends'[q] = IF q = p THEN 1 ELSE sends[q]
          /\ \A q \in Requests : cid'[q] = IF q = p THEN flight.rec.client ELSE cid[q]
      BY <1>1, <1>2, <1>5 DEF Send, SubmissionInv, TypeOK
    <2>2. order[p] = "none" /\ bid[p] = None /\ sends[p] # 1
      <3>1. /\ order[p] # "none" => sends[p] = 1
            /\ bid[p] # None => order[p] # "none"
        BY DEF TruthInv, BrokerOK
      <3>2. sends[p] # 1
        BY <1>2, <1>5
      <3> QED BY <3>1, <3>2
    <2>3. BrokerOK'
      <3>1. ASSUME NEW q \in Requests
            PROVE  /\ <<"place", q>> \in net' => sends'[q] = 1 /\ order[q] = "none"
                   /\ order[q] # "none" => sends'[q] = 1
                   /\ bid[q] # None => order[q] # "none"
                   /\ sends'[q] = 1 => cid'[q] # None
        BY <1>2, <1>3, <2>1, <2>2 DEF TruthInv, BrokerOK
      <3> QED BY <1>3, <3>1 DEF TruthInv, BrokerOK
    <2>4. disk[p].client = flight.rec.client
      BY <1>1, <1>2, <1>5 DEF TruthInv, ClientOK
    <2>5. ClientOK'
      <3>1. ASSUME NEW q \in Requests, cid'[q] # None
            PROVE  /\ sends'[q] = 1
                   /\ mem[q] # None => mem[q].client = cid'[q]
                   /\ disk[q] # None => disk[q].client = cid'[q]
        BY <1>2, <2>1, <2>4, <3>1 DEF TruthInv, ClientOK
      <3> QED BY <1>3, <2>4, <3>1 DEF ClientOK
    <2> QED BY <1>4, <2>3, <2>5 DEF TruthInv
  <1>6. CASE flight.op = "cancel"
    <2>1. sends' = sends /\ cid' = cid
      BY <1>6 DEF Send
    <2>2. \A q \in Requests : <<"place", q>> \in net' <=> <<"place", q>> \in net
      BY <1>3, <1>6
    <2>3. BrokerOK'
      BY <1>3, <2>1, <2>2 DEF TruthInv, BrokerOK
    <2>4. ClientOK'
      BY <1>3, <1>6, <2>1 DEF TruthInv, ClientOK
    <2> QED BY <1>4, <2>3, <2>4 DEF TruthInv
  <1> QED BY <1>2, <1>5, <1>6 DEF Flight

\* Steps of the gateway that write nothing.
LEMMA QuietTruth ==
    ASSUME SubmissionInv, TruthInv,
           \/ \E r \in Requests : ApproveCancel(r)
           \/ StartPass \/ EndPass \/ Tick
           \/ UNCHANGED <<storeVars, flight, approved, brokerVars, clock>>
    PROVE  TruthInv'
  <1>1. /\ UNCHANGED <<up, lock, mem, byClient, byBroker, disk, audit, flight,
                       net, order, bid, cid, sends, cancelSends>>
        /\ \A r \in approved' : r \in approved \/ (up /\ mem[r] # None /\ mem[r].broker # None)
    BY DEF ApproveCancel, CancelAdmitted, Idle, StartPass, EndPass, Tick, storeVars, gatewayVars,
           brokerVars
  <1>2. BrokerOK' /\ ClientOK' /\ VersionsTrue'
    BY <1>1 DEF TruthInv, BrokerOK, ClientOK, VersionsTrue, VersionTrue
  <1>3. ApprovedOK' /\ MapsAgree'
    BY <1>1 DEF TruthInv, ApprovedOK, MapsAgree, ClientsAgree, BrokersAgree
  <1> QED BY <1>2, <1>3 DEF TruthInv

\* The broker decides only on what it has not decided yet.
LEMMA BrokerTruth ==
    ASSUME SubmissionInv, TruthInv,
           \/ \E r \in Requests : BrokerAccepts(r) \/ BrokerRejects(r) \/ BrokerCancels(r) \/ BrokerFills(r)
           \/ \E m \in net : Lose(m)
    PROVE  TruthInv'
  <1>1. UNCHANGED <<up, lock, mem, byClient, byBroker, disk, audit, flight, approved, pass,
                    cid, sends, cancelSends, clock>>
    BY DEF BrokerAccepts, BrokerRejects, BrokerCancels, BrokerFills, Lose, storeVars, gatewayVars
  <1>2. ClientOK' /\ ApprovedOK' /\ MapsAgree'
    BY <1>1 DEF TruthInv, ClientOK, ApprovedOK, MapsAgree, ClientsAgree, BrokersAgree
  <1>3. ASSUME NEW r \in Requests, net' \subseteq net,
               \A q \in Requests \ {r} : order'[q] = order[q] /\ bid'[q] = bid[q],
               \/ order'[r] = order[r] /\ bid'[r] = bid[r]
               \/ order[r] = "working" /\ order'[r] = "done" /\ bid'[r] = bid[r]
               \/ /\ <<"place", r>> \in net /\ <<"place", r>> \notin net'
                  /\ order'[r] # "none"
                  /\ bid'[r] = bid[r] \/ bid'[r] \notin {bid[q] : q \in Requests}
        PROVE  BrokerOK' /\ VersionsTrue'
    <2>1. <<"place", r>> \in net => order[r] = "none" /\ bid[r] = None /\ sends[r] = 1
      BY DEF TruthInv, BrokerOK
    <2>2. ASSUME NEW q \in Requests
          PROVE  /\ <<"place", q>> \in net' => sends[q] = 1 /\ order'[q] = "none"
                 /\ order'[q] # "none" => sends[q] = 1
                 /\ bid'[q] # None => order'[q] # "none"
                 /\ sends[q] = 1 => cid[q] # None
      BY <1>3, <2>1 DEF TruthInv, BrokerOK
    <2>3. ASSUME NEW p \in Requests, NEW q \in Requests, bid'[p] # None, bid'[p] = bid'[q]
          PROVE  p = q
      BY <1>3, <2>3 DEF TruthInv, BrokerOK
    <2>4. BrokerOK'
      BY <1>1, <2>2, <2>3 DEF BrokerOK
    <2>5. ASSUME NEW q \in Requests, NEW v, VersionTrue(q, v)
          PROVE  /\ v # None /\ v.broker # None => v.broker = bid'[q]
                 /\ v # None /\ v.state \in {"Terminal", "CancelRecoveredTerminal"} =>
                       order'[q] \in {"done", "rejected"}
                 /\ v # None /\ v.state = "BrokerRejected" => order'[q] = "rejected"
      BY <1>3, <2>1, <2>5 DEF VersionTrue
    <2>6. VersionsTrue'
      <3>1. ASSUME NEW q \in Requests
            PROVE  VersionTrue(q, mem[q])' /\ VersionTrue(q, disk[q])'
        <4>1. VersionTrue(q, mem[q]) /\ VersionTrue(q, disk[q])
          BY DEF TruthInv, VersionsTrue
        <4> QED BY <1>1, <2>5, <4>1 DEF VersionTrue
      <3> QED BY <3>1 DEF VersionsTrue
    <2> QED BY <2>4, <2>6
  <1>4. BrokerOK' /\ VersionsTrue'
    <2>1. order \in [Requests -> {"none", "working", "done", "rejected"}]
          /\ bid \in [Requests -> BrokerIds \cup {None}]
      BY DEF SubmissionInv, TypeOK
    <2>2. ASSUME NEW r \in Requests, BrokerAccepts(r) PROVE BrokerOK' /\ VersionsTrue'
      <3>1. PICK b \in BrokerIds \ {bid[q] : q \in Requests} : bid' = [bid EXCEPT ![r] = b]
        BY <2>2 DEF BrokerAccepts
      <3> QED BY <1>3, <2>1, <2>2, <3>1 DEF BrokerAccepts
    <2>3. ASSUME NEW r \in Requests, BrokerRejects(r) PROVE BrokerOK' /\ VersionsTrue'
      BY <1>3, <2>1, <2>3 DEF BrokerRejects
    <2>4. ASSUME NEW r \in Requests, BrokerCancels(r) PROVE BrokerOK' /\ VersionsTrue'
      BY <1>3, <2>1, <2>4 DEF BrokerCancels
    <2>5. ASSUME NEW r \in Requests, BrokerFills(r) PROVE BrokerOK' /\ VersionsTrue'
      BY <1>3, <2>1, <2>5 DEF BrokerFills
    <2>6. ASSUME NEW m \in net, Lose(m) PROVE BrokerOK' /\ VersionsTrue'
      BY <1>1, <2>6 DEF Lose, TruthInv, BrokerOK, VersionsTrue, VersionTrue
    <2> QED BY <2>2, <2>3, <2>4, <2>5, <2>6
  <1> QED BY <1>2, <1>4 DEF TruthInv

LEMMA ProcessTruth ==
    ASSUME SubmissionInv, TruthInv, Open \/ Close \/ Crash \/ Unlock
    PROVE  TruthInv' /\ StoreStep
  <1>1. StoreStep /\ UNCHANGED <<disk, net, order, bid, cid, sends, cancelSends>>
    BY DEF StoreStep, Open, Close, Crash, Unlock, OpenStore, CloseStore, CrashStore, Forget,
           ClearStaleLock, brokerVars
  <1>2. \/ up' /\ mem' = disk /\ ~up /\ UNCHANGED <<flight, approved>>
        \/ ~up' /\ mem' = NoRecords /\ flight' = None /\ approved' = {}
        \/ ~up' /\ ~up /\ mem' = mem /\ UNCHANGED <<flight, approved>>
    BY DEF Open, Close, Crash, Unlock, OpenStore, CloseStore, CrashStore, Forget,
           ClearStaleLock, Load, Idle, gatewayVars, innerVars
  <1>3. flight' = None /\ approved' = {}
    BY <1>2 DEF SubmissionInv, FlightOK, TruthInv, ApprovedOK
  <1>4. \A r \in Requests : mem'[r] \in {mem[r], disk[r], None}
    BY <1>2 DEF NoRecords
  <1>5. BrokerOK' /\ ClientOK' /\ ApprovedOK'
    BY <1>1, <1>3, <1>4 DEF TruthInv, BrokerOK, ClientOK, ApprovedOK
  <1>6. VersionsTrue'
    BY <1>1, <1>4 DEF TruthInv, VersionsTrue, VersionTrue
  <1>7. MapsAgree'
    BY <1>1, MapsAgreeStep DEF TruthInv, SubmissionInv, TypeOK
  <1> QED BY <1>1, <1>5, <1>6, <1>7 DEF TruthInv

\* The order flow touches the store only as a caller may, and every record it
\* leaves is true.
LEMMA TruthStep ==
    ASSUME SubmissionInv, TruthInv, [Next]_vars
    PROVE  TruthInv' /\ StoreStep
  <1>1. CASE \E r \in Requests, c \in ClientIds, w \in WriteResults : RecordIntent(r, c, w)
    BY <1>1, RecordIntentTruth
  <1>2. CASE \E r \in Requests, w \in WriteResults : BeginPlace(r, w) \/ BeginCancel(r, w)
    BY <1>2, BeginPlaceRevises, BeginCancelRevises, RevisesTruth
  <1>3. CASE Send
    BY <1>3, SendTruth DEF Send, StoreStep
  <1>4. CASE \E a \in PlaceAnswers, w \in WriteResults : ApplyPlace(a, w)
    BY <1>4, ApplyPlaceRevises, RevisesTruth
  <1>5. CASE \E a \in CancelAnswers, w \in WriteResults : ApplyCancel(a, w)
    BY <1>5, ApplyCancelRevises, RevisesTruth
  <1>6. CASE \E r \in IF pass = None THEN {} ELSE pass.todo :
               \E d \in Decisions(r, pass.ts), w \in WriteResults : PassStep(r, d, w)
    <2>1. Revises \/ UNCHANGED <<storeVars, flight, approved, brokerVars, clock>>
      BY <1>6, PassStepRevises DEF SubmissionInv, TypeOK, Pass
    <2> QED BY <2>1, RevisesTruth, QuietTruth DEF StoreStep
  <1>7. CASE \E r, q \in Requests, w \in WriteResults : RecoverByClientOrderId(r, q, w)
    BY <1>7, RecoverByClientOrderIdRevises, RevisesTruth
  <1>8. CASE \E r \in Requests, truth \in {"Terminal", "StillWorking", "Unknown"},
               w \in WriteResults : CancelFollowUp(r, truth, w)
    BY <1>8, CancelFollowUpRevises, RevisesTruth
  <1>9. CASE \E r \in Requests, w \in WriteResults : RecoverAfterRestart(r, w)
    BY <1>9, RecoverAfterRestartRevises, RevisesTruth
  <1>10. CASE (\E r \in Requests : ApproveCancel(r)) \/ StartPass \/ EndPass \/ Tick \/ UNCHANGED vars
    <2>1. UNCHANGED vars => UNCHANGED <<storeVars, flight, approved, brokerVars, clock>>
      BY DEF vars, gatewayVars
    <2>2. UNCHANGED storeVars
      BY <1>10 DEF ApproveCancel, StartPass, EndPass, Tick, vars
    <2> QED BY <1>10, <2>1, <2>2, QuietTruth DEF StoreStep
  <1>11. CASE \/ \E r \in Requests : BrokerAccepts(r) \/ BrokerRejects(r) \/ BrokerCancels(r) \/ BrokerFills(r)
              \/ \E m \in net : Lose(m)
    <2>1. UNCHANGED storeVars
      BY <1>11 DEF BrokerAccepts, BrokerRejects, BrokerCancels, BrokerFills, Lose
    <2> QED BY <1>11, <2>1, BrokerTruth DEF StoreStep
  <1>12. CASE Open \/ Close \/ Crash \/ Unlock
    BY <1>12, ProcessTruth
  <1> QED BY <1>1, <1>2, <1>3, <1>4, <1>5, <1>6, <1>7, <1>8, <1>9, <1>10, <1>11, <1>12 DEF Next

------------------------------------------------------------------------------
(* What follows *)

LEMMA TruthInitially == Init => TruthInv
  <1> SUFFICES ASSUME Init PROVE TruthInv
    OBVIOUS
  <1>1. /\ ~up /\ flight = None /\ approved = {} /\ net = {}
        /\ \A r \in Requests : /\ mem[r] = None /\ disk[r] = None /\ order[r] = "none"
                               /\ bid[r] = None /\ cid[r] = None /\ sends[r] = 0
    BY DEF Init, StoreInit, NoRecords
  <1>2. BrokerOK /\ ClientOK
    BY <1>1 DEF BrokerOK, ClientOK
  <1>3. VersionsTrue /\ ApprovedOK /\ MapsAgree
    BY <1>1 DEF VersionsTrue, VersionTrue, ApprovedOK, MapsAgree
  <1> QED BY <1>2, <1>3 DEF TruthInv

\* What the records and the lookup maps say of the orders is so in every
\* reachable state.
THEOREM TruthInvariant == Spec => []TruthInv
  <1>1. SubmissionInv /\ TruthInv /\ [Next]_vars => TruthInv'
    BY TruthStep
  <1> QED BY <1>1, TruthInitially, SubmissionInvariant, PTL DEF Spec

\* Only an order that is dead at the broker, and of which no place request is
\* on the way, has a closed record: no answer of the endpoint, no snapshot a
\* reconciliation pass or a follow-up works on, stale or without ids, and no
\* reload of an older version closes the record of a live order.
THEOREM DeadMeansDeadHolds == Spec => []DeadMeansDead
  <1>1. TruthInv => DeadMeansDead
    <2> SUFFICES ASSUME TruthInv, NEW r \in Requests, NEW v \in Versions(r)
                 PROVE  /\ v.state \in {"Terminal", "CancelRecoveredTerminal"} =>
                              order[r] \in {"done", "rejected"} /\ <<"place", r>> \notin net
                        /\ v.state = "BrokerRejected" => order[r] = "rejected"
      BY DEF DeadMeansDead
    <2>1. v # None /\ VersionTrue(r, v)
      BY DEF Versions, TruthInv, VersionsTrue
    <2>2. <<"place", r>> \in net => order[r] = "none"
      BY DEF TruthInv, BrokerOK
    <2> QED BY <2>1, <2>2 DEF VersionTrue
  <1> QED BY <1>1, TruthInvariant, PTL

\* A broker id in the maps or on disk is the id the broker gave to that very
\* request, although reconciliation takes it from whichever snapshot matches
\* and the client-id recovery from whichever order the broker lists.
THEOREM BrokerIdTrueHolds == Spec => []BrokerIdTrue
  <1>1. TruthInv => BrokerIdTrue
    <2> SUFFICES ASSUME TruthInv, NEW r \in Requests, NEW v \in Versions(r), v.broker # None
                 PROVE  v.broker = bid[r]
      BY DEF BrokerIdTrue
    <2>1. v # None /\ VersionTrue(r, v)
      BY DEF Versions, TruthInv, VersionsTrue
    <2> QED BY <2>1 DEF VersionTrue
  <1> QED BY <1>1, TruthInvariant, PTL

\* next_order_path_state lets any ManualInterventionRequired become
\* CancelRecoveredTerminal; the callers let only a record there whose cancel
\* was durably requested for a known broker order.
THEOREM CancelRecoveryHadCancelHolds == Spec => []CancelRecoveryHadCancel
  <1>1. TruthInv /\ SubmissionInv => CancelRecoveryHadCancel
    <2> SUFFICES ASSUME TruthInv, SubmissionInv, NEW r \in Requests, NEW v \in Versions(r),
                        v.state = "CancelRecoveredTerminal"
                 PROVE  v.cancels > 0 /\ v.broker # None
      BY DEF CancelRecoveryHadCancel
    <2>1. v # None /\ VersionTrue(r, v)
      BY DEF Versions, TruthInv, VersionsTrue
    <2>2. v.cancels \in Nat
      BY <2>1 DEF Versions, SubmissionInv, TypeOK, StoreTypeOK, Record
    <2>3. v.cancels >= 1 /\ v.broker # None
      BY <2>1 DEF VersionTrue, OpenCancelStates
    <2> QED BY <2>2, <2>3
  <1> QED BY <1>1, TruthInvariant, SubmissionInvariant, PTL

\* The flows, the reconciliation pass and the recoveries never leave two
\* durable records with one client or broker id: the store opens again after
\* every crash, with either backend and also when a Sqlite write fails after
\* its commit.
THEOREM LifecycleIdsUnique == Spec => []DurableIdsUnique
  <1>1. Init => Loadable
    BY DEF Init, StoreInit, Loadable, NoRecords
  <1>2. SubmissionInv /\ TruthInv /\ Loadable /\ [Next]_vars => Loadable'
    BY TruthStep, UniqueStep DEF TruthInv, SubmissionInv, TypeOK
  <1> QED BY <1>1, <1>2, SubmissionInvariant, TruthInvariant, PTL DEF Spec, DurableIdsUnique

\* A durable terminal record stays terminal through every flow, pass, crash and
\* reload.  The hypothesis is the one of DurableHistoryHolds: with Sqlite an
\* error after the commit leaves maps that do not know the terminal state.
THEOREM TerminalIsKept ==
    ASSUME Backend = "Json" \/ ~HardenMayFail
    PROVE  Spec => TerminalNeverOverwritten
  <1>1. Init => MapsFollowDisk
    BY DEF Init, StoreInit, MapsFollowDisk
  <1>2. SubmissionInv /\ TruthInv /\ MapsFollowDisk /\ [Next]_vars
           => MapsFollowDisk' /\ \A r \in Requests : StaysTerminal(disk[r], disk'[r])
    <2> SUFFICES ASSUME SubmissionInv, TruthInv, MapsFollowDisk, [Next]_vars
                 PROVE  MapsFollowDisk' /\ \A r \in Requests : StaysTerminal(disk[r], disk'[r])
      OBVIOUS
    <2>1. MapsFollowDisk' /\ \A r \in Requests : MayFollow(disk[r], disk'[r])
      BY TruthStep, HistoryStep DEF SubmissionInv, TypeOK
    <2> QED BY <2>1 DEF MayFollow, StaysTerminal
  <1> QED BY <1>1, <1>2, SubmissionInvariant, TruthInvariant, PTL DEF Spec, TerminalNeverOverwritten

------------------------------------------------------------------------------
(* The flows are callers the store allows for *)

Contract == INSTANCE StoreContract WITH WriteRecords <- Record

LEMMA ContractInsert ==
    ASSUME NEW r \in Requests, NEW rec \in Record, NEW w \in {"ok", "fail", "late"},
           InsertIntent(r, rec, w)
    PROVE  Contract!InsertIntent(r, rec, w)
  BY DEF InsertIntent, Contract!InsertIntent, InsertOk, Contract!InsertOk,
         Write, Contract!Write, Commit, Contract!Commit, RowUnique, Contract!RowUnique,
         Persist, Contract!Persist, InnerInsert, Contract!InnerInsert,
         BrokerIndexed, Contract!BrokerIndexed, innerVars, Contract!innerVars

LEMMA ContractUpdate ==
    ASSUME NEW r \in Requests, NEW rec \in Record, NEW w \in {"ok", "fail", "late"},
           UpdateRecord(r, rec, w)
    PROVE  Contract!UpdateRecord(r, rec, w)
  BY DEF UpdateRecord, Contract!UpdateRecord, UpdateOk, Contract!UpdateOk,
         Write, Contract!Write, Commit, Contract!Commit, RowUnique, Contract!RowUnique,
         Persist, Contract!Persist, InnerUpdate, Contract!InnerUpdate,
         BrokerIndexed, Contract!BrokerIndexed, innerVars, Contract!innerVars,
         TerminalStates, Contract!TerminalStates

LEMMA ContractSession ==
    /\ OpenStore => Contract!OpenStore
    /\ CloseStore => Contract!CloseStore
    /\ CrashStore => Contract!CrashStore
    /\ ClearStaleLock => Contract!ClearStaleLock
  BY DEF OpenStore, Contract!OpenStore, CloseStore, Contract!CloseStore,
         CrashStore, Contract!CrashStore, ClearStaleLock, Contract!ClearStaleLock,
         Load, Contract!Load, Loadable, Contract!Loadable, Forget, Contract!Forget,
         NoRecords, Contract!NoRecords, innerVars, Contract!innerVars

\* The order flow refines the contract of the store for callers that may write
\* any record at any time: what StoreContractProofs proves of the store holds
\* of the store inside the gateway.
THEOREM FlowKeepsContract == Spec => Contract!Spec
  <1>1. Init => Contract!Init
    BY DEF Init, StoreInit, NoRecords, NoAudit, Contract!Init, Contract!StoreInit,
           Contract!NoRecords, Contract!NoAudit
  <1>2. StoreStep => [Contract!Next]_(Contract!storeVars)
    BY ContractInsert, ContractUpdate, ContractSession
       DEF StoreStep, storeVars, Contract!storeVars, Contract!Next, Contract!Insert, Contract!Update
  <1>3. SubmissionInv /\ TruthInv /\ [Next]_vars => [Contract!Next]_(Contract!storeVars)
    BY <1>2, TruthStep
  <1> QED BY <1>1, <1>3, SubmissionInvariant, TruthInvariant, PTL DEF Spec, Contract!Spec
==============================================================================
