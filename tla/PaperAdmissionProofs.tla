------------------------- MODULE PaperAdmissionProofs -------------------------
(***************************************************************************)
(* What one more record does to a replayed journal, for any commands: the  *)
(* facts both consumers of the Stage 6 journal are proved from.            *)
(***************************************************************************)
EXTENDS PaperAdmission, TLAPS

\* The journal j holds a dispatch attempt of r.
Attempted(j, r) == Known(j, r) /\ j.reqs[r].attempts = 1

\* The journal j holds the finalization of r.
Finished(j, r) == Known(j, r) /\ j.reqs[r].final

\* A request that reads as never dispatched has no attempt on record.
ReadyOK(j) ==
    \A r \in Requests :
        Known(j, r) /\ j.reqs[r].safety = "ReadyForFirstDispatch" => j.reqs[r].attempts = 0

JournalOK(j) == j \in Journal /\ ReadyOK(j)

LEMMA CommandType ==
    ASSUME NEW c \in Commands
    PROVE  c.req \in Requests
  BY CommandAssumption

------------------------------------------------------------------------------
(* One more record *)

\* A first record leaves a request that was never dispatched.
LEMMA FromFirstType ==
    ASSUME NEW rec, rec.cmd \in Commands
    PROVE  FromFirst(rec) \in WorkingRequest
  BY DEF FromFirst, WorkingRequest, SafetyStates

LEMMA ApplyType ==
    ASSUME NEW w \in WorkingRequest, NEW rec, rec.seq \in Nat, rec.ordinal \in Nat,
           rec.order \in Requests
    PROVE  Apply(w, rec) \in WorkingRequest
  <1>1. SafetyAfter(w, rec.kind) \in SafetyStates
    BY DEF SafetyAfter, SafetyStates, WorkingRequest
  <1> QED BY <1>1 DEF Apply, WorkingRequest

\* The record the consumer appends.
Appendable(rec) ==
    /\ rec.req \in Requests /\ rec.cmd \in Commands /\ rec.seq \in Nat
    /\ rec.ordinal = 1 /\ rec.order \in Requests

LEMMA ExtendReqs ==
    ASSUME NEW j \in Journal, NEW rec, Appendable(rec)
    PROVE  /\ Extend(j, rec) \in Journal
           /\ \A r \in Requests \ {rec.req} : Extend(j, rec).reqs[r] = j.reqs[r]
           /\ ~Fits(j, rec) => Extend(j, rec).reqs = j.reqs /\ ~Extend(j, rec).ok
           /\ Fits(j, rec) => Extend(j, rec).reqs[rec.req] =
                  IF j.reqs[rec.req] = None THEN FromFirst(rec) ELSE Apply(j.reqs[rec.req], rec)
  <1>1. CASE Fits(j, rec)
    <2> DEFINE w == IF j.reqs[rec.req] = None THEN FromFirst(rec) ELSE Apply(j.reqs[rec.req], rec)
    <2>1. w \in WorkingRequest
      <3>1. j.reqs[rec.req] \in WorkingRequest \cup {None}
        BY DEF Journal, Appendable
      <3> QED BY <3>1, FromFirstType, ApplyType DEF Appendable
    <2>2. Extend(j, rec) = [reqs |-> [j.reqs EXCEPT ![rec.req] = w], last |-> rec.req, ok |-> TRUE]
      BY <1>1 DEF Extend
    <2> HIDE DEF w
    <2>3. [j.reqs EXCEPT ![rec.req] = w] \in [Requests -> WorkingRequest \cup {None}]
      BY <2>1 DEF Journal
    <2>4. [j.reqs EXCEPT ![rec.req] = w][rec.req] = w
      BY DEF Journal, Appendable
    <2>5. Extend(j, rec).reqs = [j.reqs EXCEPT ![rec.req] = w]
      BY <2>2
    <2>6. Extend(j, rec) \in Journal
      BY <2>2, <2>3 DEF Journal, Appendable
    <2>7. \A r \in Requests \ {rec.req} : Extend(j, rec).reqs[r] = j.reqs[r]
      BY <2>5 DEF Journal
    <2> QED BY <1>1, <2>4, <2>5, <2>6, <2>7 DEF w
  <1>2. CASE ~Fits(j, rec)
    <2>1. Extend(j, rec) = [j EXCEPT !.last = rec.req, !.ok = FALSE]
      BY <1>2 DEF Extend
    <2> QED BY <1>2, <2>1 DEF Journal, Appendable
  <1> QED BY <1>1, <1>2

\* The state of the request after a record that replay accepts.
LEMMA ExtendOwn ==
    ASSUME NEW j \in Journal, NEW rec, Appendable(rec), Fits(j, rec)
    PROVE  LET k == Extend(j, rec) w == j.reqs[rec.req] v == k.reqs[rec.req]
           IN  /\ Known(k, rec.req) /\ v \in WorkingRequest
               /\ w = None => rec.kind = "RequestAccepted" /\ v = FromFirst(rec)
               /\ w # None => /\ w \in WorkingRequest /\ CanApply(w, rec)
                              /\ v.cmd = w.cmd /\ v.seq = w.seq + 1
                              /\ v.attempts = IF rec.kind = "DispatchAttemptRecorded" THEN 1
                                              ELSE w.attempts
                              /\ v.safety = SafetyAfter(w, rec.kind)
                              /\ v.broker = IF rec.kind \in Observations THEN rec.order ELSE w.broker
                              /\ v.cancel = (w.cancel \/ rec.kind = "CancelOutcomeObserved")
                              /\ v.final = (rec.kind = "RequestFinalized") /\ ~w.final
  <1> DEFINE k == Extend(j, rec) w == j.reqs[rec.req] v == k.reqs[rec.req]
  <1>1. v = IF w = None THEN FromFirst(rec) ELSE Apply(w, rec)
    BY ExtendReqs
  <1>2. w \in WorkingRequest \cup {None} /\ k \in Journal
    BY ExtendReqs DEF Journal, Appendable
  <1>3. CASE w = None
    <2>1. v = FromFirst(rec) /\ v \in WorkingRequest /\ v # None
      BY <1>1, <1>3, FromFirstType, CommandAssumption DEF Appendable
    <2>2. rec.kind = "RequestAccepted"
      BY <1>3 DEF Fits, StartsRequest
    <2> QED  BY <1>3, <2>1, <2>2 DEF Known
  <1>4. CASE w # None
    <2>1. v = Apply(w, rec) /\ w \in WorkingRequest /\ CanApply(w, rec)
      BY <1>1, <1>2, <1>4 DEF Fits
    <2>2. v \in WorkingRequest /\ v # None
      BY <2>1, ApplyType, CommandAssumption DEF Appendable
    <2> HIDE DEF w, v
    <2>3. ~w.final /\ rec.seq = w.seq + 1
      BY <2>1 DEF CanApply
    <2>4. /\ v.cmd = w.cmd /\ v.seq = w.seq + 1
          /\ v.attempts = IF rec.kind = "DispatchAttemptRecorded" THEN 1 ELSE w.attempts
          /\ v.safety = SafetyAfter(w, rec.kind)
          /\ v.broker = IF rec.kind \in Observations THEN rec.order ELSE w.broker
          /\ v.cancel = (w.cancel \/ rec.kind = "CancelOutcomeObserved")
          /\ v.final = (rec.kind = "RequestFinalized")
      BY <2>1, <2>3 DEF Apply, WorkingRequest, Appendable
    <2> QED  BY <1>4, <2>1, <2>2, <2>3, <2>4 DEF Known, w, v
  <1> QED  BY <1>3, <1>4

\* No finalization is ever lost.
LEMMA ExtendFinished ==
    ASSUME NEW j \in Journal, NEW rec, Appendable(rec), NEW r \in Requests, Finished(j, r)
    PROVE  Finished(Extend(j, rec), r)
  <1>1. CASE r # rec.req \/ ~Fits(j, rec)
    <2>1. Extend(j, rec).reqs[r] = j.reqs[r]
      BY <1>1, ExtendReqs
    <2> QED BY <2>1 DEF Finished, Known
  <1>2. CASE r = rec.req /\ Fits(j, rec)
    BY <1>2, ExtendOwn DEF Finished, Known
  <1> QED BY <1>1, <1>2

\* What one more record does to the attempts of a journal: none is forgotten,
\* and a request still reads as ready only if it has none.
LEMMA ExtendKeeps ==
    ASSUME NEW j, JournalOK(j), NEW rec, Appendable(rec)
    PROVE  /\ JournalOK(Extend(j, rec))
           /\ \A r \in Requests : Attempted(j, r) => Attempted(Extend(j, rec), r)
  <1> DEFINE k == Extend(j, rec)
  <1>0. j \in Journal /\ ReadyOK(j)
    BY DEF JournalOK
  <1>1. k \in Journal
    BY <1>0, ExtendReqs
  <1>2. ASSUME NEW r \in Requests
        PROVE  /\ Attempted(j, r) => Attempted(k, r)
               /\ Known(k, r) /\ k.reqs[r].safety = "ReadyForFirstDispatch" => k.reqs[r].attempts = 0
    <2>1. CASE r # rec.req \/ ~Fits(j, rec)
      <3>1. k.reqs[r] = j.reqs[r]
        BY <1>0, <2>1, ExtendReqs
      <3> QED BY <1>0, <3>1 DEF Attempted, ReadyOK, Known
    <2>2. CASE r = rec.req /\ Fits(j, rec) /\ j.reqs[r] = None
      <3>1. k.reqs[r] = FromFirst(rec)
        BY <1>0, <2>2, ExtendReqs
      <3> QED BY <2>2, <3>1 DEF Attempted, Known, FromFirst
    <2>3. CASE r = rec.req /\ Fits(j, rec) /\ j.reqs[r] # None
      <3> DEFINE w == j.reqs[r]
      <3>1. k.reqs[r] = Apply(w, rec) /\ CanApply(w, rec)
        BY <1>0, <2>3, ExtendReqs DEF Fits
      <3>2. w \in WorkingRequest /\ Apply(w, rec) \in WorkingRequest
        BY <1>0, <2>3, ApplyType DEF Journal, Appendable
      <3>3. Apply(w, rec) # None
        BY <3>2, CommandAssumption
      <3>4. w.safety = "ReadyForFirstDispatch" => w.attempts = 0
        BY <1>0, <2>3 DEF ReadyOK, Known
      <3> HIDE DEF w
      <3>5. CASE rec.kind = "DispatchAttemptRecorded"
        <4>1. w.attempts = 0 /\ Apply(w, rec).attempts = 1
          BY <3>1, <3>2, <3>5 DEF CanApply, DispatchAllowed, Apply, Appendable, WorkingRequest
        <4>2. Apply(w, rec).safety = "ReconciliationRequired"
          BY <3>2, <3>5 DEF Apply, SafetyAfter, WorkingRequest
        <4> QED BY <3>1, <4>1, <4>2 DEF Attempted, Known, w
      <3>6. CASE rec.kind # "DispatchAttemptRecorded"
        <4>1. Apply(w, rec).attempts = w.attempts
          BY <3>2, <3>6 DEF Apply, WorkingRequest
        <4>2. Apply(w, rec).safety = SafetyAfter(w, rec.kind)
          BY <3>2 DEF Apply, WorkingRequest
        <4>3. SafetyAfter(w, rec.kind) = "ReadyForFirstDispatch" => w.safety = "ReadyForFirstDispatch"
          BY <3>6 DEF SafetyAfter
        <4> QED BY <3>1, <3>3, <3>4, <4>1, <4>2, <4>3 DEF Attempted, Known, w
      <3> QED BY <3>5, <3>6
    <2> QED BY <2>1, <2>2, <2>3
  <1> QED BY <1>1, <1>2 DEF JournalOK, ReadyOK

\* A dispatch attempt that replay accepts is remembered.
LEMMA ExtendAttempts ==
    ASSUME NEW j \in Journal, NEW rec, Appendable(rec),
           rec.kind = "DispatchAttemptRecorded", Extend(j, rec).ok
    PROVE  Attempted(Extend(j, rec), rec.req)
  <1>1. Fits(j, rec)
    BY ExtendReqs
  <1>2. j.reqs[rec.req] # None
    BY <1>1 DEF Fits, StartsRequest
  <1>3. j.reqs[rec.req] \in WorkingRequest
    BY <1>2 DEF Journal, Appendable
  <1>4. Extend(j, rec).reqs[rec.req] = Apply(j.reqs[rec.req], rec)
    BY <1>1, <1>2, ExtendReqs
  <1>5. Apply(j.reqs[rec.req], rec) \in WorkingRequest
    BY <1>3, ApplyType DEF Appendable
  <1>6. Apply(j.reqs[rec.req], rec).attempts = 1
    BY <1>3 DEF Apply, WorkingRequest, Appendable
  <1> QED BY <1>4, <1>5, <1>6, CommandAssumption DEF Attempted, Known

\* The next record of a command's request is one the lemmas speak of.
LEMMA RecordOfType ==
    ASSUME JournalOK(scan), NEW c \in Commands, NEW kind
    PROVE  Appendable(RecordOf(c, kind)) /\ RecordOf(c, kind).req = c.req /\ RecordOf(c, kind).kind = kind
  <1>1. c.req \in Requests
    BY CommandType
  <1>2. scan.reqs[c.req] \in WorkingRequest \cup {None}
    BY <1>1 DEF JournalOK, Journal
  <1>3. (IF Known(scan, c.req) THEN scan.reqs[c.req].seq + 1 ELSE 1) \in Nat
    BY <1>2 DEF Known, WorkingRequest
  <1> QED BY <1>1, <1>3 DEF RecordOf, Appendable
==============================================================================
