------------------------- MODULE CommandBridgeProofs -------------------------
(***************************************************************************)
(* The safety of the Stage 7A consumer, for any commands and streams, any  *)
(* page sizes, failing appends and Redis calls, crashes and reopened       *)
(* journals.  Three invariants, each over the one before:                  *)
(*                                                                         *)
(*   EffectInv   the provider is asked at most once for a request, and     *)
(*               only with its dispatch attempt on disk.  Nothing in the   *)
(*               consumer's memory takes part: the journal remembers an    *)
(*               attempt for good, and admission stops at one;             *)
(*   JournalInv  every record that can reach the file fits it, and one     *)
(*               lifecycle is open at a time;                              *)
(*   AnswerInv   what memory, ack stream, pending list and blocked entries *)
(*               say of each other.                                        *)
(***************************************************************************)
EXTENDS CommandBridge, PaperAdmissionProofs, ConsumerGroupProofs

DeliveryOK ==
    /\ stream \in Streams
    /\ delivered \in 0..Len(stream)
    /\ pel \subseteq Entries
    /\ batch \subseteq Entries

EffectsOK ==
    /\ effects \in [Requests -> Nat]
    /\ \A r \in Requests : effects[r] # 0 =>
           effects[r] = 1 /\ Attempted(disk, r) /\ Attempted(scan, r)

AdmitTodos == {<<>>, <<"DispatchAttemptRecorded">>,
               <<"RequestAccepted", "DispatchAttemptRecorded">>}

\* The entry in hand: admission has not asked the provider yet, and has the
\* attempt on record once nothing is left to append.
InHandOK(c) ==
    /\ c.stage \in {"admit", "outcome", "finalize"} =>
           c.entry \in Entries /\ stream[c.entry] \in Commands
    /\ c.stage = "admit" =>
           /\ c.todo \in AdmitTodos
           /\ effects[stream[c.entry].req] = 0
           /\ c.todo = <<>> => /\ Attempted(disk, stream[c.entry].req)
                               /\ Attempted(scan, stream[c.entry].req)

CurOK == cur # None => InHandOK(cur)

EffectInv ==
    /\ JournalOK(disk)
    /\ JournalOK(scan)
    /\ DeliveryOK
    /\ EffectsOK
    /\ CurOK

------------------------------------------------------------------------------
(* Entries and commands *)

\* An entry of the stream is a command or the poison entry.
LEMMA EntryType ==
    ASSUME stream \in Streams, NEW e \in Entries
    PROVE  stream[e] \in Commands \cup {Poison}
  BY BridgeAssumption DEF Entries

------------------------------------------------------------------------------
(* Steps that append nothing and ask nobody *)

\* The invariant does not depend on anything else, and an entry in hand is
\* only asked for while it is admitted.
LEMMA QuietKeeps ==
    ASSUME EffectInv, UNCHANGED <<disk, scan, stream, effects>>, DeliveryOK',
           cur' # None => InHandOK(cur)'
    PROVE  EffectInv'
  BY DEF EffectInv, JournalOK, ReadyOK, Known, EffectsOK, Attempted, CurOK

\* Leaving the entry, or going on with it to a stage outside the journal.
LEMMA AbortCur ==
    ASSUME NEW e, NEW kind, Abort(e, kind)
    PROVE  cur' = None /\ batch' = {}
  BY DEF Abort

LEMMA PendingCur ==
    ASSUME NEW e, Pending(e)
    PROVE  cur' = None /\ batch' \subseteq batch
  BY DEF Pending

LEMMA GoCur ==
    ASSUME NEW e, NEW stage, NEW todo, NEW status, Go(e, stage, todo, status)
    PROVE  /\ cur'.entry = e /\ cur'.stage = stage /\ cur'.todo = todo
           /\ batch' = batch
  BY DEF Go, loopVars

LEMMA LoopStep ==
    ASSUME EffectInv,
           \/ \E idle \in IdleSets : ClaimPage(idle)
           \/ ClaimFails \/ EndClaimPage \/ EndPoll
           \/ \E n \in 0..ReadCount, reply \in BOOLEAN : Poll(n, reply)
    PROVE  EffectInv'
  <1>1. cur = None /\ cur' = None /\ UNCHANGED <<disk, scan, stream, effects>>
    BY DEF ClaimPage, ClaimFails, EndClaimPage, EndPoll, Poll, Ready, journalVars, redisVars
  <1>2. DeliveryOK'
    <2>1. ASSUME NEW idle \in IdleSets, ClaimPage(idle) PROVE DeliveryOK'
      <3>1. idle \subseteq pel
        BY DEF IdleSets
      <3>2. batch' \subseteq idle
        BY <2>1 DEF ClaimPage, ClaimedPage, Lowest
      <3> QED BY <2>1, <3>1, <3>2 DEF EffectInv, DeliveryOK, ClaimPage, redisVars, Entries
    <2>2. ASSUME ClaimFails \/ EndClaimPage \/ EndPoll PROVE DeliveryOK'
      BY <2>2 DEF EffectInv, DeliveryOK, ClaimFails, EndClaimPage, EndPoll, redisVars, Entries
    <2>3. ASSUME NEW n \in 0..ReadCount, NEW reply \in BOOLEAN, Poll(n, reply) PROVE DeliveryOK'
      <3>1. Len(stream) \in Nat
        BY BridgeAssumption DEF EffectInv, DeliveryOK
      <3>2. delivered \in Nat /\ n \in Nat /\ delivered + n <= Len(stream)
        BY <2>3, <3>1, BridgeAssumption DEF EffectInv, DeliveryOK, Poll
      <3>3. (delivered + 1)..(delivered + n) \subseteq Entries
        BY <3>1, <3>2 DEF Entries
      <3>4. batch' \subseteq (delivered + 1)..(delivered + n)
        BY <2>3 DEF Poll
      <3>5. pel' = pel \cup (delivered + 1)..(delivered + n)
        BY <2>3 DEF Poll
      <3>6. stream' = stream /\ delivered' = delivered + n
        BY <2>3 DEF Poll
      <3> QED BY <3>1, <3>2, <3>3, <3>4, <3>5, <3>6 DEF EffectInv, DeliveryOK, Entries
    <2> QED BY <2>1, <2>2, <2>3
  <1> QED BY <1>1, <1>2, QuietKeeps

------------------------------------------------------------------------------
(* Handling an entry *)

\* The entry being handled decodes to a command.
LEMMA HandledCommand ==
    ASSUME EffectInv, NEW e \in batch, Command(e)
    PROVE  e \in Entries /\ stream[e] \in Commands /\ stream[e].req \in Requests
  <1>1. e \in Entries /\ stream \in Streams
    BY DEF EffectInv, DeliveryOK
  <1>2. stream[e] \in Commands
    BY <1>1, EntryType DEF Command
  <1> QED BY <1>1, <1>2, CommandType

\* Admission goes on only for a request the provider was never asked for:
\* the process's scan would know the attempt.
LEMMA AdmitStep ==
    ASSUME EffectInv, NEW e \in batch, AdmitFresh(e) \/ AdmitResumed(e)
    PROVE  EffectInv'
  <1> DEFINE r == stream[e].req
  <1>2. Command(e)
    BY DEF AdmitFresh, AdmitResumed, Admissible, Admitting
  <1>3. e \in Entries /\ stream[e] \in Commands /\ r \in Requests
    BY <1>2, HandledCommand
  <1>4. ~Attempted(scan, r)
    <2>1. CASE AdmitFresh(e)
      BY <2>1 DEF AdmitFresh, Fresh, Attempted
    <2>2. CASE AdmitResumed(e)
      <3>1. Known(scan, r) /\ scan.reqs[r].safety = "ReadyForFirstDispatch"
        BY <2>2 DEF AdmitResumed, Resumable, ExactDuplicate
      <3>2. scan.reqs[r].attempts = 0
        BY <1>3, <3>1 DEF EffectInv, JournalOK, ReadyOK
      <3> QED BY <3>2 DEF Attempted
    <2> QED BY <2>1, <2>2
  <1>5. effects[r] = 0
    BY <1>3, <1>4 DEF EffectInv, EffectsOK
  <1>6. \E todo \in AdmitTodos \ {<<>>} : Go(e, "admit", todo, None)
    BY DEF AdmitFresh, AdmitResumed, AdmitTodos
  <1>7. PICK todo \in AdmitTodos \ {<<>>} : Go(e, "admit", todo, None)
    BY <1>6
  <1>8. /\ cur'.entry = e /\ cur'.stage = "admit" /\ cur'.todo = todo /\ batch' = batch
    BY <1>7, GoCur
  <1>9. UNCHANGED <<disk, scan, stream, effects, delivered, pel>>
    BY DEF AdmitFresh, AdmitResumed, journalVars, redisVars
  <1>10. DeliveryOK'
    BY <1>8, <1>9 DEF EffectInv, DeliveryOK, Entries
  <1>11. InHandOK(cur)'
    BY <1>3, <1>5, <1>7, <1>8, <1>9 DEF InHandOK, Entries
  <1> QED BY <1>9, <1>10, <1>11, QuietKeeps

LEMMA HandleStep ==
    ASSUME EffectInv, NEW e \in batch, Handle(e)
    PROVE  EffectInv'
  <1>1. CASE AdmitFresh(e) \/ AdmitResumed(e)
    BY <1>1, AdmitStep
  <1>2. CASE HandlePoison(e) \/ HandleAnswered(e) \/ HandleMismatch(e) \/ RejectPolicy(e) \/ AdmitHold(e)
    <2>1. UNCHANGED <<disk, scan, stream, effects, delivered, pel>>
      BY <1>2 DEF HandlePoison, HandleAnswered, HandleMismatch, RejectPolicy, AdmitHold, journalVars, redisVars
    <2>2. \/ Pending(e)
          \/ \E stage \in {"ack", "dlq"} : \E status : Go(e, stage, <<>>, status)
      BY <1>2 DEF HandlePoison, HandleAnswered, HandleMismatch, RejectPolicy, AdmitHold
    <2>3. /\ batch' \subseteq batch
          /\ cur' # None => cur'.stage \in {"ack", "dlq"}
      BY <2>2, PendingCur, GoCur
    <2> QED BY <2>1, <2>3, QuietKeeps DEF EffectInv, DeliveryOK, Entries, InHandOK
  <1>3. CASE AdmitDuplicate(e)
    <2>1. UNCHANGED <<disk, scan, stream, effects, delivered, pel>>
      BY <1>3 DEF AdmitDuplicate, journalVars, redisVars
    <2>2. Pending(e) \/ Go(e, "finalize", FinalRecords(stream[e].req), None)
      BY <1>3 DEF AdmitDuplicate
    <2>3. e \in Entries /\ stream[e] \in Commands
      BY <1>3, HandledCommand DEF AdmitDuplicate, Admissible, Admitting
    <2>4. /\ batch' \subseteq batch
          /\ cur' # None => cur'.stage = "finalize" /\ cur'.entry = e
      BY <2>2, PendingCur, GoCur
    <2> QED BY <2>1, <2>3, <2>4, QuietKeeps DEF EffectInv, DeliveryOK, Entries, InHandOK
  <1> QED BY <1>1, <1>2, <1>3 DEF Handle

------------------------------------------------------------------------------
(* Appending *)

\* The record at hand is one the lemmas about Extend speak of.
LEMMA NextRecordType ==
    ASSUME EffectInv, NEW c \in Commands, CurCmd = c
    PROVE  Appendable(NextRecord) /\ NextRecord.req = c.req /\ NextRecord.kind = Head(cur.todo)
  BY RecordOfType DEF EffectInv, NextRecord

LEMMA AppendStep ==
    ASSUME EffectInv, NEW res \in AppendResults, AppendNext(res)
    PROVE  EffectInv'
  <1> DEFINE rec == NextRecord
             go == res = "ok" /\ scan'.ok
  <1>1. /\ cur # None /\ cur.stage \in {"admit", "outcome", "finalize"} /\ cur.todo # <<>>
        /\ AppendRecord(rec, res)
        /\ UNCHANGED <<stream, delivered, pel, effects>>
    BY DEF AppendNext, At, redisVars
  <1>0. cur.entry \in Entries /\ CurCmd \in Commands
    BY <1>1 DEF EffectInv, CurOK, InHandOK, CurCmd
  <1>2. PICK c \in Commands : CurCmd = c
    BY <1>0
  <1>3. Appendable(rec) /\ rec.req = c.req /\ rec.kind = Head(cur.todo)
    BY <1>2, NextRecordType
  <1>4. JournalOK(disk) /\ JournalOK(scan)
    BY DEF EffectInv
  <1> HIDE DEF rec
  <1>5. disk' \in {disk, Extend(disk, rec)} /\ scan' \in {scan, disk'}
    BY <1>1 DEF AppendRecord
  <1>6. /\ JournalOK(disk)' /\ JournalOK(scan)'
        /\ \A r \in Requests : Attempted(disk, r) => Attempted(disk, r)'
        /\ \A r \in Requests : Attempted(disk, r) /\ Attempted(scan, r) => Attempted(scan, r)'
    <2>1. /\ JournalOK(disk')
          /\ \A r \in Requests : Attempted(disk, r) => Attempted(disk', r)
      BY <1>3, <1>4, <1>5, ExtendKeeps
    <2>2. /\ JournalOK(scan')
          /\ \A r \in Requests : Attempted(disk, r) /\ Attempted(scan, r) => Attempted(scan', r)
      BY <1>4, <1>5, <2>1
    <2> QED BY <2>1, <2>2 DEF JournalOK, ReadyOK, Attempted, Known
  <1>7. EffectsOK'
    BY <1>1, <1>6 DEF EffectInv, EffectsOK
  <1>8. /\ batch' \subseteq batch
        /\ go => cur'.entry = cur.entry /\ cur'.stage = cur.stage /\ cur'.todo = Tail(cur.todo)
        /\ ~go => cur' = None
    <2>1. CASE go
      <3>1. Go(cur.entry, cur.stage, Tail(cur.todo), None)
        BY <2>1 DEF AppendNext
      <3> QED BY <2>1, <3>1, GoCur
    <2>2. CASE ~go
      <3>1. Abort(cur.entry, "Authority")
        BY <2>2 DEF AppendNext
      <3> QED BY <2>2, <3>1, AbortCur
    <2> QED BY <2>1, <2>2
  <1>9. DeliveryOK'
    BY <1>1, <1>8 DEF EffectInv, DeliveryOK, Entries
  <1>10. ASSUME go, cur.stage = "admit"
         PROVE  /\ Tail(cur.todo) \in AdmitTodos
                /\ Tail(cur.todo) = <<>> => Attempted(disk', c.req) /\ Attempted(scan', c.req)
    <2>1. CASE cur.todo = <<"DispatchAttemptRecorded">>
      <3>1. Tail(cur.todo) = <<>> /\ Head(cur.todo) = "DispatchAttemptRecorded"
        BY <2>1
      <3>2. disk' = Extend(disk, rec) /\ scan' = disk'
        BY <1>1, <1>10 DEF AppendRecord
      <3>3. Attempted(Extend(disk, rec), c.req)
        BY <1>3, <1>4, <1>10, <3>1, <3>2, ExtendAttempts DEF JournalOK
      <3> QED BY <3>1, <3>2, <3>3 DEF AdmitTodos
    <2>2. CASE cur.todo = <<"RequestAccepted", "DispatchAttemptRecorded">>
      BY <2>2 DEF AdmitTodos
    <2>3. cur.todo \in AdmitTodos
      BY <1>1, <1>10 DEF EffectInv, CurOK, InHandOK
    <2> QED BY <1>1, <2>1, <2>2, <2>3 DEF AdmitTodos
  <1>11. CurOK'
    <2>1. CASE go
      <3>1. c = stream'[cur'.entry]
        BY <1>1, <1>2, <1>8, <2>1 DEF CurCmd
      <3>2. cur.stage = "admit" => effects[c.req] = 0
        BY <1>1, <1>2 DEF EffectInv, CurOK, InHandOK, CurCmd
      <3> QED BY <1>0, <1>1, <1>8, <1>10, <2>1, <3>1, <3>2 DEF CurOK, InHandOK, Entries, Attempted, Known
    <2>2. CASE ~go
      BY <1>8, <2>2 DEF CurOK
    <2> QED BY <2>1, <2>2
  <1> QED BY <1>6, <1>7, <1>9, <1>11 DEF EffectInv

------------------------------------------------------------------------------
(* Asking the provider *)

\* The one step that has an effect: the attempt is on record by then, and it
\* is the first effect of the request.
LEMMA AskStep ==
    ASSUME EffectInv,
           \/ \E records \in OutcomeRecords("Place") \cup OutcomeRecords("Cancel") :
                  ProviderAnswers(records)
           \/ ProviderUncertain \/ ProviderMismatch
    PROVE  EffectInv'
  <1>1. /\ cur # None /\ cur.stage = "admit" /\ cur.todo = <<>> /\ Asked
        /\ UNCHANGED <<disk, scan, stream, delivered, pel>>
    BY DEF ProviderAnswers, ProviderUncertain, ProviderMismatch, AskNow, At, journalVars, redisVars
  <1>2. cur.entry \in Entries /\ stream[cur.entry] \in Commands
    BY <1>1 DEF EffectInv, CurOK, InHandOK
  <1>3. PICK c \in Commands : stream[cur.entry] = c
    BY <1>2
  <1>4. effects[c.req] = 0 /\ Attempted(disk, c.req) /\ Attempted(scan, c.req)
    BY <1>1, <1>3 DEF EffectInv, CurOK, InHandOK
  <1>5. effects' = [effects EXCEPT ![c.req] = 1]
    BY <1>1, <1>3, <1>4 DEF Asked, CurCmd
  <1>6. EffectsOK'
    <2>1. effects' \in [Requests -> Nat]
      BY <1>5 DEF EffectInv, EffectsOK
    <2>2. ASSUME NEW r \in Requests, effects'[r] # 0
          PROVE  effects'[r] = 1 /\ Attempted(disk, r) /\ Attempted(scan, r)
      <3>1. CASE r = c.req
        BY <1>4, <1>5, <3>1 DEF EffectInv, EffectsOK
      <3>2. CASE r # c.req
        BY <1>5, <2>2, <3>2 DEF EffectInv, EffectsOK
      <3> QED BY <3>1, <3>2
    <2> QED BY <1>1, <2>1, <2>2 DEF EffectsOK, Attempted, Known
  <1>7. /\ batch' \subseteq batch
        /\ cur' # None => cur'.entry = cur.entry /\ cur'.stage = "outcome"
    <2>1. \/ \E records : Go(cur.entry, "outcome", records, None)
          \/ Pending(cur.entry) \/ Abort(cur.entry, "Authority")
      BY DEF ProviderAnswers, ProviderUncertain, ProviderMismatch
    <2> QED BY <2>1, GoCur, PendingCur, AbortCur
  <1>8. DeliveryOK'
    BY <1>1, <1>7 DEF EffectInv, DeliveryOK, Entries
  <1>9. CurOK'
    BY <1>1, <1>2, <1>7 DEF CurOK, InHandOK, Entries
  <1>10. JournalOK(disk)' /\ JournalOK(scan)'
    BY <1>1 DEF EffectInv, JournalOK, ReadyOK, Known
  <1> QED BY <1>6, <1>8, <1>9, <1>10 DEF EffectInv

------------------------------------------------------------------------------
(* The rest of the entry's way, time and the process *)

LEMMA SettleStep ==
    ASSUME EffectInv,
           \/ OutcomeRecorded \/ Finalized
           \/ \E res \in RedisResults : PublishAck(res) \/ PublishDlq(res) \/ Xack(res)
    PROVE  EffectInv'
  <1>1. UNCHANGED <<disk, scan, stream, delivered, effects>> /\ pel' \subseteq pel
    BY DEF OutcomeRecorded, Finalized, PublishAck, PublishDlq, Xack, journalVars, redisVars
  <1>2. /\ batch' \subseteq batch
        /\ cur' # None => \/ cur'.stage \in {"ack", "xack"}
                          \/ /\ cur'.stage = "finalize" /\ cur'.entry = cur.entry
                             /\ cur # None /\ cur.stage = "outcome"
    <2>1. CASE OutcomeRecorded
      <3>1. /\ cur # None /\ cur.stage = "outcome"
            /\ \/ \E todo : Go(cur.entry, "finalize", todo, None)
               \/ Pending(cur.entry)
        BY <2>1 DEF OutcomeRecorded, At
      <3> QED BY <3>1, GoCur, PendingCur
    <2>2. CASE Finalized
      <3>1. Go(cur.entry, "ack", <<>>, "Accepted")
        BY <2>2 DEF Finalized
      <3> QED BY <3>1, GoCur
    <2>3. ASSUME NEW res \in RedisResults, PublishAck(res) \/ PublishDlq(res)
          PROVE  batch' \subseteq batch /\ (cur' # None => cur'.stage = "xack")
      <3>1. \/ \E status : Go(cur.entry, "xack", <<>>, status)
            \/ \E kind : Abort(cur.entry, kind)
        BY <2>3 DEF PublishAck, PublishDlq
      <3> QED BY <3>1, GoCur, AbortCur
    <2>4. ASSUME NEW res \in RedisResults, Xack(res)
          PROVE  batch' \subseteq batch /\ cur' = None
      BY <2>4, AbortCur DEF Xack
    <2> QED BY <2>1, <2>2, <2>3, <2>4
  <1>3. cur # None /\ cur.stage = "outcome" => cur.entry \in Entries /\ stream[cur.entry] \in Commands
    BY DEF EffectInv, CurOK, InHandOK
  <1>4. DeliveryOK'
    BY <1>1, <1>2 DEF EffectInv, DeliveryOK, Entries
  <1>5. cur' # None => InHandOK(cur)'
    BY <1>1, <1>2, <1>3 DEF InHandOK, Entries
  <1> QED BY <1>1, <1>4, <1>5, QuietKeeps

LEMMA ProcessStep ==
    ASSUME EffectInv, (\E c \in Commands : Expire(c)) \/ Crash \/ Restart \/ UNCHANGED vars
    PROVE  EffectInv'
  <1>1. CASE (\E c \in Commands : Expire(c)) \/ UNCHANGED vars
    <2>1. UNCHANGED <<disk, scan, stream, delivered, pel, batch, cur, effects>>
      BY <1>1 DEF Expire, vars, journalVars, redisVars, loopVars
    <2> QED BY <2>1 DEF EffectInv, JournalOK, ReadyOK, Known, DeliveryOK, Entries, EffectsOK,
                        Attempted, CurOK, InHandOK
  <1>2. CASE Crash
    <2>1. UNCHANGED <<disk, scan, stream, delivered, pel, effects>> /\ cur' = None /\ batch' = {}
      BY <1>2 DEF Crash, Forget, journalVars, redisVars
    <2> QED BY <2>1, QuietKeeps DEF EffectInv, DeliveryOK, Entries
  <1>3. CASE Restart
    <2>1. UNCHANGED <<disk, stream, delivered, pel, batch, cur, effects>> /\ scan' = disk
      BY <1>3 DEF Restart, OpenJournal, redisVars, loopVars
    <2> QED BY <2>1 DEF EffectInv, JournalOK, ReadyOK, Known, DeliveryOK, Entries, EffectsOK,
                        Attempted, CurOK, InHandOK
  <1> QED BY <1>1, <1>2, <1>3

------------------------------------------------------------------------------
(* The theorems *)

LEMMA EffectInitially == Init => EffectInv
  <1> SUFFICES ASSUME Init PROVE EffectInv
    OBVIOUS
  <1>1. EmptyJournal \in Journal /\ \A r \in Requests : ~Known(EmptyJournal, r)
    BY DEF EmptyJournal, Journal, Known
  <1>2. disk = EmptyJournal /\ scan = EmptyJournal
    BY DEF Init, JournalInit
  <1>3. JournalOK(disk) /\ JournalOK(scan)
    BY <1>1, <1>2 DEF JournalOK, ReadyOK
  <1>4. DeliveryOK
    BY BridgeAssumption DEF Init, MemoryInit, DeliveryOK
  <1>5. EffectsOK /\ CurOK
    BY DEF Init, MemoryInit, EffectsOK, CurOK
  <1> QED BY <1>3, <1>4, <1>5 DEF EffectInv

LEMMA EffectStep == EffectInv /\ [Next]_vars => EffectInv'
  <1> SUFFICES ASSUME EffectInv, [Next]_vars PROVE EffectInv'
    OBVIOUS
  <1> QED BY LoopStep, HandleStep, AppendStep, AskStep, SettleStep, ProcessStep DEF Next

\* The invariant that ties the calls of paper_outcome to the attempts
\* prepare_stage6d_paper_dispatch put on disk.
THEOREM EffectInvariant == Spec => []EffectInv
  BY EffectInitially, EffectStep, PTL DEF Spec

\* The provider is asked at most once for a request, however often its entry
\* is redelivered and whatever fails or crashes in between.
THEOREM NeverTwoEffects == Spec => []AtMostOneEffect
  <1>1. EffectInv => AtMostOneEffect
    BY DEF EffectInv, EffectsOK, AtMostOneEffect
  <1> QED BY <1>1, EffectInvariant, PTL

\* Whatever was asked of the provider has its acceptance and its dispatch
\* attempt on disk.
THEOREM EffectsAreJournaled == Spec => []EffectIsJournaled
  <1>1. EffectInv => EffectIsJournaled
    BY DEF EffectInv, EffectsOK, EffectIsJournaled, Attempted
  <1> QED BY <1>1, EffectInvariant, PTL

------------------------------------------------------------------------------
(***************************************************************************)
(* The journal stays replayable and holds one open lifecycle.  append does *)
(* not look at what a record means: that each one fits is due to what the  *)
(* stage before it left in the scan, and to the frontier check, which lets *)
(* a record reach the file only while the file is what was scanned.        *)
(***************************************************************************)

\* A request that reads as never dispatched has nothing else on record.
UntouchedOK(j) ==
    \A r \in Requests : Known(j, r) /\ j.reqs[r].safety = "ReadyForFirstDispatch" =>
        j.reqs[r].broker = None /\ ~j.reqs[r].cancel /\ ~j.reqs[r].final

\* Only the provider's answer forbids another dispatch.
ForbiddenOK(j) ==
    \A r \in Requests : Known(j, r) /\ j.reqs[r].safety = "DispatchForbidden" => effects[r] = 1

OneOpen(j) == \A r, s \in Requests : Open(j, r) /\ Open(j, s) => r = s

FilesOK ==
    /\ disk.ok
    /\ disk = scan \/ uncertain
    /\ UntouchedOK(disk) /\ UntouchedOK(scan)
    /\ ForbiddenOK(disk) /\ ForbiddenOK(scan)
    /\ \A r \in Requests : Finished(scan, r) => Finished(disk, r)
    /\ OneOpen(disk)

\* The command is on record and not final.
Mine(c) == Known(scan, c.req) /\ scan.reqs[c.req].cmd = c /\ ~scan.reqs[c.req].final

\* The command's dispatch is the last thing on record of its request.
Dispatched(c) ==
    /\ Mine(c)
    /\ scan.reqs[c.req].safety = "ReconciliationRequired"
    /\ scan.reqs[c.req].broker = None /\ ~scan.reqs[c.req].cancel

\* What the scan says of the command in hand, by what is left to append.
RecordsOK(h, c) ==
    /\ h.stage = "admit" =>
         /\ h.todo = <<"RequestAccepted", "DispatchAttemptRecorded">> => Fresh(c)
         /\ h.todo = <<"DispatchAttemptRecorded">> =>
                Mine(c) /\ scan.reqs[c.req].safety = "ReadyForFirstDispatch"
         /\ h.todo = <<>> => Dispatched(c)
    /\ h.stage = "outcome" =>
         /\ Mine(c) /\ Attempted(scan, c.req) /\ effects[c.req] = 1
         /\ h.todo \in OutcomeRecords(c.action) \cup {<<>>, <<"BrokerTradeObserved">>}
         /\ h.todo \in OutcomeRecords(c.action) => Dispatched(c)
         /\ h.todo = <<"BrokerTradeObserved">> => c.action = "Place" /\ scan.reqs[c.req].broker = c.req
    /\ h.stage = "finalize" =>
         /\ effects[c.req] = 1
         /\ h.todo \in {<<>>, <<"RequestFinalized">>}
         /\ h.todo = <<"RequestFinalized">> => Mine(c)
         /\ h.todo = <<>> => Finished(scan, c.req)

InHandRecordsOK == cur # None => up /\ RecordsOK(cur, stream[cur.entry])

JournalInv == EffectInv /\ FilesOK /\ InHandRecordsOK

\* The records of an outcome: one, or an order and its trade.
LEMMA OutcomeHead ==
    ASSUME NEW action \in {"Place", "Cancel"}, NEW t \in OutcomeRecords(action)
    PROVE  /\ t # <<>> /\ Tail(t) \notin OutcomeRecords(action)
           /\ Head(t) \in EventsFor(action) \ {"DispatchAttemptRecorded", "RequestFinalized"}
           /\ \/ Tail(t) = <<>>
              \/ /\ action = "Place" /\ Head(t) = "BrokerOrderObserved"
                 /\ Tail(t) = <<"BrokerTradeObserved">>
  <1>1. \/ /\ action = "Place"
           /\ \/ t \in {<<"BrokerOrderObserved">>, <<"BrokerOrderFound">>, <<"NoBrokerOrderFound">>,
                        <<"Inconclusive">>}
              \/ t = <<"BrokerOrderObserved", "BrokerTradeObserved">>
        \/ action = "Cancel" /\ t \in {<<"CancelOutcomeObserved">>, <<"Inconclusive">>}
    BY DEF OutcomeRecords
  <1>2. OutcomeRecords(action) \subseteq
           {<<"BrokerOrderObserved">>, <<"BrokerOrderFound">>, <<"NoBrokerOrderFound">>,
            <<"Inconclusive">>, <<"CancelOutcomeObserved">>,
            <<"BrokerOrderObserved", "BrokerTradeObserved">>}
    BY DEF OutcomeRecords
  <1>3. <<>> \notin OutcomeRecords(action) /\ <<"BrokerTradeObserved">> \notin OutcomeRecords(action)
    BY <1>2
  <1>4. CASE t = <<"BrokerOrderObserved", "BrokerTradeObserved">>
    <2>1. Head(t) = "BrokerOrderObserved" /\ Tail(t) = <<"BrokerTradeObserved">> /\ t # <<>>
      BY <1>4
    <2>2. action = "Place"
      BY <1>1, <1>4
    <2> QED BY <1>3, <2>1, <2>2 DEF EventsFor, Observations
  <1>5. CASE \E k \in Observations \cup {"NoBrokerOrderFound", "Inconclusive"} :
               t = <<k>> /\ action = "Place"
    <2>1. PICK k \in Observations \cup {"NoBrokerOrderFound", "Inconclusive"} :
               t = <<k>> /\ action = "Place"
      BY <1>5
    <2>2. Head(t) = k /\ Tail(t) = <<>> /\ t # <<>>
      BY <2>1
    <2> QED BY <1>3, <2>1, <2>2 DEF EventsFor, Observations
  <1>6. CASE \E k \in {"CancelOutcomeObserved", "Inconclusive"} : t = <<k>> /\ action = "Cancel"
    <2>1. PICK k \in {"CancelOutcomeObserved", "Inconclusive"} : t = <<k>> /\ action = "Cancel"
      BY <1>6
    <2>2. Head(t) = k /\ Tail(t) = <<>> /\ t # <<>>
      BY <2>1
    <2> QED BY <1>3, <2>1, <2>2 DEF EventsFor
  <1> QED BY <1>1, <1>4, <1>5, <1>6 DEF Observations

\* A record that fits keeps the file replayable and, when an acceptance is
\* only appended to a journal without an open request, one lifecycle open.
LEMMA FitKeepsFiles ==
    ASSUME NEW j \in Journal, j.ok, UntouchedOK(j), ForbiddenOK(j), OneOpen(j),
           NEW rec, Appendable(rec), Fits(j, rec),
           rec.kind = "RequestAccepted" => \A r \in Requests : ~Open(j, r),
           rec.kind \notin {"RequestAccepted", "DispatchAttemptRecorded", "NoBrokerOrderFound"} =>
               effects[rec.req] = 1
    PROVE  LET k == Extend(j, rec)
           IN  /\ k.ok /\ UntouchedOK(k) /\ ForbiddenOK(k) /\ OneOpen(k)
               /\ \A r \in Requests : Finished(j, r) => Finished(k, r)
  <1> DEFINE k == Extend(j, rec)
             q == rec.req
             w == j.reqs[q]
             v == k.reqs[q]
  <1>1. k.ok /\ q \in Requests
    BY DEF Extend, Appendable
  <1>2. \A r \in Requests \ {q} : k.reqs[r] = j.reqs[r]
    BY ExtendReqs
  <1>3. CASE w = None
    <2>1. rec.kind = "RequestAccepted" /\ v = FromFirst(rec)
      BY <1>3, ExtendOwn
    <2> HIDE DEF k
    <2>2. v.safety = "ReadyForFirstDispatch" /\ v.broker = None /\ ~v.cancel /\ ~v.final
      BY <2>1 DEF FromFirst
    <2>3. UntouchedOK(k) /\ ForbiddenOK(k)
      BY <1>2, <2>2 DEF UntouchedOK, ForbiddenOK, Known
    <2>4. \A r \in Requests : Open(k, r) => r = q
      BY <1>2, <2>1 DEF Open, Known
    <2>5. \A r \in Requests : Finished(j, r) => Finished(k, r)
      BY <1>2, <1>3 DEF Finished, Known
    <2> QED BY <1>1, <2>3, <2>4, <2>5 DEF OneOpen, k
  <1>4. CASE w # None
    <2>1. /\ w \in WorkingRequest /\ CanApply(w, rec) /\ ~w.final
          /\ v.safety = SafetyAfter(w, rec.kind)
      BY <1>4, ExtendOwn
    <2> HIDE DEF k
    <2>2. v.safety # "ReadyForFirstDispatch"
      BY <2>1 DEF SafetyAfter, CanApply
    <2>3. v.safety = "DispatchForbidden" =>
              rec.kind \notin {"RequestAccepted", "DispatchAttemptRecorded", "NoBrokerOrderFound"}
      BY <2>1 DEF SafetyAfter, CanApply, EventsFor, Observations
    <2>4. UntouchedOK(k) /\ ForbiddenOK(k)
      BY <1>2, <2>2, <2>3 DEF UntouchedOK, ForbiddenOK, Known
    <2>5. Open(j, q) /\ \A r \in Requests : Open(k, r) => Open(j, r)
      BY <1>2, <1>4, <2>1 DEF Open, Known
    <2>6. \A r \in Requests : Finished(j, r) => Finished(k, r)
      BY <1>2, <2>1 DEF Finished, Known
    <2> QED BY <1>1, <2>4, <2>5, <2>6 DEF OneOpen, k
  <1> QED BY <1>3, <1>4

------------------------------------------------------------------------------
(* The record at hand fits the scan *)

\* What is in hand while the journal is written: a command, and its next record.
LEMMA InHandCommand ==
    ASSUME JournalInv, cur # None, cur.stage \in {"admit", "outcome", "finalize"}
    PROVE  /\ cur.entry \in Entries /\ CurCmd \in Commands
           /\ CurCmd.req \in Requests /\ CurCmd.action \in {"Place", "Cancel"}
           /\ RecordsOK(cur, CurCmd)
           /\ Appendable(NextRecord) /\ NextRecord.req = CurCmd.req
           /\ NextRecord.kind = Head(cur.todo) /\ NextRecord.cmd = CurCmd
           /\ NextRecord.order = CurCmd.req
           /\ NextRecord.seq = IF Known(scan, CurCmd.req) THEN scan.reqs[CurCmd.req].seq + 1 ELSE 1
  <1>1. cur.entry \in Entries /\ CurCmd \in Commands
    BY DEF JournalInv, EffectInv, CurOK, InHandOK, CurCmd
  <1>2. CurCmd.req \in Requests /\ CurCmd.action \in {"Place", "Cancel"}
    BY <1>1, CommandAssumption
  <1>3. Appendable(NextRecord) /\ NextRecord.req = CurCmd.req /\ NextRecord.kind = Head(cur.todo)
    BY <1>1, NextRecordType DEF JournalInv
  <1>4. /\ NextRecord.cmd = CurCmd /\ NextRecord.order = CurCmd.req
        /\ NextRecord.seq = IF Known(scan, CurCmd.req) THEN scan.reqs[CurCmd.req].seq + 1 ELSE 1
    BY DEF NextRecord, RecordOf
  <1> QED BY <1>1, <1>2, <1>3, <1>4 DEF JournalInv, InHandRecordsOK, CurCmd

\* A record of a command whose request is on record and not final, when replay
\* has nothing against its kind.
LEMMA MineFits ==
    ASSUME NEW c \in Commands, c.req \in Requests, scan \in Journal, scan.ok, Mine(c),
           NEW rec, Appendable(rec), rec.req = c.req, rec.seq = scan.reqs[c.req].seq + 1,
           LET w == scan.reqs[c.req]
           IN  /\ rec.kind \in EventsFor(c.action)
               /\ rec.kind = "DispatchAttemptRecorded" => DispatchAllowed(w, rec)
               /\ rec.kind \in Observations => w.attempts = 1 /\ EstablishesOrder(w, rec)
               /\ rec.kind \in {"NoBrokerOrderFound", "Inconclusive"} =>
                      w.attempts = 1 /\ w.safety = "ReconciliationRequired" /\ w.broker = None
               /\ rec.kind = "CancelOutcomeObserved" => w.attempts = 1 /\ ~w.cancel
    PROVE  Fits(scan, rec)
  <1> DEFINE w == scan.reqs[c.req]
  <1>1. w # None /\ w.cmd = c /\ ~w.final
    BY DEF Mine, Known
  <1>2. CanApply(w, rec)
    BY <1>1 DEF CanApply
  <1> QED BY <1>1, <1>2 DEF Fits

\* Whatever the stage, the record at hand fits what was scanned; an acceptance
\* meets no open request, and an outcome or a finalization follows an effect.
LEMMA NextFits ==
    ASSUME JournalInv, cur # None, cur.stage \in {"admit", "outcome", "finalize"},
           cur.todo # <<>>, scan.ok
    PROVE  /\ Fits(scan, NextRecord)
           /\ NextRecord.kind = "RequestAccepted" => \A r \in Requests : ~Open(scan, r)
           /\ NextRecord.kind \notin {"RequestAccepted", "DispatchAttemptRecorded"} =>
                  effects[CurCmd.req] = 1
  <1> DEFINE c == CurCmd
             rec == NextRecord
             w == scan.reqs[c.req]
  <1>0. /\ c \in Commands /\ c.req \in Requests /\ c.action \in {"Place", "Cancel"}
        /\ RecordsOK(cur, c)
        /\ Appendable(rec) /\ rec.req = c.req /\ rec.kind = Head(cur.todo) /\ rec.order = c.req
        /\ rec.seq = IF Known(scan, c.req) THEN w.seq + 1 ELSE 1
    BY InHandCommand
  <1>1. scan \in Journal /\ ReadyOK(scan)
    BY DEF JournalInv, EffectInv, JournalOK
  <1> HIDE DEF rec, c
  <1>2. CASE cur.stage = "admit"
    <2>0. cur.todo \in AdmitTodos
      BY <1>2 DEF JournalInv, EffectInv, CurOK, InHandOK
    <2>1. CASE cur.todo = <<"RequestAccepted", "DispatchAttemptRecorded">>
      <3>1. rec.kind = "RequestAccepted"
        BY <1>0, <2>1
      <3>2. Fresh(c)
        BY <1>0, <1>2, <2>1 DEF RecordsOK
      <3>3. Fits(scan, rec)
        BY <1>0, <3>1, <3>2 DEF Fits, StartsRequest, Fresh, Known
      <3> QED BY <3>1, <3>2, <3>3 DEF Fresh, rec
    <2>2. CASE cur.todo = <<"DispatchAttemptRecorded">>
      <3>1. rec.kind = "DispatchAttemptRecorded"
        BY <1>0, <2>2
      <3>2. Mine(c) /\ w.safety = "ReadyForFirstDispatch"
        BY <1>0, <1>2, <2>2 DEF RecordsOK
      <3>3. w.attempts = 0
        BY <1>0, <1>1, <3>2 DEF ReadyOK, Mine
      <3>4. DispatchAllowed(w, rec)
        BY <1>0, <3>2, <3>3 DEF DispatchAllowed, Appendable
      <3>5. Fits(scan, rec)
        BY <1>0, <1>1, <3>1, <3>2, <3>4, MineFits DEF EventsFor, Observations, Mine
      <3> QED BY <3>1, <3>5 DEF rec
    <2> QED BY <2>0, <2>1, <2>2 DEF AdmitTodos
  <1>3. CASE cur.stage = "outcome"
    <2>1. Mine(c) /\ w.attempts = 1 /\ effects[c.req] = 1
      BY <1>0, <1>3 DEF RecordsOK, Attempted
    <2>2. CASE cur.todo \in OutcomeRecords(c.action)
      <3>1. rec.kind \in EventsFor(c.action) \ {"DispatchAttemptRecorded", "RequestFinalized"}
        BY <1>0, <2>2, OutcomeHead
      <3>2. Dispatched(c)
        BY <1>0, <1>3, <2>2 DEF RecordsOK
      <3>3. Fits(scan, rec)
        BY <1>0, <1>1, <2>1, <3>1, <3>2, MineFits DEF Mine, Dispatched, EstablishesOrder
      <3>4. rec.kind # "RequestAccepted"
        BY <3>1 DEF EventsFor, Observations
      <3> QED BY <2>1, <3>3, <3>4 DEF rec, c
    <2>3. CASE cur.todo = <<"BrokerTradeObserved">>
      <3>1. rec.kind = "BrokerTradeObserved"
        BY <1>0, <2>3
      <3>2. c.action = "Place" /\ w.broker = c.req
        BY <1>0, <1>3, <2>3 DEF RecordsOK
      <3>3. Fits(scan, rec)
        BY <1>0, <1>1, <2>1, <3>1, <3>2, MineFits DEF Mine, EstablishesOrder, EventsFor, Observations
      <3> QED BY <2>1, <3>1, <3>3 DEF rec, c
    <2> QED BY <1>0, <1>3, <2>2, <2>3 DEF RecordsOK
  <1>4. CASE cur.stage = "finalize"
    <2>1. cur.todo = <<"RequestFinalized">> /\ Mine(c) /\ effects[c.req] = 1
      BY <1>0, <1>4 DEF RecordsOK
    <2>2. rec.kind = "RequestFinalized"
      BY <1>0, <2>1
    <2>3. Fits(scan, rec)
      BY <1>0, <1>1, <2>1, <2>2, MineFits DEF Mine, EventsFor, Observations
    <2> QED BY <2>1, <2>2, <2>3 DEF rec, c
  <1> QED BY <1>2, <1>3, <1>4

------------------------------------------------------------------------------
(* Appending it *)

\* The state of the command's request once the record at hand is on disk.
LEMMA AppendedState ==
    ASSUME JournalInv, cur # None, cur.stage \in {"admit", "outcome", "finalize"},
           cur.todo # <<>>, scan.ok
    PROVE  LET w == scan.reqs[CurCmd.req]
               v == Extend(scan, NextRecord).reqs[CurCmd.req]
           IN  /\ v \in WorkingRequest /\ v # None /\ v.cmd = CurCmd
               /\ v.final = (NextRecord.kind = "RequestFinalized")
               /\ NextRecord.kind = "RequestAccepted" => v.safety = "ReadyForFirstDispatch"
               /\ NextRecord.kind # "RequestAccepted" =>
                     /\ Mine(CurCmd)
                     /\ v.safety = SafetyAfter(w, NextRecord.kind)
                     /\ v.attempts = IF NextRecord.kind = "DispatchAttemptRecorded" THEN 1 ELSE w.attempts
                     /\ v.broker = IF NextRecord.kind \in Observations THEN CurCmd.req ELSE w.broker
                     /\ v.cancel = (w.cancel \/ NextRecord.kind = "CancelOutcomeObserved")
  <1> DEFINE c == CurCmd
             rec == NextRecord
             w == scan.reqs[c.req]
             v == Extend(scan, rec).reqs[c.req]
  <1>0. /\ c \in Commands /\ c.req \in Requests /\ RecordsOK(cur, c)
        /\ Appendable(rec) /\ rec.req = c.req /\ rec.cmd = c /\ rec.order = c.req
        /\ rec.kind = Head(cur.todo) /\ c.action \in {"Place", "Cancel"}
    BY InHandCommand
  <1>1. Fits(scan, rec) /\ scan \in Journal
    BY NextFits DEF JournalInv, EffectInv, JournalOK
  <1>2. rec.kind # "RequestAccepted" => Mine(c)
    <2>1. CASE cur.stage = "admit"
      <3>1. cur.todo \in AdmitTodos
        BY <2>1 DEF JournalInv, EffectInv, CurOK, InHandOK
      <3>2. cur.todo = <<"RequestAccepted", "DispatchAttemptRecorded">> \/ Mine(c)
        BY <1>0, <2>1, <3>1 DEF AdmitTodos, RecordsOK
      <3> QED BY <1>0, <3>2
    <2>2. CASE cur.stage # "admit"
      BY <1>0, <2>2 DEF RecordsOK
    <2> QED BY <2>1, <2>2
  <1> HIDE DEF c, rec
  <1>3. CASE rec.kind = "RequestAccepted"
    <2>1. w = None
      <3>1. w # None => CanApply(w, rec) /\ w \in WorkingRequest
        BY <1>0, <1>1 DEF Fits, Journal
      <3> QED BY <1>3, <3>1 DEF CanApply, EventsFor, Observations
    <2>2. v \in WorkingRequest /\ Known(Extend(scan, rec), c.req) /\ v = FromFirst(rec)
      BY <1>0, <1>1, <2>1, ExtendOwn
    <2> HIDE DEF v
    <2>3. v.cmd = c /\ v.final = FALSE /\ v.safety = "ReadyForFirstDispatch"
      BY <1>0, <2>2 DEF FromFirst
    <2>4. v.final = (rec.kind = "RequestFinalized") /\ v # None
      BY <1>3, <2>2, <2>3 DEF Known, v
    <2> QED BY <1>3, <2>2, <2>3, <2>4 DEF v, c, rec
  <1>4. CASE rec.kind # "RequestAccepted"
    <2>1. Mine(c) /\ w # None
      BY <1>2, <1>4 DEF Mine, Known
    <2>2. /\ v \in WorkingRequest /\ Known(Extend(scan, rec), c.req)
          /\ v.cmd = w.cmd /\ v.safety = SafetyAfter(w, rec.kind)
          /\ v.attempts = IF rec.kind = "DispatchAttemptRecorded" THEN 1 ELSE w.attempts
          /\ v.broker = IF rec.kind \in Observations THEN c.req ELSE w.broker
          /\ v.cancel = (w.cancel \/ rec.kind = "CancelOutcomeObserved")
          /\ v.final = (rec.kind = "RequestFinalized")
      BY <1>0, <1>1, <2>1, ExtendOwn
    <2>3. v.cmd = c
      BY <2>1, <2>2 DEF Mine
    <2> QED BY <1>4, <2>1, <2>2, <2>3 DEF Known, v, c, rec
  <1> QED BY <1>3, <1>4

\* What may be left to append can be told apart.
LEMMA Todos ==
    LET acc == <<"RequestAccepted", "DispatchAttemptRecorded">>
        dis == <<"DispatchAttemptRecorded">>
        trd == <<"BrokerTradeObserved">>
    IN  acc # dis /\ acc # <<>> /\ dis # <<>> /\ trd # <<>>
  OBVIOUS

\* A successful append leaves the scan as the next stage of the entry needs it.
LEMMA AppendedRecords ==
    ASSUME JournalInv, cur # None, cur.stage \in {"admit", "outcome", "finalize"},
           cur.todo # <<>>, scan.ok,
           scan' = Extend(scan, NextRecord), UNCHANGED <<stream, effects>>,
           cur'.entry = cur.entry, cur'.stage = cur.stage, cur'.todo = Tail(cur.todo)
    PROVE  RecordsOK(cur, stream[cur.entry])'
  <1> DEFINE c == CurCmd
             kind == Head(cur.todo)
             w == scan.reqs[c.req]
             v == scan'.reqs[c.req]
  <1>0. /\ c \in Commands /\ c.req \in Requests /\ RecordsOK(cur, c) /\ NextRecord.kind = kind
        /\ c.action \in {"Place", "Cancel"}
    BY InHandCommand
  <1>1. /\ v \in WorkingRequest /\ v # None /\ v.cmd = c
        /\ v.final = (kind = "RequestFinalized")
        /\ kind = "RequestAccepted" => v.safety = "ReadyForFirstDispatch"
        /\ kind # "RequestAccepted" =>
              /\ Mine(c)
              /\ v.safety = SafetyAfter(w, kind)
              /\ v.attempts = IF kind = "DispatchAttemptRecorded" THEN 1 ELSE w.attempts
              /\ v.broker = IF kind \in Observations THEN c.req ELSE w.broker
              /\ v.cancel = (w.cancel \/ kind = "CancelOutcomeObserved")
    BY <1>0, AppendedState
  <1>2. UntouchedOK(scan)
    BY DEF JournalInv, FilesOK
  <1>3. stream'[cur'.entry] = c
    BY DEF CurCmd
  <1> HIDE DEF c, kind
  <1>4. CASE cur.stage = "admit"
    <2>0. cur.todo \in AdmitTodos
      BY <1>4 DEF JournalInv, EffectInv, CurOK, InHandOK
    <2>1. CASE cur.todo = <<"RequestAccepted", "DispatchAttemptRecorded">>
      <3>1. kind = "RequestAccepted" /\ cur'.todo = <<"DispatchAttemptRecorded">>
        BY <2>1 DEF kind
      <3>2. v # None /\ v.cmd = c /\ ~v.final /\ v.safety = "ReadyForFirstDispatch"
        BY <1>1, <3>1
      <3> QED BY <1>3, <1>4, <3>1, <3>2, Todos DEF RecordsOK, Mine, Known
    <2>2. CASE cur.todo = <<"DispatchAttemptRecorded">>
      <3>1. kind = "DispatchAttemptRecorded" /\ cur'.todo = <<>>
        BY <2>2 DEF kind
      <3>2. Mine(c) /\ w.safety = "ReadyForFirstDispatch"
        BY <1>0, <1>4, <2>2 DEF RecordsOK
      <3>3. w.broker = None /\ ~w.cancel
        BY <1>0, <1>2, <3>2 DEF UntouchedOK, Mine
      <3>4. /\ v # None /\ v.cmd = c /\ ~v.final /\ v.safety = "ReconciliationRequired"
            /\ v.broker = None /\ ~v.cancel
        BY <1>1, <3>1, <3>3 DEF SafetyAfter, Observations
      <3> QED BY <1>3, <1>4, <3>1, <3>4, Todos DEF RecordsOK, Dispatched, Mine, Known
    <2> QED BY <2>0, <2>1, <2>2 DEF AdmitTodos
  <1>5. CASE cur.stage = "outcome"
    <2>1. Mine(c) /\ w.attempts = 1 /\ effects[c.req] = 1
      BY <1>0, <1>5 DEF RecordsOK, Attempted
    <2>2. CASE cur.todo \in OutcomeRecords(c.action)
      <3>1. /\ kind \in EventsFor(c.action) \ {"DispatchAttemptRecorded", "RequestFinalized"}
            /\ cur'.todo \notin OutcomeRecords(c.action)
            /\ \/ cur'.todo = <<>>
               \/ /\ c.action = "Place" /\ kind = "BrokerOrderObserved"
                  /\ cur'.todo = <<"BrokerTradeObserved">>
        BY <1>0, <2>2, OutcomeHead DEF kind
      <3>2. kind # "RequestAccepted"
        BY <3>1 DEF EventsFor, Observations
      <3>3. v # None /\ v.cmd = c /\ ~v.final /\ v.attempts = 1
        BY <1>1, <2>1, <3>1, <3>2
      <3>4. cur'.todo = <<"BrokerTradeObserved">> => c.action = "Place" /\ v.broker = c.req
        BY <1>1, <3>1, <3>2, Todos DEF Observations
      <3> QED BY <1>3, <1>5, <2>1, <3>1, <3>3, <3>4, Todos DEF RecordsOK, Mine, Known, Attempted
    <2>3. CASE cur.todo = <<"BrokerTradeObserved">>
      <3>1. kind = "BrokerTradeObserved" /\ cur'.todo = <<>>
        BY <2>3 DEF kind
      <3>2. <<>> \notin OutcomeRecords(c.action)
        BY <1>0, OutcomeHead
      <3>3. v # None /\ v.cmd = c /\ ~v.final /\ v.attempts = 1
        BY <1>1, <2>1, <3>1
      <3> QED BY <1>3, <1>5, <2>1, <3>1, <3>2, <3>3, Todos DEF RecordsOK, Mine, Known, Attempted
    <2> QED BY <1>0, <1>5, <2>2, <2>3 DEF RecordsOK
  <1>6. CASE cur.stage = "finalize"
    <2>1. cur.todo = <<"RequestFinalized">> /\ effects[c.req] = 1
      BY <1>0, <1>6 DEF RecordsOK
    <2>2. kind = "RequestFinalized" /\ cur'.todo = <<>>
      BY <2>1 DEF kind
    <2>3. v # None /\ v.final
      BY <1>1, <2>2
    <2> QED BY <1>3, <1>6, <2>1, <2>2, <2>3 DEF RecordsOK, Finished, Known
  <1> QED BY <1>4, <1>5, <1>6

LEMMA JournalAppend ==
    ASSUME JournalInv, NEW res \in AppendResults, AppendNext(res)
    PROVE  FilesOK' /\ InHandRecordsOK'
  <1> DEFINE rec == NextRecord
             k == Extend(scan, rec)
  <1>1. /\ cur # None /\ cur.stage \in {"admit", "outcome", "finalize"} /\ cur.todo # <<>> /\ up
        /\ AppendRecord(rec, res)
        /\ UNCHANGED <<stream, effects, up>>
        /\ IF res = "ok" /\ scan'.ok THEN Go(cur.entry, cur.stage, Tail(cur.todo), None)
           ELSE Abort(cur.entry, "Authority")
    BY DEF AppendNext, At, redisVars
  <1>2. CASE res = "refused"
    <2>1. UNCHANGED <<disk, scan>> /\ (uncertain => uncertain') /\ cur' = None
      BY <1>1, <1>2, AbortCur DEF AppendRecord
    <2> QED BY <1>1, <2>1 DEF JournalInv, FilesOK, InHandRecordsOK, UntouchedOK, ForbiddenOK,
                             OneOpen, Finished, Open, Known
  <1>3. CASE res # "refused"
    <2>1. disk = scan /\ scan.ok /\ JournalOK(scan)
      BY <1>1, <1>3 DEF AppendRecord, MayAppend, JournalInv, FilesOK, EffectInv
    <2>2. /\ Appendable(rec) /\ rec.req = CurCmd.req
      BY <1>1, InHandCommand
    <2>3. /\ Fits(scan, rec)
          /\ rec.kind = "RequestAccepted" => \A r \in Requests : ~Open(scan, r)
          /\ rec.kind \notin {"RequestAccepted", "DispatchAttemptRecorded"} => effects[rec.req] = 1
      BY <1>1, <2>1, <2>2, NextFits
    <2>4. /\ k.ok /\ UntouchedOK(k) /\ ForbiddenOK(k) /\ OneOpen(k)
          /\ \A r \in Requests : Finished(scan, r) => Finished(k, r)
      BY <2>1, <2>2, <2>3, FitKeepsFiles DEF JournalInv, FilesOK, JournalOK
    <2>5. /\ disk' = IF res \in {"ok", "kept"} THEN k ELSE scan
          /\ scan' = IF res = "ok" THEN k ELSE scan
          /\ res # "ok" => uncertain'
      BY <1>1, <1>3, <2>1 DEF AppendRecord, AppendResults
    <2> HIDE DEF k
    <2>6. /\ disk'.ok /\ (disk' = scan' \/ uncertain')
          /\ \A r \in Requests : Finished(scan', r) => Finished(disk', r)
      BY <2>1, <2>4, <2>5 DEF AppendResults
    <2>7. /\ UntouchedOK(disk') /\ ForbiddenOK(disk') /\ OneOpen(disk')
          /\ UntouchedOK(scan') /\ ForbiddenOK(scan')
      BY <2>1, <2>4, <2>5 DEF JournalInv, FilesOK
    <2>8. FilesOK'
      BY <1>1, <2>6, <2>7 DEF FilesOK, UntouchedOK, ForbiddenOK, OneOpen, Finished, Open, Known
    <2>9. CASE res = "ok"
      <3>1. Go(cur.entry, cur.stage, Tail(cur.todo), None)
        BY <1>1, <2>4, <2>5, <2>9
      <3>2. cur'.entry = cur.entry /\ cur'.stage = cur.stage /\ cur'.todo = Tail(cur.todo)
        BY <3>1, GoCur
      <3>3. RecordsOK(cur, stream[cur.entry])'
        BY <1>1, <2>1, <2>5, <2>9, <3>2, AppendedRecords DEF k
      <3> QED BY <1>1, <2>8, <3>3 DEF InHandRecordsOK
    <2>10. CASE res # "ok"
      <3>1. cur' = None
        BY <1>1, <2>10, AbortCur
      <3> QED BY <2>8, <3>1 DEF InHandRecordsOK
    <2> QED BY <2>9, <2>10
  <1> QED BY <1>2, <1>3

------------------------------------------------------------------------------
(* Steps that append nothing *)

LEMMA FilesQuiet ==
    ASSUME JournalInv, UNCHANGED <<disk, scan, uncertain, effects>>
    PROVE  FilesOK'
  BY DEF JournalInv, FilesOK, UntouchedOK, ForbiddenOK, OneOpen, Finished, Open, Known

\* Stages outside the journal ask nothing of the scan.
LEMMA OutsideJournal ==
    ASSUME cur' # None => up' /\ cur'.stage \in {"ack", "dlq", "xack"}
    PROVE  InHandRecordsOK'
  BY DEF InHandRecordsOK, RecordsOK

LEMMA JournalAdmit ==
    ASSUME JournalInv, NEW e \in batch, AdmitFresh(e) \/ AdmitResumed(e) \/ AdmitDuplicate(e)
    PROVE  FilesOK' /\ InHandRecordsOK'
  <1> DEFINE c == stream[e]
  <1>1. UNCHANGED <<disk, scan, uncertain, effects, stream, up>> /\ up
    BY DEF AdmitFresh, AdmitResumed, AdmitDuplicate, Admissible, Admitting, Command, Handling,
           journalVars, redisVars
  <1>2. FilesOK'
    BY <1>1, FilesQuiet
  <1>3. c.req \in Requests
    BY HandledCommand DEF JournalInv, AdmitFresh, AdmitResumed, AdmitDuplicate, Admissible, Admitting
  <1>4. CASE AdmitFresh(e)
    <2>1. /\ cur'.entry = e /\ cur'.stage = "admit" /\ Fresh(c)
          /\ cur'.todo = <<"RequestAccepted", "DispatchAttemptRecorded">>
      BY <1>4, GoCur DEF AdmitFresh
    <2> QED BY <1>1, <1>2, <2>1, Todos DEF InHandRecordsOK, RecordsOK, Fresh, Open, Known
  <1>5. CASE AdmitResumed(e)
    <2>1. /\ cur'.entry = e /\ cur'.stage = "admit" /\ Resumable(c)
          /\ cur'.todo = <<"DispatchAttemptRecorded">>
      BY <1>5, GoCur DEF AdmitResumed
    <2>2. /\ Known(scan, c.req) /\ scan.reqs[c.req].cmd = c
          /\ scan.reqs[c.req].safety = "ReadyForFirstDispatch"
      BY <2>1 DEF Resumable, ExactDuplicate
    <2>3. ~scan.reqs[c.req].final
      BY <1>3, <2>2 DEF JournalInv, FilesOK, UntouchedOK
    <2> QED BY <1>1, <1>2, <2>1, <2>2, <2>3, Todos DEF InHandRecordsOK, RecordsOK, Mine, Known
  <1>6. CASE AdmitDuplicate(e)
    <2>1. Pending(e) \/ Go(e, "finalize", FinalRecords(c.req), None)
      BY <1>6 DEF AdmitDuplicate
    <2>2. CASE Pending(e)
      BY <1>2, <2>2, PendingCur DEF InHandRecordsOK
    <2>3. CASE Go(e, "finalize", FinalRecords(c.req), None)
      <3>1. cur'.entry = e /\ cur'.stage = "finalize" /\ cur'.todo = FinalRecords(c.req)
        BY <2>3, GoCur
      <3>2. /\ Known(scan, c.req) /\ scan.reqs[c.req].cmd = c
            /\ scan.reqs[c.req].safety = "DispatchForbidden"
        BY <1>6 DEF AdmitDuplicate, Replayed, ExactDuplicate
      <3>3. effects[c.req] = 1
        BY <1>3, <3>2 DEF JournalInv, FilesOK, ForbiddenOK
      <3>4. <<"RequestFinalized">> # <<>>
        OBVIOUS
      <3> QED BY <1>1, <1>2, <3>1, <3>2, <3>3, <3>4
              DEF InHandRecordsOK, RecordsOK, FinalRecords, Mine, Finished, Known
    <2> QED BY <2>1, <2>2, <2>3
  <1> QED BY <1>4, <1>5, <1>6

LEMMA JournalHandle ==
    ASSUME JournalInv, NEW e \in batch, Handle(e)
    PROVE  FilesOK' /\ InHandRecordsOK'
  <1>1. CASE AdmitFresh(e) \/ AdmitResumed(e) \/ AdmitDuplicate(e)
    BY <1>1, JournalAdmit
  <1>2. CASE HandlePoison(e) \/ HandleAnswered(e) \/ HandleMismatch(e) \/ RejectPolicy(e) \/ AdmitHold(e)
    <2>1. UNCHANGED <<disk, scan, uncertain, effects, up>> /\ up
      BY <1>2 DEF HandlePoison, HandleAnswered, HandleMismatch, RejectPolicy, AdmitHold, Admitting,
                  Command, Handling, journalVars
    <2>2. \/ Pending(e)
          \/ \E stage \in {"ack", "dlq"} : \E status : Go(e, stage, <<>>, status)
      BY <1>2 DEF HandlePoison, HandleAnswered, HandleMismatch, RejectPolicy, AdmitHold
    <2>3. cur' # None => cur'.stage \in {"ack", "dlq"}
      BY <2>2, PendingCur, GoCur
    <2> QED BY <2>1, <2>3, FilesQuiet, OutsideJournal
  <1> QED BY <1>1, <1>2 DEF Handle

\* The provider is asked with the dispatch as the last record.
LEMMA JournalAsk ==
    ASSUME JournalInv,
           \/ \E records \in OutcomeRecords("Place") \cup OutcomeRecords("Cancel") :
                  ProviderAnswers(records)
           \/ ProviderUncertain \/ ProviderMismatch
    PROVE  FilesOK' /\ InHandRecordsOK'
  <1>1. /\ cur # None /\ cur.stage = "admit" /\ cur.todo = <<>> /\ Asked /\ up
        /\ UNCHANGED <<disk, scan, uncertain, stream, up>>
    BY DEF ProviderAnswers, ProviderUncertain, ProviderMismatch, AskNow, At, journalVars, redisVars
  <1>2. PICK c \in Commands : /\ c = CurCmd /\ c.req \in Requests /\ RecordsOK(cur, c)
                             /\ c.action \in {"Place", "Cancel"}
    BY <1>1, InHandCommand
  <1>3. effects[c.req] = 0 /\ Attempted(scan, c.req)
    BY <1>1, <1>2 DEF JournalInv, EffectInv, CurOK, InHandOK, CurCmd
  <1>4. effects' = [effects EXCEPT ![c.req] = 1] /\ effects \in [Requests -> Nat]
    BY <1>1, <1>2, <1>3 DEF Asked, JournalInv, EffectInv, EffectsOK
  <1>5. effects'[c.req] = 1 /\ \A r \in Requests : effects[r] = 1 => effects'[r] = 1
    BY <1>2, <1>4
  <1>6. FilesOK'
    BY <1>1, <1>5 DEF JournalInv, FilesOK, UntouchedOK, ForbiddenOK, OneOpen, Finished, Open, Known
  <1>7. Dispatched(c)
    BY <1>1, <1>2 DEF RecordsOK
  <1>8. \/ cur' = None
        \/ \E records \in OutcomeRecords(c.action) : Go(cur.entry, "outcome", records, None)
    BY <1>2, PendingCur, AbortCur DEF ProviderAnswers, ProviderUncertain, ProviderMismatch
  <1>9. ASSUME NEW records \in OutcomeRecords(c.action), Go(cur.entry, "outcome", records, None)
        PROVE  InHandRecordsOK'
    <2>1. cur'.entry = cur.entry /\ cur'.stage = "outcome" /\ cur'.todo = records
      BY <1>9, GoCur
    <2>2. records # <<"BrokerTradeObserved">>
      BY <1>2, <1>9 DEF OutcomeRecords
    <2>3. stream'[cur'.entry] = c
      BY <1>1, <1>2, <2>1 DEF CurCmd
    <2>4. (Mine(c) /\ Attempted(scan, c.req) /\ Dispatched(c))'
      BY <1>1, <1>3, <1>7 DEF Dispatched, Mine, Attempted, Known
    <2> QED BY <1>1, <1>5, <2>1, <2>2, <2>3, <2>4 DEF InHandRecordsOK, RecordsOK
  <1> QED BY <1>6, <1>8, <1>9 DEF InHandRecordsOK

LEMMA JournalSettle ==
    ASSUME JournalInv,
           \/ OutcomeRecorded \/ Finalized
           \/ \E res \in RedisResults : PublishAck(res) \/ PublishDlq(res) \/ Xack(res)
    PROVE  FilesOK' /\ InHandRecordsOK'
  <1>1. UNCHANGED <<disk, scan, uncertain, effects, stream, up>> /\ up /\ cur # None
    BY DEF OutcomeRecorded, Finalized, PublishAck, PublishDlq, Xack, At, journalVars, redisVars
  <1>2. FilesOK'
    BY <1>1, FilesQuiet
  <1>3. CASE OutcomeRecorded
    <2>1. cur.stage = "outcome" /\ cur.todo = <<>>
      BY <1>3 DEF OutcomeRecorded, At
    <2>2. PICK c \in Commands : c = CurCmd /\ c.req \in Requests /\ RecordsOK(cur, c)
      BY <1>1, <2>1, InHandCommand
    <2>3. Mine(c) /\ effects[c.req] = 1
      BY <2>1, <2>2 DEF RecordsOK
    <2>4. cur' = None \/ Go(cur.entry, "finalize", <<"RequestFinalized">>, None)
      BY <1>3, <2>2, <2>3, PendingCur DEF OutcomeRecorded, FinalRecords, Mine
    <2>5. CASE Go(cur.entry, "finalize", <<"RequestFinalized">>, None)
      <3>1. cur'.entry = cur.entry /\ cur'.stage = "finalize" /\ cur'.todo = <<"RequestFinalized">>
        BY <2>5, GoCur
      <3>2. stream'[cur'.entry] = c /\ <<"RequestFinalized">> # <<>>
        BY <1>1, <2>2, <3>1 DEF CurCmd
      <3> QED BY <1>1, <1>2, <2>3, <3>1, <3>2 DEF InHandRecordsOK, RecordsOK, Mine, Known
    <2> QED BY <1>2, <2>4, <2>5 DEF InHandRecordsOK
  <1>4. CASE Finalized
    <2>1. cur'.stage = "ack"
      BY <1>4, GoCur DEF Finalized
    <2> QED BY <1>1, <1>2, <2>1, OutsideJournal
  <1>5. ASSUME NEW res \in RedisResults, PublishAck(res) \/ PublishDlq(res) \/ Xack(res)
        PROVE  InHandRecordsOK'
    <2>1. \/ \E status : Go(cur.entry, "xack", <<>>, status)
          \/ cur' = None
      BY <1>5, AbortCur DEF PublishAck, PublishDlq, Xack
    <2>2. cur' # None => cur'.stage = "xack"
      BY <2>1, GoCur
    <2> QED BY <1>1, <2>2, OutsideJournal
  <1> QED BY <1>2, <1>3, <1>4, <1>5

LEMMA JournalLoop ==
    ASSUME JournalInv,
           \/ \E idle \in IdleSets : ClaimPage(idle)
           \/ ClaimFails \/ EndClaimPage \/ EndPoll
           \/ \E n \in 0..ReadCount, reply \in BOOLEAN : Poll(n, reply)
    PROVE  FilesOK' /\ InHandRecordsOK'
  <1>1. cur' = None /\ UNCHANGED <<disk, scan, uncertain, effects>>
    BY DEF ClaimPage, ClaimFails, EndClaimPage, EndPoll, Poll, Ready, journalVars
  <1> QED BY <1>1, FilesQuiet DEF InHandRecordsOK

LEMMA JournalProcess ==
    ASSUME JournalInv, (\E c \in Commands : Expire(c)) \/ Crash \/ Restart \/ UNCHANGED vars
    PROVE  FilesOK' /\ InHandRecordsOK'
  <1>1. CASE (\E c \in Commands : Expire(c)) \/ UNCHANGED vars
    <2>1. UNCHANGED <<disk, scan, uncertain, stream, up, cur, effects>>
      BY <1>1 DEF Expire, vars, journalVars, redisVars
    <2>2. InHandRecordsOK'
      BY <2>1 DEF JournalInv, InHandRecordsOK, RecordsOK, Fresh, Mine, Dispatched, Attempted,
                  Finished, Open, Known
    <2> QED BY <2>1, <2>2, FilesQuiet
  <1>2. CASE Crash
    <2>1. UNCHANGED <<disk, scan, uncertain, effects>> /\ cur' = None
      BY <1>2 DEF Crash, Forget, journalVars
    <2> QED BY <2>1, FilesQuiet DEF InHandRecordsOK
  <1>3. CASE Restart
    <2>1. scan' = disk /\ disk' = disk /\ effects' = effects /\ cur' = None
      BY <1>3 DEF Restart, OpenJournal, JournalInv, InHandRecordsOK
    <2> QED BY <2>1 DEF JournalInv, FilesOK, UntouchedOK, ForbiddenOK, OneOpen, Finished, Open, Known,
                        InHandRecordsOK
  <1> QED BY <1>1, <1>2, <1>3

LEMMA JournalInitially == Init => JournalInv
  <1> SUFFICES ASSUME Init PROVE JournalInv
    OBVIOUS
  <1>1. disk = EmptyJournal /\ scan = EmptyJournal /\ cur = None
    BY DEF Init, JournalInit, MemoryInit
  <1>2. EmptyJournal.ok /\ \A r \in Requests : ~Known(EmptyJournal, r)
    BY DEF EmptyJournal, Known
  <1> QED BY <1>1, <1>2, EffectInitially DEF JournalInv, FilesOK, UntouchedOK, ForbiddenOK, OneOpen,
                                             Finished, Open, InHandRecordsOK

LEMMA JournalStep == JournalInv /\ [Next]_vars => JournalInv'
  <1> SUFFICES ASSUME JournalInv, [Next]_vars PROVE JournalInv'
    OBVIOUS
  <1>1. EffectInv'
    BY EffectStep DEF JournalInv
  <1>2. FilesOK' /\ InHandRecordsOK'
    BY JournalLoop, JournalHandle, JournalAppend, JournalAsk, JournalSettle, JournalProcess DEF Next
  <1> QED BY <1>1, <1>2 DEF JournalInv

\* The invariant that ties what is left to append to what was scanned.
THEOREM JournalInvariant == Spec => []JournalInv
  BY JournalInitially, JournalStep, PTL DEF Spec

\* Whatever append failed after its bytes reached the file, and wherever the
\* process died, the file replays: every record that can reach it fits.
THEOREM AlwaysReplayable == Spec => []JournalReplayable
  <1>1. JournalInv => JournalReplayable
    BY DEF JournalInv, FilesOK, JournalReplayable
  <1> QED BY <1>1, JournalInvariant, PTL

\* No second request is accepted on disk before the first one is final.
THEOREM NeverTwoOpen == Spec => []OneOpenLifecycle
  <1>1. JournalInv => OneOpenLifecycle
    BY DEF JournalInv, FilesOK, OneOpen, OneOpenLifecycle
  <1> QED BY <1>1, JournalInvariant, PTL

------------------------------------------------------------------------------
(***************************************************************************)
(* Answers.  An entry is acknowledged to Redis once its answer is in the   *)
(* stream, a duplicate is only answered after its verdict was published,   *)
(* and an answer that is owed keeps the consumer from reporting itself     *)
(* ready.  All of it is memory: a crash forgets it, which is why a request *)
(* has one verdict within one process only.                                *)
(***************************************************************************)

LoopTypes ==
    /\ cur \in InHand \cup {None} /\ (cur # None => cur.entry \in Entries)
    /\ at \in Positions /\ pages \in 0..MaxClaimPages - 1 /\ cursor \in 0..Len(stream)
    /\ sourceOk \in BOOLEAN /\ claimOk \in BOOLEAN
    /\ blocked \in [Entries -> BlockedKinds \cup {None}]

OutTypes ==
    /\ torn \in BOOLEAN /\ uncertain \in BOOLEAN /\ up \in BOOLEAN
    /\ dlq \subseteq Entries /\ ackStream \subseteq Requests \X Statuses
    /\ expired \subseteq Commands

MemoryTypes ==
    /\ ackPub \in [Requests -> AckPublication \cup {None}]
    /\ recov \in [Requests -> Commands \cup {None}]

\* An answer of r is about to be published, or one of its entries is blocked.
Owed(r) ==
    \/ cur # None /\ cur.stage = "ack" /\ stream[cur.entry].req = r
    \/ \E e \in Entries : stream[e] # Poison /\ stream[e].req = r /\ blocked[e] # None

AnswerOK(r) ==
    ackPub[r] # None =>
      /\ ackPub[r].status = "Accepted" => Finished(disk, r) /\ effects[r] = 1
      /\ IF ackPub[r].published THEN <<r, ackPub[r].status>> \in ackStream ELSE Owed(r)

AnswersOK == \A r \in Requests : AnswerOK(r)

\* What the entry in hand, the command c or Poison, has of memory and stream.
AnsweringOK(h, c) ==
    /\ h.stage \in {"admit", "outcome", "finalize"} => c # Poison /\ ackPub[c.req] = None
    /\ h.stage = "finalize" => recov[c.req] = c
    /\ h.stage = "dlq" => c = Poison
    /\ h.stage = "ack" =>
         /\ c # Poison /\ ackPub[c.req] # None
         /\ h.status = IF ackPub[c.req].published THEN "Duplicate" ELSE ackPub[c.req].status
    /\ h.stage = "xack" =>
         IF c = Poison THEN h.entry \in dlq
         ELSE /\ ackPub[c.req] # None /\ ackPub[c.req].published
              /\ \E v \in Statuses : <<c.req, v>> \in ackStream

InHandAnswerOK == cur # None => AnsweringOK(cur, stream[cur.entry])

StreamOK == AcceptedIsFinal /\ DuplicateFollowsVerdict /\ SettledIsAnswered

\* In a process that does not crash, the memory knows every verdict.
OneProcessOK ==
    stream \in Mortal \/
                /\ up
                /\ \A r \in Requests : \A v \in Verdicts :
                      <<r, v>> \in ackStream => ackPub[r] # None /\ ackPub[r].status = v

AnswerInv ==
    /\ JournalInv
    /\ LoopTypes /\ OutTypes /\ MemoryTypes
    /\ AnswersOK /\ InHandAnswerOK /\ StreamOK /\ OneProcessOK

------------------------------------------------------------------------------
(* What every step keeps *)

Lasting ==
    \A r \in Requests : /\ Finished(disk, r) => Finished(disk, r)'
                        /\ effects[r] = 1 => effects'[r] = 1

LEMMA StepLasts ==
    ASSUME JournalInv, [Next]_vars
    PROVE  Lasting
  <1>1. ASSUME NEW res \in AppendResults, AppendNext(res)
        PROVE  Lasting
    <2>1. /\ AppendRecord(NextRecord, res) /\ UNCHANGED effects
          /\ cur # None /\ cur.stage \in {"admit", "outcome", "finalize"}
      BY <1>1 DEF AppendNext, At
    <2>2. Appendable(NextRecord) /\ disk \in Journal
      BY <2>1, InHandCommand DEF JournalInv, EffectInv, JournalOK
    <2>3. disk' = disk \/ disk' = Extend(disk, NextRecord)
      BY <2>1 DEF AppendRecord
    <2>4. \A r \in Requests : Finished(disk, r) => Finished(disk', r)
      BY <2>2, <2>3, ExtendFinished
    <2> QED BY <2>1, <2>4 DEF Lasting, Finished, Known
  <1>2. ASSUME \/ \E records \in OutcomeRecords("Place") \cup OutcomeRecords("Cancel") :
                      ProviderAnswers(records)
               \/ ProviderUncertain \/ ProviderMismatch
        PROVE  Lasting
    <2>1. /\ cur # None /\ cur.stage = "admit" /\ cur.todo = <<>> /\ Asked
          /\ UNCHANGED disk
      BY <1>2 DEF ProviderAnswers, ProviderUncertain, ProviderMismatch, AskNow, At, journalVars
    <2>2. PICK c \in Commands : c = CurCmd /\ c.req \in Requests
      BY <2>1, InHandCommand
    <2>3. effects[c.req] = 0 /\ effects \in [Requests -> Nat]
      BY <2>1, <2>2 DEF JournalInv, EffectInv, EffectsOK, CurOK, InHandOK, CurCmd
    <2>4. \A r \in Requests : effects[r] = 1 => effects'[r] = 1
      BY <2>1, <2>2, <2>3 DEF Asked
    <2> QED BY <2>1, <2>4 DEF Lasting, Finished, Known
  <1>3. ASSUME UNCHANGED <<disk, effects>> PROVE Lasting
    BY <1>3 DEF Lasting, Finished, Known
  <1>4. CASE \/ \E idle \in IdleSets : ClaimPage(idle)
             \/ ClaimFails \/ EndClaimPage \/ EndPoll
             \/ \E n \in 0..ReadCount, reply \in BOOLEAN : Poll(n, reply)
    BY <1>3, <1>4 DEF ClaimPage, ClaimFails, EndClaimPage, EndPoll, Poll, journalVars
  <1>5. CASE \E e \in batch : Handle(e)
    BY <1>3, <1>5 DEF Handle, HandlePoison, HandleAnswered, HandleMismatch, RejectPolicy, AdmitFresh,
                      AdmitResumed, AdmitDuplicate, AdmitHold, journalVars
  <1>6. CASE \/ OutcomeRecorded \/ Finalized
             \/ \E res \in RedisResults : PublishAck(res) \/ PublishDlq(res) \/ Xack(res)
    BY <1>3, <1>6 DEF OutcomeRecorded, Finalized, PublishAck, PublishDlq, Xack, journalVars
  <1>7. CASE (\E c \in Commands : Expire(c)) \/ Crash \/ Restart \/ UNCHANGED vars
    BY <1>3, <1>7 DEF Expire, Crash, Restart, OpenJournal, vars, journalVars
  <1> QED BY <1>1, <1>2, <1>4, <1>5, <1>6, <1>7 DEF Next

------------------------------------------------------------------------------
(* Types of the loop *)

\* Going on with an entry, leaving it, or leaving the page with it.
LEMMA MoveTypes ==
    ASSUME LoopTypes, UNCHANGED stream, NEW e \in Entries,
           \/ \E stage \in Stages, todo \in Seq(RecordKinds), status \in Statuses \cup {None} :
                  Go(e, stage, todo, status)
           \/ Pending(e)
           \/ \E kind \in BlockedKinds : Abort(e, kind)
    PROVE  LoopTypes'
  <1>0. Entries' = Entries /\ Entries \subseteq Nat
    BY DEF Entries
  <1>1. ASSUME NEW stage \in Stages, NEW todo \in Seq(RecordKinds), NEW status \in Statuses \cup {None},
               Go(e, stage, todo, status)
        PROVE  LoopTypes'
    <2>1. cur' \in InHand /\ cur'.entry = e
      BY <1>0, <1>1 DEF Go, InHand
    <2> QED BY <1>0, <1>1, <2>1 DEF LoopTypes, Go, loopVars, superVars
  <1>2. CASE Pending(e)
    BY <1>0, <1>2 DEF Pending, LoopTypes, BlockedKinds
  <1>3. ASSUME NEW kind \in BlockedKinds, Abort(e, kind) PROVE LoopTypes'
    <2>1. 0 \in 0..MaxClaimPages - 1
      BY BridgeAssumption
    <2> QED BY <1>0, <1>3, <2>1 DEF Abort, LoopTypes, Positions
  <1> QED BY <1>1, <1>2, <1>3

\* The blocked entries of a step that acknowledges nothing.
LEMMA MoveBlocks ==
    ASSUME LoopTypes, NEW e \in Entries,
           \/ \E stage, todo, status : Go(e, stage, todo, status)
           \/ Pending(e)
           \/ \E kind \in BlockedKinds : Abort(e, kind)
    PROVE  \A x \in Entries : blocked[x] # None => blocked'[x] # None
  <1>1. CASE \E stage, todo, status : Go(e, stage, todo, status)
    BY <1>1 DEF Go, superVars
  <1>2. CASE Pending(e) \/ \E kind \in BlockedKinds : Abort(e, kind)
    <2>1. PICK kind \in BlockedKinds : blocked' = [blocked EXCEPT ![e] = kind]
      BY <1>2 DEF Pending, Abort, BlockedKinds
    <2>2. kind # None
      BY <2>1, BridgeAssumption
    <2> QED BY <2>1, <2>2 DEF LoopTypes
  <1> QED BY <1>1, <1>2

\* Memory, ack stream and dead letters stay; what is owed stays owed.
LEMMA AnswersQuiet ==
    ASSUME AnswerInv, Lasting, UNCHANGED <<stream, ackPub, ackStream, dlq, up>>,
           cur # None /\ cur.stage = "ack" => cur' = cur,
           \A x \in Entries : blocked[x] # None => blocked'[x] # None,
           \A x \in 1..delivered' : x \in 1..delivered \/ x \in pel', pel \subseteq pel'
    PROVE  AnswersOK' /\ StreamOK' /\ OneProcessOK'
  <1>1. ASSUME NEW r \in Requests PROVE AnswerOK(r)'
    <2>1. AnswerOK(r)
      BY DEF AnswerInv, AnswersOK
    <2>2. Owed(r) => Owed(r)'
      BY DEF Owed, Entries
    <2> QED BY <2>1, <2>2 DEF AnswerOK, Lasting
  <1>2. AcceptedIsFinal'
    BY DEF AnswerInv, StreamOK, AcceptedIsFinal, Lasting, Finished, Known
  <1>3. DuplicateFollowsVerdict'
    BY DEF AnswerInv, StreamOK, DuplicateFollowsVerdict
  <1>4. SettledIsAnswered'
    BY DEF AnswerInv, StreamOK, SettledIsAnswered
  <1>5. OneProcessOK'
    BY DEF AnswerInv, OneProcessOK
  <1> QED BY <1>1, <1>2, <1>3, <1>4, <1>5 DEF AnswersOK, StreamOK

------------------------------------------------------------------------------
(* The run loop *)

LEMMA AnswerLoop ==
    ASSUME AnswerInv, JournalInv', Lasting,
           \/ \E idle \in IdleSets : ClaimPage(idle)
           \/ ClaimFails \/ EndClaimPage \/ EndPoll
           \/ \E n \in 0..ReadCount, reply \in BOOLEAN : Poll(n, reply)
    PROVE  AnswerInv'
  <1>1. /\ cur = None /\ cur' = None
        /\ UNCHANGED <<torn, uncertain, stream, ackStream, dlq, expired, up, ackPub, recov, blocked>>
    BY DEF ClaimPage, ClaimFails, EndClaimPage, EndPoll, Poll, Ready, journalVars, redisVars, memVars,
           superVars
  <1>0. Len(stream) \in Nat /\ Entries' = Entries
    BY <1>1, BridgeAssumption DEF AnswerInv, JournalInv, EffectInv, DeliveryOK, Entries
  <1>2. LoopTypes'
    <2>0. LoopTypes /\ MaxClaimPages \in Nat \ {0}
      BY BridgeAssumption DEF AnswerInv
    <2>1. ASSUME NEW idle \in IdleSets, ClaimPage(idle) PROVE LoopTypes'
      <3>1. pel \subseteq 0..Len(stream)
        BY <1>0 DEF AnswerInv, JournalInv, EffectInv, DeliveryOK, Entries
      <3>2. cursor' \in 0..Len(stream)
        BY <1>0, <2>1, <3>1, CursorInRange DEF ClaimPage
      <3> QED BY <1>0, <1>1, <2>0, <2>1, <3>2 DEF LoopTypes, ClaimPage, Positions, superVars
    <2>2. CASE ClaimFails
      <3>1. claimOk' \in BOOLEAN /\ pages' = 0 /\ UNCHANGED <<at, cursor, sourceOk>>
        BY <2>2 DEF ClaimFails
      <3> QED BY <1>0, <1>1, <2>0, <3>1 DEF LoopTypes
    <2>3. CASE EndClaimPage
      <3>1. at' \in Positions /\ pages' \in 0..MaxClaimPages - 1
        BY <2>0, <2>3 DEF LoopTypes, EndClaimPage, LastPage, Positions
      <3>2. claimOk' \in BOOLEAN /\ sourceOk' \in BOOLEAN
        BY <2>0, <2>3 DEF LoopTypes, EndClaimPage
      <3>3. cursor' = cursor
        BY <2>3 DEF EndClaimPage
      <3> QED BY <1>0, <1>1, <2>0, <3>1, <3>2, <3>3 DEF LoopTypes
    <2>4. CASE EndPoll
      <3>1. at' \in Positions /\ sourceOk' \in BOOLEAN /\ UNCHANGED <<pages, cursor, claimOk>>
        BY <2>4 DEF EndPoll, Positions
      <3> QED BY <1>0, <1>1, <2>0, <3>1 DEF LoopTypes
    <2>5. ASSUME NEW n \in 0..ReadCount, NEW reply \in BOOLEAN, Poll(n, reply) PROVE LoopTypes'
      BY <1>0, <1>1, <2>0, <2>5 DEF LoopTypes, Poll, Positions
    <2> QED BY <2>1, <2>2, <2>3, <2>4, <2>5
  <1>3. OutTypes' /\ MemoryTypes' /\ InHandAnswerOK'
    BY <1>0, <1>1 DEF AnswerInv, OutTypes, MemoryTypes, InHandAnswerOK
  <1>4. pel \subseteq pel' /\ \A x \in 1..delivered' : x \in 1..delivered \/ x \in pel'
    <2>1. CASE UNCHANGED <<delivered, pel>>
      BY <2>1
    <2>2. ASSUME NEW n \in 0..ReadCount, NEW reply \in BOOLEAN, Poll(n, reply)
          PROVE  pel \subseteq pel' /\ \A x \in 1..delivered' : x \in 1..delivered \/ x \in pel'
      <3>1. delivered \in Nat /\ n \in Nat
        BY <1>0, BridgeAssumption DEF AnswerInv, JournalInv, EffectInv, DeliveryOK
      <3>2. delivered' = delivered + n /\ pel' = pel \cup (delivered + 1)..(delivered + n)
        BY <2>2 DEF Poll
      <3> QED BY <3>1, <3>2
    <2> QED BY <2>1, <2>2 DEF ClaimPage, ClaimFails, EndClaimPage, EndPoll, redisVars
  <1>5. AnswersOK' /\ StreamOK' /\ OneProcessOK'
    BY <1>1, <1>4, AnswersQuiet
  <1> QED BY <1>2, <1>3, <1>5 DEF AnswerInv

------------------------------------------------------------------------------
(* Handling an entry *)

\* Steps that publish nothing and keep the canonical acknowledgements.
LEMMA AnswerQuietMove ==
    ASSUME AnswerInv, JournalInv', Lasting, NEW e \in Entries,
           UNCHANGED <<stream, delivered, pel, ackStream, dlq, expired, up, ackPub>>,
           torn' \in BOOLEAN, uncertain' \in BOOLEAN,
           recov' \in [Requests -> Commands \cup {None}],
           cur # None => cur.stage # "ack",
           \/ \E stage \in Stages, todo \in Seq(RecordKinds), status \in Statuses \cup {None} :
                  Go(e, stage, todo, status)
           \/ Pending(e)
           \/ \E kind \in BlockedKinds : Abort(e, kind),
           cur' # None => AnsweringOK(cur, stream[cur.entry])'
    PROVE  AnswerInv'
  <1>1. LoopTypes'
    BY MoveTypes DEF AnswerInv
  <1>2. \A x \in Entries : blocked[x] # None => blocked'[x] # None
    BY MoveBlocks DEF AnswerInv
  <1>3. AnswersOK' /\ StreamOK' /\ OneProcessOK'
    BY <1>2, AnswersQuiet
  <1>4. OutTypes' /\ MemoryTypes' /\ InHandAnswerOK'
    BY DEF AnswerInv, OutTypes, MemoryTypes, InHandAnswerOK, Entries
  <1> QED BY <1>1, <1>3, <1>4 DEF AnswerInv

\* A first verdict for a request: it is owed until it is published.
LEMMA AnswerRemember ==
    ASSUME AnswerInv, JournalInv', Lasting, NEW e \in Entries, NEW c \in Commands, stream[e] = c,
           UNCHANGED <<torn, uncertain, stream, delivered, pel, ackStream, dlq, expired, up>>,
           cur # None => cur.stage # "ack",
           ackPub[c.req] = None, NEW status \in Verdicts, Remember(c, status),
           Go(e, "ack", <<>>, status),
           status = "Accepted" => Finished(disk, c.req)' /\ effects'[c.req] = 1,
           recov' \in [Requests -> Commands \cup {None}]
    PROVE  AnswerInv'
  <1> DEFINE a == [cmd |-> c, status |-> status, published |-> FALSE]
  <1>1. c.req \in Requests /\ c # Poison
    BY CommandType, BridgeAssumption
  <1>2. a \in AckPublication /\ a # None
    <2>1. a \in AckPublication
      BY DEF AckPublication
    <2> HIDE DEF a
    <2> QED BY <2>1, BridgeAssumption
  <1>3. /\ ackPub' = [ackPub EXCEPT ![c.req] = a] /\ ackPub \in [Requests -> AckPublication \cup {None}]
    BY DEF Remember, AnswerInv, MemoryTypes
  <1>4. ackPub'[c.req] = a /\ \A r \in Requests \ {c.req} : ackPub'[r] = ackPub[r]
    BY <1>1, <1>3
  <1>5. <<>> \in Seq(RecordKinds) /\ "ack" \in Stages /\ status \in Statuses
    BY DEF Stages, Statuses
  <1>6. LoopTypes'
    BY <1>5, MoveTypes DEF AnswerInv
  <1>7. /\ cur' # None /\ cur'.entry = e /\ cur'.stage = "ack" /\ cur'.status = status
    <2>1. cur' = [entry |-> e, stage |-> "ack", todo |-> <<>>, status |-> status]
      BY DEF Go
    <2>2. e \in Nat
      BY DEF Entries
    <2>3. cur' \in InHand
      BY <1>5, <2>1, <2>2 DEF InHand
    <2> QED BY <2>1, <2>3, BridgeAssumption
  <1>8. \A x \in Entries : blocked[x] # None => blocked'[x] # None
    BY MoveBlocks DEF AnswerInv
  <1>9. OutTypes' /\ MemoryTypes'
    BY <1>1, <1>2, <1>3 DEF AnswerInv, OutTypes, MemoryTypes, Entries
  <1> HIDE DEF a
  <1>10. a.status = status /\ a.published = FALSE
    BY DEF a
  <1>11. AnswersOK'
    <2>1. AnswerOK(c.req)'
      <3>1. Owed(c.req)'
        BY <1>7 DEF Owed
      <3> QED BY <1>4, <1>10, <3>1 DEF AnswerOK
    <2>2. ASSUME NEW r \in Requests \ {c.req} PROVE AnswerOK(r)'
      <3>1. AnswerOK(r) /\ ackPub'[r] = ackPub[r]
        BY <1>4, <2>2 DEF AnswerInv, AnswersOK
      <3>2. Owed(r) => Owed(r)'
        BY <1>8 DEF Owed, Entries
      <3> QED BY <2>2, <3>1, <3>2 DEF AnswerOK, Lasting
    <2> QED BY <2>1, <2>2 DEF AnswersOK
  <1>12. InHandAnswerOK'
    BY <1>1, <1>2, <1>4, <1>7, <1>10 DEF InHandAnswerOK, AnsweringOK
  <1>13. StreamOK'
    BY DEF AnswerInv, StreamOK, AcceptedIsFinal, DuplicateFollowsVerdict, SettledIsAnswered, Lasting,
           Finished, Known
  <1>14. OneProcessOK'
    <2>1. ASSUME stream \notin Mortal, NEW v \in Verdicts, <<c.req, v>> \in ackStream PROVE FALSE
      BY <1>1, <2>1 DEF AnswerInv, OneProcessOK
    <2> QED BY <1>4, <2>1 DEF AnswerInv, OneProcessOK
  <1> QED BY <1>6, <1>9, <1>11, <1>12, <1>13, <1>14 DEF AnswerInv

\* A status to publish is a status, and the entry handled was in hand before.
LEMMA AnswerHandle ==
    ASSUME AnswerInv, JournalInv', Lasting, NEW e \in batch, Handle(e)
    PROVE  AnswerInv'
  <1>0. e \in Entries /\ cur = None
    BY DEF Handle, HandlePoison, HandleAnswered, HandleMismatch, RejectPolicy, AdmitFresh, AdmitResumed,
           AdmitDuplicate, AdmitHold, Admissible, Admitting, Command, Handling, AnswerInv, JournalInv,
           EffectInv, DeliveryOK
  <1>1. /\ UNCHANGED <<torn, uncertain, stream, delivered, pel, ackStream, dlq, expired, up, recov>>
        /\ torn \in BOOLEAN /\ uncertain \in BOOLEAN /\ recov \in [Requests -> Commands \cup {None}]
    BY DEF Handle, HandlePoison, HandleAnswered, HandleMismatch, RejectPolicy, AdmitFresh, AdmitResumed,
           AdmitDuplicate, AdmitHold, journalVars, redisVars, memVars, AnswerInv, OutTypes, MemoryTypes
  <1>2. /\ None \in Statuses \cup {None} /\ <<>> \in Seq(RecordKinds)
        /\ <<"RequestAccepted", "DispatchAttemptRecorded">> \in Seq(RecordKinds)
        /\ <<"DispatchAttemptRecorded">> \in Seq(RecordKinds) /\ <<"RequestFinalized">> \in Seq(RecordKinds)
        /\ {"ack", "dlq", "admit", "finalize"} \subseteq Stages
    <2>1. {"RequestAccepted", "DispatchAttemptRecorded", "RequestFinalized"} \subseteq RecordKinds
      BY DEF RecordKinds, EventsFor
    <2>2. \A a, b \in RecordKinds :
             <<>> \in Seq(RecordKinds) /\ <<a>> \in Seq(RecordKinds) /\ <<a, b>> \in Seq(RecordKinds)
      OBVIOUS
    <2> QED BY <2>1, <2>2 DEF Stages
  <1>3. ASSUME Pending(e), UNCHANGED ackPub PROVE AnswerInv'
    <2>1. cur' = None
      BY <1>3, PendingCur
    <2> QED BY <1>0, <1>1, <1>3, <2>1, AnswerQuietMove
  <1>4. CASE HandlePoison(e)
    <2>1. Go(e, "dlq", <<>>, None) /\ UNCHANGED ackPub /\ stream[e] = Poison
      BY <1>4 DEF HandlePoison, memVars
    <2>2. cur'.entry = e /\ cur'.stage = "dlq"
      BY <2>1, GoCur
    <2>3. cur' # None => AnsweringOK(cur, stream[cur.entry])'
      BY <1>1, <2>1, <2>2 DEF AnsweringOK
    <2> QED BY <1>0, <1>1, <1>2, <2>1, <2>3, AnswerQuietMove
  <1>5. ASSUME Command(e)
        PROVE  stream[e] \in Commands /\ stream[e].req \in Requests /\ stream[e] # Poison
    BY <1>5, HandledCommand DEF AnswerInv, JournalInv, Command
  <1>6. CASE HandleAnswered(e)
    <2>1. PICK c \in Commands : c = stream[e] /\ c.req \in Requests /\ c # Poison
      BY <1>5, <1>6 DEF HandleAnswered
    <2>2. ackPub[c.req] # None /\ UNCHANGED ackPub
      BY <1>6, <2>1 DEF HandleAnswered, memVars
    <2> DEFINE s == IF ackPub[c.req].published THEN "Duplicate" ELSE ackPub[c.req].status
    <2>3. ackPub[c.req] \in AckPublication
      BY <2>1, <2>2 DEF AnswerInv, MemoryTypes
    <2>4. s \in Statuses
      BY <2>3 DEF AckPublication, Statuses
    <2>5. Pending(e) \/ Go(e, "ack", <<>>, s)
      BY <1>6, <2>1 DEF HandleAnswered
    <2>6. CASE Go(e, "ack", <<>>, s)
      <3>1. cur'.entry = e /\ cur'.stage = "ack" /\ cur'.status = s
        BY <2>6 DEF Go
      <3>2. cur' # None => AnsweringOK(cur, stream[cur.entry])'
        BY <1>1, <2>1, <2>2, <3>1 DEF AnsweringOK
      <3> QED BY <1>0, <1>1, <1>2, <2>2, <2>4, <2>6, <3>2, AnswerQuietMove
    <2> QED BY <1>3, <2>2, <2>5, <2>6
  <1>7. CASE HandleMismatch(e)
    <2>1. PICK c \in Commands : c = stream[e]
      BY <1>5, <1>7 DEF HandleMismatch
    <2>2. ackPub[c.req] = None
      BY <1>7, <2>1 DEF HandleMismatch
    <2>3. \/ Pending(e) /\ UNCHANGED ackPub
          \/ Go(e, "ack", <<>>, "Rejected") /\ Remember(c, "Rejected")
      BY <1>7, <2>1 DEF HandleMismatch
    <2>4. CASE Go(e, "ack", <<>>, "Rejected") /\ Remember(c, "Rejected")
      BY <1>0, <1>1, <2>1, <2>2, <2>4, AnswerRemember DEF Verdicts
    <2> QED BY <1>3, <2>3, <2>4
  <1>8. CASE RejectPolicy(e)
    <2>1. PICK c \in Commands : c = stream[e]
      BY <1>5, <1>8 DEF RejectPolicy, Admitting
    <2>2. ackPub[c.req] = None
      BY <1>8, <2>1 DEF RejectPolicy, Admitting
    <2>3. PICK s \in {"Rejected", "Expired"} : Go(e, "ack", <<>>, s) /\ Remember(c, s)
      BY <1>8, <2>1 DEF RejectPolicy
    <2> QED BY <1>0, <1>1, <2>1, <2>2, <2>3, AnswerRemember DEF Verdicts
  <1>9. CASE AdmitFresh(e) \/ AdmitResumed(e)
    <2>1. PICK c \in Commands : c = stream[e] /\ c # Poison
      BY <1>5, <1>9 DEF AdmitFresh, AdmitResumed, Admissible, Admitting
    <2>2. ackPub[c.req] = None /\ UNCHANGED ackPub
      BY <1>9, <2>1 DEF AdmitFresh, AdmitResumed, Admissible, Admitting, memVars
    <2>3. PICK todo \in Seq(RecordKinds) : Go(e, "admit", todo, None)
      BY <1>2, <1>9 DEF AdmitFresh, AdmitResumed
    <2>4. cur'.entry = e /\ cur'.stage = "admit"
      BY <2>3, GoCur
    <2>5. cur' # None => AnsweringOK(cur, stream[cur.entry])'
      BY <1>1, <2>1, <2>2, <2>4 DEF AnsweringOK
    <2> QED BY <1>0, <1>1, <1>2, <2>2, <2>3, <2>5, AnswerQuietMove
  <1>10. CASE AdmitDuplicate(e)
    <2>1. PICK c \in Commands : c = stream[e] /\ c # Poison
      BY <1>5, <1>10 DEF AdmitDuplicate, Admissible, Admitting
    <2>2. ackPub[c.req] = None /\ UNCHANGED ackPub
      BY <1>10, <2>1 DEF AdmitDuplicate, Admissible, Admitting, memVars
    <2>3. Pending(e) \/ (recov[c.req] = c /\ Go(e, "finalize", FinalRecords(c.req), None))
      BY <1>10, <2>1 DEF AdmitDuplicate
    <2>4. CASE recov[c.req] = c /\ Go(e, "finalize", FinalRecords(c.req), None)
      <3>1. cur'.entry = e /\ cur'.stage = "finalize"
        BY <2>4, GoCur
      <3>2. cur' # None => AnsweringOK(cur, stream[cur.entry])'
        BY <1>1, <2>1, <2>2, <2>4, <3>1 DEF AnsweringOK
      <3>3. FinalRecords(c.req) \in Seq(RecordKinds)
        BY <1>2 DEF FinalRecords
      <3> QED BY <1>0, <1>1, <1>2, <2>2, <2>4, <3>2, <3>3, AnswerQuietMove
    <2> QED BY <1>3, <2>2, <2>3, <2>4
  <1>11. CASE AdmitHold(e)
    BY <1>3, <1>11 DEF AdmitHold, memVars
  <1> QED BY <1>4, <1>6, <1>7, <1>8, <1>9, <1>10, <1>11 DEF Handle

------------------------------------------------------------------------------
(* From the journal to the answer *)

LEMMA AnswerAppend ==
    ASSUME AnswerInv, JournalInv', Lasting, NEW res \in AppendResults, AppendNext(res)
    PROVE  AnswerInv'
  <1>1. /\ cur # None /\ cur.stage \in {"admit", "outcome", "finalize"} /\ cur.todo # <<>>
        /\ AppendRecord(NextRecord, res)
        /\ UNCHANGED <<stream, delivered, pel, ackStream, dlq, expired, up, ackPub, recov>>
        /\ \/ Go(cur.entry, cur.stage, Tail(cur.todo), None)
           \/ Abort(cur.entry, "Authority")
    BY DEF AppendNext, At, redisVars, memVars
  <1>2. torn' \in BOOLEAN /\ uncertain' \in BOOLEAN
    BY <1>1 DEF AppendRecord
  <1>3. cur \in InHand /\ cur.entry \in Entries
    BY <1>1 DEF AnswerInv, LoopTypes
  <1>4. Tail(cur.todo) \in Seq(RecordKinds) /\ cur.stage \in Stages
    BY <1>1, <1>3 DEF InHand
  <1>5. recov' \in [Requests -> Commands \cup {None}]
    BY <1>1 DEF AnswerInv, MemoryTypes
  <1>6. cur' # None => AnsweringOK(cur, stream[cur.entry])'
    <2>1. CASE Go(cur.entry, cur.stage, Tail(cur.todo), None)
      <3>1. cur'.entry = cur.entry /\ cur'.stage = cur.stage
        BY <2>1, GoCur
      <3>2. AnsweringOK(cur, stream[cur.entry])
        BY <1>1 DEF AnswerInv, InHandAnswerOK
      <3> QED BY <1>1, <3>1, <3>2 DEF AnsweringOK
    <2> QED BY <1>1, <2>1, AbortCur
  <1> QED BY <1>1, <1>2, <1>3, <1>4, <1>5, <1>6, AnswerQuietMove DEF BlockedKinds

LEMMA AnswerAsk ==
    ASSUME AnswerInv, JournalInv', Lasting,
           \/ \E records \in OutcomeRecords("Place") \cup OutcomeRecords("Cancel") :
                  ProviderAnswers(records)
           \/ ProviderUncertain \/ ProviderMismatch
    PROVE  AnswerInv'
  <1>1. /\ cur # None /\ cur.stage = "admit"
        /\ UNCHANGED <<torn, uncertain, stream, delivered, pel, ackStream, dlq, expired, up, ackPub, recov>>
    BY DEF ProviderAnswers, ProviderUncertain, ProviderMismatch, AskNow, At, journalVars, redisVars, memVars
  <1>2. cur.entry \in Entries
    BY <1>1 DEF AnswerInv, LoopTypes
  <1>3. /\ torn' \in BOOLEAN /\ uncertain' \in BOOLEAN
        /\ recov' \in [Requests -> Commands \cup {None}]
    BY <1>1 DEF AnswerInv, OutTypes, MemoryTypes
  <1>4. \/ \E records \in Seq(RecordKinds) : Go(cur.entry, "outcome", records, None)
        \/ Pending(cur.entry) \/ Abort(cur.entry, "Authority")
    <2>1. OutcomeRecords("Place") \cup OutcomeRecords("Cancel") \subseteq Seq(RecordKinds)
      <3>1. Observations \cup {"NoBrokerOrderFound", "Inconclusive", "CancelOutcomeObserved"}
              \subseteq RecordKinds
        BY DEF RecordKinds, EventsFor
      <3>2. \A a, b \in RecordKinds : <<a>> \in Seq(RecordKinds) /\ <<a, b>> \in Seq(RecordKinds)
        OBVIOUS
      <3> QED BY <3>1, <3>2 DEF OutcomeRecords, Observations
    <2> QED BY <2>1 DEF ProviderAnswers, ProviderUncertain, ProviderMismatch
  <1>5. cur' # None => AnsweringOK(cur, stream[cur.entry])'
    <2>1. AnsweringOK(cur, stream[cur.entry])
      BY <1>1 DEF AnswerInv, InHandAnswerOK
    <2>2. cur' # None => cur'.entry = cur.entry /\ cur'.stage = "outcome"
      BY <1>4, GoCur, PendingCur, AbortCur
    <2> QED BY <1>1, <2>1, <2>2 DEF AnsweringOK
  <1>6. /\ "outcome" \in Stages /\ "Authority" \in BlockedKinds
    BY DEF Stages, BlockedKinds
  <1> QED BY <1>1, <1>2, <1>3, <1>4, <1>5, <1>6, AnswerQuietMove

LEMMA AnswerOutcome ==
    ASSUME AnswerInv, JournalInv', Lasting, OutcomeRecorded
    PROVE  AnswerInv'
  <1>1. /\ cur # None /\ cur.stage = "outcome"
        /\ UNCHANGED <<torn, uncertain, stream, delivered, pel, ackStream, dlq, expired, up, ackPub>>
    BY DEF OutcomeRecorded, At, journalVars, redisVars
  <1>2. cur.entry \in Entries /\ AnsweringOK(cur, stream[cur.entry])
    BY <1>1 DEF AnswerInv, LoopTypes, InHandAnswerOK
  <1>3. PICK c \in Commands : c = stream[cur.entry] /\ c.req \in Requests
    BY <1>1, InHandCommand DEF AnswerInv, CurCmd
  <1>4. \/ Pending(cur.entry) /\ UNCHANGED recov
        \/ /\ recov' = [recov EXCEPT ![c.req] = c]
           /\ Go(cur.entry, "finalize", FinalRecords(c.req), None)
    BY <1>3 DEF OutcomeRecorded, CurCmd
  <1>5. /\ torn' \in BOOLEAN /\ uncertain' \in BOOLEAN
        /\ recov' \in [Requests -> Commands \cup {None}]
    BY <1>1, <1>3, <1>4 DEF AnswerInv, OutTypes, MemoryTypes
  <1>6. CASE Pending(cur.entry)
    <2>1. cur' = None
      BY <1>6, PendingCur
    <2> QED BY <1>1, <1>2, <1>5, <1>6, <2>1, AnswerQuietMove
  <1>7. CASE /\ recov' = [recov EXCEPT ![c.req] = c]
             /\ Go(cur.entry, "finalize", FinalRecords(c.req), None)
    <2>1. cur'.entry = cur.entry /\ cur'.stage = "finalize"
      BY <1>7, GoCur
    <2>2. recov'[c.req] = c
      BY <1>3, <1>7 DEF AnswerInv, MemoryTypes
    <2>3. cur' # None => AnsweringOK(cur, stream[cur.entry])'
      BY <1>1, <1>2, <1>3, <2>1, <2>2 DEF AnsweringOK
    <2>4. FinalRecords(c.req) \in Seq(RecordKinds) /\ "finalize" \in Stages
      <3>1. "RequestFinalized" \in RecordKinds
        BY DEF RecordKinds, EventsFor
      <3>2. \A a \in RecordKinds : <<a>> \in Seq(RecordKinds) /\ <<>> \in Seq(RecordKinds)
        OBVIOUS
      <3> QED BY <3>1, <3>2 DEF FinalRecords, Stages
    <2> QED BY <1>1, <1>2, <1>5, <1>7, <2>3, <2>4, AnswerQuietMove
  <1> QED BY <1>4, <1>6, <1>7

\* An acceptance is promised only once it is final on disk.
LEMMA AnswerFinalized ==
    ASSUME AnswerInv, JournalInv', Lasting, Finalized
    PROVE  AnswerInv'
  <1>1. /\ cur # None /\ cur.stage = "finalize" /\ cur.todo = <<>>
        /\ UNCHANGED <<torn, uncertain, stream, delivered, pel, ackStream, dlq, expired, up>>
    BY DEF Finalized, At, journalVars, redisVars
  <1>2. cur.entry \in Entries /\ AnsweringOK(cur, stream[cur.entry])
    BY <1>1 DEF AnswerInv, LoopTypes, InHandAnswerOK
  <1>3. PICK c \in Commands : c = CurCmd /\ c = stream[cur.entry] /\ c.req \in Requests /\ RecordsOK(cur, c)
    BY <1>1, InHandCommand DEF AnswerInv, CurCmd
  <1>4. ackPub[c.req] = None /\ recov[c.req] = c
    BY <1>1, <1>2, <1>3 DEF AnsweringOK
  <1>5. Finished(scan, c.req) /\ effects[c.req] = 1
    BY <1>1, <1>3 DEF RecordsOK
  <1>6. Finished(disk, c.req)
    BY <1>3, <1>5 DEF AnswerInv, JournalInv, FilesOK
  <1>7. Finished(disk, c.req)' /\ effects'[c.req] = 1
    BY <1>3, <1>5, <1>6 DEF Lasting
  <1>8. Remember(c, "Accepted") /\ Go(cur.entry, "ack", <<>>, "Accepted")
    BY <1>3, <1>4 DEF Finalized
  <1>9. recov' \in [Requests -> Commands \cup {None}]
    BY <1>3 DEF Finalized, AnswerInv, MemoryTypes
  <1> QED BY <1>1, <1>2, <1>3, <1>4, <1>7, <1>8, <1>9, AnswerRemember DEF Verdicts

------------------------------------------------------------------------------
(* Settlement *)

\* The answer in hand, and the stream after its XADD.
LEMMA PublishedStream ==
    ASSUME AnswerInv, Lasting, NEW c \in Commands, cur # None, cur.stage = "ack",
           stream[cur.entry] = c,
           UNCHANGED <<stream, delivered, pel, dlq, up>>,
           ackStream' \in {ackStream, ackStream \cup {<<c.req, cur.status>>}},
           \A r \in Requests : ackPub[r] # None => ackPub'[r] # None /\ ackPub'[r].status = ackPub[r].status
    PROVE  StreamOK' /\ OneProcessOK' /\ ackStream' \subseteq Requests \X Statuses
  <1>1. c.req \in Requests /\ c # Poison
    BY CommandType, BridgeAssumption
  <1> DEFINE a == ackPub[c.req]
  <1>2. a # None /\ cur.status = IF a.published THEN "Duplicate" ELSE a.status
    BY DEF AnswerInv, InHandAnswerOK, AnsweringOK
  <1>3. a \in AckPublication
    BY <1>1, <1>2 DEF AnswerInv, MemoryTypes
  <1>4. a.status \in Verdicts /\ cur.status \in Statuses
    BY <1>2, <1>3 DEF AckPublication, Statuses
  <1>5. AnswerOK(c.req)
    BY <1>1 DEF AnswerInv, AnswersOK
  <1>6. cur.status = "Accepted" => Finished(disk, c.req)' /\ effects'[c.req] = 1
    BY <1>1, <1>2, <1>5 DEF AnswerOK, Lasting
  <1>7. cur.status = "Duplicate" => \E v \in Verdicts : <<c.req, v>> \in ackStream
    <2>1. "Duplicate" \notin Verdicts
      BY DEF Verdicts
    <2> QED BY <1>2, <1>4, <1>5, <2>1 DEF AnswerOK
  <1> HIDE DEF a
  <1>8. AcceptedIsFinal'
    BY <1>6 DEF AnswerInv, StreamOK, AcceptedIsFinal, Lasting, Finished
  <1>9. DuplicateFollowsVerdict'
    BY <1>7 DEF AnswerInv, StreamOK, DuplicateFollowsVerdict
  <1>10. SettledIsAnswered'
    BY DEF AnswerInv, StreamOK, SettledIsAnswered
  <1>11. OneProcessOK'
    <2>1. CASE stream \in Mortal
      BY <2>1 DEF OneProcessOK
    <2>2. CASE stream \notin Mortal
      <3>1. up /\ \A r \in Requests : \A v \in Verdicts : <<r, v>> \in ackStream =>
                      ackPub[r] # None /\ ackPub[r].status = v
        BY <2>2 DEF AnswerInv, OneProcessOK
      <3>2. ASSUME NEW r \in Requests, NEW v \in Verdicts, <<r, v>> \in ackStream'
            PROVE  ackPub[r] # None /\ ackPub[r].status = v
        <4>1. CASE <<r, v>> \in ackStream
          BY <3>1, <4>1
        <4>2. CASE r = c.req /\ v = cur.status
          <5>1. v # "Duplicate"
            BY <3>2 DEF Verdicts
          <5> QED BY <1>2, <4>2, <5>1 DEF a
        <4> QED BY <3>2, <4>1, <4>2
      <3> QED BY <3>1, <3>2 DEF OneProcessOK
    <2> QED BY <2>1, <2>2
  <1>12. ackStream' \subseteq Requests \X Statuses
    BY <1>1, <1>4 DEF AnswerInv, OutTypes
  <1> QED BY <1>8, <1>9, <1>10, <1>11, <1>12 DEF StreamOK

LEMMA AnswerPublish ==
    ASSUME AnswerInv, JournalInv', Lasting, NEW res \in RedisResults, PublishAck(res)
    PROVE  AnswerInv'
  <1>1. /\ cur # None /\ cur.stage = "ack"
        /\ UNCHANGED <<torn, uncertain, stream, delivered, pel, dlq, expired, up, recov>>
        /\ ackPub' = MarkPublished(res)
    BY DEF PublishAck, At, journalVars
  <1>2. cur.entry \in Entries /\ AnsweringOK(cur, stream[cur.entry])
    BY <1>1 DEF AnswerInv, LoopTypes, InHandAnswerOK
  <1>3. PICK c \in Commands : c = CurCmd /\ c = stream[cur.entry] /\ c.req \in Requests /\ c # Poison
    <2>1. CurCmd \in Commands /\ CurCmd # Poison
      BY <1>1, <1>2, EntryType DEF CurCmd, AnsweringOK, AnswerInv, JournalInv, EffectInv, DeliveryOK
    <2> QED BY <2>1, CommandType DEF CurCmd
  <1> DEFINE a == ackPub[c.req]
             s == cur.status
  <1>4. /\ a # None /\ s = IF a.published THEN "Duplicate" ELSE a.status
    BY <1>1, <1>2, <1>3 DEF AnsweringOK
  <1>5. a \in AckPublication /\ ackPub \in [Requests -> AckPublication \cup {None}]
    BY <1>3, <1>4 DEF AnswerInv, MemoryTypes
  <1>6. s \in Statuses
    BY <1>4, <1>5 DEF AckPublication, Statuses
  <1>7. /\ ackStream' = IF res = "fail" THEN ackStream ELSE ackStream \cup {<<c.req, s>>}
        /\ IF res = "ok" THEN Go(cur.entry, "xack", <<>>, s) ELSE Abort(cur.entry, "AckSettlement")
    BY <1>3 DEF PublishAck
  <1>8. AnswerOK(c.req)
    BY <1>3 DEF AnswerInv, AnswersOK
  <1>9. /\ \A r \in Requests \ {c.req} : ackPub'[r] = ackPub[r]
        /\ res # "ok" => ackPub'[c.req] = a
        /\ res = "ok" => ackPub'[c.req] = [a EXCEPT !.published = TRUE]
    BY <1>1, <1>3, <1>4, <1>5 DEF MarkPublished
  <1>10. /\ ackPub'[c.req] \in AckPublication /\ ackPub'[c.req] # None
         /\ ackPub'[c.req].status = a.status
         /\ ackPub'[c.req].published = (a.published \/ res = "ok")
    <2>1. CASE res = "ok"
      <3>1. [a EXCEPT !.published = TRUE] \in AckPublication
            /\ [a EXCEPT !.published = TRUE].status = a.status
            /\ [a EXCEPT !.published = TRUE].published = TRUE
        BY <1>5 DEF AckPublication
      <3>2. ackPub'[c.req] \in AckPublication /\ ackPub'[c.req].status = a.status
            /\ ackPub'[c.req].published = TRUE
        BY <1>9, <2>1, <3>1
      <3> QED BY <2>1, <3>2, BridgeAssumption
    <2>2. CASE res # "ok"
      <3>1. a.published \in BOOLEAN
        BY <1>5 DEF AckPublication
      <3> QED BY <1>4, <1>5, <1>9, <2>2, <3>1
    <2> QED BY <2>1, <2>2
  <1>11. MemoryTypes'
    <2>1. ackPub' \in [Requests -> AckPublication \cup {None}]
      <3>1. MarkPublished(res) \in {ackPub, [ackPub EXCEPT ![c.req] = [a EXCEPT !.published = TRUE]]}
        BY <1>3 DEF MarkPublished
      <3>2. [a EXCEPT !.published = TRUE] \in AckPublication
        BY <1>5 DEF AckPublication
      <3> QED BY <1>1, <1>5, <3>1, <3>2
    <2> QED BY <1>1, <2>1 DEF AnswerInv, MemoryTypes
  <1> HIDE DEF a, s
  <1>12. LoopTypes'
    <2>1. "xack" \in Stages /\ <<>> \in Seq(RecordKinds) /\ "AckSettlement" \in BlockedKinds
      BY DEF Stages, BlockedKinds
    <2> QED BY <1>1, <1>2, <1>6, <1>7, <2>1, MoveTypes DEF AnswerInv
  <1>13. StreamOK' /\ OneProcessOK' /\ ackStream' \subseteq Requests \X Statuses
    <2>1. \A r \in Requests : ackPub[r] # None => ackPub'[r] # None /\ ackPub'[r].status = ackPub[r].status
      BY <1>9, <1>10 DEF a
    <2> QED BY <1>1, <1>3, <1>7, <2>1, PublishedStream DEF s
  <1>14. OutTypes'
    BY <1>1, <1>13 DEF AnswerInv, OutTypes, Entries
  <1>15. \A x \in Entries : blocked[x] # None => blocked'[x] # None
    <2>1. "AckSettlement" \in BlockedKinds
      BY DEF BlockedKinds
    <2> QED BY <1>2, <1>7, <2>1, MoveBlocks DEF AnswerInv
  <1>16. AnswersOK'
    <2>1. AnswerOK(c.req)'
      <3>1. a.status = "Accepted" => Finished(disk, c.req)' /\ effects'[c.req] = 1
        BY <1>3, <1>4, <1>8 DEF AnswerOK, Lasting, a
      <3>2. a.published \/ res = "ok" => <<c.req, a.status>> \in ackStream'
        BY <1>4, <1>7, <1>8 DEF AnswerOK, a
      <3>3. res # "ok" => Owed(c.req)'
        <4>1. SUFFICES ASSUME res # "ok" PROVE Owed(c.req)'
          OBVIOUS
        <4>2. blocked'[cur.entry] = "AckSettlement"
          BY <1>2, <1>7, <4>1 DEF Abort, AnswerInv, LoopTypes
        <4>3. "AckSettlement" # None
          BY BridgeAssumption DEF BlockedKinds
        <4> QED BY <1>1, <1>2, <1>3, <4>2, <4>3 DEF Owed, Entries
      <3> QED BY <1>10, <3>1, <3>2, <3>3 DEF AnswerOK
    <2>2. ASSUME NEW r \in Requests \ {c.req} PROVE AnswerOK(r)'
      <3>1. AnswerOK(r) /\ ackPub'[r] = ackPub[r]
        BY <1>9, <2>2 DEF AnswerInv, AnswersOK
      <3>2. Owed(r) => Owed(r)'
        BY <1>1, <1>3, <1>15, <2>2 DEF Owed, Entries
      <3> QED BY <1>7, <2>2, <3>1, <3>2 DEF AnswerOK, Lasting
    <2> QED BY <2>1, <2>2 DEF AnswersOK
  <1>17. InHandAnswerOK'
    <2>1. CASE res = "ok"
      <3>1. cur'.entry = cur.entry /\ cur'.stage = "xack"
        BY <1>7, <2>1, GoCur
      <3>2. <<c.req, s>> \in ackStream'
        BY <1>7, <2>1
      <3> QED BY <1>1, <1>3, <1>6, <1>10, <2>1, <3>1, <3>2 DEF InHandAnswerOK, AnsweringOK
    <2>2. CASE res # "ok"
      BY <1>7, <2>2, AbortCur DEF InHandAnswerOK
    <2> QED BY <2>1, <2>2
  <1> QED BY <1>11, <1>12, <1>13, <1>14, <1>16, <1>17 DEF AnswerInv

LEMMA AnswerDlq ==
    ASSUME AnswerInv, JournalInv', Lasting, NEW res \in RedisResults, PublishDlq(res)
    PROVE  AnswerInv'
  <1>1. /\ cur # None /\ cur.stage = "dlq"
        /\ UNCHANGED <<torn, uncertain, stream, delivered, pel, ackStream, expired, up, ackPub, recov>>
        /\ dlq' = IF res = "fail" THEN dlq ELSE dlq \cup {cur.entry}
        /\ IF res = "ok" THEN Go(cur.entry, "xack", <<>>, None) ELSE Abort(cur.entry, "DlqSettlement")
    BY DEF PublishDlq, At, journalVars, memVars
  <1>2. cur.entry \in Entries /\ stream[cur.entry] = Poison
    BY <1>1 DEF AnswerInv, LoopTypes, InHandAnswerOK, AnsweringOK
  <1>3. /\ "xack" \in Stages /\ <<>> \in Seq(RecordKinds) /\ "DlqSettlement" \in BlockedKinds
        /\ None \in Statuses \cup {None}
    BY DEF Stages, BlockedKinds
  <1>4. LoopTypes'
    BY <1>1, <1>2, <1>3, MoveTypes DEF AnswerInv
  <1>5. OutTypes' /\ MemoryTypes'
    BY <1>1, <1>2 DEF AnswerInv, OutTypes, MemoryTypes, Entries
  <1>6. \A x \in Entries : blocked[x] # None => blocked'[x] # None
    BY <1>1, <1>2, <1>3, MoveBlocks DEF AnswerInv
  <1>7. AnswersOK'
    <2>1. ASSUME NEW r \in Requests PROVE AnswerOK(r)'
      <3>1. AnswerOK(r)
        BY DEF AnswerInv, AnswersOK
      <3>2. Owed(r) => Owed(r)'
        BY <1>1, <1>6 DEF Owed, Entries
      <3> QED BY <1>1, <3>1, <3>2 DEF AnswerOK, Lasting
    <2> QED BY <2>1 DEF AnswersOK
  <1>8. StreamOK' /\ OneProcessOK'
    BY <1>1 DEF AnswerInv, StreamOK, AcceptedIsFinal, DuplicateFollowsVerdict, SettledIsAnswered, Lasting,
                Finished, Known, OneProcessOK
  <1>9. InHandAnswerOK'
    <2>1. CASE res = "ok"
      <3>1. cur'.entry = cur.entry /\ cur'.stage = "xack"
        BY <1>1, <2>1, GoCur
      <3> QED BY <1>1, <1>2, <2>1, <3>1 DEF InHandAnswerOK, AnsweringOK
    <2>2. CASE res # "ok"
      BY <1>1, <2>2, AbortCur DEF InHandAnswerOK
    <2> QED BY <2>1, <2>2
  <1> QED BY <1>4, <1>5, <1>7, <1>8, <1>9 DEF AnswerInv

\* An entry is taken off the pending list, and off the blocked list, with its
\* answer in the stream.
LEMMA AnswerXack ==
    ASSUME AnswerInv, JournalInv', Lasting, NEW res \in RedisResults, Xack(res)
    PROVE  AnswerInv'
  <1>1. /\ cur # None /\ cur.stage = "xack"
        /\ UNCHANGED <<torn, uncertain, stream, delivered, ackStream, dlq, expired, up, ackPub, recov>>
        /\ pel' = IF res = "fail" THEN pel ELSE pel \ {cur.entry}
    BY DEF Xack, At, journalVars, memVars
  <1>2. cur.entry \in Entries /\ AnsweringOK(cur, stream[cur.entry])
    BY <1>1 DEF AnswerInv, LoopTypes, InHandAnswerOK
  <1>3. \/ /\ cur' = None /\ blocked' = [blocked EXCEPT ![cur.entry] = None]
           /\ UNCHANGED <<at, pages, cursor, sourceOk, claimOk>>
        \/ \E kind \in BlockedKinds : Abort(cur.entry, kind)
    BY DEF Xack, BlockedKinds
  <1>4. LoopTypes' /\ cur' = None
    <2>1. CASE /\ cur' = None /\ blocked' = [blocked EXCEPT ![cur.entry] = None]
               /\ UNCHANGED <<at, pages, cursor, sourceOk, claimOk>>
      BY <1>1, <1>2, <2>1 DEF AnswerInv, LoopTypes, Entries
    <2>2. CASE \E kind \in BlockedKinds : Abort(cur.entry, kind)
      BY <1>1, <1>2, <2>2, MoveTypes, AbortCur DEF AnswerInv
    <2> QED BY <1>3, <2>1, <2>2
  <1>5. OutTypes' /\ MemoryTypes' /\ InHandAnswerOK'
    BY <1>1, <1>4 DEF AnswerInv, OutTypes, MemoryTypes, Entries, InHandAnswerOK
  <1>6. \A x \in Entries \ {cur.entry} : blocked[x] # None => blocked'[x] # None
    <2>1. CASE blocked' = [blocked EXCEPT ![cur.entry] = None]
      BY <1>2, <2>1 DEF AnswerInv, LoopTypes
    <2>2. CASE \E kind \in BlockedKinds : Abort(cur.entry, kind)
      BY <1>2, <2>2, MoveBlocks DEF AnswerInv
    <2> QED BY <1>3, <2>1, <2>2
  <1>7. AnswersOK'
    <2>1. ASSUME NEW r \in Requests PROVE AnswerOK(r)'
      <3>1. AnswerOK(r)
        BY DEF AnswerInv, AnswersOK
      <3>2. ackPub[r] # None /\ ~ackPub[r].published =>
                ~(stream[cur.entry] # Poison /\ stream[cur.entry].req = r)
        BY <1>1, <1>2 DEF AnsweringOK
      <3>3. ackPub[r] # None /\ ~ackPub[r].published /\ Owed(r) => Owed(r)'
        BY <1>1, <1>6, <3>2 DEF Owed, Entries
      <3> QED BY <1>1, <3>1, <3>3 DEF AnswerOK, Lasting
    <2> QED BY <2>1 DEF AnswersOK
  <1>8. AcceptedIsFinal' /\ DuplicateFollowsVerdict' /\ OneProcessOK'
    BY <1>1 DEF AnswerInv, StreamOK, AcceptedIsFinal, DuplicateFollowsVerdict, Lasting, Finished, Known,
                OneProcessOK
  <1>9. SettledIsAnswered'
    <2>1. ASSUME NEW e \in 1..delivered, e \notin pel'
          PROVE  IF stream[e] = Poison THEN e \in dlq
                 ELSE \E v \in Statuses : <<stream[e].req, v>> \in ackStream
      <3>1. CASE e \notin pel
        BY <3>1 DEF AnswerInv, StreamOK, SettledIsAnswered
      <3>2. CASE e = cur.entry
        BY <1>1, <1>2, <3>2 DEF AnsweringOK
      <3> QED BY <1>1, <2>1, <3>1, <3>2
    <2> QED BY <1>1, <2>1 DEF SettledIsAnswered
  <1> QED BY <1>4, <1>5, <1>7, <1>8, <1>9 DEF AnswerInv, StreamOK

------------------------------------------------------------------------------
(* Time and the process *)

LEMMA AnswerProcess ==
    ASSUME AnswerInv, JournalInv', Lasting,
           (\E c \in Commands : Expire(c)) \/ Crash \/ Restart \/ UNCHANGED vars
    PROVE  AnswerInv'
  <1>1. CASE (\E c \in Commands : Expire(c)) \/ UNCHANGED vars
    <2>1. /\ UNCHANGED <<torn, uncertain, stream, delivered, pel, ackStream, dlq, up, cur, at, pages,
                         cursor, ackPub, recov, blocked, sourceOk, claimOk>>
          /\ expired' \subseteq expired \cup Commands
      BY <1>1 DEF Expire, vars, journalVars, redisVars, loopVars, memVars, superVars
    <2>2. LoopTypes' /\ OutTypes' /\ MemoryTypes'
      BY <2>1 DEF AnswerInv, LoopTypes, OutTypes, MemoryTypes, Entries
    <2>3. InHandAnswerOK'
      BY <2>1 DEF AnswerInv, InHandAnswerOK, AnsweringOK
    <2>4. AnswersOK' /\ StreamOK' /\ OneProcessOK'
      BY <2>1, AnswersQuiet
    <2> QED BY <2>2, <2>3, <2>4 DEF AnswerInv
  <1>2. CASE Crash
    <2>1. /\ UNCHANGED <<torn, uncertain, stream, delivered, pel, ackStream, dlq, expired>>
          /\ up' = FALSE /\ stream \in Mortal /\ Forget
      BY <1>2 DEF Crash, journalVars, redisVars
    <2>2. LoopTypes'
      <3>1. 0 \in 0..MaxClaimPages - 1 /\ 0 \in 0..Len(stream)
        BY BridgeAssumption DEF AnswerInv, JournalInv, EffectInv, DeliveryOK
      <3> QED BY <2>1, <3>1 DEF Forget, LoopTypes, Positions, Entries
    <2>3. \A r \in Requests : ackPub'[r] = None
      BY <2>1 DEF Forget
    <2>4. OutTypes' /\ MemoryTypes' /\ InHandAnswerOK' /\ AnswersOK'
      BY <2>1, <2>3 DEF Forget, AnswerInv, OutTypes, MemoryTypes, Entries, InHandAnswerOK, AnswersOK,
                        AnswerOK
    <2>5. StreamOK' /\ OneProcessOK'
      BY <2>1 DEF AnswerInv, StreamOK, AcceptedIsFinal, DuplicateFollowsVerdict, SettledIsAnswered,
                  Lasting, Finished, Known, OneProcessOK
    <2> QED BY <2>2, <2>4, <2>5 DEF AnswerInv
  <1>3. CASE Restart
    <2>1. /\ UNCHANGED <<stream, delivered, pel, ackStream, dlq, expired, cur, at, pages, cursor, ackPub,
                         recov, blocked, sourceOk, claimOk, torn>>
          /\ up' = TRUE /\ uncertain' = FALSE /\ ~up
      BY <1>3 DEF Restart, OpenJournal, redisVars, loopVars, memVars, superVars
    <2>2. LoopTypes' /\ OutTypes' /\ MemoryTypes'
      BY <2>1 DEF AnswerInv, LoopTypes, OutTypes, MemoryTypes, Entries
    <2>3. cur = None /\ cur' = None
      BY <2>1 DEF AnswerInv, JournalInv, InHandRecordsOK
    <2>4. OneProcessOK'
      BY <2>1 DEF AnswerInv, OneProcessOK
    <2>5. AnswersOK'
      <3>1. ASSUME NEW r \in Requests PROVE AnswerOK(r)'
        <4>1. AnswerOK(r) /\ (Owed(r) => Owed(r)')
          BY <2>1 DEF AnswerInv, AnswersOK, Owed, Entries
        <4> QED BY <2>1, <4>1 DEF AnswerOK, Lasting
      <3> QED BY <3>1 DEF AnswersOK
    <2>6. StreamOK'
      BY <2>1 DEF AnswerInv, StreamOK, AcceptedIsFinal, DuplicateFollowsVerdict, SettledIsAnswered,
                  Lasting, Finished, Known
    <2> QED BY <2>2, <2>3, <2>4, <2>5, <2>6 DEF AnswerInv, InHandAnswerOK
  <1> QED BY <1>1, <1>2, <1>3

------------------------------------------------------------------------------
(* The theorems *)

LEMMA AnswerInitially == Init => AnswerInv
  <1> SUFFICES ASSUME Init PROVE AnswerInv
    OBVIOUS
  <1>1. MemoryInit /\ stream \in Streams /\ delivered = 0 /\ ackStream = {} /\ dlq = {} /\ expired = {}
        /\ up = TRUE /\ torn = FALSE /\ uncertain = FALSE
    BY DEF Init, JournalInit
  <1>2. LoopTypes
    <2>1. 0 \in 0..MaxClaimPages - 1 /\ 0 \in 0..Len(stream)
      BY <1>1, BridgeAssumption
    <2> QED BY <1>1, <2>1 DEF MemoryInit, LoopTypes, Positions
  <1>3. OutTypes /\ MemoryTypes
    BY <1>1 DEF MemoryInit, OutTypes, MemoryTypes
  <1>4. AnswersOK /\ InHandAnswerOK /\ OneProcessOK
    BY <1>1 DEF MemoryInit, AnswersOK, AnswerOK, InHandAnswerOK, OneProcessOK
  <1>5. StreamOK
    BY <1>1 DEF StreamOK, AcceptedIsFinal, DuplicateFollowsVerdict, SettledIsAnswered
  <1> QED BY <1>2, <1>3, <1>4, <1>5, JournalInitially DEF AnswerInv

LEMMA AnswerStep == AnswerInv /\ [Next]_vars => AnswerInv'
  <1> SUFFICES ASSUME AnswerInv, [Next]_vars PROVE AnswerInv'
    OBVIOUS
  <1>1. JournalInv' /\ Lasting
    BY JournalStep, StepLasts DEF AnswerInv
  <1> QED BY <1>1, AnswerLoop, AnswerHandle, AnswerAppend, AnswerAsk, AnswerOutcome, AnswerFinalized,
             AnswerPublish, AnswerDlq, AnswerXack, AnswerProcess DEF Next

\* The invariant that ties memory, ack stream and blocked entries together.
THEOREM AnswerInvariant == Spec => []AnswerInv
  BY AnswerInitially, AnswerStep, PTL DEF Spec

\* The consumer keeps the types of journal, Redis, loop, memory and supervisor.
THEOREM BridgeTypeCorrect == Spec => []TypeOK
  <1>1. AnswerInv => TypeOK
    BY DEF AnswerInv, JournalInv, EffectInv, JournalOK, DeliveryOK, EffectsOK, LoopTypes, OutTypes,
           MemoryTypes, TypeOK
  <1> QED BY <1>1, AnswerInvariant, PTL

\* Accepted is published only for a request that is final on disk and for
\* which the provider was asked, also by a later process.
THEOREM AcceptedIsFinalHolds == Spec => []AcceptedIsFinal
  <1>1. AnswerInv => AcceptedIsFinal
    BY DEF AnswerInv, StreamOK
  <1> QED BY <1>1, AnswerInvariant, PTL

\* A Duplicate never comes before the acknowledgement it is a duplicate of.
THEOREM DuplicateFollowsVerdictHolds == Spec => []DuplicateFollowsVerdict
  <1>1. AnswerInv => DuplicateFollowsVerdict
    BY DEF AnswerInv, StreamOK
  <1> QED BY <1>1, AnswerInvariant, PTL

\* XACK only follows a published answer or dead letter, crashes included.
THEOREM SettledIsAnsweredHolds == Spec => []SettledIsAnswered
  <1>1. AnswerInv => SettledIsAnswered
    BY DEF AnswerInv, StreamOK
  <1> QED BY <1>1, AnswerInvariant, PTL

\* Between two entries the consumer is not ready while an answer is owed: the
\* entry whose answer was not published is on the blocked list.
THEOREM ReadyOwesNothingHolds == Spec => []ReadyOwesNothing
  <1>1. AnswerInv => ReadyOwesNothing
    <2> SUFFICES ASSUME AnswerInv, PaperReady, cur = None, NEW r \in Requests, ackPub[r] # None
                 PROVE  ackPub[r].published
      BY DEF ReadyOwesNothing
    <2>1. ~Owed(r)
      BY DEF Owed, PaperReady
    <2> QED BY <2>1 DEF AnswerInv, AnswersOK, AnswerOK
  <1> QED BY <1>1, AnswerInvariant, PTL

\* A process that does not die gives a request one verdict.
THEOREM OneVerdictHolds == Spec => []OneVerdict
  <1>1. AnswerInv => OneVerdict
    BY DEF AnswerInv, OneProcessOK, OneVerdict
  <1> QED BY <1>1, AnswerInvariant, PTL
==============================================================================
