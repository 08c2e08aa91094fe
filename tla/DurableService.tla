---------------------------- MODULE DurableService ----------------------------
(***************************************************************************)
(* The Stage 7B durable command service (runtime-durable-service/src/      *)
(* recovery.rs, recovery/redis_service.rs, recovery/redis_settlement.rs):  *)
(* the same admission as the Stage 7A consumer, but with nothing in memory *)
(* that a restart needs.  A seal file names the journal state the service  *)
(* vouches for; it is advanced before an answer is published; and one Lua  *)
(* script publishes the answer, leaves a marker for the request and for    *)
(* the entry, and acknowledges the entry.                                  *)
(*                                                                         *)
(* Every journal append, seal commit and Redis call is a step, and the     *)
(* process can die between any two.  A run that returned an error is run   *)
(* again with the same owner, or the process ends.                         *)
(*                                                                         *)
(* Data: as in PaperAdmission; a seal is its generation and the journal it *)
(* names (generation and checkpoint; the commitment over both is left      *)
(* out); the Stage 5G restart package inside the seal is the set of the    *)
(* requests that are its slots, which no step of the service changes.      *)
(***************************************************************************)
EXTENDS PaperAdmission, ConsumerGroup

CONSTANTS Poison,         \* an entry that does not decode to a command
          Streams,        \* the entry sequences producers may have written
          Starts,         \* durable roots: slots, journal and effects so far
          ReadCount,      \* XREADGROUP COUNT
          ClaimCount,     \* XAUTOCLAIM COUNT
          MaxClaimPages   \* max_claim_pages

\* A root an earlier service or first boot left and a restart accepts: it
\* replays, its open requests are its slots, an effect has its attempt on
\* record, and an outcome or a finalization is only on record after an effect.
SoundRoot(s) ==
    /\ s.journal.ok
    /\ \A r \in s.slots : Known(s.journal, r)
    /\ \A r \in Requests :
          /\ Open(s.journal, r) => r \in s.slots
          /\ s.effects[r] = 1 => Known(s.journal, r) /\ s.journal.reqs[r].attempts = 1
          /\ Known(s.journal, r) =>
                LET w == s.journal.reqs[r]
                IN  /\ w.safety = "ReadyForFirstDispatch" => w.attempts = 0
                    /\ w.safety = "DispatchForbidden" => s.effects[r] = 1
                    /\ w.final => w.safety = "DispatchForbidden"

ASSUME ServiceAssumption ==
    /\ Poison \notin Commands
    /\ Streams \subseteq Seq(Commands \cup {Poison})
    /\ Starts \subseteq [slots : SUBSET Requests, journal : Journal, effects : [Requests -> {0, 1}]]
    /\ \A s \in Starts : SoundRoot(s)
    /\ {ReadCount, ClaimCount, MaxClaimPages} \subseteq Nat \ {0}

VARIABLES stream, delivered, pel,        \* the command stream and its consumer group
          published, entryMark, reqMark, \* outputs, and the markers the script leaves
          slots, seal,                   \* the recovery seal on disk
          cached, frontier, sealUnc,     \* committed_seal, authenticated_checkpoint, seal_commit_uncertain
          up, cur,                       \* the process, the entry in hand and how far
          batch, at, pages, cursor,      \* the run loop
          blocked,                       \* blocked_entries
          effects                        \* paper_outcome calls per request

redisVars == <<stream, delivered, pel, published, entryMark, reqMark>>
sealVars  == <<slots, seal>>
ownerVars == <<cached, frontier, sealUnc>>
loopVars  == <<batch, at, pages, cursor>>
vars == <<journalVars, expired, redisVars, sealVars, ownerVars, up, cur, loopVars, blocked, effects>>

Entries == 1..Len(stream)
Verdicts == {"Accepted", "Rejected", "Expired"}
Seal == [gen : Nat, cp : Journal]
Marker == [cmd : Commands, status : Verdicts]
Positions == {"check", "reclaim", "reclaiming", "poll", "polling"}
Stages == {"decide", "admit", "outcome", "finalize", "ack", "reject", "repeat", "dlq"}

TypeOK ==
    /\ disk \in Journal /\ scan \in Journal /\ torn \in BOOLEAN /\ uncertain \in BOOLEAN
    /\ expired \subseteq Commands
    /\ stream \in Streams /\ delivered \in 0..Len(stream) /\ pel \subseteq 1..delivered
    /\ published \in [Entries -> Seq(Verdicts \cup {"Duplicate", "Dlq"})]
    /\ entryMark \subseteq Entries
    /\ reqMark \in [Requests -> Marker \cup {None}]
    /\ slots \subseteq Requests /\ seal \in Seal
    /\ cached \in Seal /\ frontier \in Journal /\ sealUnc \in BOOLEAN
    /\ up \in BOOLEAN
    /\ cur # None => cur.entry \in pel /\ cur.stage \in Stages
    /\ batch \subseteq pel /\ at \in Positions
    /\ pages \in 0..MaxClaimPages - 1 /\ cursor \in 0..delivered
    /\ blocked \subseteq 1..delivered
    /\ effects \in [Requests -> Nat]

\* A sealed root and the process started on it.
Init ==
    /\ stream \in Streams
    /\ delivered = 0 /\ pel = {}
    /\ published = [e \in Entries |-> <<>>] /\ entryMark = {} /\ reqMark = [r \in Requests |-> None]
    /\ expired = {}
    /\ \E s \in Starts : /\ disk = s.journal /\ scan = s.journal
                         /\ slots = s.slots /\ effects = s.effects
    /\ torn = FALSE /\ uncertain = FALSE
    /\ seal = [gen |-> 1, cp |-> disk] /\ cached = seal /\ frontier = disk /\ sealUnc = FALSE
    /\ up = TRUE /\ cur = None
    /\ batch = {} /\ at = "check" /\ pages = 0 /\ cursor = 0 /\ blocked = {}

------------------------------------------------------------------------------
(* The owner: refresh, seal *)

\* stage6e_semantic_cross_bind_restart: every slot is on record, and every
\* open request is a slot.
CrossBound(j) ==
    /\ \A r \in slots : Known(j, r)
    /\ \A r \in Requests : Open(j, r) => r \in slots

\* refresh_after_append: replay, take the frontier as the checkpoint, bind.  An
\* owner always has the Restart authority: first_boot too puts the validated
\* Stage 5G seed there.
Refreshed(j) == j.ok /\ CrossBound(j)
Refresh(j) == frontier' = IF j.ok THEN j ELSE frontier

SealResults == {"ok", "fail", "kept"}

\* Reread the committed seal and, when the frontier has moved, write the next
\* one: temporary file, rename, directory sync, reread.  "fail": the old file
\* stays (or cannot be read); "kept": renamed, but the call reports an error.
AdvanceSeal(res) ==
    /\ seal' = IF res = "fail" \/ cached.cp = frontier' THEN seal
               ELSE [gen |-> cached.gen + 1, cp |-> frontier']
    /\ cached' = IF res = "ok" THEN seal' ELSE cached
    /\ sealUnc' = (res # "ok")

\* validate_composite_readiness
CompositeReady == ~sealUnc /\ seal = cached /\ frontier = cached.cp

------------------------------------------------------------------------------
(* run_bounded: check, reclaim, and poll only when nothing is blocked *)

Ready(pos) == up /\ cur = None /\ batch = {} /\ at = pos

NotReady ==
    /\ Ready("check") /\ ~CompositeReady /\ ~sealUnc
    /\ sealUnc' = TRUE
    /\ UNCHANGED <<journalVars, expired, redisVars, sealVars, cached, frontier, up, cur, loopVars,
                   blocked, effects>>

AfterScan == IF blocked = {} THEN "poll" ELSE "check"

\* XAUTOCLAIM; the cursor moves before the page is processed.
ClaimPage(idle) ==
    /\ (Ready("check") /\ CompositeReady) \/ Ready("reclaim")
    /\ batch' = ClaimedPage(idle, cursor, ClaimCount)
    /\ cursor' = CursorAfter(pel, batch', ClaimCount)
    /\ IF batch' = {}
       THEN at' = AfterScan /\ pages' = 0
       ELSE at' = "reclaiming" /\ UNCHANGED pages
    /\ UNCHANGED <<journalVars, expired, redisVars, sealVars, ownerVars, up, cur, blocked, effects>>

\* A blocked entry ends the scan and keeps the cursor.
LastPage == blocked # {} \/ cursor = 0 \/ pages + 1 = MaxClaimPages

EndClaimPage ==
    /\ Ready("reclaiming")
    /\ IF LastPage
       THEN at' = AfterScan /\ pages' = 0
       ELSE at' = "reclaim" /\ pages' = pages + 1
    /\ UNCHANGED <<journalVars, expired, redisVars, sealVars, ownerVars, up, cur, batch, cursor,
                   blocked, effects>>

\* XREADGROUP of the next n entries; without a reply the group has handed them
\* out and the run ends with an error.
Poll(n, reply) ==
    /\ Ready("poll")
    /\ delivered + n <= Len(stream)
    /\ delivered' = delivered + n
    /\ pel' = pel \cup (delivered + 1)..(delivered + n)
    /\ IF reply /\ n > 0
       THEN batch' = (delivered + 1)..(delivered + n) /\ at' = "polling"
       ELSE at' = "check" /\ UNCHANGED batch
    /\ UNCHANGED <<journalVars, expired, stream, published, entryMark, reqMark, sealVars, ownerVars,
                   up, cur, pages, cursor, blocked, effects>>

EndPoll ==
    /\ Ready("polling")
    /\ at' = "check"
    /\ UNCHANGED <<journalVars, expired, redisVars, sealVars, ownerVars, up, cur, batch, pages,
                   cursor, blocked, effects>>

\* An error ends the run; the next one starts with the readiness check.
Fail == cur' = None /\ batch' = {} /\ at' = "check" /\ pages' = 0 /\ UNCHANGED <<cursor, blocked>>

\* Mutant: the rest of the batch is gone on with after an error.
FailKeepsBatch(e) ==
    /\ cur' = None /\ UNCHANGED <<batch, at, pages, cursor>>
    /\ blocked' = blocked \cup {e}

FailBlocked(e) ==
    /\ cur' = None /\ batch' = {} /\ at' = "check" /\ pages' = 0 /\ UNCHANGED cursor
    /\ blocked' = blocked \cup {e}

\* process_entry returned false: blocked, and the rest of the batch is left.
Hold(e) ==
    /\ cur' = None /\ batch' = {} /\ UNCHANGED <<at, pages, cursor>>
    /\ blocked' = blocked \cup {e}

Go(e, stage, todo, status) ==
    /\ cur' = [entry |-> e, stage |-> stage, todo |-> todo, status |-> status]
    /\ UNCHANGED <<loopVars, blocked>>

------------------------------------------------------------------------------
(* process_entry up to the first journal append *)

Handling(e) == up /\ cur = None /\ batch # {} /\ e = Min(batch)

\* observe_pre_stage6_command: the seal catches up with the journal.
ObserveCommand(e, res) ==
    /\ Handling(e) /\ stream[e] # Poison
    /\ Refresh(scan)
    /\ IF Refreshed(scan)
       THEN AdvanceSeal(res) /\ IF res = "ok" THEN Go(e, "decide", <<>>, None) ELSE Fail
       ELSE Fail /\ UNCHANGED <<seal, cached, sealUnc>>
    /\ UNCHANGED <<journalVars, expired, redisVars, slots, up, effects>>

\* observe_pre_stage6_poison: the seal must be at the frontier already.
ObservePoison(e) ==
    /\ Handling(e) /\ stream[e] = Poison
    /\ Refresh(scan)
    /\ IF Refreshed(scan) /\ cached.cp = frontier' THEN Go(e, "dlq", <<>>, None) ELSE Fail
    /\ UNCHANGED <<journalVars, expired, redisVars, sealVars, cached, sealUnc, up, effects>>

At(stage) == up /\ cur # None /\ cur.stage = stage
CurCmd == stream[cur.entry]
Established == Known(scan, CurCmd.req)
Quiet == UNCHANGED <<journalVars, expired, redisVars, sealVars, ownerVars, up, effects>>

\* The request is not on record: its marker is looked up before anything else.
LookupFails ==
    /\ At("decide") /\ ~Established
    /\ FailBlocked(cur.entry)
    /\ Quiet

LookupPresent ==
    /\ At("decide") /\ ~Established
    /\ reqMark[CurCmd.req] # None
    /\ IF reqMark[CurCmd.req].cmd = CurCmd
       THEN Go(cur.entry, "repeat", <<>>, None)
       ELSE Hold(cur.entry)
    /\ Quiet

\* On record, or looked up and absent.
Unmarked == At("decide") /\ (Established \/ reqMark[CurCmd.req] = None)

\* classify_for_recovered
Mismatch ==
    /\ Unmarked /\ ~ContextOk(CurCmd)
    /\ IF Established
       THEN Hold(cur.entry)
       ELSE Go(cur.entry, "reject", <<>>, "Rejected")
    /\ Quiet

RejectPolicy ==
    /\ Unmarked /\ ContextOk(CurCmd) /\ PolicyRejected(CurCmd)
    /\ Go(cur.entry, "reject", <<>>, IF CurCmd.shape = "unsupported" THEN "Rejected" ELSE "Expired")
    /\ Quiet

Admissible ==
    /\ Unmarked /\ ContextOk(CurCmd)
    /\ CurCmd.shape = "ok" /\ ~Expired(CurCmd)

AdmitFresh ==
    /\ Admissible /\ Fresh(CurCmd)
    /\ Go(cur.entry, "admit", <<"RequestAccepted", "DispatchAttemptRecorded">>, None)
    /\ Quiet

AdmitResumed ==
    /\ Admissible /\ Resumable(CurCmd)
    /\ Go(cur.entry, "admit", <<"DispatchAttemptRecorded">>, None)
    /\ Quiet

\* Mutant: an outcome on record is left to an operator.
HoldReplayed == Admissible /\ Replayed(CurCmd) /\ Hold(cur.entry) /\ Quiet

AdmitReplayed ==
    /\ Admissible /\ Replayed(CurCmd)
    /\ Go(cur.entry, "finalize", FinalRecords(CurCmd.req), None)
    /\ Quiet

AdmitHold ==
    /\ Unmarked /\ ContextOk(CurCmd)
    /\ \/ CurCmd.shape = "invalid"
       \/ Admissible /\ ~Fresh(CurCmd) /\ ~Resumable(CurCmd) /\ ~Replayed(CurCmd)
    /\ Hold(cur.entry)
    /\ Quiet

------------------------------------------------------------------------------
(* The durable part: admission, outcome, finalization *)

\* journal.append and refresh_after_append: an error of either ends the run
\* and does not block the entry.
AppendNext(res) ==
    /\ At("admit") \/ At("outcome") \/ At("finalize")
    /\ cur.todo # <<>>
    /\ AppendRecord(RecordOf(CurCmd, Head(cur.todo)), res)
    /\ IF res = "ok" THEN Refresh(scan') ELSE UNCHANGED frontier
    /\ IF res = "ok" /\ Refreshed(scan')
       THEN Go(cur.entry, cur.stage, Tail(cur.todo), None)
       ELSE Fail
    /\ UNCHANGED <<expired, redisVars, sealVars, cached, sealUnc, up, effects>>

\* Mutant: the provider is asked before the dispatch is on record.
AskEarly == At("admit")

AskNow == At("admit") /\ cur.todo = <<>>
Asked == effects' = [effects EXCEPT ![CurCmd.req] = @ + 1]

ProviderAnswers(records) ==
    /\ AskNow
    /\ records \in OutcomeRecords(CurCmd.action)
    /\ Asked
    /\ Go(cur.entry, "outcome", records, None)
    /\ UNCHANGED <<journalVars, expired, redisVars, sealVars, ownerVars, up>>

ProviderUncertain ==
    /\ AskNow
    /\ Asked
    /\ Hold(cur.entry)
    /\ UNCHANGED <<journalVars, expired, redisVars, sealVars, ownerVars, up>>

\* An outcome of the other action: PaperOutcomeActionMismatch.
ProviderMismatch ==
    /\ AskNow
    /\ Asked
    /\ Fail
    /\ UNCHANGED <<journalVars, expired, redisVars, sealVars, ownerVars, up>>

\* finalize_paper_request follows whatever the outcome was.
OutcomeRecorded ==
    /\ At("outcome") /\ cur.todo = <<>>
    /\ Go(cur.entry, "finalize", FinalRecords(CurCmd.req), None)
    /\ Quiet

\* Mutant: the seal is left behind.
AuthorizeUnsealed(res) ==
    /\ At("finalize") /\ cur.todo = <<>>
    /\ Go(cur.entry, "ack", <<>>, "Accepted")
    /\ Quiet

\* authorize_finalized_ack: the seal covers the finalization first.
AuthorizeAck(res) ==
    /\ At("finalize") /\ cur.todo = <<>>
    /\ Refresh(scan)
    /\ AdvanceSeal(res)
    /\ IF res = "ok" THEN Go(cur.entry, "ack", <<>>, "Accepted") ELSE FailBlocked(cur.entry)
    /\ UNCHANGED <<journalVars, expired, redisVars, slots, up, effects>>

------------------------------------------------------------------------------
(* Settlement: one script publishes, marks and acknowledges *)

\* A Redis call succeeds, fails, or takes effect and loses its answer.
RedisResults == {"ok", "fail", "unanswered"}

\* Mutant: a request that got on record after the observation is not noticed.
AuthorizedAlways == TRUE

\* authorize_pre_stage6_rejection, authorize_canonical_marker_duplicate: the
\* request is still not on record.
Authorized == cur.stage \in {"reject", "repeat"} => ~Established

\* The script's own checks on what it finds.
ScriptAccepts ==
    /\ cur.entry \in pel
    /\ cur.stage \in {"ack", "reject"} /\ reqMark[CurCmd.req] # None =>
           reqMark[CurCmd.req] = [cmd |-> CurCmd, status |-> cur.status]

\* Mutant: the script publishes the canonical answer again.
OutputCanonical == IF cur.stage = "dlq" THEN "Dlq" ELSE IF cur.stage = "repeat" THEN "Duplicate" ELSE cur.status

ScriptOutput ==
    IF cur.stage = "dlq" THEN "Dlq"
    ELSE IF reqMark[CurCmd.req] # None THEN "Duplicate" ELSE cur.status

\* An entry that has a marker is committed already.
RunScript ==
    IF cur.entry \in entryMark
    THEN UNCHANGED <<published, entryMark, reqMark, pel>>
    ELSE /\ published' = [published EXCEPT ![cur.entry] = Append(@, ScriptOutput)]
         /\ entryMark' = entryMark \cup {cur.entry}
         /\ reqMark' = IF cur.stage = "dlq" \/ reqMark[CurCmd.req] # None THEN reqMark
                       ELSE [reqMark EXCEPT ![CurCmd.req] = [cmd |-> CurCmd, status |-> cur.status]]
         /\ pel' = pel \ {cur.entry}

Settle(res) ==
    /\ At("ack") \/ At("reject") \/ At("repeat") \/ At("dlq")
    /\ LET runs == Authorized /\ res # "fail" /\ (ScriptAccepts \/ cur.entry \in entryMark) IN
       /\ IF runs THEN RunScript ELSE UNCHANGED <<published, entryMark, reqMark, pel>>
       /\ IF runs /\ res = "ok"
          THEN /\ cur' = None /\ batch' = batch \ {cur.entry}
               /\ blocked' = blocked \ {cur.entry}
               /\ UNCHANGED <<at, pages, cursor>>
          ELSE FailBlocked(cur.entry)
    /\ UNCHANGED <<journalVars, expired, stream, delivered, sealVars, ownerVars, up, effects>>

------------------------------------------------------------------------------
(* Time and the process *)

Expire(c) ==
    /\ c.ttl /\ c \notin expired
    /\ expired' = expired \cup {c}
    /\ UNCHANGED <<journalVars, redisVars, sealVars, ownerVars, up, cur, loopVars, blocked, effects>>

\* Memory is gone; until Restart it stands for what a new process would read.
Crash ==
    /\ up
    /\ up' = FALSE
    /\ cur' = None /\ batch' = {} /\ at' = "check" /\ pages' = 0 /\ cursor' = 0 /\ blocked' = {}
    /\ scan' = disk /\ uncertain' = FALSE
    /\ cached' = seal /\ frontier' = seal.cp /\ sealUnc' = FALSE
    /\ UNCHANGED <<disk, torn, expired, redisVars, sealVars, effects>>

\* The seal names a prefix of the journal.
Prefix(j, k) ==
    \A r \in Requests : Known(j, r) =>
        Known(k, r) /\ k.reqs[r].cmd = j.reqs[r].cmd /\ k.reqs[r].seq >= j.reqs[r].seq

\* Stage7bRecoveryReadyOwner::restart: the recovered checkpoint is the seal's;
\* every other outcome is Blocked.
Restart ==
    /\ ~up
    /\ OpenJournal
    /\ Prefix(seal.cp, disk) /\ CrossBound(disk)
    /\ cached' = seal /\ frontier' = seal.cp /\ sealUnc' = FALSE
    /\ up' = TRUE
    /\ UNCHANGED <<expired, redisVars, sealVars, cur, loopVars, blocked, effects>>

Decide ==
    \/ LookupPresent \/ Mismatch \/ RejectPolicy
    \/ AdmitFresh \/ AdmitResumed \/ AdmitReplayed \/ AdmitHold

Next ==
    \/ NotReady
    \/ \E idle \in SUBSET pel : ClaimPage(idle)
    \/ EndClaimPage
    \/ \E n \in 0..ReadCount, reply \in BOOLEAN : Poll(n, reply)
    \/ EndPoll
    \/ \E e \in batch : ObservePoison(e) \/ \E res \in SealResults : ObserveCommand(e, res)
    \/ LookupFails
    \/ Decide
    \/ \E res \in AppendResults : AppendNext(res)
    \/ \E records \in OutcomeRecords("Place") \cup OutcomeRecords("Cancel") :
           ProviderAnswers(records)
    \/ ProviderUncertain
    \/ ProviderMismatch
    \/ OutcomeRecorded
    \/ \E res \in SealResults : AuthorizeAck(res)
    \/ \E res \in RedisResults : Settle(res)
    \/ \E c \in Commands : Expire(c)
    \/ Crash
    \/ Restart

Spec == Init /\ [][Next]_vars

\* A process whose journal or seal may differ from its memory can only end.
LockedOut == sealUnc \/ uncertain
EndRun == Ready("check") /\ LockedOut /\ Crash

(***************************************************************************)
(* A step in which nothing fails: pending entries are found idle, calls    *)
(* and commits succeed, and a process dies only when it is locked out.     *)
(***************************************************************************)
CalmNext ==
    \/ NotReady \/ ClaimPage(pel) \/ EndClaimPage \/ EndPoll
    \/ \E n \in 0..ReadCount : Poll(n, TRUE)
    \/ \E e \in batch : ObservePoison(e) \/ ObserveCommand(e, "ok")
    \/ Decide
    \/ AppendNext("ok") \/ (uncertain /\ AppendNext("refused"))
    \/ \E records \in OutcomeRecords("Place") \cup OutcomeRecords("Cancel") :
           ProviderAnswers(records)
    \/ ProviderUncertain \/ ProviderMismatch \/ OutcomeRecorded
    \/ AuthorizeAck("ok") \/ Settle("ok")
    \/ \E c \in Commands : Expire(c)
    \/ EndRun \/ Restart

\* The service runs, a run that can do nothing more is ended (run_bounded is
\* bounded), and an ended process is started again.
FairSpec == Spec /\ WF_vars(CalmNext) /\ SF_vars(EndRun)

------------------------------------------------------------------------------
(* Properties *)

\* The service keeps the promise of CommandSettlement.
Promise == INSTANCE CommandSettlement WITH output <- published, verdict <- reqMark
KeepsPromise == Promise!Spec

\* An Accepted answer is published only for a finalization the seal on disk
\* covers (authorize_finalized_ack before settle_ack): a restart from that
\* seal can never lose what a producer was told.
AcceptedIsSealed ==
    \A r \in Requests : reqMark[r] # None /\ reqMark[r].status = "Accepted" =>
        Known(seal.cp, r) /\ seal.cp.reqs[r].final

\* The seal never names records the journal file does not hold, also when an
\* append or a seal commit reported failure: restart would be Blocked.
SealIsPrefix == Prefix(seal.cp, disk)

\* A request that got a rejection has no dispatch on record and never gets one
\* afterwards: the marker vetoes the admission.
RejectedIsVetoed ==
    \A r \in Requests : reqMark[r] # None /\ reqMark[r].status # "Accepted" =>
        ~Known(disk, r) \/ disk.reqs[r].attempts = 0

\* The provider is asked only with the dispatch attempt on disk, and an effect
\* whose request is still open is one a restart finds among the slots: an
\* effect never leaves a root that is Blocked for an unbound request.
EffectIsBound ==
    \A r \in Requests : effects[r] > 0 =>
        /\ Known(disk, r) /\ disk.reqs[r].attempts = 1
        /\ Open(disk, r) => r \in slots

\* The outcome of the entry's command is on disk and its answer is owed.
Owed(e) ==
    /\ e \in pel /\ stream[e] # Poison
    /\ Known(disk, stream[e].req)
    /\ disk.reqs[stream[e].req].cmd = stream[e]
    /\ disk.reqs[stream[e].req].safety = "DispatchForbidden"

\* A restart must not become Ready: the journal is torn, or an open request is
\* no slot (fault row X20).
RecoveryBlocked == torn \/ ~CrossBound(disk)

\* What the documents ask of a restart: once nothing fails any more, an outcome
\* on disk is answered, from whatever state the crashes before left journal,
\* seal and markers in, unless recovery has to be blocked ("The outcome is
\* authoritative", TZ section 12.4; fault rows X07, X08, X12).
OwedIsPaid ==
    <>[][CalmNext]_vars =>
        \A e \in 1..3 : Owed(e) ~> (e \notin pel \/ RecoveryBlocked)

\* What the code does of it, with pages of several entries: an owed entry is answered
\* when nothing is pending in front of it and its TTL has not passed, in
\* whichever of admission, outcome, finalization, seal commit and settlement
\* the last process died.
FrontIsPaid ==
    <>[][CalmNext]_vars =>
        \A e \in 1..3 : Owed(e) ~> (\/ e \notin pel \/ RecoveryBlocked
                                   \/ stream[e] \in expired
                                   \/ \E x \in pel : x < e)

\* Whatever the service has appended, and wherever it died, a journal that is
\* not torn can be restarted from (fault row X04: a process killed right after
\* RequestAccepted comes back and appends the missing dispatch).
RootRestarts == ~torn => disk.ok /\ CrossBound(disk)
==============================================================================
