---------------------------- MODULE CommandBridge ----------------------------
(***************************************************************************)
(* The Stage 7A command consumer (runtime-command-bridge/src/lib.rs) with  *)
(* the admission, outcome and finalization of a paper command              *)
(* (strategy-runtime-core/src/stage6d_live_core.rs) over the Stage 6       *)
(* journal: it reads commands from a Redis consumer group, admits each to  *)
(* the journal, asks the paper provider for its outcome, records it,       *)
(* publishes an acknowledgement and only then acknowledges the entry.      *)
(*                                                                         *)
(* One task owns the consumer, so one entry is handled at a time (cur);    *)
(* every journal append and every Redis call is a step of its own, because *)
(* each can fail, or take effect and still report failure, and the process *)
(* can die between any two.                                                *)
(*                                                                         *)
(* Data: a command is its request, action, cancel target, payload variant  *)
(* and shape; an acknowledgement is a request and a status; the host clock *)
(* is the set of commands whose TTL has passed; idle times of pending      *)
(* entries are a choice.  The injected test fault points are not modelled: *)
(* the steps they sit between are.                                         *)
(***************************************************************************)
EXTENDS PaperAdmission, ConsumerGroup

CONSTANTS Poison,         \* an entry that does not decode to a command
          Streams,        \* the entry sequences producers may have written
          ReadCount,      \* XREADGROUP COUNT
          ClaimCount,     \* XAUTOCLAIM COUNT
          MaxClaimPages,  \* max_claim_pages
          AlwaysIdle,     \* claim_idle_ms passes between two scans
          Mortal          \* the streams during which the process may die

Verdicts == {"Accepted", "Rejected", "Expired"}
Statuses == Verdicts \cup {"Duplicate"}
Stages == {"admit", "outcome", "finalize", "ack", "dlq", "xack"}
BlockedKinds == {"Authority", "AckSettlement", "DlqSettlement"}
RecordKinds == {"RequestAccepted"} \cup EventsFor("Place") \cup EventsFor("Cancel")

\* The canonical acknowledgement of a request, and the entry being handled:
\* how far it is, the records still to append, the status to publish.
AckPublication == [cmd : Commands, status : Verdicts, published : BOOLEAN]
InHand == [entry : Nat, stage : Stages, todo : Seq(RecordKinds), status : Statuses \cup {None}]

ASSUME BridgeAssumption ==
    /\ None \notin BlockedKinds \cup AckPublication \cup InHand
    /\ Poison \notin Commands
    /\ Streams \subseteq Seq(Commands \cup {Poison})
    /\ {ReadCount, ClaimCount, MaxClaimPages} \subseteq Nat \ {0}
    /\ AlwaysIdle \in BOOLEAN

VARIABLES stream, delivered, pel,  \* the command stream and its consumer group
          ackStream, dlq,          \* what was published
          up,                      \* the process is running
          cur,                     \* the entry being handled and how far
          batch, at, pages, cursor, \* the run loop: entries still to settle, position, claim cursor
          ackPub, recov,           \* ack_publications, canonical_ack_recoveries
          blocked, sourceOk, claimOk, \* the supervisor
          effects                  \* paper_outcome calls per request

redisVars == <<stream, delivered, pel, ackStream, dlq>>
loopVars  == <<batch, at, pages, cursor>>
memVars   == <<ackPub, recov>>
superVars == <<blocked, sourceOk, claimOk>>
vars == <<journalVars, redisVars, expired, up, cur, loopVars, memVars, superVars, effects>>

Entries == 1..Len(stream)
Positions == {"reclaim", "reclaiming", "poll", "polling"}

TypeOK ==
    /\ disk \in Journal /\ scan \in Journal /\ torn \in BOOLEAN /\ uncertain \in BOOLEAN
    /\ stream \in Streams /\ delivered \in 0..Len(stream)
    /\ pel \subseteq Entries /\ dlq \subseteq Entries
    /\ ackStream \subseteq Requests \X Statuses
    /\ expired \subseteq Commands
    /\ up \in BOOLEAN /\ sourceOk \in BOOLEAN /\ claimOk \in BOOLEAN
    /\ cur \in InHand \cup {None} /\ (cur # None => cur.entry \in Entries)
    /\ batch \subseteq Entries /\ at \in Positions
    /\ pages \in 0..MaxClaimPages - 1 /\ cursor \in 0..Len(stream)
    /\ ackPub \in [Requests -> AckPublication \cup {None}]
    /\ recov \in [Requests -> Commands \cup {None}]
    /\ blocked \in [Entries -> BlockedKinds \cup {None}]
    /\ effects \in [Requests -> Nat]

\* What a new process starts from, apart from the journal.
MemoryInit ==
    /\ cur = None /\ batch = {} /\ at = "reclaim" /\ pages = 0 /\ cursor = 0
    /\ ackPub = [r \in Requests |-> None] /\ recov = [r \in Requests |-> None]
    /\ blocked = [e \in Entries |-> None] /\ sourceOk = FALSE /\ claimOk = FALSE

Forget ==
    /\ cur' = None /\ batch' = {} /\ at' = "reclaim" /\ pages' = 0 /\ cursor' = 0
    /\ ackPub' = [r \in Requests |-> None] /\ recov' = [r \in Requests |-> None]
    /\ blocked' = [e \in Entries |-> None] /\ sourceOk' = FALSE /\ claimOk' = FALSE

Init ==
    /\ JournalInit
    /\ stream \in Streams
    /\ delivered = 0 /\ pel = {} /\ ackStream = {} /\ dlq = {}
    /\ expired = {}
    /\ up = TRUE
    /\ effects = [r \in Requests |-> 0]
    /\ MemoryInit

------------------------------------------------------------------------------
(* The run loop: reclaim, then poll; an error starts the next iteration *)

Ready(pos) == up /\ cur = None /\ batch = {} /\ at = pos

IdleSets == IF AlwaysIdle THEN {pel} ELSE SUBSET pel

\* XAUTOCLAIM from the retained cursor, over the entries idle long enough.
\* The cursor moves before the page is settled.
ClaimPage(idle) ==
    /\ Ready("reclaim")
    /\ batch' = ClaimedPage(idle, cursor, ClaimCount)
    /\ cursor' = CursorAfter(pel, batch', ClaimCount)
    /\ at' = "reclaiming"
    /\ UNCHANGED <<journalVars, redisVars, expired, up, cur, pages, memVars, superVars, effects>>

ClaimFails ==
    /\ Ready("reclaim")
    /\ claimOk' = FALSE
    /\ pages' = 0
    /\ UNCHANGED <<journalVars, redisVars, expired, up, cur, batch, at, cursor, memVars,
                   blocked, sourceOk, effects>>

\* Mutant: one page more than max_claim_pages.
LastPageLate == cursor = 0 \/ pages = MaxClaimPages

\* No further page is claimed in this iteration.
LastPage == cursor = 0 \/ pages + 1 = MaxClaimPages

\* The page is settled: another page, or the scan succeeded and polling is next.
EndClaimPage ==
    /\ Ready("reclaiming")
    /\ IF LastPage
       THEN at' = "poll" /\ pages' = 0 /\ claimOk' = TRUE
       ELSE at' = "reclaim" /\ pages' = pages + 1 /\ UNCHANGED claimOk
    /\ UNCHANGED <<journalVars, redisVars, expired, up, cur, batch, cursor, memVars,
                   blocked, sourceOk, effects>>

\* XREADGROUP of the next n entries.  With reply = FALSE the group has handed
\* them out but the answer never arrived.
Poll(n, reply) ==
    /\ Ready("poll")
    /\ n \in 0..ReadCount /\ delivered + n <= Len(stream)
    /\ delivered' = delivered + n
    /\ pel' = pel \cup (delivered + 1)..(delivered + n)
    /\ IF reply
       THEN batch' = (delivered + 1)..(delivered + n) /\ at' = "polling" /\ UNCHANGED sourceOk
       ELSE batch' = {} /\ at' = "reclaim" /\ sourceOk' = FALSE
    /\ UNCHANGED <<journalVars, stream, ackStream, dlq, expired, up, cur, pages, cursor, memVars,
                   blocked, claimOk, effects>>

EndPoll ==
    /\ Ready("polling")
    /\ sourceOk' = TRUE
    /\ at' = "reclaim"
    /\ UNCHANGED <<journalVars, redisVars, expired, up, cur, batch, pages, cursor, memVars,
                   blocked, claimOk, effects>>

\* Mutant: an error is not put on the blocked list.
AbortSilently(e, kind) ==
    /\ cur' = None
    /\ batch' = {} /\ at' = "reclaim" /\ pages' = 0
    /\ UNCHANGED <<cursor, superVars>>

\* settle_entry returned an error: the rest of the batch is dropped.
Abort(e, kind) ==
    /\ blocked' = [blocked EXCEPT ![e] = kind]
    /\ cur' = None
    /\ batch' = {} /\ at' = "reclaim" /\ pages' = 0
    /\ UNCHANGED <<cursor, sourceOk, claimOk>>

\* Stage7aHandleOutcome::Pending: blocked, and on to the next entry.
Pending(e) ==
    /\ blocked' = [blocked EXCEPT ![e] = "Authority"]
    /\ cur' = None
    /\ batch' = batch \ {e}
    /\ UNCHANGED <<at, pages, cursor, sourceOk, claimOk>>

\* Stay in the loop with this entry.
Go(e, stage, todo, status) ==
    /\ cur' = [entry |-> e, stage |-> stage, todo |-> todo, status |-> status]
    /\ UNCHANGED <<loopVars, superVars>>

------------------------------------------------------------------------------
(* handle_payload up to the first journal append *)

\* e is the next entry of the batch and decodes to a command.
Handling(e) == up /\ cur = None /\ batch # {} /\ e = Min(batch)
Command(e) == Handling(e) /\ stream[e] # Poison

HandlePoison(e) ==
    /\ Handling(e) /\ stream[e] = Poison
    /\ Go(e, "dlq", <<>>, None)
    /\ UNCHANGED <<journalVars, redisVars, expired, up, memVars, effects>>

\* The request has a canonical acknowledgement already.
HandleAnswered(e) ==
    /\ Command(e)
    /\ LET r == stream[e].req IN
       /\ ackPub[r] # None
       /\ IF ackPub[r].cmd = stream[e]
          THEN Go(e, "ack", <<>>, IF ackPub[r].published THEN "Duplicate" ELSE ackPub[r].status)
          ELSE Pending(e)
    /\ UNCHANGED <<journalVars, redisVars, expired, up, memVars, effects>>

Established(r) == recov[r] # None \/ Known(scan, r)

\* Mutant: the canonical acknowledgement is not kept.
RememberNothing(c, status) == UNCHANGED ackPub

\* remember_canonical_ack
Remember(c, status) ==
    ackPub' = [ackPub EXCEPT ![c.req] = [cmd |-> c, status |-> status, published |-> FALSE]]

HandleMismatch(e) ==
    /\ Command(e)
    /\ LET c == stream[e] IN
       /\ ackPub[c.req] = None
       /\ ~ContextOk(c)
       /\ IF Established(c.req)
          THEN Pending(e) /\ UNCHANGED ackPub
          ELSE Go(e, "ack", <<>>, "Rejected") /\ Remember(c, "Rejected")
    /\ UNCHANGED <<journalVars, redisVars, expired, up, recov, effects>>

\* The command reaches admit_stage7a_paper_command.
Admitting(e) == Command(e) /\ ackPub[stream[e].req] = None /\ ContextOk(stream[e])

\* Admission goes on to the journal.
Admissible(e) == Admitting(e) /\ stream[e].shape = "ok" /\ ~Expired(stream[e])

RejectPolicy(e) ==
    /\ Admitting(e)
    /\ PolicyRejected(stream[e])
    /\ LET status == IF stream[e].shape = "unsupported" THEN "Rejected" ELSE "Expired"
       IN  Go(e, "ack", <<>>, status) /\ Remember(stream[e], status)
    /\ UNCHANGED <<journalVars, redisVars, expired, up, recov, effects>>

AdmitFresh(e) ==
    /\ Admissible(e) /\ Fresh(stream[e])
    /\ Go(e, "admit", <<"RequestAccepted", "DispatchAttemptRecorded">>, None)
    /\ UNCHANGED <<journalVars, redisVars, expired, up, memVars, effects>>

AdmitResumed(e) ==
    /\ Admissible(e) /\ Resumable(stream[e])
    /\ Go(e, "admit", <<"DispatchAttemptRecorded">>, None)
    /\ UNCHANGED <<journalVars, redisVars, expired, up, memVars, effects>>

\* Stage7aPaperAdmission::Duplicate: only this process's memory can finish it.
AdmitDuplicate(e) ==
    /\ Admissible(e) /\ Replayed(stream[e])
    /\ LET r == stream[e].req IN
       IF recov[r] = stream[e]
       THEN Go(e, "finalize", FinalRecords(r), None)
       ELSE Pending(e)
    /\ UNCHANGED <<journalVars, redisVars, expired, up, memVars, effects>>

\* Every other case of the admission is a hold.
AdmitHold(e) ==
    /\ Admitting(e)
    /\ \/ stream[e].shape = "invalid"
       \/ Admissible(e) /\ ~Fresh(stream[e]) /\ ~Resumable(stream[e]) /\ ~Replayed(stream[e])
    /\ Pending(e)
    /\ UNCHANGED <<journalVars, redisVars, expired, up, memVars, effects>>

------------------------------------------------------------------------------
(* The durable part: admission, outcome, finalization *)

At(stage) == up /\ cur # None /\ cur.stage = stage
CurCmd == stream[cur.entry]

NextRecord == RecordOf(CurCmd, Head(cur.todo))

\* journal.append and refresh_after_append: go on only if both succeed.
AppendNext(res) ==
    /\ At("admit") \/ At("outcome") \/ At("finalize")
    /\ cur.todo # <<>>
    /\ AppendRecord(NextRecord, res)
    /\ IF res = "ok" /\ scan'.ok
       THEN Go(cur.entry, cur.stage, Tail(cur.todo), None)
       ELSE Abort(cur.entry, "Authority")
    /\ UNCHANGED <<redisVars, expired, up, memVars, effects>>

\* The paper provider is asked, whatever it answers.
Asked == effects' = [effects EXCEPT ![CurCmd.req] = @ + 1]

\* Mutant: the provider is asked before the dispatch is on record.
AskEarly == At("admit")

AskNow == At("admit") /\ cur.todo = <<>>

ProviderAnswers(records) ==
    /\ AskNow
    /\ records \in OutcomeRecords(CurCmd.action)
    /\ Asked
    /\ Go(cur.entry, "outcome", records, None)
    /\ UNCHANGED <<journalVars, redisVars, expired, up, memVars>>

ProviderUncertain ==
    /\ AskNow
    /\ Asked
    /\ Pending(cur.entry)
    /\ UNCHANGED <<journalVars, redisVars, expired, up, memVars>>

\* An outcome of the other action: PaperOutcomeActionMismatch.
ProviderMismatch ==
    /\ AskNow
    /\ Asked
    /\ Abort(cur.entry, "Authority")
    /\ UNCHANGED <<journalVars, redisVars, expired, up, memVars>>

\* Mutant: the acknowledgement is promoted without a finalization record.
OutcomeUnfinalized ==
    /\ At("outcome") /\ cur.todo = <<>>
    /\ recov' = [recov EXCEPT ![CurCmd.req] = CurCmd]
    /\ Go(cur.entry, "finalize", <<>>, None)
    /\ UNCHANGED <<journalVars, redisVars, expired, up, ackPub, effects>>

\* The outcome is recorded: finalize unless it left the dispatch unresolved.
OutcomeRecorded ==
    /\ At("outcome") /\ cur.todo = <<>>
    /\ IF scan.reqs[CurCmd.req].safety = "DispatchForbidden"
       THEN /\ recov' = [recov EXCEPT ![CurCmd.req] = CurCmd]
            /\ Go(cur.entry, "finalize", FinalRecords(CurCmd.req), None)
       ELSE Pending(cur.entry) /\ UNCHANGED recov
    /\ UNCHANGED <<journalVars, redisVars, expired, up, ackPub, effects>>

\* promote_recoverable_canonical_ack
Finalized ==
    /\ At("finalize") /\ cur.todo = <<>>
    /\ Remember(recov[CurCmd.req], "Accepted")
    /\ recov' = [recov EXCEPT ![CurCmd.req] = None]
    /\ Go(cur.entry, "ack", <<>>, "Accepted")
    /\ UNCHANGED <<journalVars, redisVars, expired, up, effects>>

------------------------------------------------------------------------------
(* Settlement: publish, then XACK *)

\* A Redis call succeeds, fails, or takes effect and loses its answer.
RedisResults == {"ok", "fail", "unanswered"}

\* Mutant: published is remembered whether or not XADD succeeded.
MarkAlways(res) ==
    [ackPub EXCEPT ![CurCmd.req] = IF @ = None THEN None ELSE [@ EXCEPT !.published = TRUE]]

\* mark_ack_published
MarkPublished(res) ==
    IF res = "ok" /\ ackPub[CurCmd.req] # None
    THEN [ackPub EXCEPT ![CurCmd.req] = [@ EXCEPT !.published = TRUE]]
    ELSE ackPub

\* Mutant: XACK follows whether or not the acknowledgement was published.
PublishUnchecked(res) ==
    /\ At("ack")
    /\ ackStream' = IF res = "fail" THEN ackStream ELSE ackStream \cup {<<CurCmd.req, cur.status>>}
    /\ ackPub' = MarkPublished(res)
    /\ Go(cur.entry, "xack", <<>>, cur.status)
    /\ UNCHANGED <<journalVars, stream, delivered, pel, dlq, expired, up, recov, effects>>

PublishAck(res) ==
    /\ At("ack")
    /\ ackStream' = IF res = "fail" THEN ackStream ELSE ackStream \cup {<<CurCmd.req, cur.status>>}
    /\ ackPub' = MarkPublished(res)
    /\ IF res = "ok"
       THEN Go(cur.entry, "xack", <<>>, cur.status)
       ELSE Abort(cur.entry, "AckSettlement")
    /\ UNCHANGED <<journalVars, stream, delivered, pel, dlq, expired, up, recov, effects>>

PublishDlq(res) ==
    /\ At("dlq")
    /\ dlq' = IF res = "fail" THEN dlq ELSE dlq \cup {cur.entry}
    /\ IF res = "ok"
       THEN Go(cur.entry, "xack", <<>>, None)
       ELSE Abort(cur.entry, "DlqSettlement")
    /\ UNCHANGED <<journalVars, stream, delivered, pel, ackStream, expired, up, memVars, effects>>

Xack(res) ==
    /\ At("xack")
    /\ pel' = IF res = "fail" THEN pel ELSE pel \ {cur.entry}
    /\ IF res = "ok"
       THEN /\ blocked' = [blocked EXCEPT ![cur.entry] = None]
            /\ cur' = None
            /\ batch' = batch \ {cur.entry}
            /\ UNCHANGED <<at, pages, cursor, sourceOk, claimOk>>
       ELSE Abort(cur.entry, IF cur.status = None THEN "DlqSettlement" ELSE "AckSettlement")
    /\ UNCHANGED <<journalVars, stream, delivered, ackStream, dlq, expired, up, memVars, effects>>

------------------------------------------------------------------------------
(* Time and the process *)

\* The TTL of a command of the stream passes.
Expire(c) ==
    /\ c.ttl /\ c \notin expired /\ \E e \in Entries : stream[e] = c
    /\ expired' = expired \cup {c}
    /\ UNCHANGED <<journalVars, redisVars, up, cur, loopVars, memVars, superVars, effects>>

Crash ==
    /\ stream \in Mortal /\ up
    /\ up' = FALSE
    /\ Forget
    /\ UNCHANGED <<journalVars, redisVars, expired, effects>>

\* A new consumer over the reopened journal.
Restart ==
    /\ ~up
    /\ OpenJournal
    /\ up' = TRUE
    /\ UNCHANGED <<redisVars, expired, cur, loopVars, memVars, superVars, effects>>

Handle(e) ==
    \/ HandlePoison(e) \/ HandleAnswered(e) \/ HandleMismatch(e)
    \/ RejectPolicy(e) \/ AdmitFresh(e) \/ AdmitResumed(e) \/ AdmitDuplicate(e) \/ AdmitHold(e)

Next ==
    \/ \E idle \in IdleSets : ClaimPage(idle)
    \/ ClaimFails
    \/ EndClaimPage
    \/ \E n \in 0..ReadCount, reply \in BOOLEAN : Poll(n, reply)
    \/ EndPoll
    \/ \E e \in batch : Handle(e)
    \/ \E res \in AppendResults : AppendNext(res)
    \/ \E records \in OutcomeRecords("Place") \cup OutcomeRecords("Cancel") :
           ProviderAnswers(records)
    \/ ProviderUncertain
    \/ ProviderMismatch
    \/ OutcomeRecorded
    \/ Finalized
    \/ \E res \in RedisResults : PublishAck(res) \/ PublishDlq(res) \/ Xack(res)
    \/ \E c \in Commands : Expire(c)
    \/ Crash
    \/ Restart

Spec == Init /\ [][Next]_vars

\* What the consumer task does on its own.
ConsumerStep ==
    \/ EndClaimPage
    \/ \E n \in 0..ReadCount, reply \in BOOLEAN : Poll(n, reply)
    \/ EndPoll
    \/ \E e \in batch : Handle(e)
    \/ \E res \in AppendResults : AppendNext(res)
    \/ ProviderUncertain
    \/ OutcomeRecorded
    \/ Finalized
    \/ \E res \in RedisResults : PublishAck(res) \/ PublishDlq(res) \/ Xack(res)

(***************************************************************************)
(* run_bounded keeps iterating, so the task takes its steps; and Redis,    *)
(* however often it fails, does not fail every XAUTOCLAIM, dead-letter     *)
(* XADD and XACK from some point on.  Nothing is assumed of the journal or *)
(* of the provider.                                                        *)
(***************************************************************************)
Fairness ==
    /\ WF_vars(ConsumerStep)
    /\ SF_vars(ClaimPage(pel))
    /\ SF_vars(PublishDlq("ok"))
    /\ SF_vars(Xack("ok"))

FairSpec == Spec /\ Fairness

------------------------------------------------------------------------------
(* Properties *)

\* However often an entry is redelivered, and across failed appends, crashes
\* and restarts, the paper provider is asked at most once for a request:
\* what admit_stage7a_paper_command's hold on an unresolved dispatch is for.
AtMostOneEffect == \A r \in Requests : effects[r] <= 1

\* The provider is only asked for a request whose acceptance and dispatch
\* attempt are on disk, not just in the process's scan
\* (prepare_stage6d_paper_dispatch).
EffectIsJournaled ==
    \A r \in Requests : effects[r] > 0 => Known(disk, r) /\ disk.reqs[r].attempts = 1

\* append does not look at what a record means, so nothing but the order of
\* the consumer's steps keeps the file replayable; a journal that is not can
\* never be opened again.
JournalReplayable == disk.ok

\* The max-one contract on disk: also when an append that reported failure
\* reached the file, no second request is accepted before the first is final.
OneOpenLifecycle ==
    \A r, s \in Requests : Open(disk, r) /\ Open(disk, s) => r = s

\* An Accepted acknowledgement is published only for a request whose
\* finalization is durable and for which the provider was asked.
AcceptedIsFinal ==
    \A r \in Requests : <<r, "Accepted">> \in ackStream =>
        Known(disk, r) /\ disk.reqs[r].final /\ effects[r] = 1

\* A Duplicate acknowledgement never reaches the stream before the canonical
\* one it is a duplicate of (mark_ack_published follows XADD).
DuplicateFollowsVerdict ==
    \A r \in Requests : <<r, "Duplicate">> \in ackStream =>
        \E v \in Verdicts : <<r, v>> \in ackStream

\* A process that does not die gives a request one verdict, also when two
\* commands with different payloads carry its id and the TTL passes in between
\* (remember_canonical_ack; the memory of verdicts is lost with the process).
OneVerdict ==
    stream \notin Mortal =>
        \A r \in Requests : \A v, w \in Verdicts :
            <<r, v>> \in ackStream /\ <<r, w>> \in ackStream => v = w

\* An entry leaves the pending list only after an answer to its request is in
\* the ack stream, or its digest in the dead-letter stream (settle_entry).
SettledIsAnswered ==
    \A e \in 1..delivered : e \notin pel =>
        IF stream[e] = Poison THEN e \in dlq
        ELSE \E v \in Statuses : <<stream[e].req, v>> \in ackStream

\* Stage7aConsumerSupervisor::snapshots, apart from freshness.
PaperReady == up /\ sourceOk /\ claimOk /\ \A e \in Entries : blocked[e] = None

\* The consumer does not report itself ready while an answer it owes is
\* unpublished (publish_observability runs between two entries).
ReadyOwesNothing ==
    PaperReady /\ cur = None =>
        \A r \in Requests : ackPub[r] # None => ackPub[r].published

\* "All eligible entries eventually examined" (A-015): a pending entry that
\* does not decode is dead-lettered and settled in the end, also when the
\* command in front of it errors on every delivery.  The retained claim cursor
\* is the code's answer to such a command.
PoisonSettles ==
    \A e \in 1..3 : (e \in pel /\ stream[e] = Poison) ~> e \notin pel

\* "Do NOT XACK when [...] dispatch safety requires reconciliation": an entry
\* that left the pending list has no dispatch of unknown outcome behind it.
SettledIsResolved ==
    \A e \in 1..delivered : e \notin pel /\ stream[e] # Poison =>
        ~(Open(disk, stream[e].req)
          /\ disk.reqs[stream[e].req].safety = "ReconciliationRequired")
==============================================================================
