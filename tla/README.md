# Verification of the order path and the command services of moex-trading-gateway-rs

TLA+ models of the places where this gateway decides that something happens in
the market exactly once, and of what it still knows after a failure:

- the **order path**: the durable store of order records, the place and cancel
  flows over the real transport, and the broker-truth reconciliation that
  repairs what the flows left open;
- the **command bridge**: the Redis consumer that turns commands into entries
  of the append-only Stage 6 journal, asks the paper provider for their outcome
  and acknowledges them;
- the **durable service**: the Stage 7B successor of the bridge, which needs
  nothing in memory to restart: a seal file vouches for the journal and one
  Redis script publishes, marks and acknowledges;
- the **first-boot transaction** that creates the root the durable service
  runs on, and its recovery commands.

TLC checks the models on small instances; TLAPS proves every safety property
the passing runs check, and the refinement, for every size.

## The system and its parts

The repository is a Rust workspace. The parts that carry its own logic, the
state they keep, and what makes them correct:

| part | state | operations | what must hold |
|---|---|---|---|
| `broker-core/order_path.rs`: records | one `OrderPathRecord` per strategy request: state, ids, attempt counters, last error, update time | `from_place_order`, `transition`, `recover_after_restart` | only the table's transitions; attempts are counted |
| `broker-core/order_path.rs`: stores | maps by request, client id and broker id; a JSON file or a Sqlite database with an audit table and a writer-lock file | `open`, `insert_intent`, `update_record`, lookups, `Drop` | indexes and records agree; ids unique; nothing durable is taken back; one writer |
| `broker-core/order_path.rs`: preflight | operator arm, rate window | `approve_place_order`, `approve_cancel_order`, `try_consume` | no cancel for an order whose outcome is open |
| `finam-gateway/m3d2_*`: real transport flows | the record clone held across the await | persist `BeginSubmit`, send, apply the classified answer; the same for cancel | no request leaves twice; what left is durable |
| `finam-gateway/lib.rs`: M3f reconciliation | none of its own: reads snapshots, writes records | schedule, decide, persist, report readiness blockers | a record is closed only when the order is |
| `finam-gateway/lib.rs`: cancel follow-up | none of its own | recover a timed-out cancel from broker truth | only for a cancel that was requested |
| `runtime-command-bridge` | a Redis stream with its pending list, ack and dead-letter streams, acknowledgement memory, supervisor flags | poll, reclaim, settle, report readiness | one verdict per request; acknowledged to Redis only after the answer is published |
| `strategy-runtime-core/stage6_*` | append-only journal, its scan, the replayed state of each request | append, reopen, replay; admit, dispatch, record outcome, finalize | no blind second dispatch; the file always replays |
| `runtime-durable-service/recovery*`: durable service | recovery seal, journal, settlement markers in Redis, blocked entries | poll, reclaim, observe, admit, seal, settle; restart | one output per entry, one verdict and one effect per request; what was answered survives any restart |
| `runtime-durable-service/stage8b_p1e_first_boot_transaction.rs` | transaction marker, receipt, root, quarantine | bootstrap, classify, recover, admit an ordinary run | an interrupted boot has one class and one command; an adopted root is never touched again |
| `runtime-durable-service`: supervisor, process, guardian | process and credential state | supervise | |
| `strategy-runtime-core` strategies, paper host, risk gate | positions, bars, decisions | per bar | decisions and their persistence agree |
| `broker-core` market data (bars, finalizer, lifecycle, recovery) | bar builders, gap state | per message | each bar final once, in order |
| `broker-finam`, `broker-cli`, tools, scripts | mapping, HTTP, command line | | pure I/O |

`PROJECT.json` lists every part, with the reason where it is not modelled.

**Order path.** A caller records an intent in the store, obtains an approval
from the preflight policy, and awaits the flow. The flow holds `&mut store`
across the await, so one process runs one flow or one reconciliation pass at a
time, while the network, the broker, the clock and crashes move on. Hard here: a
write that fails before or after it became durable, a crash between the durable
write and the send or between the answer and its write, an answer lost while the
broker acts, snapshots that are out of date when they are applied, approvals
that are stale when they are used.

**Command bridge.** One task owns the Redis connection, the journal and the
acknowledgement memory. In each iteration it reclaims idle pending entries page
by page, then reads new ones, and settles entry by entry: decode, look up a
known verdict, admit to the journal, ask the provider, record the outcome,
finalize, publish, XACK. Hard here: each append and each Redis call can fail, or
take effect and report failure; the process can die between any two; the same
entry comes again at any later time, possibly after its TTL; two commands can
carry one request id; and what memory knew is gone after a restart while Redis
and the journal are not.

**Durable service.** The same loop and the same admission, but the durable facts
are spread over three places that are committed one after the other: the
journal, the seal file (generation and journal checkpoint), and Redis, where the
settlement script writes output, markers and XACK at once. Hard here: a crash
between any two commits, a commit that takes effect and reports failure, and a
restart that must tell from the files alone what is owed.

**First boot.** One supervisor command at a time creates the root in five phases,
each an effect followed by the replacement of the marker file through a
temporary file. After an interruption the files are classified and an operator
runs the command that the class requires. Hard here: every window between an
effect and its marker, recoveries that are interrupted themselves, another
source bundle installed in the meantime, and quarantined earlier attempts.

## Modules

| module | models | state |
|---|---|---|
| `OrderPath` | `OrderPathRecord`, `next_order_path_state`, `transition` | none: operators |
| `OrderPathStore` | the in-memory, JSON and Sqlite stores | `mem`, the two indexes, `disk`, `audit`, `up`, `lock` |
| `StoreContract`, `MCStoreContract` | any caller of the store: any record of a bounded set, in any order | the store's |
| `WriterLock` | `create_sqlite_writer_lock`, `open`'s failure paths and `Drop`, between processes | lock file, program counters |
| `M3fReconciliation` | scheduling, matching, decision table, persistence of a decision | none: operators |
| `OrderLifecycle`, `MCOrderLifecycle` | composition: store, flows, reconciliation, follow-up, broker, network, clock | the store's, the flow in the air, approvals, the running pass, broker and network |
| `Stage6Replay` | `WorkingRequest`: which record may follow, and the dispatch safety it leads to | none: operators |
| `Stage6Journal` | the journal backend as its owner sees it | `disk`, `torn`, `scan`, `uncertain` |
| `PaperAdmission` | `admit_stage7a_paper_command` over a scan of the journal, and the records of an outcome; used by both services | the journal's, `expired` |
| `ConsumerGroup` | what both consumers rely on of XAUTOCLAIM | none: operators |
| `CommandBridge`, `MCCommandBridge` | composition: Redis consumer, command authority, paper admission, provider, supervisor over the journal | Redis, loop position, entry in hand, memory, supervisor flags |
| `CommandSettlement` | abstract: what a durable command service promises its producers | outputs, verdicts, effects |
| `DurableService`, `MCDurableService` | composition: run loop, admission, seal, settlement script, crash and restart over the journal | Redis with its markers, seal, owner, loop position, entry in hand |
| `FirstBoot`, `MCFirstBoot` | the first-boot transaction, its classifier, its recovery commands and the admission of an ordinary run | marker, receipt, their temporary files, root, quarantine, installed bundle, running command |
| `OrderPathStoreProofs`, `StoreContractProofs`, `OrderLifecycleProofs`, `PaperAdmissionProofs`, `ConsumerGroupProofs`, `CommandBridgeProofs`, `DurableServiceProofs`, `FirstBootProofs` | theorems and their lemmas | |

How the state corresponds to the code, where it is not one to one:

- A store write is one step with a result: `ok`; `fail`, an error that left the
  file alone; `late`, the permission step failing after the commit
  (`HardenMayFail`). The JSON store changes its maps first, so there `fail`
  leaves the maps ahead of the file.
- `flight` is the record clone an awaiting flow holds; `approved` are the
  approval values callers keep, possibly stale. The broker (`order`, `bid`) and
  the messages under way (`net`) move by themselves; a snapshot is any listing
  the broker could have given.
- A journal is kept folded: the replayed state of each request, the request of
  the last record and whether replay succeeds. That is all any reader uses.
  `append` does not ask whether a record makes sense to replay, and neither
  does the model. An append ends `ok`, `refused` (an error before the first
  byte) or with the file changed or not whatever was reported: `lost`, `torn`,
  `kept`.
- `cur` is the call stack of `settle_entry`: the entry, the stage and the records
  still to append. Every append and every Redis call is its own step.
- A command is its request, action, cancel target, payload variant and shape:
  `foreign` fails `context_for_recovered`, `unsupported` is a policy rejection,
  `invalid` an identity error. The clock of the bridge is the set of commands
  whose TTL has passed. `xautoclaim_cursor_done` also ends a scan when the cursor
  does not move; as a full page always moves it, that case coincides with the
  zero cursor.
- The test fault points of the bridge are not modelled; the failures they inject
  are steps of the model anyway.
- A seal is its generation and the journal state it names; the Stage 5G package
  inside it is the set of requests that are its slots. Every journal append,
  seal commit and Redis call of the durable service is its own step; a run that
  returns an error starts again with the readiness check, or the process ends.
  The settlement script is one step, as Redis executes it. `Refreshed` binds the
  journal to the slots after every append: `refresh_after_append` does so for an
  owner with the `Restart` authority, which every owner of the durable service
  has, one that comes from first boot too
  (`first_boot_stage6d_paper_from_validated_stage5g_seed_with_owned_journal` puts
  the validated seed there).
- In `FirstBoot` every write, rename, unlink and mkdir is a step. A transaction
  id is the bundle and the attempt generation it is hashed from, a seal the
  bundle its package names; a file whose write was cut off is `Torn`. `Predicates`
  are the fourteen predicates of the classifier, evaluated without precedence;
  any other number of matches than one is `CorruptOrIdentityMismatch`.

External and marked so in the map: the broker, the network, the clock, crashes,
the operator who removes a stale lock, the idle times Redis has seen.

## What the runs show

| run | question | result |
|---|---|---|
| `store_sqlite` | Do maps, rows and audit stay consistent when callers write anything, writes fail before the commit and the process crashes? | yes |
| `lifecycle_two` | Two orders: can a request leave twice, leave without being durable, be closed while its order lives, get a foreign broker id, or be recovered as a cancel without one? Do the UNIQUE columns keep the file loadable when a write fails after its commit? | no; yes |
| `lifecycle_json` | One order with a clock over the JSON store, whose maps run ahead of the file: does a durable terminal record stay terminal? | yes |
| `lifecycle_decisions` | Can every decision of a pass be persisted? | **no**, finding 1 |
| `writer_lock` | Is there ever more than one open store on a file? | **yes**, finding 2 |
| `bridge_consumer` | Every kind of command, failing appends and Redis calls, redelivery in any order, TTLs passing, and for the streams of places and cancels crashes and reopened journals: one verdict per request in a process that does not die, duplicates only after verdicts, nothing settled unanswered, not ready while owing an answer; one effect per request, effects journaled first, the file replayable, one open lifecycle, Accepted only when final? | yes |
| `bridge_poison` | Is a poison entry that shares a claim page with a command that fails on every delivery still dead-lettered and settled? | **no**, finding 5 |
| `bridge_expiry` | Can an entry be settled while its dispatch has an unknown outcome? | **yes**, finding 3 |
| `durable_restart` | The durable service with failing appends, seal commits and Redis calls, lost answers and crashes at every step: does it implement `CommandSettlement`, is an Accepted answer always covered by the seal, is the seal always a prefix of the journal, does a rejection exclude a dispatch, and is an owed answer at the front of the pending list paid once nothing fails any more? | yes |
| `durable_owed` | Is every owed answer paid once nothing fails any more, unless the root has to be refused? | **no**, finding 6 |
| `durable_new_command` | Can every journal that is not torn be restarted from? | **no**, finding 4 |
| `first_boot` | First boot interrupted at every file operation, recoveries included: do marker and replacement never claim too much, is an attempt's id never reused, is there never more than one class, which interruptions have no class, is an adopted root final, and do the recovery commands lead to one? | yes; those of `AheadOfMarker` and torn files |

### Bounds, and why they are enough

*Store*: two requests, client ids and broker ids: one more than needed for a
conflict; records written are those that differ in what the checks of
`insert_intent` and `update_record` look at.

*Lifecycle*: two requests, ids and one clock value (`lifecycle_two`, Sqlite)
for what two orders can do to each other; one request with a clock up to 2
(`lifecycle_json`) for ages beyond and below the limit. What the JSON store does
to two requests is covered by the theorems, which hold for either backend.
Requests and ids are symmetric.

*Bridge*: streams of two or three entries. Requests interact through the
max-one rule, a cancel's target and a shared id, each a matter of two entries;
the streams contain each of these pairs, most in both orders, and a poison
entry. Pages hold two entries, so that an error drops the rest of a page;
`bridge_poison` has a third entry and two pages per scan. `Mortal` are the
streams during which the process may die: the pairs of places and cancels, which
are the ones a restart can tell from each other only by the journal. Effects,
sequence numbers and attempts need no bound: the model makes them finite.

*Durable service*: three roots (as first boot leaves it; an accepted place in
flight; a finished place with an accepted cancel), streams of two or three
entries with every pair that interacts, pages of two entries and two pages per
scan, so that an error or a hold drops the rest of a page, and a scan ends on its
cursor and on a blocked entry. `durable_owed` has the three streams in which an
owed answer can be lost sight of.
Seal generations and effects need no bound.

*First boot*: two bundles and two attempts: one quarantined attempt in front of
another is what distinguishes ids, and a third repeats the second.

`bridge_consumer` and the durable service runs do not check deadlock, since a
torn journal is refused for good (`open_existing`), nor does `first_boot`, where
a `Corrupt` parent has no command; the other runs do.

### Fairness

`bridge_poison`: `run_bounded` goes on after every error, so the consumer takes
its own steps (weak fairness of `ConsumerStep`); Redis may fail any call, any
number of times, but not every XAUTOCLAIM, dead-letter XADD and XACK for ever
(strong fairness of their success); and `claim_idle_ms` passes between two scans
(`AlwaysIdle`), as the retry delay and blocking read allow. Nothing is assumed of
the journal or the provider: the command in front of the poison entry may fail
for ever, as it does once an append was of uncertain durability. Under this
fairness the property holds only with one entry per page, where the retained
cursor steps over the failing command; within a page nothing does.

`durable_restart` (`FrontIsPaid`) and `durable_owed` (`OwedIsPaid`) are about the
time after failures end: if from some point on every step is one of `CalmNext`
(calls and commits succeed, pending entries are found idle), an answer owed is
paid. Fair are `CalmNext` as a whole (weakly: the service runs and an ended
process is started again) and the end of a run that is locked out by an uncertain
journal or seal (strongly: `run_bounded` is bounded). `OwedIsPaid` is what the
documents ask for; it excuses only a root that has to be refused
(`RecoveryBlocked`: a torn journal, or an open request that is no slot, X20 and
B-040). `FrontIsPaid` is what holds of it: the owed entry is the oldest pending
one and its TTL has not passed. Each of its two further exceptions is a way in
which `durable_owed` fails.

`first_boot` (`Converges`) likewise: once nothing is interrupted, weak fairness
of the required command, which an operator runs, and of its steps. `Stuck` names
the ends without a command: no class, a continuation whose bundle is not
installed, a new attempt with a bundle that is too old.

### Findings

1. `lifecycle_decisions`: a `CancelSubmitted` record whose order the broker
   lists as terminal gets the decision `RecoverCancelTerminal`, which the
   transition table refuses from that state; the error ends the pass, and every
   later pass, before the remaining requests are reconciled.
2. `writer_lock`: a failed `open` removes the lock file twice; the second
   removal can hit a lock another process has taken.
3. `bridge_expiry`: the TTL is looked at before the journal, so a redelivered
   command whose dispatch is on record with unknown outcome is answered
   `Expired`, XACKed and no longer reported as blocked, while its lifecycle stays
   open.
4. `durable_new_command`: the refresh after an append binds the journal against
   the slots of the Stage 5G package, which the service never changes. A command
   that is no slot is accepted to the journal, the run ends with a binding error
   before the dispatch attempt, and no restart of the root is Ready again.
5. `bridge_poison`: an error of `settle_entry` leaves the rest of its claim page
   unexamined. A command that fails on every delivery does so in every scan, and
   the entries behind it in the page are never reached, while the acceptance
   matrix (A-015) has all eligible entries examined in the end.
6. `durable_owed`: an outcome on disk is not answered, in this and every later
   process, when the TTL of its command has passed (the TTL is looked at before
   the journal, and the rejection is then refused because the request is on
   record); when an older poison entry is pending (it needs the seal at the
   frontier and does not advance it); and when an entry that is held is in front
   of it in its page (`process_entries` stops there). TLC reports each when the
   run is limited to its stream.

Known behaviours without a run of their own: a write of the Sqlite store that
fails after its commit leaves stale maps that let a non-terminal state be
written over a terminal row (`lifecycle_json` and the theorems
`DurableHistoryHolds`, `AuditIsChained` and `TerminalIsKept` exclude such writes); no recovery step picks up a
`CancelRequested` record after a crash; the durable service finalizes and
acknowledges an inconclusive outcome like any other; its settlement, when only
the answer is lost, leaves the entry blocked in that process although it is no
longer pending; and of first boot the windows `AheadOfMarker` and a cut-off
temporary file end in `CorruptOrIdentityMismatch`.

`PROJECT.json` quotes the lines of the documents and tests they disagree with.

## What is proved

Assumptions: sets of requests, ids and commands of any size; the sentinel values
are outside them; either backend; any pattern of failing writes, appends and
crashes. Where a theorem needs more, it says so in its hypothesis and below.

- **Store** (`StoreContractProofs`): `StoreTypeCorrect`, `IndexesCorrect`,
  `DurableIdsAreUnique`, `AuditMatches`; and, unless writes can fail after their
  commit, `DurableHistoryHolds` and `AuditIsChained`. `IndexesAgree` is inductive
  with the type invariant. For uniqueness of the durable ids the JSON store needs
  that the maps have unique ids, Sqlite that its columns are checked whatever the
  maps say. That the checks against the maps are checks against the disk is
  `MapsFollowDisk`; it also makes the `from` of an audit row, which the code reads
  from the maps, the state the last row ended in. The hypothesis is needed: after
  a late failure the maps are behind the disk. All of it is stated for a
  `StoreStep`, one call or the end of a process (`OrderPathStoreProofs`), so that
  the lifecycle uses the same lemmas.
- **Order lifecycle** (`OrderLifecycleProofs`), in two layers. First,
  `LifecycleTypeCorrect`, `NeverSubmittedTwice`, `SubmissionIsDurable`.
  `AtMostOneSubmission` is not inductive: that a second send is impossible follows
  from what the durable record, the record in the maps and the clone in the air
  say of each other. `SubmissionInv` adds to the types `VersionsOK` (each version
  of a record has counters that fit its state), `SentOK` (what left is counted on
  disk and in the maps of a running process), `FlightOK` (the clone in the air is
  the version in the maps, its attempt is durable, and if it has not been sent,
  nothing has) and `PassOK` (a pass only holds scheduled records).
  Then, over it, `DeadMeansDeadHolds`, `BrokerIdTrueHolds`,
  `CancelRecoveryHadCancelHolds`. `TruthInv` says what the broker can know
  (`BrokerOK`: an order or a message implies one send, ids are the broker's own),
  that the client id a place was sent with stays the one of its record
  (`ClientOK`), and that each version is true of its order and knows its cancel
  (`VersionTrue`). The argument turns on identity: the lookup maps give a client
  id to one request only (`MapsAgree`), hence a snapshot that matches a record by
  either id is about its own order (`SentClientIsOwn`, `SnapshotIsOwn`), and what
  a pass or a recovery writes from it is true. Old versions, reloaded or left in
  the maps, stay true because the broker moves an order only towards its end.
  `FlowKeepsContract` shows that the whole composition refines `StoreContract`
  with `Record` as the records written; `LifecycleIdsUnique` and, under the
  store's hypothesis, `TerminalIsKept` follow from the store's lemmas.
- **Command bridge** (`CommandBridgeProofs`), in three layers. `EffectInv` gives
  `NeverTwoEffects` and `EffectsAreJournaled`: the journals are typed and a
  request that replays as never dispatched has no attempt on record (`JournalOK`,
  for the file and for the scan separately, as a failed append can leave them
  different); every effect has its attempt both on disk and in the scan
  (`EffectsOK`); the entry being admitted has had no effect, and has its attempt
  on record once nothing is left to append (`CurOK`). The core is two lemmas about
  one more record: `ExtendKeeps`, no attempt is ever forgotten, and
  `ExtendAttempts`, an attempt that replay accepts is remembered. The
  acknowledgement memory, Redis and the supervisor take no part, which is why the
  result survives a restart.
  `JournalInv` gives `AlwaysReplayable` and `NeverTwoOpen`: it adds what the scan
  says of the command in hand by what is left to append, and that file and scan
  are equal until an append fails, after which no other append is tried; so the
  record that reaches the file is always one that was checked against it.
  `AnswerInv` gives `BridgeTypeCorrect`, `AcceptedIsFinalHolds`,
  `DuplicateFollowsVerdictHolds`, `SettledIsAnsweredHolds`,
  `ReadyOwesNothingHolds` and `OneVerdictHolds`: a remembered answer is in the ack
  stream or owed, and an owed one is in hand or has a blocked entry. `OneVerdict`
  is about the streams outside `Mortal`: the memory of verdicts is lost with the
  process.
- **Durable service** (`DurableServiceProofs`): `DurableTypeCorrect`,
  `SealIsPrefixHolds`, `AcceptedIsSealedHolds`, `RejectedIsVetoedHolds`,
  `EffectIsBoundHolds` and the refinement `DurableKeepsPromise`. `DurableInv`
  orders the three durable places: the seal's journal, the scan and the file
  follow each other, and the file is ahead of the scan only by a record whose
  append reported an error (`FilesOK`); an effect has its attempt in both and is
  of a slot or finished (`EffectsOK`); a request marked Accepted is final in the
  seal's journal, a rejected one is no slot and was never dispatched (`MarksOK`);
  `StageOK` says what each stage has established for the entry in hand. In the
  refinement the call of the provider is `Perform`, the settlement script
  `Answer`, `Repeat` or `DeadLetter`, and every append, seal commit, lost answer,
  crash and restart a stutter. The assumption is `SoundRoot` on the roots in
  `Starts`: what a restart verifies before it is Ready (the journal replays and
  its open requests are the slots) and what an earlier run of either service
  leaves behind (`EffectsOK` here, `EffectsOK` and `ForbiddenOK` of the bridge).
- **First boot** (`FirstBootProofs`): `BootTypeCorrect`, `PhaseIsTrueHolds`,
  `AttemptsAreNewHolds`, `OneAuthorityHolds`, `ClassifiedOnceHolds`,
  `CrashIsClassifiedHolds`, for any bundles and any `MaxAttempts`. Most of the
  properties speak of files only and are not inductive: that a rename makes a
  phase true depends on the effect its command had before it. The inductive
  invariant `BootInv` says for each phase what root, receipts and replacement can
  be (`RootOK`, `ReceiptsOK`, `TempOK`), what the running command has done and
  which bundle it read (`TaskOK`), and what the quarantined attempts look like
  (`HistoryOK`; `OwnQuarantineOK` for the one whose marker has not followed its
  root yet). A recovery command needs of its class only the predicate found, not
  that it is the only one. That it is the only one needs no history:
  `PredicatesExclusive` tells any two predicates apart by the files they look at.
  That there is one after every interruption follows from `BootInv` phase by
  phase. That a new attempt's generation is larger than every retained one rests
  on `MaxOfBounded`, the maximum of a bounded set of naturals. For `OneAuthority`,
  an adopted marker leaves no command and no class with a command
  (`AdmittedIsLeftAlone`).

The lemmas about admission and one more journal record are in
`PaperAdmissionProofs`, those about claiming in `ConsumerGroupProofs`, for use by
both services.

Left to TLC: the liveness properties `FrontIsPaid` and `Converges` (fairness and
ENABLED are beyond the prover), and the six runs that expect a violation.

## Not modelled, and why

Decimal arithmetic and trading decisions (out of TLC's reach), wire formats and
HTTP, frame encoding and digests (abstracted to intact, missing or torn), power
loss under the JSON store's rename, Redis losing or trimming streams, more than
one consumer in a group (the journal's lock admits one), the readiness reports
and milestones' simulators, and the parts the plan has not reached. Of the
durable service: the writer lease, readiness snapshots, a settlement call of a
dead process that reaches Redis after the next one started, the Stage 8A and 8B
entry points of the same owner. Of first boot: two supervisor commands at once
(no lock of the transaction excludes them), renames undone by a power loss (the
code syncs the directory after each), and the authentication of the files.

## Plan

1. Done: `OrderPath`, `OrderPathStore`, `StoreContract`, `WriterLock`,
   `M3fReconciliation`, `OrderLifecycle`; `Stage6Replay`, `Stage6Journal`,
   `PaperAdmission`, `CommandBridge`; `DurableService` implementing
   `CommandSettlement`; `FirstBoot`.
2. Done: theorems for every safety property of a passing run, and the
   refinements of `CommandSettlement` and `StoreContract`.
3. `stage6_reconciliation_v2.rs`: retry under the same identity over
   `Stage6Replay`, and what an order still in transit does to it.
4. Operator arm and rate window in front of `BeginPlace`; the M3f readiness
   report, and a fair clock for the age limit.
5. Market data: bar aggregation, finalizer, lifecycle and recovery, with an
   abstract "each bar final once, in order"; the trade ledger.
6. Process supervisor and guardian around `DurableService` and `FirstBoot`.
