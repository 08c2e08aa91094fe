------------------------- MODULE DurableServiceProofs -------------------------
(***************************************************************************)
(* The durable service keeps the promise of CommandSettlement, and its     *)
(* seal never runs ahead of the journal: proved for any commands, streams  *)
(* and roots, any failing append, seal commit and Redis call, and crashes  *)
(* between any two steps.                                                  *)
(*                                                                         *)
(* The argument is about three copies of the journal: what the seal names, *)
(* what the process scanned, and what is on disk, each a later one than    *)
(* the one before.  Admission decides on the scan, the seal is taken from  *)
(* it, and a new process reads the disk.                                   *)
(***************************************************************************)
EXTENDS DurableService, PaperAdmissionProofs, ConsumerGroupProofs

\* Replay never goes on after a finalization, which forbids dispatch.
SoundJournal(j) ==
    /\ JournalOK(j)
    /\ \A r \in Requests : Finished(j, r) => j.reqs[r].safety = "DispatchForbidden"

\* k was j once, or is j with more records.
Follows(j, k) == Prefix(j, k) /\ \A r \in Requests : Finished(j, r) => Finished(k, r)

\* Seal, scan and disk, in this order; the disk is ahead of the scan at most
\* by a record whose append reported an error.
FilesOK ==
    /\ SoundJournal(disk) /\ SoundJournal(scan)
    /\ Follows(seal.cp, scan) /\ Follows(scan, disk)
    /\ disk = scan \/ uncertain
    /\ \A r \in Requests : Known(disk, r) /\ ~Known(scan, r) => disk.reqs[r].attempts = 0
    /\ \A r \in slots : Known(scan, r)

\* What a journal says of the effects: each has its attempt, and is of a slot
\* or finished; and only an effect forbids another dispatch.
EffectsIn(j) ==
    \A r \in Requests :
        /\ effects[r] = 1 => Attempted(j, r) /\ (r \in slots \/ j.reqs[r].final)
        /\ Known(j, r) /\ j.reqs[r].safety = "DispatchForbidden" => effects[r] = 1

EffectsOK == effects \in [Requests -> {0, 1}] /\ EffectsIn(disk) /\ EffectsIn(scan)

\* A rejected request is no slot and was never dispatched.
MarksOK ==
    \A r \in Requests : reqMark[r] # None =>
        IF reqMark[r].status = "Accepted" THEN Finished(seal.cp, r)
        ELSE /\ r \notin slots
             /\ Known(disk, r) => disk.reqs[r].attempts = 0
             /\ Known(scan, r) => scan.reqs[r].attempts = 0

OutputsOK == \A e \in Entries : e \notin entryMark => published[e] = <<>>

\* A seal commit that reported an error ends the run; the next one does not
\* get past its readiness check.
OwnerOK ==
    /\ IF sealUnc THEN cur = None /\ batch = {} /\ at = "check" ELSE seal = cached
    /\ ~up => cur = None /\ batch = {}

AdmitTodos == {<<>>, <<"DispatchAttemptRecorded">>,
               <<"RequestAccepted", "DispatchAttemptRecorded">>}

\* The entry in hand: what its stage has established for its request r.
StageOK(c, r) ==
    /\ c.stage = "admit" =>
         /\ c.todo \in AdmitTodos
         /\ effects[r] = 0
         /\ c.todo \in {<<>>, <<"DispatchAttemptRecorded">>} => r \in slots
         /\ c.todo = <<>> => /\ Attempted(disk, r) /\ Attempted(scan, r)
                             /\ scan.reqs[r].safety = "ReconciliationRequired"
    /\ c.stage \in {"outcome", "finalize", "ack"} => effects[r] = 1
    /\ c.stage = "finalize" =>
         /\ c.todo \in {<<>>, <<"RequestFinalized">>}
         /\ c.todo = <<>> => Finished(scan, r)
    /\ c.stage = "ack" => c.status = "Accepted" /\ Finished(seal.cp, r)
    /\ c.stage = "reject" => c.status \in {"Rejected", "Expired"}
    /\ c.stage = "repeat" => reqMark[r] # None /\ reqMark[r].cmd = stream[c.entry]

InHandOK(c) ==
    /\ Refreshed(scan)
    /\ c.stage = "dlq" <=> stream[c.entry] = Poison
    /\ c.stage # "dlq" => StageOK(c, stream[c.entry].req)

CurOK == cur # None => InHandOK(cur)

DurableInv ==
    TypeOK /\ FilesOK /\ EffectsOK /\ MarksOK /\ OutputsOK /\ OwnerOK /\ CurOK

------------------------------------------------------------------------------
(* One more record, and the journals that follow each other *)

LEMMA FollowsItself ==
    ASSUME NEW j \in Journal
    PROVE  Follows(j, j)
  BY DEF Follows, Prefix, Finished, Known, Journal, WorkingRequest

LEMMA FollowsOn ==
    ASSUME NEW j \in Journal, NEW k \in Journal, NEW l \in Journal, Follows(j, k), Follows(k, l)
    PROVE  Follows(j, l)
  <1>1. ASSUME NEW r \in Requests, Known(j, r)
        PROVE  /\ Known(l, r) /\ l.reqs[r].cmd = j.reqs[r].cmd /\ l.reqs[r].seq >= j.reqs[r].seq
               /\ Finished(j, r) => Finished(l, r)
    <2>1. Known(k, r) /\ k.reqs[r].cmd = j.reqs[r].cmd /\ k.reqs[r].seq >= j.reqs[r].seq
      BY <1>1 DEF Follows, Prefix
    <2>2. Known(l, r) /\ l.reqs[r].cmd = k.reqs[r].cmd /\ l.reqs[r].seq >= k.reqs[r].seq
      BY <2>1 DEF Follows, Prefix
    <2>3. j.reqs[r].seq \in Nat /\ k.reqs[r].seq \in Nat /\ l.reqs[r].seq \in Nat
      BY <1>1, <2>1, <2>2 DEF Known, Journal, WorkingRequest
    <2> QED  BY <2>1, <2>2, <2>3 DEF Follows
  <1> QED  BY <1>1 DEF Follows, Prefix, Finished

\* A journal with one more record follows the one without, and stays sound.
LEMMA ExtendFollows ==
    ASSUME NEW j, SoundJournal(j), NEW rec, Appendable(rec)
    PROVE  SoundJournal(Extend(j, rec)) /\ Follows(j, Extend(j, rec))
  <1> DEFINE k == Extend(j, rec)
  <1>0. j \in Journal /\ JournalOK(j)
    BY DEF SoundJournal, JournalOK
  <1>1. JournalOK(k) /\ k \in Journal
    BY <1>0, ExtendKeeps DEF JournalOK
  <1>2. ASSUME NEW r \in Requests
        PROVE  /\ Known(j, r) => /\ Known(k, r) /\ k.reqs[r].cmd = j.reqs[r].cmd
                                 /\ k.reqs[r].seq >= j.reqs[r].seq
               /\ Finished(j, r) => Finished(k, r)
               /\ Finished(k, r) => k.reqs[r].safety = "DispatchForbidden"
    <2>1. CASE r # rec.req \/ ~Fits(j, rec)
      <3>1. k.reqs[r] = j.reqs[r]
        BY <1>0, <2>1, ExtendReqs
      <3>2. Known(j, r) => j.reqs[r].seq \in Nat
        BY <1>0 DEF Known, Journal, WorkingRequest
      <3> QED  BY <3>1, <3>2 DEF SoundJournal, Finished, Known
    <2>2. CASE r = rec.req /\ Fits(j, rec) /\ j.reqs[r] = None
      <3>1. k.reqs[r] = FromFirst(rec)
        BY <1>0, <2>2, ExtendOwn
      <3> QED  BY <2>2, <3>1 DEF Finished, Known, FromFirst
    <2>3. CASE r = rec.req /\ Fits(j, rec) /\ j.reqs[r] # None
      <3> DEFINE w == j.reqs[r] v == k.reqs[r]
      <3>1. /\ Known(k, r) /\ w \in WorkingRequest /\ v.cmd = w.cmd /\ v.seq = w.seq + 1
            /\ v.safety = SafetyAfter(w, rec.kind)
            /\ v.final = (rec.kind = "RequestFinalized") /\ ~w.final
        BY <1>0, <2>3, ExtendOwn
      <3>2. w.seq \in Nat
        BY <3>1 DEF WorkingRequest
      <3>3. v.final => v.safety = "DispatchForbidden"
        BY <3>1 DEF SafetyAfter
      <3> QED  BY <3>1, <3>2, <3>3 DEF Finished
    <2> QED  BY <2>1, <2>2, <2>3
  <1> QED  BY <1>1, <1>2 DEF SoundJournal, Follows, Prefix

------------------------------------------------------------------------------
(* Steps that write nothing *)

worldVars == <<disk, torn, scan, uncertain, stream, published, entryMark, reqMark, slots, seal, effects>>

\* Files, effects, markers and outputs are what they were.
LEMMA WorldKeeps ==
    ASSUME DurableInv, UNCHANGED worldVars
    PROVE  FilesOK' /\ EffectsOK' /\ MarksOK' /\ OutputsOK'
  <1>1. UNCHANGED <<disk, scan, uncertain, stream, published, entryMark, reqMark, slots, seal, effects>>
    BY DEF worldVars
  <1>2. FilesOK'
    BY <1>1 DEF DurableInv, FilesOK, SoundJournal, JournalOK, ReadyOK, Follows, Prefix, Finished, Known
  <1>3. EffectsOK'
    BY <1>1 DEF DurableInv, EffectsOK, EffectsIn, Attempted, Known
  <1>4. MarksOK'
    BY <1>1 DEF DurableInv, MarksOK, Finished, Known
  <1>5. OutputsOK'
    BY <1>1 DEF DurableInv, OutputsOK, Entries
  <1> QED  BY <1>2, <1>3, <1>4, <1>5

\* The types, when Redis, files and owner stay.
LEMMA LoopTypes ==
    ASSUME TypeOK, UNCHANGED <<worldVars, expired, delivered, pel, cached, frontier, sealUnc, up>>,
           cur' # None => cur'.entry \in pel /\ cur'.stage \in Stages,
           batch' \subseteq pel, at' \in Positions, pages' \in 0..MaxClaimPages - 1,
           cursor' \in 0..delivered, blocked' \subseteq 1..delivered
    PROVE  TypeOK'
  BY DEF TypeOK, worldVars, Entries

LEMMA CursorType ==
    ASSUME TypeOK, NEW page
    PROVE  CursorAfter(pel, page, ClaimCount) \in 0..delivered
  <1>1. Len(stream) \in Nat
    BY ServiceAssumption DEF TypeOK
  <1>2. delivered \in Nat /\ pel \subseteq 1..delivered
    BY <1>1 DEF TypeOK
  <1>3. pel \subseteq 0..delivered
    BY <1>2
  <1> QED  BY <1>2, <1>3, CursorInRange

LEMMA ClaimStep ==
    ASSUME DurableInv, NEW idle \in SUBSET pel, ClaimPage(idle)
    PROVE  DurableInv'
  <1>1. /\ UNCHANGED <<worldVars, expired, delivered, pel, cached, frontier, sealUnc, up>>
        /\ cur = None /\ cur' = None /\ up /\ ~sealUnc /\ blocked' = blocked
    BY DEF ClaimPage, Ready, CompositeReady, DurableInv, OwnerOK, worldVars, journalVars, redisVars,
       sealVars, ownerVars
  <1>2. batch' \subseteq pel
    BY DEF ClaimPage, ClaimedPage, Lowest
  <1>3. cursor' \in 0..delivered
    <2>1. Len(stream) \in Nat
      BY ServiceAssumption DEF DurableInv, TypeOK
    <2>2. batch' \subseteq Nat
      BY <1>2, <2>1 DEF DurableInv, TypeOK
    <2> QED  BY <2>2, CursorType DEF ClaimPage, DurableInv
  <1>4. at' \in Positions /\ pages' \in 0..MaxClaimPages - 1
    <2>1. 0 \in 0..MaxClaimPages - 1
      BY ServiceAssumption
    <2> QED  BY <2>1 DEF ClaimPage, AfterScan, Positions, DurableInv, TypeOK
  <1>5. TypeOK'
    BY <1>1, <1>2, <1>3, <1>4, LoopTypes DEF DurableInv, TypeOK
  <1>6. OwnerOK' /\ CurOK'
    BY <1>1 DEF DurableInv, OwnerOK, CurOK, worldVars
  <1> QED  BY <1>1, <1>5, <1>6, WorldKeeps DEF DurableInv

LEMMA PollStep ==
    ASSUME DurableInv, NEW n \in 0..ReadCount, NEW reply \in BOOLEAN, Poll(n, reply)
    PROVE  DurableInv'
  <1>1. /\ UNCHANGED <<worldVars, expired, cached, frontier, sealUnc, up, pages, cursor, blocked>>
        /\ cur = None /\ cur' = None /\ up /\ ~sealUnc
    BY DEF Poll, Ready, DurableInv, OwnerOK, worldVars, journalVars, sealVars, ownerVars
  <1>2. /\ delivered' = delivered + n /\ delivered + n <= Len(stream)
        /\ pel' = pel \cup (delivered + 1)..(delivered + n)
        /\ batch = {} /\ at' \in Positions
        /\ batch' \in {{}, (delivered + 1)..(delivered + n)}
    BY DEF Poll, Ready, Positions
  <1>0. Len(stream) \in Nat
    BY ServiceAssumption DEF DurableInv, TypeOK
  <1>3. delivered \in Nat /\ n \in Nat
    BY <1>0, ServiceAssumption DEF DurableInv, TypeOK
  <1>4. delivered' \in 0..Len(stream') /\ pel' \subseteq 1..delivered' /\ batch' \subseteq pel'
    BY <1>1, <1>2, <1>3, <1>0 DEF DurableInv, TypeOK, worldVars
  <1>5. cursor' \in 0..delivered' /\ blocked' \subseteq 1..delivered'
    BY <1>1, <1>2, <1>3 DEF DurableInv, TypeOK
  <1>6. TypeOK'
    BY <1>1, <1>2, <1>4, <1>5 DEF DurableInv, TypeOK, worldVars, Entries
  <1>7. OwnerOK' /\ CurOK'
    BY <1>1 DEF DurableInv, OwnerOK, CurOK, worldVars
  <1> QED  BY <1>1, <1>6, <1>7, WorldKeeps DEF DurableInv

LEMMA LoopStep ==
    ASSUME DurableInv, EndClaimPage \/ EndPoll \/ NotReady
    PROVE  DurableInv'
  <1>1. /\ UNCHANGED <<worldVars, expired, delivered, pel, cached, frontier, up, batch, cursor, blocked>>
        /\ cur = None /\ cur' = None /\ up /\ batch = {}
        /\ (sealUnc' = sealUnc /\ ~sealUnc) \/ (sealUnc' /\ at = "check" /\ at' = at)
    BY DEF EndClaimPage, EndPoll, NotReady, Ready, DurableInv, OwnerOK, worldVars, journalVars,
       redisVars, sealVars, ownerVars, loopVars
  <1>2. at' \in Positions /\ pages' \in 0..MaxClaimPages - 1
    <2>1. pages \in 0..MaxClaimPages - 1 /\ MaxClaimPages \in Nat \ {0} /\ at \in Positions
      BY ServiceAssumption DEF DurableInv, TypeOK
    <2>2. CASE EndClaimPage
      BY <2>1, <2>2 DEF EndClaimPage, LastPage, AfterScan, Positions
    <2>3. CASE EndPoll \/ NotReady
      BY <2>1, <2>3 DEF EndPoll, NotReady, Positions, loopVars
    <2> QED  BY <2>2, <2>3
  <1>3. TypeOK'
    BY <1>1, <1>2, ServiceAssumption DEF DurableInv, TypeOK, worldVars, Entries
  <1>4. OwnerOK' /\ CurOK'
    BY <1>1 DEF DurableInv, OwnerOK, CurOK, worldVars
  <1> QED  BY <1>1, <1>3, <1>4, WorldKeeps DEF DurableInv

------------------------------------------------------------------------------
(* The entry in hand *)

\* An entry of the stream is a command or the poison entry.
LEMMA EntryType ==
    ASSUME TypeOK, NEW e \in pel
    PROVE  e \in Entries /\ e \in 1..delivered /\ stream[e] \in Commands \cup {Poison}
  <1>1. Len(stream) \in Nat /\ stream \in Seq(Commands \cup {Poison})
    BY ServiceAssumption DEF TypeOK
  <1>2. e \in Entries /\ e \in 1..delivered
    BY <1>1 DEF TypeOK, Entries
  <1> QED  BY <1>1, <1>2 DEF Entries

LEMMA InHand ==
    ASSUME DurableInv, cur # None
    PROVE  /\ cur.entry \in pel /\ cur.entry \in Entries /\ cur.stage \in Stages
           /\ cur.entry \in 1..delivered
           /\ up /\ ~sealUnc /\ seal = cached
           /\ Refreshed(scan) /\ InHandOK(cur)
           /\ cur.stage # "dlq" => /\ CurCmd \in Commands /\ CurCmd.req \in Requests
                                   /\ StageOK(cur, CurCmd.req)
  <1>1. cur.entry \in pel /\ cur.stage \in Stages /\ InHandOK(cur)
    BY DEF DurableInv, TypeOK, CurOK
  <1>2. /\ cur.entry \in Entries /\ cur.entry \in 1..delivered
        /\ stream[cur.entry] \in Commands \cup {Poison}
    BY <1>1, EntryType DEF DurableInv
  <1>3. up /\ ~sealUnc /\ seal = cached
    BY DEF DurableInv, OwnerOK
  <1>4. Refreshed(scan)
    BY <1>1 DEF InHandOK
  <1>5. cur.stage # "dlq" => /\ CurCmd \in Commands /\ CurCmd.req \in Requests
                             /\ StageOK(cur, CurCmd.req)
    BY <1>1, <1>2, CommandType DEF InHandOK, CurCmd
  <1> QED  BY <1>1, <1>2, <1>3, <1>4, <1>5

\* The entry is left: the run ends, or goes on behind the batch.
Leaves == Fail \/ \E e \in 1..delivered : FailBlocked(e) \/ Hold(e)

LEMMA LeavesLoop ==
    ASSUME TypeOK, Leaves
    PROVE  /\ cur' = None /\ batch' = {} /\ at' \in Positions /\ pages' \in 0..MaxClaimPages - 1
           /\ cursor' = cursor /\ blocked' \subseteq 1..delivered
           /\ at' = "check" \/ at' = at
  <1>1. 0 \in 0..MaxClaimPages - 1
    BY ServiceAssumption
  <1> QED  BY <1>1 DEF Leaves, Fail, FailBlocked, Hold, TypeOK, Positions

LEMMA LeaveStep ==
    ASSUME DurableInv, ~sealUnc, up, Leaves,
           UNCHANGED <<worldVars, expired, delivered, pel, cached, frontier, sealUnc, up>>
    PROVE  DurableInv'
  <1>1. /\ cur' = None /\ batch' = {} /\ at' \in Positions /\ pages' \in 0..MaxClaimPages - 1
        /\ cursor' = cursor /\ blocked' \subseteq 1..delivered
    BY LeavesLoop DEF DurableInv
  <1>2. cursor' \in 0..delivered
    BY <1>1 DEF DurableInv, TypeOK
  <1>3. TypeOK'
    BY <1>1, <1>2, LoopTypes DEF DurableInv
  <1>4. OwnerOK' /\ CurOK'
    BY <1>1 DEF DurableInv, OwnerOK, CurOK, worldVars
  <1> QED  BY <1>3, <1>4, WorldKeeps DEF DurableInv

\* Going on with an entry to a stage whose facts hold already.
LEMMA GoStep ==
    ASSUME DurableInv, ~sealUnc, up, NEW e \in pel, NEW stage \in Stages, NEW todo, NEW status,
           Go(e, stage, todo, status), Refreshed(scan),
           UNCHANGED <<worldVars, expired, delivered, pel, cached, frontier, sealUnc, up>>,
           stage = "dlq" <=> stream[e] = Poison,
           stage # "dlq" => StageOK([entry |-> e, stage |-> stage, todo |-> todo, status |-> status],
                                    stream[e].req)
    PROVE  DurableInv'
  <1> DEFINE c == [entry |-> e, stage |-> stage, todo |-> todo, status |-> status]
  <1>1. cur' = c /\ UNCHANGED <<batch, at, pages, cursor, blocked>>
    BY DEF Go, loopVars
  <1>2. cur'.entry = e /\ cur'.stage = stage
    BY <1>1
  <1>3. TypeOK'
    BY <1>1, <1>2, LoopTypes DEF DurableInv, TypeOK
  <1>4. OwnerOK'
    BY DEF DurableInv, OwnerOK, worldVars
  <1>5. c.entry = e /\ c.stage = stage
    OBVIOUS
  <1>6. InHandOK(c)
    BY <1>5 DEF InHandOK
  <1> HIDE DEF c
  <1>7. InHandOK(c)'
    BY <1>6, <1>1 DEF InHandOK, StageOK, Refreshed, CrossBound, Known, Open, Finished, Attempted, worldVars
  <1>8. CurOK'
    BY <1>1, <1>7 DEF CurOK
  <1> QED  BY <1>3, <1>4, <1>8, WorldKeeps DEF DurableInv

LEMMA QuietKeeps ==
    ASSUME Quiet
    PROVE  UNCHANGED <<worldVars, expired, delivered, pel, cached, frontier, sealUnc, up>>
  BY DEF Quiet, worldVars, journalVars, redisVars, sealVars, ownerVars

------------------------------------------------------------------------------
(* The seal *)

filesVars == <<disk, torn, scan, uncertain, stream, published, entryMark, reqMark, slots, effects>>

\* The seal moves to the scan or stays, and keeps what it covers.
LEMMA SealMoves ==
    ASSUME DurableInv, ~sealUnc, NEW res \in SealResults, frontier' = scan, AdvanceSeal(res)
    PROVE  /\ seal' \in Seal /\ cached' \in Seal /\ sealUnc' \in BOOLEAN
           /\ seal' = seal \/ seal'.cp = scan
           /\ res = "ok" => seal'.cp = scan /\ seal' = cached' /\ ~sealUnc'
           /\ res # "ok" => sealUnc'
  <1>1. seal = cached /\ seal \in Seal /\ scan \in Journal /\ cached.gen \in Nat
    BY DEF DurableInv, OwnerOK, TypeOK, Seal
  <1>2. [gen |-> cached.gen + 1, cp |-> scan] \in Seal
    BY <1>1 DEF Seal
  <1> QED  BY <1>1, <1>2 DEF AdvanceSeal, SealResults

LEMMA SealWorld ==
    ASSUME DurableInv, UNCHANGED filesVars, seal' \in Seal, seal' = seal \/ seal'.cp = scan
    PROVE  /\ FilesOK' /\ EffectsOK' /\ MarksOK' /\ OutputsOK'
           /\ \A r \in Requests : Finished(seal.cp, r) => Finished(seal'.cp, r)
  <1>1. scan \in Journal /\ Follows(seal.cp, scan)
    BY DEF DurableInv, FilesOK, TypeOK
  <1>2. Follows(seal'.cp, scan)
    BY <1>1, FollowsItself
  <1>3. \A r \in Requests : Finished(seal.cp, r) => Finished(seal'.cp, r)
    BY <1>1 DEF Follows
  <1>4. UNCHANGED <<disk, scan, uncertain, stream, published, entryMark, reqMark, slots, effects>>
    BY DEF filesVars
  <1>5. FilesOK'
    BY <1>2, <1>4 DEF DurableInv, FilesOK, SoundJournal, JournalOK, ReadyOK, Follows, Prefix,
       Finished, Known
  <1>6. EffectsOK'
    BY <1>4 DEF DurableInv, EffectsOK, EffectsIn, Attempted, Known
  <1>7. MarksOK'
    BY <1>3, <1>4 DEF DurableInv, MarksOK, Finished, Known
  <1>8. OutputsOK'
    BY <1>4 DEF DurableInv, OutputsOK, Entries
  <1> QED  BY <1>3, <1>5, <1>6, <1>7, <1>8

\* The seal is advanced and the entry goes on, or the run ends.
LEMMA SealStep ==
    ASSUME DurableInv, ~sealUnc, up, NEW res \in SealResults, Refreshed(scan),
           Refresh(scan), AdvanceSeal(res), NEW e \in pel, stream[e] # Poison,
           NEW stage \in {"decide", "ack"}, NEW status,
           IF res = "ok" THEN Go(e, stage, <<>>, status) ELSE Fail \/ FailBlocked(e),
           UNCHANGED <<filesVars, expired, delivered, pel, up>>,
           stage = "ack" => /\ status = "Accepted" /\ effects[stream[e].req] = 1
                            /\ Finished(scan, stream[e].req)
    PROVE  DurableInv'
  <1>1. frontier' = scan /\ scan \in Journal
    BY DEF Refresh, Refreshed, DurableInv, TypeOK
  <1>2. /\ seal' \in Seal /\ cached' \in Seal /\ sealUnc' \in BOOLEAN
        /\ seal' = seal \/ seal'.cp = scan
        /\ res = "ok" => seal'.cp = scan /\ seal' = cached' /\ ~sealUnc'
        /\ res # "ok" => sealUnc'
    BY <1>1, SealMoves
  <1>3. FilesOK' /\ EffectsOK' /\ MarksOK' /\ OutputsOK'
    BY <1>2, SealWorld
  <1>4. e \in Entries /\ e \in 1..delivered
    BY EntryType DEF DurableInv
  <1>5. CASE res = "ok"
    <2> DEFINE c == [entry |-> e, stage |-> stage, todo |-> <<>>, status |-> status]
    <2>1. cur' = c /\ UNCHANGED <<batch, at, pages, cursor, blocked>>
      BY <1>5 DEF Go, loopVars
    <2>2. cur'.entry = e /\ cur'.stage = stage /\ cur'.status = status /\ stage \in Stages
      BY <2>1 DEF Stages
    <2>3. TypeOK'
      BY <1>1, <1>2, <2>1, <2>2 DEF DurableInv, TypeOK, filesVars, Entries
    <2>4. OwnerOK'
      BY <1>2, <1>5 DEF DurableInv, OwnerOK
    <2>5. Refreshed(scan)'
      BY DEF Refreshed, CrossBound, Known, Open, filesVars
    <2>6. stage = "ack" => Finished(seal.cp, stream[e].req)'
      BY <1>2, <1>5 DEF filesVars, Finished, Known
    <2>7. StageOK(cur, stream[e].req)'
      BY <2>2, <2>6 DEF StageOK, filesVars
    <2>8. CurOK'
      BY <2>2, <2>5, <2>7 DEF CurOK, InHandOK, filesVars
    <2> QED  BY <1>3, <2>3, <2>4, <2>8 DEF DurableInv
  <1>6. CASE res # "ok"
    <2>1. Leaves /\ at' = "check"
      BY <1>4, <1>6 DEF Leaves, Fail, FailBlocked
    <2>2. /\ cur' = None /\ batch' = {} /\ at' \in Positions /\ pages' \in 0..MaxClaimPages - 1
          /\ cursor' = cursor /\ blocked' \subseteq 1..delivered
      BY <2>1, LeavesLoop DEF DurableInv
    <2>3. TypeOK'
      BY <1>1, <1>2, <2>2 DEF DurableInv, TypeOK, filesVars, Entries
    <2>4. OwnerOK' /\ CurOK'
      BY <1>2, <1>6, <2>1, <2>2 DEF OwnerOK, CurOK
    <2> QED  BY <1>3, <2>3, <2>4 DEF DurableInv
  <1> QED  BY <1>5, <1>6

LEMMA ObserveStep ==
    ASSUME DurableInv, NEW e \in batch,
           ObservePoison(e) \/ \E res \in SealResults : ObserveCommand(e, res)
    PROVE  DurableInv'
  <1>1. e \in pel /\ up /\ ~sealUnc /\ cur = None
    BY DEF DurableInv, TypeOK, OwnerOK, ObservePoison, ObserveCommand, Handling
  <1>2. frontier' \in Journal
    BY DEF DurableInv, TypeOK, ObservePoison, ObserveCommand, Refresh
  <1>3. CASE ObservePoison(e)
    <2>1. /\ UNCHANGED <<worldVars, expired, delivered, pel, cached, sealUnc, up>>
          /\ stream[e] = Poison
      BY <1>3 DEF ObservePoison, worldVars, journalVars, redisVars, sealVars
    <2>2. CASE Refreshed(scan) /\ Go(e, "dlq", <<>>, None)
      <3>1. /\ cur' # None => cur'.entry = e /\ cur'.stage = "dlq"
            /\ UNCHANGED <<batch, at, pages, cursor, blocked>>
        BY <2>2 DEF Go, loopVars
      <3>2. TypeOK'
        BY <1>1, <1>2, <2>1, <3>1 DEF DurableInv, TypeOK, worldVars, Entries, Stages
      <3>3. OwnerOK'
        BY <1>1, <2>1 DEF DurableInv, OwnerOK, worldVars
      <3>4. Refreshed(scan)'
        BY <2>1, <2>2 DEF Refreshed, CrossBound, Known, Open, worldVars
      <3>5. CurOK'
        BY <2>1, <3>1, <3>4 DEF CurOK, InHandOK, worldVars
      <3> QED  BY <2>1, <3>2, <3>3, <3>5, WorldKeeps DEF DurableInv
    <2>3. CASE Fail
      <3>1. /\ cur' = None /\ batch' = {} /\ at' \in Positions /\ pages' \in 0..MaxClaimPages - 1
            /\ cursor' = cursor /\ blocked' \subseteq 1..delivered
        BY <2>3, LeavesLoop DEF DurableInv, Leaves
      <3>2. TypeOK'
        BY <1>2, <2>1, <3>1 DEF DurableInv, TypeOK, worldVars, Entries
      <3>3. OwnerOK' /\ CurOK'
        BY <1>1, <2>1, <3>1 DEF DurableInv, OwnerOK, CurOK, worldVars
      <3> QED  BY <2>1, <3>2, <3>3, WorldKeeps DEF DurableInv
    <2> QED  BY <1>3, <2>2, <2>3 DEF ObservePoison
  <1>4. ASSUME NEW res \in SealResults, ObserveCommand(e, res)
        PROVE  DurableInv'
    <2>1. UNCHANGED <<filesVars, expired, delivered, pel, up>> /\ stream[e] # Poison
      BY <1>4 DEF ObserveCommand, filesVars, journalVars, redisVars
    <2>2. CASE Refreshed(scan)
      BY <1>1, <1>4, <2>1, <2>2, SealStep DEF ObserveCommand
    <2>3. CASE ~Refreshed(scan)
      <3>1. Fail /\ UNCHANGED <<seal, cached, sealUnc>> /\ UNCHANGED worldVars
        BY <1>4, <2>1, <2>3 DEF ObserveCommand, filesVars, worldVars
      <3>2. /\ cur' = None /\ batch' = {} /\ at' \in Positions /\ pages' \in 0..MaxClaimPages - 1
            /\ cursor' = cursor /\ blocked' \subseteq 1..delivered
        BY <3>1, LeavesLoop DEF DurableInv, Leaves
      <3>3. TypeOK'
        BY <1>2, <2>1, <3>1, <3>2 DEF DurableInv, TypeOK, worldVars, Entries
      <3>4. OwnerOK' /\ CurOK'
        BY <1>1, <2>1, <3>1, <3>2 DEF DurableInv, OwnerOK, CurOK
      <3> QED  BY <3>1, <3>3, <3>4, WorldKeeps DEF DurableInv
    <2> QED  BY <2>2, <2>3
  <1> QED  BY <1>3, <1>4

------------------------------------------------------------------------------
(* Deciding what becomes of the entry *)

\* Going on with the entry in hand.
LEMMA GoOn ==
    ASSUME DurableInv, cur # None, cur.stage # "dlq", Quiet,
           NEW stage \in Stages \ {"dlq"}, NEW todo, NEW status, Go(cur.entry, stage, todo, status),
           StageOK([entry |-> cur.entry, stage |-> stage, todo |-> todo, status |-> status], CurCmd.req)
    PROVE  DurableInv'
  <1>1. UNCHANGED <<worldVars, expired, delivered, pel, cached, frontier, sealUnc, up>>
    BY QuietKeeps
  <1>2. /\ cur.entry \in pel /\ up /\ ~sealUnc /\ Refreshed(scan) /\ stream[cur.entry] # Poison
    BY InHand DEF InHandOK
  <1> QED  BY <1>1, <1>2, GoStep DEF CurCmd

LEMMA LeaveOn ==
    ASSUME DurableInv, cur # None, Quiet, Fail \/ FailBlocked(cur.entry) \/ Hold(cur.entry)
    PROVE  DurableInv'
  <1>1. UNCHANGED <<worldVars, expired, delivered, pel, cached, frontier, sealUnc, up>>
    BY QuietKeeps
  <1>2. up /\ ~sealUnc /\ cur.entry \in 1..delivered
    BY InHand
  <1> QED  BY <1>1, <1>2, LeaveStep DEF Leaves

LEMMA RejectStep ==
    ASSUME DurableInv, LookupFails \/ LookupPresent \/ Mismatch \/ RejectPolicy \/ AdmitHold
    PROVE  DurableInv'
  <1>1. cur # None /\ cur.stage = "decide" /\ Quiet
    BY DEF LookupFails, LookupPresent, Mismatch, RejectPolicy, AdmitHold, Unmarked, At
  <1>2. CASE Hold(cur.entry) \/ FailBlocked(cur.entry)
    BY <1>1, <1>2, LeaveOn
  <1>3. CASE /\ reqMark[CurCmd.req] # None /\ reqMark[CurCmd.req].cmd = CurCmd
             /\ Go(cur.entry, "repeat", <<>>, None)
    <2>1. StageOK([entry |-> cur.entry, stage |-> "repeat", todo |-> <<>>, status |-> None], CurCmd.req)
      BY <1>3 DEF StageOK, CurCmd
    <2> QED  BY <1>1, <1>3, <2>1, GoOn DEF Stages
  <1>4. ASSUME NEW status \in {"Rejected", "Expired"}, Go(cur.entry, "reject", <<>>, status)
        PROVE  DurableInv'
    <2>1. StageOK([entry |-> cur.entry, stage |-> "reject", todo |-> <<>>, status |-> status], CurCmd.req)
      BY DEF StageOK
    <2> QED  BY <1>1, <1>4, <2>1, GoOn DEF Stages
  <1>5. \/ Hold(cur.entry) \/ FailBlocked(cur.entry)
        \/ /\ reqMark[CurCmd.req] # None /\ reqMark[CurCmd.req].cmd = CurCmd
           /\ Go(cur.entry, "repeat", <<>>, None)
        \/ \E status \in {"Rejected", "Expired"} : Go(cur.entry, "reject", <<>>, status)
    BY DEF LookupFails, LookupPresent, Mismatch, RejectPolicy, AdmitHold
  <1> QED  BY <1>2, <1>3, <1>4, <1>5

\* A request that is admitted has had no effect; one that is resumed is open,
\* and so among the slots.
LEMMA AdmitStep ==
    ASSUME DurableInv, AdmitFresh \/ AdmitResumed
    PROVE  DurableInv'
  <1> DEFINE r == CurCmd.req
  <1>1. cur # None /\ cur.stage = "decide" /\ Quiet
    BY DEF AdmitFresh, AdmitResumed, Admissible, Unmarked, At
  <1>2. r \in Requests /\ Refreshed(scan)
    BY <1>1, InHand
  <1>3. effects[r] \in {0, 1} /\ (effects[r] = 1 => Attempted(scan, r))
    BY <1>2 DEF DurableInv, EffectsOK, EffectsIn
  <1>4. CASE AdmitFresh
    <2> DEFINE todo == <<"RequestAccepted", "DispatchAttemptRecorded">>
    <2>1. ~Known(scan, r) /\ Go(cur.entry, "admit", todo, None)
      BY <1>4 DEF AdmitFresh, Fresh
    <2>2. effects[r] = 0
      BY <1>3, <2>1 DEF Attempted
    <2>3. StageOK([entry |-> cur.entry, stage |-> "admit", todo |-> todo, status |-> None], r)
      BY <2>2 DEF StageOK, AdmitTodos
    <2> QED  BY <1>1, <2>1, <2>3, GoOn DEF Stages
  <1>5. CASE AdmitResumed
    <2> DEFINE todo == <<"DispatchAttemptRecorded">>
    <2>1. /\ Known(scan, r) /\ scan.reqs[r].safety = "ReadyForFirstDispatch"
          /\ Go(cur.entry, "admit", todo, None)
      BY <1>5 DEF AdmitResumed, Resumable, ExactDuplicate
    <2>2. scan.reqs[r].attempts = 0 /\ Open(scan, r)
      BY <1>2, <2>1 DEF DurableInv, FilesOK, SoundJournal, JournalOK, ReadyOK, Finished, Open
    <2>3. r \in slots
      BY <1>2, <2>2 DEF Refreshed, CrossBound
    <2>4. effects[r] = 0
      BY <1>3, <2>2 DEF Attempted
    <2>5. StageOK([entry |-> cur.entry, stage |-> "admit", todo |-> todo, status |-> None], r)
      BY <2>3, <2>4 DEF StageOK, AdmitTodos
    <2> QED  BY <1>1, <2>1, <2>5, GoOn DEF Stages
  <1> QED  BY <1>4, <1>5

\* FinalRecords is empty exactly when the scan has the finalization.
LEMMA FinalizeNext ==
    ASSUME DurableInv, cur # None, cur.stage # "dlq", Quiet,
           Go(cur.entry, "finalize", FinalRecords(CurCmd.req), None),
           effects[CurCmd.req] = 1
    PROVE  DurableInv'
  <1> DEFINE r == CurCmd.req
  <1>1. r \in Requests
    BY InHand
  <1>2. Known(scan, r)
    BY <1>1 DEF DurableInv, EffectsOK, EffectsIn, Attempted
  <1>3. /\ FinalRecords(r) \in {<<>>, <<"RequestFinalized">>}
        /\ FinalRecords(r) = <<>> => Finished(scan, r)
    BY <1>2 DEF FinalRecords, Finished
  <1>4. StageOK([entry |-> cur.entry, stage |-> "finalize", todo |-> FinalRecords(r), status |-> None], r)
    BY <1>3 DEF StageOK
  <1> QED  BY <1>4, GoOn DEF Stages

LEMMA ReplayStep ==
    ASSUME DurableInv, AdmitReplayed \/ OutcomeRecorded
    PROVE  DurableInv'
  <1>1. /\ cur # None /\ cur.stage \in {"decide", "outcome"} /\ Quiet
        /\ Go(cur.entry, "finalize", FinalRecords(CurCmd.req), None)
    BY DEF AdmitReplayed, OutcomeRecorded, Admissible, Unmarked, At
  <1>2. CurCmd.req \in Requests /\ StageOK(cur, CurCmd.req)
    BY <1>1, InHand
  <1>3. effects[CurCmd.req] = 1
    <2>1. CASE AdmitReplayed
      BY <1>2, <2>1 DEF AdmitReplayed, Replayed, ExactDuplicate, DurableInv, EffectsOK, EffectsIn
    <2>2. CASE OutcomeRecorded
      BY <1>2, <2>2 DEF OutcomeRecorded, At, StageOK
    <2> QED  BY <2>1, <2>2
  <1> QED  BY <1>1, <1>3, FinalizeNext

------------------------------------------------------------------------------
(* One more record of the entry in hand *)

Appending == cur # None /\ cur.stage \in {"admit", "outcome", "finalize"} /\ cur.todo # <<>>
NextRecord == RecordOf(CurCmd, Head(cur.todo))

\* The lists a stage can have left to append.
LEMMA TodoParts ==
    ASSUME NEW a, NEW b
    PROVE  /\ Head(<<a>>) = a /\ Tail(<<a>>) = <<>>
           /\ Head(<<a, b>>) = a /\ Tail(<<a, b>>) = <<b>>
  OBVIOUS

\* What is appended, and for whom.
LEMMA NextRecordIs ==
    ASSUME DurableInv, Appending
    PROVE  LET rec == NextRecord IN
           /\ Appendable(rec) /\ rec.req = CurCmd.req /\ rec.kind = Head(cur.todo)
           /\ rec.req \in Requests /\ CurCmd \in Commands
           /\ cur.stage = "admit" =>
                /\ effects[rec.req] = 0
                /\ \/ rec.kind = "RequestAccepted" /\ Tail(cur.todo) = <<"DispatchAttemptRecorded">>
                   \/ rec.kind = "DispatchAttemptRecorded" /\ Tail(cur.todo) = <<>> /\ rec.req \in slots
           /\ cur.stage # "admit" => effects[rec.req] = 1
           /\ cur.stage = "finalize" => rec.kind = "RequestFinalized" /\ Tail(cur.todo) = <<>>
  <1>1. CurCmd \in Commands /\ CurCmd.req \in Requests /\ StageOK(cur, CurCmd.req)
    BY InHand DEF Appending
  <1>2. JournalOK(scan)
    BY DEF DurableInv, FilesOK, SoundJournal
  <1>3. Appendable(NextRecord) /\ NextRecord.req = CurCmd.req /\ NextRecord.kind = Head(cur.todo)
    BY <1>1, <1>2, RecordOfType DEF NextRecord
  <1>4. cur.stage = "admit" =>
          /\ effects[CurCmd.req] = 0
          /\ \/ /\ Head(cur.todo) = "RequestAccepted"
                /\ Tail(cur.todo) = <<"DispatchAttemptRecorded">>
             \/ /\ Head(cur.todo) = "DispatchAttemptRecorded" /\ Tail(cur.todo) = <<>>
                /\ CurCmd.req \in slots
    <2>1. cur.stage = "admit" =>
            /\ effects[CurCmd.req] = 0
            /\ \/ cur.todo = <<"RequestAccepted", "DispatchAttemptRecorded">>
               \/ cur.todo = <<"DispatchAttemptRecorded">> /\ CurCmd.req \in slots
      BY <1>1 DEF StageOK, AdmitTodos, Appending
    <2> QED  BY <2>1, TodoParts
  <1>5. cur.stage # "admit" => effects[CurCmd.req] = 1
    BY <1>1 DEF StageOK, Appending
  <1>6. cur.stage = "finalize" => Head(cur.todo) = "RequestFinalized" /\ Tail(cur.todo) = <<>>
    <2>1. cur.stage = "finalize" => cur.todo = <<"RequestFinalized">>
      BY <1>1 DEF StageOK, Appending
    <2> QED  BY <2>1, TodoParts
  <1> QED  BY <1>1, <1>3, <1>4, <1>5, <1>6

\* The journal with the record is as sound as the scan was, and tells the same
\* of the effects and of the rejected requests.
LEMMA RecordKeeps ==
    ASSUME DurableInv, Appending
    PROVE  LET k == Extend(scan, NextRecord) IN
           /\ k \in Journal /\ SoundJournal(k) /\ Follows(scan, k) /\ Follows(seal.cp, k)
           /\ EffectsIn(k)
           /\ \A r \in Requests :
                /\ Known(k, r) /\ ~Known(scan, r) => k.reqs[r].attempts = 0
                /\ reqMark[r] # None /\ reqMark[r].status # "Accepted" /\ Known(k, r) =>
                     k.reqs[r].attempts = 0
           /\ \A r \in slots : Known(k, r)
  <1> DEFINE rec == NextRecord k == Extend(scan, rec) q == CurCmd.req
  <1>1. /\ Appendable(rec) /\ rec.req = q /\ rec.kind = Head(cur.todo)
        /\ q \in Requests
        /\ cur.stage = "admit" =>
             /\ effects[q] = 0
             /\ rec.kind = "RequestAccepted" \/ (rec.kind = "DispatchAttemptRecorded" /\ q \in slots)
        /\ cur.stage # "admit" => effects[q] = 1
    BY NextRecordIs
  <1> HIDE DEF rec
  <1>2. SoundJournal(scan) /\ JournalOK(scan) /\ scan \in Journal /\ seal.cp \in Journal
    BY DEF DurableInv, FilesOK, SoundJournal, TypeOK, Seal
  <1>3. SoundJournal(k) /\ Follows(scan, k)
    BY <1>1, <1>2, ExtendFollows
  <1>4. k \in Journal
    BY <1>3 DEF SoundJournal, JournalOK
  <1>5. Follows(seal.cp, k)
    BY <1>2, <1>3, <1>4, FollowsOn DEF DurableInv, FilesOK
  <1>6. \A r \in slots : Known(k, r)
    BY <1>3 DEF DurableInv, FilesOK, Follows, Prefix, TypeOK
  <1>7. ASSUME NEW r \in Requests
        PROVE  /\ effects[r] = 1 => Attempted(k, r) /\ (r \in slots \/ k.reqs[r].final)
               /\ Known(k, r) /\ k.reqs[r].safety = "DispatchForbidden" => effects[r] = 1
               /\ Known(k, r) /\ ~Known(scan, r) => k.reqs[r].attempts = 0
               /\ reqMark[r] # None /\ reqMark[r].status # "Accepted" /\ Known(k, r) =>
                     k.reqs[r].attempts = 0
    <2>1. /\ effects[r] = 1 => Attempted(scan, r) /\ (r \in slots \/ scan.reqs[r].final)
          /\ Known(scan, r) /\ scan.reqs[r].safety = "DispatchForbidden" => effects[r] = 1
          /\ reqMark[r] # None /\ reqMark[r].status # "Accepted" =>
               r \notin slots /\ (Known(scan, r) => scan.reqs[r].attempts = 0)
      BY DEF DurableInv, EffectsOK, EffectsIn, MarksOK
    <2>2. CASE r # q \/ ~Fits(scan, rec)
      <3>1. k.reqs[r] = scan.reqs[r]
        BY <1>1, <1>2, <2>2, ExtendReqs
      <3> QED  BY <2>1, <3>1 DEF Attempted, Known
    <2>3. CASE r = q /\ Fits(scan, rec) /\ scan.reqs[r] = None
      <3>1. k.reqs[r] = FromFirst(rec)
        BY <1>1, <1>2, <2>3, ExtendOwn
      <3> QED  BY <2>1, <2>3, <3>1 DEF Attempted, Known, FromFirst
    <2>4. CASE r = q /\ Fits(scan, rec) /\ scan.reqs[r] # None
      <3> DEFINE w == scan.reqs[r] v == k.reqs[r]
      <3>1. /\ w \in WorkingRequest /\ CanApply(w, rec) /\ ~w.final
            /\ v.attempts = IF rec.kind = "DispatchAttemptRecorded" THEN 1 ELSE w.attempts
            /\ v.safety = SafetyAfter(w, rec.kind)
        BY <1>1, <1>2, <2>4, ExtendOwn
      <3>2. rec.kind # "RequestAccepted"
        BY <3>1 DEF CanApply, EventsFor, Observations
      <3>3. Attempted(scan, r) => Attempted(k, r)
        BY <1>1, <1>2, ExtendKeeps
      <3>4. cur.stage = "admit" => v.safety # "DispatchForbidden" /\ r \in slots
        BY <1>1, <2>4, <3>1, <3>2 DEF SafetyAfter
      <3>5. Known(scan, r)
        BY <2>4 DEF Known
      <3>6. cur.stage # "admit" => effects[r] = 1 /\ w.attempts = 1
        BY <1>1, <2>1, <2>4 DEF Attempted
      <3> QED  BY <2>1, <3>1, <3>3, <3>4, <3>5, <3>6
    <2> QED  BY <2>2, <2>3, <2>4
  <1> QED  BY <1>3, <1>4, <1>5, <1>6, <1>7 DEF EffectsIn, rec

\* What the next stage may rely on once replay has taken the record in.
LEMMA RecordStage ==
    ASSUME DurableInv, Appending, NEW k, k = Extend(scan, NextRecord), k.ok,
           Open(k, CurCmd.req) => CurCmd.req \in slots,
           NEW c, c = [entry |-> cur.entry, stage |-> cur.stage, todo |-> Tail(cur.todo), status |-> None]
    PROVE  LET r == CurCmd.req IN
           /\ c.stage = "admit" =>
                /\ c.todo \in {<<>>, <<"DispatchAttemptRecorded">>} /\ effects[r] = 0 /\ r \in slots
                /\ c.todo = <<>> => Attempted(k, r) /\ k.reqs[r].safety = "ReconciliationRequired"
           /\ c.stage \in {"outcome", "finalize"} => effects[r] = 1
           /\ c.stage = "finalize" => c.todo = <<>> /\ Finished(k, r)
  <1> DEFINE rec == NextRecord q == CurCmd.req
  <1>1. /\ Appendable(rec) /\ rec.req = q /\ q \in Requests
        /\ cur.stage = "admit" =>
             /\ effects[q] = 0
             /\ \/ rec.kind = "RequestAccepted" /\ Tail(cur.todo) = <<"DispatchAttemptRecorded">>
                \/ rec.kind = "DispatchAttemptRecorded" /\ Tail(cur.todo) = <<>> /\ q \in slots
        /\ cur.stage # "admit" => effects[q] = 1
        /\ cur.stage = "finalize" => rec.kind = "RequestFinalized" /\ Tail(cur.todo) = <<>>
    BY NextRecordIs
  <1> HIDE DEF rec
  <1>2. k = Extend(scan, rec) /\ scan \in Journal
    BY DEF rec, DurableInv, TypeOK
  <1>3. Fits(scan, rec)
    BY <1>1, <1>2, ExtendReqs
  <1> DEFINE w == scan.reqs[q] v == k.reqs[q]
  <1>4. /\ Known(k, q)
        /\ w = None => rec.kind = "RequestAccepted" /\ v = FromFirst(rec)
        /\ w # None => /\ CanApply(w, rec)
                       /\ v.attempts = IF rec.kind = "DispatchAttemptRecorded" THEN 1 ELSE w.attempts
                       /\ v.safety = SafetyAfter(w, rec.kind)
                       /\ v.final = (rec.kind = "RequestFinalized")
    BY <1>1, <1>2, <1>3, ExtendOwn
  <1> HIDE DEF w, v
  <1>5. rec.kind = "RequestAccepted" => ~v.final
    <2>1. rec.kind = "RequestAccepted" => w = None
      BY <1>4 DEF CanApply, EventsFor, Observations
    <2> QED  BY <1>4, <2>1 DEF FromFirst
  <1>6. cur.stage = "admit" => q \in slots
    BY <1>1, <1>4, <1>5 DEF Open, v
  <1>7. rec.kind = "DispatchAttemptRecorded" => v.attempts = 1 /\ v.safety = "ReconciliationRequired"
    BY <1>4 DEF SafetyAfter
  <1>8. rec.kind = "RequestFinalized" => v.final
    BY <1>4
  <1>9. c.stage = cur.stage /\ c.todo = Tail(cur.todo)
    OBVIOUS
  <1> QED  BY <1>1, <1>4, <1>6, <1>7, <1>8, <1>9 DEF Attempted, Finished, v

LEMMA AppendStep ==
    ASSUME DurableInv, NEW res \in AppendResults, AppendNext(res)
    PROVE  DurableInv'
  <1> DEFINE k == Extend(scan, NextRecord) go == res = "ok" /\ Refreshed(scan')
  <1>1. Appending /\ up
    BY DEF AppendNext, Appending, At
  <1>2. /\ UNCHANGED <<expired, stream, delivered, pel, published, entryMark, reqMark, slots, seal,
                       cached, sealUnc, up, effects>>
        /\ AppendRecord(NextRecord, res)
        /\ frontier' = IF res = "ok" /\ scan'.ok THEN scan' ELSE frontier
        /\ go => Go(cur.entry, cur.stage, Tail(cur.todo), None)
        /\ ~go => Fail
    BY DEF AppendNext, NextRecord, redisVars, sealVars, Refresh
  <1>3. ~sealUnc /\ seal = cached /\ cur.entry \in pel /\ cur.stage \in Stages /\ cur.stage # "dlq"
        /\ CurCmd.req \in Requests /\ stream[cur.entry] # Poison
    BY <1>1, InHand DEF Appending, InHandOK
  <1>4. /\ k \in Journal /\ SoundJournal(k) /\ Follows(scan, k) /\ Follows(seal.cp, k)
        /\ EffectsIn(k)
        /\ \A r \in Requests :
             /\ Known(k, r) /\ ~Known(scan, r) => k.reqs[r].attempts = 0
             /\ reqMark[r] # None /\ reqMark[r].status # "Accepted" /\ Known(k, r) =>
                  k.reqs[r].attempts = 0
        /\ \A r \in slots : Known(k, r)
    BY <1>1, RecordKeeps
  <1>5. \/ /\ disk' = disk /\ scan' = scan /\ (uncertain => uncertain') /\ res # "ok"
        \/ /\ disk' = k /\ scan' = scan /\ uncertain' /\ res # "ok"
        \/ /\ disk' = k /\ scan' = k /\ res = "ok"
    BY <1>2 DEF AppendRecord, MayAppend, AppendResults
  <1>6. torn' \in BOOLEAN /\ uncertain' \in BOOLEAN
    BY <1>2 DEF AppendRecord, DurableInv, TypeOK
  <1> HIDE DEF k
  <1>7. disk' \in Journal /\ scan' \in Journal /\ frontier' \in Journal
    BY <1>2, <1>4, <1>5 DEF DurableInv, TypeOK
  <1>8. FilesOK'
    <2>1. Follows(k, k)
      BY <1>4, FollowsItself
    <2>2. SoundJournal(disk') /\ SoundJournal(scan')
      BY <1>4, <1>5 DEF DurableInv, FilesOK
    <2>3. Follows(seal'.cp, scan') /\ Follows(scan', disk')
      BY <1>2, <1>4, <1>5, <2>1 DEF DurableInv, FilesOK
    <2>4. disk' = scan' \/ uncertain'
      BY <1>5 DEF DurableInv, FilesOK
    <2>5. \A r \in Requests : Known(disk', r) /\ ~Known(scan', r) => disk'.reqs[r].attempts = 0
      BY <1>4, <1>5 DEF DurableInv, FilesOK
    <2>6. \A r \in slots' : Known(scan', r)
      BY <1>2, <1>4, <1>5 DEF DurableInv, FilesOK
    <2>7. SoundJournal(disk)' /\ SoundJournal(scan)'
      BY <2>2 DEF SoundJournal, JournalOK, ReadyOK, Finished, Known
    <2>8. Follows(seal.cp, scan)' /\ Follows(scan, disk)'
      BY <2>3 DEF Follows, Prefix, Finished, Known
    <2> QED  BY <2>4, <2>5, <2>6, <2>7, <2>8 DEF FilesOK, Known
  <1>9. EffectsOK'
    <2>1. \A r \in Requests :
            /\ effects[r] = 1 => /\ Attempted(disk', r) /\ (r \in slots \/ disk'.reqs[r].final)
                                 /\ Attempted(scan', r) /\ (r \in slots \/ scan'.reqs[r].final)
            /\ Known(disk', r) /\ disk'.reqs[r].safety = "DispatchForbidden" => effects[r] = 1
            /\ Known(scan', r) /\ scan'.reqs[r].safety = "DispatchForbidden" => effects[r] = 1
      BY <1>4, <1>5 DEF DurableInv, EffectsOK, EffectsIn
    <2> QED  BY <1>2, <2>1 DEF DurableInv, EffectsOK, EffectsIn, Attempted, Known
  <1>10. MarksOK'
    <2>1. ASSUME NEW r \in Requests, reqMark[r] # None, reqMark[r].status # "Accepted"
          PROVE  /\ Known(disk', r) => disk'.reqs[r].attempts = 0
                 /\ Known(scan', r) => scan'.reqs[r].attempts = 0
      BY <1>4, <1>5, <2>1 DEF DurableInv, MarksOK
    <2> QED  BY <1>2, <2>1 DEF DurableInv, MarksOK, Finished, Known
  <1>11. OutputsOK'
    BY <1>2 DEF DurableInv, OutputsOK, Entries
  <1>12. CASE go
    <2> DEFINE c == [entry |-> cur.entry, stage |-> cur.stage, todo |-> Tail(cur.todo), status |-> None]
    <2>1. cur' = c /\ UNCHANGED <<batch, at, pages, cursor, blocked>>
      BY <1>2, <1>12 DEF Go, loopVars
    <2>2. c.entry = cur.entry /\ c.stage = cur.stage
      OBVIOUS
    <2>3. scan' = k /\ disk' = k /\ k.ok
      BY <1>5, <1>12 DEF Refreshed
    <2>4. /\ \A r \in slots : Known(k, r)
          /\ \A r \in Requests : Open(k, r) => r \in slots
      BY <1>4, <1>12, <2>3 DEF Refreshed, CrossBound
    <2>5. LET r == CurCmd.req IN
          /\ c.stage = "admit" =>
               /\ c.todo \in {<<>>, <<"DispatchAttemptRecorded">>} /\ effects[r] = 0 /\ r \in slots
               /\ c.todo = <<>> => Attempted(k, r) /\ k.reqs[r].safety = "ReconciliationRequired"
          /\ c.stage \in {"outcome", "finalize"} => effects[r] = 1
          /\ c.stage = "finalize" => c.todo = <<>> /\ Finished(k, r)
      BY <1>1, <1>3, <2>3, <2>4, RecordStage DEF k
    <2> HIDE DEF c
    <2>6. TypeOK'
      BY <1>2, <1>3, <1>6, <1>7, <2>1, <2>2 DEF DurableInv, TypeOK, Entries
    <2>7. OwnerOK'
      BY <1>1, <1>2, <1>3 DEF DurableInv, OwnerOK
    <2>8. Refreshed(scan)'
      BY <1>2, <2>3, <2>4 DEF Refreshed, CrossBound, Known, Open
    <2>9. StageOK(cur, CurCmd.req)'
      <3>1. CurCmd' = CurCmd /\ effects' = effects /\ slots' = slots
        BY <1>2, <2>1, <2>2 DEF CurCmd
      <3>2. c.stage \in {"admit", "outcome", "finalize"}
        BY <1>1, <2>2 DEF Appending
      <3>3. \A r : Attempted(k, r) => Attempted(disk', r) /\ Attempted(scan', r)
        BY <2>3
      <3>4. \A r : Finished(k, r) => Finished(scan', r)
        BY <2>3
      <3>5. cur' = c /\ stream' = stream
        BY <2>1, <1>2
      <3> QED  BY <2>3, <2>5, <3>1, <3>2, <3>3, <3>4, <3>5 DEF StageOK, AdmitTodos, Attempted, Finished, Known
    <2>10. CurOK'
      BY <1>2, <1>3, <2>1, <2>2, <2>8, <2>9 DEF CurOK, InHandOK, CurCmd
    <2> QED  BY <1>8, <1>9, <1>10, <1>11, <2>6, <2>7, <2>10 DEF DurableInv
  <1>13. CASE ~go
    <2>1. /\ cur' = None /\ batch' = {} /\ at' \in Positions /\ pages' \in 0..MaxClaimPages - 1
          /\ cursor' = cursor /\ blocked' \subseteq 1..delivered
      BY <1>2, <1>13, LeavesLoop DEF DurableInv, Leaves
    <2>2. TypeOK'
      BY <1>2, <1>6, <1>7, <2>1 DEF DurableInv, TypeOK, Entries
    <2>3. OwnerOK' /\ CurOK'
      BY <1>2, <1>3, <2>1 DEF OwnerOK, CurOK
    <2> QED  BY <1>8, <1>9, <1>10, <1>11, <2>2, <2>3 DEF DurableInv
  <1> QED  BY <1>12, <1>13

------------------------------------------------------------------------------
(* The provider, and the authorization of an answer *)

\* The provider is asked for a slot whose attempt is on record, and which has
\* had neither an effect nor a verdict.
LEMMA AskedFor ==
    ASSUME DurableInv, AskNow
    PROVE  LET r == CurCmd.req IN
           /\ cur # None /\ cur.stage # "dlq" /\ r \in Requests
           /\ effects[r] = 0 /\ reqMark[r] = None /\ r \in slots
           /\ Attempted(disk, r) /\ Attempted(scan, r)
  <1> DEFINE r == CurCmd.req
  <1>1. cur # None /\ cur.stage = "admit" /\ cur.todo = <<>>
    BY DEF AskNow, At
  <1>2. r \in Requests /\ StageOK(cur, r)
    BY <1>1, InHand
  <1>3. /\ effects[r] = 0 /\ r \in slots /\ Attempted(disk, r) /\ Attempted(scan, r)
        /\ scan.reqs[r].safety = "ReconciliationRequired"
    BY <1>1, <1>2 DEF StageOK
  <1>4. ~Finished(scan, r)
    BY <1>2, <1>3 DEF DurableInv, FilesOK, SoundJournal
  <1>5. ~Finished(seal.cp, r)
    BY <1>2, <1>4 DEF DurableInv, FilesOK, Follows
  <1>6. reqMark[r] = None
    BY <1>2, <1>3, <1>5 DEF DurableInv, MarksOK
  <1> QED  BY <1>1, <1>2, <1>3, <1>6

LEMMA ProviderStep ==
    ASSUME DurableInv,
           \/ \E records \in OutcomeRecords("Place") \cup OutcomeRecords("Cancel") :
                 ProviderAnswers(records)
           \/ ProviderUncertain \/ ProviderMismatch
    PROVE  DurableInv'
  <1> DEFINE r == CurCmd.req
  <1>1. /\ AskNow /\ effects' = [effects EXCEPT ![r] = @ + 1]
        /\ UNCHANGED <<disk, torn, scan, uncertain, expired, stream, delivered, pel, published,
                       entryMark, reqMark, slots, seal, cached, frontier, sealUnc, up>>
        /\ \/ \E records : Go(cur.entry, "outcome", records, None)
           \/ Fail \/ Hold(cur.entry)
    BY DEF ProviderAnswers, ProviderUncertain, ProviderMismatch, Asked, journalVars, redisVars,
       sealVars, ownerVars
  <1>2. /\ cur # None /\ cur.stage # "dlq" /\ r \in Requests /\ effects[r] = 0 /\ r \in slots
        /\ Attempted(disk, r) /\ Attempted(scan, r)
    BY <1>1, AskedFor
  <1>3. /\ cur.entry \in pel /\ cur.entry \in 1..delivered /\ up /\ ~sealUnc /\ Refreshed(scan)
        /\ stream[cur.entry] # Poison
    BY <1>2, InHand DEF InHandOK
  <1>4. /\ effects \in [Requests -> {0, 1}]
        /\ effects' \in [Requests -> {0, 1}] /\ effects'[r] = 1
        /\ \A s \in Requests : s # r => effects'[s] = effects[s]
    BY <1>1, <1>2 DEF DurableInv, EffectsOK
  <1>5. FilesOK' /\ MarksOK' /\ OutputsOK'
    BY <1>1 DEF DurableInv, FilesOK, SoundJournal, JournalOK, ReadyOK, Follows, Prefix, Finished,
       Known, MarksOK, OutputsOK, Entries
  <1>6. EffectsOK'
    <2>1. ASSUME NEW s \in Requests, NEW j \in {disk, scan}
          PROVE  /\ effects'[s] = 1 => Attempted(j, s) /\ (s \in slots \/ j.reqs[s].final)
                 /\ Known(j, s) /\ j.reqs[s].safety = "DispatchForbidden" => effects'[s] = 1
      BY <1>2, <1>4 DEF DurableInv, EffectsOK, EffectsIn
    <2> QED  BY <1>1, <1>4, <2>1 DEF EffectsOK, EffectsIn, Attempted, Known
  <1>7. effects' \in [Requests -> Nat]
    BY <1>4
  <1>8. CASE \E records : Go(cur.entry, "outcome", records, None)
    <2>1. /\ cur'.entry = cur.entry /\ cur'.stage = "outcome" /\ "outcome" \in Stages
          /\ UNCHANGED <<batch, at, pages, cursor, blocked>>
      BY <1>8 DEF Go, loopVars, Stages
    <2>2. TypeOK'
      BY <1>1, <1>3, <1>7, <2>1 DEF DurableInv, TypeOK, Entries
    <2>3. OwnerOK'
      BY <1>1, <1>3 DEF DurableInv, OwnerOK
    <2>4. Refreshed(scan)'
      BY <1>1, <1>3 DEF Refreshed, CrossBound, Known, Open
    <2>5. stream'[cur'.entry] # Poison /\ stream'[cur'.entry].req = r
      BY <1>1, <1>3, <2>1 DEF CurCmd
    <2>6. CurOK'
      BY <1>4, <2>1, <2>4, <2>5 DEF CurOK, InHandOK, StageOK
    <2> QED  BY <1>5, <1>6, <2>2, <2>3, <2>6 DEF DurableInv
  <1>9. CASE Fail \/ Hold(cur.entry)
    <2>1. /\ cur' = None /\ batch' = {} /\ at' \in Positions /\ pages' \in 0..MaxClaimPages - 1
          /\ cursor' = cursor /\ blocked' \subseteq 1..delivered
      BY <1>3, <1>9, LeavesLoop DEF DurableInv, Leaves
    <2>2. TypeOK'
      BY <1>1, <1>7, <2>1 DEF DurableInv, TypeOK, Entries
    <2>3. OwnerOK' /\ CurOK'
      BY <1>1, <1>3, <2>1 DEF DurableInv, OwnerOK, CurOK
    <2> QED  BY <1>5, <1>6, <2>2, <2>3 DEF DurableInv
  <1> QED  BY <1>1, <1>8, <1>9

LEMMA AuthorizeStep ==
    ASSUME DurableInv, NEW res \in SealResults, AuthorizeAck(res)
    PROVE  DurableInv'
  <1>1. cur # None /\ cur.stage = "finalize" /\ cur.todo = <<>>
    BY DEF AuthorizeAck, At
  <1>2. /\ cur.entry \in pel /\ up /\ ~sealUnc /\ Refreshed(scan) /\ stream[cur.entry] # Poison
        /\ StageOK(cur, CurCmd.req)
    BY <1>1, InHand DEF InHandOK
  <1>3. effects[stream[cur.entry].req] = 1 /\ Finished(scan, stream[cur.entry].req)
    BY <1>1, <1>2 DEF StageOK, CurCmd
  <1>4. UNCHANGED <<filesVars, expired, delivered, pel, up>>
    BY DEF AuthorizeAck, filesVars, journalVars, redisVars
  <1>5. IF res = "ok" THEN Go(cur.entry, "ack", <<>>, "Accepted") ELSE Fail \/ FailBlocked(cur.entry)
    BY DEF AuthorizeAck
  <1> QED  BY <1>2, <1>3, <1>4, <1>5, SealStep DEF AuthorizeAck

------------------------------------------------------------------------------
(* Settlement *)

\* The script finds no marker of the entry, and runs.
Settles(res) ==
    /\ Authorized /\ res # "fail" /\ (ScriptAccepts \/ cur.entry \in entryMark)
    /\ cur.entry \notin entryMark

\* What the script publishes is a first verdict, the repetition of one to the
\* command that got it, or a dead letter.
LEMMA SettledAs ==
    ASSUME DurableInv, NEW res \in RedisResults, Settle(res), Settles(res)
    PROVE  LET r == CurCmd.req IN
           /\ published[cur.entry] = <<>>
           /\ published' = [published EXCEPT ![cur.entry] = <<ScriptOutput>>]
           /\ entryMark' = entryMark \cup {cur.entry} /\ pel' = pel \ {cur.entry}
           /\ \/ stream[cur.entry] = Poison /\ ScriptOutput = "Dlq" /\ reqMark' = reqMark
              \/ /\ stream[cur.entry] # Poison /\ r \in Requests /\ CurCmd \in Commands
                 /\ reqMark[r] # None /\ reqMark[r].cmd = CurCmd
                 /\ ScriptOutput = "Duplicate" /\ reqMark' = reqMark
              \/ /\ stream[cur.entry] # Poison /\ r \in Requests /\ CurCmd \in Commands
                 /\ reqMark[r] = None /\ ScriptOutput = cur.status
                 /\ reqMark' = [reqMark EXCEPT ![r] = [cmd |-> CurCmd, status |-> cur.status]]
                 /\ \/ /\ cur.status = "Accepted" /\ effects[r] = 1 /\ Finished(seal.cp, r)
                    \/ /\ cur.status \in {"Rejected", "Expired"} /\ effects[r] = 0
                       /\ ~Known(scan, r) /\ r \notin slots
  <1> DEFINE r == CurCmd.req
  <1>1. cur # None /\ cur.stage \in {"ack", "reject", "repeat", "dlq"} /\ RunScript
        /\ ScriptAccepts /\ Authorized /\ cur.entry \notin entryMark
    BY DEF Settle, Settles, At
  <1>2. /\ cur.entry \in Entries /\ InHandOK(cur)
        /\ cur.stage # "dlq" => CurCmd \in Commands /\ r \in Requests /\ StageOK(cur, r)
    BY <1>1, InHand
  <1>3. published[cur.entry] = <<>>
    BY <1>1, <1>2 DEF DurableInv, OutputsOK
  <1>4. /\ published' = [published EXCEPT ![cur.entry] = Append(@, ScriptOutput)]
        /\ entryMark' = entryMark \cup {cur.entry} /\ pel' = pel \ {cur.entry}
        /\ reqMark' = IF cur.stage = "dlq" \/ reqMark[r] # None THEN reqMark
                      ELSE [reqMark EXCEPT ![r] = [cmd |-> CurCmd, status |-> cur.status]]
    BY <1>1 DEF RunScript
  <1>5. published' = [published EXCEPT ![cur.entry] = <<ScriptOutput>>]
    <2> DEFINE out == ScriptOutput
    <2>1. Append(<<>>, out) = <<out>>
      OBVIOUS
    <2> QED  BY <1>3, <1>4, <2>1, Zenon
  <1>6. stream[cur.entry] = Poison <=> cur.stage = "dlq"
    BY <1>2 DEF InHandOK
  <1>7. CASE cur.stage = "dlq"
    BY <1>3, <1>4, <1>5, <1>6, <1>7 DEF ScriptOutput
  <1>8. CASE cur.stage # "dlq" /\ reqMark[r] # None
    <2>1. reqMark[r].cmd = CurCmd
      BY <1>1, <1>2, <1>8 DEF ScriptAccepts, StageOK, CurCmd
    <2> QED  BY <1>2, <1>3, <1>4, <1>5, <1>6, <1>8, <2>1 DEF ScriptOutput
  <1>9. CASE cur.stage # "dlq" /\ reqMark[r] = None
    <2>1. cur.stage \in {"ack", "reject"}
      BY <1>1, <1>2, <1>9 DEF StageOK
    <2>2. CASE cur.stage = "ack"
      BY <1>2, <1>3, <1>4, <1>5, <1>6, <1>9, <2>2 DEF ScriptOutput, StageOK
    <2>3. CASE cur.stage = "reject"
      <3>1. ~Known(scan, r)
        BY <1>1, <2>3 DEF Authorized, Established
      <3>2. r \notin slots
        BY <3>1 DEF DurableInv, FilesOK
      <3>3. effects[r] = 0
        BY <1>2, <1>9, <3>1 DEF DurableInv, EffectsOK, EffectsIn, Attempted
      <3> QED  BY <1>2, <1>3, <1>4, <1>5, <1>6, <1>9, <2>3, <3>1, <3>2, <3>3 DEF ScriptOutput, StageOK
    <2> QED  BY <2>1, <2>2, <2>3
  <1> QED  BY <1>7, <1>8, <1>9

LEMMA SettleStep ==
    ASSUME DurableInv, NEW res \in RedisResults, Settle(res)
    PROVE  DurableInv'
  <1> DEFINE r == CurCmd.req
  <1>1. /\ cur # None
        /\ UNCHANGED <<disk, torn, scan, uncertain, expired, stream, delivered, slots, seal, cached,
                       frontier, sealUnc, up, effects>>
        /\ \/ /\ cur' = None /\ batch' = batch \ {cur.entry} /\ blocked' = blocked \ {cur.entry}
              /\ UNCHANGED <<at, pages, cursor>>
           \/ FailBlocked(cur.entry)
    BY DEF Settle, At, journalVars, sealVars, ownerVars
  <1>2. cur.entry \in pel /\ cur.entry \in 1..delivered /\ cur.entry \in Entries /\ up /\ ~sealUnc
    BY <1>1, InHand
  <1>3. /\ cur' = None /\ batch' \subseteq batch \ {cur.entry} /\ at' \in Positions
        /\ pages' \in 0..MaxClaimPages - 1 /\ cursor' = cursor /\ blocked' \subseteq 1..delivered
    <2>1. CASE FailBlocked(cur.entry)
      BY <1>2, <2>1, LeavesLoop DEF DurableInv, Leaves
    <2> QED  BY <1>1, <2>1 DEF DurableInv, TypeOK
  <1>4. FilesOK' /\ EffectsOK'
    BY <1>1 DEF DurableInv, FilesOK, SoundJournal, JournalOK, ReadyOK, Follows, Prefix, Finished,
       Known, EffectsOK, EffectsIn, Attempted
  <1>5. OwnerOK' /\ CurOK'
    BY <1>1, <1>2, <1>3 DEF DurableInv, OwnerOK, CurOK
  <1>6. CASE Settles(res)
    <2> DEFINE out == ScriptOutput new == [cmd |-> CurCmd, status |-> cur.status]
    <2>1. /\ published' = [published EXCEPT ![cur.entry] = <<out>>]
          /\ entryMark' = entryMark \cup {cur.entry} /\ pel' = pel \ {cur.entry}
          /\ out \in Verdicts \cup {"Duplicate", "Dlq"}
          /\ \/ reqMark' = reqMark
             \/ /\ r \in Requests /\ CurCmd \in Commands /\ cur.status \in Verdicts
                /\ reqMark[r] = None
                /\ reqMark' = [reqMark EXCEPT ![r] = new]
                /\ \/ cur.status = "Accepted" /\ Finished(seal.cp, r)
                   \/ /\ cur.status # "Accepted" /\ effects[r] = 0
                      /\ ~Known(scan, r) /\ r \notin slots
      BY <1>6, SettledAs DEF Verdicts
    <2> HIDE DEF out
    <2>2. reqMark' \in [Requests -> Marker \cup {None}]
      <3>1. r \in Requests /\ CurCmd \in Commands /\ cur.status \in Verdicts => new \in Marker
        BY DEF Marker
      <3> HIDE DEF new
      <3> QED  BY <2>1, <3>1 DEF DurableInv, TypeOK
    <2>3. published' \in [Entries -> Seq(Verdicts \cup {"Duplicate", "Dlq"})]
      <3>1. <<out>> \in Seq(Verdicts \cup {"Duplicate", "Dlq"})
        BY <2>1
      <3> QED  BY <1>2, <2>1, <3>1 DEF DurableInv, TypeOK
    <2>4. pel' \subseteq 1..delivered /\ batch' \subseteq pel' /\ entryMark' \subseteq Entries
      BY <1>2, <1>3, <2>1 DEF DurableInv, TypeOK
    <2>5. TypeOK'
      BY <1>1, <1>3, <2>2, <2>3, <2>4 DEF DurableInv, TypeOK, Entries
    <2>6. OutputsOK'
      BY <1>1, <1>2, <2>1 DEF DurableInv, OutputsOK, Entries, TypeOK
    <2>7. MarksOK'
      <3>1. ASSUME NEW s \in Requests, reqMark'[s] # None
            PROVE  IF reqMark'[s].status = "Accepted" THEN Finished(seal.cp, s)
                   ELSE /\ s \notin slots
                        /\ Known(disk, s) => disk.reqs[s].attempts = 0
                        /\ Known(scan, s) => scan.reqs[s].attempts = 0
        <4>1. CASE reqMark'[s] = reqMark[s]
          BY <3>1, <4>1 DEF DurableInv, MarksOK
        <4>2. CASE reqMark'[s] # reqMark[s]
          <5>1. s = r /\ reqMark'[s] = new
            BY <2>1, <4>2 DEF DurableInv, TypeOK
          <5>2. reqMark'[s].status = cur.status
            BY <5>1
          <5>3. ~Known(scan, s) /\ Known(disk, s) => disk.reqs[s].attempts = 0
            BY DEF DurableInv, FilesOK
          <5>4. reqMark' # reqMark
            BY <4>2
          <5> QED  BY <2>1, <5>1, <5>2, <5>3, <5>4
        <4> QED  BY <4>1, <4>2
      <3> QED  BY <1>1, <3>1 DEF MarksOK, Finished, Known
    <2> QED  BY <1>4, <1>5, <2>5, <2>6, <2>7 DEF DurableInv
  <1>7. CASE ~Settles(res)
    <2>1. UNCHANGED <<published, entryMark, reqMark, pel>>
      BY <1>7 DEF Settle, Settles, RunScript
    <2>2. TypeOK'
      BY <1>1, <1>3, <2>1 DEF DurableInv, TypeOK, Entries
    <2>3. OutputsOK' /\ MarksOK'
      BY <1>1, <2>1 DEF DurableInv, OutputsOK, Entries, MarksOK, Finished, Known
    <2> QED  BY <1>4, <1>5, <2>2, <2>3 DEF DurableInv
  <1> QED  BY <1>6, <1>7

------------------------------------------------------------------------------
(* Time and the process *)

\* What the disk tells a new process, which reads nothing else.
LEMMA FromDisk ==
    ASSUME DurableInv, UNCHANGED <<disk, stream, published, entryMark, reqMark, slots, seal, effects>>,
           scan' = disk
    PROVE  FilesOK' /\ EffectsOK' /\ MarksOK' /\ OutputsOK'
  <1>1. disk \in Journal /\ scan \in Journal /\ seal.cp \in Journal /\ SoundJournal(disk)
    BY DEF DurableInv, TypeOK, Seal, FilesOK
  <1>2. Follows(disk, disk) /\ Follows(seal.cp, disk)
    BY <1>1, FollowsItself, FollowsOn DEF DurableInv, FilesOK
  <1>3. \A r \in slots : Known(disk, r)
    BY DEF DurableInv, FilesOK, Follows, Prefix, TypeOK
  <1>4. FilesOK'
    BY <1>1, <1>2, <1>3 DEF FilesOK, SoundJournal, JournalOK, ReadyOK, Follows, Prefix, Finished, Known
  <1>5. EffectsOK'
    BY DEF DurableInv, EffectsOK, EffectsIn, Attempted, Known
  <1>6. MarksOK'
    BY DEF DurableInv, MarksOK, Finished, Known
  <1>7. OutputsOK'
    BY DEF DurableInv, OutputsOK, Entries
  <1> QED  BY <1>4, <1>5, <1>6, <1>7

LEMMA CrashStep ==
    ASSUME DurableInv, Crash
    PROVE  DurableInv'
  <1>1. /\ UNCHANGED <<disk, torn, expired, stream, delivered, pel, published, entryMark, reqMark,
                       slots, seal, effects>>
        /\ scan' = disk /\ uncertain' = FALSE /\ ~up'
        /\ cached' = seal /\ frontier' = seal.cp /\ sealUnc' = FALSE
        /\ cur' = None /\ batch' = {} /\ at' = "check" /\ pages' = 0 /\ cursor' = 0 /\ blocked' = {}
    BY DEF Crash, redisVars, sealVars
  <1>2. seal.cp \in Journal /\ up' \in BOOLEAN
    BY DEF DurableInv, TypeOK, Seal, Crash
  <1>3. pages' \in 0..MaxClaimPages - 1 /\ cursor' \in 0..delivered
    <2>1. Len(stream) \in Nat
      BY ServiceAssumption DEF DurableInv, TypeOK
    <2> QED  BY <1>1, <2>1, ServiceAssumption DEF DurableInv, TypeOK
  <1>4. TypeOK'
    BY <1>1, <1>2, <1>3 DEF DurableInv, TypeOK, Entries, Positions
  <1>5. OwnerOK' /\ CurOK'
    BY <1>1 DEF OwnerOK, CurOK
  <1> QED  BY <1>1, <1>4, <1>5, FromDisk DEF DurableInv

LEMMA RestartStep ==
    ASSUME DurableInv, Restart
    PROVE  DurableInv'
  <1>1. /\ UNCHANGED <<disk, torn, expired, stream, delivered, pel, published, entryMark, reqMark,
                       slots, seal, cur, batch, at, pages, cursor, blocked, effects>>
        /\ scan' = disk /\ uncertain' = FALSE /\ up' = TRUE
        /\ cached' = seal /\ frontier' = seal.cp /\ sealUnc' = FALSE
        /\ cur = None
    BY DEF Restart, OpenJournal, redisVars, sealVars, loopVars, DurableInv, OwnerOK
  <1>2. seal.cp \in Journal
    BY DEF DurableInv, TypeOK, Seal
  <1>3. TypeOK'
    BY <1>1, <1>2 DEF DurableInv, TypeOK, Entries
  <1>4. OwnerOK' /\ CurOK'
    BY <1>1 DEF OwnerOK, CurOK
  <1> QED  BY <1>1, <1>3, <1>4, FromDisk DEF DurableInv

\* Time, and steps of nobody.
LEMMA IdleStep ==
    ASSUME DurableInv, UNCHANGED vars \/ \E c \in Commands : Expire(c)
    PROVE  DurableInv'
  <1>1. /\ UNCHANGED <<worldVars, delivered, pel, cached, frontier, sealUnc, up,
                       cur, batch, at, pages, cursor, blocked>>
        /\ expired' \subseteq Commands
    BY DEF vars, Expire, journalVars, redisVars, sealVars, ownerVars, loopVars, worldVars,
       DurableInv, TypeOK
  <1>2. TypeOK' /\ OwnerOK'
    BY <1>1 DEF DurableInv, TypeOK, OwnerOK, worldVars, Entries
  <1>3. CurOK'
    BY <1>1 DEF DurableInv, CurOK, InHandOK, StageOK, Refreshed, CrossBound, Known, Open, Finished,
       Attempted, worldVars
  <1> QED  BY <1>1, <1>2, <1>3, WorldKeeps DEF DurableInv

------------------------------------------------------------------------------
(* The invariant, and what follows from it *)

\* A root a restart accepts is one the argument can start from.
LEMMA DurableInit ==
    ASSUME Init
    PROVE  DurableInv
  <1>1. PICK s \in Starts : disk = s.journal /\ scan = s.journal /\ slots = s.slots /\ effects = s.effects
    BY DEF Init
  <1>2. /\ s \in [slots : SUBSET Requests, journal : Journal, effects : [Requests -> {0, 1}]]
        /\ SoundRoot(s)
    BY ServiceAssumption
  <1>3. disk \in Journal /\ scan = disk /\ slots \subseteq Requests /\ effects \in [Requests -> {0, 1}]
    BY <1>1, <1>2
  <1>4. /\ \A r \in slots : Known(disk, r)
        /\ \A r \in Requests :
             /\ Open(disk, r) => r \in slots
             /\ effects[r] = 1 => Attempted(disk, r)
             /\ Known(disk, r) =>
                  /\ disk.reqs[r].safety = "ReadyForFirstDispatch" => disk.reqs[r].attempts = 0
                  /\ disk.reqs[r].safety = "DispatchForbidden" => effects[r] = 1
                  /\ disk.reqs[r].final => disk.reqs[r].safety = "DispatchForbidden"
    BY <1>1, <1>2 DEF SoundRoot, Attempted
  <1>5. seal = [gen |-> 1, cp |-> disk] /\ seal \in Seal /\ seal.cp = disk
    BY <1>3 DEF Init, Seal
  <1>6. FilesOK
    <2>1. SoundJournal(disk)
      BY <1>3, <1>4 DEF SoundJournal, JournalOK, ReadyOK, Finished
    <2>2. Follows(disk, disk)
      BY <1>3, FollowsItself
    <2> QED  BY <1>3, <1>4, <1>5, <2>1, <2>2 DEF FilesOK
  <1>7. EffectsOK
    BY <1>3, <1>4 DEF EffectsOK, EffectsIn, Attempted, Open
  <1>8. MarksOK /\ OutputsOK
    BY DEF Init, MarksOK, OutputsOK
  <1>9. OwnerOK /\ CurOK
    BY DEF Init, OwnerOK, CurOK
  <1>10. TypeOK
    <2>1. Len(stream) \in Nat /\ stream \in Streams
      BY ServiceAssumption DEF Init
    <2>2. published \in [Entries -> Seq(Verdicts \cup {"Duplicate", "Dlq"})]
      BY DEF Init
    <2>3. 0 \in 0..Len(stream) /\ 0 \in 0..MaxClaimPages - 1 /\ 0 \in 0..0
      BY <2>1, ServiceAssumption
    <2>4. effects \in [Requests -> Nat]
      BY <1>3
    <2> QED  BY <1>3, <1>5, <2>1, <2>2, <2>3, <2>4 DEF Init, TypeOK, Positions
  <1> QED  BY <1>6, <1>7, <1>8, <1>9, <1>10 DEF DurableInv

LEMMA DurableStep ==
    ASSUME DurableInv, [Next]_vars
    PROVE  DurableInv'
  <1>1. CASE NotReady \/ EndClaimPage \/ EndPoll
    BY <1>1, LoopStep
  <1>2. CASE \E idle \in SUBSET pel : ClaimPage(idle)
    BY <1>2, ClaimStep
  <1>3. CASE \E n \in 0..ReadCount, reply \in BOOLEAN : Poll(n, reply)
    BY <1>3, PollStep
  <1>4. CASE \E e \in batch : ObservePoison(e) \/ \E res \in SealResults : ObserveCommand(e, res)
    BY <1>4, ObserveStep
  <1>5. CASE LookupFails \/ Decide
    BY <1>5, RejectStep, AdmitStep, ReplayStep DEF Decide
  <1>6. CASE \E res \in AppendResults : AppendNext(res)
    BY <1>6, AppendStep
  <1>7. CASE \/ \E records \in OutcomeRecords("Place") \cup OutcomeRecords("Cancel") :
                   ProviderAnswers(records)
             \/ ProviderUncertain \/ ProviderMismatch
    BY <1>7, ProviderStep
  <1>8. CASE OutcomeRecorded
    BY <1>8, ReplayStep
  <1>9. CASE \E res \in SealResults : AuthorizeAck(res)
    BY <1>9, AuthorizeStep
  <1>10. CASE \E res \in RedisResults : Settle(res)
    BY <1>10, SettleStep
  <1>11. CASE (\E c \in Commands : Expire(c)) \/ UNCHANGED vars
    BY <1>11, IdleStep
  <1>12. CASE Crash \/ Restart
    BY <1>12, CrashStep, RestartStep
  <1> QED
    BY <1>1, <1>2, <1>3, <1>4, <1>5, <1>6, <1>7, <1>8, <1>9, <1>10, <1>11, <1>12 DEF Next

LEMMA DurableInvariant == Spec => []DurableInv
  <1>1. Init => DurableInv
    BY DurableInit
  <1>2. DurableInv /\ [Next]_vars => DurableInv'
    BY DurableStep
  <1> QED  BY <1>1, <1>2, PTL DEF Spec

\* The state of the service keeps its types, for any streams and roots: the
\* entry in hand and the batch are pending, and the claim cursor stays within
\* what the group has delivered.
THEOREM DurableTypeCorrect == Spec => []TypeOK
  BY DurableInvariant, PTL DEF DurableInv

\* An Accepted answer is only published for a finalization the seal on disk
\* covers, and no later seal forgets it (authorize_finalized_ack).
THEOREM AcceptedIsSealedHolds == Spec => []AcceptedIsSealed
  <1>1. DurableInv => AcceptedIsSealed
    BY DEF DurableInv, MarksOK, AcceptedIsSealed, Finished
  <1> QED  BY <1>1, DurableInvariant, PTL

\* The seal never names records the journal file does not hold, whichever
\* append or seal commit reported a failure.
THEOREM SealIsPrefixHolds == Spec => []SealIsPrefix
  <1>1. DurableInv => SealIsPrefix
    <2> SUFFICES ASSUME DurableInv PROVE SealIsPrefix
      OBVIOUS
    <2>1. disk \in Journal /\ scan \in Journal /\ seal.cp \in Journal
      BY DEF DurableInv, TypeOK, Seal
    <2>2. Follows(seal.cp, disk)
      BY <2>1, FollowsOn DEF DurableInv, FilesOK
    <2> QED  BY <2>2 DEF Follows, SealIsPrefix
  <1> QED  BY <1>1, DurableInvariant, PTL

\* A request that got a rejection has no dispatch on record and never gets one
\* (the marker and the rejected request's absence from the slots veto it).
THEOREM RejectedIsVetoedHolds == Spec => []RejectedIsVetoed
  <1>1. DurableInv => RejectedIsVetoed
    BY DEF DurableInv, MarksOK, RejectedIsVetoed
  <1> QED  BY <1>1, DurableInvariant, PTL

\* The provider is asked only with the attempt on disk, and an effect whose
\* request is still open is one a restart finds among the slots.
THEOREM EffectIsBoundHolds == Spec => []EffectIsBound
  <1>1. DurableInv => EffectIsBound
    <2> SUFFICES ASSUME DurableInv, NEW r \in Requests, effects[r] > 0
                 PROVE  /\ Known(disk, r) /\ disk.reqs[r].attempts = 1
                        /\ Open(disk, r) => r \in slots
      BY DEF EffectIsBound
    <2>1. effects[r] = 1
      BY DEF DurableInv, EffectsOK
    <2> QED  BY <2>1 DEF DurableInv, EffectsOK, EffectsIn, Attempted, Open
  <1> QED  BY <1>1, DurableInvariant, PTL

------------------------------------------------------------------------------
(* The promise *)

promiseVars == <<stream, published, reqMark, effects>>

\* Every step but the provider's and the script's leaves what was promised.
LEMMA QuietPromise ==
    ASSUME [Next]_vars,
           ~\E records \in OutcomeRecords("Place") \cup OutcomeRecords("Cancel") : ProviderAnswers(records),
           ~ProviderUncertain, ~ProviderMismatch, ~\E res \in RedisResults : Settle(res)
    PROVE  UNCHANGED promiseVars
  <1>1. CASE NotReady \/ EndClaimPage \/ EndPoll \/ \E idle \in SUBSET pel : ClaimPage(idle)
    BY <1>1 DEF NotReady, EndClaimPage, EndPoll, ClaimPage, redisVars, promiseVars
  <1>2. CASE \E n \in 0..ReadCount, reply \in BOOLEAN : Poll(n, reply)
    BY <1>2 DEF Poll, promiseVars
  <1>3. CASE \E e \in batch : ObservePoison(e) \/ \E res \in SealResults : ObserveCommand(e, res)
    BY <1>3 DEF ObservePoison, ObserveCommand, redisVars, promiseVars
  <1>4. CASE LookupFails \/ Decide \/ OutcomeRecorded
    BY <1>4 DEF LookupFails, Decide, LookupPresent, Mismatch, RejectPolicy, AdmitFresh, AdmitResumed,
       AdmitReplayed, AdmitHold, OutcomeRecorded, Quiet, redisVars, promiseVars
  <1>5. CASE \E res \in AppendResults : AppendNext(res)
    BY <1>5 DEF AppendNext, redisVars, promiseVars
  <1>6. CASE \E res \in SealResults : AuthorizeAck(res)
    BY <1>6 DEF AuthorizeAck, redisVars, promiseVars
  <1>7. CASE (\E c \in Commands : Expire(c)) \/ Crash \/ Restart \/ UNCHANGED vars
    BY <1>7 DEF Expire, Crash, Restart, vars, redisVars, promiseVars
  <1> QED  BY <1>1, <1>2, <1>3, <1>4, <1>5, <1>6, <1>7 DEF Next

\* Asking the provider is the one effect of a request without a verdict.
LEMMA ProviderPromise ==
    ASSUME DurableInv,
           \/ \E records \in OutcomeRecords("Place") \cup OutcomeRecords("Cancel") :
                 ProviderAnswers(records)
           \/ ProviderUncertain \/ ProviderMismatch
    PROVE  \E r \in Requests : Promise!Perform(r)
  <1> DEFINE r == CurCmd.req
  <1>1. /\ AskNow /\ effects' = [effects EXCEPT ![r] = @ + 1]
        /\ UNCHANGED <<stream, published, reqMark>>
    BY DEF ProviderAnswers, ProviderUncertain, ProviderMismatch, Asked, redisVars
  <1>2. r \in Requests /\ effects[r] = 0 /\ reqMark[r] = None
    BY <1>1, AskedFor
  <1>3. effects' = [effects EXCEPT ![r] = 1]
    BY <1>1, <1>2 DEF DurableInv, EffectsOK
  <1>4. Promise!Perform(r)
    BY <1>1, <1>2, <1>3 DEF Promise!Perform
  <1> QED  BY <1>2, <1>4

\* The script answers, repeats an answer, writes a dead letter, or does nothing.
LEMMA SettlePromise ==
    ASSUME DurableInv, NEW res \in RedisResults, Settle(res)
    PROVE  Promise!Next \/ UNCHANGED promiseVars
  <1> DEFINE r == CurCmd.req e == cur.entry
  <1>1. stream' = stream /\ effects' = effects /\ cur # None
    BY DEF Settle, At
  <1>2. e \in 1..Len(stream)
    BY <1>1, InHand DEF Entries
  <1>3. CASE Settles(res)
    <2>1. published[e] = <<>> /\ published' = [published EXCEPT ![e] = <<ScriptOutput>>]
      BY <1>3, SettledAs
    <2>2. CASE stream[e] = Poison /\ ScriptOutput = "Dlq" /\ reqMark' = reqMark
      <3>1. Promise!DeadLetter(e)
        BY <1>1, <2>1, <2>2 DEF Promise!DeadLetter, Promise!Publish
      <3> QED  BY <1>2, <3>1 DEF Promise!Next
    <2>3. CASE /\ stream[e] # Poison /\ reqMark[r] # None /\ reqMark[r].cmd = CurCmd
               /\ ScriptOutput = "Duplicate" /\ reqMark' = reqMark
      <3>1. Promise!Repeat(e)
        BY <1>1, <2>1, <2>3 DEF Promise!Repeat, Promise!Publish, CurCmd
      <3> QED  BY <1>2, <3>1 DEF Promise!Next
    <2>4. CASE /\ stream[e] # Poison /\ reqMark[r] = None /\ ScriptOutput = cur.status
               /\ reqMark' = [reqMark EXCEPT ![r] = [cmd |-> CurCmd, status |-> cur.status]]
               /\ \/ cur.status = "Accepted" /\ effects[r] = 1
                  \/ cur.status \in {"Rejected", "Expired"} /\ effects[r] = 0
      <3>1. cur.status \in Promise!Statuses /\ (cur.status = "Accepted" <=> effects[r] = 1)
        BY <2>4 DEF Promise!Statuses
      <3>2. Promise!Answer(e, cur.status)
        BY <1>1, <2>1, <2>4, <3>1 DEF Promise!Answer, Promise!Publish, CurCmd
      <3> QED  BY <1>2, <3>1, <3>2 DEF Promise!Next
    <2> QED  BY <1>3, <2>2, <2>3, <2>4, SettledAs
  <1>4. CASE ~Settles(res)
    BY <1>1, <1>4 DEF Settle, Settles, RunScript, promiseVars
  <1> QED  BY <1>3, <1>4

\* The durable service implements CommandSettlement: whatever fails, each
\* entry gets at most one output and each request at most one verdict and one
\* effect, and the verdict is Accepted exactly when the effect was had
\* (settlement script, markers and journal together).
THEOREM DurableKeepsPromise == Spec => KeepsPromise
  <1>1. Init => Promise!Init
    <2> SUFFICES ASSUME Init PROVE Promise!Init
      OBVIOUS
    <2>1. effects \in [Requests -> {0, 1}]
      BY DurableInit DEF DurableInv, EffectsOK
    <2> QED  BY <2>1 DEF Init, Promise!Init, Entries
  <1>2. DurableInv /\ [Next]_vars => [Promise!Next]_Promise!vars
    <2> SUFFICES ASSUME DurableInv, [Next]_vars
                 PROVE  Promise!Next \/ UNCHANGED promiseVars
      BY DEF promiseVars, Promise!vars
    <2>1. CASE \/ \E records \in OutcomeRecords("Place") \cup OutcomeRecords("Cancel") :
                     ProviderAnswers(records)
               \/ ProviderUncertain \/ ProviderMismatch
      BY <2>1, ProviderPromise DEF Promise!Next
    <2>2. CASE \E res \in RedisResults : Settle(res)
      BY <2>2, SettlePromise
    <2> QED  BY <2>1, <2>2, QuietPromise
  <1> QED  BY <1>1, <1>2, DurableInvariant, PTL DEF Spec, KeepsPromise, Promise!Spec
==============================================================================
