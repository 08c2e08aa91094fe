---------------------------- MODULE Stage6Journal ----------------------------
(***************************************************************************)
(* The append-only Stage 6 journal                                         *)
(* (strategy-runtime-core/src/stage6_journal_backend.rs) as its owner sees *)
(* it: what is on disk, what the process last scanned, and whether the     *)
(* process still knows that the two agree.                                 *)
(*                                                                         *)
(* A journal is kept folded: the replayed state of each request, the       *)
(* request of the last record, and whether replaying it succeeds.  append  *)
(* checks the frame chain only, so a record that replay refuses is written *)
(* like any other.                                                         *)
(***************************************************************************)
EXTENDS Stage6Replay

CONSTANT Requests

VARIABLES disk,       \* the frames a reopen would scan
          torn,       \* an incomplete frame ends the file
          scan,       \* the process's scan and replay snapshot
          uncertain   \* durability_uncertain

journalVars == <<disk, torn, scan, uncertain>>

EmptyJournal == [reqs |-> [r \in Requests |-> None], last |-> None, ok |-> TRUE]

JournalInit ==
    /\ disk = EmptyJournal
    /\ torn = FALSE
    /\ scan = EmptyJournal
    /\ uncertain = FALSE

Fits(j, rec) ==
    /\ j.ok
    /\ IF j.reqs[rec.req] = None THEN StartsRequest(rec) ELSE CanApply(j.reqs[rec.req], rec)

\* The replay loop: one more record.
Extend(j, rec) ==
    IF Fits(j, rec)
    THEN [reqs |-> [j.reqs EXCEPT ![rec.req] = IF @ = None THEN FromFirst(rec) ELSE Apply(@, rec)],
          last |-> rec.req, ok |-> TRUE]
    ELSE [j EXCEPT !.last = rec.req, !.ok = FALSE]

(***************************************************************************)
(* What an append can come to.  "refused": an error before the first byte. *)
(* From the first byte on the file may have changed whatever the call      *)
(* reports: nothing reached it ("lost"), part of the frame ("torn") or all *)
(* of it ("kept").                                                         *)
(***************************************************************************)
AppendResults == {"ok", "refused", "lost", "torn", "kept"}

\* The flag, then verify_external_frontier: the file is what was last scanned.
MayAppend(res) == uncertain \/ torn \/ disk # scan => res = "refused"

\* Mutant: the scan takes the record in before the file has it.
AppendScanFirst(rec, res) ==
    /\ MayAppend(res)
    /\ disk' = IF res \in {"ok", "kept"} THEN Extend(disk, rec) ELSE disk
    /\ torn' = (torn \/ res = "torn")
    /\ scan' = Extend(scan, rec)
    /\ uncertain' = (uncertain \/ res \in {"lost", "torn", "kept"})

AppendRecord(rec, res) ==
    /\ MayAppend(res)
    /\ disk' = IF res \in {"ok", "kept"} THEN Extend(disk, rec) ELSE disk
    /\ torn' = (torn \/ res = "torn")
    /\ scan' = IF res = "ok" THEN disk' ELSE scan
    /\ uncertain' = (uncertain \/ res \in {"lost", "torn", "kept"})

\* A fresh open rescans the file; it refuses a torn tail and a failing replay.
OpenJournal ==
    /\ ~torn
    /\ disk.ok
    /\ scan' = disk
    /\ uncertain' = FALSE
    /\ UNCHANGED <<disk, torn>>

Known(j, r) == j.reqs[r] # None
Open(j, r) == Known(j, r) /\ ~j.reqs[r].final
==============================================================================
