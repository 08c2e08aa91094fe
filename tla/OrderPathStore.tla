---------------------------- MODULE OrderPathStore ----------------------------
(***************************************************************************)
(* The durable store of order-path records (crates/broker-core/src/        *)
(* order_path.rs): the in-memory maps every store works on, and the two    *)
(* durable backends around them.                                           *)
(*                                                                         *)
(*  - SqliteOrderPathStore applies a write to a clone of the maps, commits *)
(*    the row and its audit entry in one transaction, re-applies the file  *)
(*    permissions, and only then installs the clone.  The permission step  *)
(*    can fail after the commit: the caller gets an error, the row is on   *)
(*    disk and the maps are not updated.                                   *)
(*  - JsonFileOrderPathStore applies a write to the maps first and then    *)
(*    rewrites the whole file (temporary file, then rename).  When that    *)
(*    fails the caller gets an error and the maps are ahead of the file.   *)
(*                                                                         *)
(* The actions here are the writes a caller makes; StoreContract closes    *)
(* them into a specification of the store alone and OrderLifecycle uses    *)
(* them from the gateway's order flow.                                     *)
(***************************************************************************)
EXTENDS OrderPath

CONSTANTS Backend,          \* "Sqlite" or "Json"
          HardenMayFail     \* can the permission step after a commit fail?

ASSUME BackendAssumption ==
    /\ Backend \in {"Sqlite", "Json"}
    /\ HardenMayFail \in BOOLEAN

VARIABLES up,        \* a process has the store open
          lock,      \* the writer-lock file exists (Sqlite)
          mem,       \* by_request_id
          byClient,  \* request_by_client_id
          byBroker,  \* request_by_broker_id
          disk,      \* the durable records
          audit      \* per request, the last row of order_path_transitions

innerVars == <<mem, byClient, byBroker>>
storeVars == <<up, lock, mem, byClient, byBroker, disk, audit>>

NoAudit == [from |-> None, to |-> None]

StoreTypeOK ==
    /\ up \in BOOLEAN
    /\ lock \in BOOLEAN
    /\ mem \in [Requests -> Record \cup {None}]
    /\ byClient \in [ClientIds -> Requests \cup {None}]
    /\ byBroker \in [BrokerIds -> Requests \cup {None}]
    /\ disk \in [Requests -> Record \cup {None}]
    /\ audit \in [Requests -> [from : States \cup {None}, to : States \cup {None}]]

NoRecords == [r \in Requests |-> None]

StoreInit ==
    /\ up = FALSE
    /\ lock = FALSE
    /\ mem = NoRecords
    /\ byClient = [c \in ClientIds |-> None]
    /\ byBroker = [b \in BrokerIds |-> None]
    /\ disk = NoRecords
    /\ audit = [r \in Requests |-> NoAudit]

------------------------------------------------------------------------------
(* InMemoryOrderPathStore *)

InsertOk(r, rec) ==
    /\ mem[r] = None
    /\ byClient[rec.client] = None
    /\ rec.broker # None => byBroker[rec.broker] = None

\* Mutant: a terminal record may be reopened.
UpdateOkReopens(r, rec) ==
    /\ mem[r] # None
    /\ rec.client = mem[r].client
    /\ mem[r].broker # None => rec.broker = mem[r].broker
    /\ (mem[r].broker = None /\ rec.broker # None)
          => byBroker[rec.broker] \in {None, r}
    /\ rec.ts >= mem[r].ts

\* Mutant: a new broker id is not looked up before it is taken.
UpdateOkNoLookup(r, rec) ==
    /\ mem[r] # None
    /\ rec.client = mem[r].client
    /\ mem[r].broker # None => rec.broker = mem[r].broker
    /\ mem[r].state \in TerminalStates => rec.state \in TerminalStates
    /\ rec.ts >= mem[r].ts

UpdateOk(r, rec) ==
    /\ mem[r] # None
    /\ rec.client = mem[r].client
    /\ mem[r].broker # None => rec.broker = mem[r].broker
    /\ (mem[r].broker = None /\ rec.broker # None)
          => byBroker[rec.broker] \in {None, r}
    /\ mem[r].state \in TerminalStates => rec.state \in TerminalStates
    /\ rec.ts >= mem[r].ts

BrokerIndexed(r, rec) ==
    IF rec.broker = None THEN byBroker ELSE [byBroker EXCEPT ![rec.broker] = r]

\* Mutant: the client index keeps the client id instead of the request.
InnerInsertSwapped(r, rec) ==
    /\ mem' = [mem EXCEPT ![r] = rec]
    /\ byClient' = [byClient EXCEPT ![rec.client] = rec.client]
    /\ byBroker' = BrokerIndexed(r, rec)

InnerInsert(r, rec) ==
    /\ mem' = [mem EXCEPT ![r] = rec]
    /\ byClient' = [byClient EXCEPT ![rec.client] = r]
    /\ byBroker' = BrokerIndexed(r, rec)

\* Mutant: a broker id learned later is not indexed.
InnerUpdateUnindexed(r, rec) ==
    /\ mem' = [mem EXCEPT ![r] = rec]
    /\ UNCHANGED <<byClient, byBroker>>

InnerUpdate(r, rec) ==
    /\ mem' = [mem EXCEPT ![r] = rec]
    /\ byBroker' = IF mem[r].broker = None THEN BrokerIndexed(r, rec) ELSE byBroker
    /\ UNCHANGED byClient

------------------------------------------------------------------------------
(* The durable half of a write *)

\* Mutant: the columns are not UNIQUE.
RowUniqueDropped(r, rec) == TRUE

\* PRIMARY KEY and UNIQUE columns of order_path_records
RowUnique(r, rec) ==
    \A q \in Requests \ {r} : disk[q] # None =>
        /\ disk[q].client # rec.client
        /\ rec.broker # None => disk[q].broker # rec.broker

\* Mutant: the audit row repeats the previous state.
CommitAuditBefore(r, rec) ==
    /\ RowUnique(r, rec)
    /\ disk' = [disk EXCEPT ![r] = rec]
    /\ LET s == IF mem[r] = None THEN None ELSE mem[r].state
       IN  audit' = [audit EXCEPT ![r] = [from |-> s, to |-> s]]

\* insert_record_sql / update_record_sql up to the commit: row and audit entry
Commit(r, rec) ==
    /\ RowUnique(r, rec)
    /\ disk' = [disk EXCEPT ![r] = rec]
    /\ audit' = [audit EXCEPT ![r] =
                    [from |-> IF mem[r] = None THEN None ELSE mem[r].state,
                     to   |-> rec.state]]

\* JsonFileOrderPathStore::persist writes every record of the maps
Persist == disk' = mem' /\ UNCHANGED audit

\* Mutant: the Sqlite store changes the maps before the transaction.
WriteMapsFirst(r, rec, InnerApply, w) ==
    /\ w \in {"ok", "fail"}
    /\ InnerApply
    /\ IF w = "ok" THEN Commit(r, rec) ELSE UNCHANGED <<disk, audit>>

\* Mutant: the changed clone of the maps is never installed.
WriteNotInstalled(r, rec, InnerApply, w) ==
    /\ w \in {"ok", "fail"}
    /\ IF w = "ok" THEN Commit(r, rec) ELSE UNCHANGED <<disk, audit>>
    /\ UNCHANGED innerVars

\* What a write that passed the checks of the maps does, with its result:
\* "ok", or an error before ("fail") or after ("late") the commit.
Write(r, rec, InnerApply, w) ==
    \/ /\ Backend = "Sqlite" /\ w = "ok"
       /\ Commit(r, rec) /\ InnerApply
    \/ /\ Backend = "Sqlite" /\ w = "late" /\ HardenMayFail
       /\ Commit(r, rec) /\ UNCHANGED innerVars
    \/ /\ Backend = "Sqlite" /\ w = "fail"
       /\ UNCHANGED <<innerVars, disk, audit>>
    \/ /\ Backend = "Json" /\ w = "ok"
       /\ InnerApply /\ Persist
    \/ /\ Backend = "Json" /\ w = "fail"
       /\ InnerApply /\ UNCHANGED <<disk, audit>>

InsertIntent(r, rec, w) ==
    /\ up
    /\ InsertOk(r, rec)
    /\ Backend = "Sqlite" /\ w # "fail" => disk[r] = None
    /\ Write(r, rec, InnerInsert(r, rec), w)
    /\ UNCHANGED <<up, lock>>

UpdateRecord(r, rec, w) ==
    /\ up
    /\ UpdateOk(r, rec)
    /\ Backend = "Sqlite" /\ w # "fail" => disk[r] # None
    /\ Write(r, rec, InnerUpdate(r, rec), w)
    /\ UNCHANGED <<up, lock>>

------------------------------------------------------------------------------
(* Opening, closing and crashing *)

\* The records are inserted one by one: a duplicate id refuses the open.
Loadable ==
    \A q, r \in Requests :
        (q # r /\ disk[q] # None /\ disk[r] # None)
            => /\ disk[q].client # disk[r].client
               /\ disk[q].broker # None => disk[q].broker # disk[r].broker

\* Rebuilding the maps from the durable records by insert_intent.
Load ==
    /\ Loadable
    /\ mem' = disk
    /\ byClient' = [c \in ClientIds |->
          IF \E r \in Requests : disk[r] # None /\ disk[r].client = c
          THEN CHOOSE r \in Requests : disk[r] # None /\ disk[r].client = c
          ELSE None]
    /\ byBroker' = [b \in BrokerIds |->
          IF \E r \in Requests : disk[r] # None /\ disk[r].broker = b
          THEN CHOOSE r \in Requests : disk[r] # None /\ disk[r].broker = b
          ELSE None]

\* The lock file is created with create_new: an existing one refuses the open.
OpenStore ==
    /\ ~up
    /\ Backend = "Sqlite" => ~lock
    /\ up' = TRUE
    /\ lock' = (Backend = "Sqlite")
    /\ Load
    /\ UNCHANGED <<disk, audit>>

Forget ==
    /\ up' = FALSE
    /\ mem' = NoRecords
    /\ byClient' = [c \in ClientIds |-> None]
    /\ byBroker' = [b \in BrokerIds |-> None]
    /\ UNCHANGED <<disk, audit>>

\* Drop for SqliteOrderPathStore removes the lock file.
CloseStore == up /\ Forget /\ lock' = FALSE

\* A crash runs no destructor: the lock file stays.
CrashStore == up /\ Forget /\ UNCHANGED lock

\* The operator removes the lock file a crash left behind.
ClearStaleLock ==
    /\ ~up /\ lock
    /\ lock' = FALSE
    /\ UNCHANGED <<up, innerVars, disk, audit>>

------------------------------------------------------------------------------
(* What both users of the store state properties with *)

\* No two durable records ever share a client or a broker order id, also
\* when the maps and the file disagree after an error of insert_intent or
\* update_record: open is never refused because of a duplicate.
DurableIdsUnique == Loadable

\* One record may follow another in the durable store: nothing is lost, the
\* client id and a known broker id stay, a terminal state stays terminal and
\* the update time does not go back.
MayFollow(old, new) ==
    old # None =>
        /\ new # None
        /\ new.client = old.client
        /\ old.broker # None => new.broker = old.broker
        /\ old.state \in TerminalStates => new.state \in TerminalStates
        /\ new.ts >= old.ts
==============================================================================
