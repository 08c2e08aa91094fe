---------------------------- MODULE StoreContract -----------------------------
(***************************************************************************)
(* What the order-path store promises whoever writes to it.  Callers may   *)
(* hand it any record of WriteRecords at any time: the store does not know *)
(* the transition table, so everything below rests on the checks of        *)
(* insert_intent and update_record, on the backend's write order and on    *)
(* the reload after a crash.                                               *)
(***************************************************************************)
EXTENDS OrderPathStore

CONSTANT WriteRecords       \* the records callers pass to the store

ASSUME WriteRecordsAssumption == WriteRecords \subseteq Record

Init == StoreInit

Insert == \E r \in Requests, rec \in WriteRecords, w \in {"ok", "fail", "late"} :
              InsertIntent(r, rec, w)

Update == \E r \in Requests, rec \in WriteRecords, w \in {"ok", "fail", "late"} :
              UpdateRecord(r, rec, w)

Next ==
    \/ Insert
    \/ Update
    \/ OpenStore
    \/ CloseStore
    \/ CrashStore
    \/ ClearStaleLock

Spec == Init /\ [][Next]_storeVars

------------------------------------------------------------------------------
(* Properties *)

\* The two lookup maps and the records say the same: load_by_client_order_id
\* and load_by_broker_order_id find exactly the record that carries the id,
\* through failed writes, crashes and reloads.
IndexesAgree ==
    up => /\ \A c \in ClientIds, r \in Requests :
                (byClient[c] = r) <=> (mem[r] # None /\ mem[r].client = c)
          /\ \A b \in BrokerIds, r \in Requests :
                (byBroker[b] = r) <=> (mem[r] # None /\ mem[r].broker = b)

\* The checks of update_record hold between consecutive DURABLE versions of a
\* record and not only between versions of the maps, whatever writes fail
\* before their commit and wherever the process crashes and reloads.
DurableHistory ==
    [][\A r \in Requests : MayFollow(disk[r], disk'[r])]_storeVars

\* An audit row that is new starts at the state the last one ended in.
Chained(last, row) == row # last => row.from = last.to

\* The audit table is a chain: each row insert_record_sql and update_record_sql
\* write starts at the state the previous row of the request ended in.
AuditChained == [][\A r \in Requests : Chained(audit[r], audit'[r])]_storeVars

\* The last audit row of a request always names the state of its durable row:
\* insert_record_sql and update_record_sql write both in one transaction.
AuditMatchesRow ==
    Backend = "Sqlite" =>
        \A r \in Requests :
            audit[r].to = IF disk[r] = None THEN None ELSE disk[r].state
==============================================================================
