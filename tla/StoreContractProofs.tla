------------------------- MODULE StoreContractProofs --------------------------
(***************************************************************************)
(* The promises of the order-path store, proved for any number of          *)
(* requests, client ids and broker ids and for any records the callers     *)
(* write.                                                                  *)
(*                                                                         *)
(* The argument: the lookup maps always say what the records say, because  *)
(* an insert or update passes its checks first and open rebuilds the maps  *)
(* from records without duplicates (IndexesAgree).  Unique records in the  *)
(* maps make the file written from them unique (Json), unique columns do   *)
(* it for the table (Sqlite).  What is on disk is what the maps hold       *)
(* (Sqlite, when a write cannot fail after its commit) or an earlier       *)
(* version of it (Json), so the checks against the maps are checks against *)
(* the disk (MapsFollowDisk), and the state an audit row starts from, read *)
(* from the maps, is the state the last row ended in.                      *)
(***************************************************************************)
EXTENDS StoreContract, OrderPathStoreProofs

------------------------------------------------------------------------------
(* Type correctness *)

LEMMA ContractStep ==
    ASSUME [Next]_storeVars
    PROVE  StoreStep
  BY WriteRecordsAssumption DEF Next, Insert, Update, StoreStep

\* The store keeps its types: StoreTypeOK holds in every reachable state.
THEOREM StoreTypeCorrect == Spec => []StoreTypeOK
  BY InitType, ContractStep, TypeStep, PTL DEF Spec, Init

------------------------------------------------------------------------------
(* The lookup maps *)

LEMMA IndexesAreMaps == IndexesAgree <=> MapsAgree
  BY DEF IndexesAgree, MapsAgree, ClientsAgree, BrokersAgree

\* load_by_client_order_id and load_by_broker_order_id find exactly the record
\* with the id, in every reachable state of the store.
THEOREM IndexesCorrect == Spec => []IndexesAgree
  <1>1. Init => IndexesAgree
    BY DEF Init, StoreInit, IndexesAgree
  <1>2. StoreTypeOK /\ IndexesAgree /\ [Next]_storeVars => IndexesAgree'
    <2>1. IndexesAgree' <=> MapsAgree'
      BY DEF IndexesAgree, MapsAgree, ClientsAgree, BrokersAgree
    <2> QED BY <2>1, ContractStep, MapsAgreeStep, IndexesAreMaps
  <1> QED BY <1>1, <1>2, StoreTypeCorrect, PTL DEF Spec

------------------------------------------------------------------------------
(* Unique ids on disk *)

\* No failed write and no crash ever leaves two durable records with one
\* client or broker id, with either backend and also when a Sqlite write can
\* fail after its commit.
THEOREM DurableIdsAreUnique == Spec => []DurableIdsUnique
  <1>1. Init => Loadable
    BY DEF Init, StoreInit, Loadable, NoRecords
  <1>2. StoreTypeOK /\ IndexesAgree /\ Loadable /\ [Next]_storeVars => Loadable'
    BY ContractStep, UniqueStep, IndexesAreMaps
  <1> QED BY <1>1, <1>2, StoreTypeCorrect, IndexesCorrect, PTL DEF Spec, DurableIdsUnique

------------------------------------------------------------------------------
(* The history on disk *)

\* Consecutive durable versions of a record obey the checks of update_record:
\* nothing is lost, ids stay, terminal stays terminal, time does not go back.
\* The hypothesis is what the code needs and does not guarantee with Sqlite:
\* no error between the commit and the installation of the maps.
THEOREM DurableHistoryHolds ==
    ASSUME Backend = "Json" \/ ~HardenMayFail
    PROVE  Spec => DurableHistory
  <1>1. Init => MapsFollowDisk
    BY DEF Init, StoreInit, MapsFollowDisk
  <1>2. StoreTypeOK /\ MapsFollowDisk /\ [Next]_storeVars
           => MapsFollowDisk' /\ \A r \in Requests : MayFollow(disk[r], disk'[r])
    BY ContractStep, HistoryStep
  <1> QED BY <1>1, <1>2, StoreTypeCorrect, PTL DEF Spec, DurableHistory

------------------------------------------------------------------------------
(* The audit table *)

\* The state a durable record or a record of the maps is in.
StateOf(rec) == IF rec = None THEN None ELSE rec.state

\* A step writes no audit row, or the row of a Sqlite commit together with the
\* record it is about.
LEMMA AuditEffect ==
    ASSUME StoreTypeOK, StoreStep
    PROVE  \/ audit' = audit /\ (disk' = disk \/ Backend = "Json")
           \/ up /\ Backend = "Sqlite" /\ \E r \in Requests, rec \in Record : Commit(r, rec)
  <1>1. CASE \E r \in Requests, rec \in Record, w \in {"ok", "fail", "late"} :
             InsertIntent(r, rec, w)
    BY <1>1, InsertEffect DEF Persist
  <1>2. CASE \E r \in Requests, rec \in Record, w \in {"ok", "fail", "late"} :
             UpdateRecord(r, rec, w)
    BY <1>2, UpdateEffect DEF Persist
  <1>3. CASE OpenStore \/ CloseStore \/ CrashStore \/ ClearStaleLock
    BY <1>3 DEF OpenStore, CloseStore, CrashStore, Forget, ClearStaleLock
  <1>4. CASE UNCHANGED storeVars
    BY <1>4 DEF storeVars
  <1> QED BY <1>1, <1>2, <1>3, <1>4 DEF StoreStep

\* What a commit leaves in the two tables, request by request.
LEMMA CommitRows ==
    ASSUME StoreTypeOK, NEW r \in Requests, NEW rec \in Record, Commit(r, rec),
           NEW q \in Requests
    PROVE  /\ disk'[q] = IF q = r THEN rec ELSE disk[q]
           /\ q = r => audit'[q].from = StateOf(mem[q]) /\ audit'[q].to = rec.state
           /\ q # r => audit'[q] = audit[q]
  BY DEF Commit, StoreTypeOK, StateOf

LEMMA AuditMatchesStep ==
    ASSUME StoreTypeOK, AuditMatchesRow, StoreStep
    PROVE  AuditMatchesRow'
  <1>1. ASSUME NEW r \in Requests, NEW rec \in Record, Commit(r, rec), Backend = "Sqlite"
        PROVE  AuditMatchesRow'
    <2>1. \A q \in Requests :
             audit'[q].to = IF disk'[q] = None THEN None ELSE disk'[q].state
      BY <1>1, CommitRows, RecordIsNotNone DEF AuditMatchesRow
    <2> QED BY <2>1 DEF AuditMatchesRow
  <1>2. ASSUME audit' = audit, disk' = disk \/ Backend = "Json"
        PROVE  AuditMatchesRow'
    BY <1>2 DEF AuditMatchesRow
  <1> QED BY <1>1, <1>2, AuditEffect

\* Row and audit entry are committed together, so no failed write and no crash
\* makes them disagree, also when a write fails after its commit.
THEOREM AuditMatches == Spec => []AuditMatchesRow
  <1>1. Init => AuditMatchesRow
    <2> SUFFICES ASSUME Init, NEW r \in Requests PROVE audit[r].to = None /\ disk[r] = None
      BY DEF AuditMatchesRow
    <2>1. audit[r] = NoAudit /\ disk[r] = None
      BY DEF Init, StoreInit, NoRecords
    <2> QED BY <2>1 DEF NoAudit
  <1>2. StoreTypeOK /\ AuditMatchesRow /\ [Next]_storeVars => AuditMatchesRow'
    BY ContractStep, AuditMatchesStep
  <1> QED BY <1>1, <1>2, StoreTypeCorrect, PTL DEF Spec

\* A commit takes the "from" of its audit row from the maps; it continues the
\* chain because the maps hold what is on disk.
LEMMA AuditChainStep ==
    ASSUME StoreTypeOK, AuditMatchesRow, MapsFollowDisk, StoreStep
    PROVE  \A r \in Requests : Chained(audit[r], audit'[r])
  <1>1. ASSUME up, Backend = "Sqlite",
               NEW r \in Requests, NEW rec \in Record, Commit(r, rec), NEW q \in Requests,
               audit'[q] # audit[q]
        PROVE  audit'[q].from = audit[q].to
    <2>1. q = r /\ audit'[q].from = StateOf(mem[q])
      BY <1>1, CommitRows
    <2>2. mem[q] = disk[q]
      BY <1>1 DEF MapsFollowDisk
    <2>3. audit[q].to = StateOf(disk[q])
      BY <1>1 DEF AuditMatchesRow, StateOf
    <2> QED BY <2>1, <2>2, <2>3
  <1> QED BY <1>1, AuditEffect DEF Chained

\* Each audit row starts where the previous row of the request ended, when no
\* write fails between its commit and the installation of the maps (the error
\* of the permission step is what breaks the chain with Sqlite).
THEOREM AuditIsChained ==
    ASSUME Backend = "Json" \/ ~HardenMayFail
    PROVE  Spec => AuditChained
  <1>1. Init => MapsFollowDisk
    BY DEF Init, StoreInit, MapsFollowDisk
  <1>2. StoreTypeOK /\ MapsFollowDisk /\ [Next]_storeVars => MapsFollowDisk'
    BY ContractStep, HistoryStep
  <1>3. StoreTypeOK /\ AuditMatchesRow /\ MapsFollowDisk /\ [Next]_storeVars
           => \A r \in Requests : Chained(audit[r], audit'[r])
    BY ContractStep, AuditChainStep
  <1> QED BY <1>1, <1>2, <1>3, StoreTypeCorrect, AuditMatches, PTL DEF Spec, AuditChained
==============================================================================
