------------------------- MODULE OrderPathStoreProofs -------------------------
(***************************************************************************)
(* What the operations of the order-path store do, as lemmas for every     *)
(* specification that uses them: the effect of a write on the maps and on  *)
(* the disk, the types they keep, and that the lookup maps go on saying    *)
(* what the records say.                                                   *)
(***************************************************************************)
EXTENDS OrderPathStore, TLAPS

\* What a write of either kind does to the maps and to the disk.
LEMMA InsertEffect ==
    ASSUME NEW r \in Requests, NEW rec \in Record,
           NEW w \in {"ok", "fail", "late"}, InsertIntent(r, rec, w)
    PROVE  /\ up /\ up' = up /\ lock' = lock
           /\ InsertOk(r, rec)
           /\ InnerInsert(r, rec) \/ UNCHANGED innerVars
           /\ \/ UNCHANGED <<disk, audit>>
              \/ Backend = "Sqlite" /\ disk[r] = None /\ Commit(r, rec)
              \/ Backend = "Json" /\ Persist /\ InnerInsert(r, rec)
  BY DEF InsertIntent, Write

LEMMA UpdateEffect ==
    ASSUME NEW r \in Requests, NEW rec \in Record,
           NEW w \in {"ok", "fail", "late"}, UpdateRecord(r, rec, w)
    PROVE  /\ up /\ up' = up /\ lock' = lock
           /\ UpdateOk(r, rec)
           /\ InnerUpdate(r, rec) \/ UNCHANGED innerVars
           /\ \/ UNCHANGED <<disk, audit>>
              \/ Backend = "Sqlite" /\ disk[r] # None /\ Commit(r, rec)
              \/ Backend = "Json" /\ Persist /\ InnerUpdate(r, rec)
  BY DEF UpdateRecord, Write

\* A record is never the None of a missing one.
LEMMA RecordIsNotNone == \A rec \in Record : rec # None
  BY NoneAssumption

------------------------------------------------------------------------------
(* Types *)

\* Inserting or updating keeps the types of the maps, whichever record of
\* WriteRecords is written.
LEMMA InnerInsertType ==
    ASSUME StoreTypeOK, NEW r \in Requests, NEW rec \in Record, InnerInsert(r, rec)
    PROVE  /\ mem' \in [Requests -> Record \cup {None}]
           /\ byClient' \in [ClientIds -> Requests \cup {None}]
           /\ byBroker' \in [BrokerIds -> Requests \cup {None}]
  <1> USE DEF StoreTypeOK, InnerInsert
  <1>1. mem' \in [Requests -> Record \cup {None}]
    OBVIOUS
  <1>2. byClient' \in [ClientIds -> Requests \cup {None}]
    OBVIOUS
  <1>3. byBroker' \in [BrokerIds -> Requests \cup {None}]
    BY DEF BrokerIndexed
  <1> QED BY <1>1, <1>2, <1>3

LEMMA InnerUpdateType ==
    ASSUME StoreTypeOK, NEW r \in Requests, NEW rec \in Record, InnerUpdate(r, rec)
    PROVE  /\ mem' \in [Requests -> Record \cup {None}]
           /\ byClient' \in [ClientIds -> Requests \cup {None}]
           /\ byBroker' \in [BrokerIds -> Requests \cup {None}]
  BY DEF StoreTypeOK, InnerUpdate, BrokerIndexed

LEMMA CommitType ==
    ASSUME StoreTypeOK, NEW r \in Requests, NEW rec \in Record, Commit(r, rec)
    PROVE  /\ disk' \in [Requests -> Record \cup {None}]
           /\ audit' \in [Requests -> [from : States \cup {None}, to : States \cup {None}]]
  <1>1. disk' \in [Requests -> Record \cup {None}]
    BY DEF StoreTypeOK, Commit
  <1>2. rec.state \in States
    BY DEF Record
  <1>3. (IF mem[r] = None THEN None ELSE mem[r].state) \in States \cup {None}
    <2>1. mem[r] \in Record \cup {None}
      BY DEF StoreTypeOK
    <2> QED BY <2>1 DEF Record
  <1>4. audit' \in [Requests -> [from : States \cup {None}, to : States \cup {None}]]
    BY <1>2, <1>3 DEF StoreTypeOK, Commit
  <1> QED BY <1>1, <1>4

LEMMA LoadType ==
    ASSUME StoreTypeOK, Load
    PROVE  /\ mem' \in [Requests -> Record \cup {None}]
           /\ byClient' \in [ClientIds -> Requests \cup {None}]
           /\ byBroker' \in [BrokerIds -> Requests \cup {None}]
  BY DEF StoreTypeOK, Load

\* Whatever an insert_intent or update_record does, the types stay.
LEMMA InsertType ==
    ASSUME StoreTypeOK, NEW r \in Requests, NEW rec \in Record,
           NEW w \in {"ok", "fail", "late"}, InsertIntent(r, rec, w)
    PROVE  StoreTypeOK'
  <1>1. /\ mem' \in [Requests -> Record \cup {None}]
        /\ byClient' \in [ClientIds -> Requests \cup {None}]
        /\ byBroker' \in [BrokerIds -> Requests \cup {None}]
    BY InsertEffect, InnerInsertType DEF StoreTypeOK, innerVars
  <1>2. /\ disk' \in [Requests -> Record \cup {None}]
        /\ audit' \in [Requests -> [from : States \cup {None}, to : States \cup {None}]]
    BY <1>1, InsertEffect, CommitType DEF StoreTypeOK, Persist
  <1> QED BY <1>1, <1>2, InsertEffect DEF StoreTypeOK

LEMMA UpdateType ==
    ASSUME StoreTypeOK, NEW r \in Requests, NEW rec \in Record,
           NEW w \in {"ok", "fail", "late"}, UpdateRecord(r, rec, w)
    PROVE  StoreTypeOK'
  <1>1. /\ mem' \in [Requests -> Record \cup {None}]
        /\ byClient' \in [ClientIds -> Requests \cup {None}]
        /\ byBroker' \in [BrokerIds -> Requests \cup {None}]
    BY UpdateEffect, InnerUpdateType DEF StoreTypeOK, innerVars
  <1>2. /\ disk' \in [Requests -> Record \cup {None}]
        /\ audit' \in [Requests -> [from : States \cup {None}, to : States \cup {None}]]
    BY <1>1, UpdateEffect, CommitType DEF StoreTypeOK, Persist
  <1> QED BY <1>1, <1>2, UpdateEffect DEF StoreTypeOK

\* So do opening, closing, crashing and removing a stale lock.
LEMMA SessionType ==
    ASSUME StoreTypeOK,
           OpenStore \/ CloseStore \/ CrashStore \/ ClearStaleLock \/ UNCHANGED storeVars
    PROVE  StoreTypeOK'
  <1>1. CASE OpenStore
    BY <1>1, LoadType DEF StoreTypeOK, OpenStore
  <1>2. CASE CloseStore \/ CrashStore
    BY <1>2 DEF StoreTypeOK, CloseStore, CrashStore, Forget, NoRecords
  <1>3. CASE ClearStaleLock
    BY <1>3 DEF StoreTypeOK, ClearStaleLock, innerVars
  <1>4. CASE UNCHANGED storeVars
    BY <1>4 DEF StoreTypeOK, storeVars
  <1> QED BY <1>1, <1>2, <1>3, <1>4

\* An empty store is well typed.
LEMMA InitType == StoreInit => StoreTypeOK
  <1>1. NoAudit \in [from : States \cup {None}, to : States \cup {None}]
    BY DEF NoAudit
  <1> HIDE DEF NoAudit
  <1> QED BY <1>1 DEF StoreInit, StoreTypeOK, NoRecords

------------------------------------------------------------------------------
(* The lookup maps *)

ClientsAgree ==
    \A c \in ClientIds, r \in Requests :
        (byClient[c] = r) <=> (mem[r] # None /\ mem[r].client = c)

BrokersAgree ==
    \A b \in BrokerIds, r \in Requests :
        (byBroker[b] = r) <=> (mem[r] # None /\ mem[r].broker = b)

LEMMA InsertIndexes ==
    ASSUME StoreTypeOK, ClientsAgree, BrokersAgree,
           NEW r \in Requests, NEW rec \in Record,
           InsertOk(r, rec), InnerInsert(r, rec)
    PROVE  ClientsAgree' /\ BrokersAgree'
  <1>1. rec.client \in ClientIds /\ rec.broker \in BrokerIds \cup {None} /\ rec # None
    BY RecordIsNotNone DEF Record
  <1>2. ASSUME NEW q \in Requests
        PROVE  mem'[q] = IF q = r THEN rec ELSE mem[q]
    BY <1>2 DEF InnerInsert, StoreTypeOK
  <1>3. ClientsAgree'
    <2>1. ASSUME NEW c \in ClientIds, NEW q \in Requests
          PROVE  (byClient'[c] = q) <=> (mem'[q] # None /\ mem'[q].client = c)
      <3>1. byClient'[c] = IF c = rec.client THEN r ELSE byClient[c]
        BY <1>1 DEF InnerInsert, StoreTypeOK
      <3>2. byClient[rec.client] = None /\ mem[r] = None /\ None \notin Requests
        BY NoneAssumption DEF InsertOk
      <3> QED BY <1>1, <1>2, <3>1, <3>2 DEF ClientsAgree
    <2> QED BY <2>1 DEF ClientsAgree
  <1>4. BrokersAgree'
    <2>1. ASSUME NEW b \in BrokerIds, NEW q \in Requests
          PROVE  (byBroker'[b] = q) <=> (mem'[q] # None /\ mem'[q].broker = b)
      <3>1. byBroker'[b] = IF b = rec.broker THEN r ELSE byBroker[b]
        BY <1>1, NoneAssumption DEF InnerInsert, BrokerIndexed, StoreTypeOK
      <3>2. /\ rec.broker # None => byBroker[rec.broker] = None
            /\ mem[r] = None
            /\ None \notin Requests /\ b # None
        BY NoneAssumption DEF InsertOk
      <3> QED BY <1>1, <1>2, <3>1, <3>2 DEF BrokersAgree
    <2> QED BY <2>1 DEF BrokersAgree
  <1> QED BY <1>3, <1>4

LEMMA UpdateIndexes ==
    ASSUME StoreTypeOK, ClientsAgree, BrokersAgree,
           NEW r \in Requests, NEW rec \in Record,
           UpdateOk(r, rec), InnerUpdate(r, rec)
    PROVE  ClientsAgree' /\ BrokersAgree'
  <1>1. rec.client \in ClientIds /\ rec.broker \in BrokerIds \cup {None} /\ rec # None
    BY RecordIsNotNone DEF Record
  <1>2. ASSUME NEW q \in Requests
        PROVE  mem'[q] = IF q = r THEN rec ELSE mem[q]
    BY <1>2 DEF InnerUpdate, StoreTypeOK
  <1>3. mem[r] # None /\ rec.client = mem[r].client
    BY DEF UpdateOk
  <1>4. ClientsAgree'
    BY <1>1, <1>2, <1>3 DEF ClientsAgree, InnerUpdate
  <1>5. BrokersAgree'
    <2>1. ASSUME NEW b \in BrokerIds, NEW q \in Requests
          PROVE  (byBroker'[b] = q) <=> (mem'[q] # None /\ mem'[q].broker = b)
      <3>1. CASE mem[r].broker = None
        <4>1. byBroker'[b] = IF b = rec.broker THEN r ELSE byBroker[b]
          BY <1>1, <3>1, NoneAssumption DEF InnerUpdate, BrokerIndexed, StoreTypeOK
        <4>2. /\ rec.broker # None => byBroker[rec.broker] \in {None, r}
              /\ None \notin Requests /\ b # None
          BY <3>1, NoneAssumption DEF UpdateOk
        <4> QED BY <1>1, <1>2, <1>3, <3>1, <4>1, <4>2 DEF BrokersAgree
      <3>2. CASE mem[r].broker # None
        <4>1. byBroker' = byBroker /\ rec.broker = mem[r].broker
          BY <3>2 DEF InnerUpdate, UpdateOk
        <4> QED BY <1>1, <1>2, <1>3, <4>1 DEF BrokersAgree
      <3> QED BY <3>1, <3>2
    <2> QED BY <2>1 DEF BrokersAgree
  <1> QED BY <1>4, <1>5

\* Open rebuilds the maps: with unique ids on disk each id has one owner.
LEMMA LoadIndexes ==
    ASSUME StoreTypeOK, Load
    PROVE  ClientsAgree' /\ BrokersAgree'
  <1>1. mem' = disk /\ Loadable
    BY DEF Load
  <1>2. ClientsAgree'
    <2>1. ASSUME NEW c \in ClientIds, NEW r \in Requests
          PROVE  (byClient'[c] = r) <=> (disk[r] # None /\ disk[r].client = c)
      <3> DEFINE Owns(q) == disk[q] # None /\ disk[q].client = c
      <3>1. byClient'[c] = IF \E q \in Requests : Owns(q)
                           THEN CHOOSE q \in Requests : Owns(q) ELSE None
        BY DEF Load
      <3>2. \A p, q \in Requests : Owns(p) /\ Owns(q) => p = q
        BY <1>1 DEF Loadable
      <3> HIDE DEF Owns
      <3>3. (byClient'[c] = r) <=> Owns(r)
        BY <3>1, <3>2, NoneAssumption
      <3> QED BY <3>3 DEF Owns
    <2> QED BY <1>1, <2>1 DEF ClientsAgree
  <1>3. BrokersAgree'
    <2>1. ASSUME NEW b \in BrokerIds, NEW r \in Requests
          PROVE  (byBroker'[b] = r) <=> (disk[r] # None /\ disk[r].broker = b)
      <3> DEFINE Owns(q) == disk[q] # None /\ disk[q].broker = b
      <3>1. byBroker'[b] = IF \E q \in Requests : Owns(q)
                           THEN CHOOSE q \in Requests : Owns(q) ELSE None
        BY DEF Load
      <3>2. \A p, q \in Requests : Owns(p) /\ Owns(q) => p = q
        BY <1>1, NoneAssumption DEF Loadable
      <3> HIDE DEF Owns
      <3>3. (byBroker'[b] = r) <=> Owns(r)
        BY <3>1, <3>2, NoneAssumption
      <3> QED BY <3>3 DEF Owns
    <2> QED BY <1>1, <2>1 DEF BrokersAgree
  <1> QED BY <1>2, <1>3

------------------------------------------------------------------------------
(* Steps *)

\* Whatever its caller does, a step of the store is a write of some record, the
\* beginning or the end of a session, or none of its business.
StoreStep ==
    \/ \E r \in Requests, rec \in Record, w \in {"ok", "fail", "late"} :
          InsertIntent(r, rec, w) \/ UpdateRecord(r, rec, w)
    \/ OpenStore \/ CloseStore \/ CrashStore \/ ClearStaleLock
    \/ UNCHANGED storeVars

LEMMA TypeStep ==
    ASSUME StoreTypeOK, StoreStep
    PROVE  StoreTypeOK'
  BY InsertType, UpdateType, SessionType DEF StoreStep

\* The lookup maps of an open store say what its records say.
MapsAgree == up => ClientsAgree /\ BrokersAgree

LEMMA MapsAgreeStep ==
    ASSUME StoreTypeOK, MapsAgree, StoreStep
    PROVE  MapsAgree'
  <1>1. CASE \E r \in Requests, rec \in Record, w \in {"ok", "fail", "late"} :
             InsertIntent(r, rec, w)
    <2>1. PICK r \in Requests, rec \in Record, w \in {"ok", "fail", "late"} :
             InsertIntent(r, rec, w)
      BY <1>1
    <2>2. ClientsAgree /\ BrokersAgree
      BY <2>1, InsertEffect DEF MapsAgree
    <2>3. CASE InnerInsert(r, rec)
      BY <2>1, <2>2, <2>3, InsertEffect, InsertIndexes DEF MapsAgree
    <2>4. CASE UNCHANGED innerVars
      BY <2>2, <2>4 DEF innerVars, MapsAgree, ClientsAgree, BrokersAgree
    <2> QED BY <2>1, <2>3, <2>4, InsertEffect
  <1>2. CASE \E r \in Requests, rec \in Record, w \in {"ok", "fail", "late"} :
             UpdateRecord(r, rec, w)
    <2>1. PICK r \in Requests, rec \in Record, w \in {"ok", "fail", "late"} :
             UpdateRecord(r, rec, w)
      BY <1>2
    <2>2. ClientsAgree /\ BrokersAgree
      BY <2>1, UpdateEffect DEF MapsAgree
    <2>3. CASE InnerUpdate(r, rec)
      BY <2>1, <2>2, <2>3, UpdateEffect, UpdateIndexes DEF MapsAgree
    <2>4. CASE UNCHANGED innerVars
      BY <2>2, <2>4 DEF innerVars, MapsAgree, ClientsAgree, BrokersAgree
    <2> QED BY <2>1, <2>3, <2>4, UpdateEffect
  <1>3. CASE OpenStore
    BY <1>3, LoadIndexes DEF OpenStore, MapsAgree
  <1>4. CASE CloseStore \/ CrashStore
    BY <1>4 DEF MapsAgree, CloseStore, CrashStore, Forget
  <1>5. CASE ClearStaleLock
    BY <1>5 DEF MapsAgree, ClientsAgree, BrokersAgree, ClearStaleLock
  <1>6. CASE UNCHANGED storeVars
    BY <1>6 DEF MapsAgree, ClientsAgree, BrokersAgree, storeVars
  <1> QED BY <1>1, <1>2, <1>3, <1>4, <1>5, <1>6 DEF StoreStep

------------------------------------------------------------------------------
(* Unique ids on disk *)

LEMMA UniqueStep ==
    ASSUME StoreTypeOK, MapsAgree, Loadable, StoreStep
    PROVE  Loadable'
  <1>1. ASSUME disk' = disk PROVE Loadable'
    BY <1>1 DEF Loadable
  <1>2. ASSUME NEW r \in Requests, NEW rec \in Record, Commit(r, rec)
        PROVE  Loadable'
    <2>1. \A q \in Requests : disk'[q] = IF q = r THEN rec ELSE disk[q]
      BY <1>2 DEF Commit, StoreTypeOK
    <2>2. RowUnique(r, rec)
      BY <1>2 DEF Commit
    <2> QED BY <2>1, <2>2 DEF RowUnique, Loadable
  <1>3. ASSUME up', disk' = mem', StoreTypeOK', MapsAgree' PROVE Loadable'
    <2>1. \A q \in Requests : mem'[q] # None =>
              mem'[q].client \in ClientIds /\ mem'[q].broker \in BrokerIds \cup {None}
      BY <1>3 DEF StoreTypeOK, Record
    <2> QED BY <1>3, <2>1 DEF MapsAgree, ClientsAgree, BrokersAgree, Loadable
  <1>4. StoreTypeOK' /\ MapsAgree'
    BY TypeStep, MapsAgreeStep
  <1>5. CASE \E r \in Requests, rec \in Record, w \in {"ok", "fail", "late"} :
             InsertIntent(r, rec, w)
    BY <1>1, <1>2, <1>3, <1>4, <1>5, InsertEffect DEF Persist
  <1>6. CASE \E r \in Requests, rec \in Record, w \in {"ok", "fail", "late"} :
             UpdateRecord(r, rec, w)
    BY <1>1, <1>2, <1>3, <1>4, <1>6, UpdateEffect DEF Persist
  <1>7. CASE OpenStore \/ CloseStore \/ CrashStore \/ ClearStaleLock
    BY <1>1, <1>7 DEF OpenStore, CloseStore, CrashStore, Forget, ClearStaleLock
  <1>8. CASE UNCHANGED storeVars
    BY <1>1, <1>8 DEF storeVars
  <1> QED BY <1>5, <1>6, <1>7, <1>8 DEF StoreStep

------------------------------------------------------------------------------
(* The history on disk *)

\* The maps hold what is on disk (Sqlite) or a later version of it (Json).
MapsFollowDisk ==
    up => /\ \A r \in Requests : MayFollow(disk[r], mem[r])
          /\ Backend = "Sqlite" => mem = disk

LEMMA MayFollowReflexive ==
    \A a \in Record \cup {None} : MayFollow(a, a)
  BY DEF MayFollow, Record

LEMMA MayFollowTransitive ==
    ASSUME NEW a \in Record \cup {None}, NEW b \in Record \cup {None},
           NEW c \in Record \cup {None}, MayFollow(a, b), MayFollow(b, c)
    PROVE  MayFollow(a, c)
  BY DEF MayFollow, Record

\* The checks of insert_intent and update_record are what MayFollow says.
LEMMA ChecksGiveMayFollow ==
    ASSUME NEW r \in Requests, NEW rec \in Record,
           InsertOk(r, rec) \/ UpdateOk(r, rec)
    PROVE  MayFollow(mem[r], rec)
  BY RecordIsNotNone DEF InsertOk, UpdateOk, MayFollow

\* One step of a store whose writes do not fail after the commit: the maps keep
\* following the disk, and the new disk follows the old.
LEMMA HistoryStep ==
    ASSUME Backend = "Json" \/ ~HardenMayFail,
           StoreTypeOK, MapsFollowDisk, StoreStep
    PROVE  /\ MapsFollowDisk'
           /\ \A r \in Requests : MayFollow(disk[r], disk'[r])
  <1>1. StoreTypeOK'
    BY TypeStep
  <1>2. \A r \in Requests : /\ disk[r] \in Record \cup {None}
                            /\ mem[r] \in Record \cup {None}
                            /\ disk'[r] \in Record \cup {None}
                            /\ mem'[r] \in Record \cup {None}
    BY <1>1 DEF StoreTypeOK
  <1>3. ASSUME NEW r \in Requests, NEW rec \in Record, up, up',
               MayFollow(mem[r], rec),
               \/ mem' = [mem EXCEPT ![r] = rec] /\ disk' = [disk EXCEPT ![r] = rec]
               \/ Backend = "Json" /\ mem' = [mem EXCEPT ![r] = rec] /\ disk' = mem'
               \/ Backend = "Json" /\ mem' = [mem EXCEPT ![r] = rec] /\ disk' = disk
               \/ mem' = mem /\ disk' = disk
        PROVE  /\ MapsFollowDisk'
               /\ \A q \in Requests : MayFollow(disk[q], disk'[q])
    <2>1. \A q \in Requests : MayFollow(disk[q], mem[q])
      BY <1>3 DEF MapsFollowDisk
    <2>2. \A q \in Requests : /\ MayFollow(mem[q], mem'[q])
                              /\ disk'[q] \in {disk[q], mem'[q]}
      BY <1>2, <1>3, MayFollowReflexive DEF StoreTypeOK
    <2>3. \A q \in Requests : MayFollow(disk[q], mem'[q])
      BY <1>2, <2>1, <2>2, MayFollowTransitive
    <2>4. \A q \in Requests : MayFollow(disk[q], disk'[q]) /\ MayFollow(disk'[q], mem'[q])
      BY <1>2, <2>2, <2>3, MayFollowReflexive
    <2>5. Backend = "Sqlite" => mem' = disk'
      BY <1>3 DEF MapsFollowDisk, StoreTypeOK
    <2> QED BY <2>4, <2>5 DEF MapsFollowDisk
  <1>4. CASE \E r \in Requests, rec \in Record, w \in {"ok", "fail", "late"} :
             InsertIntent(r, rec, w)
    <2>1. PICK r \in Requests, rec \in Record, w \in {"ok", "fail", "late"} :
             InsertIntent(r, rec, w)
      BY <1>4
    <2>2. MayFollow(mem[r], rec) /\ up /\ up' /\ rec \in Record
      BY <2>1, InsertEffect, ChecksGiveMayFollow
    <2> QED BY <1>3, <2>1, <2>2 DEF InsertIntent, Write, Commit, Persist, InnerInsert, innerVars
  <1>5. CASE \E r \in Requests, rec \in Record, w \in {"ok", "fail", "late"} :
             UpdateRecord(r, rec, w)
    <2>1. PICK r \in Requests, rec \in Record, w \in {"ok", "fail", "late"} :
             UpdateRecord(r, rec, w)
      BY <1>5
    <2>2. MayFollow(mem[r], rec) /\ up /\ up' /\ rec \in Record
      BY <2>1, UpdateEffect, ChecksGiveMayFollow
    <2> QED BY <1>3, <2>1, <2>2 DEF UpdateRecord, Write, Commit, Persist, InnerUpdate, innerVars
  <1>6. CASE OpenStore
    BY <1>2, <1>6, MayFollowReflexive DEF OpenStore, Load, MapsFollowDisk
  <1>7. CASE CloseStore \/ CrashStore \/ ClearStaleLock
    BY <1>2, <1>7, MayFollowReflexive
       DEF CloseStore, CrashStore, Forget, ClearStaleLock, MapsFollowDisk
  <1>8. CASE UNCHANGED storeVars
    BY <1>2, <1>8, MayFollowReflexive DEF storeVars, MapsFollowDisk
  <1> QED BY <1>4, <1>5, <1>6, <1>7, <1>8 DEF StoreStep

==============================================================================
