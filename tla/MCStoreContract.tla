--------------------------- MODULE MCStoreContract ---------------------------
(* Small instance of StoreContract: two requests that may collide on client *)
(* and on broker ids, states before, during and after the order's life.     *)
EXTENDS StoreContract, TLC

CONSTANT MaxTs

MCWriteRecords ==
    {rec \in [state   : {"IntentRecorded", "Submitted", "Terminal"},
              client  : ClientIds,
              broker  : BrokerIds \cup {None},
              submits : {0}, cancels : {0}, err : {None},
              ts      : 0 .. MaxTs] :
        rec.state = "IntentRecorded" => rec.broker = None}

MCSymmetry ==
    Permutations(Requests) \cup Permutations(ClientIds) \cup Permutations(BrokerIds)
==============================================================================
