--------------------------- MODULE MCOrderLifecycle ---------------------------
(* Small instances of OrderLifecycle. *)
EXTENDS OrderLifecycle, TLC

MCSymmetry ==
    Permutations(Requests) \cup Permutations(ClientIds) \cup Permutations(BrokerIds)
==============================================================================
