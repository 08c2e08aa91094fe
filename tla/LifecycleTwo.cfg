CONSTANTS
  Requests = {r1, r2}
  ClientIds = {c1, c2}
  BrokerIds = {b1, b2}
  None = None
  Backend = "Sqlite"
  HardenMayFail = TRUE
  MaxClock = 0
  MaxPendingAge = 0
SPECIFICATION Spec
SYMMETRY MCSymmetry
INVARIANTS AtMostOneSubmission SentIsDurable DeadMeansDead BrokerIdTrue CancelRecoveryHadCancel DurableIdsUnique
