CONSTANTS
  Requests = {r1}
  ClientIds = {c1}
  BrokerIds = {b1}
  None = None
  Backend = "Sqlite"
  HardenMayFail = FALSE
  MaxClock = 1
  MaxPendingAge = 5
SPECIFICATION Spec
INVARIANTS CancelDecisionsPersist
