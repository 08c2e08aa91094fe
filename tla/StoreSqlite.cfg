CONSTANTS
  Requests = {r1, r2}
  ClientIds = {c1, c2}
  BrokerIds = {b1, b2}
  None = None
  Backend = "Sqlite"
  HardenMayFail = FALSE
  MaxTs = 1
  WriteRecords <- MCWriteRecords
SPECIFICATION Spec
INVARIANTS StoreTypeOK IndexesAgree AuditMatchesRow
PROPERTIES DurableHistory AuditChained
