CONSTANTS
  None = None
  Poison = Poison
  r1 = r1
  r2 = r2
  Requests = {r1, r2}
  Commands <- MCCommands
  Streams <- OwedStreams
  Starts <- OwedStarts
  ReadCount = 2
  ClaimCount = 2
  MaxClaimPages = 2
SPECIFICATION FairSpec
PROPERTIES OwedIsPaid
CHECK_DEADLOCK FALSE
