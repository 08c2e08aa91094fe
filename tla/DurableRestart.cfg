CONSTANTS
  None = None
  Poison = Poison
  r1 = r1
  r2 = r2
  Requests = {r1, r2}
  Commands <- MCCommands
  Streams <- MCStreams
  Starts <- MCStarts
  ReadCount = 2
  ClaimCount = 2
  MaxClaimPages = 2
SPECIFICATION FairSpec
INVARIANTS TypeOK AcceptedIsSealed SealIsPrefix RejectedIsVetoed EffectIsBound
PROPERTIES KeepsPromise FrontIsPaid
CHECK_DEADLOCK FALSE
