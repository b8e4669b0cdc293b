SPECIFICATION FairGatewaySpec
CONSTANTS
  j1 = j1
  j2 = j2
  p1 = p1
  p2 = p2
  Jobs = {j1}
  Printers = {p1}
  PrinterOf <- OnePrinter
  Handlers = {h1}
  Pushers = {w1}
  Idle = Idle
  MaxDelivery = 2
  MaxRetries = 1
  MaxInFlight = 1
  MaxBatch = 2
INVARIANTS GatewayTypeOK QueuedIsClean OneLiveAttempt ClaimBudget
PROPERTIES EvidencedJobIsNotRedelivered NewestAttemptReports EveryJobEnds
