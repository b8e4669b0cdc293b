SPECIFICATION FairSpec
CONSTANTS
  a1 = a1
  a2 = a2
  p1 = p1
  Agents = {a1, a2}
  Printers = {p1, p2}
  Workers = {w1, w2}
  Clients = {c1, c2}
  NoClient = NoClient
  SocketIds = {s1, s2, s3}
  MaxAgentSockets = 1
  BucketCapacity = 1
  MaxRefills = 2
  AccountKey = AccountKey
  AddressKey = AddressKey
  PairingKey = PairingKey
  UpgradeKey = UpgradeKey
  Step = 1
  LockFor <- Locks
  Window = 2
  WsMaxFailures = 2
  WsLock = 2
  MaxNow = 3
  MaxFailures = 3
  MaxAgents = 1
  MaxPrinters = 2
  MaxMint = 2
  NoPrinter = NoPrinter
  Sessions = {r1}
  d1 = d1
  d2 = d2
  Devices = {d1, d2}
  Endpoints = {e1}
  EndpointOf <- Addresses
  Transports = {d1, d2}
  NoEndpoint = NoEndpoint
  NoDevice = NoDevice
  NoSession = NoSession
  Unlocked = Unlocked
  Users = {u1}
  Legacy = Legacy
  Tokens = {t1, t2}
  SessionLife = 2
  NoUser = NoUser
  Workloads <- AllWorkloads
INVARIANTS TypeOK CredentialsOnlyWhenActive OneSecretPerCode OpenSocketIsReachable
INVARIANTS BudgetSurvivesReconnect NoLeakedClient EveryFailureCounts OnePrinterPerDevice AuthorityIsCurrent
PROPERTIES LockoutHolds PrintersKeepTheirOwner ListenerRecovers DeadSocketIsReaped
CHECK_DEADLOCK FALSE
