SPECIFICATION FairSpec
CHECK_DEADLOCK FALSE
CONSTANTS
  a1 = a1
  a2 = a2
  p1 = p1
  p2 = p2
  d1 = d1
  d2 = d2
  d3 = d3
  StaleAfter = 90
  Agents = {a1, a2}
  Printers = {p1, p2}
  OwnerOf <- Owners
  Describe <- Declared
  Languages <- Contents
  Documents = {d1, d2, d3}
  Keys = {1, 2}
  NoKey = 0
  ReadOnly = {}
  Allowed <- Permitted
  MaxJobs = 3
  MaxQueued = 1
  MaxInFlight = 1
  MaxConcurrent = 2
  TenantPerMinute = 3
  KeyPerMinute = 2
  KeyPerHour = 3
  Clerks = {1, 2}
  NoClerk = 0
  Idle = Idle
  Web = {w1}
  Cron = {cron}
  MaxAttempts = 2
  BackupOf <- Backups
  NoPrinter = NoPrinter
  MaxOps = 2
  MaxFaults = 1
  Prints = {1, 2, 3, 4}
  KindOf <- Kinds
  PrinterFor <- ToP1
  DocumentFor <- Tickets
  NoPrint = NoPrint
  MaxTries = 2
  MaxSwitches = 1
  ConsoleJobs = {j1, j2}
  NoJob = NoJob
  Filters = {AllJobs, f1}
  AllJobs = AllJobs
  MaxClock = 4
  ClockTick = 60
  MaxRequests = 2
  MaxChoices = 3
  Bodies = {r1, r2}
  MaxLength = 2
  Capacity = 3
  Pids = {1, 2}
  NoPid = 0
  Threads = {t1, t2}
  MaxReads = 1
  Workloads <- DeskWorkloads
INVARIANTS TypeOK LiveJobsBounded AnswersAgree UnprintedIsSafe OneWayOut BodiesFitTheBudget AgentIsOwned
PROPERTIES OutboxSettles LostAgentLooksLost ConsoleCatchesUp
