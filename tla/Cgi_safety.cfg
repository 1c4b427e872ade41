\* Two jobs, slow handlers, a kill or a lifetime that ends in a recovery.
SPECIFICATION CgiSpec
CONSTANTS
  j1 = j1
  j2 = j2
  p1 = p1
  p2 = p2
  d1 = d1
  r1 = r1
  r2 = r2
  NoDomain = NoDomain
  NoProc = NoProc
  Jobs = {j1, j2}
  Domains = {}
  DomainOf <- MCNoDomains
  MaxAttempts = 2
  StaleAfter = 1
  Procs = {p1, p2}
  Daemons = {}
  Requests = {r1}
  Cron = FALSE
  Ticks = FALSE
  Concurrency = 1
  BatchLimit = 1
  PanicDelay = 1
  UnknownType = {}
  DeadThreshold = 1
  TimelyHandlers = FALSE
  Faults = {"crash", "hangUp"}
  MaxDisturbances = 1
SYMMETRY ProcSymmetry
INVARIANTS CgiTypeOK OneBatch RecoveryHitsOrphans
