\* One job, a daemon and a batch process, every fault, slow
\* handlers.
SPECIFICATION Spec
CONSTANTS
  j1 = j1
  j2 = j2
  p1 = p1
  p2 = p2
  d1 = d1
  NoDomain = NoDomain
  Jobs = {j1}
  Domains = {}
  DomainOf <- MCNoDomains
  MaxAttempts = 2
  StaleAfter = 1
  Procs = {p1, p2}
  Daemons = {p1}
  Concurrency = 1
  BatchLimit = 1
  PanicDelay = 1
  UnknownType = {}
  DeadThreshold = 1
  TimelyHandlers = FALSE
  Faults = {"crash", "panic", "retry", "dismiss", "lostWrite", "lostRecovery"}
  MaxDisturbances = 2
INVARIANTS TypeOK ClaimsUnique DeadMeansExhausted
