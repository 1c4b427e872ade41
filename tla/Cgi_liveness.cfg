\* One job, requests and a cron job that keep coming, ticks, kills, lost writes and
\* batches that hang up; one worker process at a time.
SPECIFICATION CgiFairSpec
CONSTANTS
  j1 = j1
  j2 = j2
  p1 = p1
  p2 = p2
  d1 = d1
  r1 = r1
  r2 = r2
  NoDomain = NoDomain
  NoProc = NoProc
  Jobs = {j1}
  Domains = {}
  DomainOf <- MCNoDomains
  MaxAttempts = 2
  StaleAfter = 1
  Procs = {p1}
  Daemons = {}
  Requests = {r1}
  Cron = TRUE
  Ticks = TRUE
  Concurrency = 1
  BatchLimit = 2
  PanicDelay = 1
  UnknownType = {}
  DeadThreshold = 1
  TimelyHandlers = FALSE
  Faults = {"crash", "lostWrite", "hangUp"}
  MaxDisturbances = 2
PROPERTIES EventuallySettled
