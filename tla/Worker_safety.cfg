\* A daemon and a batch process, a known job of a domain that can be blocked and
\* one of an unknown type; a crash or a lost write, handlers that end in time.
SPECIFICATION Spec
CONSTANTS
  j1 = j1
  j2 = j2
  p1 = p1
  p2 = p2
  d1 = d1
  NoDomain = NoDomain
  Jobs = {j1, j2}
  Domains = {d1}
  DomainOf <- MCDomainOf
  MaxAttempts = 2
  StaleAfter = 1
  Procs = {p1, p2}
  Daemons = {p1}
  Concurrency = 1
  BatchLimit = 2
  PanicDelay = 1
  UnknownType = {j2}
  DeadThreshold = 1
  TimelyHandlers = TRUE
  Faults = {"crash", "hangUp", "lostWrite"}
  MaxDisturbances = 1
INVARIANTS SoleExecutor AttemptsCapped DoneMeansSent
PROPERTIES SettledIsFinal ImplementsLifecycle
