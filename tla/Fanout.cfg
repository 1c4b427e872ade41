\* Every kind of fan-out, over pages of two.
SPECIFICATION FairSpec
CONSTANTS
  a1 = a1
  a2 = a2
  a3 = a3
  d1 = d1
  d2 = d2
  j1 = j1
  m1 = m1
  m2 = m2
  Actors = {a1, a2, a3}
  Domains = {d1, d2}
  Jobs = {j1}
  DomainOf <- MCDomainOf
  Scenarios <- MCScenarios
  Initial <- MCInitial
  Mentioned = {m1, m2}
  ActorOf <- MCActorOf
  Target = {a1}
  PageSize = 2
  DeadThreshold = 2
  MaxAttempts = 2
  LostEnqueues = TRUE
  Refusing = {d1}
  Restless = {a1}
  MaxId = 4
INVARIANTS TypeOK EveryFollowerServed ServedOnce
PROPERTIES FanoutEnds
\* Everything may have been delivered.
CHECK_DEADLOCK FALSE
