\* Two processes, logins locked after three failures, two secrets, a fault.
SPECIFICATION Spec
CONSTANTS
  MaxAttempts = 3
  Secrets = {k1, k2}
  Names = {n1, n2}
  Procs = {q1, q2}
  MaxFaults = 1
  None = None
SYMMETRY Symmetry
INVARIANTS TypeOK GuessesBounded SetupIsWhole ActiveSecretIsProven ResetIsNotLost
