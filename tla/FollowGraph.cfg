\* Two requests on both sides together; both hosts are plain, or neither is.
SPECIFICATION Spec
CONSTANTS
  A = A
  B = B
  Servers = {A, B}
  MaxFollows = 2
  MaxOps = 2
  Ops <- AllOps
  Hostings <- Pairs
SYMMETRY Symmetry
INVARIANTS TypeOK BlockHolds CountersSettle SidesAgree
\* Everything may have been said.
CHECK_DEADLOCK FALSE
