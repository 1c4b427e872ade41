\* A post that the reader has favourited is deleted.
SPECIFICATION Spec
CONSTANTS
  Author = Author
  Reader = Reader
  MaxOps = 2
  MaxEdits = 0
  Ops <- AllOps
PROPERTY DeleteDeletes
CHECK_DEADLOCK FALSE
