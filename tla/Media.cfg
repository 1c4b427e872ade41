\* An attachment and a profile picture, two posts, two processes, one fault.
SPECIFICATION Spec
CONSTANTS
  Attachments = {f1}
  Images = {i1}
  PostIds = {p1, p2}
  Procs = {q1, q2}
  MaxFaults = 1
  None = None
INVARIANTS TypeOK AttachedIsServed FilesAreAccounted
PROPERTIES OrphansGo
