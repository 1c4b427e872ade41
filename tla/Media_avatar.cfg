\* A profile picture and the clean-up.
SPECIFICATION Spec
CONSTANTS
  Attachments = {f1}
  Images = {i1}
  PostIds = {p1}
  Procs = {q1, q2}
  MaxFaults = 0
  None = None
INVARIANT AvatarIsServed
