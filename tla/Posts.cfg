\* Two requests of any kind on either side.
SPECIFICATION Spec
CONSTANTS
  Author = Author
  Reader = Reader
  MaxOps = 2
  MaxEdits = 1
  Ops <- AllOps
INVARIANTS TypeOK OwnPostsSettle PinnedIsServed NoticesAreFounded CopySettles InteractionsSettle MentionIsTold
\* Everything may have been said.
CHECK_DEADLOCK FALSE
