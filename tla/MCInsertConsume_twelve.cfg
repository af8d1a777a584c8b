CONSTANTS
  NumUses = 1
  MAX_THREAD = 12
  MaxCopies = 2
  MayFold = {}
SPECIFICATION Spec
CHECK_DEADLOCK FALSE
INVARIANT
  ThreadsApart
