CONSTANTS
  NumUses = 3
  MAX_THREAD = 4
  MaxCopies = 3
  MayFold = {}
SPECIFICATION Spec
CHECK_DEADLOCK FALSE
INVARIANTS
  AllReplaced
  ThreadsApart
  OwnInProgramOrder
