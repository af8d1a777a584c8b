CONSTANTS
  Blocks = {h, a, b}
  header = h
  exit = e
  MaxSuccs = 2
  Size = 2
  MaxData = 0
  MAX_THREAD = 2
  UsedAfter = {}
  Switches = {a}
SPECIFICATION SplitSpec
CHECK_DEADLOCK FALSE
INVARIANT
  BlocksEnd
