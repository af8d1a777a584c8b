CONSTANTS
  Blocks = {h, a, b, c}
  header = h
  exit = e
  MaxSuccs = 2
  Size = 2
  MaxData = 0
  MAX_THREAD = 2
  UsedAfter = {}
  Switches = {}
SPECIFICATION SplitSpec
SYMMETRY Symmetry
CHECK_DEADLOCK FALSE
INVARIANT
  PhisAgree
