CONSTANTS
  top = top
  mid = mid
  low = low
  out = out
  Blocks = {top, mid, low}
  header = top
  exit = out
  MaxSuccs = 2
  Size = 3
  MaxData = 3
  MAX_THREAD = 2
  UsedAfter = {}
  Switches = {}
  Capacity = 1
  MaxPath = 6
  Flows <- whileOnly
  Deps <- intoBranch
SPECIFICATION PipeSpec
CHECK_DEADLOCK FALSE
INVARIANT
  AllValuesMatch
