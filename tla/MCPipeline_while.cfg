\* Two loops with an if in them, dependences within blocks, between them and
\* round the loop, every partition into three closed threads, queues of one.
CONSTANTS
  top = top
  mid = mid
  low = low
  out = out
  Blocks = {top, mid, low}
  header = top
  exit = out
  MaxSuccs = 2
  Size = 3
  MaxData = 3
  MAX_THREAD = 3
  UsedAfter = {}
  Switches = {}
  Capacity = 1
  MaxPath = 6
  Flows <- both
  Deps <- someDeps
SPECIFICATION PipeFairSpec
CHECK_DEADLOCK FALSE
INVARIANTS
  WorkKept
  ValuesMatch
  SamePath
  Drained
PROPERTY
  PipelineEnds
