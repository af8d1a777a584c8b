\* Every reducible loop of four blocks, without dependences besides those of
\* the branches and their conditions; two threads.
CONSTANTS
  Blocks = {h, a, b, c}
  header = h
  exit = e
  MaxSuccs = 2
  Size = 3
  MaxData = 0
  MAX_THREAD = 2
  UsedAfter = {}
  Switches = {}
SPECIFICATION SplitSpec
SYMMETRY Symmetry
CHECK_DEADLOCK FALSE
INVARIANTS
  NoneMissed
  IterationsMissNone
  NoneInvented
  SplitTypeOK
  OperandsArrive
  PathsKept
