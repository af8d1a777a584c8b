\* Every graph on four instructions, dealt out to three threads.
SPECIFICATION LoopFairSpec
CONSTANTS
    NumInsts = 4
    PDGs <- mc_graphs
    MAX_THREAD = 3
    MaxNodes = 4
    Latencies <- mc_latencies
    InstLatencies <- mc_instlat
INVARIANTS
  SCCTypeOK
  SccCorrect
  PartsAgree
  DagComplete
  DagAscends
  FalseEdgesFromFirst
  Upwards
  AllAssigned
  EmptyLast
  FairShares
  DependencesGoUpwards
PROPERTIES
  CalledRight
  PartitionEnds
CHECK_DEADLOCK FALSE
