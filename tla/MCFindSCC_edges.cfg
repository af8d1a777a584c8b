\* A component graph with an edge no dependence stands for.
SPECIFICATION SCCSpec
CONSTANTS
    NumInsts = 3
    PDGs <- mc_noloops
INVARIANTS DagEdgesReal
CHECK_DEADLOCK FALSE
