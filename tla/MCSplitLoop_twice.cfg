\* The loop is reached twice; every worker has an entry in threads[], but up to
\* two of them cannot be created, which nobody notices.
SPECIFICATION FairSpec
CONSTANTS
    NUM_THREADS = 4
    MAX_THREAD = 3
    NUM_QUEUES = 3
    QUEUE_MAXLEN = 1
    Executions = 2
    MaxTrips = 2
    MaxFailures = 2
    NoThread = NoThread
    Garbage = Garbage
    uthread <- mc_uthread
    vthread <- mc_vthread
INVARIANTS
  LiveoutsReady
  QuietInit
  ElementsMatch
  NoGridlock
  JoinedEnded
PROPERTY
  Terminates
CHECK_DEADLOCK FALSE
