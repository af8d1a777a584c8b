\* More workers than threads[] has entries, as with NUM_THREADS 2 and MAX_THREAD
\* 5: one that is never joined, and whose handle may be written over an element
\* on its way.  The first execution of the loop is undisturbed but for that.
SPECIFICATION Spec
CONSTANTS
    NUM_THREADS = 2
    MAX_THREAD = 3
    NUM_QUEUES = 3
    QUEUE_MAXLEN = 2
    Executions = 2
    MaxTrips = 2
    MaxFailures = 1
    NoThread = NoThread
    Garbage = Garbage
    uthread <- mc_uthread
    vthread <- mc_vthread
INVARIANTS
  LiveoutsReady
  QuietInit
  ElementsMatch
  NoGridlock
  JoinedEnded
CHECK_DEADLOCK FALSE
