\* More workers than threads[] has entries, as with NUM_THREADS 2 and
\* MAX_THREAD 5: sync_join does not wait for the last one.
SPECIFICATION Spec
CONSTANTS
    NUM_THREADS = 2
    MAX_THREAD = 3
    NUM_QUEUES = 3
    QUEUE_MAXLEN = 2
    Executions = 1
    MaxTrips = 2
    MaxFailures = 0
    NoThread = NoThread
    Garbage = Garbage
    uthread <- mc_uthread
    vthread <- mc_vthread
INVARIANTS AllLiveoutsReady
CHECK_DEADLOCK FALSE
