SPECIFICATION FairSpec
CONSTANTS
    w1 = w1  w2 = w2
    Workers <- MCWorkers
    MaxAttempts = 2
    Lease = 2
PROPERTIES
    HonestSuccess ImplementsLifecycle RunningEnds
\* A finished job with every worker idle is where the system may stop.
CHECK_DEADLOCK FALSE
