\* Three jobs in a domain that stays as it is.
SPECIFICATION SteadySpec
CONSTANTS
    d1 = d1
    d2 = d2
    j1 = j1
    j2 = j2
    j3 = j3
    NoParent = NoParent
    Jobs <- ThreeJobs
    Daemons <- OneDaemon
    MaxLoss = 0
PROPERTY QueueMovesWhenUp
CHECK_DEADLOCK FALSE
