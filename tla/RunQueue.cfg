\* Three jobs, two nodes that may be down, one loss.
SPECIFICATION Spec
CONSTANTS
    d1 = d1
    d2 = d2
    j1 = j1
    j2 = j2
    j3 = j3
    NoParent = NoParent
    Jobs <- ThreeJobs
    Daemons <- BothDaemons
    MaxLoss = 1
SYMMETRY AnyJobOrNode
INVARIANTS
    TypeOK
    HeadLaunched
    OrderKept
    RequestsCounted
PROPERTIES
    RunOnce
CHECK_DEADLOCK FALSE
