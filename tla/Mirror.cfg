\* Three jobs of one client; a node or the client's connection is lost once.
SPECIFICATION MirrorSpec
CONSTANTS
    d1 = d1
    j1 = j1
    j2 = j2
    j3 = j3
    NoParent = NoParent
    Jobs <- ThreeJobs
    Daemons <- OneDaemon
    MaxLoss = 1
    MaxAsks = 2
    MaxWire = 2
    MaxFaults = 1
SYMMETRY AnyJob
INVARIANTS
    MirrorTypeOK
    MirrorRight
    FakesPending
    QueuesAlive
    RowsHaveJobs
PROPERTIES
    NoStranger
CHECK_DEADLOCK FALSE
