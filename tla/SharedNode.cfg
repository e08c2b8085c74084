\* Two jobs, one of them a child, on one node that may be lost and come back.
SPECIFICATION Spec
CONSTANTS
    d1 = d1
    d2 = d2
    j1 = j1
    j2 = j2
    Daemons <- OneDaemon
    Jobs <- BothJobs
    ChildJobs <- SecondJob
    MpiJobs <- NoJobs
    IssueChoices = {FALSE}
    GroupChoices = {"own", "stray"}
    MaxLoss = 1
INVARIANTS
    UncompletedCounts
PROPERTIES
    CleanDisconnect
CHECK_DEADLOCK FALSE
