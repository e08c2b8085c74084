\* One job over two nodes under fairness; no node is lost.
SPECIFICATION SteadySpec
CONSTANTS
    d1 = d1
    d2 = d2
    j1 = j1
    j2 = j2
    Daemons <- BothDaemons
    Jobs <- OneJob
    ChildJobs <- NoJobs
    MpiJobs <- NoJobs
    IssueChoices = {TRUE, FALSE}
    GroupChoices = {"own"}
    MaxLoss = 0
PROPERTIES
    DispatchedStarts
    KillStops
    FailedFractionsEnd
CHECK_DEADLOCK FALSE
