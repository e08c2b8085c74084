\* A FAILED job cleared while a fraction runs.
SPECIFICATION Spec
CONSTANTS
    d1 = d1
    d2 = d2
    j1 = j1
    j2 = j2
    Daemons <- BothDaemons
    Jobs <- OneJob
    ChildJobs <- NoJobs
    MpiJobs <- NoJobs
    IssueChoices = {FALSE}
    GroupChoices = {"own", "stray"}
    MaxLoss = 0
PROPERTY ClearedNotExecuting
CHECK_DEADLOCK FALSE
