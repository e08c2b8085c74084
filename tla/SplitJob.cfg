\* One job, split over two nodes or an MPI job on one, either of which may be lost
\* once and come back.
SPECIFICATION AloneSpec
CONSTANTS
    d1 = d1
    d2 = d2
    j1 = j1
    j2 = j2
    Daemons <- BothDaemons
    Jobs <- BothJobs
    ChildJobs <- NoJobs
    MpiJobs <- SecondJob
    IssueChoices = {FALSE}
    GroupChoices = {"own"}
    MaxLoss = 1
SYMMETRY Swap
INVARIANTS
    TypeOK
    FinishedMeansAllOk
    NoLostFinish
    FailedToldToDie
PROPERTIES
    ImplementsLifecycle
CHECK_DEADLOCK FALSE
