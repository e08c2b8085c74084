SPECIFICATION Spec
CONSTANTS
    x = x
    y = y
    z = z
    f1 = f1
    f2 = f2
    l1 = l1
    p1 = p1
    p2 = p2
    Names = {x, y, z}
    Docs = {f1, f2, l1, p1}
    NoName = NoName
    NoDoc = NoDoc
    WeightUnit = 1024
    LineOf <- TwoFlows
    TheProject = p1
    InitialDict <- OneEmpty
    Snapshot <- NoFlow
    EditValues <- Typed
    Pages <- BothPages
    KeepOne = {}
    MaxRows = 2
    MaxEdits = 0
    MaxPushed = 1
INVARIANT EvaluatesCurrent
CHECK_DEADLOCK FALSE
