SPECIFICATION Spec
CONSTANTS
    x = x
    y = y
    z = z
    f1 = f1
    f2 = f2
    l1 = l1
    p1 = p1
    p2 = p2
    Names = {x, y, z}
    Docs = {f1, f2, l1, p1, p2}
    NoName = NoName
    NoDoc = NoDoc
    WeightUnit = 1024
    LineOf <- TwoFlows
    TheProject = p1
    InitialDict <- AllFull
    Snapshot <- OldFlow
    EditValues <- Typed
    Pages <- BothPages
    KeepOne = {f1, f2}
    MaxRows = 3
    MaxEdits = 2
    MaxPushed = 1
INVARIANTS TypeOK StoreMatchesDocuments WeightsFollowOrder ShownRight EvaluatesCurrent
