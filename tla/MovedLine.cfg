\* Two projects and two lines, one of which is dragged.
SPECIFICATION Spec
CONSTANTS
    p1 = p1
    p2 = p2
    l1 = l1
    l2 = l2
    f1 = f1
    f2 = f2
    f3 = f3
    Projects <- TwoProjects
    Lines <- TwoLines
    Flows <- ThreeFlows
    Nothing = Nothing
    Archived <- ThirdFlow
    MaxUpsets = 1
SYMMETRY SameKind
INVARIANT
    MovedLineKept
