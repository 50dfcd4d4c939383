\* Eleven mappings that are read, seven that are commanded, three points.
SPECIFICATION DPFairSpec
CONSTANTS
    p1 = p1
    p2 = p2
    p3 = p3
    Points = {p1, p2, p3}
    Layouts <- MCLayouts
    Targets <- MCTargets
    Word = 16
    AddressMod = 16
    MaxCount = 12
INVARIANT GroupsCoverThePoints
INVARIANT OnlineMeansRead
INVARIANT ReadBackIsDesired
PROPERTY GoodIsMeasured
PROPERTY EveryPointIsRefreshed
