SPECIFICATION FairSpec
CONSTANTS
    Node = {n1, n2}
    Call = {e1}
    Foreign = Foreign
    ForeignParents = {}
    Stakes = {1}
    MaxSnaps = 0
    MaxRestores = 0
    WithRepair = FALSE
    WithRemove = FALSE
    Worker = {w1}
    Loop = {r1, r2}
    Thresholds = {66}
    MaxListings = 2
    MaxStarts = 2
    Restorer = {}
PROPERTIES
    StoppedLoopEnds
CHECK_DEADLOCK FALSE
