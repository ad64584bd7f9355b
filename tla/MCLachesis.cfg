SPECIFICATION MCSpec
CONSTANTS
    Node = {n1, n2}
    Call = {e1, e2}
    Foreign = Foreign
    ForeignParents = {}
    Stakes = {1, 3}
    MaxSnaps = 2
    MaxRestores = 2
    WithRepair = TRUE
    WithRemove = TRUE
    Worker = {w1}
    Loop = {r1}
    Thresholds = {50}
    MaxListings = 1
    MaxStarts = 1
    Restorer = {}
INVARIANTS
    NoFinalizedLost
    RulesAgree
    
SYMMETRY LachesisSymmetry
