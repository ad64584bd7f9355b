SPECIFICATION MCSpec
CONSTANTS
    Node = {n1, n2}
    Call = {e1}
    Single = n1
    Foreign = Foreign
    ForeignParents = {}
    Stakes = {1}
    MaxSnaps = 2
    MaxRestores = 2
    WithRepair = FALSE
    WithRemove = FALSE
    Worker = {w1}
    Loop = {r1}
    Thresholds = {50}
    MaxListings = 1
    MaxStarts = 1
    Restorer = {k1}
    Peers = {a, b}
    Known = {x}
    ChanSize = 1
    MaxChannels = 6
    MaxCopies = 1
    MaxSyncs = 1
    MaxLoops = 1
INVARIANTS
    SnapshotRestorable
    GossipNeverPanics
    CopiesNeedRestore
PROPERTIES
    FinalityReached
CHECK_DEADLOCK FALSE
