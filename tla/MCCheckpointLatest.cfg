SPECIFICATION Spec
CONSTANTS
    lachesis = lachesis
    poh = poh
    NoCaller = NoCaller
    Caller = {a1}
    Component = {lachesis, poh}
    ForwardOnly = {poh}
    NotRestored = {}
    Height = {1, 2}
    Interval = 1
    InitMax = 1
    MaxSettings = {}
    Faults = {}
    Optional = {poh}
    MaxFaults = 0
    MaxVersion = 0
    MaxCrashes = 0
INVARIANTS
    LatestCheckpointExists
