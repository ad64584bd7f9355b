SPECIFICATION Spec
CONSTANTS
    lachesis = lachesis
    poh = poh
    NoCaller = NoCaller
    Caller = {a1, a2}
    Component = {lachesis, poh}
    ForwardOnly = {poh}
    NotRestored = {}
    Height = {1, 2}
    Interval = 1
    InitMax = 2
    MaxSettings = {1}
    Faults = {"getState", "writeState", "writeMeta", "remove"}
    Optional = {poh}
    MaxFaults = 1
    MaxVersion = 1
    MaxCrashes = 1
INVARIANTS
    MapMatchesDisk
    VerdictsHold
PROPERTIES
    ImplementsStore
SYMMETRY CallerSymmetry
