SPECIFICATION MCSpec
CONSTANTS
    t1 = t1
    Caller = {t1, t2}
    NoJob = NoJob
    InGrids <- MCInGrids
    OutGrids <- MCOutGrids
    SameGrids <- MCSameGrids
    HalfWidths = {1, 2}
    MemoSize = 2
    Fits <- MCFits
    VsiniThres = 1
    SurThres = 1
    AxisMax = 2
    NitNoiseMax = 2
INVARIANTS
    TypeOK
    RightlyFree
    OrderlyPlan
    TablesRight
    ScansRight
PROPERTIES
    FrozenKept
    AbortHonoured
