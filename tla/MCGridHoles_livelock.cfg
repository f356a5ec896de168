SPECIFICATION FairSpec
CONSTANTS
    t1 = t1
    t2 = t2
    Thread = {t1, t2}
    Axes <- MCAxes
    Cells <- MCCells
    Layouts <- MCOneHole
    MaxLoads = 1
    MaxVanish = 1
    Fragile <- MCFragile
PROPERTY LoadsEnd
CHECK_DEADLOCK FALSE
