SPECIFICATION MCSpec
CONSTANTS
    t1 = t1
    t2 = t2
    Thread = {t1, t2}
    Axes <- MCAxes
    Cells <- MCCells
    Layouts <- MCLayouts
    MaxLoads = 1
    MaxVanish = 1
    Fragile <- MCFragile
    f1 = f1
    f2 = f2
    f3 = f3
    gridA = gridA
    gridB = gridB
    p1 = p1
    p2 = p2
    h1 = h1
    h2 = h2
    NoModel = NoModel
    Fit = {f1, f2, f3}
    Grid = {gridA, gridB}
    Param = {p1, p2}
    Hole = {h1, h2}
    GridOf <- MCGridOf
    Under <- MCUnder
INVARIANTS
    TypeOK
    HolesAreHoles
    ModelsTypeOK
    KnownHolesReported
PROPERTIES
    ModelByTheRule
    LoadsEndUndisturbed
CHECK_DEADLOCK FALSE
