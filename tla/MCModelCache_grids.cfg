SPECIFICATION ModelsSpec
CONSTANTS
    f1 = f1
    f2 = f2
    f3 = f3
    gridA = gridA
    gridB = gridB
    p1 = p1
    p2 = p2
    h1 = h1
    h2 = h2
    NoModel = NoModel
    Fit = {f1, f2, f3}
    Grid = {gridA, gridB}
    Param = {p1, p2}
    Hole = {h1, h2}
    GridOf <- MCGridOf
    Under <- MCUnder
INVARIANT OwnGrid
