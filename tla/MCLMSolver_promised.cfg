SPECIFICATION SolverSpec
CONSTANTS
    teff = teff
    logg = logg
    NaN = NaN
    Param = {teff, logg}
    Steps = 2
    Landscapes <- MCLandscapes
    MaxIterations = 6
    MaxRejects = 2
    FlatSteps = 2
    AbsTol = 2
    MaxBackoffs = 2
INVARIANT
    ConvergesAsPromised
CHECK_DEADLOCK FALSE
