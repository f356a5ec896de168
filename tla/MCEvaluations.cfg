SPECIFICATION MCSpec
CONSTANTS
    teff = teff
    logg = logg
    NaN = NaN
    Param = {teff, logg}
    Steps = 2
    Landscapes <- MCLandscapes
    MaxIterations = 6
    MaxRejects = 2
    FlatSteps = 2
    AbsTol = 2
    MaxBackoffs = 2
    Thread = {t1, t2}
    Master = t1
    NoKey = NoKey
    NoTask = NoTask
    at1 = at1
    plus1 = plus1
    at2 = at2
    plus2 = plus2
    at3 = at3
    plus3 = plus3
    other = other
    Key <- MCKey
    At <- MCPlace
    Tolerance = 2
    Cost <- MCCost
    Limits <- MCLimits
    Tables = {"rot", "seg", "res"}
    MaxThrows = 1
    Stellar = 3
    Index <- MCIndex
    Telluric = {1}
    Lambda <- MCLambda
    Fitted <- MCFitted
    Knots <- MCKnots
    FreeSets <- MCFree
    TableFor <- MCTableFor
    MaxEvaluations <- MCEvaluations
INVARIANTS
    SolverTypeOK
    Coherent
    StopsEarned
    CostTypeOK
    OneBuilder
    EvictableEntries
    JacobianRight
    FailuresAnswered
PROPERTIES
    HeldParameters
    ImplementsDescent
    EvaluationEnds
CHECK_DEADLOCK FALSE
