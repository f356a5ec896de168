SPECIFICATION Spec
CONSTANTS
    Thread = {t1, t2}
    Master = t1
    NoKey = NoKey
    NoTask = NoTask
    at1 = at1
    plus1 = plus1
    at2 = at2
    plus2 = plus2
    at3 = at3
    plus3 = plus3
    other = other
    Key <- MCKey
    At <- MCPlace
    Tolerance = 2
    Cost <- MCCost
    Limits <- MCLimits
    Tables = {"rot", "seg", "res"}
    MaxThrows = 1
    Stellar = 3
    Index <- MCIndex
    Telluric = {1}
    Lambda <- MCLambda
    Fitted <- MCFitted
    Knots <- MCKnots
    FreeSets <- MCFree
    TableFor <- MCTableFor
    MaxEvaluations <- MCEvaluations
CHECK_DEADLOCK FALSE
INVARIANT
    FailsOnlyItsFit
