SPECIFICATION MCSpec
CONSTANTS
    t3 = t3
    Thread = {t1, t2, t3}
    NoKey = NoKey
    NoThread = {t1, t2, t3}
    final = final
    surface = surface
    corner = corner
    Key <- MCKey
    Needs <- MCNeeds
    Rank <- MCRank
    Cost <- MCCost
    Budgets = {2, 5}
    Capacities = {0, 1, 2}
    Shares = {4, 6}
    MaxFits = 2
    MaxCalls = 1
    MaxAsks = 1
    MaxThrows = 1
INVARIANTS
    TypeOK
    LruMatchesCache
    BytesExact
PROPERTIES
    LeavesWithinBudget
    ImplementsSharedBuilds
    CallsReturn
