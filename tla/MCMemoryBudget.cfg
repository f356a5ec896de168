SPECIFICATION MCSpec
CONSTANTS
    Fit = {f1, f2}
    Reader = {r1}
    Sizes = {2, 5}
    Totals = {0, 1, 8}
    FreeShare = 13
    Modest = 6
    Floor = 2
    Ceiling = 9
    Full = 4
    Scales = {1, 4}
    Sampler = {s1, s2, s3}
    Interval = 2
    MaxStall = 2
    MinScale = 4
    Whole = 6
INVARIANTS
    TypesOK
    Accounts
    BurstBounded
PROPERTIES
    MoreFitsNeverLess
    FollowsPressure
