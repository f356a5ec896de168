SPECIFICATION Spec
CONSTANTS
    Fits <- UntiedOnly
    VsiniThres = 1
    SurThres = 1
    AxisMax = 2
    NitNoiseMax = 2
INVARIANTS
    RefitsMatchSolution
