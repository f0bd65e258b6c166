CONSTANTS
    UOne = 4096
    IOne = 4096
    MaxU64 = 1000
    POLYLINE_MAX_POINTS = 4
    MaxU32 = 1000000
    SECONDS_PER_YEAR = 10
    InitialCurves <- MCCurves
    Utilisations <- MCUtilisations
    MaxIdle = 80
SPECIFICATION Spec
INVARIANT NeverBricked
