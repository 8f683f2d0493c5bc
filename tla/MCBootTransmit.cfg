CONSTANTS
    Attempts = 2
    MaxReading = 2
    Thresholds = {t1}
    DefaultThreshold = t0
    MaxReboots = 1
    Scenarios <- Combinations
SPECIFICATION Spec
INVARIANT ListensOnlyIfInitialised
CHECK_DEADLOCK FALSE
