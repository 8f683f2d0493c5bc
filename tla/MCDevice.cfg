CONSTANTS
    Attempts = 2
    MaxReading = 2
    Thresholds = {t1}
    DefaultThreshold = t0
    MaxReboots = 1
    Scenarios <- Combinations
SPECIFICATION Spec
INVARIANTS AttributesAreOneReading PrintIsOneReading PollsOnlyIfStarted VerifierIsWhole ThresholdIsKept
PROPERTIES BootCompletes SensorIsHeard
CHECK_DEADLOCK FALSE
