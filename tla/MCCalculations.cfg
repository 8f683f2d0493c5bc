CONSTANTS
    Temps <- CallerTemps
    RawWords <- AllWords
    SentWords <- SampledPairs
    Hashes <- NearForbidden
SPECIFICATION Spec
INVARIANTS RoundTrip AirTimeIsFixed ReadingIsExact CorruptionIsSeen PasscodeIsValid
CHECK_DEADLOCK FALSE
