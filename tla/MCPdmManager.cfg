CONSTANT Verbose = TRUE
SPECIFICATION Spec
INVARIANTS AckIsFreshUnlessCut BeepIsAcked MicHasOwner
PROPERTIES MicGoesOff
