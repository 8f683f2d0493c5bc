CONSTANT Verbose = TRUE
SPECIFICATION Spec
INVARIANTS AckIsFresh
