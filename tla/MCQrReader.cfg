CONSTANT Texts <- SomeTexts
SPECIFICATION Spec
INVARIANTS ScansBack PrintsBestFit ModulesAreRead
CHECK_DEADLOCK FALSE
