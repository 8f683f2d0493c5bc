CONSTANTS
    Endpoints = {ep1, ep2}
    Effects = TRUE
    Shell = TRUE
SPECIFICATION Spec
INVARIANTS BlinkHasOwner IdentifyKeepsBlinking LitOnlyIfLate
PROPERTIES IdentifyEndsBlinking
