CONSTANTS
    Producers = {chip, shell}
    Cmds = {on, off}
    NoCmd = none
    LAST = 1
    IR_RETRY_COUNT = 3
SPECIFICATION Spec
INVARIANTS TypeOK FrameIsWhole NoLostWakeup BoundedStaleness
PROPERTIES ImplementsMailbox LatestIsSent
