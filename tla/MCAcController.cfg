CONSTANTS
    Frames = {f1, f2, f3, off}
    OffFrame = off
    NoFrame = none
    IR_RETRY_COUNT = 3
    Links = {"good", "bad"}
SPECIFICATION Spec
INVARIANT FollowsLastWord
PROPERTY ArrivesInReach
