CONSTANTS
    SystemModes = {1, 3, 4}
    CoolSetpoints = {2450, 2600}
    HeatSetpoints = {2000}
    FanModes = {0, 5}
    DefaultAttrs <- ZapDefaults
    EarlyWrites = TRUE
    ShellOffs = FALSE
    Reboots = FALSE
SPECIFICATION Spec
PROPERTIES ChangeIsSent
