CONSTANTS
    SystemModes = {1, 3, 4}
    CoolSetpoints = {2450, 2600, 3200}
    HeatSetpoints = {2000}
    FanModes = {0, 5}
    DefaultAttrs <- ZapDefaults
    EarlyWrites = TRUE
    ShellOffs = TRUE
    Reboots = TRUE
SPECIFICATION Spec
INVARIANTS TypeOK BootSilent AcFollows
PROPERTIES CatchesUp ImplementsSource
