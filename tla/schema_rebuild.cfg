SPECIFICATION SchemaSpec
CONSTANTS
    Processes = {"service"}
    Zones = {"Berlin"}
    Builds = {"2", "3"}
    Engines = {"sqlite", "postgres"}
    Contents = {"empty", "foreign", "older", "current", "newer", "ahead", "nul"}
    Patience = 1
    Tries = 2
    MaxClock = 2
    MaxStarts = 3
    MaxCrashes = 1
INVARIANTS RebuiltOnStart
CHECK_DEADLOCK FALSE
