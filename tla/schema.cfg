SPECIFICATION SchemaSpec
CONSTANTS
    Processes = {"service", "cli"}
    Zones = {"Berlin", "UTC"}
    Builds = {"1", "2"}
    Engines = {"sqlite", "postgres"}
    Contents = {"empty", "foreign", "older", "current", "newer", "ahead", "nul"}
    Patience = 1
    Tries = 2
    MaxClock = 2
    MaxStarts = 3
    MaxCrashes = 1
INVARIANTS NoCollision ReadyAgree
CHECK_DEADLOCK FALSE
