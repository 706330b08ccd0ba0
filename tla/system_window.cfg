\* The pause button, a page of one entry and a ring of three
SPECIFICATION ViewSpec
CONSTANTS
    Levels = {1}
    Steps = {0}
    Retention = 1
    MaxRecords = 3
    MaxPushes = 3
    MaxRestarts = 0
    Page = 1
    Keep = 3
    MaxPolls = 1
    MaxEvents = 2
CHECK_DEADLOCK FALSE
INVARIANT WholeWindowReached
