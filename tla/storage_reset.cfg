\* The energy counter restarts from zero on the second day.
CONSTANTS
    Days = 3
    Slots = 2
    Powers = {1, 2}
    Intervals = {1, 2}
    Workloads = {{"statistics"}, {"archives"}}
    Resets = {4}
    MaxCycles = 3
    MaxFailures = 2
    MaxRebuilds = 1
SPECIFICATION Spec
INVARIANT ResetIsMissingData
CHECK_DEADLOCK FALSE
