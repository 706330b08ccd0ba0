\* The writes of poll cycles over three days of two slots (statistics: the
\* same days), failures, restarts, midnight and the rebuild command.
CONSTANTS
    Days = 3
    Slots = 2
    Powers = {1, 2}
    Intervals = {1, 2}
    Workloads = {{"statistics"}, {"archives"}}
    Resets = {4}
    MaxCycles = 3
    MaxFailures = 2
    MaxRebuilds = 1
SPECIFICATION Spec
INVARIANT YieldIsExact
INVARIANT StaleIsNoticed
PROPERTY YesterdayIsFinal
CHECK_DEADLOCK FALSE
