\* Two levels, a page smaller than a backlog, a list shorter than the ring
SPECIFICATION ViewSpec
CONSTANTS
    Levels = {1, 2}
    Steps = {0, 2}
    Retention = 1
    MaxRecords = 3
    MaxPushes = 3
    MaxRestarts = 1
    Page = 1
    Keep = 2
    MaxPolls = 2
    MaxEvents = 1
CHECK_DEADLOCK FALSE
INVARIANTS ShownAsFiltered NoHole AtOldestIsHonest
PROPERTY FollowsTail
