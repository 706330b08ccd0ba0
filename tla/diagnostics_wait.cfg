\* A stop between the flag check and the registration is missed.
SPECIFICATION FairSpec
CONSTANTS
    Capacity = 3
    MaxBatch = 2
    FlushAt = 2
    MaxRows = 2
    Retention = 1
    PruneChunk = 1
    MaxRecords = 1
    MaxTime = 0
PROPERTY
    WaitResolves
