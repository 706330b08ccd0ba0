\* Queue, writer, ring and shutdown with failures, crashes and restarts.
SPECIFICATION FairSpec
CONSTANTS
    Capacity = 2
    MaxBatch = 2
    FlushAt = 1
    MaxRows = 1
    Retention = 1
    PruneChunk = 1
    MaxRecords = 3
    MaxTime = 2
INVARIANTS
    Conservation
    StoredInOrder
    CleanFlush
    RingBounded
PROPERTIES
    LogSpec
    RecordsLeaveTheQueue
