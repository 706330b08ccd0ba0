\* Batches, failures, resumptions with the same and with other arguments.
SPECIFICATION FairSpec
CONSTANTS
    Sources <- TwoVersions
    Options <- AnyArguments
    Intended <- Plain
    BatchSize = 2
    DayLength = 2
    MaxNow = 2
    MaxFaults = 2
INVARIANTS
    CheckpointCovers
    CompletedIsFaithful
PROPERTIES
    CheckpointsOnlyAdvance
    ResumedRunCompletesOrIsStale
