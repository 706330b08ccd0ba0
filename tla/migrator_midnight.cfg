\* A day ends between the first import of its yield and verification.
SPECIFICATION FairSpec
CONSTANTS
    Sources <- TwoVersions
    Options <- PlainOnly
    Intended <- Plain
    BatchSize = 2
    DayLength = 2
    MaxNow = 2
    MaxFaults = 0
PROPERTY
    ResumedRunCompletes
