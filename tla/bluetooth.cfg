\* Sessions over a stream that delays, loses, damages and interleaves answers.
CONSTANTS
    d1 = d1
    d2 = d2
    Devices = {d1, d2}
    Mis = {TRUE, FALSE}
    Fragments = {2}
    Splits = {d1}
    Refusing = {d2}
    MaxRetry = 2
    MaxCalls = 2
    MaxStream = 2
    MaxFaults = 1
SPECIFICATION Spec
INVARIANT AnswersThisCall
INVARIANT IncompleteOnlyWhenDamaged
CHECK_DEADLOCK FALSE
