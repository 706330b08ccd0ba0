\* Two inverters asked twice over a network that loses, repeats and reorders.
SPECIFICATION FairSpec
CONSTANTS
    N = 2
    MaxRetry = 2
    IdMask = 3
    ByteMask = 0
    LongAnswer = 1
    MaxCalls = 2
INVARIANTS
    AnswersThisCall
    AnswerIsComplete
PROPERTY
    CallEndsWhenQuiet
