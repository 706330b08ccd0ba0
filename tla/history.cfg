\* Responses of the API while the service stores what it polls, and the
\* compared windows of every day of 2024 (a leap year) to 2025.
SPECIFICATION Spec
CONSTANTS
    Devices = {1, 2}
    Slots = 3
    Powers = {1}
    MaxEnergy = 1
    FirstYear = 2023
    LastYear = 2026
    FirstWeekday = 6
    Gaps = {444}
    Views = {"aggregate", "inverter", "strings", "diagnostics", "week", "month", "year"}
    MaxWrites = 3
INVARIANTS
    TotalIsSumOfParts
    LatestIsNewest
    SameSpanCompared
CHECK_DEADLOCK FALSE
