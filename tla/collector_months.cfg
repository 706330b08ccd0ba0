\* Two months of archive: the older month replaces the newer.
SPECIFICATION Spec
CONSTANTS
    s1 = s1
    s2 = s2
    Serials = {s1, s2}
    Kinds <- AllKinds
    RecheckDays = 1
    MaxDay = 0
    Modes = {"cycle"}
    DeviceSets <- Both
    First = s1
    SpotQueries <- EnergyQuery
    BatterySerials = {}
    BatterySusy = {}
    RelaySerials = {}
    ZeroToday = {s2}
    Wobbling = {s2}
    Months = 2
    EventMonths = 0
    Groups <- UserOnly
    Flaky <- DailyKinds
    Refusable = {}
INVARIANT
    EveryMonthIsKept
