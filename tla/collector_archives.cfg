\* The daily cycle: equipment queries, month archives and the event log of two user groups.
SPECIFICATION FairSpec
CONSTANTS
    s1 = s1
    s2 = s2
    Serials = {s1, s2}
    Kinds <- AllKinds
    RecheckDays = 1
    MaxDay = 0
    Modes = {"cycle"}
    DeviceSets <- Both
    First = s1
    SpotQueries <- EquipmentQueries
    BatterySerials = {s1}
    BatterySusy = {s2}
    RelaySerials = {}
    ZeroToday = {s2}
    Wobbling = {s2}
    Months = 1
    EventMonths = 2
    Groups <- WithInstaller
    Flaky <- DailyKinds
    Refusable = {}
INVARIANTS
    FreshObservation
    EventsReadToDepth
    MonthIsCorrected
PROPERTY
    CycleEnds
