\* Refusals across cycles, probes, days, restarts and deletions.
SPECIFICATION Spec
CONSTANTS
    s1 = s1
    s2 = s2
    Serials = {s1, s2}
    Kinds <- AllKinds
    RecheckDays = 1
    MaxDay = 2
    Modes = {"cycle", "probe", "probe_all"}
    DeviceSets <- Changing
    First = s1
    SpotQueries <- RefusalQueries
    BatterySerials = {}
    BatterySusy = {}
    RelaySerials = {}
    ZeroToday = {}
    Wobbling = {}
    Months = 0
    EventMonths = 0
    Groups <- UserOnly
    Flaky = {"InverterTemperature"}
    Refusable = {"InverterTemperature"}
INVARIANTS
    SkipIsJustified
    FreshRowsAreKnown
    SessionsInOrder
PROPERTY
    NeverAsksWhatAllRefused
