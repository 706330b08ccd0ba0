\* Ticks of two collectors over two days with failures, restarts, signals and
\* an MQTT channel smaller than what one tick publishes.
SPECIFICATION FairSpec
CONSTANTS
    N = 2
    Bluetooth = {2}
    PollAtNight = FALSE
    Mqtt = TRUE
    Messages = 1
    Capacity = 1
    MaxDay = 1
INVARIANTS
    StatusIsHonest
PROPERTIES
    DailyDue
    StaleNeverStored
    SigtermStopsWithBroker
