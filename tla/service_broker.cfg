\* An unreachable broker blocks the tick and with it SIGTERM.
SPECIFICATION FairSpec
CONSTANTS
    N = 2
    Bluetooth = {2}
    PollAtNight = FALSE
    Mqtt = TRUE
    Messages = 1
    Capacity = 2
    MaxDay = 0
PROPERTY
    SigtermStops
