CONSTANTS
    Domain <- MCDomain
    ConfigCa = "system"
    INT_MIN <- MCIntMin
    BusyTrigger = {TRUE, FALSE}
    MaxNotes = 2
    MaxTroubles = 1
    StaticServers <- NoServers
    SerialModulus = 2
    MaxFaults = 0
    Updates <- OneUpdate
SPECIFICATION FairSpec
INVARIANTS StartNeverStuck FirstStartServes StopIsRecovered
PROPERTIES StartIsAnswered QuietStopEnds
CHECK_DEADLOCK FALSE
