CONSTANTS
    Domain <- MCDomain
    ConfigCa = "system"
    INT_MIN <- MCIntMin
    BusyTrigger = {TRUE, FALSE}
    MaxNotes = 2
    MaxTroubles = 0
    StaticServers <- NoServers
    SerialModulus = 3
    MaxFaults = 0
    Updates <- PlainUpdates
SPECIFICATION Spec
INVARIANT StopNeverStuck
CHECK_DEADLOCK FALSE
