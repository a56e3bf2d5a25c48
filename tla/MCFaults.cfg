CONSTANTS
    Domain <- MCDomain
    ConfigCa = "system"
    INT_MIN <- MCIntMin
    BusyTrigger = {TRUE}
    MaxNotes = 2
    MaxTroubles = 0
    StaticServers <- NoServers
    SerialModulus = 3
    MaxFaults = 1
    Updates <- MixedUpdates
SPECIFICATION Spec
INVARIANTS IInv TypeOK RunningIsApplied BackupBeforeRevert NoUnexpectedEvent FirstExitRestores
PROPERTIES StopIsFinal ImplementsConfigService
CHECK_DEADLOCK FALSE
