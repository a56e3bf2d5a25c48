SPECIFICATION Spec
CONSTANTS
    Path <- MCPath
    Configuration <- MCConfiguration
    Found <- MCFound
    MaxEvents = 3
INVARIANTS CleanStopRestores DaemonCanWrite
