CONSTANTS
    Labels <- MCLabels
    LabelBits <- MCLabelBits
    Address = {"a", "b", "c", "d"}
    LongName = {"averyverylongname"}
    INT_MIN <- MCIntMin
    Calls <- MCCalls
    Wireless = {"wlan0"}
    ToAscii <- MCToAscii
    Commands <- MCCommands
    StaticLists <- MCStaticLists
    Domain <- MCDomain
    ConfigCa = "system"
SPECIFICATION PathSpec
CHECK_DEADLOCK FALSE
INVARIANTS OneInterfacePerAddress AcceptedIsComplete WirelessNeverGains
INVARIANTS StoredAsTyped ClientChecksSuffice ReverseNamesRouted
INVARIANTS UpdatesConverge UsedAreBest FlagsFitEveryServer ModeIsKept
PROPERTY RefusedKeepsContext
