SPECIFICATION Spec
CONSTANTS
    Tools = {"expanded", "literal"}
    Quoted <- MCQuoted
    None = None
    Arranged <- MCArranged
    Editable <- MCEditable
    MaxEdits = 1
    MaxCommands = 3
    MaxFaults = 1
CHECK_DEADLOCK FALSE
INVARIANTS GuardedUnlessFailed InstallIsStable RoundTrip
PROPERTIES OthersKept
