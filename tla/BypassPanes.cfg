SPECIFICATION FairPaneSpec
CONSTANTS
    p1 = p1
    Runs = {r1}
    Panes = {p1}
    NoPane = NoPane
    Calls <- MCCalls
    Plugins = {i1, i2}
    MaxInbox = 1
    MaxSessions = 2
CHECK_DEADLOCK FALSE
INVARIANTS CleanupPending
PROPERTIES StaleFlagsGo
