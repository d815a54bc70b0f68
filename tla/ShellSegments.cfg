SPECIFICATION Spec
CONSTANTS
    Simple <- MCSimple
    Beside <- MCBeside
    Execs <- MCExecs
    Programs <- MCPrograms
    Late <- MCLate
    MaxDepth = 3
CHECK_DEADLOCK FALSE
INVARIANTS NothingLost NothingInvented
