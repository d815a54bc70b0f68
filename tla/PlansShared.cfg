SPECIFICATION Spec
CONSTANTS
    t1 = t1
    t2 = t2
    Targets = {t1, t2}
    Absent = Absent
    NoId = NoId
    NoDoc = NoDoc
    Procs = {p1, p2}
    Texts = {v1, bad}
    Valid = {v1}
    Ids = {d1, d2, d3}
    Requests <- BothFiles
    TTL = 0
    MaxTime = 1
    MaxFaults = 1
    MaxCrashes = 1
    MaxEdits = 1
SYMMETRY ProcSymmetry
CHECK_DEADLOCK FALSE
INVARIANTS RecoveryBeforeChange
