SPECIFICATION FairSpec
CONSTANTS
    t1 = t1
    t2 = t2
    Targets = {t1, t2}
    Absent = Absent
    NoId = NoId
    NoDoc = NoDoc
    Procs = {p1}
    Texts = {v1, v2}
    Valid = {v1, v2}
    Ids = {d1, d2, d3}
    Requests <- BothFiles
    TTL = 0
    MaxTime = 1
    MaxFaults = 2
    MaxCrashes = 1
    MaxEdits = 0
CHECK_DEADLOCK FALSE
INVARIANTS TypeOK RecoveryBeforeChange ReplacesReviewedText AllOrNothing TornIsPrefix
PROPERTIES DropsOnlyWhenRestored ImplementsStore CallsReturn
