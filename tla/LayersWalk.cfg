SPECIFICATION Spec
CONSTANTS
    r1 = r1
    r2 = r2
    Documents = {d1, d2, d3}
    None = None
    Rules = {r1, r2}
    Matching <- MCMatching
    Contents <- MCContents
    Directories = 3
    Stacks = 2
SYMMETRY MCSymmetry
CHECK_DEADLOCK FALSE
INVARIANTS NearestWins MergedAsLayered IncludesFirst RefusedForCause AllTargetsApproved
