SPECIFICATION FairSpec
CONSTANTS
    Rules = {r1}
    Repositories = {c1}
    None = None
    Tasks = {1, 2, 3}
    MaxRounds = 2
    MaxRevisions = 1
CHECK_DEADLOCK FALSE
INVARIANTS ProposalOfInputs
PROPERTIES SpinnerEnds
