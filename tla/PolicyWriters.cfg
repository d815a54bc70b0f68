SPECIFICATION Spec
CONSTANTS
    Documents <- MCDocuments
    Chunks <- MCChunks
    Edits <- MCEdits
    Added <- MCAdded
    MaxHand = 1
    MaxRuns = 2
CHECK_DEADLOCK FALSE
INVARIANTS EditsAreExact SaveOnlyAdds WrittenInOrder
