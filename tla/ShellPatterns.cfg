SPECIFICATION Spec
CONSTANTS
    Texts <- MCTexts
    Programs <- MCPrograms
    Arguments <- MCArguments
    Inputs <- MCInputs
    Strangers <- MCStrangers
    MaxLength = 4
CHECK_DEADLOCK FALSE
INVARIANTS PathReadings DenyNotHidden OptionsHold
