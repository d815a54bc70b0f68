SPECIFICATION Spec
CONSTANTS
    Commands <- MCCommands
    Builtin <- MCBuiltin
    Source <- MCSource
    Layers <- MCLayers
    Redirects <- MCRedirects
    MaxLayers = 2
    MaxCommands = 2
    MaxRedirects = 1
CHECK_DEADLOCK FALSE
INVARIANTS ApprovedWhole DeniedForCause LongerNeverLaxer DenyLayerTightens
