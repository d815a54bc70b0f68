SPECIFICATION Spec
CONSTANTS
    p1 = p1
    Runs = {r1}
    Panes = {p1}
    NoPane = NoPane
    Calls <- MCCalls
CHECK_DEADLOCK FALSE
INVARIANTS DeniedNeverRuns ApprovalJustified BypassApproves BrokenPolicyVisible DownstreamOnlyUnresolved
