\* Safety and liveness together, so no symmetry.
SPECIFICATION FairApprovalSpec
CONSTANTS
    Ids = {a, b}
    Cancellers = {c1, c2}
    MaxTracked = 1
    MaxTurns = 2
    MaxRequests = 2
    MaxPosts = 2
INVARIANTS
    NoLostWakeup
    NoReplayWithinTurn
PROPERTIES
    CancelledTurnIsDenied
    CancelReleasesAgent
CHECK_DEADLOCK FALSE
