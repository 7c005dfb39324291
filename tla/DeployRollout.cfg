CONSTANTS
    Jobs = {j1, j2, j3}
    Nothing = Nothing
SPECIFICATION RolloutSpec
INVARIANTS
    RolloutTypeOK
    AloneSeesItself
    LastVerifiedRuns
CHECK_DEADLOCK FALSE
