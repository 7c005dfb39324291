CONSTANTS
    a1 = a1
    a2 = a2
    Attempts = {a1, a2}
    Monitored = {a1}
    Duration = 12
    DownTimeout = 2
    UpTimeout = 1
    ReadinessTimeout = 2
    Margin = 5
    ActivationBudget = 2
    Overrun = 1
    Skew = 1
    Horizon = 15
    None = None
SPECIFICATION Spec
INVARIANTS
    TypeOK
    
    SuccessIsClean
PROPERTIES
    FailureKeepsWindow
CHECK_DEADLOCK FALSE
