CONSTANTS
    h1 = h1
    h2 = h2
    Handlers <- MCHandlers
    NoHandler = NoHandler
    Deployments <- MCSlurm
    StaleHandlers = TRUE
    NegativeLookups = 2
    MaxRetries = 0
    MaxIntents = 1
    MaxFaults = 0
    MaxPollFaults = 0

SPECIFICATION Spec
SYMMETRY MCSymmetry
CHECK_DEADLOCK FALSE

INVARIANTS
    CancelledWorkIsStopped
