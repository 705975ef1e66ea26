CONSTANTS
    h1 = h1
    h2 = h2
    Handlers <- MCHandlers
    NoHandler = NoHandler
    Deployments <- MCDeployments
    StaleHandlers = FALSE
    NegativeLookups = 2
    MaxRetries = 1
    MaxIntents = 2
    MaxFaults = 1
    MaxPollFaults = 0

SPECIFICATION FairSpec
CHECK_DEADLOCK FALSE

PROPERTIES
    EndedWorkIsReconciled
    SuccessIsConcluded
