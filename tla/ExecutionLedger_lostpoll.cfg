CONSTANTS
    h1 = h1
    h2 = h2
    Handlers <- MCHandlers
    NoHandler = NoHandler
    Deployments <- MCSlurm
    StaleHandlers = FALSE
    NegativeLookups = 2
    MaxRetries = 0
    MaxIntents = 1
    MaxFaults = 0
    MaxPollFaults = 1

SPECIFICATION FairSpec
CHECK_DEADLOCK FALSE

PROPERTIES
    SuccessIsConcluded
