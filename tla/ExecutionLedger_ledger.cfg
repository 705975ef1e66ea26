CONSTANTS
    h1 = h1
    h2 = h2
    Handlers <- MCHandlers
    NoHandler = NoHandler
    Deployments <- MCBoth
    StaleHandlers = TRUE
    NegativeLookups = 2
    MaxRetries = 1
    MaxIntents = 2
    MaxFaults = 1
    MaxPollFaults = 1

SPECIFICATION Spec
SYMMETRY MCSymmetry
CHECK_DEADLOCK FALSE

INVARIANTS
    AtMostOneSubmission
    RetryFindsNothingOutside
    CancelledIsAnswered
PROPERTIES
    AbandonmentHolds
    ImplementsSingleSubmission
