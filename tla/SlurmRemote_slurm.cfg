\* One execution on Slurm, submitted, polled, cancelled, retried once.
SPECIFICATION Spec
CONSTANTS
    MaxRetries = 1
    MaxCancelPolls = 2
    MaxCancels = 1
    JobEnds <- MCJobEnds
    OutputRequired = TRUE
    CommitFaults = TRUE
INVARIANTS
    AnswersAreComplete
    EndIsReal
    VerifiedIsPublished
PROPERTIES
    ImplementsSingleSubmission
CHECK_DEADLOCK FALSE
