\* A job whose receipt is lost publishes its outputs.
SPECIFICATION FairSpec
CONSTANTS
    MaxRetries = 0
    MaxCancelPolls = 1
    MaxCancels = 0
    JobEnds <- MCAgreed
    OutputRequired = TRUE
    CommitFaults = FALSE
PROPERTIES
    PublishedOutputsAreVerified
CHECK_DEADLOCK FALSE
