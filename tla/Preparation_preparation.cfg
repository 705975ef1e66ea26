\* Two handlers, a discovery meanwhile, one retry, one fault.
SPECIFICATION Spec
CONSTANTS
    h1 = h1
    h2 = h2
    Handlers <- MCHandlers
    MaxVersion = 4
    Content <- MCContent
    Kept = {2}
    Selected <- MCSelected
    Enrichments <- MCEnrichments
    QueryRetries = 1
    MaxDiscoveries = 1
    MaxRetries = 1
    MaxFaults = 1
    NoHandler = NoHandler
    NoManifest = NoManifest
SYMMETRY MCSymmetry
INVARIANTS
    WholeSelection
    SentIsPinned
PROPERTIES
    PinnedIsReplayed
    ConsumedIsDelivered
CHECK_DEADLOCK FALSE
