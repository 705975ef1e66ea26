\* Two requests, or a request and a scheduling tick, at once, two idempotency keys.
SPECIFICATION Spec
CONSTANTS
    c1 = c1
    s1 = s1
    k1 = k1
    k2 = k2
    p1 = p1
    NoCaller = NoCaller
    NoKey = NoKey
    NoProfile = NoProfile
    Callers <- MCCallers
    Schedulers = {s1}
    Keys = {k1, k2}
    Profiles = {p1}
    Limits = {0, 1}
    ModuleCap = 1
    MaxExecutions = 2
    MaxEdits = 1
    MaxRetries = 1
    MaxStarted = 1
CHECK_DEADLOCK FALSE

INVARIANTS
    KeyIsOneExecution
    AdmittedWithinPinnedLimit
    StartedAsAnswered
