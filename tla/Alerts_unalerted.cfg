\* The same instance without faults.
SPECIFICATION MCSpec
CONSTANTS
    good = good
    bad = bad
    w1 = w1
    w2 = w2
    e1 = e1
    Kinds <- MCKinds
    Scoped = {1, 2, 3}
    Channels = {good, bad}
    Broken = {bad}
    Silent = {bad}
    Workers = {w1, w2}
    Executions = {e1}
    Later = {2, bad}
    Cooldown <- MCCooldown
    Window = 1
    Threshold = 1
    Cap = 1
    MaxEdits = 1
    MaxFaults = 0
    NoWorker = NoWorker
    NoExecution = NoExecution
INVARIANTS
    FailureIsAlerted
CHECK_DEADLOCK FALSE
