\* One execution on a manager with two nodes, polled by two workers, cancelled
\* and retried.
SPECIFICATION Spec
CONSTANTS
    Nodes = {"n1", "n2"}
    p1 = p1
    p2 = p2
    Pollers = {p1, p2}
    Graph <- Pipeline
    MaxRounds = 2
INVARIANTS
    RejectionIsDefinite
    EndIsReal
    DestroyedIsConcluded
SYMMETRY PollersSymmetry
CHECK_DEADLOCK FALSE
