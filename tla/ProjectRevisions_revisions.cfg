\* Two revisions and one module upload, of two requests; one execution of two
\* attempts.
SPECIFICATION Spec
CONSTANTS
    tap = tap
    other = other
    g1 = g1
    g2 = g2
    m1 = m1
    m2 = m2
    Documents <- MCDocuments
    Modules = {m1, m2}
    Exports <- MCExports
    Overrides <- MCOverrides
    Adapters = {tap, other}
    Contents = {g1, g2}
    WithIngest = {g1}
    FieldsOf <- MCFields
    Clients = {c1, c2}
    Executions = {e1}
    MaxRevisions = 2
    MaxUploads = 1
    MaxAttempts = 2
    None = None
SYMMETRY MCSymmetry
INVARIANTS
    NewestIsActive
    AcceptedIsUsable
    PatchesLand
CHECK_DEADLOCK FALSE
