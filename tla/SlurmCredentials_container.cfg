\* Workers in containers, slots written with --acl.
SPECIFICATION Spec
CONSTANTS
    Slots = {s1, s2}
    MaxCommands = 2
    MaxKills = 0
    MaxRotations = 0
    Strict = TRUE
    Docker = TRUE
INVARIANT
    ContainerReadsSlot
CHECK_DEADLOCK FALSE
