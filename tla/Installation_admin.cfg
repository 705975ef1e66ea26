CONSTANTS
    MaxSetups = 2
    MaxFaults = 0
    Releases = 1

SPECIFICATION Spec
CHECK_DEADLOCK FALSE

INVARIANTS
    AdminPasswordOpens
