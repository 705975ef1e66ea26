\* Three setups with two releases and two faults; or two commands on two slots,
\* one of them killed, and one new host key.
SPECIFICATION MCSpec
CONSTANTS
    MaxSetups = 3
    MaxFaults = 2
    Releases = 2
    Slots = {s1, s2}
    MaxCommands = 2
    MaxKills = 1
    MaxRotations = 1
    Strict = TRUE
    Docker = FALSE
INVARIANTS
    DatabaseOpens
    NoWeakSecretServes
    FinishedSlotChecks
    SessionHostWasAccepted
PROPERTIES
    RunningSecretsSurvive
CHECK_DEADLOCK FALSE
