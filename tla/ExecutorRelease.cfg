SPECIFICATION ProvisionedSpec
CONSTANTS
    Jobs = {j1}
    Configs = {c1}
    Approved = {c1}
    Commands = {"control.resume", "drain"}
    MaxRows = 3
    MaxEpoch = 1
    MaxGeneration = 2
    MaxLate = 0
    MaxStray = 0
    MaxRetries = 1
    KeepsEpoch = TRUE
    None = None
    j1 = j1
    j2 = j2
    c1 = c1
    c2 = c2
INVARIANTS
    ReleasedUntilResumed
\* The bounds on commands, epochs and pauses let a behaviour stop.
CHECK_DEADLOCK FALSE
