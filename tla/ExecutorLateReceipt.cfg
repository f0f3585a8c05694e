SPECIFICATION ProvisionedSpec
CONSTANTS
    Jobs = {j1}
    Configs = {c1}
    Approved = {c1}
    Commands = {"run.submit", "run.cancel"}
    MaxRows = 5
    MaxEpoch = 1
    MaxGeneration = 1
    MaxLate = 1
    MaxStray = 0
    MaxRetries = 1
    KeepsEpoch = FALSE
    None = None
    j1 = j1
    j2 = j2
    c1 = c1
    c2 = c2
INVARIANTS
    CancelSettles
\* The bounds on commands, epochs and pauses let a behaviour stop.
CHECK_DEADLOCK FALSE
