SPECIFICATION ProvisionedSpec
CONSTANTS
    Jobs = {j1, j2}
    Configs = {c1, c2}
    Approved = {c1}
    Commands = {"config.validate", "config.apply", "run.submit", "run.cancel", "control.pause", "control.resume", "drain", "unbind"}
    MaxRows = 5
    MaxEpoch = 2
    MaxGeneration = 1
    MaxLate = 1
    MaxStray = 1
    MaxRetries = 1
    KeepsEpoch = TRUE
    None = None
    j1 = j1
    j2 = j2
    c1 = c1
    c2 = c2
CONSTRAINT
    InSome
INVARIANTS
    EffectOnce
    CancelSettles
    PauseHolds
    MaintenanceHolds
    ReleasedStaysPaused
PROPERTIES
    ReceiptsFaithful
    SettledStays
\* The bounds on commands, epochs and pauses let a behaviour stop.
CHECK_DEADLOCK FALSE
