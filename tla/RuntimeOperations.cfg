SPECIFICATION WorkloadSpec
CONSTANTS
    Offered = {"stage", "install", "select", "drain", "activate", "enable"}
    Inputs <- TwoInputs
    Enrollments <- Nodes
    MaxRequests = 4
    MaxEpoch = 2
    MaxLate = 1
    Controls = {"cancel", "bind", "edit", "switch"}
    Serving = {TRUE, FALSE}
    None = None
ACTION_CONSTRAINT
    Allowed
INVARIANTS
    TypeOK
    ExecutedTrue
    ReceiptsTrue
PROPERTIES
    SettledTrue
    UndisturbedSettle
\* The bound on requests lets a behaviour stop.
CHECK_DEADLOCK FALSE
