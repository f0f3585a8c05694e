SPECIFICATION WorkloadSpec
CONSTANTS
    n1 = n1
    n2 = n2
    a = a
    b = b
    c = c
    d = d
    e = e
    f = f
    t1 = t1
    t2 = t2
    r1 = r1
    u1 = u1
    Nodes = {n1, n2}
    Tasks = {a, b, c, d, e, f}
    Probes = {t1, t2, r1, u1}
    Kind <- ProbeKinds
    Definitions <- TaskProbes
    Bindings <- TaskNodes
    Pausable = {d}
    Interval <- Intervals
    Window <- Windows
    Limit <- Limits
    ParallelNodes = {n1}
    RetryDelay = 1
    Retention = 3
    CellSize = 1
    MaxTime = 5
    MaxJobs = 5
    MaxEdits = 5
    MaxPurges = 2
CONSTRAINT
    InSome
INVARIANTS
    TypeOK
    LatestTrue
    PurgesTrue
    TurnsFair
\* The bounds on time and jobs let a behaviour stop.
CHECK_DEADLOCK FALSE
