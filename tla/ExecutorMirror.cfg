SPECIFICATION FairSpec
CONSTANTS
    j1 = j1
    s1 = s1
    quiet = quiet
    news = news
    Jobs = {j1}
    Services = {s1}
    Levels = {quiet, news}
    Quiet = {quiet}
    PageSize = 2
    MaxRecords = 3
    MaxIdentity = 2
    MaxLate = 1
    Prunes = TRUE
    None = None
CONSTRAINT
    InSome
INVARIANTS
    TypeOK
    ConfirmedKept
    EndShown
PROPERTIES
    LogDelivered
    ShownTrue
    RecordsConfirmed
\* The bounds on records and identities let a behaviour stop.
CHECK_DEADLOCK FALSE
