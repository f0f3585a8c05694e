SPECIFICATION Spec
CONSTANTS
 Procs = {1, 2}
 MaxSeq = 8
 MaxBytes = 2
 MaxBoot = 2
 MaxWire = 2
 n1 = n1
 n2 = n2
 g1 = g1
 g2 = g2
 r1 = r1
 offline = "offline"
 cpu = "cpu"
 Nodes = {n1, n2}
 Groups = {g1, g2}
 RuleIds = {r1, r2}
 Kinds = {"offline", "cpu"}
 Resource = {"cpu"}
 Holds = {0, 1, 2}
 Repeats = {0, 2}
 Drafts <- MCDrafts
 MaxClock = 4
 MaxEvents = 3
 MaxAttempts = 2
 Window = 2
 Retention = 2
 Requests = {1, 2, 3}
 Plugins = {"p", "q"}
 Values = {"a"}
 PerMinute = 2
 PerDay = 3
 MaxGap = 2
 MaxTime = 9
 MaxEdits = 1
 Services = 2
 Purposes = {"observe"}
 Zones <- MCZones
 ScheduleDrafts <- MCScheduleDrafts
 Browsers = {1, 2}
 MaxVersion = 3
 MaxToken = 3
 MaxSessions = 2
 TTL = 5
 Minute = 2
 Shared = 2
 Own = 1
 MaxNow = 4
CONSTRAINT InSome
INVARIANTS TypeOK ReportsTrue AlertsTrue SecretsStayHome SchedulesTrue AccessTrue
PROPERTIES OwnerSawPredecessor AlarmsTrue
\* Once the bounds on time, requests, events and sessions are used up nothing is left to do.
CHECK_DEADLOCK FALSE
