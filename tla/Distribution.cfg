SPECIFICATION Spec
CONSTANTS
 None = None
 Torn = Torn
 Builds <- MCBuilds
 Shipped <- MCShipped
 Panel <- MCPanel
 Keys = {"k1", "k2"}
 MaxClicks = 2
 MaxLives = 3
 MaxCopies = 2
 MaxFaults = 2
 CCs = {"c", "d"}
 FirstCC = "c"
 Callers = {1, 2}
 MaxFlows = 2
 MaxNow = 2
 Lifetime = 2
 MaxInterval = 2
 Stores = {"plugin", "theme"}
 Ids = {"a", "m"}
 Manager = "m"
 Listings <- MCListings
 Grants <- MCGrants
 Probe = 4
 TrustedKeys = {"cc"}
 MaxInstalls = 2
 MaxStarts = 4
 MaxChanges = 2
 MaxCuts = 2
CONSTRAINT InSome
INVARIANTS TypeOK UpgradeTrue MarketTrue PluginsTrue
\* Once the bounds on upgrades, installations, starts and faults are used up nothing is left to do.
CHECK_DEADLOCK FALSE
