SPECIFICATION Spec
CONSTANTS
 agent = agent
 command = command
 shaA = shaA
 shaB = shaB
 Programs <- MCPrograms
 Agent = agent
 Releases = {1, 2, 3}
 Signed = {1, 2, 3}
 Host <- MCHost
 Needs <- MCNeeds
 Shas = {shaA, shaB}
 ArtifactsOf <- MCArtifactsOf
 MaxEdits = 1
 MaxTx = 2
 MaxSeq = 1
 MaxEpoch = 2
 MaxPlans = 2
CONSTRAINT StagingFirst
INVARIANTS TypeOK StagedLasts
PROPERTIES SelectionApproved LifecycleTrue
\* Once the bounds on operations, faults and edits are used up nothing is left to do.
CHECK_DEADLOCK FALSE
