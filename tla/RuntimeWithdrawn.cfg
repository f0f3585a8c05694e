SPECIFICATION FairSpec
CONSTANTS
    Offered = {"stage"}
    Inputs <- TwoInputs
    Enrollments <- OneAgent
    MaxRequests = 1
    MaxEpoch = 1
    MaxLate = 0
    Controls = {"cancel"}
    Serving = {FALSE}
    None = None
PROPERTIES
    ChannelReported
\* The bound on requests lets a behaviour stop.
CHECK_DEADLOCK FALSE
