\* Workflow jobs one after another and a private host carry two runs of one issue.
SPECIFICATION Spec
CONSTANTS
    job = job
    host = host
    i1 = i1
    Site <- Sites
    Job <- Jobs
    Host <- Hosts
    Rank <- Ranks
    Run = {r1, r2}
    Work = {i1}
    Trunk = Trunk
    None = None
    Serial = TRUE
    Handovers = 1
    Offered = {"RETRY_WAIT", "COMPLETE"}
    LoseAll = FALSE
    MaxLedgers = 2
    MaxMain = 1
    MaxLeases = 1
    MaxRevision = 2
    MaxFailures = 1
CONSTRAINT Depth
SYMMETRY RunSymmetry
INVARIANTS OneRunPerLease AcknowledgedIsRead
PROPERTY RunGoesForward
CHECK_DEADLOCK FALSE
