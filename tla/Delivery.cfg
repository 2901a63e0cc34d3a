\* One piece of work of a durable run and one claimed by comment compete for the
\* one lease; two comments, two commits, main and the clock move once.
SPECIFICATION Spec
CONSTANTS
    Request <- Works
    Supervised <- Runs
    Backlogs <- Apart
    Ceiling = 1
    Retention = 2
    Ttl = 2
    HeartbeatTimeout = 1
    Process = {p1, p2}
    None = None
    MaxMain = 1
    MaxTime = 1
    MaxCommits = 2
    MaxComments = 2
    MaxDepth = 4
CONSTRAINT Depth
SYMMETRY ProcessSymmetry
INVARIANTS AnswersAreTrue ProjectionsTrusted MergedWasChecked ClosedIsReleased
CHECK_DEADLOCK FALSE
