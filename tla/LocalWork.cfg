\* Two workers over two issues and one workspace slot; leases expire in two minutes.
SPECIFICATION Spec
CONSTANTS
    first = first
    second = second
    Issue <- Issues
    Rank <- Ranks
    Autonomous <- Issues
    RecoveryType <- Nobody
    Deps <- NoDeps
    HeartbeatTimeout = 0
    StallTimeout = 0
    Ttl = 2
    MaxTime = 2
    MaxLeases = 2
    MaxActive = 1
    MaxRetries = 1
    Worker = {w1, w2}
    None = None
    QueueStates = {"READY", "IN_PROGRESS", "RECOVERY", "BLOCKED"}
CONSTRAINT Depth
SYMMETRY WorkerSymmetry
INVARIANTS OneAtWork
PROPERTIES UnsavedWorkKept LeaseLostByRight
CHECK_DEADLOCK FALSE
