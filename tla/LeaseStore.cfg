\* Two controllers, three requests of which two nest; claim, conflict, renewal
\* and release in three revisions, with one failed call.
SPECIFICATION Spec
CONSTANTS
    Request <- Writers
    Ceiling = 2
    Retention = 3
    Ttl = 2
    HeartbeatTimeout = 1
    Process = {p1, p2}
    Idle = Idle
    MaxMain = 1
    MaxTime = 2
    MaxRevision = 3
    MaxFailures = 1
SYMMETRY ProcessSymmetry
INVARIANTS ChainVerifies GrantedNeverLost WritersDisjoint
PROPERTY ImplementsService
CHECK_DEADLOCK FALSE
