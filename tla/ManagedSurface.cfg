\* One operator adopts and detaches two files, one of them guarded, beside one
\* consumer edit; two deaths or failures, so a recovery may die as well.
SPECIFICATION LiveSpec
CONSTANTS
    Order <- MCOrder
    SharedGuarded <- MCShared
    Nested <- MCNested
    Foreign = {"mine"}
    Process = {"w"}
    Consumer = Consumer
    Idle = Idle
    MaxEdits = 1
    MaxMishaps = 2
    MaxOverlaps = 0
INVARIANTS StatusIsTrue
PROPERTIES ConsumerBytesSurvive Settles
CHECK_DEADLOCK FALSE
