\* One operator applies, recovers and projects an upgrade of two files, the profile
\* and two sidecars, beside one consumer edit; a call dies once, anywhere.
SPECIFICATION LiveSpec
CONSTANTS
    Entries <- MCEntries
    Profile <- MCProfile
    Sidecars <- MCSidecars
    Plans <- MCPlans
    Nested <- MCNested
    Foreign = {"mine"}
    Process = {"w"}
    Idle = Idle
    None = None
    MaxEdits = 1
    MaxMishaps = 1
INVARIANTS SourceSurvives StatusIsTrue
PROPERTIES ConsumerBytesSurvive Settles
CHECK_DEADLOCK FALSE
