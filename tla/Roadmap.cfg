\* Two processes run, rerun and compensate against a human edit and a mishap,
\* and anyone may take a snapshot at any moment.
SPECIFICATION Spec
CONSTANTS
    Process = {p1, p2}
    Text = {t1, t2}
    Idle = Idle
    NoJournal = NoJournal
    NoMarker = NoMarker
    Facts <- FactsSeen
    Entries = {"controller", "operator", "compensation"}
    MaxEdits = 1
    MaxMishaps = 1
    MaxUndos = 1
CONSTRAINT FewSurprises
SYMMETRY SagaSymmetry
INVARIANTS OwnStepsResumable MidSagaNeverIdle ClaimOnlyWhenFree
PROPERTIES UnknownNeverMutated StatusFollowsReadback
CHECK_DEADLOCK FALSE
