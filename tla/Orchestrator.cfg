\* One run at the shipped autonomy class A2, driven by the supervisor, with
\* heads that move in CI, repairs and retries, into a second cycle.
SPECIFICATION Spec
CONSTANTS
    Sha = {s1, s2}
    Digest = {d1}
    PolicyHash = {h1, h2}
    MaxAttempts = 1
    MaxCycles = 2
    Run = {r1}
    Process = {p1}
    Profiles <- Both
    Entries = {"owner_intent"}
    Offered <- CommandLine
    Facts <- FactsA2
    Modes = {"trusted"}
    MaxRevision = 18
    MaxCrashes = 0
    MaxSurprises = 2
    None = None
    Idle = Idle
    NoRun = NoRun
CONSTRAINT FewSurprises
SYMMETRY ShaSymmetry
INVARIANTS MergeAcceptedByOwner AcceptanceBound SavedJournalsLoad
CHECK_DEADLOCK FALSE
