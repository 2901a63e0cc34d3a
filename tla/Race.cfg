\* Two processes start, observe, advance and save concurrently, by supervisor and
\* CLI steps, under fair scheduling and with a crash anywhere.
SPECIFICATION FairSpec
CONSTANTS
    Sha = {s1}
    Digest = {d1}
    PolicyHash = {h1}
    MaxAttempts = 0
    MaxCycles = 2
    Run = {r1, r2}
    Process = {p1, p2}
    Profiles <- ProductOnly
    Entries = {"owner_intent"}
    Offered <- Failing
    Facts <- Healthy
    Modes = {"trusted", "legacy"}
    MaxRevision = 2
    MaxCrashes = 1
    MaxSurprises = 2
    None = None
    Idle = Idle
    NoRun = NoRun
INVARIANTS AppliedAtMostOnce SingleActiveRun
PROPERTIES RunsFinish
CHECK_DEADLOCK FALSE
