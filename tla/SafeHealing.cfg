\* Two reporters of two symptoms, and two recipes that share seven transitions.
SPECIFICATION HealingSpec
CONSTANTS
    tests = tests
    build = build
    fix = fix
    workaround = workaround
    id1 = id1
    id2 = id2
    Recipe <- Recipes
    Fingerprint <- Symptoms
    Symptom <- Symptoms
    IncidentId <- Ids
    Match <- ForTests
    Harmful = {}
    NoRecipe = NoRecipe
    Saved = Saved
    Reporter = {a, b}
    Free = Free
    Quiet = Quiet
    MaxAttempts = 2
    MaxFalseHeals = 2
    MaxEvents = 2
    MaxHistory = 7
    MaxHeals = 2
CONSTRAINT Transitions
SYMMETRY ReporterSymmetry
INVARIANTS OneRecordPerSymptom FalseHealIsFinal QuarantineNeedsCertification
CHECK_DEADLOCK FALSE
