\* Every order of losing up to MaxLost facts, for one action of each autonomy
\* class, an unknown action and an unknown autonomy class.
SPECIFICATION DecaySpec
CONSTANTS
    Actions = {"reconcile", "edit", "claim", "merge", "owner_accept", "delete", "unlisted"}
    Autonomies = {2, 3, 4, 7}
    Risks = {1, 4}
    WorkTypes = {"feature", "recovery"}
    MaxLost = 3
INVARIANTS OwnerActionsNeedOwner
PROPERTY LossNeverLoosens
CHECK_DEADLOCK FALSE
