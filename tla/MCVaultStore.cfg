\* A store with no readable snapshot left is not opened again: it may stop.
SPECIFICATION Spec
CONSTANTS
    Procs = {p1, p2}
    Edits = {e1, e2, e3}
    MaxGen = 3
    MaxPowerLoss = 1
    MaxRestart = 0
    MaxDamage = 1
    SyncTolerated = FALSE
SYMMETRY Symmetry
INVARIANTS
    NoAckedEditLost
    FailedEditNeverVisible
    AcceptedTokenIsCurrent
    RetentionCoversRecovery
    OneDamageRecoverable
    IInv
CHECK_DEADLOCK FALSE
