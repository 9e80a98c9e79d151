SPECIFICATION Spec
CONSTANTS
    Procs = {p1}
    Edits = {e1, e2}
    MaxGen = 2
    MaxPowerLoss = 1
    MaxRestart = 0
    MaxDamage = 0
    SyncTolerated = TRUE
SYMMETRY Symmetry
INVARIANTS
    NoAckedEditLost
