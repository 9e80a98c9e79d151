SPECIFICATION Spec
CONSTANTS
    Procs = {p1}
    Edits = {e1, e2, e3}
    MaxGen = 3
    MaxPowerLoss = 1
    MaxRestart = 1
    MaxDamage = 0
    SyncTolerated = FALSE
SYMMETRY Symmetry
PROPERTY ImplementsDurableVault
