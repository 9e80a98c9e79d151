\* Two transactions on one account, of every flow, under each of the budgets; starts, a stop and an edit of a rule.
SPECIFICATION SuiteSpec
CONSTANTS
  Owners = {o1}
  Secrets = {s1, s2}
  NoSecret = NoSecret
  Kinds = {"identity", "host", "import"}
  MaxGraph = 2
  Graphs <- MCGraphs
  Budgets <- MCBudgets
  Reordered = FALSE
  r1 = r1
  c1 = c1
  e1 = e1
  None = None
SYMMETRY Symmetry
INVARIANTS
  StoresAgree
  NoSecretDestroyed
  ResultTruthful
  RecoveryDecides
  RollbackIsExact
  GraphHasBlobs
  TunnelsSound
