\* Imports only, with the faults of the stores and a crash.
SPECIFICATION TransactionSpec
CONSTANTS
  Owners = {o1}
  Secrets = {s1, s2}
  NoSecret = NoSecret
  Kinds = {"import"}
  MaxGraph = 2
  Graphs <- MCGraphs
  Budgets <- OnlyStoreFaults
  Reordered = FALSE
  r1 = r1
  c1 = c1
  e1 = e1
  None = None
SYMMETRY Symmetry
INVARIANTS
  PlannedBeforeGraph
