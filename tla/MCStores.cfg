\* Two transactions on two accounts or one; rotations of two or three epochs over two objects; two faults;
\* two windows stage two secrets of one or two bytes under two references, with two commands in flight.
SPECIFICATION SuiteSpec
CONSTANTS
  NoSecret = NoSecret
  s = s
  s1 = s1
  s2 = s2
  o1 = o1
  o2 = o2
  Refs = {s1, s2}
  Owners = {o1, o2}
  Callers = {c1, c2}
  Sizes = {1, 2}
  MaxEntries = 2
  MaxPerOwner = 2
  MaxBytes = 3
  TTL = 1
  MaxTime = 1
  MaxSecrets = 2
SYMMETRY Symmetry
INVARIANTS
  StoresAgree
  NoSecretLost
  RestartSafe
  NothingLost
  StagedSound
PROPERTIES
  GroupIsAtomic
  FinishedStaysFinished
CHECK_DEADLOCK FALSE
