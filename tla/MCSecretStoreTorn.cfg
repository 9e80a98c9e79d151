\* Rotations of up to two epochs over two objects; one kill, which may leave a temporary file half written.
SPECIFICATION TornSpec
CONSTANTS
  NoSecret = NoSecret
  s = s
  s1 = s1
  s2 = s2
  o1 = o1
  o2 = o2
  Refs = {s1, s2}
  Owners = {o1, o2}
  Callers = {c1, c2}
  Sizes = {1, 2}
  MaxEntries = 2
  MaxPerOwner = 2
  MaxBytes = 3
  TTL = 1
  MaxTime = 1
  MaxSecrets = 2
INVARIANT TornRotationRestarts
CHECK_DEADLOCK FALSE
