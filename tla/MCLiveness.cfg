\* Two sessions, one forward, one file of a directory, one detection, one telnet session, one received file; one transaction, one rotation, one prompt, one staged secret, one log.
SPECIFICATION FairSpec
CONSTANTS
  NoStart = NoStart
  f1 = f1
  c1 = c1
  c2 = c2
  r1 = r1
  r2 = r2
  NoSecret = NoSecret
  o1 = o1
  s1 = s1
  s2 = s2
  b1 = b1
  w1 = w1
PROPERTIES
  StoppedEnds
  HeldIsReleased
  EveryWaitEnds
  RecoveryEnds
  NothingStays
CHECK_DEADLOCK FALSE
