SPECIFICATION Spec
CONSTANTS
  Attempts = {a1, a2}
  Windows = {w1, w2}
  Buffer = 1
  KnownLists <- MCKnownLists
  LiveKeys <- MCLiveKeys
  Subscribed = {"hostKey"}
  Asks = {FALSE}
SYMMETRY Symmetry
INVARIANT DecidedByOwner
PROPERTY DestroyedCannotGrant
CHECK_DEADLOCK FALSE
