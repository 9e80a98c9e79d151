\* Three sessions on transports that hold two; three or four commands of a telnet peer, or three lines.
SPECIFICATION SuiteSpec
CONSTANTS
  Sessions = {s1, s2, s3}
  MaxPerTransport = 2
  QueueSize = 1
SYMMETRY Symmetry
INVARIANTS
  TransportSound
  Agreement
PROPERTIES
  NoLateLogin
CHECK_DEADLOCK FALSE
