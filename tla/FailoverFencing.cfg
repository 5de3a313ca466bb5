\* A datanode loses its connection after the primary came back.
SPECIFICATION Spec
CONSTANTS
  N = 2
  Peers = {p1}
  MaxCrashes = 1
  MaxGlitches = 1
PROPERTY PeersRejectStaleLeader
CHECK_DEADLOCK FALSE
