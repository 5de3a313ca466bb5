\* A primary and two standbys, one peer; two crashes and one glitch.
SPECIFICATION FairSpec
CONSTANTS
  N = 3
  Peers = {p1}
  MaxCrashes = 2
  MaxGlitches = 1
INVARIANT TypeOK
INVARIANT EpochPersisted
INVARIANT SoleLeader
PROPERTY FreshEpoch
PROPERTY SomebodyLeads
CHECK_DEADLOCK FALSE
