\* Two datanodes, one client at a time, and one fault: a connection breaks
\* anywhere, with the rollback, eviction, rebalancing and rejoining it leads
\* to, or the server restarts between two steps, deletes included.  Every
\* thread may end up in a call that never returns, so the system may stop.
SPECIFICATION Spec
CONSTANTS
  N = 2
  RF = 2
  Writers = {w1}
  CrashInRewrite = FALSE
  CreateOver = FALSE
  MaxWrites = 2
  Scenarios <- OneFault
INVARIANT TypeOK
 
INVARIANT PersistedUnlessOvertaken
INVARIANT FreshUnlessOverlapped
PROPERTY VersionUnlessOutdone
PROPERTY CommittedOnQuorum
CHECK_DEADLOCK FALSE
