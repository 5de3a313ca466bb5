\* One follower, a client or a standby, and two pool threads: two writes while it
\* connects, or one write and one fault while it connects twice.  Both threads
\* may be lost, so the system may stop.
SPECIFICATION FairSpec
CONSTANTS
  Workers = {w1, w2}
  MaxWrites = 2
  MaxConns = 2
  Scenarios <- Either
INVARIANT TypeOK
INVARIANT InStep
INVARIANT StaysRegistered
PROPERTY CatchesUp
PROPERTY DeadStandbyLeaves
CHECK_DEADLOCK FALSE
