SPECIFICATION Spec
CONSTANTS
  Base = 6
  MaxFile = 4
  MaxPayload = 1000
  Messages <- MCMessages
  MaxMessages = 2
  PathOrder <- MCPathOrder
  Threads = {t1, t2}
  MaxJobs = 3
  MaxRestarts = 1
  Files = {f1, f2, f3}
  MaxVersion = 1
INVARIANT TypeOK
INVARIANT ReaderInStep
INVARIANT SaysTheSame
INVARIANT FileMatchesMemory
INVARIANT CrashKeepsVersions
INVARIANT PlanReconciles
CHECK_DEADLOCK FALSE
