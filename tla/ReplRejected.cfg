\* One broken connection during an update.
SPECIFICATION Spec
CONSTANTS
  N = 2
  RF = 2
  Writers = {w1}
  CrashInRewrite = FALSE
  CreateOver = FALSE
  MaxWrites = 2
  Scenarios <- OneBreakRead
INVARIANT RejectedBytesUnread
CHECK_DEADLOCK FALSE
