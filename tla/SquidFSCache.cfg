SPECIFICATION Spec
CONSTANTS
    MaxHandles = 2
    MaxContents = 3
    MaxFaults = 1
    MaxOther = 1
INVARIANT TypeOK
INVARIANT CountsAreHandles
INVARIANT LockIsHandles
INVARIANT FlushFromCurrent
INVARIANT UnflushedWriteKept
INVARIANT CurrentVersionShown
CHECK_DEADLOCK FALSE
