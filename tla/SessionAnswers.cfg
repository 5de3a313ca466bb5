SPECIFICATION FairSpec
CONSTANTS
    MaxCalls = 2
    MaxPushes = 2
    PushKinds = {"push", "del", "rel"}
INVARIANT OneHandlerAtATime
INVARIANT StoredBytesAreOwn
INVARIANT AcksAreOwnUndisturbed
PROPERTY BegunCallReturns
CHECK_DEADLOCK FALSE
