SPECIFICATION Spec
CONSTANTS
    i1 = i1
    i2 = i2
    Streams <- MCOneStream
    MaxBody = 2
    MaxReply = 1
INVARIANT
    EndedRequestIsProcessed
CHECK_DEADLOCK FALSE
