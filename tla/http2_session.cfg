SPECIFICATION FairSpec
CONSTANTS
    i1 = i1
    i2 = i2
    Streams <- MCStreams
    MaxBody = 3
    MaxReply = 2
INVARIANTS
    TypeOK
    StreamDataLive
    BodyAccounted
    LastDispatchComplete
    NoDispatchForgotten
    OneReplyPerWholeRequest
PROPERTIES
    DispatchedStreamsClose
CHECK_DEADLOCK FALSE
