SPECIFICATION MCFairSpec
CONSTANTS
    t1 = t1
    t2 = t2
    Nobody = Nobody
    Threads <- MCThreads
    Sessions = {1, 2}
    Forwards = {1}
INVARIANTS
    TypeOK
    OneReaderPerSession
    PoolNeverStuck
PROPERTIES
    HandlersRun
    ShutdownCompletes
CHECK_DEADLOCK FALSE
