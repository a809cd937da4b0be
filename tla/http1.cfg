SPECIFICATION MCFairSpec
CONSTANTS
    s1 = s1
    s2 = s2
    s3 = s3
    NoRequest = NoRequest
    BackendIds <- MCBackendIds
    Addresses <- MCAddresses
    Patterns <- MCPatterns
    Paths <- MCPaths
    RegisterPath <- MCRegisterPath
    TestPath <- MCTestPath
    Offered <- MCOffered
    Sessions <- MCThree
INVARIANTS
    TypeOK
    TrackedWhileOpen
    RegistryExplained
    ReplyExplained
PROPERTIES
    StateOnlyAdvances
    ConnectionIsExchange
    RequestsEnd
CHECK_DEADLOCK FALSE
