SPECIFICATION FairSpec
CONSTANTS
    d1 = d1
    d2 = d2
    d3 = d3
    NoRequest = NoRequest
    BackendIds <- MCBackendIds
    Addresses <- MCAddresses
    Patterns <- MCPatterns
    Paths <- MCPaths
    RegisterPath <- MCRegisterPath
    TestPath <- MCTestPath
    Offered <- MCOffered
    Calls <- MCThree
INVARIANTS
    TypeOK
    AnswersBalance
    RegistryExplained
    ForwardingExplained
PROPERTIES
    DispatchIsExchange
    ForwardedIsAnswered
CHECK_DEADLOCK FALSE
