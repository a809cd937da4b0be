SPECIFICATION ServerSpec
CONSTANTS
    d1 = d1
    d2 = d2
    s1 = s1
    NoRequest = NoRequest
    BackendIds <- MCBackendIds
    Addresses <- MCAddresses
    Patterns <- MCPatterns
    Paths <- MCPaths
    RegisterPath <- MCRegisterPath
    TestPath <- MCTestPath
    Offered <- MCOffered
    Calls <- MCCalls
    Sessions <- MCSessions
INVARIANT
    RegistrationMethodNotAllowed
CHECK_DEADLOCK FALSE
