SPECIFICATION RegistrySpec
CONSTANTS
    b1 = b1
    b2 = b2
    b3 = b3
    BackendIds <- MCBackendIds
    Addresses <- MCAddresses
    Patterns <- MCPatterns
    Paths <- MCPaths
    RegisterPath <- MCRegisterPath
    TestPath <- MCTestPath
INVARIANT
    RegistryTypeOK
PROPERTY
    RoutingIsSticky
