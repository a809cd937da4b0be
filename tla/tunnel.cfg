SPECIFICATION MCFairSpec
CONSTANTS
    NoCall = NoCall
    Http2Calls <- MCOperations
    p = p
    AppCalls <- MCAppCalls
    TunnelIds <- MCTunnelIds
    AppId = "app"
    LocalRule <- MCLocalRule
    BackendIds <- MCBackendIds
    Addresses = {"A"}
    Patterns <- MCPatterns
    Paths <- MCPaths
    RegisterPath <- MCRegisterPath
    TestPath <- MCTestPath
INVARIANTS
    TypeOK
    CalledBackAtMostOnce
    SoloResponseIsOwn
    SuccessIsTrue
    OrderlyMeansDone
    CallbackNotForgotten
PROPERTIES
    CallsAreAnswered
CHECK_DEADLOCK FALSE
