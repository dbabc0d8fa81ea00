SPECIFICATION Spec
CONSTANTS
    MaxDepth = 3
    TokenLen = 2
    ChunkMax = 2
    MaxFrame = 500
    AuthMax = 40
    Version = 1
    ReadFormat = 15
    Runs = {1, 2, 3}
    MaxCuts = 1
    MaxSamples = 1
    MaxCalls = 1
    MaxOpen = 2
    Dispatcher <- MCDispatcher
    BuiltIns <- MCBuiltIns
    Globals <- MCGlobals
    Imports <- MCImports
    Orders <- MCOrders
    RunFrames <- MCRunFrames
    Overrides <- MCOverrides
    Greetings <- MCGreetings
    UpSamples <- MCUpSamples
    DownSamples <- MCDownSamples
    EarlyGarbage <- MCEarlyGarbage
    LateGarbage <- MCLateGarbage
INVARIANTS
    WireExact
    CallsReachTheirHandler
    SurfaceHolds
CHECK_DEADLOCK FALSE
