SPECIFICATION FairSpec
CONSTANTS
    MaxRaw = 3
    Rest = 0
    RestScissor = 1
    Anchors <- MCAnchors
    FingerCurve <- MCFingerCurve
    PinchCurve <- MCPinchCurve
    ScissorCurve <- MCScissorCurve
    Shapes <- MCShapes
    PublishReference = TRUE
    RequireActivated = TRUE
    MaxCommands = 2
    MaxRestarts = 1
    BackendDepth = 1
    StatusDepth = 1
INVARIANTS SettledIsAsked SettledIsShown
PROPERTY PoseSettles
