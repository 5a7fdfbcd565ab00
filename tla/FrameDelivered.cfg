SPECIFICATION Spec
CONSTANTS
    Clients = {"terminal", "launcher"}
    SemanticCap = 2
    WireCap = 1
    UpCap = 2
    MaxInputs = 1
    MaxAsks = 1
    MaxChanges = 1
INVARIANTS DamageFits EndIsExplained
PROPERTIES ScreenNeverGoesBack BarrierCoversInput
CHECK_DEADLOCK FALSE
