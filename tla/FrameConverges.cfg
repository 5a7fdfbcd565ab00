SPECIFICATION FairSpec
CONSTANTS
    Clients = {"window"}
    SemanticCap = 2
    WireCap = 1
    UpCap = 2
    MaxInputs = 1
    MaxAsks = 0
    MaxChanges = 1
PROPERTIES Converges
CHECK_DEADLOCK FALSE
