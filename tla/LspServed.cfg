SPECIFICATION FairSpec
CONSTANTS
    d1 = d1
    d2 = d2
    s1 = s1
    s2 = s2
    None = None
    Servers = {s1}
    Docs = {d1}
    ServerOf <- MCServerOf
    Syncs <- MCSyncs
    Definitions = {"one"}
    CommandCap = 2
    ControlCap = 1
    WireCap = 2
    PendingCap = 1
    GlobalPendingCap = 1
    MaxGeneration = 2
    MaxEdits = 1
    MaxTokens = 1
    MaxUpheavals = 1
INVARIANTS RequestsAccounted BeliefCorrected DocumentsAgree
PROPERTIES RequestsEnd
CHECK_DEADLOCK FALSE
