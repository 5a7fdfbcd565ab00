SPECIFICATION Spec
CONSTANTS
    Readers = {r1, r2}
    Terminals = {t1}
    EnterIds = {e1, e2}
    Texts = {d1}
    None = None
    MaxEnters = 2
    MaxHostEnters = 2
    RetainedEnters = 1
    MaxRevision = 3
    MaxEpoch = 3
INVARIANTS OneEnterPerTerminal EnterOwnerConnected PendingShown QueuedLineOwned
PROPERTIES EnterPressedAsAsked EnterDecided
CHECK_DEADLOCK FALSE
