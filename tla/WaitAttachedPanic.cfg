SPECIFICATION Spec
CONSTANTS
    Conns = {c1, c2}
    Buffers = {b1}
    Terminals = {t1}
    None = None
    MaxWaitRequests = 1
    MaxToken = 2
    MaxActions = 1
SYMMETRY Symmetric
INVARIANTS AttachedWaitsExist
CHECK_DEADLOCK FALSE
