SPECIFICATION Spec
CONSTANTS
    Conns = {c1, c2}
    Buffers = {b1, b2}
    Terminals = {t1}
    None = None
    MaxWaitRequests = 1
    MaxToken = 2
    MaxActions = 2
SYMMETRY Symmetric
INVARIANTS PendingHasWork ForcedNeverSucceeds
PROPERTIES OutcomeFinal CompletedWhenSaved NoWaiterAbandoned
CHECK_DEADLOCK FALSE
