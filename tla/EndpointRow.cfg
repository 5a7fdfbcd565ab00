SPECIFICATION Spec
CONSTANTS
    first = first
    second = second
    third = third
    Hosts <- MCHosts
    None = None
    MaxFailures = 0
    MaxCrashes = 1
INVARIANT
    RowKept
CHECK_DEADLOCK FALSE
