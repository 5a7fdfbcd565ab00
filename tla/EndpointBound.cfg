SPECIFICATION FairSpec
CONSTANTS
    first = first
    second = second
    third = third
    Hosts <- MCHosts
    None = None
    MaxFailures = 2
    MaxCrashes = 2
INVARIANTS
    EndpointKept
PROPERTIES
    RefusedOnlyForLive
    Opens
CHECK_DEADLOCK FALSE
