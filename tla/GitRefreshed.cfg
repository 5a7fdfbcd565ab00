SPECIFICATION FairSpec
CONSTANTS
    MaxChanges = 2
    MaxAsks = 1
    MaxFailures = 1
INVARIANTS FlightsKnown FilesystemChangeKept
PROPERTIES CommitSeesIndex CatchesUp
CHECK_DEADLOCK FALSE
