SPECIFICATION FairSpec
CONSTANTS
    repo = repo
    start = start
    status = status
    stage = stage
    NoKey = NoKey
    Repositories = {repo, start}
    Operations <- MCOperations
    Capacity = 2
    MaxWorkers = 1
    MaxRequests = 4
    MaxCancels = 1
INVARIANTS TicketIsFirst GenerationsOrderViews
PROPERTIES AnswersInOrder EveryRequestAnswered
CHECK_DEADLOCK FALSE
