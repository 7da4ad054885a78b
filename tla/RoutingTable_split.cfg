CONSTANTS
    HashBits = 3
    K = 2
    LastBits = 1
    NodeMaxPending = 1
    Respite = 1
    NULL = NULL
    OwnId <- MCOwnId
    Ids <- SplitIds
    Queriers <- OneQuerier
    ReplyTypes = {"RPing"}
    StartTime = 1
    MaxTime = 1
    MaxPending = 0
SPECIFICATION Spec
INVARIANTS TypeOK CountsMatch NodesAreFindable NoDuplicates LastBucketHasRoom InsertNeverFails GathersClosest DumpIsReadBack
