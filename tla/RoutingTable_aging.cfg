CONSTANTS
    HashBits = 3
    K = 2
    LastBits = 1
    NodeMaxPending = 1
    Respite = 1
    NULL = NULL
    OwnId <- MCOwnId
    Ids <- AgingIds
    Queriers <- OneQuerier
    ReplyTypes = {"RFindNode"}
    StartTime = 1
    MaxTime = 3
    MaxPending = 1
SPECIFICATION Spec
INVARIANTS RefusedForAReason
PROPERTIES KeepsLiveNodes EvictsTheWorst
