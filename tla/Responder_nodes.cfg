CONSTANTS
    HashBits = 2
    K = 1
    LastBits = 0
    NodeMaxPending = 2
    Respite = 1
    SearchRespite = 1
    NULL = NULL
    OwnId <- Own
    Askers <- ThreeAskers
    InfoHashes <- NearA
    Kinds = {"QPing", "QFindNode", "RPing", "BadData"}
    SecretsLen = 2
    MaxPeers = 3
    SendFails = TRUE
    StartTime = 1
    MaxTime = 2
    MaxSecret = 1
    MaxInbox = 2
SPECIFICATION FairSpec
INVARIANTS TypeOK RepliesHoldLiveNodes
PROPERTIES QueriesAreHandled
