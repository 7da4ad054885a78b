CONSTANTS
    HashBits = 2
    K = 1
    LastBits = 0
    NodeMaxPending = 2
    Respite = 1
    SearchRespite = 1
    NULL = NULL
    OwnId <- Own
    Askers <- OneAsker
    InfoHashes <- NearA
    Kinds = {"QPing", "BadData", "NoTid", "UnknownMethod"}
    SecretsLen = 2
    MaxPeers = 3
    SendFails = FALSE
    StartTime = 1
    MaxTime = 2
    MaxSecret = 1
    MaxInbox = 2
SPECIFICATION Spec
PROPERTIES InvalidQueriesAreAnswered
CHECK_DEADLOCK FALSE
