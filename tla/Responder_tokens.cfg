CONSTANTS
    HashBits = 2
    K = 1
    LastBits = 0
    NodeMaxPending = 2
    Respite = 1
    SearchRespite = 1
    NULL = NULL
    OwnId <- Own
    Askers <- TwoAskers
    InfoHashes <- NearA
    Kinds = {"QGetPeers", "QAnnouncePeer", "OddTid", "NoTid", "UnknownMethod"}
    SecretsLen = 2
    MaxPeers = 2
    SendFails = FALSE
    StartTime = 1
    MaxTime = 2
    MaxSecret = 3
    MaxInbox = 2
SPECIFICATION Spec
INVARIANTS GracePeriod PeersHeldTokens PeerCountsMatch
CHECK_DEADLOCK FALSE
