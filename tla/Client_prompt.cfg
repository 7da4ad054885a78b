CONSTANTS
    HashBits = 2
    K = 2
    LastBits = 1
    NodeMaxPending = 2
    Respite = 100
    SearchRespite = 1
    NULL = NULL
    OwnId <- Own
    Remotes <- TwoRemotes
    RealId <- MCRealId
    Contacts <- MCContacts
    Holders <- OneHolder
    Queriers = {}
    Strays = {}
    Bootstrap <- OneBootstrap
    Targets <- OneTarget
    TidSpace = 64
    SendFails = FALSE
    Duplicates = FALSE
    ErrorReplies = FALSE
    Prompt = TRUE
    StartTime = 100
    MaxTime = 120
    MaxT = 60
    MaxInbox = 0
SPECIFICATION FairSpec
INVARIANTS ContextsAreLive NeverAborts
PROPERTIES SearchesFinish AddedNodesJoin
