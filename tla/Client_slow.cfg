CONSTANTS
    HashBits = 2
    K = 1
    LastBits = 0
    NodeMaxPending = 2
    Respite = 100
    SearchRespite = 1
    NULL = NULL
    OwnId <- Own
    Remotes <- ThreeRemotes
    RealId <- MCRealId
    Contacts <- MCContacts
    Holders <- OneHolder
    Queriers = {}
    Strays = {}
    Bootstrap <- OneBootstrap
    Targets <- OneTarget
    TidSpace = 8
    SendFails = FALSE
    Duplicates = FALSE
    ErrorReplies = FALSE
    Prompt = FALSE
    StartTime = 100
    MaxTime = 102
    MaxT = 7
    MaxInbox = 0
SPECIFICATION Spec
INVARIANTS EveryQueryIsPending PendingQueriesAreOutstanding
PROPERTIES DoneSearchesAreComplete
CHECK_DEADLOCK FALSE
