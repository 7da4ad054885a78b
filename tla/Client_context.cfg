CONSTANTS
    HashBits = 2
    K = 1
    LastBits = 0
    NodeMaxPending = 2
    Respite = 100
    SearchRespite = 1
    NULL = NULL
    OwnId <- Own
    Remotes <- TwoRemotes
    RealId <- MCRealId
    Contacts <- MCContacts
    Holders <- OneHolder
    Queriers = {}
    Strays = {}
    Bootstrap <- TwoRemotes
    Targets <- OneTarget
    TidSpace = 64
    SendFails = FALSE
    Duplicates = FALSE
    ErrorReplies = FALSE
    Prompt = TRUE
    StartTime = 100
    MaxTime = 120
    MaxT = 60
    MaxInbox = 0
SPECIFICATION Spec
INVARIANTS ContextsAreLive
CHECK_DEADLOCK FALSE
