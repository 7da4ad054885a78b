CONSTANTS
    HashBits = 2
    K = 1
    LastBits = 0
    NodeMaxPending = 2
    Respite = 100
    SearchRespite = 1
    NULL = NULL
    OwnId <- Own
    Remotes <- ThreeRemotes
    RealId <- BIsNowC
    Contacts <- MCContacts
    Holders <- OneHolder
    Queriers <- OneBootstrap
    Strays <- StrayKinds
    Bootstrap <- OneBootstrap
    Targets <- OneTarget
    TidSpace = 8
    SendFails = TRUE
    Duplicates = TRUE
    ErrorReplies = TRUE
    Prompt = FALSE
    StartTime = 100
    MaxTime = 101
    MaxT = 4
    MaxInbox = 1
SPECIFICATION Spec
INVARIANTS TypeOK RepliesMatchQueries ClientTableIsFirstHand
CHECK_DEADLOCK FALSE
