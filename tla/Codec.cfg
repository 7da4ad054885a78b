CONSTANTS
    NULL = NULL
    StringOrder <- MCStringOrder
    LongMax = 99999
    HashBytes = 20
    BufLen = 65507
    Exchanges <- MCExchanges
    HashNames <- MCHashNames
    Tid = "tt"
    Longer <- MCLonger
    Spare <- MCSpare
    Tails <- MCTails
SPECIFICATION Spec
INVARIANTS
    LengthIsPredicted
    RoundTrip
    TreeIsTheData
    
    KeysAreFound
    ErrorFreeIsComplete
CHECK_DEADLOCK FALSE
