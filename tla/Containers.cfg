CONSTANTS
    NULL = NULL
    Garbage = Garbage
    ExpandRate = 2
    Values = {v1, v2}
    InitialMax = 2
    MaxElements = 6
    k1 = k1
    k2 = k2
    k3 = k3
    k4 = k4
    k5 = k5
    Keys = {k1, k2, k3, k4, k5}
    Data = {v1, v2}
    HashOf <- MCHashOf
    NumberOfBuckets = 2
    h1 = h1
    h2 = h2
    HookSet = {h1, h2}
    HookTypeMax = 2
    TypeOf <- MCTypeOf
    ListNodes = {n1, n2, n3}
    MaxDepth = 2
SYMMETRY Symmetry
INIT Init
NEXT Next
INVARIANTS
    PushStaysInside
    BucketsAreSound
    ListsAreLinked
    WalksAreSafe
PROPERTIES
    IsASequence
    IsAMap
    RunsEveryHook
CHECK_DEADLOCK FALSE
