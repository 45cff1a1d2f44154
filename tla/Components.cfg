SPECIFICATION MCSpec
CONSTANTS
    Methods = {"GET"}
    Urls <- RegisteredUrls
    Paths <- AskedPaths
    Vectors <- SomeVectors
    Callers = {a, b, c}
    Owner = c
    Clients = {c1, c2}
    PtrThreads <- TwoThreads
    SharedPtrs <- SharedVars
    UniquePtrs <- UniqueVars
    ThreadPtrs <- ThreadVars
    PtrOwner <- Owners
    MaxObjects = 3
    _ysize = 4
    MaxConnections = 2
    MaxExits = 2
    MaxRequests = 2
    JsonVars <- TwoVars
    Scalars <- SomeScalars
    Names = {k}
    Repeats = {1, 8}
    StringVars <- TwoVars
    Texts <- SomeTexts
    Numbers <- ShortAndLong
    StringCaps = {0, 1, 4}
    Rank <- SomeBytes
    MaxSize = 8
    StringCalls = 4
    ArrayVars <- TwoVars
    Values = {"u", "v"}
    Lists <- SomeLists
    ArrayCaps = {0, 1, 2}
    MaxLen = 3
    Keys = {1, 2, 3}
    Vals = {"u", "v"}
    _capacity = 2
    MaxCalls = 5
INVARIANTS DeletedOnce NobodySleepsThroughSignal RowsStay HandleUsedOnce
    ImplDeletedOnce CallbacksStop StringsHoldTheirText ArraysOwnTheirElements OldestForgotten TreesWhole
PROPERTIES LookupsFollowRegistrations KnownPathsOnlyRead
CHECK_DEADLOCK FALSE
