SPECIFICATION SessionSpec
CONSTANTS
    Names <- MCNames
    Hash <- MCHash
    Calls <- MCCalls
    Disks <- MCDisks
    Contents <- MCContents
    IntLimit = 1048576
    Unmapped = Unmapped
    Fault = Fault
    NoEntry = NoEntry
    NoStat = NoStat
    Nowhere = Nowhere
    NoImage = NoImage
    NoCall = NoCall
    NoRequest = NoRequest
    NoListing = NoListing
    NoAnswer = NoAnswer
    NoObject = NoObject
    Crashed = Crashed
INVARIANTS
    SessionTypeOK
    FollowsPath
    FindsFile
    ListedNamesExist
    FaultsNeedLostChunks
PROPERTIES
    ImplementsReadOnlyFs
    CallReturns
