SPECIFICATION Spec
CONSTANTS
    Unmapped = Unmapped
    Fault = Fault
    Files <- MCSharedFiles
    Requests <- MCRequests
    IntLimit = 8
INVARIANT
    SkipsOffset
