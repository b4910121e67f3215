SPECIFICATION Spec
CONSTANTS
    Unmapped = Unmapped
    Fault = Fault
    Files <- MCFiles
    Requests <- MCRequests
    IntLimit = 8
INVARIANTS
    TypeOK
    ReadsContent
    StaysInBuffer
    ReadsToTheEnd
    NoForeignBytes
PROPERTIES
    Termination
