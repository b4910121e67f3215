SPECIFICATION Spec
CONSTANTS
    Unmapped = Unmapped
    Fault = Fault
    Images <- MCImages
INVARIANTS
    TypeOK
    HeapIsReachable
    NothingLeaks
    OpenMapsImage
    CrashNeedsLostChunks
PROPERTIES
    PrependKeepsMap
    OpenAndCloseReturn
