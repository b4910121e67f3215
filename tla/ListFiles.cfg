SPECIFICATION Spec
CONSTANTS
    Names <- MCNames
    Directories <- MCDirectories
    ShrinkMoves = FALSE
INVARIANTS
    TypeOK
    ArrayIsSound
    NothingLeaks
    ListingIsComplete
