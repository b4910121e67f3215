SPECIFICATION Spec
CONSTANTS
    Names <- MCNames
    Directories <- MCDirectories
    ShrinkMoves = TRUE
INVARIANT
    CallerMayReadFiles
