SPECIFICATION HashSpec
CONSTANTS
    Buffers <- MCBuffers
INVARIANTS
    HashIsCrc32c
    SlicesAreAligned
