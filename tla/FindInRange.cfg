SPECIFICATION RangeSpec
CONSTANTS
    Blocks <- MCBlocks
    Trees <- MCTrees
    Mappings <- MCMappings
    Queries <- MCQueries
    Wild = Wild
    Null = Null
    NotFound = NotFound
    Pending = Pending
INVARIANTS
    TypeOK
    SubtreeHoldsAnswer
    ReturnsAnswer
    CrashMeansUnmapped
PROPERTIES
    Termination
    ImplementsLookup
