SPECIFICATION Spec
CONSTANTS
    Blocks <- MCBlocks
    Trees <- MCTrees
    Mappings <- MCMappings
    Queries <- MCQueries
    Wild = Wild
    Null = Null
    NotFound = NotFound
    Pending = Pending
INVARIANT
    AbsentKeyReturnsNull
