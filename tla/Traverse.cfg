SPECIFICATION Spec
CONSTANTS
    Blocks <- MCBlocks
    Trees <- MCTrees
    Mappings <- MCTraverseMappings
INVARIANTS
    TypeOK
    HandlesEveryItem
PROPERTIES
    Termination
    ImplementsScan
