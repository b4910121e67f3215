SPECIFICATION SearchSpec
CONSTANTS
    Arrays <- MCArrays
    SearchQueries <- MCQueries
INVARIANTS
    SearchTypeOK
    Contract
    RangeKeepsAnswer
PROPERTIES
    RangeHalves
