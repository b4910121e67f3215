SPECIFICATION Spec
CONSTANTS
    Unmapped = Unmapped
    Fault = Fault
    Images <- MCTwoStripes
INVARIANT
    EveryStripeResolves
