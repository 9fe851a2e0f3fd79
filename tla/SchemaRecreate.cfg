\* An enum type that loses a variant while a column has it.
CONSTANTS
    Families <- EnumFamily
    Recreating = TRUE
SPECIFICATION EvolutionSpec
INVARIANTS PlansReachTheirTarget
CHECK_DEADLOCK FALSE
