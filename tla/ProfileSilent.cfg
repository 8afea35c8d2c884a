SPECIFICATION Spec
CONSTANTS
    Names <- MCNames
    ModelTypes <- MCModelTypes
    OptionTypes <- MCOptionTypes
    Definitions <- MCDefinitions
    MaxLoads <- MCMaxLoads
INVARIANTS
    InvalidIsReported
