SPECIFICATION Spec
CONSTANTS
    Names <- MCNames
    ModelTypes <- MCModelTypes
    OptionTypes <- MCOptionTypes
    Definitions <- MCDefinitions
    MaxLoads <- MCMaxLoads
INVARIANTS
    TypeOK
    SuccessMeansResolved
    RetryNeverRepairs
    LoggedOnce
    SilentOnlyIfMasked
PROPERTIES
    DecidedOnce
