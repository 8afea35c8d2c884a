SPECIFICATION Spec
CONSTANTS
    Iterations <- MCIterations
    Contexts <- MCContexts
    ContextOf <- MCContextOf
    Array <- MCArray
\* The iterations end.
CHECK_DEADLOCK FALSE
INVARIANTS
    TypeOK
    EndMeansAll
PROPERTIES
    EachIsAStream
    NoReaderHangs
    CancelEndsGoroutine
