SPECIFICATION Spec
CONSTANTS
    Structs <- MCStructs
    Fields <- MCFields
    Def <- MCDef
    SizeLambda <- MCSizeLambda
    Shown <- MCShown
    Roots <- MCRoots
    Count <- MCCount
    Unreadable <- MCUnreadable
    MaxCalls <- MCMaxCalls
    MaxEpoch <- MCMaxEpoch
    Reading <- MCReading
    Depth <- MCDepth
\* The user stops after MaxCalls calls.
CHECK_DEADLOCK FALSE
INVARIANTS
    TypeOK
    ConsistentView
    NoReentry
    ParentKnowsChild
    JsonEnds
    Nesting
    MeasuredWithoutParent
PROPERTIES
    OneAnswerPerField
    Terminates
