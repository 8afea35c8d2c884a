SPECIFICATION Spec
CONSTANTS
    g1 = g1
    g2 = g2
    g3 = g3
    Goroutines <- MCGoroutines
    TypeNames <- MCTypeNames
    Choices <- MCChoices
    TypeOf <- MCTypeOf
    Element <- MCElement
    Values <- MCValues
    Default = "default"
    None = None
SYMMETRY Symmetry
\* A crashed program does not go on.
CHECK_DEADLOCK FALSE
INVARIANTS
    TypeOK
    SettledIsComplete
    OnlyRacesGoWrong
