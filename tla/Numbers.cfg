SPECIFICATION Spec
CONSTANTS
    Contents <- MCData
    ByteBits = 4
    WordBits = 8
    Bases <- MCBases
    Starts <- MCStarts
    Ends <- MCEnds
    Bitmaps <- MCBitmaps
    Enumerations <- MCEnumerations
    Factors <- MCFactors
    Second = 5
    Tick = 2
    Epoch = 4
    Years <- MCYears
    MaxDepth = 3
\* One value is parsed.
CHECK_DEADLOCK FALSE
INVARIANTS
    TypeOK
    BitFieldIsASlice
    FlagsNameSetBits
    EnumerationNamesItsNumber
    VarintsReadBack
    VarintsAreNoNumbers
    TimestampIsInItsSecond
