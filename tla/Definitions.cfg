SPECIFICATION Spec
CONSTANTS
    Lists <- MCLists
    Sample <- MCSample
    Unknown <- MCUnknown
    MaxArgs <- MCMaxArgs
\* A definition is decoded once.
CHECK_DEADLOCK FALSE
INVARIANTS
    TypeOK
    DecodersAgree
    OptionsAreChecked
    NoOptionIsLost
