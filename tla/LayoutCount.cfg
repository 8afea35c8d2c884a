SPECIFICATION Spec
CONSTANTS
    Contents <- MCContents
    Continues <- MCContinues
    Label <- MCLabel
    PointerSize <- MCPointerSize
    Word <- MCWord
    Elements <- MCElements
    Arrays <- MCStringArrays
    MaxFields <- MCMaxFields
\* The struct has MaxFields fields.
CHECK_DEADLOCK FALSE
INVARIANT
    CountIsTheNumber
