\* 3-, 4- and 9-bit integers and a double of 6: every value of every type; records
\* three levels deep.
CONSTANTS
    ShortBits = 3
    IntBits = 4
    LongBits = 9
    DoubleBits = 6
    Classes <- AllClasses
    EnumKey <- TwoKeys
    Objects <- AllObjects
SPECIFICATION Spec
INVARIANTS RoundTrip EditsAreLocal ChecksReachDown NumbersSurvive
CHECK_DEADLOCK FALSE
