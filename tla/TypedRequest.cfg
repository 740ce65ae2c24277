\* Six declarations, plain and multipart, every choice of arguments, two attempts.
CONSTANTS
    Declarations <- Declared
    Template <- IdTagId
    Holder <- Place
    Values <- TypeTexts
    Limit = 5
    MaxAttempts = 2
SPECIFICATION TypedSpec
INVARIANTS  ReplacedAsIfAtOnce AttemptsAlike
CHECK_DEADLOCK FALSE
