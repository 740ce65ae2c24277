\* A four-bit int: 9 wraps to a negative timeout, 19 to a small one, 16 to none.
CONSTANTS
    IntMax = 7
    Milliseconds = {0, 3, 9, 19}
    ClientTimeouts = {5, 16}
    Redirects <- Builders
    QtRedirects = 50
    Common = {"Authorization", "Accept", "ContentType"}
SPECIFICATION Spec
INVARIANTS PathsAgree ExplicitTypeWins CommonHeadersSent ClientLimitsApply
CHECK_DEADLOCK FALSE
