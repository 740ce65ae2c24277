\* One request with a timeout beside one without, one retry, and the fairness
\* of the event loop.
CONSTANTS
    Requests = {timedReq, plainReq}
    Timed = {timedReq}
    Multipart = {timedReq}
    Misused = {}
    MaxRetries = 1
    Retryable <- DefaultRetryable
SPECIFICATION FairSpec
INVARIANTS TypeOK RetryBound PreviousReplyGone QuietAfterDestroy
    OutcomeIsLastAttempt PendingHasCause ReclaimedOnce
PROPERTIES ImplementsContract
CHECK_DEADLOCK FALSE
