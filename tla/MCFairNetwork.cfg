\* Requests without a timeout, one of them misused, for three attempts under a
\* policy that retries every error, when every reply finishes.
CONSTANTS
    Requests = {plainReq, misusedReq}
    Timed = {}
    Multipart = {misusedReq}
    Misused = {misusedReq}
    MaxRetries = 2
    Retryable <- RetryAnything
SPECIFICATION FairNetworkSpec
PROPERTIES AnsweredUnlessLost
CHECK_DEADLOCK FALSE
