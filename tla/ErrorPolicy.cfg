\* Statuses inside, outside and at the edges of the lists; two retries.
CONSTANTS
    Statuses = {200, 302, 400, 401, 403, 404, 407, 408, 409, 412, 418, 422, 429,
                500, 501, 502, 503, 504, 599}
    LinkErrors = {"ConnectionRefused", "RemoteHostClosed",
                  "TemporaryNetworkFailure", "SslHandshakeFailed",
                  "ProxyAuthenticationRequired", "ContentNotFound",
                  "ContentAccessDenied", "OperationCanceled"}
    MaxRetries = 2
SPECIFICATION Spec
INVARIANTS JudgedAlike TransientOutlived
CHECK_DEADLOCK FALSE
