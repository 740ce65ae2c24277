\* Two calls, one of them without a failure callback.
CONSTANTS
    Calls = {bothCallbacks, successOnly}
    NoFail = {successOnly}
SPECIFICATION FairSpec
INVARIANTS CallbacksMatchOutcome NeverInsideItself
PROPERTIES EveryCallReported
CHECK_DEADLOCK FALSE
