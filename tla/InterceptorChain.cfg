\* Six layers, two of them retrying up to twice.
CONSTANTS
    Chain <- NestedRetries
    MaxRetries = 2
    Policy <- DefaultAndStubborn
SPECIFICATION FairSpec
INVARIANTS OutsideIn EnteredPerAttempt ErrorsExhausted GoneOnce
PROPERTIES InnerFirst OnlyLivingAct AlwaysAnswered
CHECK_DEADLOCK FALSE
