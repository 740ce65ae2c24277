\* The chain with the README's AuthInterceptor in it.
CONSTANTS
    Chain <- NestedRetries
    MaxRetries = 2
    Policy <- DefaultAndStubborn
SPECIFICATION Spec
INVARIANTS SignedRequestSent
CHECK_DEADLOCK FALSE
