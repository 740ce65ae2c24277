\* The same responses against what the header says of them.
CONSTANTS
    MaxObjects = 4
    MaxDepth = 5
SPECIFICATION Spec
INVARIANTS FailureReleasesAll
CHECK_DEADLOCK FALSE
