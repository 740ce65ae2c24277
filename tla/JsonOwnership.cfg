\* Objects, gadgets and lists nested in one another, below either root.
CONSTANTS
    MaxObjects = 5
    MaxDepth = 6
SPECIFICATION Spec
INVARIANTS NothingDangles OnlyGadgetsLeak
CHECK_DEADLOCK FALSE
