SPECIFICATION Spec
CONSTANTS
    Derive <- Selector
    Capacity = 3
    Ordered = FALSE
    MaxMutations = 3
INVARIANT QuietIsCurrent
CHECK_DEADLOCK FALSE
