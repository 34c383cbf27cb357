CONSTANTS
    MaxSlots = 3
    MaxPolls = 2
    MaxFaults = 1
SPECIFICATION Spec
CHECK_DEADLOCK FALSE
INVARIANT OneReofferAtATime
