CONSTANTS
    room = room
    alice = alice
    bob = bob
    null = null
    Meeting <- TheRoom
    Endpoints <- TwoEndpoints
    NullId <- TheNullId
    NoSocket = NoSocket
    NoBundle = NoBundle
    MaxHandlers = 5
SPECIFICATION Spec
CHECK_DEADLOCK FALSE
INVARIANTS TypeOK OneMediaKey CaughtUp
PROPERTIES EpochsGoUp RotationReaches
