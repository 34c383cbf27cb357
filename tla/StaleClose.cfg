CONSTANTS
    room = room
    alice = alice
    bob = bob
    null = null
    Conferences <- OneConference
    Endpoints <- TwoEndpoints
    Sockets = {s1,s2}
    NullId <- TheNullId
    NoSocket = NoSocket
    MaxHandlers = 4
SPECIFICATION Spec
SYMMETRY Symmetry
CHECK_DEADLOCK FALSE
INVARIANT RemainingNotified
