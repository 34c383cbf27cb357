CONSTANTS
    MaxSlots = 3
    MaxPolls = 2
    MaxFaults = 1
SPECIFICATION Spec
CHECK_DEADLOCK FALSE
INVARIANTS TypeOK KeysBeforeOffer FreshOfferOnce SlotsAccounted QuietMeansNegotiated
PROPERTIES GrowthNegotiated FollowsOfferAnswer
