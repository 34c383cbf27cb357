CONSTANTS
    Renderers = {0, 1, 2}
    MaxSlots = 2
    MaxOffers = 2
    MaxRenderers = 2
    MaxWindows = 1
    MaxFrames = 2
SPECIFICATION Spec
CHECK_DEADLOCK FALSE
INVARIANTS TypeOK FramesReachLiveSinks ReceiversKeyedOnce NoWindowLeft
PROPERTIES FrameShown CloseReturns ImplementsOfferAnswer
