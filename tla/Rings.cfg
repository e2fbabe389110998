CONSTANTS
    Tokens = {"MSG_SENT", "MSG_RECEIVED", "NEIGHBOR_TIMEOUT", "REARM_TIMER"}
    SqEntries = 2
    CqEntries = 2
    Width = 4
SPECIFICATION FairSpec
INVARIANTS TypeOK HeldStable CleanRequests
PROPERTIES ImplementsRingSpec BacklogDelivered
