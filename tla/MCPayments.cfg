\* Two payments each way, resends and restarts.
SPECIFICATION FairSpec
CONSTANTS
    o1 = o1
    o2 = o2
    i1 = i1
    i2 = i2
    Outgoing <- MCOutgoing
    Incoming <- MCIncoming
    Restarts = TRUE
    Resend = TRUE
INVARIANTS
    TypeOK
    SucceededWasPaid
    StuckPendingCameEarly
PROPERTIES
    ClaimedIsRecorded
