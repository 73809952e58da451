\* Retries and a crash of either node.
SPECIFICATION FairSpec
CONSTANTS
    Seals = {s1, s2}
    Supply = 2
    MaxSends = 3
    MaxCrashes = 1
INVARIANTS
    TypeOK
    PaidIsClaimable
    DoneIsMined
    HiddenChangeNeedsCrash
PROPERTIES
    MinedIsCredited
