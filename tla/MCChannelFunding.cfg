\* Two channels, sends and a restart.  Everything may have been spent in the end.
SPECIFICATION FairSpec
CONSTANTS
    ch1 = ch1
    ch2 = ch2
    Channels <- TwoChannels
    Amount <- Amounts
    Supply <- TwoOutputs
    MaxOut = 5
    MaxRestarts = 1
INVARIANTS
    TypeOK
    NothingIsLost
    HiddenChangeHasCause
    UncoveredOnlyIfSpentSince
    VanillaOnlyIfHasty
PROPERTIES
    ChangeIsAccepted
CHECK_DEADLOCK FALSE
