\* One hash, any string the users may type, restarts and timeouts.
SPECIFICATION Spec
CONSTANTS
    a1 = a1
    a2 = a2
    c1 = c1
    c2 = c2
    c3 = c3
    h1 = h1
    h2 = h2
    NoAsset = NoAsset
    NoDeal = NoDeal
    NoHtlc = NoHtlc
    Assets <- MCAssets
    Channels <- MCChannels
    ContractOf <- MCContractOf
    Hashes <- MCHashes1
    SwapStrings <- MCStringsEdited
    Timeouts <- MCTimeouts
    Fees <- MCFees0
    MakerRgb <- MCMakerRgb
    TakerRgb <- MCTakerRgb
    TakerBalances <- MCTakerBalances
    HTLC_MIN_MSAT = 3
    U64 = 16
    EditedStrings = TRUE
    Faults = {"restart", "timeout"}
    MaxTime = 2
    MaxAccepts = 2
INVARIANTS
    TypeOK
    HeldHtlcIsOneSided
    ForwardHonoursDeal
    AcceptanceUsedOnce
    InfoWrongOnlyIfRetyped
PROPERTIES
    ImplementsAtomicSwap
    UncoveredOnlyIfSpent
