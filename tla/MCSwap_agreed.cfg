\* Two hashes, printed strings, nothing goes wrong.
SPECIFICATION FairSpec
CONSTANTS
    a1 = a1
    a2 = a2
    c1 = c1
    c2 = c2
    c3 = c3
    h1 = h1
    h2 = h2
    NoAsset = NoAsset
    NoDeal = NoDeal
    NoHtlc = NoHtlc
    Assets <- MCAssets
    Channels <- MCChannels
    ContractOf <- MCContractOf
    Hashes <- MCHashes2
    SwapStrings <- MCStringsPlain
    Timeouts <- MCTimeouts
    Fees <- MCFees
    MakerRgb <- MCMakerRgb
    TakerRgb <- MCTakerRgb
    TakerBalances <- MCNoChange
    HTLC_MIN_MSAT = 3
    U64 = 16
    EditedStrings = FALSE
    Faults = {}
    MaxTime = 2
    MaxAccepts = 1
PROPERTIES
    AgreedSwapSettles
CHECK_DEADLOCK FALSE
