\* One hash, printed strings, every fault.
SPECIFICATION FairSpec
CONSTANTS
    a1 = a1
    a2 = a2
    c1 = c1
    c2 = c2
    c3 = c3
    h1 = h1
    h2 = h2
    NoAsset = NoAsset
    NoDeal = NoDeal
    NoHtlc = NoHtlc
    Assets <- MCAssets
    Channels <- MCChannels
    ContractOf <- MCContractOf
    Hashes <- MCHashes1
    SwapStrings <- MCStringsFaults
    Timeouts <- MCTimeouts
    Fees <- MCFees0
    MakerRgb <- MCMakerRgb
    TakerRgb <- MCTakerRgb
    TakerBalances <- MCNoChange
    HTLC_MIN_MSAT = 3
    U64 = 16
    EditedStrings = FALSE
    Faults = {"restart", "close", "timeout"}
    MaxTime = 2
    MaxAccepts = 2
PROPERTIES
    SwapEnds
