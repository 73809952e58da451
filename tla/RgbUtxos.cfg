\* A restart after any step; room for createutxos while a coloured funding waits.
SPECIFICATION Spec
CONSTANTS
    Contracts = {c1}
    NoAsset = NoAsset
    Coins = 1
    MaxOut = 5
    UTXO_NUM = 1
    MaxCrashes = 1
INVARIANTS
    TypeOK
    LossNeedsStaleCopyOrCrash
    HandedOutOnce
    AssetsAreListed
    MarkedIsUsed
CHECK_DEADLOCK FALSE
