\* Every operation, every exit.  A node may really get stuck here.
SPECIFICATION FairSpec
CONSTANTS
    Operations <- AllOperations
    Outcomes = {"ok", "err"}
    Tasks = {"task1", "task2"}
    MaxOutputs = 2
INVARIANTS
    TypeOK
    DeadlockNeedsColoredFunding
    DropsOnlyItsOwn
    RuntimeLostOnlyThere
PROPERTIES
    OperationsFinish
CHECK_DEADLOCK FALSE
