\* Crashes at every step of four starts, which may be the last.
SPECIFICATION Spec
CONSTANTS
    Channels = {c1, c2}
    Outputs = {o1, o2}
    MaxStarts = 4
INVARIANTS
    SameKey
    NothingForgottenOnceSaved
CHECK_DEADLOCK FALSE
