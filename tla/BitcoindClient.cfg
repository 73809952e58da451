\* An estimate below the minimum, one above, or none.
SPECIFICATION ClientSpec
CONSTANTS
    Answers = {1000, 8002}
    NoEstimate = NoEstimate
    MaxRounds = 3
INVARIANTS
    RatesOfOnePoll
    NeverBelowMinimum
CHECK_DEADLOCK FALSE
