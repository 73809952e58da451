\* Is channel data updated after the background processor has stopped?
SPECIFICATION Spec
CONSTANTS
    Peers = {p1}
    Hosts = {}
INVARIANTS
    NoUpdateAfterBackgroundStops
CHECK_DEADLOCK FALSE
