\* Two peers, one known by a host name.  The process may end.
SPECIFICATION FairSpec
CONSTANTS
    Peers = {p1, p2}
    Hosts = {p1}
PROPERTIES
    NoNewAttemptAfterStop
    ChannelPeersAreTried
CHECK_DEADLOCK FALSE
