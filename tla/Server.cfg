CONSTANTS
    h1 = h1
    h2 = h2
    p1 = p1
    Handlers = {h1, h2}
    Peers = {p1}
    Nobody = Nobody
    Plain = Plain
    Blank = Blank
    MaxAhead = 2
    OutboxSize = 1
    OutgoingSize = 2
    Configurations <- MCConfigurations
SPECIFICATION FairSpec
INVARIANTS
    TimerIsForOwnRequest
    OutgoingHasRoom
    SendsOnConnection
PROPERTIES
    InfoAnswered
    BroadcastsLatest
    StopEndsConnections
    StopClosesPeers
CHECK_DEADLOCK FALSE
