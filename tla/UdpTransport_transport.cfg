SPECIFICATION FairSpec
CONSTANTS
    InitialSsthresh = 3
    MaxCwnd = 5
    MaxRetransmits = 3
    MaxSeq = 2
INVARIANTS
    TypeOK
    EveryPacketAccounted
    InFlightCovered
PROPERTIES
    PacketsSettle
    WindowReopens
CHECK_DEADLOCK FALSE
