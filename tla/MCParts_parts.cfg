SPECIFICATION PartsSpec
CONSTANTS
    webMedia = webMedia
    fileMedia = fileMedia
    IdBits = 2
    K = 2
    LocalId <- MCLocal
    Addrs = {x, y}
    Trackers = {t1, t2}
    Clients = {c1}
    TrackerPeers = {x}
    Attempts = 3
    Peers = {p1, p2}
    Blocks = {b1}
    MaxCalls = 4
    NumPieces = 4
    Near = 1
    Far = 2
    Urls = {u1}
    Holdings <- MCHoldings
    MaxSeeks = 2
    Hashes = {h1, h2}
    Ends = {1, 3}
    Threshold = 2
    Times = {0, 1, 2}
    Cleaners = {k1, k2}
    MaxWrites = 3
    MaxWriters = 2
    Media = {webMedia, fileMedia}
    MediaKind <- MCKind
    End = 1
    MaxInputs = 2
    MaxEntries = 2
    MaxStatuses = 1
    Cap = 7
    Total = 7
    MaxWrite = 3
    PlayPositions = {0, 3}
INVARIANTS EveryTrackerTried MessagesInOrder CountersSettle NoStrayFiles ReportsNotEchoed
           ReadReturnsFileBytes
PROPERTIES IndicesHold KnownNodesStay CleanupKeepsFresh IsFileCopy
SYMMETRY Alike
CHECK_DEADLOCK FALSE
