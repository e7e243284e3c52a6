SPECIFICATION MCSpec
CONSTANTS
    seeker = seeker
    server = server
    nowhere = nowhere
    Nodes = {seeker, server}
    IdBits = 2
    K = 2
    IdOf <- MCIdOf
    Known <- MCKnown
    Seeds <- MCSeeds
    Hashes <- MCHashes
    GarbageNodes <- MCGarbageNodes
    GarbagePeers = {nowhere}
    Seekers = {seeker}
    Announcers = {seeker, server}
    Stoppers = {server}
    Agers = {seeker}
    Alpha = 1
    MaxRounds = 2
    BootRounds = 1
    MaxPeersPerHash = 1
    MaxDgrams = 1
    Trackers = {t1}
    Clients = {seeker}
    TrackerPeers = {}
    Attempts = 1
INVARIANT AnsweredPeersAreFound
CHECK_DEADLOCK FALSE
