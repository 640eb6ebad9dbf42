SPECIFICATION Spec
CONSTANTS
    Root = root
    Accts = {root, a1, a2, a3, a4, a5}
    Keys = {up, k1}
    UpgradeAuthority = up
    Null = Null
    PC_MAP_TABLE_SIZE = 2
    MAX_FEED_INDEX = 5
    MaxMissing = 1
SYMMETRY Symmetry
INVARIANTS
    TypeOK
    MappingsExact
    FeedsReachable
PROPERTIES
    FeedIndexFresh
