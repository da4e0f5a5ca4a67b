CONSTANTS
    HeapSize = 8
    BaseAddr = 0
    HeaderSizes = {0, 1}
    Aligns <- MCAligns
    AllocSizes = {1, 2, 3}
    ListOrders = {"ADDRSORT", "SIZESORT+", "SIZESORT-", "INSERT-FRONT", "INSERT-BACK"}
    MaxOps = 4
    MaxPage = 4
    NumAddrs = 5
    CacheSizes = {2, 3}
    ClockBits = {1, 2}
    AddrSizes <- MCAddrSizes
    PhysSizes <- MCPhysSizes
    PageSizes <- MCPageSizes
    GivenLens <- MCGiven
    GivenBases <- MCGivenBases
    BaseSamples = {0, 1, 3, 7, 12}
    Slots = 2
    Frames = 7
    MaxAllocated = 3
    FillBytes = {0}
    RaidOptions <- MCRaidOptions
    Range0 = 12
    NumTracks = 5
    BlocksPerTrack = 2
    MaxRequests = 2
    DiskOptions <- MCDiskOptions
    Circle = 16
    TrackWidth = 2
    DiskMaxTime = 120
    Simulators = {"malloc", "paging", "translation", "multilevel", "raid", "disk"}
SPECIFICATION MemorySpec
INVARIANTS HeapSound PagingRight TranslationRight RaidRight 
 
CHECK_DEADLOCK FALSE
