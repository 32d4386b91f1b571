CONSTANTS
    Threads = {t1, t2}
    PathArgs <- MCPaths
    Targets <- MCTargets
    Sources <- MCSources
    HostTree <- MCTree
    OpenFlags <- MCFlags
    MaxMounts = 2
    MaxNodes = 5
    MaxFiles = 2
    MaxCalls = 4
    SizeMax = 11
    SsizeMax = 5
    IovMax = 3
    AddrBuf = 3
    StorageSize = 3
    EntrySize = 2
    HostBuf = 50
    MinimumDate = 2
    QuoteHead = 2
    AuthHead = 1
    ReportSize = 2
    ReportDataSize = 2
    HeaderSize = 4
    MaxEndorsements = 28
    VerifierIds <- MCVerifierIds
    HostFormats <- MCHostFormats
    UserIds = {"ecdsa", "own"}
    MaxArrays = 2
    PageSize = 4
    MaxTcs = 2
    SigningAddress = 65536
    Clients = {t1, t2}
    MaxBlocks = 3
    MaxAllocs = 4
    Modulus = 64
    WordSize = 4
    HeaderBytes = 16
    BufferAlign = 8
    SealPlugins <- MCSealPlugins
    MaxSealPlugins = 3
    Callers = {t1, t2}
    Interfaces <- MCInterfaces
    Stubs <- MCStubs
    InitialCapacity = 2
INIT Init
NEXT Next
SYMMETRY ThreadSymmetry
INVARIANTS  PathsConfined  RoundTrips  BlocksListed FormatsServed
PROPERTIES VerdictRight LayoutSound
CHECK_DEADLOCK FALSE
