\* Up to eight symbols, fewer than one marker covers (256 in the code).  The calls
\* of a routine are bounded: a behaviour ends.
SPECIFICATION SpecRoutines
CONSTANTS
    NrCodes = 10
    MarkerEvery = 16
    AddrSpace = 8
    Maps <- MCMaps
    Underscore = 6
    WeakTypes = {2}
    AbsTypes = {4}
    UndefTypes = {9}
    DebugTypes = {5}
    StextName <- MCStext
    EtextName <- MCEtext
    TextName <- MCText
    KeptAbsolutes <- MCKept
    DollarNames <- MCDollar
    Excluded <- MCTables
    LinkerProvided <- MCProvided
    PAGE_SIZE = 2
    PTRS = 4
    TextBoot = 36
    DdrEnd = 48
    PgDir = 36
    FreePages <- MCFreePages
    Mappings <- MCMappings
    MaxMappings = 3
    DumpAt = {0, 3, 7, 16, 17, 36, 39, 48}
    XLEN = 6
    Requests <- MCRequests
    MaxRequests = 2
    MemEnd = 100
    Fills <- MCFills
    LongBits = 8
    IntBits = 6
    ShortBits = 4
    Directives <- MCDirectives
    Args = {0, 1, 8, 31, 127, 128, 255}
    Strings <- MCStrings
    TextEnd = 4
    Top = 12
    Sizes = {2, 4}
    Sites = {1, 2}
INVARIANTS NamesSurvive LookupRight
INVARIANTS TablesShowMappings AccessAsRequested FilledExactly
INVARIANTS  TrapsFindHandlers 
PROPERTIES PassesAgree
CHECK_DEADLOCK FALSE
