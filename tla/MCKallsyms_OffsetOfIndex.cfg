\* More symbols than one marker covers.
SPECIFICATION Spec
CONSTANTS
    NrCodes = 10
    MarkerEvery = 2
    AddrSpace = 8
    Maps <- MCMaps
    Underscore = 6
    WeakTypes = {2}
    AbsTypes = {4}
    UndefTypes = {9}
    DebugTypes = {5}
    StextName <- MCStext
    EtextName <- MCEtext
    TextName <- MCText
    KeptAbsolutes <- MCKept
    DollarNames <- MCDollar
    Excluded <- MCTables
    LinkerProvided <- MCProvided
INVARIANTS OffsetOfIndex
