CONSTANTS
    PageSize = 256
    MemoryMaps <- MCMaps
    HeapFirst = 24
    HeapLen = 2
    PagesFirst = 1
    GroupSize = 3
    Requests <- MCRequests
    MaxMaps = 0
    LocalBases <- MCLocalBases
    IoBases <- MCIoBases
    RedirectionTables <- MCTables
    RedirBase = 2
    RegMax = 9
    ConfigSpaces <- MCConfigSpaces
    Buses = 2
    Slots = 3
    AmlPciReads <- MCAmlPciReads
    SymbolTable <- MCSymbols
    Faults <- MCFaults
SPECIFICATION Spec
INVARIANT FaultNamesFunction
