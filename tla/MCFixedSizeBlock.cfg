CONSTANTS
    HeapStart = 4
    HeapSize = 7
    Layouts <- MCLayouts
    BLOCK_SIZES <- MCBlockSizes
SPECIFICATION Spec
INVARIANTS HeapPartitioned
PROPERTIES BlocksKeepTheirSize ImplementsGlobalAlloc
