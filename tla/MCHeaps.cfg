CONSTANTS
    HeapStart = 4
    HeapSize = 24
    NodeSize = 4
    NodeAlign = 2
    BumpStart = 17
    Layouts <- MCLayouts
SPECIFICATION HeapsSpec
INVARIANTS RegionsHoldNodes ListSharesNothing BumpCounts
PROPERTIES LossOnlyByAlignment ImplementsGlobalAlloc
