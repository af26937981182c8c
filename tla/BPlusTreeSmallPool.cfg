\* One thread and a buffer pool of two pages: the second split of the root
\* leaf finds no page left.
SPECIFICATION Spec
CONSTANTS
    Keys = {1, 2, 3, 4, 5, 6}
    PageIds = {1, 2}
    LeafMaxSize = 3
    InternalMaxSize = 4
    Threads = {t1}
    Scanners = {}
    ScanKeys = {}
    InitialIndex <- FromEmpty
INVARIANT OnlyLookupAsserts
