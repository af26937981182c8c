\* The first split of the root, from the empty index.
SPECIFICATION Spec
CONSTANTS
    Keys = {1, 2, 3, 4}
    PageIds = {1, 2, 3, 4}
    LeafMaxSize = 3
    InternalMaxSize = 4
    Threads = {t1}
    Scanners = {t1}
    ScanKeys = {}
    InitialIndex <- FromEmpty
INVARIANT RootHasTwoChildren
