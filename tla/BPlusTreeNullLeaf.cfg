\* Two threads on an index that may become empty: one of them passes the
\* test for an empty tree, the other removes the last key.
SPECIFICATION Spec
CONSTANTS
    Keys = {1, 2}
    PageIds = {1, 2, 3}
    LeafMaxSize = 3
    InternalMaxSize = 4
    Threads = {t1, t2}
    Scanners = {}
    ScanKeys = {}
    InitialIndex <- FromEmpty
INVARIANT LeafIsFound
