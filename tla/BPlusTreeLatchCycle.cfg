\* Two callers on a tree of three levels: do operations ever wait for each other's latches?
SPECIFICATION Spec
CONSTANTS
    Keys = {1, 2, 3, 4, 5, 6}
    PageIds = {1, 2, 3, 4, 5, 6, 7, 8, 9, 10}
    LeafMaxSize = 1
    InternalMaxSize = 4
    Threads = {t1, t2}
    Scanners = {}
    ScanKeys = {}
    InitialIndex <- FromThreeLevels
INVARIANT NoLatchCycle
VIEW Canonical
