\* Two callers on a tree of three levels: is a page changed only by the operation that holds its write latch?
SPECIFICATION Spec
CONSTANTS
    Keys = {1, 2, 3, 4, 5, 6}
    PageIds = {1, 2, 3, 4, 5, 6, 7, 8, 9, 10}
    LeafMaxSize = 1
    InternalMaxSize = 4
    Threads = {t1, t2}
    Scanners = {}
    ScanKeys = {}
    InitialIndex <- FromThreeLevels
PROPERTY ChangesUnderOwnLatch
VIEW Canonical
