\* A scan beside the Inserts and Removes of another thread, on a root over
\* two leaves.
SPECIFICATION Spec
CONSTANTS
    Keys = {1, 2, 3, 4, 5}
    PageIds = {1, 2, 3, 4, 5}
    LeafMaxSize = 3
    InternalMaxSize = 4
    Threads = {t1, t2}
    Scanners = {t1}
    ScanKeys = {}
    InitialIndex <- FromTwoLeaves
INVARIANT ScanIsIncreasing

