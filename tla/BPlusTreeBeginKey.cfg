\* One thread on leaves of at most three keys that opens iterators at every
\* key, in the index or not.
SPECIFICATION Spec
CONSTANTS
    Keys = {1, 2, 3, 4, 5, 6}
    PageIds = {1, 2, 3, 4, 5, 6}
    LeafMaxSize = 3
    InternalMaxSize = 4
    Threads = {t1}
    Scanners = {t1}
    ScanKeys = {1, 2, 3, 4, 5, 6}
    InitialIndex <- FromLeaves
PROPERTY LoneScanStartsAtKey
