\* Two threads on leaves of at most three keys, from the empty index and from
\* a root over two leaves, in every interleaving of their steps; one of them
\* also scans.
SPECIFICATION Spec
CONSTANTS
    Keys = {1, 2, 3, 4, 5}
    PageIds = {1, 2, 3, 4, 5}
    LeafMaxSize = 3
    InternalMaxSize = 4
    Threads = {t1, t2}
    Scanners = {t2}
    ScanKeys = {3}
    InitialIndex <- FromTwoLeaves
INVARIANT SomeOperationCanStep
INVARIANT PinsAreBalanced
PROPERTY Linearizable
PROPERTY ChangesUnderOwnLatch
PROPERTY DeletedPageIsUnpinned
PROPERTY RootChangesUnderRootLatch
