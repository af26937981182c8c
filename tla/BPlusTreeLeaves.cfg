\* One thread on leaves of at most three keys, from the empty index and from
\* a root over two leaves: every way a leaf fills, splits, lends and merges.
SPECIFICATION Spec
CONSTANTS
    Keys = {1, 2, 3, 4, 5, 6}
    PageIds = {1, 2, 3, 4, 5, 6}
    LeafMaxSize = 3
    InternalMaxSize = 4
    Threads = {t1}
    Scanners = {t1}
    ScanKeys = {1, 2, 3, 4, 5, 6}
    InitialIndex <- FromLeaves
INVARIANT TypeOK
INVARIANT OnlyLookupAsserts
INVARIANT CheckAgreesWithWellFormed
PROPERTY Linearizable
PROPERTY OperationReturns
PROPERTY LoneScanYieldsIndex
