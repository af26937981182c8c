\* One thread on trees of three levels, with leaves of a single key: splits,
\* merges and redistributions of internal pages, up to the root and down
\* from it.  States that differ in the names of the pages alone are one.
SPECIFICATION Spec
CONSTANTS
    Keys = {1, 2, 3, 4, 5, 6, 7}
    PageIds = {1, 2, 3, 4, 5, 6, 7, 8, 9, 10, 11, 12}
    LeafMaxSize = 1
    InternalMaxSize = 4
    Threads = {t1}
    Scanners = {t1}
    ScanKeys = {1, 2, 3, 4, 5, 6, 7}
    InitialIndex <- FromThreeLevels
INVARIANT WellFormedBetweenOperations
INVARIANT CheckAgreesWithWellFormed
INVARIANT PinsAreBalanced
PROPERTY Linearizable
VIEW Canonical
PROPERTY LoneScanYieldsIndex
