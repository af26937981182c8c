\* Two callers: what the directory and the mutexes guarantee whatever the interleaving.
SPECIFICATION Spec
CONSTANTS
    Keys <- MCKeys
    Hash <- MCHash
    Values = {v1}
    Threads = {t1, t2}
    bucketSize = 1
    MaxDepth = 2
    NoThread = NoThread
    NotFound = NotFound
INVARIANT TypeOK
INVARIANT DirectoryConsistent
INVARIANT NumBucketsExact
INVARIANT LockOrder
INVARIANT SomeCallCanStep
VIEW Structure
